---------------------------- MODULE ThreadFence -----------------------------
(***************************************************************************)
(* What every run store promises the runtime above it, without leases,      *)
(* clocks, transactions or locks: a thread has one open run at a time, only *)
(* the open run of a thread writes its log and the thread's checkpoint, the *)
(* two move together, and a closed run is never written again.              *)
(*                                                                         *)
(* RunStore, PgStore and SqliteStore implement it; each says how its tables *)
(* map to tenure and note.  PgStore does so only without InOrder.           *)
(***************************************************************************)
EXTENDS Naturals

CONSTANTS
  Runs, Threads, None,
  InOrder  \* whether the event of a reaper always comes last

VARIABLES
  tenure,  \* run -> [thread, seq, open]: its thread, its last event, whether it may write; or None
  note     \* thread -> [run, seq]: the checkpoint and the event it was saved with; or None

vars == <<tenure, note>>

Open(r) == tenure[r] # None /\ tenure[r].open

Init ==
  /\ tenure = [r \in Runs |-> None]
  /\ note = [t \in Threads |-> None]

\* A new run is let onto a thread nobody is on.
Admit(r) ==
  /\ tenure[r] = None
  /\ \E t \in Threads :
       /\ \A q \in Runs : Open(q) => tenure[q].thread # t
       /\ tenure' = [tenure EXCEPT ![r] = [thread |-> t, seq |-> 0, open |-> TRUE]]
  /\ note' = note

\* The open run extends its log, saves the checkpoint with it or not, and may close.
Extend(r) ==
  /\ Open(r)
  /\ tenure'[r].thread = tenure[r].thread
  /\ tenure'[r].seq >= tenure[r].seq
  /\ tenure'[r].open \/ tenure'[r].seq > tenure[r].seq
  /\ tenure' = [tenure EXCEPT ![r] = [thread |-> tenure[r].thread, seq |-> tenure'[r].seq,
                                      open |-> tenure'[r].open]]
  /\ note' \in {note, [note EXCEPT ![tenure[r].thread] = [run |-> r, seq |-> tenure'[r].seq]]}

\* A reaper closes several runs at once, with one more event each: the next, or one whose
\* number the open run has passed without using it.
Expire(S) ==
  /\ \A r \in S : /\ Open(r)
                  /\ \/ tenure'[r].seq = tenure[r].seq + 1
                     \/ ~InOrder /\ tenure'[r].seq = tenure[r].seq
  /\ tenure' = [r \in Runs |-> IF r \in S
                  THEN [thread |-> tenure[r].thread, seq |-> tenure'[r].seq, open |-> FALSE]
                  ELSE tenure[r]]
  /\ note' = note

Next ==
  \/ \E S \in SUBSET Runs : Expire(S)
  \/ \E r \in Runs : Admit(r) \/ Extend(r)

Spec == Init /\ [][Next]_vars
=============================================================================
