---------------------------- MODULE SqliteStore ----------------------------
(***************************************************************************)
(* SqliteStore: the run store on one SQLite file.  Every call is one BEGIN   *)
(* IMMEDIATE transaction, so calls of several connections do not interleave, *)
(* with two exceptions: start_run reads the clock before it waits for the     *)
(* write lock, and reap_stale lists the lapsed runs in one transaction and    *)
(* ends them in another.  Time is the wall clock of the machine, which may be  *)
(* set back.  Waiting for the lock ends with SQLITE_BUSY after five seconds,  *)
(* and the process may die: either way the call leaves no trace of its        *)
(* current transaction.                                                      *)
(*                                                                         *)
(* A connection runs its calls one after the other on its own thread, so a    *)
(* client of the model is a connection.  There is one (scope, session), one    *)
(* effect a run, and one entry to a write.                                   *)
(***************************************************************************)
EXTENDS Integers, FiniteSets, FiniteSetsExt

CONSTANTS
  Clients,    \* connections, of any number of processes
  Requests,   \* the calls of the clients
  Runs, Threads, Keys, Leases, EntryKeys,
  Payloads,   \* bodies of entries, told apart by equality
  Ttl, ReapLimit,
  None,
  MaxClock,   \* bounds: the clock and the calls made
  MaxCalls

VARIABLES
  runs,         \* typemach_runs: run -> its row, or None
  threadLease,  \* typemach_thread_leases: thread -> its row, or None
  checkpoints,  \* typemach_checkpoints: thread -> its row, or None
  effects,      \* typemach_effects: run -> the status of its one effect, or None
  entries,      \* typemach_entries of the session: key -> its row, or None
  call,         \* client -> the call it is in, or None
  listed,       \* the reaper between its transactions: run -> the event built for it, or 0
  clock,
  calls

tables == <<runs, threadLease, checkpoints, effects, entries>>
vars == <<tables, call, listed, clock, calls>>

-----------------------------------------------------------------------------
Entry == [key : EntryKeys, body : Payloads]
EntryRow == [run : Runs, seq : Nat, body : Payloads]
Row ==
  [status : {"running"}, thread : Threads, key : Keys \cup {None},
   lease : Leases \cup {None}, until : Nat, seq : Nat, cancel : BOOLEAN]
  \cup [status : {"finished", "error"}, thread : Threads, key : Keys \cup {None},
        lease : {None}, until : {0}, seq : Nat, cancel : BOOLEAN]
ThreadLease == [run : Runs, lease : Leases, until : Nat]
Checkpoint == [run : Runs, seq : Nat]
EffectStatus == {"reserved", "started", "done", "failed", "unknown"}

\* A lease stands for the pair of owner and lease id.
Calls ==
  [op : {"start"}, run : Runs, thread : Threads, key : Keys \cup {None},
   lease : Leases \cup {None}, entry : Entry \cup {None}]
  \cup [op : {"commit"}, run : Runs, lease : Leases \cup {None}, seq : Nat,
        finish : BOOLEAN, saves : BOOLEAN, effect : EffectStatus \cup {None}, entry : Entry \cup {None}]
  \cup [op : {"renew", "release", "reserve_effect", "start_effect"}, run : Runs,
        lease : Leases \cup {None}]
  \cup [op : {"mark_cancelled"}, run : Runs]

CommitCall(r, l, seq, finish, saves, effect, e) ==
  [op |-> "commit", run |-> r, lease |-> l, seq |-> seq, finish |-> finish, saves |-> saves,
   effect |-> effect, entry |-> e]

\* finish_run and record_event: one event, by whoever, without a lease.
FinishCall(r, seq, e) == CommitCall(r, None, seq, TRUE, FALSE, None, e)
RecordCall(r, seq) == CommitCall(r, None, seq, FALSE, FALSE, None, None)

ASSUME CallsAssumption ==
  /\ Requests \subseteq Calls /\ IsFiniteSet(EntryKeys)
  /\ {Ttl, ReapLimit, MaxClock, MaxCalls} \subseteq Nat

ASSUME NoneAssumption ==
  /\ None \notin Runs \cup Threads \cup Keys \cup Leases \cup Entry \cup EffectStatus
  /\ None \notin Row \cup ThreadLease \cup EntryRow \cup [req : Requests, now : 0 .. MaxClock]

Exists(r) == runs[r] # None
Running(r) == Exists(r) /\ runs[r].status = "running"

\* running_thread_tx
RunningOthers(t, r) == {q \in Runs \ {r} : Running(q) /\ runs[q].thread = t}

\* find_idempotent_tx
KeyUsed(k) == k # None /\ \E r \in Runs : Exists(r) /\ runs[r].key = k

-----------------------------------------------------------------------------
Init ==
  /\ runs = [r \in Runs |-> None]
  /\ threadLease = [t \in Threads |-> None]
  /\ checkpoints = [t \in Threads |-> None]
  /\ effects = [r \in Runs |-> None]
  /\ entries = [k \in EntryKeys |-> None]
  /\ call = [p \in Clients |-> None]
  /\ listed = [r \in Runs |-> 0]
  /\ clock = 0 /\ calls = 0

\* Nobody acts for a run or with its lease before it has been started.  The clock is read
\* as the call reaches the connection's thread; only a start uses what was read then.
Call(p, req) ==
  /\ call[p] = None /\ calls < MaxCalls
  /\ req.op # "start" => Exists(req.run)
  /\ call' = [call EXCEPT ![p] = [req |-> req, now |-> IF req.op = "start" THEN clock ELSE 0]]
  /\ calls' = calls + 1
  /\ UNCHANGED <<tables, listed, clock>>

In(p, op) == call[p] # None /\ call[p].req.op = op

\* The transaction of p's call commits, or is rolled back with its tables unchanged.
Ends(p) ==
  /\ call' = [call EXCEPT ![p] = None]
  /\ UNCHANGED <<listed, clock, calls>>

-----------------------------------------------------------------------------
(* Entries and effects.                                                     *)

\* check_entries_tx
EntryConflict(e) == e # None /\ entries[e.key] # None /\ entries[e.key].body # e.body

EntrySeqs == {entries[k].seq : k \in {k \in EntryKeys : entries[k] # None}}

\* apply_entries_tx: a key the session holds is left alone
WithEntry(r, e) ==
  IF e = None THEN entries ELSE IF entries[e.key] # None THEN entries
  ELSE [entries EXCEPT ![e.key] = [run |-> r, seq |-> Max(EntrySeqs \cup {0}) + 1, body |-> e.body]]

\* validate_effect_updates_tx: done stays done
EffectRefused(r, to) ==
  \/ to \in {"reserved", "started"}
  \/ to # None /\ effects[r] = None
  \/ to # None /\ effects[r] = "done" /\ to # "done"

-----------------------------------------------------------------------------
(* start_run.                                                               *)

\* Existing, StartConflict, ThreadBusy or EntryConflict.
StartRefused(s) ==
  Exists(s.run) \/ KeyUsed(s.key) \/ RunningOthers(s.thread, s.run) # {} \/ EntryConflict(s.entry)

\* claim_thread_tx takes the place of a lease that lapsed before the clock was read.
ClaimRefused(s, now) ==
  s.lease # None /\ threadLease[s.thread] # None /\ threadLease[s.thread].until > now

StartRun(p) ==
  LET s == call[p].req
      until == IF s.lease = None THEN 0 ELSE call[p].now + Ttl IN
    /\ In(p, "start")
    /\ IF StartRefused(s) \/ ClaimRefused(s, call[p].now)
         THEN UNCHANGED <<runs, threadLease, entries>>
         ELSE /\ runs' = [runs EXCEPT ![s.run] =
                   [status |-> "running", thread |-> s.thread, key |-> s.key, lease |-> s.lease,
                    until |-> until, seq |-> 0, cancel |-> FALSE]]
              /\ threadLease' = IF s.lease = None THEN threadLease
                   ELSE [threadLease EXCEPT ![s.thread] =
                           [run |-> s.run, lease |-> s.lease, until |-> until]]
              /\ entries' = WithEntry(s.run, s.entry)
    /\ Ends(p) /\ UNCHANGED <<checkpoints, effects>>

-----------------------------------------------------------------------------
(* commit_run, finish_run and record_event.                                 *)

\* check_sqlite_lease, and the same check of check_op_run_tx
LeaseHeld(r, lease) ==
  runs[r].lease # None => lease = runs[r].lease /\ runs[r].until > clock

\* check_thread_tx, when the commit carries a checkpoint
ThreadHeld(r, lease) ==
  LET held == threadLease[runs[r].thread] IN
    /\ RunningOthers(runs[r].thread, r) = {}
    /\ IF runs[r].lease = None
         THEN held # None => held.until <= clock
         ELSE held # None /\ held.run = r /\ held.lease = lease /\ held.until > clock

\* validate_commit: seq 0 is a commit without events, which ends nothing.
ValidCommit(c) == c.finish => c.seq > 0

\* Mutant: the seq is not compared with the log.
CommitAllowed_AnySeq(c) ==
  /\ Running(c.run) /\ LeaseHeld(c.run, c.lease)
  /\ c.saves => ThreadHeld(c.run, c.lease)
  /\ ~EffectRefused(c.run, c.effect) /\ ~EntryConflict(c.entry)

\* Skipped, AlreadyFinished, LeaseLost, ThreadBusy, EffectConflict, InvalidRunEvent or
\* EntryConflict otherwise.
CommitAllowed(c) ==
  /\ Running(c.run) /\ LeaseHeld(c.run, c.lease)
  /\ c.saves => ThreadHeld(c.run, c.lease)
  /\ ~EffectRefused(c.run, c.effect) /\ ~EntryConflict(c.entry)
  /\ c.seq > 0 => c.seq > runs[c.run].seq

\* delete_thread_tx
FreedThreads(S) ==
  [t \in Threads |-> IF threadLease[t] # None /\ threadLease[t].run \in S
                     THEN None ELSE threadLease[t]]

Ended(row, status, seq) ==
  [row EXCEPT !.status = status, !.seq = seq, !.lease = None, !.until = 0]

\* save_checkpoint_tx: the row of the thread is replaced
SavedCheckpoint(c, seq) ==
  IF c.saves THEN [checkpoints EXCEPT ![runs[c.run].thread] = [run |-> c.run, seq |-> seq]]
  ELSE checkpoints

CommitRun(p) ==
  LET c == call[p].req
      seq == IF c.seq = 0 THEN runs[c.run].seq ELSE c.seq IN
    /\ In(p, "commit")
    /\ IF ValidCommit(c) /\ CommitAllowed(c)
         THEN /\ runs' = [runs EXCEPT ![c.run] =
                   IF c.finish THEN Ended(@, "finished", seq) ELSE [@ EXCEPT !.seq = seq]]
              /\ threadLease' = IF c.finish THEN FreedThreads({c.run}) ELSE threadLease
              /\ checkpoints' = SavedCheckpoint(c, seq)
              /\ effects' = IF c.effect = None THEN effects ELSE [effects EXCEPT ![c.run] = c.effect]
              /\ entries' = WithEntry(c.run, c.entry)
         ELSE UNCHANGED tables
    /\ Ends(p)

-----------------------------------------------------------------------------
(* reserve_effect, start_effect and mark_cancelled.                         *)

\* check_op_run_tx
OpAllowed(c) == Running(c.run) /\ LeaseHeld(c.run, c.lease)

\* reserve_effect_tx: an effect that exists is answered as it is
ReserveEffect(p) ==
  LET c == call[p].req IN
    /\ In(p, "reserve_effect")
    /\ effects' = IF OpAllowed(c) /\ effects[c.run] = None
                  THEN [effects EXCEPT ![c.run] = "reserved"] ELSE effects
    /\ Ends(p) /\ UNCHANGED <<runs, threadLease, checkpoints, entries>>

\* start_effect_tx: what is started, unknown or done is not started again
StartEffect(p) ==
  LET c == call[p].req IN
    /\ In(p, "start_effect")
    /\ effects' = IF OpAllowed(c) /\ effects[c.run] \in {"reserved", "failed"}
                  THEN [effects EXCEPT ![c.run] = "started"] ELSE effects
    /\ Ends(p) /\ UNCHANGED <<runs, threadLease, checkpoints, entries>>

\* One UPDATE on its own; it also marks a run that has ended.
MarkCancelled(p) ==
  LET r == call[p].req.run IN
    /\ In(p, "mark_cancelled")
    /\ runs' = IF Exists(r) THEN [runs EXCEPT ![r].cancel = TRUE] ELSE runs
    /\ Ends(p) /\ UNCHANGED <<threadLease, checkpoints, effects, entries>>

-----------------------------------------------------------------------------
(* renew, release and reap_stale.                                           *)

Holds(c) == Running(c.run) /\ runs[c.run].lease # None /\ runs[c.run].lease = c.lease
HoldsThread(c, t) ==
  threadLease[t] # None /\ threadLease[t].run = c.run /\ threadLease[t].lease = c.lease

\* Mutant: only the run's row is renewed.
RenewedThread_Untouched(t) == threadLease

RenewedThread(t) == [threadLease EXCEPT ![t].until = clock + Ttl]

\* Both rows or none.
Renew(p) ==
  LET c == call[p].req
      t == runs[c.run].thread IN
    /\ In(p, "renew")
    /\ IF Holds(c) /\ runs[c.run].until > clock /\ HoldsThread(c, t) /\ threadLease[t].until > clock
         THEN /\ runs' = [runs EXCEPT ![c.run].until = clock + Ttl]
              /\ threadLease' = RenewedThread(t)
         ELSE UNCHANGED <<runs, threadLease>>
    /\ Ends(p) /\ UNCHANGED <<checkpoints, effects, entries>>

\* The run goes on without a lease; the thread's row goes.
Release(p) ==
  LET c == call[p].req IN
    /\ In(p, "release")
    /\ runs' = IF Holds(c) THEN [runs EXCEPT ![c.run].lease = None, ![c.run].until = 0] ELSE runs
    /\ threadLease' = [t \in Threads |-> IF HoldsThread(c, t) THEN None ELSE threadLease[t]]
    /\ Ends(p) /\ UNCHANGED <<checkpoints, effects, entries>>

Lapsed(r) == Running(r) /\ runs[r].lease # None /\ runs[r].until <= clock

\* Mutant: the terminal event takes the last seq of the log.
NextSeq_Last(r) == runs[r].seq

NextSeq(r) == runs[r].seq + 1

\* The first transaction of reap_stale, the oldest leases first, and the events built from
\* its rows.
List(S) ==
  /\ S # {} /\ \A r \in Runs : listed[r] = 0
  /\ \A r \in S : Lapsed(r)
  /\ Cardinality(S) <= ReapLimit
  /\ Cardinality(S) = ReapLimit \/ \A r \in Runs : Lapsed(r) => r \in S
  /\ \A r \in S, q \in Runs \ S : Lapsed(q) => runs[r].until <= runs[q].until
  /\ listed' = [r \in Runs |-> IF r \in S THEN NextSeq(r) ELSE 0]
  /\ UNCHANGED <<tables, call, clock, calls>>

\* Mutant: what was listed is ended without another look.
StillStale_Always(r) == TRUE

\* The second transaction looks again; a run renewed or ended since is passed over.
StillStale(r) == Lapsed(r)

\* A run that has written since, and is lapsed still, fails the whole batch.
ReapStale ==
  LET stale == {r \in Runs : listed[r] # 0 /\ StillStale(r)} IN
    /\ \E r \in Runs : listed[r] # 0
    /\ IF \A r \in stale : listed[r] = runs[r].seq + 1
         THEN /\ runs' = [r \in Runs |->
                   IF r \in stale THEN Ended(runs[r], "error", listed[r]) ELSE runs[r]]
              /\ threadLease' = FreedThreads(stale)
         ELSE UNCHANGED <<runs, threadLease>>
    /\ listed' = [r \in Runs |-> 0]
    /\ UNCHANGED <<checkpoints, effects, entries, call, clock, calls>>

-----------------------------------------------------------------------------
\* SQLITE_BUSY, an I/O error or the death of the process: the call is gone, and a reaper's
\* list with it.
Fail(p) == call[p] # None /\ Ends(p) /\ UNCHANGED tables
ReaperFails ==
  /\ \E r \in Runs : listed[r] # 0
  /\ listed' = [r \in Runs |-> 0] /\ UNCHANGED <<tables, call, clock, calls>>

\* SystemTime: it advances, or is set back.
SetClock ==
  /\ clock' \in {clock - 1, clock + 1} \cap (0 .. MaxClock)
  /\ UNCHANGED <<tables, call, listed, calls>>

Perform(p) ==
  \/ StartRun(p) \/ CommitRun(p) \/ ReserveEffect(p) \/ StartEffect(p)
  \/ MarkCancelled(p) \/ Renew(p) \/ Release(p)

Next ==
  \/ \E p \in Clients, req \in Requests : Call(p, req)
  \/ \E p \in Clients : Perform(p) \/ Fail(p)
  \/ \E S \in SUBSET Runs : List(S)
  \/ ReapStale \/ ReaperFails \/ SetClock

Spec == Init /\ [][Next]_vars

\* A reaper is run again and again, and does not fail every time.
FairSpec ==
  /\ Spec
  /\ WF_vars(\E S \in SUBSET Runs : List(S))
  /\ SF_vars(ReapStale)

-----------------------------------------------------------------------------
(* Properties.                                                              *)

\* Tables, calls and counters keep their shape.
TypeOK ==
  /\ runs \in [Runs -> Row \cup {None}]
  /\ threadLease \in [Threads -> ThreadLease \cup {None}]
  /\ checkpoints \in [Threads -> Checkpoint \cup {None}]
  /\ effects \in [Runs -> EffectStatus \cup {None}]
  /\ entries \in [EntryKeys -> EntryRow \cup {None}]
  /\ call \in [Clients -> [req : Requests, now : 0 .. MaxClock] \cup {None}]
  /\ listed \in [Runs -> Nat]
  /\ clock \in 0 .. MaxClock /\ calls \in 0 .. MaxCalls

\* The row of a thread in typemach_thread_leases and the lease of the running run on that
\* thread are the same lease with the same expiry, or neither is there, even when a start
\* computed the expiry from an old reading of the clock or the clock was set back.
LeasesAgree ==
  \A t \in Threads, r \in Runs :
    (Running(r) /\ runs[r].thread = t /\ runs[r].lease # None)
      <=> (threadLease[t] # None /\ threadLease[t].run = r)
LeasesEqual ==
  \A t \in Threads : threadLease[t] # None =>
    LET r == threadLease[t].run IN
      runs[r] # None /\ runs[r].lease = threadLease[t].lease /\ runs[r].until = threadLease[t].until
LeaseInv == TypeOK /\ LeasesAgree /\ LeasesEqual

\* A run the reaper ends has a lapsed lease at that moment and gets the next seq of its log,
\* whatever its owner did between the reaper's listing and its second transaction.
ReapedLapsed ==
  [][\A r \in Runs : Running(r) /\ runs'[r].status = "error" =>
       /\ runs[r].lease # None /\ runs[r].until <= clock
       /\ runs'[r].seq = runs[r].seq + 1]_vars

\* A run does not stay lapsed for ever while a reaper keeps running, although one run that
\* wrote between the reaper's transactions fails the batch of all the others.
LapsedReaped == \A r \in Runs : []<>~Lapsed(r)

Tenure == [thread : Threads, seq : Nat, open : BOOLEAN]

ASSUME TenureAssumption == None \notin Tenure

TenureOf(r) ==
  IF runs[r] = None THEN None
  ELSE [thread |-> runs[r].thread, seq |-> runs[r].seq, open |-> runs[r].status = "running"]

Fence == INSTANCE ThreadFence WITH
  InOrder <- TRUE,
  tenure <- [r \in Runs |-> TenureOf(r)],
  note <- checkpoints

\* The file behaves as ThreadFence: one running run on a thread, and only that run, until
\* it ends, extends its log and saves the thread's checkpoint with it.
ImplementsFence == Fence!Spec
=============================================================================
