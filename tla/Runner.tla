------------------------------- MODULE Runner -------------------------------
(***************************************************************************)
(* Runner: invocations (invoke or stream) of the runs of some threads by    *)
(* one process, the cancel_run calls that race with them, and the           *)
(* checkpoint each thread is restored from.                                 *)
(*                                                                         *)
(* Shared state is three maps behind their own mutexes, so what touches two *)
(* of them is two steps: active_runs, cancelled_runs and thread_locks; and  *)
(* the saver.  The control of an invocation (RunCancel) is an atomic flag    *)
(* and a Notify; waiting for it is arming a notification, looking at the     *)
(* flag and going to sleep, and cancelling it is setting the flag and        *)
(* notifying whoever is armed.  What a stream sends is left to TxRuntime;    *)
(* here its consumer may only leave.                                         *)
(***************************************************************************)
EXTENDS Integers, FiniteSets

CONSTANTS
  Runs,
  Threads,
  ThreadOf,     \* run -> its thread
  Invocations,
  Cancellers,   \* calls of cancel_run
  LastStep,     \* the machine's steps are 1..LastStep, start_step is 1
  None

CONSTANTS       \* what the model lets happen
  Kinds,        \* a subset of {"invoke", "stream"}
  Commands,     \* a subset of {"Start", "Resume"}
  MaxSteps      \* runtime_limits.max_steps

ASSUME ConstantsAssumption ==
  /\ ThreadOf \in [Runs -> Threads]
  /\ LastStep \in Nat \ {0} /\ MaxSteps \in Nat
  /\ Kinds \subseteq {"invoke", "stream"} /\ Commands \subseteq {"Start", "Resume"}
  /\ None \notin Runs \cup Invocations \cup 1..LastStep

VARIABLES
  marker,    \* cancelled_runs
  active,    \* active_runs: run -> the invocation registered, or None
  lock,      \* thread -> the invocation that holds its lock, or None
  ckpt,      \* thread -> its CheckpointRecord, or None
  pc,
  req,       \* invocation -> its request, or None
  flag,      \* invocation -> RunCancel.cancelled
  wait,      \* invocation -> how far it is in RunCancel::cancelled()
  woken,     \* invocation -> it was notified since it armed
  step,      \* invocation -> current_step
  count,     \* invocation -> step_count
  outcome,   \* invocation -> what its transition returned, or None
  base,      \* invocation -> the record it loaded or saved last
  cpc,       \* canceller -> its place in cancel_run
  target,    \* canceller -> the run it cancels
  found       \* canceller -> the invocation it found active, or None

invVars == <<pc, req, step, count, outcome, base>>
waitVars == <<wait, woken>>
cancelVars == <<cpc, target, found>>
vars == <<marker, active, lock, ckpt, invVars, flag, waitVars, cancelVars>>

-----------------------------------------------------------------------------
Steps   == 1..LastStep
Record  == [run : Runs, next : Steps \cup {None}, interrupted : Steps \cup {None}]
Request == [run : Runs, kind : Kinds, command : Commands]

RunOf(v) == req[v].run
Thread(v) == ThreadOf[req[v].run]
Streams(v) == req[v].kind = "stream"

Init ==
  /\ marker = {}
  /\ active = [r \in Runs |-> None]
  /\ lock = [t \in Threads |-> None]
  /\ ckpt = [t \in Threads |-> None]
  /\ pc = [v \in Invocations |-> "idle"]
  /\ req = [v \in Invocations |-> None]
  /\ flag = [v \in Invocations |-> FALSE]
  /\ wait = [v \in Invocations |-> "off"]
  /\ woken = [v \in Invocations |-> FALSE]
  /\ step = [v \in Invocations |-> None]
  /\ count = [v \in Invocations |-> 0]
  /\ outcome = [v \in Invocations |-> None]
  /\ base = [v \in Invocations |-> None]
  /\ cpc = [c \in Cancellers |-> "idle"]
  /\ target = [c \in Cancellers |-> None]
  /\ found = [c \in Cancellers |-> None]

Goto(v, label) == pc' = [pc EXCEPT ![v] = label]
\* A future that is dropped takes its Notified along.
StopsWaiting(v) ==
  /\ wait' = [wait EXCEPT ![v] = "off"]
  /\ woken' = [woken EXCEPT ![v] = FALSE]
Unlocks(v) == lock' = [t \in Threads |-> IF lock[t] = v THEN None ELSE lock[t]]
\* The invocation is over but for unregister_active; its lock guard drops.
Leave(v) ==
  /\ Goto(v, "unregister")
  /\ Unlocks(v)
  /\ StopsWaiting(v)

-----------------------------------------------------------------------------
(* register_active and unregister_active                                    *)

Invoke(v, q) ==
  /\ pc[v] = "idle"
  /\ req' = [req EXCEPT ![v] = q]
  /\ Goto(v, "register")
  /\ UNCHANGED <<marker, active, lock, ckpt, step, count, outcome, base, flag, waitVars, cancelVars>>

\* cancelled_runs before the insertion ...
LooksFirst(v) ==
  /\ pc[v] = "register"
  /\ flag' = [flag EXCEPT ![v] = RunOf(v) \in marker]
  /\ Goto(v, "insert")
  /\ UNCHANGED <<marker, active, lock, ckpt, req, step, count, outcome, base, waitVars, cancelVars>>

\* ... active_runs; an invocation that is registered already is replaced ...
Inserts(v) ==
  /\ pc[v] = "insert"
  /\ active' = [active EXCEPT ![RunOf(v)] = v]
  /\ Goto(v, "recheck")
  /\ UNCHANGED <<marker, lock, ckpt, req, step, count, outcome, base, flag, waitVars, cancelVars>>

\* Mutant: no second look.
LooksAgain_Skips(v) ==
  /\ pc[v] = "recheck"
  /\ Goto(v, "lock")
  /\ UNCHANGED <<marker, active, lock, ckpt, req, step, count, outcome, base, flag, waitVars, cancelVars>>

\* ... and cancelled_runs once more.
LooksAgain(v) ==
  /\ pc[v] = "recheck"
  /\ flag' = [flag EXCEPT ![v] = @ \/ RunOf(v) \in marker]
  /\ Goto(v, "lock")
  /\ UNCHANGED <<marker, active, lock, ckpt, req, step, count, outcome, base, waitVars, cancelVars>>

\* Only the invocation that is registered leaves active_runs ...
Unregisters(v) ==
  /\ pc[v] = "unregister"
  /\ IF active[RunOf(v)] = v
       THEN active' = [active EXCEPT ![RunOf(v)] = None] /\ Goto(v, "unmark")
       ELSE Goto(v, "done") /\ UNCHANGED active
  /\ UNCHANGED <<marker, lock, ckpt, req, step, count, outcome, base, flag, waitVars, cancelVars>>

\* ... and takes the marker of its run along, under another mutex.
Unmarks(v) ==
  /\ pc[v] = "unmark"
  /\ marker' = marker \ {RunOf(v)}
  /\ Goto(v, "done")
  /\ UNCHANGED <<active, lock, ckpt, req, step, count, outcome, base, flag, waitVars, cancelVars>>

-----------------------------------------------------------------------------
(* The thread lock and restore_or_start                                     *)

\* Mutant: the lock is one of the run, not of the thread.
Locks_PerRun(v) ==
  /\ pc[v] = "lock"
  /\ lock[Thread(v)] # None => RunOf(lock[Thread(v)]) # RunOf(v)
  /\ lock' = [lock EXCEPT ![Thread(v)] = v]
  /\ Goto(v, "check")
  /\ StopsWaiting(v)
  /\ UNCHANGED <<marker, active, ckpt, req, step, count, outcome, base, flag, cancelVars>>

Locks(v) ==
  /\ pc[v] = "lock"
  /\ lock[Thread(v)] = None
  /\ lock' = [lock EXCEPT ![Thread(v)] = v]
  /\ Goto(v, "check")
  /\ StopsWaiting(v)
  /\ UNCHANGED <<marker, active, ckpt, req, step, count, outcome, base, flag, cancelVars>>

\* is_cancelled
Checks(v) ==
  /\ pc[v] = "check"
  /\ IF RunOf(v) \in marker
       THEN flag' = [flag EXCEPT ![v] = TRUE] /\ Leave(v)
       ELSE Goto(v, "load") /\ UNCHANGED <<flag, lock, waitVars>>
  /\ UNCHANGED <<marker, active, ckpt, req, step, count, outcome, base, cancelVars>>

\* The step to begin with, or None where the request is refused.
\* resume_action is its default, ReenterInterruptedStep.
RestoreOrStart(q, record) ==
  LET interrupted == record # None /\ record.interrupted # None
      own == record # None /\ record.run = q.run
  IN CASE q.command = "Resume" -> IF interrupted THEN record.interrupted ELSE None
       [] q.command = "Start" -> IF ~interrupted /\ own /\ record.next # None
                                   THEN record.next ELSE 1

Loads(v) ==
  /\ pc[v] = "load"
  /\ LET record == ckpt[Thread(v)]
         first == RestoreOrStart(req[v], record)
     IN /\ base' = [base EXCEPT ![v] = record]
        /\ step' = [step EXCEPT ![v] = first]
        /\ IF first = None THEN Leave(v)
           ELSE Goto(v, "step") /\ UNCHANGED <<lock, waitVars>>
  /\ UNCHANGED <<marker, active, ckpt, req, count, outcome, flag, cancelVars>>

-----------------------------------------------------------------------------
(* The steps                                                                *)

\* MaxStepsExceeded, or the next transition.
Starts(v) ==
  /\ pc[v] = "step"
  /\ IF count[v] = MaxSteps THEN Leave(v) /\ UNCHANGED count
     ELSE /\ count' = [count EXCEPT ![v] = @ + 1]
          /\ Goto(v, "transit")
          /\ UNCHANGED <<lock, waitVars>>
  /\ UNCHANGED <<marker, active, ckpt, req, step, outcome, base, flag, cancelVars>>

\* The transition wins the select!.  An error of it, or a timeout, ends the run.
Transits(v, o) ==
  /\ pc[v] = "transit"
  /\ o = "Next" => step[v] < LastStep
  /\ IF o = "Error" THEN Leave(v) /\ UNCHANGED outcome
     ELSE /\ outcome' = [outcome EXCEPT ![v] = o]
          /\ Goto(v, "save")
          /\ StopsWaiting(v)
          /\ UNCHANGED lock
  /\ UNCHANGED <<marker, active, ckpt, req, step, count, base, flag, cancelVars>>

Saved(v) ==
  [run |-> RunOf(v),
   next |-> IF outcome[v] = "Next" THEN step[v] + 1 ELSE None,
   interrupted |-> IF outcome[v] = "Interrupt" THEN step[v] ELSE None]

\* save_running, save_interrupted.
Saves(v) ==
  /\ pc[v] = "save"
  /\ ckpt' = [ckpt EXCEPT ![Thread(v)] = Saved(v)]
  /\ base' = [base EXCEPT ![v] = Saved(v)]
  /\ IF outcome[v] = "Next"
       THEN /\ step' = [step EXCEPT ![v] = @ + 1]
            /\ Goto(v, "step")
            /\ UNCHANGED <<lock, waitVars>>
       ELSE Leave(v) /\ UNCHANGED step
  /\ UNCHANGED <<marker, active, req, count, outcome, flag, cancelVars>>

\* The saver refuses.
SaveFails(v) ==
  /\ pc[v] = "save"
  /\ Leave(v)
  /\ UNCHANGED <<marker, active, ckpt, req, step, count, outcome, base, flag, cancelVars>>

\* The consumer of a stream is gone: tx.closed() or a send that fails.
ReceiverCloses(v) ==
  /\ pc[v] \in {"lock", "step", "transit"}
  /\ Streams(v)
  /\ Leave(v)
  /\ UNCHANGED <<marker, active, ckpt, req, step, count, outcome, base, flag, cancelVars>>

-----------------------------------------------------------------------------
(* RunCancel::cancelled, polled by the select! around the transition and, in *)
(* a stream, around the lock.                                                *)

Listens(v) == pc[v] = "transit" \/ (pc[v] = "lock" /\ Streams(v))

\* notify.notified()
Arms(v) ==
  /\ Listens(v) /\ wait[v] = "off"
  /\ wait' = [wait EXCEPT ![v] = "armed"]
  /\ UNCHANGED <<marker, active, lock, ckpt, invVars, flag, woken, cancelVars>>

\* is_cancelled()
SeesFlag(v) ==
  /\ Listens(v) /\ wait[v] = "armed"
  /\ IF flag[v] THEN Leave(v)
     ELSE wait' = [wait EXCEPT ![v] = "looked"] /\ UNCHANGED <<pc, lock, woken>>
  /\ UNCHANGED <<marker, active, ckpt, req, step, count, outcome, base, flag, cancelVars>>

\* notified.await is polled; a notification since it armed counts.
Sleeps(v) ==
  /\ Listens(v) /\ wait[v] = "looked"
  /\ wait' = [wait EXCEPT ![v] = "asleep"]
  /\ UNCHANGED <<marker, active, lock, ckpt, invVars, flag, woken, cancelVars>>

\* notified.await returns, and round the loop.
Wakes(v) ==
  /\ Listens(v) /\ wait[v] = "asleep" /\ woken[v]
  /\ StopsWaiting(v)
  /\ UNCHANGED <<marker, active, lock, ckpt, invVars, flag, cancelVars>>

-----------------------------------------------------------------------------
(* cancel_run                                                               *)

CancelRun(c, r) ==
  /\ cpc[c] = "idle"
  /\ target' = [target EXCEPT ![c] = r]
  /\ marker' = marker \cup {r}
  /\ cpc' = [cpc EXCEPT ![c] = "find"]
  /\ UNCHANGED <<active, lock, ckpt, invVars, flag, waitVars, found>>

FindsActive(c) ==
  /\ cpc[c] = "find"
  /\ found' = [found EXCEPT ![c] = active[target[c]]]
  /\ cpc' = [cpc EXCEPT ![c] = IF active[target[c]] = None THEN "done" ELSE "set"]
  /\ UNCHANGED <<marker, active, lock, ckpt, invVars, flag, waitVars, target>>

SetsFlag(c) ==
  /\ cpc[c] = "set"
  /\ flag' = [flag EXCEPT ![found[c]] = TRUE]
  /\ cpc' = [cpc EXCEPT ![c] = "notify"]
  /\ UNCHANGED <<marker, active, lock, ckpt, invVars, waitVars, target, found>>

\* Mutant: only who sleeps already is woken.
Notifies_Sleeping(c) ==
  /\ cpc[c] = "notify"
  /\ woken' = [woken EXCEPT ![found[c]] = wait[found[c]] = "asleep"]
  /\ cpc' = [cpc EXCEPT ![c] = "done"]
  /\ UNCHANGED <<marker, active, lock, ckpt, invVars, flag, wait, target, found>>

\* notify_waiters: nobody is woken who has not armed yet.
Notifies(c) ==
  /\ cpc[c] = "notify"
  /\ woken' = [woken EXCEPT ![found[c]] = wait[found[c]] # "off"]
  /\ cpc' = [cpc EXCEPT ![c] = "done"]
  /\ UNCHANGED <<marker, active, lock, ckpt, invVars, flag, wait, target, found>>

-----------------------------------------------------------------------------
Outcomes == {"Next", "Interrupt", "Complete", "Error"}

Cancelling(c) == FindsActive(c) \/ SetsFlag(c) \/ Notifies(c)
Polls(v) == Arms(v) \/ SeesFlag(v) \/ Sleeps(v) \/ Wakes(v)
\* The steps the runner takes by itself, whatever the machine does.
Proceeds(v) ==
  \/ LooksFirst(v) \/ Inserts(v) \/ LooksAgain(v)
  \/ Locks(v) \/ Checks(v) \/ Loads(v) \/ Starts(v) \/ Saves(v)
  \/ Unregisters(v) \/ Unmarks(v)

\* Every invocation and every cancel_run has returned.
Quiet ==
  /\ \A v \in Invocations : pc[v] = "done"
  /\ \A c \in Cancellers : cpc[c] = "done"
  /\ UNCHANGED vars

Next ==
  \/ \E v \in Invocations :
       \/ \E q \in Request : Invoke(v, q)
       \/ Proceeds(v) \/ SaveFails(v) \/ Polls(v) \/ ReceiverCloses(v)
       \/ \E o \in Outcomes : Transits(v, o)
  \/ \E c \in Cancellers : Cancelling(c) \/ \E r \in Runs : CancelRun(c, r)
  \/ Quiet

Spec == Init /\ [][Next]_vars

\* Tasks are scheduled, the thread lock is a fair mutex and a select! polls each
\* of its branches; a transition may take for ever.
FairSpec ==
  /\ Spec
  /\ \A v \in Invocations : WF_vars(Proceeds(v)) /\ SF_vars(Locks(v)) /\ WF_vars(Polls(v))
  /\ \A c \in Cancellers : WF_vars(Cancelling(c))
-----------------------------------------------------------------------------
(* Safety.                                                                 *)

TypeOK ==
  /\ marker \subseteq Runs
  /\ active \in [Runs -> Invocations \cup {None}]
  /\ lock \in [Threads -> Invocations \cup {None}]
  /\ ckpt \in [Threads -> Record \cup {None}]
  /\ pc \in [Invocations -> {"idle", "register", "insert", "recheck", "lock", "check", "load",
                             "step", "transit", "save", "unregister", "unmark", "done"}]
  /\ req \in [Invocations -> Request \cup {None}]
  /\ flag \in [Invocations -> BOOLEAN]
  /\ wait \in [Invocations -> {"off", "armed", "looked", "asleep"}]
  /\ woken \in [Invocations -> BOOLEAN]
  /\ step \in [Invocations -> Steps \cup {None}]
  /\ count \in [Invocations -> 0..MaxSteps]
  /\ outcome \in [Invocations -> {"Next", "Interrupt", "Complete", None}]
  /\ base \in [Invocations -> Record \cup {None}]
  /\ cpc \in [Cancellers -> {"idle", "find", "set", "notify", "done"}]
  /\ target \in [Cancellers -> Runs \cup {None}]
  /\ found \in [Cancellers -> Invocations \cup {None}]

\* Registered, and past the second look.
Running(v) == pc[v] \in {"lock", "check", "load", "step", "transit", "save"}

\* A cancellation is never lost between the two maps: if a run is marked and no
\* cancel_run of it is on its way, the invocation registered for it knows,
\* whichever of the two came first to which map.
MarkerHeard ==
  \A r \in Runs : \A v \in Invocations :
    (/\ r \in marker /\ active[r] = v /\ Running(v)
     /\ \A c \in Cancellers : target[c] = r => cpc[c] \in {"notify", "done"}) => flag[v]

\* Well typed, and no cancellation lost.
MarkerInv == TypeOK /\ MarkerHeard

\* What a step may never do.

\* The record an invocation replaces is the one it loaded or saved last, and if
\* that is a running record of its own run, the step it has done is the one on
\* record: no update is lost between invocations of a thread and a retry
\* repeats no step that was saved.
Continues ==
  [][\A t \in Threads : ckpt'[t] # ckpt[t] =>
       \E v \in Invocations :
         /\ pc[v] = "save" /\ pc'[v] # "save" /\ Thread(v) = t /\ base[v] = ckpt[t]
         /\ ckpt[t] # None /\ ckpt[t].run = RunOf(v) /\ ckpt[t].next # None =>
              step[v] = ckpt[t].next]_vars

-----------------------------------------------------------------------------
(* Liveness.                                                               *)

\* A cancelled invocation ends although its transition hangs, and a stream even
\* while it waits for the thread of another that hangs (README, "Cooperative
\* cancellation drops in-flight futures"): the wake-up is not lost when flag and
\* notification come between the look at the flag and the sleep.
CancelEnds == \A v \in Invocations : flag[v] /\ Listens(v) ~> pc[v] = "done"

-----------------------------------------------------------------------------
(* What a test says and the code does not do; TLC finds a counterexample      *)
(* (README, section 5).                                                       *)

\* cancelled_run_marker_is_cleared_after_run_exits.  A cancel_run that marks the
\* run after its invocation has taken the marker along leaves one for ever, and
\* a later invocation of that run is cancelled before it starts.
MarkerCleared ==
  \A r \in Runs :
    (/\ \E v \in Invocations : pc[v] = "done" /\ RunOf(v) = r
     /\ \A v \in Invocations : req[v] # None /\ RunOf(v) = r => pc[v] = "done"
     /\ \A c \in Cancellers : cpc[c] \in {"idle", "done"}) => r \notin marker
=============================================================================
