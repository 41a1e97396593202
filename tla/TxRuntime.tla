----------------------------- MODULE TxRuntime -----------------------------
(***************************************************************************)
(* TxRuntime: how a streamed run gets from the machine into the store.     *)
(*                                                                         *)
(*   runner task --raw channel--> bridge task --channel--> consumer        *)
(*        |                            |                                   *)
(*        +--- TxSaver (a queue) ------+--- one atomic commit --> store    *)
(*                                                                         *)
(* The runner saves a checkpoint record into TxSaver and then announces    *)
(* the finished step; the bridge takes a record for every finished step    *)
(* and commits both.  TxSaver is keyed by thread, not by run, and the      *)
(* thread's lock belongs to the runner, not to the bridge: two runs that   *)
(* follow each other on a thread overlap.  Every run here is on one        *)
(* thread.                                                                 *)
(*                                                                         *)
(* The store is the part of RunStore a run's commits depend on; it never   *)
(* runs two runs of a thread at once (RunStore!ThreadExclusive) and keeps  *)
(* the two copies of a lease equal (RunStore!LeasesAgree), so one lease    *)
(* per run stands for both.  Time is a lease that may lapse.               *)
(***************************************************************************)
EXTENDS Naturals, Sequences, FiniteSets

CONSTANTS
  Runs,       \* run ids, all of them on one checkpoint thread
  Instances,  \* processes, each with a TxRuntime over the shared store
  Capacity,   \* max_in_flight of an instance
  Room,       \* capacity of the raw channel, at least 1
  MaxSteps,   \* runtime_limits.max_steps
  None

CONSTANTS     \* what the environment does in an instance of the model
  Faults,     \* a subset of AllFaults
  Exposed,    \* the runs that faults strike one by one; a crash takes all of an instance
  MaxBeats,   \* most heartbeats of a run
  OpSteps     \* the steps whose transition pushes an operation

AllFaults == {"lapse", "drop", "cancel", "error", "crash", "restore"}
Strikes(fault, r) == fault \in Faults /\ r \in Exposed

ASSUME ConstantsAssumption ==
  /\ Capacity \in Nat /\ MaxSteps \in Nat /\ MaxBeats \in Nat
  /\ Room \in Nat \ {0}
  /\ None \notin Runs \cup Instances
  /\ Faults \subseteq AllFaults /\ Exposed \subseteq Runs
  /\ OpSteps \subseteq 1..MaxSteps

VARIABLES
  \* the store
  status,     \* run -> "absent" or its RunStatus
  lease,      \* run -> "none", "live" or "lapsed"
  log,        \* run -> its durable events
  ckpt,       \* the thread's checkpoint record, or None
  \* an instance
  home,       \* run -> the instance that runs it, or None
  registered, \* run -> it has an entry in the RunRegistry of its home
  saver,      \* instance -> TxSaver.pending of the thread
  lock,       \* instance -> the run that holds the thread lock, or None
  cancel,     \* run -> cancel_run was called for it
  \* the runner task of a run
  rpc, count, result, beats,
  base,       \* the checkpoint it loaded, kept after it has ended
  raw,        \* run -> the raw channel
  \* the bridge task of a run
  bpc,
  cur,        \* the event it handles, or None
  held,       \* the PendingStep: a finished step and its checkpoint, or None
  ops,        \* TxRunOps.pending: the steps whose operations wait for a commit
  \* the consumer of a run
  listening,  \* it still holds the RunEventReceiver
  seen,       \* what it was sent
  opsAt       \* history: <<step, finished steps>> of the operations committed

store  == <<status, lease, log, ckpt, opsAt>>
runner == <<rpc, count, result, base, beats>>
bridge == <<bpc, cur, held>>
vars == <<store, home, registered, saver, lock, cancel, runner, raw, bridge,
          ops, listening, seen>>

-----------------------------------------------------------------------------
(* Events and records.                                                     *)

StepResult == {"next", "interrupt", "complete"}
TerminalKinds == {"Done", "Interrupt", "Fail", "Cancel"}

Started      == [kind |-> "Start", n |-> 0, result |-> None]
Beat         == [kind |-> "Beat", n |-> 0, result |-> None]
StepStart(k) == [kind |-> "StepStart", n |-> k, result |-> None]
StepDone(k, res) == [kind |-> "StepDone", n |-> k, result |-> res]
Terminal(k)  == [kind |-> k, n |-> 0, result |-> None]

Event == {Started, Beat} \cup {StepStart(k) : k \in 1..MaxSteps}
           \cup {StepDone(k, res) : k \in 1..MaxSteps, res \in StepResult}
           \cup {Terminal(k) : k \in TerminalKinds}

IsTerminal(e) == e.kind \in TerminalKinds
IsFinal(e)    == e.kind = "StepDone" /\ e.result # "next"

\* CheckpointRecord: the run, and the step after which it was taken.
Record == [run : Runs, n : 1..MaxSteps, result : StepResult]

\* PendingStep: a finished step and the record taken for it.
PendingStep == [event : Event, record : Record]

RunStatus == {"running", "completed", "interrupted", "cancelled", "error"}

\* What is absent is nothing that may be present.
ASSUME NoneAssumption == None \notin RunStatus /\ None \notin Record /\ None \notin PendingStep

\* event_record: the status a terminal event finishes a run with.
StatusOf(kind) == CASE kind = "Done" -> "completed"
                    [] kind = "Interrupt" -> "interrupted"
                    [] kind = "Cancel" -> "cancelled"
                    [] kind = "Fail" -> "error"

Finished(r)     == status[r] \notin {"absent", "running"}
ReceiverGone(r) == bpc[r] = "done"  \* the bridge dropped the raw receiver
SenderGone(r)   == rpc[r] = "done"  \* the runner dropped the raw sender
Active(r)       == bpc[r] \notin {"off", "done"}
SlotsOf(i)      == {r \in Runs : home[r] = i /\ registered[r]}
StepsDone(r)    == Cardinality({i \in DOMAIN log[r] : log[r][i].kind = "StepDone"})
MySaver(r)      == saver[home[r]]

-----------------------------------------------------------------------------
Init ==
  /\ status = [r \in Runs |-> "absent"]
  /\ lease = [r \in Runs |-> "none"]
  /\ log = [r \in Runs |-> <<>>]
  /\ ckpt = None
  /\ opsAt = [r \in Runs |-> {}]
  /\ home = [r \in Runs |-> None]
  /\ registered = [r \in Runs |-> FALSE]
  /\ saver = [i \in Instances |-> <<>>]
  /\ lock = [i \in Instances |-> None]
  /\ cancel = [r \in Runs |-> FALSE]
  /\ rpc = [r \in Runs |-> "off"]
  /\ count = [r \in Runs |-> 0]
  /\ result = [r \in Runs |-> None]
  /\ base = [r \in Runs |-> None]
  /\ beats = [r \in Runs |-> 0]
  /\ raw = [r \in Runs |-> <<>>]
  /\ bpc = [r \in Runs |-> "off"]
  /\ cur = [r \in Runs |-> None]
  /\ held = [r \in Runs |-> None]
  /\ ops = [r \in Runs |-> {}]
  /\ listening = [r \in Runs |-> FALSE]
  /\ seen = [r \in Runs |-> <<>>]

\* Mutant: the thread is not claimed.
Stream_ThreadUnclaimed(r, i) ==
  /\ status[r] = "absent"
  /\ Cardinality(SlotsOf(i)) < Capacity
  /\ status' = [status EXCEPT ![r] = "running"]
  /\ lease' = [lease EXCEPT ![r] = "live"]
  /\ home' = [home EXCEPT ![r] = i]
  /\ registered' = [registered EXCEPT ![r] = TRUE]
  /\ rpc' = [rpc EXCEPT ![r] = "open"]
  /\ bpc' = [bpc EXCEPT ![r] = "recv"]
  /\ listening' = [listening EXCEPT ![r] = TRUE]
  /\ UNCHANGED <<log, ckpt, opsAt, saver, lock, cancel, count, result, base, beats,
                 raw, cur, held, ops, seen>>

\* TxRuntime::stream on instance i: register a slot, start the run with a lease
\* and spawn runner, bridge and renewer.  A full registry, a busy thread and a
\* known run id change nothing.
Stream(r, i) ==
  /\ status[r] = "absent"
  /\ Cardinality(SlotsOf(i)) < Capacity
  /\ \A q \in Runs : status[q] # "running"
  /\ status' = [status EXCEPT ![r] = "running"]
  /\ lease' = [lease EXCEPT ![r] = "live"]
  /\ home' = [home EXCEPT ![r] = i]
  /\ registered' = [registered EXCEPT ![r] = TRUE]
  /\ rpc' = [rpc EXCEPT ![r] = "open"]
  /\ bpc' = [bpc EXCEPT ![r] = "recv"]
  /\ listening' = [listening EXCEPT ![r] = TRUE]
  /\ UNCHANGED <<log, ckpt, opsAt, saver, lock, cancel, count, result, base, beats,
                 raw, cur, held, ops, seen>>

-----------------------------------------------------------------------------
(* The runner task: stream_with_ops, run_stream_driver, run_stream_inner.  *)

RunnerAt(r, pc) == rpc[r] = pc
InTransition(r) == rpc[r] \in {"trans", "acted"}
InSelect(r)     == RunnerAt(r, "lock") \/ InTransition(r)
RunnerFrame == UNCHANGED <<store, home, registered, bridge, ops, listening, seen>>

\* send_event waits for room in the channel and fails once the receiver is gone.
Send(r, e) ==
  /\ ~ReceiverGone(r)
  /\ Len(raw[r]) < Room
  /\ raw' = [raw EXCEPT ![r] = Append(@, e)]

Unlocked(r) == [i \in Instances |-> IF lock[i] = r THEN None ELSE lock[i]]

\* run_stream_inner returns: the lock guard drops before the driver sends the
\* terminal event.
Return(r, kind) ==
  /\ lock' = Unlocked(r)
  /\ rpc' = [rpc EXCEPT ![r] = "term"]
  /\ result' = [result EXCEPT ![r] = kind]

\* run_stream_driver returns: the task's state and its sender are dropped.
Exit(r) ==
  /\ rpc' = [rpc EXCEPT ![r] = "done"]
  /\ count' = [count EXCEPT ![r] = 0]
  /\ result' = [result EXCEPT ![r] = None]
  /\ beats' = [beats EXCEPT ![r] = 0]

\* Mutant: only the selects notice that the receiver is gone, a blocked send
\* does not.
RunnerQuits_InSelect(r) ==
  /\ InSelect(r)
  /\ ReceiverGone(r)
  /\ lock' = Unlocked(r)
  /\ Exit(r)
  /\ UNCHANGED <<base, raw, saver, cancel>>
  /\ RunnerFrame

\* The receiver is gone wherever the runner sends or selects: it ends silently.
RunnerQuits(r) ==
  /\ rpc[r] \in {"open", "lock", "step", "trans", "acted", "fin", "term"}
  /\ ReceiverGone(r)
  /\ lock' = Unlocked(r)
  /\ Exit(r)
  /\ UNCHANGED <<base, raw, saver, cancel>>
  /\ RunnerFrame

RunnerOpens(r) ==
  /\ RunnerAt(r, "open")
  /\ Send(r, Started)
  /\ rpc' = [rpc EXCEPT ![r] = "lock"]
  /\ UNCHANGED <<count, result, base, beats, saver, lock, cancel>>
  /\ RunnerFrame

\* The heartbeat of the lock wait and of a transition.
RunnerBeats(r) ==
  /\ InSelect(r)
  /\ beats[r] < MaxBeats
  /\ Send(r, Beat)
  /\ beats' = [beats EXCEPT ![r] = @ + 1]
  /\ UNCHANGED <<rpc, count, result, base, saver, lock, cancel>>
  /\ RunnerFrame

\* stream_thread_lock acquires; is_cancelled is looked at under the lock.
RunnerLocks(r) ==
  /\ RunnerAt(r, "lock")
  /\ lock[home[r]] = None
  /\ IF cancel[r]
       THEN Return(r, "Cancel")
       ELSE /\ lock' = [lock EXCEPT ![home[r]] = r]
            /\ rpc' = [rpc EXCEPT ![r] = "load"]
            /\ UNCHANGED result
  /\ UNCHANGED <<count, base, beats, raw, saver, cancel>>
  /\ RunnerFrame

\* control.cancelled() wins the select in the lock wait or in a transition.
RunnerCancelled(r) ==
  /\ InSelect(r)
  /\ cancel[r]
  /\ Return(r, "Cancel")
  /\ UNCHANGED <<count, base, beats, raw, saver, cancel>>
  /\ RunnerFrame

\* TxSaver::load reads the store; restore_or_start may refuse the request.
RunnerLoads(r) ==
  /\ RunnerAt(r, "load")
  /\ base' = [base EXCEPT ![r] = ckpt]
  /\ \/ /\ rpc' = [rpc EXCEPT ![r] = "step"]
        /\ UNCHANGED <<lock, result>>
     \/ /\ Strikes("restore", r)
        /\ Return(r, "Fail")
  /\ UNCHANGED <<count, beats, raw, saver, cancel>>
  /\ RunnerFrame

\* The head of the step loop.
RunnerSteps(r) ==
  /\ RunnerAt(r, "step")
  /\ IF count[r] = MaxSteps
       THEN /\ Return(r, "Fail")
            /\ UNCHANGED <<count, raw>>
       ELSE /\ Send(r, StepStart(count[r] + 1))
            /\ count' = [count EXCEPT ![r] = @ + 1]
            /\ rpc' = [rpc EXCEPT ![r] = "trans"]
            /\ UNCHANGED <<lock, result>>
  /\ UNCHANGED <<base, beats, saver, cancel>>
  /\ RunnerFrame

\* The transition pushes an operation: RunContext::done, item or entry.
RunnerPushes(r) ==
  /\ RunnerAt(r, "trans")
  /\ count[r] \in OpSteps
  /\ ops' = [ops EXCEPT ![r] = @ \cup {count[r]}]
  /\ rpc' = [rpc EXCEPT ![r] = "acted"]
  /\ UNCHANGED <<store, home, registered, bridge, listening, seen, count, result,
                 base, beats, raw, saver, lock, cancel>>

\* The transition ends, fails or runs into a timeout.  select! takes any branch
\* that is ready: a transition may win over a cancellation.
RunnerTransits(r) ==
  /\ InTransition(r)
  /\ \/ \E res \in StepResult :
          /\ count[r] \in OpSteps => RunnerAt(r, "acted")
          /\ rpc' = [rpc EXCEPT ![r] = "save"]
          /\ result' = [result EXCEPT ![r] = res]
          /\ UNCHANGED lock
     \/ /\ Strikes("error", r)
        /\ Return(r, "Fail")
  /\ UNCHANGED <<count, base, beats, raw, saver, cancel>>
  /\ RunnerFrame

\* save_running, save_interrupted: TxSaver::save queues the record.
RunnerSaves(r) ==
  /\ RunnerAt(r, "save")
  /\ saver' = [saver EXCEPT ![home[r]] =
       Append(@, [run |-> r, n |-> count[r], result |-> result[r]])]
  /\ rpc' = [rpc EXCEPT ![r] = "fin"]
  /\ UNCHANGED <<count, result, base, beats, raw, lock, cancel>>
  /\ RunnerFrame

\* StepFinished is sent; a final step makes run_stream_inner return.
RunnerFinishesStep(r) ==
  /\ RunnerAt(r, "fin")
  /\ Send(r, StepDone(count[r], result[r]))
  /\ CASE result[r] = "next" ->
            /\ rpc' = [rpc EXCEPT ![r] = "step"]
            /\ UNCHANGED <<lock, result>>
       [] result[r] = "interrupt" -> Return(r, "Interrupt")
       [] result[r] = "complete" -> Return(r, "Done")
  /\ UNCHANGED <<count, base, beats, saver, cancel>>
  /\ RunnerFrame

\* run_stream_driver sends the terminal event.
RunnerEnds(r) ==
  /\ RunnerAt(r, "term")
  /\ Send(r, Terminal(result[r]))
  /\ Exit(r)
  /\ UNCHANGED <<base, saver, lock, cancel>>
  /\ RunnerFrame

Runner(r) ==
  \/ RunnerQuits(r) \/ RunnerOpens(r) \/ RunnerBeats(r) \/ RunnerLocks(r)
  \/ RunnerCancelled(r) \/ RunnerLoads(r) \/ RunnerSteps(r) \/ RunnerPushes(r)
  \/ RunnerTransits(r) \/ RunnerSaves(r) \/ RunnerFinishesStep(r) \/ RunnerEnds(r)

-----------------------------------------------------------------------------
(* The bridge task: tx_bridge, tx_forward_event and what they call.        *)

BridgeAt(r, pc) == bpc[r] = pc
BridgeFrame == UNCHANGED <<home, lock, runner, listening>>
Goto(r, pc) == bpc' = [bpc EXCEPT ![r] = pc]

\* tx_bridge_inner returns; what it holds and its end of the raw channel are
\* dropped.
Leave(r) ==
  /\ Goto(r, "done")
  /\ raw' = [raw EXCEPT ![r] = <<>>]
  /\ cur' = [cur EXCEPT ![r] = None]
  /\ held' = [held EXCEPT ![r] = None]

\* Mutant: lease_stop is only set after a successful finish.
LeaseStop_Finished(r) == bpc[r] \in {"off", "sendF", "sendT"}

\* lease_stop is set before the bridge does anything else after its last commit.
LeaseStop(r) == bpc[r] \in {"off", "sendF", "sendT", "sendX", "clear", "done"}

\* Mutant: the run of the checkpoint is not compared.
Commit_AnyRun(r, cp, finish) ==
  IF ~registered[r]
    THEN IF finish /\ Finished(r) THEN "already" ELSE "error"
    ELSE CASE Finished(r) -> IF finish THEN "already" ELSE "skipped"
           [] ~Finished(r) /\ lease[r] # "live" -> "error"
           [] OTHER -> "recorded"

\* What RunLifecycle::commit_with answers (commit_run under the event lock).
Commit(r, cp, finish) ==
  IF ~registered[r]
    THEN IF finish /\ Finished(r) THEN "already" ELSE "error"
    ELSE CASE Finished(r) -> IF finish THEN "already" ELSE "skipped"
           [] ~Finished(r) /\ lease[r] # "live" -> "error"
           [] ~Finished(r) /\ lease[r] = "live" /\ cp # None /\ cp.run # r -> "error"
           [] OTHER -> "recorded"

\* One commit: events evs, checkpoint cp, the operations taken, and the final
\* status st (None leaves the run running).  Recorded writes all of it, any
\* other answer none; a run that is over gives its slot back.
CommitEvents(r, cp, evs, st, taken) ==
  LET answer == Commit(r, cp, st # None)
      written == log[r] \o evs
  IN /\ registered' = [registered EXCEPT ![r] =
          @ /\ (answer = "error" \/ (answer = "recorded" /\ st = None))]
     /\ IF answer = "recorded"
          THEN /\ log' = [log EXCEPT ![r] = written]
               /\ ckpt' = IF cp = None THEN ckpt ELSE cp
               /\ status' = [status EXCEPT ![r] = IF st = None THEN @ ELSE st]
               /\ lease' = [lease EXCEPT ![r] = IF st = None THEN @ ELSE "none"]
               /\ opsAt' = [opsAt EXCEPT ![r] = @ \cup
                    {<<k, Cardinality({i \in DOMAIN written :
                                         written[i].kind = "StepDone"})>> : k \in taken}]
          ELSE UNCHANGED store

HeldRecord(r) == IF held[r] = None THEN None ELSE held[r].record
\* Mutant: the held step is not committed with the terminal event.
HeldEvents_Dropped(r) == <<>>

HeldEvents(r) == IF held[r] = None THEN <<>> ELSE <<held[r].event>>

\* The bridge gets the next event of the raw channel and sorts it.
Dispatch(r) ==
  /\ raw[r] # <<>>
  /\ cur' = [cur EXCEPT ![r] = Head(raw[r])]
  /\ raw' = [raw EXCEPT ![r] = Tail(@)]
  /\ Goto(r, CASE IsTerminal(Head(raw[r])) -> "finish"
               [] Head(raw[r]).kind = "StepDone" -> "take"
               [] OTHER -> "commit")

\* try_recv.  An open, empty channel leads to the select.
BridgeReceives(r) ==
  /\ BridgeAt(r, "recv")
  /\ \/ Dispatch(r)
     \/ /\ raw[r] = <<>>
        /\ Goto(r, IF SenderGone(r) THEN "cancel" ELSE "select")
        /\ UNCHANGED <<cur, raw>>
  /\ UNCHANGED <<store, registered, saver, cancel, held, ops, seen>>
  /\ BridgeFrame

\* Mutant: nobody waits for the consumer to leave.
BridgeSelects_RawOnly(r) ==
  /\ BridgeAt(r, "select")
  /\ \/ Dispatch(r)
     \/ /\ raw[r] = <<>> /\ SenderGone(r)
        /\ Goto(r, "cancel")
        /\ UNCHANGED <<cur, raw>>
  /\ UNCHANGED <<store, registered, saver, cancel, held, ops, seen>>
  /\ BridgeFrame

\* select! over the next raw event and ctx.tx.closed().
BridgeSelects(r) ==
  /\ BridgeAt(r, "select")
  /\ \/ Dispatch(r)
     \/ /\ (raw[r] = <<>> /\ SenderGone(r)) \/ ~listening[r]
        /\ Goto(r, "cancel")
        /\ UNCHANGED <<cur, raw>>
  /\ UNCHANGED <<store, registered, saver, cancel, held, ops, seen>>
  /\ BridgeFrame

\* A finished step: take the thread's oldest record.  A final step waits for
\* its terminal event, none at all is an error.
BridgeTakes(r) ==
  /\ BridgeAt(r, "take")
  /\ IF MySaver(r) = <<>>
       THEN /\ cancel' = [cancel EXCEPT ![r] = TRUE]
            /\ Goto(r, "fail")
            /\ UNCHANGED <<saver, held>>
       ELSE /\ saver' = [saver EXCEPT ![home[r]] = Tail(@)]
            /\ held' = [held EXCEPT ![r] = [event |-> cur[r], record |-> Head(MySaver(r))]]
            /\ Goto(r, IF IsFinal(cur[r]) THEN "recv" ELSE "commit")
            /\ UNCHANGED cancel
  /\ UNCHANGED <<store, registered, cur, raw, ops, seen>>
  /\ BridgeFrame

\* Mutant: the answer of the commit is ignored.
BridgeCommits_ForwardAnyway(r) ==
  /\ BridgeAt(r, "commit")
  /\ CommitEvents(r, HeldRecord(r), <<cur[r]>>, None, IF held[r] = None THEN {} ELSE ops[r])
  /\ ops' = IF held[r] = None THEN ops ELSE [ops EXCEPT ![r] = {}]
  /\ held' = [held EXCEPT ![r] = None]
  /\ Goto(r, "send")
  /\ UNCHANGED <<saver, cancel, cur, raw, seen>>
  /\ BridgeFrame

\* The commit of one event; a finished step goes with its checkpoint and the
\* operations pushed so far.  Any answer but recorded cancels the run.
BridgeCommits(r) ==
  /\ BridgeAt(r, "commit")
  /\ CommitEvents(r, HeldRecord(r), <<cur[r]>>, None, IF held[r] = None THEN {} ELSE ops[r])
  /\ ops' = IF held[r] = None THEN ops ELSE [ops EXCEPT ![r] = {}]
  /\ held' = [held EXCEPT ![r] = None]
  /\ LET ok == Commit(r, HeldRecord(r), FALSE) = "recorded" IN
       /\ cancel' = [cancel EXCEPT ![r] = @ \/ ~ok]
       /\ Goto(r, IF ok THEN "send" ELSE "fail")
  /\ UNCHANGED <<saver, cur, raw, seen>>
  /\ BridgeFrame

\* A committed event goes to the consumer.
BridgeSends(r) ==
  /\ BridgeAt(r, "send")
  /\ IF listening[r]
       THEN /\ seen' = [seen EXCEPT ![r] = Append(@, cur[r])]
            /\ Goto(r, "recv")
       ELSE /\ Goto(r, "cancel")
            /\ UNCHANGED seen
  /\ UNCHANGED <<store, registered, saver, cancel, cur, raw, held, ops>>
  /\ BridgeFrame

\* Mutants: the answer of the commit is ignored; the operations are not taken
\* along.
BridgeFinishes_IgnoreAnswer(r) ==
  /\ BridgeAt(r, "finish")
  /\ CommitEvents(r, HeldRecord(r), Append(HeldEvents(r), cur[r]),
                  StatusOf(cur[r].kind), ops[r])
  /\ ops' = [ops EXCEPT ![r] = {}]
  /\ Goto(r, IF held[r] # None THEN "sendF" ELSE "sendT")
  /\ UNCHANGED <<saver, cancel, cur, raw, held, seen>>
  /\ BridgeFrame
BridgeFinishes_KeepsOps(r) ==
  /\ BridgeAt(r, "finish")
  /\ CommitEvents(r, HeldRecord(r), Append(HeldEvents(r), cur[r]),
                  StatusOf(cur[r].kind), {})
  /\ ops' = [ops EXCEPT ![r] = {}]
  /\ LET ok == Commit(r, HeldRecord(r), TRUE) \in {"recorded", "already"} IN
       /\ cancel' = [cancel EXCEPT ![r] = @ \/ ~ok]
       /\ Goto(r, CASE ~ok -> "fail"
                    [] ok /\ held[r] # None -> "sendF"
                    [] OTHER -> "sendT")
  /\ UNCHANGED <<saver, cur, raw, held, seen>>
  /\ BridgeFrame

\* The last commit: the held step with its checkpoint, the terminal event and
\* the final status.  AlreadyFinished counts as success.
BridgeFinishes(r) ==
  /\ BridgeAt(r, "finish")
  /\ CommitEvents(r, HeldRecord(r), Append(HeldEvents(r), cur[r]),
                  StatusOf(cur[r].kind), ops[r])
  /\ ops' = [ops EXCEPT ![r] = {}]
  /\ LET ok == Commit(r, HeldRecord(r), TRUE) \in {"recorded", "already"} IN
       /\ cancel' = [cancel EXCEPT ![r] = @ \/ ~ok]
       /\ Goto(r, CASE ~ok -> "fail"
                    [] ok /\ held[r] # None -> "sendF"
                    [] OTHER -> "sendT")
  /\ UNCHANGED <<saver, cur, raw, held, seen>>
  /\ BridgeFrame

\* After the last commit: the held StepFinished, then the terminal event.
BridgeSendsHeld(r) ==
  /\ BridgeAt(r, "sendF")
  /\ IF listening[r]
       THEN /\ seen' = [seen EXCEPT ![r] = Append(@, held[r].event)]
            /\ Goto(r, "sendT")
            /\ UNCHANGED <<cur, raw, held>>
       ELSE Leave(r) /\ UNCHANGED seen
  /\ UNCHANGED <<store, registered, saver, cancel, ops>>
  /\ BridgeFrame

\* The terminal event, or Failed after an error; nobody checks that it arrives.
BridgeSendsLast(r) ==
  /\ bpc[r] \in {"sendT", "sendX"}
  /\ seen' = IF ~listening[r] THEN seen ELSE [seen EXCEPT ![r] =
       Append(@, IF BridgeAt(r, "sendT") THEN cur[r] ELSE Terminal("Fail"))]
  /\ Leave(r)
  /\ UNCHANGED <<store, registered, saver, cancel, ops>>
  /\ BridgeFrame

\* tx_finish_error: one more commit, with the held step if there is one, that
\* makes the run an error; its answer is dropped.
BridgeFails(r) ==
  /\ BridgeAt(r, "fail")
  /\ CommitEvents(r, HeldRecord(r), Append(HeldEvents(r), Terminal("Fail")), "error", ops[r])
  /\ ops' = [ops EXCEPT ![r] = {}]
  /\ Goto(r, "sendX")
  /\ UNCHANGED <<saver, cancel, cur, raw, held, seen>>
  /\ BridgeFrame

\* tx_cancel_and_finish: cancel the runner ...
BridgeCancels(r) ==
  /\ BridgeAt(r, "cancel")
  /\ cancel' = [cancel EXCEPT ![r] = TRUE]
  /\ Goto(r, "cancelled")
  /\ UNCHANGED <<store, registered, saver, cur, raw, held, ops, seen>>
  /\ BridgeFrame

\* ... commit the cancellation, whatever the answer ...
BridgeCommitsCancel(r) ==
  /\ BridgeAt(r, "cancelled")
  /\ CommitEvents(r, HeldRecord(r), Append(HeldEvents(r), Terminal("Cancel")),
                  "cancelled", ops[r])
  /\ ops' = [ops EXCEPT ![r] = {}]
  /\ Goto(r, "clear")
  /\ UNCHANGED <<saver, cancel, cur, raw, held, seen>>
  /\ BridgeFrame

\* ... and drop the records the thread still has in TxSaver.
BridgeClears(r) ==
  /\ BridgeAt(r, "clear")
  /\ saver' = [saver EXCEPT ![home[r]] = <<>>]
  /\ Leave(r)
  /\ UNCHANGED <<store, registered, cancel, ops, seen>>
  /\ BridgeFrame

Bridge(r) ==
  \/ BridgeReceives(r) \/ BridgeSelects(r) \/ BridgeTakes(r) \/ BridgeCommits(r)
  \/ BridgeSends(r) \/ BridgeFinishes(r) \/ BridgeSendsHeld(r) \/ BridgeSendsLast(r)
  \/ BridgeFails(r) \/ BridgeCancels(r) \/ BridgeCommitsCancel(r) \/ BridgeClears(r)

-----------------------------------------------------------------------------
(* Leases, the API and failures.                                           *)

EnvFrame == UNCHANGED <<ckpt, opsAt, home, rpc, count, result, base, beats, raw,
                        bridge, saver, lock, ops, seen>>

\* Mutant: a renewal that is refused is tried again until the run is over.
RenewFails_TriesAgain(r) ==
  /\ Active(r) /\ ~LeaseStop(r)
  /\ lease[r] = "none"
  /\ ~cancel[r]
  /\ cancel' = [cancel EXCEPT ![r] = TRUE]
  /\ UNCHANGED <<status, lease, log, registered, listening>>
  /\ EnvFrame

\* The renewer learns that the lease is gone and cancels the run.  A renewal
\* that succeeds keeps the lease live and is no step.
RenewFails(r) ==
  /\ Active(r) /\ ~LeaseStop(r)
  /\ lease[r] # "live"
  /\ ~cancel[r]
  /\ cancel' = [cancel EXCEPT ![r] = TRUE]
  /\ UNCHANGED <<status, lease, log, registered, listening>>
  /\ EnvFrame

\* No renewal arrived in time: the renewer stopped, or it was too slow.
LeaseLapses(r) ==
  /\ lease[r] = "live"
  /\ LeaseStop(r) \/ Strikes("lapse", r)
  /\ lease' = [lease EXCEPT ![r] = "lapsed"]
  /\ UNCHANGED <<status, log, registered, cancel, listening>>
  /\ EnvFrame

\* TxRuntime::reap on any instance.  No registry learns of it.
Reap(r) ==
  /\ status[r] = "running"
  /\ lease[r] = "lapsed"
  /\ status' = [status EXCEPT ![r] = "error"]
  /\ lease' = [lease EXCEPT ![r] = "none"]
  /\ log' = [log EXCEPT ![r] = Append(@, Terminal("Fail"))]
  /\ UNCHANGED <<registered, cancel, listening>>
  /\ EnvFrame

\* TxRuntime::cancel on the home instance; elsewhere it answers NotOwner.
CancelRun(r) ==
  /\ Strikes("cancel", r)
  /\ Active(r)
  /\ registered[r] \/ Finished(r)
  /\ ~cancel[r]
  /\ cancel' = [cancel EXCEPT ![r] = TRUE]
  /\ UNCHANGED <<status, lease, log, registered, listening>>
  /\ EnvFrame

\* The consumer drops its receiver.
StopListening(r) ==
  /\ Strikes("drop", r)
  /\ listening[r] /\ Active(r)
  /\ listening' = [listening EXCEPT ![r] = FALSE]
  /\ UNCHANGED <<status, lease, log, registered, cancel>>
  /\ EnvFrame

\* The process dies with all it holds in memory; a new one starts empty.
Crash(i) ==
  /\ "crash" \in Faults
  /\ \E r \in Runs : home[r] = i /\ (Active(r) \/ rpc[r] # "done")
  /\ LET dead(r) == home[r] = i IN
       /\ registered' = [r \in Runs |-> ~dead(r) /\ registered[r]]
       /\ rpc' = [r \in Runs |-> IF dead(r) THEN "done" ELSE rpc[r]]
       /\ bpc' = [r \in Runs |-> IF dead(r) THEN "done" ELSE bpc[r]]
       /\ raw' = [r \in Runs |-> IF dead(r) THEN <<>> ELSE raw[r]]
       /\ count' = [r \in Runs |-> IF dead(r) THEN 0 ELSE count[r]]
       /\ beats' = [r \in Runs |-> IF dead(r) THEN 0 ELSE beats[r]]
       /\ result' = [r \in Runs |-> IF dead(r) THEN None ELSE result[r]]
       /\ cur' = [r \in Runs |-> IF dead(r) THEN None ELSE cur[r]]
       /\ held' = [r \in Runs |-> IF dead(r) THEN None ELSE held[r]]
       /\ ops' = [r \in Runs |-> IF dead(r) THEN {} ELSE ops[r]]
       /\ listening' = [r \in Runs |-> ~dead(r) /\ listening[r]]
  /\ saver' = [saver EXCEPT ![i] = <<>>]
  /\ lock' = [lock EXCEPT ![i] = None]
  /\ UNCHANGED <<store, home, cancel, base, seen>>

\* All tasks have ended: the system may stop here and nowhere else.
Quiet ==
  /\ \A r \in Runs : ~Active(r) /\ rpc[r] \in {"off", "done"}
  /\ UNCHANGED vars

-----------------------------------------------------------------------------
Next ==
  \/ \E r \in Runs : \/ \E i \in Instances : Stream(r, i)
                     \/ Runner(r) \/ Bridge(r)
                     \/ RenewFails(r) \/ LeaseLapses(r) \/ Reap(r)
                     \/ CancelRun(r) \/ StopListening(r)
  \/ \E i \in Instances : Crash(i)
  \/ Quiet

Spec == Init /\ [][Next]_vars

\* The scheduler runs every task that can go on (the consumer reads or drops its
\* receiver, a transition ends), time passes, and some instance keeps reaping.
Fairness ==
  \A r \in Runs :
    /\ WF_vars(Runner(r)) /\ WF_vars(Bridge(r))
    /\ SF_vars(RunnerLocks(r))
    /\ WF_vars(LeaseStop(r) /\ LeaseLapses(r))
    /\ WF_vars(Reap(r))

FairSpec == Spec /\ Fairness

-----------------------------------------------------------------------------
(* Safety.                                                                 *)

TypeOK ==
  /\ status \in [Runs -> RunStatus \cup {"absent"}]
  /\ lease \in [Runs -> {"none", "live", "lapsed"}]
  /\ log \in [Runs -> Seq(Event)]
  /\ ckpt \in Record \cup {None}
  /\ opsAt \in [Runs -> SUBSET ((1..MaxSteps) \X Nat)]
  /\ home \in [Runs -> Instances \cup {None}]
  /\ registered \in [Runs -> BOOLEAN]
  /\ saver \in [Instances -> Seq(Record)]
  /\ lock \in [Instances -> Runs \cup {None}]
  /\ cancel \in [Runs -> BOOLEAN]
  /\ rpc \in [Runs -> {"off", "open", "lock", "load", "step", "trans", "acted", "save",
                        "fin", "term", "done"}]
  /\ count \in [Runs -> 0..MaxSteps]
  /\ result \in [Runs -> StepResult \cup TerminalKinds \cup {None}]
  /\ base \in [Runs -> Record \cup {None}]
  /\ beats \in [Runs -> 0..MaxBeats]
  /\ raw \in [Runs -> Seq(Event)]
  /\ bpc \in [Runs -> {"off", "recv", "select", "take", "commit", "send", "finish",
                        "sendF", "sendT", "sendX", "fail", "cancel", "cancelled",
                        "clear", "done"}]
  /\ cur \in [Runs -> Event \cup {None}]
  /\ held \in [Runs -> PendingStep \cup {None}]
  /\ ops \in [Runs -> SUBSET (1..MaxSteps)]
  /\ listening \in [Runs -> BOOLEAN]
  /\ seen \in [Runs -> Seq(Event)]

\* Events that are stored first and forwarded afterwards, one at a time.
IsProgress(e) == ~IsTerminal(e) /\ ~IsFinal(e)
Progress(s)   == {i \in DOMAIN s : IsProgress(s[i])}
Rank(S, i)    == Cardinality({k \in S : k <= i})

\* The events of steps, and the turn of each: 1 starts, 2 is done, 2 starts, ...
IsStep(e) == e.kind \in {"StepStart", "StepDone"}
Steps(s)  == {i \in DOMAIN s : IsStep(s[i])}
Turn(e)   == IF e.kind = "StepStart" THEN 2 * e.n - 1 ELSE 2 * e.n

\* The consumer never sees progress the store does not have: the n-th progress
\* event it was sent is the n-th that was committed (the bridge commits each
\* event before it forwards it, and a rejected commit forwards nothing).
CommitBeforeForward ==
  \A r \in Runs : \A i \in Progress(seen[r]) : \E j \in Progress(log[r]) :
    log[r][j] = seen[r][i] /\ Rank(Progress(log[r]), j) = Rank(Progress(seen[r]), i)

\* A restart never repeats a step that is on record as done: as long as a run
\* may go on, the thread's checkpoint is its own and at least as far as its log,
\* although runner and bridge pass records and events on separate queues.
CheckpointCoversLog ==
  \A r \in Runs : StepsDone(r) > 0 /\ status[r] = "running" =>
    ckpt # None /\ ckpt.run = r /\ ckpt.n >= StepsDone(r)

\* The steps of a log are started and finished in turn, 1, 2, ...; a run that
\* completed or was interrupted has that final step right before its only
\* terminal event, which the log ends in exactly when the run is over.
LogGrammar ==
  \A r \in Runs :
    LET len == Len(log[r]) IN
      /\ \A i \in Steps(log[r]) : Turn(log[r][i]) = Rank(Steps(log[r]), i)
      /\ \A i \in DOMAIN log[r] : IsTerminal(log[r][i]) <=> Finished(r) /\ i = len
      /\ Finished(r) => len > 0 /\ StatusOf(log[r][len].kind) = status[r]
      /\ status[r] \in {"completed", "interrupted"} =>
           IsFinal(log[r][len - 1]) /\ ckpt # None /\ StepsDone(r) > 0
LogInv == TypeOK /\ LogGrammar

\* What a consumer is told last is what the store says, or the run was lost to
\* the reaper or to an error: Failed is never said of a run that succeeded, and
\* success never of one that was cancelled.
ToldConsistent ==
  \A r \in Runs : \A i \in DOMAIN seen[r] : IsTerminal(seen[r][i]) =>
    /\ i = Len(seen[r])
    /\ \/ status[r] \in {StatusOf(seen[r][i].kind), "error"}
       \/ seen[r][i].kind = "Fail" /\ status[r] = "running"

\* An operation a step pushed is committed once, and a run only completes or is
\* interrupted with all of them, although they wait in a buffer several commits
\* take from (README: "commit checkpoint, stream events, and terminal run state
\* together").
OpsCommitted ==
  \A r \in Runs :
    /\ \A p, q \in opsAt[r] : p[1] = q[1] => p = q
    /\ \A p \in opsAt[r] : p[1] \notin ops[r]
    /\ status[r] \in {"completed", "interrupted"} =>
         {p[1] : p \in opsAt[r]} = {k \in OpSteps : k <= StepsDone(r)}

-----------------------------------------------------------------------------
(* What a step may never do.                                               *)

\* No lost update: a checkpoint only replaces the one its run was started from,
\* or one of its own, although the runner loaded it long before and the run may
\* have been reaped and followed by others since (README: "two workers cannot
\* advance different runs against the same checkpoint thread").
NoLostUpdate ==
  [][ckpt' # ckpt =>
       LET r == ckpt'.run IN
         /\ status[r] = "running"
         /\ IF ckpt # None /\ ckpt.run = r THEN ckpt'.n > ckpt.n ELSE ckpt = base[r]]_vars

-----------------------------------------------------------------------------
(* Liveness.                                                               *)

Ended(r) == rpc[r] = "done" /\ bpc[r] = "done"

\* Whatever fails, crashes or is dropped, a started run reaches a terminal
\* status in the store, and so gives its thread to a later run.
RunsEnd == \A r \in Runs : status[r] = "running" ~> Finished(r)

\* Runner and bridge always end, also when they wait for each other's channel,
\* for the thread lock or for a consumer that is gone; the lock is free then.
TasksEnd == \A r \in Runs : Active(r) ~> Ended(r) /\ \A i \in Instances : lock[i] # r

\* As Fairness, but a transition may hang for ever.
HangingFairness ==
  \A r \in Runs :
    /\ WF_vars(RunnerQuits(r)) /\ WF_vars(RunnerOpens(r)) /\ SF_vars(RunnerLocks(r))
    /\ WF_vars(RunnerCancelled(r)) /\ WF_vars(RunnerLoads(r)) /\ WF_vars(RunnerSteps(r))
    /\ WF_vars(RunnerSaves(r)) /\ WF_vars(RunnerFinishesStep(r)) /\ WF_vars(RunnerEnds(r))
    /\ WF_vars(Bridge(r)) /\ WF_vars(RenewFails(r))

HangingSpec == Spec /\ HangingFairness

\* A cancellation, a consumer that leaves and a lost lease each end the tasks of
\* a run even while its transition hangs ("Cooperative cancellation drops
\* in-flight futures").
StopRequestsWork ==
  \A r \in Runs :
    Active(r) /\ (cancel[r] \/ ~listening[r] \/ lease[r] # "live") ~> Ended(r)

-----------------------------------------------------------------------------
(* What the documents or the tests say and the code does not do; TLC finds a  *)
(* counterexample to each (README, section 5).                                *)

\* README, "releasing the thread for a later run": a run that holds its lease
\* never has a commit refused.  A record that an earlier run of the thread left
\* in TxSaver is taken for the later run's first step and refused.
LeasedRunCommits == \A r \in Runs : BridgeAt(r, "fail") => lease[r] # "live"

\* README, "Checkpoints are written after every step transition" and "commit
\* checkpoint, stream events, and terminal run state together": the checkpoint
\* committed with the k-th finished step is the one taken after it.
CheckpointMatchesLog ==
  \A r \in Runs : ckpt # None /\ ckpt.run = r => ckpt.n = StepsDone(r)

\* The same sentence for a run's end: a consumer that is told Completed finds
\* the run completed in the store.
CompletedIsStored ==
  \A r \in Runs : (\E i \in DOMAIN seen[r] : seen[r][i].kind = "Done") =>
    status[r] = "completed"

\* lifecycle_terminal_releases_capacity: a run that is over and whose tasks have
\* ended occupies no slot of its instance.
SlotReleased == \A r \in Runs : Ended(r) /\ Finished(r) => ~registered[r]
=============================================================================
