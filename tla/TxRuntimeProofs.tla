-------------------------- MODULE TxRuntimeProofs ---------------------------
(***************************************************************************)
(* Machine-checked facts about TxRuntime, for any sets of runs and         *)
(* instances, any capacity of the raw channel and any set of faults.       *)
(***************************************************************************)
EXTENDS TxRuntime, FiniteSetTheorems, TLAPS

-----------------------------------------------------------------------------
(* Events.                                                                 *)

LEMMA EventsMade ==
  /\ Started \in Event /\ Beat \in Event
  /\ \A k \in 1..MaxSteps : StepStart(k) \in Event
  /\ \A k \in 1..MaxSteps, res \in StepResult : StepDone(k, res) \in Event
  /\ \A k \in TerminalKinds : Terminal(k) \in Event
BY DEF Event

LEMMA EventFields ==
  ASSUME NEW e \in Event
  PROVE  /\ e.kind = "StepStart" => e.n \in 1..MaxSteps
         /\ e.kind = "StepDone" => e.n \in 1..MaxSteps /\ e.result \in StepResult
         /\ IsTerminal(e) => e.kind \in TerminalKinds /\ StatusOf(e.kind) \in RunStatus
<1>1. CASE e \in {Started, Beat}
  BY <1>1 DEF Started, Beat, IsTerminal, TerminalKinds
<1>2. ASSUME NEW k \in 1..MaxSteps, e = StepStart(k)
      PROVE  e.kind = "StepStart" /\ e.n = k
  BY <1>2 DEF StepStart
<1>3. ASSUME NEW k \in 1..MaxSteps, NEW res \in StepResult, e = StepDone(k, res)
      PROVE  e.kind = "StepDone" /\ e.n = k /\ e.result = res
  BY <1>3 DEF StepDone
<1>4. ASSUME NEW k \in TerminalKinds, e = Terminal(k)
      PROVE  e.kind = k
  BY <1>4 DEF Terminal
<1>. QED
  BY <1>1, <1>2, <1>3, <1>4
     DEF Event, IsTerminal, TerminalKinds, StatusOf, RunStatus

\* What the runner and the bridge make of an event.
LEMMA EventSorts ==
  /\ ~IsTerminal(Started) /\ ~IsTerminal(Beat)
  /\ IsProgress(Started) /\ IsProgress(Beat)
  /\ Started.kind # "StepDone" /\ Beat.kind # "StepDone"
  /\ \A k : /\ StepStart(k).kind = "StepStart" /\ StepStart(k).n = k
            /\ IsProgress(StepStart(k))
  /\ \A k, res : /\ StepDone(k, res).kind = "StepDone" /\ StepDone(k, res).n = k
                 /\ StepDone(k, res).result = res /\ ~IsTerminal(StepDone(k, res))
  /\ \A k \in TerminalKinds : /\ Terminal(k).kind = k /\ IsTerminal(Terminal(k))
                              /\ Terminal(k).kind # "StepDone"
  /\ \A e : /\ e.kind = "StepDone" => ~IsTerminal(e)
            /\ e.kind = "StepDone" /\ ~IsFinal(e) => IsProgress(e)
            /\ ~IsTerminal(e) /\ e.kind # "StepDone" => IsProgress(e)
            /\ IsFinal(e) => e.kind = "StepDone" /\ ~IsTerminal(e)
BY DEF Started, Beat, StepStart, StepDone, Terminal, IsTerminal, IsFinal, IsProgress,
       TerminalKinds

LEMMA HeadTail ==
  ASSUME NEW S, NEW q \in Seq(S), q # <<>>
  PROVE  /\ Head(q) \in S /\ Head(q) = q[1] /\ 1 \in DOMAIN q
         /\ Tail(q) \in Seq(S) /\ Len(Tail(q)) = Len(q) - 1
         /\ \A i \in DOMAIN Tail(q) : i + 1 \in DOMAIN q /\ Tail(q)[i] = q[i + 1]
OBVIOUS

-----------------------------------------------------------------------------
(* Commits.                                                                *)

\* The events of the commits: the held step, if there is one, and one more.
LEMMA HeldCommit ==
  ASSUME TypeOK, NEW r \in Runs, NEW e \in Event
  PROVE  /\ HeldRecord(r) \in Record \cup {None}
         /\ <<e>> \in Seq(Event)
         /\ Append(HeldEvents(r), e) \in Seq(Event)
<1>1. HeldEvents(r) \in Seq(Event) /\ HeldRecord(r) \in Record \cup {None}
  BY DEF TypeOK, PendingStep, HeldEvents, HeldRecord
<1>. QED
  BY <1>1

\* What a recorded commit writes.
Written(r, cp, evs, st, taken) ==
  /\ registered[r] /\ ~Finished(r) /\ lease[r] = "live"
  /\ cp # None => cp.run = r
  /\ log' = [log EXCEPT ![r] = @ \o evs]
  /\ ckpt' = IF cp = None THEN ckpt ELSE cp
  /\ status' = [status EXCEPT ![r] = IF st = None THEN @ ELSE st]
  /\ lease' = [lease EXCEPT ![r] = IF st = None THEN @ ELSE "none"]
  /\ opsAt' = [opsAt EXCEPT ![r] = @ \cup {<<k, StepsDone(r)'>> : k \in taken}]

\* A commit is recorded as a whole or changes nothing in the store.
LEMMA CommitOutcome ==
  ASSUME TypeOK, NEW r \in Runs, NEW cp, NEW evs, NEW st, NEW taken,
         CommitEvents(r, cp, evs, st, taken)
  PROVE  /\ registered' \in [Runs -> BOOLEAN]
         /\ \A q \in Runs : q # r => registered'[q] = registered[q]
         /\ registered'[r] => registered[r]
         /\ \/ /\ Commit(r, cp, st # None) # "recorded"
               /\ UNCHANGED store
            \/ /\ Commit(r, cp, st # None) = "recorded"
               /\ Written(r, cp, evs, st, taken)
<1>. DEFINE answer == Commit(r, cp, st # None)
<1>1. registered' = [registered EXCEPT ![r] =
          @ /\ (answer = "error" \/ (answer = "recorded" /\ st = None))]
  BY DEF CommitEvents
<1>2. /\ registered' \in [Runs -> BOOLEAN]
      /\ \A q \in Runs : q # r => registered'[q] = registered[q]
      /\ registered'[r] => registered[r]
  BY <1>1 DEF TypeOK
<1>3. CASE answer = "recorded"
  <2>1. registered[r] /\ ~Finished(r) /\ lease[r] = "live" /\ (cp # None => cp.run = r)
    BY <1>3, Zenon DEF Commit
  <2>2. log' = [log EXCEPT ![r] = log[r] \o evs]
    BY <1>3 DEF CommitEvents
  <2>3. log'[r] = log[r] \o evs
    BY <2>2 DEF TypeOK
  <2>4. /\ ckpt' = IF cp = None THEN ckpt ELSE cp
        /\ status' = [status EXCEPT ![r] = IF st = None THEN @ ELSE st]
        /\ lease' = [lease EXCEPT ![r] = IF st = None THEN @ ELSE "none"]
    BY <1>3 DEF CommitEvents
  <2>5. opsAt' = [opsAt EXCEPT ![r] = @ \cup
             {<<k, StepsDone(r)'>> : k \in taken}]
    <3>. DEFINE written == log[r] \o evs
                n == Cardinality({i \in DOMAIN written : written[i].kind = "StepDone"})
    <3>1. opsAt' = [opsAt EXCEPT ![r] = @ \cup {<<k, n>> : k \in taken}]
      BY <1>3, Zenon DEF CommitEvents
    <3>2. n = StepsDone(r)'
      BY <2>3, Zenon DEF StepsDone
    <3>. QED
      BY <3>1, <3>2
  <2>. QED
    BY <1>2, <1>3, <2>1, <2>2, <2>4, <2>5, Zenon DEF Written
<1>4. CASE answer # "recorded"
  <2>1. UNCHANGED store
    BY <1>4, Zenon DEF CommitEvents
  <2>. QED
    BY <1>2, <1>4, <2>1, Zenon
<1>. QED
  BY <1>3, <1>4

\* A commit that finishes the run.
LEMMA FinishOutcome ==
  ASSUME TypeOK, NEW r \in Runs, NEW cp, NEW evs, NEW st \in RunStatus, NEW taken,
         CommitEvents(r, cp, evs, st, taken)
  PROVE  \/ Commit(r, cp, TRUE) # "recorded" /\ UNCHANGED store
         \/ /\ Commit(r, cp, TRUE) = "recorded"
            /\ Written(r, cp, evs, st, taken)
            /\ status'[r] = st
<1>1. st # None
  BY NoneAssumption
<1>2. Commit(r, cp, st # None) = Commit(r, cp, TRUE)
  BY <1>1, Zenon DEF Commit
<1>3. Written(r, cp, evs, st, taken) => status'[r] = st
  BY <1>1 DEF Written, TypeOK
<1>. QED
  BY <1>2, <1>3, CommitOutcome, Zenon

LEMMA CommitTypes ==
  ASSUME TypeOK, NEW r \in Runs, NEW cp \in Record \cup {None}, NEW evs \in Seq(Event),
         NEW st \in RunStatus \cup {None}, NEW taken \in SUBSET (1..MaxSteps),
         CommitEvents(r, cp, evs, st, taken)
  PROVE  /\ status' \in [Runs -> RunStatus \cup {"absent"}]
         /\ lease' \in [Runs -> {"none", "live", "lapsed"}]
         /\ log' \in [Runs -> Seq(Event)]
         /\ ckpt' \in Record \cup {None}
         /\ opsAt' \in [Runs -> SUBSET ((1..MaxSteps) \X Nat)]
         /\ registered' \in [Runs -> BOOLEAN]
<1>1. CASE UNCHANGED store
  BY <1>1, CommitOutcome DEF TypeOK, store
<1>2. CASE Written(r, cp, evs, st, taken)
  <2>1. log[r] \o evs \in Seq(Event)
    BY DEF TypeOK
  <2>2. log' \in [Runs -> Seq(Event)]
    BY <1>2, <2>1 DEF Written, TypeOK
  <2>3. StepsDone(r)' \in Nat
    <3>1. DOMAIN log'[r] = 1..Len(log'[r]) /\ Len(log'[r]) \in Nat
      BY <2>2
    <3>2. IsFiniteSet(1..Len(log'[r]))
      BY <3>1, FS_Interval
    <3>. QED
      BY <3>1, <3>2, FS_Subset, FS_CardinalityType DEF StepsDone
  <2>4. {<<k, StepsDone(r)'>> : k \in taken} \subseteq (1..MaxSteps) \X Nat
    BY <2>3
  <2>5. opsAt' \in [Runs -> SUBSET ((1..MaxSteps) \X Nat)]
    BY <1>2, <2>4 DEF Written, TypeOK
  <2>6. /\ status' \in [Runs -> RunStatus \cup {"absent"}]
        /\ lease' \in [Runs -> {"none", "live", "lapsed"}]
        /\ ckpt' \in Record \cup {None}
    BY <1>2 DEF Written, TypeOK
  <2>. QED
    BY <2>2, <2>5, <2>6, CommitOutcome
<1>. QED
  BY <1>1, <1>2, CommitOutcome

-----------------------------------------------------------------------------
(* Types.  A run that has been started has a home, and what the tasks have *)
(* in hand fits the place they are at.                                     *)

StartInv ==
  \A r \in Runs :
    /\ rpc[r] = "off" <=> status[r] = "absent"
    /\ bpc[r] = "off" <=> status[r] = "absent"
    /\ home[r] = None <=> status[r] = "absent"
    /\ status[r] = "absent" => ~registered[r] /\ log[r] = <<>> /\ seen[r] = <<>>

RunnerInv ==
  \A r \in Runs :
    /\ rpc[r] \in {"off", "open", "lock", "load"} => count[r] = 0
    /\ rpc[r] \in {"trans", "acted", "save", "fin"} => count[r] \in 1..MaxSteps
    /\ rpc[r] \in {"save", "fin"} => result[r] \in StepResult
    /\ rpc[r] = "term" => result[r] \in TerminalKinds

BridgeInv ==
  \A r \in Runs :
    /\ bpc[r] \in {"take", "commit", "send", "finish", "sendF", "sendT"} => cur[r] \in Event
    /\ bpc[r] \in {"commit", "send"} => IsProgress(cur[r])
    /\ bpc[r] = "take" => cur[r].kind = "StepDone"
    /\ bpc[r] \in {"finish", "sendF", "sendT"} => IsTerminal(cur[r])
    /\ held[r] # None /\ bpc[r] # "commit" => IsFinal(held[r].event)
    /\ bpc[r] = "commit" /\ cur[r].kind = "StepDone" => held[r] # None
    /\ bpc[r] = "sendF" => held[r] # None
    /\ bpc[r] = "done" => held[r] = None

TaskInv == TypeOK /\ StartInv /\ RunnerInv /\ BridgeInv

LEMMA RunnerTypes ==
  ASSUME TaskInv, NEW r \in Runs, Runner(r)
  PROVE  TypeOK'
<1>. USE ConstantsAssumption DEF TaskInv
<1>1. TypeOK
  OBVIOUS
<1>. DEFINE Pcs == {"off", "open", "lock", "load", "step", "trans", "acted", "save", "fin",
                    "term", "done"}
            Results == StepResult \cup TerminalKinds \cup {None}
<1>2. UNCHANGED <<store, home, registered, bridge, listening, seen>>
  BY DEF Runner, RunnerQuits, RunnerOpens, RunnerBeats, RunnerLocks, RunnerCancelled,
         RunnerLoads, RunnerSteps, RunnerPushes, RunnerTransits, RunnerSaves,
         RunnerFinishesStep, RunnerEnds, RunnerFrame
<1>lock. Unlocked(r) \in [Instances -> Runs \cup {None}]
  BY DEF Unlocked, TypeOK
<1>return. ASSUME NEW kind \in TerminalKinds, Return(r, kind)
      PROVE  /\ lock' \in [Instances -> Runs \cup {None}]
             /\ rpc' \in [Runs -> Pcs] /\ result' \in [Runs -> Results]
  BY <1>lock, <1>return DEF Return, TypeOK
<1>kinds. "Cancel" \in TerminalKinds /\ "Fail" \in TerminalKinds /\ "Done" \in TerminalKinds
      /\ "Interrupt" \in TerminalKinds
  BY DEF TerminalKinds
<1>3. CASE RunnerQuits(r)
  BY SMTT(30), <1>1, <1>2, <1>3 DEF RunnerQuits, Unlocked, Exit, RunnerFrame, TypeOK, store, bridge
<1>4. CASE RunnerOpens(r)
  BY <1>1, <1>2, <1>4, EventsMade DEF RunnerOpens, RunnerAt, Send, RunnerFrame, TypeOK, store, bridge
<1>5. CASE RunnerBeats(r)
  BY <1>1, <1>2, <1>5, EventsMade DEF RunnerBeats, Send, RunnerFrame, TypeOK, store, bridge
<1>6. CASE RunnerLocks(r)
  <2>1. /\ lock' \in [Instances -> Runs \cup {None}]
        /\ rpc' \in [Runs -> Pcs] /\ result' \in [Runs -> Results]
    <3>1. CASE cancel[r]
      <4>1. Return(r, "Cancel")
        BY <1>6, <3>1, Zenon DEF RunnerLocks
      <4>. QED
        BY <1>return, <1>kinds, <4>1
    <3>2. CASE ~cancel[r]
      <4>1. /\ lock' = [lock EXCEPT ![home[r]] = r]
            /\ rpc' = [rpc EXCEPT ![r] = "load"] /\ result' = result
        BY <1>6, <3>2, Zenon DEF RunnerLocks
      <4>. QED
        BY <4>1 DEF TypeOK
    <3>. QED
      BY <3>1, <3>2
  <2>. QED
    BY ZenonT(60), <1>1, <1>2, <1>6, <2>1 DEF RunnerLocks, RunnerFrame, TypeOK, store, bridge
<1>7. CASE RunnerCancelled(r)
  BY <1>1, <1>2, <1>7 DEF RunnerCancelled, Return, Unlocked, RunnerFrame, TypeOK, store,
     bridge, TerminalKinds
<1>8. CASE RunnerLoads(r)
  <2>1. /\ lock' \in [Instances -> Runs \cup {None}]
        /\ rpc' \in [Runs -> Pcs] /\ result' \in [Runs -> Results]
    <3>1. CASE Return(r, "Fail")
      BY <1>return, <1>kinds, <3>1
    <3>2. CASE rpc' = [rpc EXCEPT ![r] = "step"] /\ UNCHANGED <<lock, result>>
      BY <3>2 DEF TypeOK
    <3>. QED
      BY <1>8, <3>1, <3>2 DEF RunnerLoads
  <2>2. base' \in [Runs -> Record \cup {None}]
    BY <1>8 DEF RunnerLoads, TypeOK
  <2>. QED
    BY SMTT(30), <1>1, <1>2, <1>8, <2>1, <2>2 DEF RunnerLoads, RunnerFrame, TypeOK, store, bridge
<1>9. CASE RunnerSteps(r)
  <2>1. /\ lock' \in [Instances -> Runs \cup {None}]
        /\ rpc' \in [Runs -> Pcs] /\ result' \in [Runs -> Results]
        /\ raw' \in [Runs -> Seq(Event)] /\ count' \in [Runs -> 0..MaxSteps]
    <3>1. CASE count[r] = MaxSteps
      <4>1. Return(r, "Fail") /\ UNCHANGED <<count, raw>>
        BY <1>9, <3>1, Zenon DEF RunnerSteps
      <4>. QED
        BY <1>return, <1>kinds, <4>1 DEF TypeOK
    <3>2. CASE count[r] # MaxSteps
      <4>1. count[r] + 1 \in 1..MaxSteps
        BY <3>2 DEF TypeOK
      <4>2. StepStart(count[r] + 1) \in Event
        BY <4>1, EventsMade
      <4>3. /\ lock' \in [Instances -> Runs \cup {None}]
            /\ rpc' \in [Runs -> Pcs] /\ result' \in [Runs -> Results]
            /\ raw' \in [Runs -> Seq(Event)] /\ count' \in [Runs -> 0..MaxSteps]
        <5>1. /\ raw' = [raw EXCEPT ![r] = Append(@, StepStart(count[r] + 1))]
              /\ count' = [count EXCEPT ![r] = @ + 1]
              /\ rpc' = [rpc EXCEPT ![r] = "trans"] /\ lock' = lock /\ result' = result
          BY <1>9, <3>2, Zenon DEF RunnerSteps, Send
        <5>. QED
          BY <4>1, <4>2, <5>1 DEF TypeOK
      <4>. QED
        BY <4>3
    <3>. QED
      BY <3>1, <3>2
  <2>. QED
    BY <1>1, <1>2, <1>9, <2>1 DEF RunnerSteps, RunnerFrame, TypeOK, store, bridge
<1>10. CASE RunnerPushes(r)
  BY <1>1, <1>2, <1>10 DEF RunnerPushes, RunnerAt, TypeOK, store, bridge
<1>11. CASE RunnerTransits(r)
  <2>1. /\ lock' \in [Instances -> Runs \cup {None}]
        /\ rpc' \in [Runs -> Pcs] /\ result' \in [Runs -> Results]
    <3>1. CASE Return(r, "Fail")
      BY <1>return, <1>kinds, <3>1
    <3>2. ASSUME NEW res \in StepResult, rpc' = [rpc EXCEPT ![r] = "save"],
                 result' = [result EXCEPT ![r] = res], UNCHANGED lock
          PROVE  /\ lock' \in [Instances -> Runs \cup {None}]
                 /\ rpc' \in [Runs -> Pcs] /\ result' \in [Runs -> Results]
      BY <3>2 DEF TypeOK
    <3>. QED
      BY <1>11, <3>1, <3>2 DEF RunnerTransits
  <2>. QED
    BY <1>1, <1>2, <1>11, <2>1 DEF RunnerTransits, RunnerFrame, TypeOK, store, bridge
<1>12. CASE RunnerSaves(r)
  <2>1. [run |-> r, n |-> count[r], result |-> result[r]] \in Record
    BY <1>12 DEF RunnerSaves, RunnerAt, RunnerInv, Record
  <2>2. home[r] \in Instances
    BY <1>12 DEF RunnerSaves, RunnerAt, StartInv, TypeOK
  <2>3. saver' \in [Instances -> Seq(Record)]
    BY <1>12, <2>1, <2>2 DEF RunnerSaves, TypeOK
  <2>. QED
    BY SMTT(30), <1>1, <1>2, <1>12, <2>3 DEF RunnerSaves, RunnerFrame, TypeOK, store, bridge
<1>13. CASE RunnerFinishesStep(r)
  <2>1. StepDone(count[r], result[r]) \in Event
    BY <1>13, EventsMade DEF RunnerFinishesStep, RunnerAt, RunnerInv
  <2>2. raw' \in [Runs -> Seq(Event)]
    BY <1>13, <2>1 DEF RunnerFinishesStep, Send, TypeOK
  <2>3. /\ lock' \in [Instances -> Runs \cup {None}]
        /\ rpc' \in [Runs -> Pcs] /\ result' \in [Runs -> Results]
    <3>1. CASE result[r] = "next"
      BY ZenonT(60), <1>13, <3>1 DEF RunnerFinishesStep, TypeOK
    <3>2. CASE result[r] = "interrupt"
      BY <1>13, <1>return, <1>kinds, <3>2 DEF RunnerFinishesStep
    <3>3. CASE result[r] = "complete"
      BY <1>13, <1>return, <1>kinds, <3>3 DEF RunnerFinishesStep
    <3>. QED
      BY <1>13, <3>1, <3>2, <3>3 DEF RunnerFinishesStep, RunnerAt, RunnerInv, StepResult
  <2>. QED
    BY <1>1, <1>2, <1>13, <2>2, <2>3 DEF RunnerFinishesStep, RunnerFrame, TypeOK, store, bridge
<1>14. CASE RunnerEnds(r)
  BY SMTT(30), <1>1, <1>2, <1>14, EventsMade DEF RunnerEnds, RunnerAt, Send, Exit, RunnerFrame, TypeOK,
     store, bridge, RunnerInv
<1>. QED
  BY <1>3, <1>4, <1>5, <1>6, <1>7, <1>8, <1>9, <1>10, <1>11, <1>12, <1>13, <1>14 DEF Runner

\* What a commit of the held step and one more event leaves behind.
LEMMA HeldCommitTypes ==
  ASSUME TypeOK, NEW r \in Runs, NEW e \in Event, NEW st \in RunStatus,
         CommitEvents(r, HeldRecord(r), Append(HeldEvents(r), e), st, ops[r])
  PROVE  /\ status' \in [Runs -> RunStatus \cup {"absent"}]
         /\ lease' \in [Runs -> {"none", "live", "lapsed"}]
         /\ log' \in [Runs -> Seq(Event)]
         /\ ckpt' \in Record \cup {None}
         /\ opsAt' \in [Runs -> SUBSET ((1..MaxSteps) \X Nat)]
         /\ registered' \in [Runs -> BOOLEAN]
<1>1. ops[r] \in SUBSET (1..MaxSteps)
  BY DEF TypeOK
<1>. QED
  BY <1>1, HeldCommit, CommitTypes

LEMMA BridgeTypes ==
  ASSUME TaskInv, NEW r \in Runs, Bridge(r)
  PROVE  TypeOK'
<1>. USE DEF TaskInv
<1>. DEFINE Pcs == {"off", "recv", "select", "take", "commit", "send", "finish",
                    "sendF", "sendT", "sendX", "fail", "cancel", "cancelled", "clear", "done"}
<1>1. TypeOK /\ BridgeInv
  OBVIOUS
<1>2. UNCHANGED <<home, lock, runner, listening>>
  BY DEF Bridge, BridgeReceives, BridgeSelects, BridgeTakes, BridgeCommits, BridgeSends,
         BridgeFinishes, BridgeSendsHeld, BridgeSendsLast, BridgeFails, BridgeCancels,
         BridgeCommitsCancel, BridgeClears, BridgeFrame
<1>dispatch. ASSUME Dispatch(r)
             PROVE  /\ cur' \in [Runs -> Event \cup {None}] /\ raw' \in [Runs -> Seq(Event)]
                    /\ bpc' \in [Runs -> Pcs]
  <2>1. Head(raw[r]) \in Event /\ Tail(raw[r]) \in Seq(Event)
    BY <1>dispatch, HeadTail DEF Dispatch, TypeOK
  <2>. QED
    BY <1>dispatch, <2>1 DEF Dispatch, Goto, TypeOK
<1>leave. ASSUME Leave(r)
          PROVE  /\ cur' \in [Runs -> Event \cup {None}] /\ raw' \in [Runs -> Seq(Event)]
                 /\ bpc' \in [Runs -> Pcs] /\ held' \in [Runs -> PendingStep \cup {None}]
  BY <1>leave DEF Leave, Goto, TypeOK
<1>home. ASSUME bpc[r] # "off" PROVE home[r] \in Instances
  BY <1>home DEF StartInv, TypeOK
<1>ops. ASSUME ops' = [ops EXCEPT ![r] = {}] PROVE ops' \in [Runs -> SUBSET (1..MaxSteps)]
  BY <1>ops DEF TypeOK
<1>3. CASE BridgeReceives(r)
  <2>1. /\ cur' \in [Runs -> Event \cup {None}] /\ raw' \in [Runs -> Seq(Event)]
        /\ bpc' \in [Runs -> Pcs]
    <3>1. CASE Dispatch(r)
      BY <1>dispatch, <3>1
    <3>2. CASE ~ Dispatch(r)
      BY <1>3, <3>2 DEF BridgeReceives, Goto, TypeOK
    <3>. QED
      BY <3>1, <3>2
  <2>. QED
    BY <1>1, <1>2, <1>3, <2>1 DEF BridgeReceives, TypeOK, store, runner
<1>4. CASE BridgeSelects(r)
  <2>1. /\ cur' \in [Runs -> Event \cup {None}] /\ raw' \in [Runs -> Seq(Event)]
        /\ bpc' \in [Runs -> Pcs]
    <3>1. CASE Dispatch(r)
      BY <1>dispatch, <3>1
    <3>2. CASE ~ Dispatch(r)
      BY <1>4, <3>2 DEF BridgeSelects, Goto, TypeOK
    <3>. QED
      BY <3>1, <3>2
  <2>. QED
    BY <1>1, <1>2, <1>4, <2>1 DEF BridgeSelects, TypeOK, store, runner
<1>5. CASE BridgeTakes(r)
  <2>. cur[r] \in Event /\ home[r] \in Instances /\ MySaver(r) \in Seq(Record)
    BY <1>5, <1>home DEF BridgeTakes, BridgeAt, BridgeInv, MySaver, TypeOK
  <2>1. CASE MySaver(r) = <<>>
    BY ZenonT(60), <1>1, <1>2, <1>5, <2>1 DEF BridgeTakes, Goto, TypeOK, store, runner
  <2>2. CASE MySaver(r) # <<>>
    <3>1. Head(MySaver(r)) \in Record /\ Tail(MySaver(r)) \in Seq(Record)
      BY <2>2, HeadTail
    <3>2. [event |-> cur[r], record |-> Head(MySaver(r))] \in PendingStep
      BY <3>1 DEF PendingStep
    <3>3. /\ saver' = [saver EXCEPT ![home[r]] = Tail(MySaver(r))]
          /\ held' = [held EXCEPT ![r] = [event |-> cur[r], record |-> Head(MySaver(r))]]
          /\ bpc' \in [Runs -> Pcs]
          /\ UNCHANGED cancel
      BY <1>5, <2>2 DEF BridgeTakes, Goto, MySaver, TypeOK
    <3>4. saver' \in [Instances -> Seq(Record)] /\ held' \in [Runs -> PendingStep \cup {None}]
      BY <3>1, <3>2, <3>3 DEF TypeOK
    <3>. QED
      BY <1>1, <1>2, <1>5, <3>3, <3>4 DEF BridgeTakes, TypeOK, store, runner
  <2>. QED
    BY <2>1, <2>2
<1>6. CASE BridgeCommits(r)
  <2>1. /\ HeldRecord(r) \in Record \cup {None} /\ <<cur[r]>> \in Seq(Event)
        /\ (IF held[r] = None THEN {} ELSE ops[r]) \in SUBSET (1..MaxSteps)
    BY <1>6, HeldCommit DEF BridgeCommits, BridgeAt, BridgeInv, TypeOK
  <2>2. CommitEvents(r, HeldRecord(r), <<cur[r]>>, None, IF held[r] = None THEN {} ELSE ops[r])
    BY <1>6 DEF BridgeCommits
  <2>3. /\ status' \in [Runs -> RunStatus \cup {"absent"}]
        /\ lease' \in [Runs -> {"none", "live", "lapsed"}]
        /\ log' \in [Runs -> Seq(Event)]
        /\ ckpt' \in Record \cup {None}
        /\ opsAt' \in [Runs -> SUBSET ((1..MaxSteps) \X Nat)]
        /\ registered' \in [Runs -> BOOLEAN]
    BY <2>1, <2>2, CommitTypes
  <2>4. ops' \in [Runs -> SUBSET (1..MaxSteps)]
    BY <1>6 DEF BridgeCommits, TypeOK
  <2>. QED
    BY <1>1, <1>2, <1>6, <2>3, <2>4 DEF BridgeCommits, Goto, TypeOK, runner
<1>7. CASE BridgeSends(r)
  <2>1. cur[r] \in Event
    BY <1>7 DEF BridgeSends, BridgeAt, BridgeInv
  <2>2. bpc' \in [Runs -> Pcs] /\ seen' \in [Runs -> Seq(Event)]
    <3>1. CASE listening[r]
      <4>1. seen' = [seen EXCEPT ![r] = Append(@, cur[r])] /\ Goto(r, "recv")
        BY <1>7, <3>1, Zenon DEF BridgeSends
      <4>. QED
        BY <2>1, <4>1 DEF Goto, TypeOK
    <3>2. CASE ~listening[r]
      <4>1. Goto(r, "cancel") /\ UNCHANGED seen
        BY <1>7, <3>2, Zenon DEF BridgeSends
      <4>. QED
        BY <4>1 DEF Goto, TypeOK
    <3>. QED
      BY <3>1, <3>2
  <2>. QED
    BY <1>1, <1>2, <1>7, <2>2 DEF BridgeSends, TypeOK, store, runner
<1>8. CASE BridgeFinishes(r)
  <2>1. cur[r] \in Event /\ StatusOf(cur[r].kind) \in RunStatus
    BY <1>8, EventFields DEF BridgeFinishes, BridgeAt, BridgeInv
  <2>2. CommitEvents(r, HeldRecord(r), Append(HeldEvents(r), cur[r]),
                     StatusOf(cur[r].kind), ops[r])
    BY <1>8 DEF BridgeFinishes
  <2>3. bpc' \in [Runs -> Pcs] /\ cancel' \in [Runs -> BOOLEAN]
    BY <1>8 DEF BridgeFinishes, Goto, TypeOK
  <2>. QED
    BY <1>1, <1>2, <1>8, <1>ops, <2>1, <2>2, <2>3, HeldCommitTypes
       DEF BridgeFinishes, TypeOK, runner
<1>9. CASE BridgeSendsHeld(r)
  <2>1. held[r] # None /\ held[r].event \in Event
    BY <1>9 DEF BridgeSendsHeld, BridgeAt, BridgeInv, TypeOK, PendingStep
  <2>2. /\ cur' \in [Runs -> Event \cup {None}] /\ raw' \in [Runs -> Seq(Event)]
        /\ bpc' \in [Runs -> Pcs] /\ held' \in [Runs -> PendingStep \cup {None}]
        /\ seen' \in [Runs -> Seq(Event)]
    <3>1. CASE listening[r]
      <4>1. /\ seen' = [seen EXCEPT ![r] = Append(@, held[r].event)] /\ Goto(r, "sendT")
            /\ UNCHANGED <<cur, raw, held>>
        BY <1>9, <3>1, Zenon DEF BridgeSendsHeld
      <4>. QED
        BY <2>1, <4>1 DEF Goto, TypeOK
    <3>2. CASE ~listening[r]
      <4>1. Leave(r) /\ UNCHANGED seen
        BY <1>9, <3>2, Zenon DEF BridgeSendsHeld
      <4>. QED
        BY <1>leave, <4>1 DEF TypeOK
    <3>. QED
      BY <3>1, <3>2
  <2>. QED
    BY <1>1, <1>2, <1>9, <2>2 DEF BridgeSendsHeld, TypeOK, store, runner
<1>10. CASE BridgeSendsLast(r)
  <2>1. Terminal("Fail") \in Event /\ (bpc[r] = "sendT" => cur[r] \in Event)
    BY EventsMade DEF TerminalKinds, BridgeInv
  <2>2. seen' \in [Runs -> Seq(Event)]
    BY <1>10, <2>1 DEF BridgeSendsLast, BridgeAt, TypeOK
  <2>. QED
    BY <1>1, <1>2, <1>10, <1>leave, <2>2 DEF BridgeSendsLast, TypeOK, store, runner
<1>11. CASE BridgeFails(r)
  <2>1. Terminal("Fail") \in Event /\ "error" \in RunStatus
    BY EventsMade DEF TerminalKinds, RunStatus
  <2>. QED
    BY <1>1, <1>2, <1>11, <1>ops, <2>1, HeldCommitTypes DEF BridgeFails, Goto, TypeOK, runner
<1>12. CASE BridgeCancels(r)
  BY <1>1, <1>2, <1>12 DEF BridgeCancels, Goto, TypeOK, store, runner
<1>13. CASE BridgeCommitsCancel(r)
  <2>1. Terminal("Cancel") \in Event /\ "cancelled" \in RunStatus
    BY EventsMade DEF TerminalKinds, RunStatus
  <2>. QED
    BY <1>1, <1>2, <1>13, <1>ops, <2>1, HeldCommitTypes
       DEF BridgeCommitsCancel, Goto, TypeOK, runner
<1>14. CASE BridgeClears(r)
  <2>1. saver' \in [Instances -> Seq(Record)]
    <3>1. <<>> \in Seq(Record)
      OBVIOUS
    <3>2. saver' = [saver EXCEPT ![home[r]] = <<>>]
      BY <1>14 DEF BridgeClears
    <3>. QED
      BY <3>1, <3>2 DEF TypeOK
  <2>. QED
    BY <1>1, <1>2, <1>14, <1>leave, <2>1 DEF BridgeClears, TypeOK, store, runner
<1>. QED
  BY <1>3, <1>4, <1>5, <1>6, <1>7, <1>8, <1>9, <1>10, <1>11, <1>12, <1>13, <1>14 DEF Bridge

LEMMA OtherTypes ==
  ASSUME TaskInv, Next, \A r \in Runs : ~Runner(r) /\ ~Bridge(r)
  PROVE  TypeOK'
<1>. USE DEF TaskInv
<1>1. TypeOK
  OBVIOUS
<1>2. ASSUME NEW r \in Runs, NEW i \in Instances, Stream(r, i)
      PROVE  TypeOK'
  BY <1>1, <1>2 DEF Stream, TypeOK, RunStatus
<1>3. ASSUME NEW r \in Runs, RenewFails(r) \/ CancelRun(r)
      PROVE  TypeOK'
  <2>1. /\ cancel' = [cancel EXCEPT ![r] = TRUE]
        /\ UNCHANGED <<status, lease, log, registered, listening>> /\ EnvFrame
    BY <1>3 DEF RenewFails, CancelRun
  <2>. QED
    BY <1>1, <2>1 DEF EnvFrame, bridge, TypeOK
<1>4. ASSUME NEW r \in Runs, LeaseLapses(r)
      PROVE  TypeOK'
  BY <1>1, <1>4 DEF LeaseLapses, EnvFrame, bridge, TypeOK
<1>5. ASSUME NEW r \in Runs, Reap(r)
      PROVE  TypeOK'
  <2>1. Terminal("Fail") \in Event
    BY EventsMade DEF TerminalKinds
  <2>. QED
    BY <1>1, <1>5, <2>1 DEF Reap, EnvFrame, bridge, TypeOK, RunStatus
<1>6. ASSUME NEW r \in Runs, StopListening(r)
      PROVE  TypeOK'
  BY <1>1, <1>6 DEF StopListening, EnvFrame, bridge, TypeOK
<1>7. ASSUME NEW i \in Instances, Crash(i)
      PROVE  TypeOK'
  BY SMTT(30), <1>1, <1>7, ConstantsAssumption DEF Crash, store, TypeOK
<1>8. CASE Quiet
  BY <1>1, <1>8 DEF Quiet, vars, store, runner, bridge, TypeOK
<1>. QED
  BY <1>2, <1>3, <1>4, <1>5, <1>6, <1>7, <1>8 DEF Next

-----------------------------------------------------------------------------
(* A task only touches what is its own.                                    *)

LEMMA RunnerOwn ==
  ASSUME TaskInv, NEW r \in Runs, Runner(r)
  PROVE  /\ rpc[r] \notin {"off", "done"} /\ rpc'[r] # "off"
         /\ UNCHANGED <<store, home, registered, bridge, listening, seen>>
         /\ \A q \in Runs \ {r} :
              /\ rpc'[q] = rpc[q] /\ count'[q] = count[q] /\ result'[q] = result[q]
              /\ base'[q] = base[q] /\ raw'[q] = raw[q] /\ ops'[q] = ops[q]
<1>. USE DEF TaskInv
<1>done. ASSUME RunnerFinishesStep(r)
         PROVE  \/ rpc' = [rpc EXCEPT ![r] = "step"] /\ result' = result
                \/ \E kind \in TerminalKinds : Return(r, kind)
  <2>1. result[r] \in StepResult
    BY <1>done DEF RunnerFinishesStep, RunnerAt, RunnerInv
  <2>2. CASE result[r] = "next"
    BY <1>done, <2>2 DEF RunnerFinishesStep
  <2>3. CASE result[r] = "interrupt"
    BY <1>done, <2>3 DEF RunnerFinishesStep, TerminalKinds
  <2>4. CASE result[r] = "complete"
    BY <1>done, <2>4 DEF RunnerFinishesStep, TerminalKinds
  <2>. QED
    BY <2>1, <2>2, <2>3, <2>4 DEF StepResult
<1>1. UNCHANGED <<store, home, registered, bridge, listening, seen>>
  BY DEF Runner, RunnerQuits, RunnerOpens, RunnerBeats, RunnerLocks, RunnerCancelled,
         RunnerLoads, RunnerSteps, RunnerPushes, RunnerTransits, RunnerSaves,
         RunnerFinishesStep, RunnerEnds, RunnerFrame
<1>2. rpc[r] \notin {"off", "done"}
  BY DEF Runner, RunnerQuits, RunnerOpens, RunnerBeats, RunnerLocks, RunnerCancelled,
         RunnerLoads, RunnerSteps, RunnerPushes, RunnerTransits, RunnerSaves,
         RunnerFinishesStep, RunnerEnds, RunnerAt, InSelect, InTransition
<1>3. \E pc : pc # "off" /\ rpc' = [rpc EXCEPT ![r] = pc]
  <2>1. rpc = [rpc EXCEPT ![r] = rpc[r]]
    BY DEF TypeOK
  <2>2. ASSUME NEW kind, Return(r, kind) PROVE rpc' = [rpc EXCEPT ![r] = "term"]
    BY <2>2 DEF Return
  <2>3. ASSUME Exit(r) PROVE rpc' = [rpc EXCEPT ![r] = "done"]
    BY <2>3 DEF Exit
  <2>. QED
    BY <1>2, <1>done, <2>1, <2>2, <2>3
       DEF Runner, RunnerQuits, RunnerOpens, RunnerBeats, RunnerLocks, RunnerCancelled,
         RunnerLoads, RunnerSteps, RunnerPushes, RunnerTransits, RunnerSaves, RunnerEnds
<1>4. \E x : count' = [count EXCEPT ![r] = x]
  <2>1. count = [count EXCEPT ![r] = count[r]]
    BY DEF TypeOK
  <2>2. ASSUME Exit(r) PROVE count' = [count EXCEPT ![r] = 0]
    BY <2>2 DEF Exit
  <2>. QED
    BY <2>1, <2>2
       DEF Runner, RunnerQuits, RunnerOpens, RunnerBeats, RunnerLocks, RunnerCancelled,
         RunnerLoads, RunnerSteps, RunnerPushes, RunnerTransits, RunnerSaves,
         RunnerFinishesStep, RunnerEnds
<1>5. \E x : result' = [result EXCEPT ![r] = x]
  <2>1. result = [result EXCEPT ![r] = result[r]]
    BY DEF TypeOK
  <2>2. ASSUME Exit(r) PROVE result' = [result EXCEPT ![r] = None]
    BY <2>2 DEF Exit
  <2>3. ASSUME NEW kind, Return(r, kind) PROVE result' = [result EXCEPT ![r] = kind]
    BY <2>3 DEF Return
  <2>. QED
    BY <1>done, <2>1, <2>2, <2>3
       DEF Runner, RunnerQuits, RunnerOpens, RunnerBeats, RunnerLocks, RunnerCancelled,
         RunnerLoads, RunnerSteps, RunnerPushes, RunnerTransits, RunnerSaves, RunnerEnds
<1>6. \E x : base' = [base EXCEPT ![r] = x]
  <2>1. base = [base EXCEPT ![r] = base[r]]
    BY DEF TypeOK
  <2>. QED
    BY <2>1
       DEF Runner, RunnerQuits, RunnerOpens, RunnerBeats, RunnerLocks, RunnerCancelled,
         RunnerLoads, RunnerSteps, RunnerPushes, RunnerTransits, RunnerSaves,
         RunnerFinishesStep, RunnerEnds
<1>7. \E x : raw' = [raw EXCEPT ![r] = x]
  <2>1. raw = [raw EXCEPT ![r] = raw[r]]
    BY DEF TypeOK
  <2>2. ASSUME NEW e, Send(r, e) PROVE raw' = [raw EXCEPT ![r] = Append(@, e)]
    BY <2>2 DEF Send
  <2>. QED
    BY <2>1, <2>2
       DEF Runner, RunnerQuits, RunnerOpens, RunnerBeats, RunnerLocks, RunnerCancelled,
         RunnerLoads, RunnerSteps, RunnerPushes, RunnerTransits, RunnerSaves,
         RunnerFinishesStep, RunnerEnds
<1>8. \E x : ops' = [ops EXCEPT ![r] = x]
  <2>1. ops = [ops EXCEPT ![r] = ops[r]]
    BY DEF TypeOK
  <2>. QED
    BY <2>1
       DEF Runner, RunnerQuits, RunnerOpens, RunnerBeats, RunnerLocks, RunnerCancelled,
         RunnerLoads, RunnerSteps, RunnerPushes, RunnerTransits, RunnerSaves,
         RunnerFinishesStep, RunnerEnds, RunnerFrame
<1>. QED
  BY <1>1, <1>2, <1>3, <1>4, <1>5, <1>6, <1>7, <1>8 DEF TypeOK

LEMMA BridgeOwn ==
  ASSUME TaskInv, NEW r \in Runs, Bridge(r)
  PROVE  /\ bpc[r] \notin {"off", "done"} /\ bpc'[r] # "off"
         /\ UNCHANGED <<home, lock, runner, listening>>
         /\ \A q \in Runs \ {r} :
              /\ bpc'[q] = bpc[q] /\ cur'[q] = cur[q] /\ held'[q] = held[q]
              /\ raw'[q] = raw[q] /\ ops'[q] = ops[q] /\ seen'[q] = seen[q]
<1>. USE DEF TaskInv
<1>1. UNCHANGED <<home, lock, runner, listening>>
  BY DEF Bridge, BridgeReceives, BridgeSelects, BridgeTakes, BridgeCommits, BridgeSends,
           BridgeFinishes, BridgeSendsHeld, BridgeSendsLast, BridgeFails, BridgeCancels,
           BridgeCommitsCancel, BridgeClears, BridgeFrame
<1>2. bpc[r] \notin {"off", "done"}
  BY DEF Bridge, BridgeReceives, BridgeSelects, BridgeTakes, BridgeCommits, BridgeSends,
           BridgeFinishes, BridgeSendsHeld, BridgeSendsLast, BridgeFails, BridgeCancels,
           BridgeCommitsCancel, BridgeClears, BridgeAt
<1>dispatch. ASSUME Dispatch(r)
             PROVE  \E pc, e, rest : /\ pc # "off" /\ bpc' = [bpc EXCEPT ![r] = pc]
                                     /\ cur' = [cur EXCEPT ![r] = e]
                                     /\ raw' = [raw EXCEPT ![r] = rest]
  BY <1>dispatch DEF Dispatch, Goto
<1>leave. ASSUME Leave(r)
          PROVE  /\ bpc' = [bpc EXCEPT ![r] = "done"] /\ cur' = [cur EXCEPT ![r] = None]
                 /\ raw' = [raw EXCEPT ![r] = <<>>] /\ held' = [held EXCEPT ![r] = None]
  BY <1>leave DEF Leave, Goto
<1>same. /\ cur = [cur EXCEPT ![r] = cur[r]] /\ raw = [raw EXCEPT ![r] = raw[r]]
         /\ held = [held EXCEPT ![r] = held[r]] /\ ops = [ops EXCEPT ![r] = ops[r]]
         /\ seen = [seen EXCEPT ![r] = seen[r]]
  BY DEF TypeOK
<1>3. \E pc : pc # "off" /\ bpc' = [bpc EXCEPT ![r] = pc]
  BY <1>dispatch, <1>leave DEF Bridge, BridgeReceives, BridgeSelects, BridgeTakes, BridgeCommits, BridgeSends,
           BridgeFinishes, BridgeSendsHeld, BridgeSendsLast, BridgeFails, BridgeCancels,
           BridgeCommitsCancel, BridgeClears, Goto
<1>4. \E x : cur' = [cur EXCEPT ![r] = x]
  BY <1>dispatch, <1>leave, <1>same DEF Bridge, BridgeReceives, BridgeSelects, BridgeTakes, BridgeCommits, BridgeSends,
           BridgeFinishes, BridgeSendsHeld, BridgeSendsLast, BridgeFails, BridgeCancels,
           BridgeCommitsCancel, BridgeClears
<1>5. \E x : raw' = [raw EXCEPT ![r] = x]
  BY <1>dispatch, <1>leave, <1>same DEF Bridge, BridgeReceives, BridgeSelects, BridgeTakes, BridgeCommits, BridgeSends,
           BridgeFinishes, BridgeSendsHeld, BridgeSendsLast, BridgeFails, BridgeCancels,
           BridgeCommitsCancel, BridgeClears
<1>6. \E x : held' = [held EXCEPT ![r] = x]
  BY <1>leave, <1>same DEF Bridge, BridgeReceives, BridgeSelects, BridgeTakes, BridgeCommits, BridgeSends,
           BridgeFinishes, BridgeSendsHeld, BridgeSendsLast, BridgeFails, BridgeCancels,
           BridgeCommitsCancel, BridgeClears
<1>7. \E x : ops' = [ops EXCEPT ![r] = x]
  BY <1>same DEF Bridge, BridgeReceives, BridgeSelects, BridgeTakes, BridgeCommits, BridgeSends,
           BridgeFinishes, BridgeSendsHeld, BridgeSendsLast, BridgeFails, BridgeCancels,
           BridgeCommitsCancel, BridgeClears
<1>8. \E x : seen' = [seen EXCEPT ![r] = x]
  BY <1>same DEF Bridge, BridgeReceives, BridgeSelects, BridgeTakes, BridgeCommits, BridgeSends,
           BridgeFinishes, BridgeSendsHeld, BridgeSendsLast, BridgeFails, BridgeCancels,
           BridgeCommitsCancel, BridgeClears
<1>. QED
  BY <1>1, <1>2, <1>3, <1>4, <1>5, <1>6, <1>7, <1>8 DEF TypeOK

\* A step of a bridge leaves the store alone or is one recorded commit.
LEMMA BridgeStores ==
  ASSUME TaskInv, NEW r \in Runs, Bridge(r)
  PROVE  /\ \A q \in Runs \ {r} : registered'[q] = registered[q]
         /\ registered'[r] => registered[r]
         /\ \/ UNCHANGED <<status, log, ckpt, opsAt>>
            \/ /\ status[r] = "running" /\ BridgeCommits(r)
               /\ Written(r, HeldRecord(r), <<cur[r]>>, None,
                               IF held[r] = None THEN {} ELSE ops[r])
            \/ /\ status[r] = "running" /\ BridgeFinishes(r)
               /\ Written(r, HeldRecord(r), Append(HeldEvents(r), cur[r]),
                               StatusOf(cur[r].kind), ops[r])
            \/ /\ status[r] = "running" /\ BridgeFails(r)
               /\ Written(r, HeldRecord(r), Append(HeldEvents(r), Terminal("Fail")),
                               "error", ops[r])
            \/ /\ status[r] = "running" /\ BridgeCommitsCancel(r)
               /\ Written(r, HeldRecord(r), Append(HeldEvents(r), Terminal("Cancel")),
                               "cancelled", ops[r])
<1>. USE DEF TaskInv
<1>1. ASSUME NEW cp, NEW evs, NEW st, NEW taken, CommitEvents(r, cp, evs, st, taken)
      PROVE  /\ \A q \in Runs \ {r} : registered'[q] = registered[q]
             /\ registered'[r] => registered[r]
             /\ \/ UNCHANGED <<status, log, ckpt, opsAt>>
                \/ status[r] = "running" /\ Written(r, cp, evs, st, taken)
  <2>1. CASE UNCHANGED store
    BY <1>1, <2>1, CommitOutcome DEF store
  <2>2. CASE Written(r, cp, evs, st, taken)
    <3>1. status[r] = "running"
      BY <2>2 DEF Written, StartInv, Finished, TypeOK
    <3>. QED
      BY <1>1, <2>2, <3>1, CommitOutcome, Zenon
  <2>. QED
    BY <1>1, <2>1, <2>2, CommitOutcome, Zenon
<1>2. CASE BridgeCommits(r)
  BY <1>1, <1>2, Zenon DEF BridgeCommits
<1>3. CASE BridgeFinishes(r)
  BY <1>1, <1>3, Zenon DEF BridgeFinishes
<1>4. CASE BridgeFails(r)
  BY <1>1, <1>4, Zenon DEF BridgeFails
<1>5. CASE BridgeCommitsCancel(r)
  BY <1>1, <1>5, Zenon DEF BridgeCommitsCancel
<1>6. CASE UNCHANGED <<store, registered>>
  BY <1>6 DEF store
<1>. QED
  BY <1>2, <1>3, <1>4, <1>5, <1>6
     DEF Bridge, BridgeReceives, BridgeSelects, BridgeTakes, BridgeSends, BridgeSendsHeld,
         BridgeSendsLast, BridgeCancels, BridgeClears

-----------------------------------------------------------------------------
(* Types, and what the tasks have in hand.                                 *)

\* A step is one of the runner, of the bridge or of the environment of a run.
LEMMA StepOf ==
  ASSUME Next
  PROVE  \/ \E r \in Runs : Runner(r) \/ Bridge(r)
         \/ \E r \in Runs, i \in Instances : Stream(r, i)
         \/ \E r \in Runs : RenewFails(r) \/ CancelRun(r) \/ LeaseLapses(r) \/ StopListening(r)
         \/ \E r \in Runs : Reap(r)
         \/ \E i \in Instances : Crash(i)
         \/ UNCHANGED vars
BY DEF Next, Quiet

\* A commit is about one run, which was running.
LEMMA BridgeStoresOwn ==
  ASSUME TaskInv, NEW r \in Runs, Bridge(r)
  PROVE  /\ \/ UNCHANGED <<status, log, ckpt, opsAt>>
            \/ status[r] = "running"
         /\ status'[r] # status[r] => status[r] = "running"
         /\ \A q \in Runs \ {r} :
              status'[q] = status[q] /\ log'[q] = log[q] /\ opsAt'[q] = opsAt[q]
<1>1. ASSUME NEW cp, NEW evs, NEW st, NEW taken, Written(r, cp, evs, st, taken)
      PROVE  \A q \in Runs \ {r} :
               status'[q] = status[q] /\ log'[q] = log[q] /\ opsAt'[q] = opsAt[q]
  BY <1>1 DEF Written, TaskInv, TypeOK
<1>2. CASE UNCHANGED <<status, log, ckpt, opsAt>>
  BY <1>2
<1>3. CASE status[r] = "running" /\ \E cp, evs, st, taken : Written(r, cp, evs, st, taken)
  BY <1>1, <1>3
<1>4. \/ UNCHANGED <<status, log, ckpt, opsAt>>
      \/ status[r] = "running" /\ \E cp, evs, st, taken : Written(r, cp, evs, st, taken)
  BY BridgeStores, Zenon
<1>. QED
  BY <1>2, <1>3, <1>4

LEMMA StartStep ==
  ASSUME TaskInv, Next
  PROVE  StartInv'
<1>. USE DEF TaskInv
<1>1. ASSUME NEW r \in Runs, Runner(r)
      PROVE  StartInv'
  BY <1>1, RunnerOwn DEF StartInv, store, bridge
<1>2. ASSUME NEW r \in Runs, Bridge(r)
      PROVE  StartInv'
  <2>1. status[r] # "absent" /\ status'[r] # "absent"
    <3>1. status[r] # "absent"
      BY <1>2, BridgeOwn DEF StartInv
    <3>2. ASSUME NEW cp, NEW evs, NEW st \in RunStatus \cup {None}, NEW taken,
                 Written(r, cp, evs, st, taken)
          PROVE  status'[r] # "absent"
      BY <3>1, <3>2 DEF Written, RunStatus, TypeOK
    <3>3. status'[r] = status[r] \/ \E cp, evs, taken : \E st \in RunStatus \cup {None} :
             Written(r, cp, evs, st, taken)
      <4>1. BridgeFinishes(r) => StatusOf(cur[r].kind) \in RunStatus
        BY EventFields DEF BridgeFinishes, BridgeAt, BridgeInv
      <4>2. "error" \in RunStatus /\ "cancelled" \in RunStatus
        BY DEF RunStatus
      <4>. QED
        BY <1>2, <4>1, <4>2, BridgeStores, Zenon
    <3>. QED
      BY <3>1, <3>2, <3>3
  <2>2. \A q \in Runs \ {r} : status'[q] = status[q] /\ log'[q] = log[q]
    BY <1>2, BridgeStoresOwn
  <2>3. /\ rpc' = rpc /\ home' = home
        /\ bpc[r] # "off" /\ bpc'[r] # "off"
        /\ \A q \in Runs \ {r} : bpc'[q] = bpc[q] /\ seen'[q] = seen[q]
    BY <1>2, BridgeOwn DEF runner
  <2>4. \A q \in Runs \ {r} : registered'[q] = registered[q]
    BY <1>2, BridgeStores
  <2>. QED
    BY <2>1, <2>2, <2>3, <2>4 DEF StartInv
<1>3. ASSUME NEW r \in Runs, NEW i \in Instances, Stream(r, i)
      PROVE  StartInv'
  BY <1>3, ConstantsAssumption DEF Stream, StartInv, TypeOK
<1>4. ASSUME NEW r \in Runs, RenewFails(r) \/ CancelRun(r) \/ LeaseLapses(r) \/ StopListening(r)
      PROVE  StartInv'
  BY <1>4 DEF RenewFails, CancelRun, LeaseLapses, StopListening, EnvFrame, bridge, StartInv
<1>5. ASSUME NEW r \in Runs, Reap(r)
      PROVE  StartInv'
  BY <1>5 DEF Reap, EnvFrame, bridge, StartInv, TypeOK
<1>6. ASSUME NEW i \in Instances, Crash(i)
      PROVE  StartInv'
  BY <1>6, ConstantsAssumption DEF Crash, store, StartInv, TypeOK
<1>7. CASE UNCHANGED vars
  BY <1>7 DEF vars, store, runner, bridge, StartInv
<1>. QED
  BY <1>1, <1>2, <1>3, <1>4, <1>5, <1>6, <1>7, StepOf

\* The moves of a runner.
LEMMA RunnerMoves ==
  ASSUME TaskInv, NEW r \in Runs, Runner(r)
  PROVE  \/ rpc'[r] = "done"
         \/ rpc'[r] = "term" /\ result'[r] \in TerminalKinds
         \/ rpc[r] = "open" /\ rpc'[r] = "lock" /\ count'[r] = count[r]
         \/ rpc'[r] = rpc[r] /\ count'[r] = count[r] /\ result'[r] = result[r]
         \/ rpc[r] = "lock" /\ rpc'[r] = "load" /\ count'[r] = count[r]
         \/ rpc[r] \in {"load", "fin"} /\ rpc'[r] = "step" /\ count'[r] = count[r]
         \/ /\ rpc[r] = "step" /\ rpc'[r] = "trans"
            /\ count[r] # MaxSteps /\ count'[r] = count[r] + 1
         \/ rpc[r] = "trans" /\ rpc'[r] = "acted" /\ count'[r] = count[r]
         \/ /\ rpc[r] \in {"trans", "acted"} /\ rpc'[r] = "save" /\ count'[r] = count[r]
            /\ result'[r] \in StepResult
         \/ /\ rpc[r] = "save" /\ rpc'[r] = "fin" /\ count'[r] = count[r]
            /\ result'[r] = result[r]
<1>. USE DEF TaskInv
<1>inv. RunnerInv /\ TypeOK
  OBVIOUS
<1>return. ASSUME NEW kind \in TerminalKinds, Return(r, kind)
      PROVE  rpc'[r] = "term" /\ result'[r] = kind
  BY <1>return DEF Return, TypeOK
<1>exit. ASSUME Exit(r)
      PROVE  rpc'[r] = "done"
  BY <1>exit DEF Exit, TypeOK
<1>1. CASE RunnerQuits(r)
  BY <1>exit, <1>1 DEF RunnerQuits
<1>2. CASE RunnerOpens(r)
  BY <1>inv, <1>2 DEF RunnerOpens, RunnerAt, TypeOK
<1>3. CASE RunnerBeats(r)
  BY <1>3 DEF RunnerBeats
<1>4. CASE RunnerLocks(r)
  <2>1. CASE Return(r, "Cancel")
    BY <1>return, <2>1 DEF TerminalKinds
  <2>2. CASE rpc' = [rpc EXCEPT ![r] = "load"]
    BY <1>inv, <1>4, <2>2 DEF RunnerLocks, RunnerAt, TypeOK
  <2>. QED
    BY <1>4, <2>1, <2>2 DEF RunnerLocks
<1>5. CASE RunnerCancelled(r)
  BY <1>return, <1>5 DEF RunnerCancelled, TerminalKinds
<1>6. CASE RunnerLoads(r)
  <2>1. CASE Return(r, "Fail")
    BY <1>return, <2>1 DEF TerminalKinds
  <2>2. CASE rpc' = [rpc EXCEPT ![r] = "step"]
    BY <1>inv, <1>6, <2>2 DEF RunnerLoads, RunnerAt, TypeOK
  <2>. QED
    BY <1>6, <2>1, <2>2 DEF RunnerLoads
<1>7. CASE RunnerSteps(r)
  <2>1. CASE Return(r, "Fail")
    BY <1>return, <2>1 DEF TerminalKinds
  <2>2. CASE /\ count[r] # MaxSteps /\ count' = [count EXCEPT ![r] = @ + 1]
             /\ rpc' = [rpc EXCEPT ![r] = "trans"]
    BY <1>inv, <1>7, <2>2 DEF RunnerSteps, RunnerAt, TypeOK
  <2>. QED
    BY <1>7, <2>1, <2>2, Zenon DEF RunnerSteps
<1>8. CASE RunnerPushes(r)
  BY <1>inv, <1>8 DEF RunnerPushes, RunnerAt, TypeOK
<1>9. CASE RunnerTransits(r)
  <2>1. CASE Return(r, "Fail")
    BY <1>return, <2>1 DEF TerminalKinds
  <2>2. ASSUME NEW res \in StepResult, rpc' = [rpc EXCEPT ![r] = "save"],
               result' = [result EXCEPT ![r] = res]
        PROVE  rpc'[r] = "save" /\ result'[r] \in StepResult
    BY <1>inv, <2>2 DEF TypeOK
  <2>. QED
    BY <1>9, <2>1, <2>2 DEF RunnerTransits, InTransition
<1>10. CASE RunnerSaves(r)
  BY <1>inv, <1>10 DEF RunnerSaves, RunnerAt, TypeOK
<1>11. CASE RunnerFinishesStep(r)
  <2>1. count' = count /\ rpc[r] = "fin" /\ result[r] \in StepResult
    BY <1>inv, <1>11 DEF RunnerFinishesStep, RunnerAt, RunnerInv
  <2>2. CASE result[r] = "next"
    BY <1>inv, <1>11, <2>1, <2>2 DEF RunnerFinishesStep, TypeOK
  <2>3. CASE result[r] = "interrupt"
    BY <1>return, <1>11, <2>3 DEF RunnerFinishesStep, TerminalKinds
  <2>4. CASE result[r] = "complete"
    BY <1>return, <1>11, <2>4 DEF RunnerFinishesStep, TerminalKinds
  <2>. QED
    BY <2>1, <2>2, <2>3, <2>4 DEF StepResult
<1>12. CASE RunnerEnds(r)
  BY <1>exit, <1>12 DEF RunnerEnds
<1>. QED
  BY <1>1, <1>2, <1>3, <1>4, <1>5, <1>6, <1>7, <1>8, <1>9, <1>10, <1>11, <1>12
     DEF Runner

LEMMA RunnerStep ==
  ASSUME TaskInv, Next
  PROVE  RunnerInv'
<1>. USE DEF TaskInv
<1>1. ASSUME NEW r \in Runs, Runner(r)
      PROVE  RunnerInv'
  <2>1. RunnerInv /\ TypeOK
    OBVIOUS
  <2>5. /\ rpc[r] \in {"off", "open", "lock", "load"} => count[r] = 0
        /\ rpc[r] \in {"trans", "acted", "save", "fin"} => count[r] \in 1..MaxSteps
        /\ rpc[r] \in {"save", "fin"} => result[r] \in StepResult
        /\ rpc[r] = "term" => result[r] \in TerminalKinds
        /\ count[r] \in 0..MaxSteps /\ MaxSteps \in Nat
    BY <2>1, ConstantsAssumption DEF RunnerInv, TypeOK
  <2>6. /\ rpc'[r] \in {"off", "open", "lock", "load"} => count'[r] = 0
        /\ rpc'[r] \in {"trans", "acted", "save", "fin"} => count'[r] \in 1..MaxSteps
        /\ rpc'[r] \in {"save", "fin"} => result'[r] \in StepResult
        /\ rpc'[r] = "term" => result'[r] \in TerminalKinds
    BY <1>1, <2>5, RunnerMoves
  <2>7. \A q \in Runs \ {r} : rpc'[q] = rpc[q] /\ count'[q] = count[q] /\ result'[q] = result[q]
    BY <1>1, RunnerOwn
  <2>. QED
    BY <2>1, <2>6, <2>7 DEF RunnerInv
<1>2. ASSUME NEW r \in Runs, Bridge(r)
      PROVE  RunnerInv'
  BY <1>2, BridgeOwn DEF runner, RunnerInv
<1>3. ASSUME NEW r \in Runs, NEW i \in Instances, Stream(r, i)
      PROVE  RunnerInv'
  BY <1>3 DEF Stream, StartInv, RunnerInv, TypeOK
<1>4. ASSUME NEW r \in Runs, \/ RenewFails(r) \/ CancelRun(r) \/ LeaseLapses(r)
                              \/ StopListening(r) \/ Reap(r)
      PROVE  RunnerInv'
  BY <1>4 DEF RenewFails, CancelRun, LeaseLapses, StopListening, Reap, EnvFrame, RunnerInv
<1>5. ASSUME NEW i \in Instances, Crash(i)
      PROVE  RunnerInv'
  BY <1>5 DEF Crash, RunnerInv, TypeOK
<1>6. CASE UNCHANGED vars
  BY <1>6 DEF vars, runner, RunnerInv
<1>. QED
  BY <1>1, <1>2, <1>3, <1>4, <1>5, <1>6, StepOf

\* BridgeInv, for one run.
BridgeHas(r) ==
  /\ bpc[r] \in {"take", "commit", "send", "finish", "sendF", "sendT"} => cur[r] \in Event
  /\ bpc[r] \in {"commit", "send"} => IsProgress(cur[r])
  /\ bpc[r] = "take" => cur[r].kind = "StepDone"
  /\ bpc[r] \in {"finish", "sendF", "sendT"} => IsTerminal(cur[r])
  /\ held[r] # None /\ bpc[r] # "commit" => IsFinal(held[r].event)
  /\ bpc[r] = "commit" /\ cur[r].kind = "StepDone" => held[r] # None
  /\ bpc[r] = "sendF" => held[r] # None
  /\ bpc[r] = "done" => held[r] = None

LEMMA BridgeKeepsHas ==
  ASSUME TaskInv, NEW r \in Runs, Bridge(r)
  PROVE  BridgeHas(r)'
<1>. USE DEF TaskInv
<1>1. TypeOK /\ BridgeHas(r)
  BY DEF BridgeInv, BridgeHas
<1>dispatch. ASSUME Dispatch(r), bpc[r] \in {"recv", "select"}, held' = held
             PROVE  BridgeHas(r)'
  <2>1. Head(raw[r]) \in Event
    BY <1>1, <1>dispatch, HeadTail DEF Dispatch, TypeOK
  <2>2. cur'[r] = Head(raw[r]) /\ held'[r] = held[r]
    BY <1>1, <1>dispatch DEF Dispatch, TypeOK
  <2>3. CASE IsTerminal(Head(raw[r]))
    <3>1. Head(raw[r]).kind # "StepDone"
      BY <2>3, EventSorts
    <3>2. bpc' = [bpc EXCEPT ![r] = "finish"]
      BY <1>dispatch, <2>3, <3>1, Zenon DEF Dispatch, Goto
    <3>. QED
      BY <1>1, <1>dispatch, <2>1, <2>2, <2>3, <3>2 DEF BridgeHas, TypeOK
  <2>4. CASE Head(raw[r]).kind = "StepDone"
    <3>1. ~IsTerminal(Head(raw[r]))
      BY <2>4, EventSorts
    <3>2. bpc' = [bpc EXCEPT ![r] = "take"]
      BY <1>dispatch, <2>4, <3>1, Zenon DEF Dispatch, Goto
    <3>. QED
      BY <1>1, <1>dispatch, <2>1, <2>2, <2>4, <3>2 DEF BridgeHas, TypeOK
  <2>5. CASE ~IsTerminal(Head(raw[r])) /\ Head(raw[r]).kind # "StepDone"
    <3>1. bpc' = [bpc EXCEPT ![r] = "commit"]
      BY <1>dispatch, <2>5, Zenon DEF Dispatch, Goto
    <3>. QED
      BY <1>1, <1>dispatch, <2>1, <2>2, <2>5, <3>1, EventSorts DEF BridgeHas, TypeOK
  <2>. QED
    BY <2>3, <2>4, <2>5
<1>leave. ASSUME Leave(r)
          PROVE  BridgeHas(r)'
  BY <1>1, <1>leave DEF Leave, Goto, BridgeHas, TypeOK
<1>2. CASE BridgeReceives(r)
  <2>1. CASE ~ Dispatch(r)
    BY <1>1, <1>2, <2>1 DEF BridgeReceives, BridgeAt, Goto, BridgeHas, TypeOK
  <2>. QED
    BY <1>2, <1>dispatch, <2>1 DEF BridgeReceives, BridgeAt
<1>3. CASE BridgeSelects(r)
  <2>1. CASE ~ Dispatch(r)
    BY <1>1, <1>3, <2>1 DEF BridgeSelects, BridgeAt, Goto, BridgeHas, TypeOK
  <2>. QED
    BY <1>3, <1>dispatch, <2>1 DEF BridgeSelects, BridgeAt
<1>4. CASE BridgeTakes(r)
  <2>1. bpc[r] = "take" /\ cur' = cur
    BY <1>4 DEF BridgeTakes, BridgeAt
  <2>2. CASE MySaver(r) = <<>>
    <3>1. held' = held /\ bpc' = [bpc EXCEPT ![r] = "fail"]
      BY <1>4, <2>2, Zenon DEF BridgeTakes, Goto
    <3>. QED
      BY <1>1, <2>1, <3>1 DEF BridgeHas, TypeOK
  <2>3. CASE MySaver(r) # <<>>
    <3>1. /\ held' = [held EXCEPT ![r] = [event |-> cur[r], record |-> Head(MySaver(r))]]
          /\ bpc' = [bpc EXCEPT ![r] = IF IsFinal(cur[r]) THEN "recv" ELSE "commit"]
      BY <1>4, <2>3, Zenon DEF BridgeTakes, Goto
    <3>2. [event |-> cur[r], record |-> Head(MySaver(r))] \in PendingStep
      <4>1. MySaver(r) \in Seq(Record)
        BY <2>1 DEF StartInv, MySaver, TypeOK
      <4>2. Head(MySaver(r)) \in Record
        BY <2>3, <4>1, HeadTail
      <4>. QED
        BY <1>1, <2>1, <4>2 DEF BridgeHas, PendingStep
    <3>3. held'[r] # None /\ held'[r].event = cur[r] /\ cur'[r] = cur[r]
          /\ bpc'[r] = IF IsFinal(cur[r]) THEN "recv" ELSE "commit"
      BY <1>1, <2>1, <3>1, <3>2, NoneAssumption DEF TypeOK
    <3>. QED
      BY <1>1, <2>1, <3>3, EventSorts DEF BridgeHas
  <2>. QED
    BY <2>2, <2>3
<1>5. CASE BridgeCommits(r)
  <2>1. /\ bpc[r] = "commit" /\ cur' = cur /\ held'[r] = None
        /\ bpc'[r] \in {"send", "fail"}
    BY <1>1, <1>5 DEF BridgeCommits, BridgeAt, Goto, TypeOK
  <2>. QED
    BY <1>1, <2>1 DEF BridgeHas
<1>6. CASE BridgeSends(r)
  <2>1. /\ bpc[r] = "send" /\ cur' = cur /\ held' = held
        /\ bpc'[r] \in {"recv", "cancel"}
    BY <1>1, <1>6 DEF BridgeSends, BridgeAt, Goto, TypeOK
  <2>. QED
    BY <1>1, <2>1 DEF BridgeHas
<1>7. CASE BridgeFinishes(r)
  <2>1. /\ bpc[r] = "finish" /\ cur' = cur /\ held' = held
        /\ bpc'[r] \in {"fail", "sendT"} \/ (bpc'[r] = "sendF" /\ held[r] # None)
    BY <1>1, <1>7 DEF BridgeFinishes, BridgeAt, Goto, TypeOK
  <2>. QED
    BY <1>1, <2>1 DEF BridgeHas
<1>8. CASE BridgeSendsHeld(r)
  <2>1. CASE listening[r]
    <3>1. bpc[r] = "sendF" /\ cur' = cur /\ held' = held /\ bpc' = [bpc EXCEPT ![r] = "sendT"]
      BY <1>8, <2>1, Zenon DEF BridgeSendsHeld, BridgeAt, Goto
    <3>. QED
      BY <1>1, <3>1 DEF BridgeHas, TypeOK
  <2>2. CASE ~listening[r]
    BY <1>8, <1>leave, <2>2, Zenon DEF BridgeSendsHeld
  <2>. QED
    BY <2>1, <2>2
<1>9. CASE BridgeSendsLast(r)
  BY <1>9, <1>leave DEF BridgeSendsLast
<1>10. CASE BridgeFails(r) \/ BridgeCancels(r) \/ BridgeCommitsCancel(r)
  <2>1. /\ bpc[r] \in {"fail", "cancel", "cancelled"} /\ cur' = cur /\ held' = held
        /\ bpc'[r] \in {"sendX", "cancelled", "clear"}
    BY <1>1, <1>10
       DEF BridgeFails, BridgeCancels, BridgeCommitsCancel, BridgeAt, Goto, TypeOK
  <2>. QED
    BY <1>1, <2>1 DEF BridgeHas
<1>11. CASE BridgeClears(r)
  BY <1>11, <1>leave DEF BridgeClears
<1>. QED
  BY <1>2, <1>3, <1>4, <1>5, <1>6, <1>7, <1>8, <1>9, <1>10, <1>11 DEF Bridge

LEMMA BridgeStep ==
  ASSUME TaskInv, Next
  PROVE  BridgeInv'
<1>. USE DEF TaskInv
<1>1. ASSUME NEW r \in Runs, Runner(r)
      PROVE  BridgeInv'
  BY <1>1, RunnerOwn DEF bridge, BridgeInv
<1>2. ASSUME NEW r \in Runs, Bridge(r)
      PROVE  BridgeInv'
  <2>1. BridgeHas(r)'
    BY <1>2, BridgeKeepsHas
  <2>2. \A q \in Runs \ {r} : bpc'[q] = bpc[q] /\ cur'[q] = cur[q] /\ held'[q] = held[q]
    BY <1>2, BridgeOwn
  <2>. QED
    BY <2>1, <2>2 DEF BridgeInv, BridgeHas
<1>3. ASSUME NEW r \in Runs, NEW i \in Instances, Stream(r, i)
      PROVE  BridgeInv'
  <2>1. \A q \in Runs : \/ bpc'[q] = bpc[q]
                        \/ bpc[q] = "off" /\ bpc'[q] = "recv"
    <3>1. bpc' = [bpc EXCEPT ![r] = "recv"] /\ bpc[r] = "off"
      BY <1>3 DEF Stream, StartInv
    <3>. QED
      BY <3>1 DEF TypeOK
  <2>2. cur' = cur /\ held' = held
    BY <1>3 DEF Stream
  <2>. QED
    BY <2>1, <2>2 DEF BridgeInv
<1>4. ASSUME NEW r \in Runs, \/ RenewFails(r) \/ CancelRun(r) \/ LeaseLapses(r)
                              \/ StopListening(r) \/ Reap(r)
      PROVE  BridgeInv'
  BY <1>4 DEF RenewFails, CancelRun, LeaseLapses, StopListening, Reap, EnvFrame, bridge, BridgeInv
<1>5. ASSUME NEW i \in Instances, Crash(i)
      PROVE  BridgeInv'
  <2>1. \A q \in Runs : \/ bpc'[q] = bpc[q] /\ cur'[q] = cur[q] /\ held'[q] = held[q]
                        \/ bpc'[q] = "done" /\ held'[q] = None
    <3>1. /\ bpc' = [q \in Runs |-> IF home[q] = i THEN "done" ELSE bpc[q]]
          /\ cur' = [q \in Runs |-> IF home[q] = i THEN None ELSE cur[q]]
          /\ held' = [q \in Runs |-> IF home[q] = i THEN None ELSE held[q]]
      BY <1>5, Zenon DEF Crash
    <3>. QED
      BY <3>1
  <2>. QED
    BY <2>1 DEF BridgeInv
<1>6. CASE UNCHANGED vars
  BY <1>6 DEF vars, bridge, BridgeInv
<1>. QED
  BY <1>1, <1>2, <1>3, <1>4, <1>5, <1>6, StepOf

LEMMA TasksCorrect == Spec => []TaskInv
<1>1. Init => TaskInv
  <2>1. Init => TypeOK
    BY ConstantsAssumption DEF Init, TypeOK
  <2>. QED
    BY <2>1, ConstantsAssumption DEF Init, TaskInv, StartInv, RunnerInv, BridgeInv
<1>2. TaskInv /\ [Next]_vars => TaskInv'
  <2>1. ASSUME TaskInv, Next PROVE TypeOK'
    BY <2>1, RunnerTypes, BridgeTypes, OtherTypes
  <2>2. ASSUME TaskInv, UNCHANGED vars PROVE TaskInv'
    BY <2>2 DEF TaskInv, TypeOK, StartInv, RunnerInv, BridgeInv, vars, store, runner, bridge
  <2>. QED
    BY <2>1, <2>2, StartStep, RunnerStep, BridgeStep DEF TaskInv
<1>. QED
  BY <1>1, <1>2, PTL DEF Spec

-----------------------------------------------------------------------------
(* Commit before forward.                                                  *)

\* Ranks in a set of positions of a sequence that gets longer.
LEMMA RankGrows ==
  ASSUME NEW n \in Nat, NEW S \in SUBSET (1..n)
  PROVE  /\ IsFiniteSet(S) /\ Cardinality(S) \in Nat
         /\ \A i \in 1..n : Rank(S \cup {n + 1}, i) = Rank(S, i)
         /\ Rank(S, n) = Cardinality(S)
         /\ Rank(S \cup {n + 1}, n + 1) = Cardinality(S) + 1
         /\ Cardinality(S \cup {n + 1}) = Cardinality(S) + 1
<1>1. IsFiniteSet(1..n)
  BY FS_Interval
<1>2. IsFiniteSet(S)
  BY <1>1, FS_Subset
<1>3. Cardinality(S) \in Nat
  BY <1>2, FS_CardinalityType
<1>4. Cardinality(S \cup {n + 1}) = Cardinality(S) + 1
  <2>1. n + 1 \notin S
    OBVIOUS
  <2>. QED
    BY <1>2, <2>1, FS_AddElement
<1>5. ASSUME NEW i \in 1..n
      PROVE  {k \in S \cup {n + 1} : k <= i} = {k \in S : k <= i}
  OBVIOUS
<1>6. {k \in S : k <= n} = S /\ {k \in S \cup {n + 1} : k <= n + 1} = S \cup {n + 1}
  <2>1. \A k \in S : k <= n /\ k <= n + 1
    OBVIOUS
  <2>2. n + 1 <= n + 1
    OBVIOUS
  <2>. QED
    BY <2>1, <2>2, Zenon
<1>. QED
  BY <1>2, <1>3, <1>4, <1>5, <1>6 DEF Rank

LEMMA ProgressGrows ==
  ASSUME NEW s \in Seq(Event), NEW e \in Event
  PROVE  /\ Append(s, e) \in Seq(Event)
         /\ Progress(s) \in SUBSET (1..Len(s)) /\ Len(s) \in Nat
         /\ Progress(Append(s, e)) = IF IsProgress(e) THEN Progress(s) \cup {Len(s) + 1}
                                                      ELSE Progress(s)
         /\ \A i \in Progress(s) : Append(s, e)[i] = s[i]
         /\ Append(s, e)[Len(s) + 1] = e
BY DEF Progress

\* The progress of s is the beginning of that of l.
Forward(s, l) ==
  \A i \in Progress(s) : \E j \in Progress(l) :
    l[j] = s[i] /\ Rank(Progress(l), j) = Rank(Progress(s), i)

Count(s) == Cardinality(Progress(s))

LEMMA ForwardLog ==
  ASSUME NEW s \in Seq(Event), NEW l \in Seq(Event), NEW e \in Event
  PROVE  /\ Forward(s, l) => Forward(s, Append(l, e))
         /\ Count(l) \in Nat
         /\ ~IsProgress(e) => Count(Append(l, e)) = Count(l)
         /\ IsProgress(e) =>
              /\ Count(Append(l, e)) = Count(l) + 1
              /\ \E j \in Progress(Append(l, e)) :
                   /\ Append(l, e)[j] = e
                   /\ Rank(Progress(Append(l, e)), j) = Count(l) + 1
<1>1. /\ Progress(l) \in SUBSET (1..Len(l)) /\ Len(l) \in Nat
      /\ \A i \in Progress(l) : Append(l, e)[i] = l[i]
      /\ Append(l, e)[Len(l) + 1] = e
  BY ProgressGrows
<1>2. /\ Count(l) \in Nat
      /\ \A i \in 1..Len(l) : Rank(Progress(l) \cup {Len(l) + 1}, i) = Rank(Progress(l), i)
      /\ Rank(Progress(l) \cup {Len(l) + 1}, Len(l) + 1) = Count(l) + 1
      /\ Cardinality(Progress(l) \cup {Len(l) + 1}) = Count(l) + 1
  BY <1>1, RankGrows DEF Count
<1>3. CASE IsProgress(e)
  <2>1. Progress(Append(l, e)) = Progress(l) \cup {Len(l) + 1}
    BY <1>3, ProgressGrows
  <2>. QED
    BY <1>1, <1>2, <1>3, <2>1 DEF Forward, Count
<1>4. CASE ~IsProgress(e)
  <2>1. Progress(Append(l, e)) = Progress(l)
    BY <1>4, ProgressGrows
  <2>. QED
    BY <1>1, <1>2, <1>4, <2>1 DEF Forward, Count
<1>. QED
  BY <1>3, <1>4

LEMMA ForwardSeen ==
  ASSUME NEW s \in Seq(Event), NEW l \in Seq(Event), NEW e \in Event, Forward(s, l),
         IsProgress(e) => \E j \in Progress(l) :
                            l[j] = e /\ Rank(Progress(l), j) = Count(s) + 1
  PROVE  Forward(Append(s, e), l)
<1>1. /\ Progress(s) \in SUBSET (1..Len(s)) /\ Len(s) \in Nat
      /\ \A i \in Progress(s) : Append(s, e)[i] = s[i]
      /\ Append(s, e)[Len(s) + 1] = e
  BY ProgressGrows
<1>2. /\ \A i \in 1..Len(s) : Rank(Progress(s) \cup {Len(s) + 1}, i) = Rank(Progress(s), i)
      /\ Rank(Progress(s) \cup {Len(s) + 1}, Len(s) + 1) = Count(s) + 1
  BY <1>1, RankGrows DEF Count
<1>3. CASE IsProgress(e)
  <2>1. Progress(Append(s, e)) = Progress(s) \cup {Len(s) + 1}
    BY <1>3, ProgressGrows
  <2>. QED
    BY <1>1, <1>2, <1>3, <2>1 DEF Forward
<1>4. CASE ~IsProgress(e)
  <2>1. Progress(Append(s, e)) = Progress(s)
    BY <1>4, ProgressGrows
  <2>. QED
    BY <1>1, <1>4, <2>1 DEF Forward
<1>. QED
  BY <1>3, <1>4

\* Before it commits, a bridge has forwarded all progress there is in the log;
\* between commit and send, all but the event in hand.
ForwardedOf(r) ==
  /\ Forward(seen[r], log[r])
  /\ bpc[r] \in {"off", "recv", "select", "take", "commit"} => Count(seen[r]) = Count(log[r])
  /\ bpc[r] = "send" => \E j \in Progress(log[r]) :
       /\ log[r][j] = cur[r]
       /\ Rank(Progress(log[r]), j) = Count(seen[r]) + 1 /\ Count(log[r]) = Count(seen[r]) + 1

ForwardInv == \A r \in Runs : ForwardedOf(r)

\* What the last commit of a run writes is no progress.
LEMMA LastCommit ==
  ASSUME TaskInv, NEW r \in Runs, bpc[r] # "commit", NEW e \in Event, IsTerminal(e)
  PROVE  /\ log[r] \o Append(HeldEvents(r), e) \in Seq(Event)
         /\ Forward(seen[r], log[r]) => Forward(seen[r], log[r] \o Append(HeldEvents(r), e))
<1>. USE DEF TaskInv
<1>1. log[r] \in Seq(Event) /\ seen[r] \in Seq(Event)
  BY DEF TypeOK
<1>2. CASE held[r] = None
  <2>1. log[r] \o Append(HeldEvents(r), e) = Append(log[r], e)
    BY <1>1, <1>2 DEF HeldEvents
  <2>. QED
    BY <1>1, <2>1, ForwardLog, ProgressGrows
<1>3. CASE held[r] # None
  <2>1. held[r].event \in Event
    BY <1>3 DEF TypeOK, PendingStep
  <2>2. log[r] \o Append(HeldEvents(r), e) = Append(Append(log[r], held[r].event), e)
    BY <1>1, <1>3, <2>1 DEF HeldEvents
  <2>3. Append(log[r], held[r].event) \in Seq(Event)
    BY <1>1, <2>1
  <2>. QED
    <3>1. Append(Append(log[r], held[r].event), e) \in Seq(Event)
      BY <2>3
    <3>2. ASSUME Forward(seen[r], log[r])
          PROVE  Forward(seen[r], Append(Append(log[r], held[r].event), e))
      <4>1. Forward(seen[r], Append(log[r], held[r].event))
        BY <1>1, <2>1, <3>2, ForwardLog
      <4>. QED
        BY <1>1, <2>3, <4>1, ForwardLog
    <3>. QED
      BY <2>2, <3>1, <3>2
<1>. QED
  BY <1>2, <1>3

LEMMA ForwardSame ==
  ASSUME NEW r \in Runs, ForwardedOf(r),
         seen'[r] = seen[r], log'[r] = log[r], bpc'[r] = bpc[r], cur'[r] = cur[r]
  PROVE  ForwardedOf(r)'
BY DEF ForwardedOf

LEMMA ForwardBridge ==
  ASSUME TaskInv, NEW r \in Runs, ForwardedOf(r), Bridge(r)
  PROVE  ForwardedOf(r)'
<1>. USE DEF TaskInv
<1>1. /\ TypeOK /\ log[r] \in Seq(Event) /\ seen[r] \in Seq(Event)
      /\ Forward(seen[r], log[r])
      /\ bpc[r] \in {"off", "recv", "select", "take", "commit"} =>
           Count(seen[r]) = Count(log[r])
  BY DEF TypeOK, ForwardedOf
<1>quiet. ASSUME seen' = seen, Forward(seen[r], log'[r]),
                 bpc'[r] \notin {"off", "recv", "select", "take", "commit", "send"}
          PROVE  ForwardedOf(r)'
  BY <1>quiet DEF ForwardedOf
<1>last. ASSUME NEW e \in Event, IsTerminal(e), bpc[r] # "commit", NEW st,
                Written(r, HeldRecord(r), Append(HeldEvents(r), e), st, ops[r])
         PROVE  Forward(seen[r], log'[r])
  <2>1. log'[r] = log[r] \o Append(HeldEvents(r), e)
    BY <1>last DEF Written, TypeOK
  <2>. QED
    BY <1>1, <1>last, <2>1, LastCommit
<1>dispatch. ASSUME Dispatch(r), bpc[r] \in {"recv", "select"}, UNCHANGED <<seen, store>>
             PROVE  ForwardedOf(r)'
  <2>1. bpc'[r] \in {"finish", "take", "commit"}
    BY <1>dispatch DEF Dispatch, Goto, TypeOK
  <2>. QED
    BY <1>1, <1>dispatch, <2>1 DEF ForwardedOf, store
<1>2. CASE BridgeReceives(r)
  <2>1. CASE ~ Dispatch(r)
    <3>1. bpc'[r] \in {"cancel", "select"} /\ bpc[r] = "recv"
      BY <1>2, <2>1 DEF BridgeReceives, BridgeAt, Goto, TypeOK
    <3>. QED
      BY <1>1, <1>2, <3>1 DEF BridgeReceives, ForwardedOf, store
  <2>. QED
    BY <1>2, <1>dispatch, <2>1 DEF BridgeReceives, BridgeAt, store
<1>3. CASE BridgeSelects(r)
  <2>1. CASE ~ Dispatch(r)
    <3>1. bpc'[r] = "cancel"
      BY <1>3, <2>1 DEF BridgeSelects, BridgeAt, Goto, TypeOK
    <3>. QED
      BY <1>1, <1>3, <3>1 DEF BridgeSelects, ForwardedOf, store
  <2>. QED
    BY <1>3, <1>dispatch, <2>1 DEF BridgeSelects, BridgeAt, store
<1>4. CASE BridgeTakes(r)
  <2>1. bpc[r] = "take" /\ bpc'[r] \in {"fail", "recv", "commit"} /\ UNCHANGED <<seen, log>>
    BY <1>4 DEF BridgeTakes, BridgeAt, Goto, TypeOK, store
  <2>. QED
    BY <1>1, <2>1 DEF ForwardedOf
<1>5. CASE BridgeCommits(r)
  <2>1. /\ bpc[r] = "commit" /\ cur[r] \in Event /\ IsProgress(cur[r])
        /\ cur' = cur /\ seen' = seen /\ bpc'[r] \in {"send", "fail"}
    BY <1>5 DEF BridgeCommits, BridgeAt, BridgeInv, Goto, TypeOK
  <2>2. CASE bpc'[r] = "send"
    <3>1. Commit(r, HeldRecord(r), FALSE) = "recorded"
      BY <1>5, <2>2 DEF BridgeCommits, Goto, TypeOK
    <3>2. Written(r, HeldRecord(r), <<cur[r]>>, None, IF held[r] = None THEN {} ELSE ops[r])
      <4>1. CommitEvents(r, HeldRecord(r), <<cur[r]>>, None, IF held[r] = None THEN {} ELSE ops[r])
        BY <1>5 DEF BridgeCommits
      <4>2. Commit(r, HeldRecord(r), None # None) = "recorded"
        BY <3>1
      <4>. QED
        BY <1>1, <4>1, <4>2, CommitOutcome, Zenon
    <3>3. log'[r] = log[r] \o <<cur[r]>>
      BY <1>1, <3>2 DEF Written, TypeOK
    <3>4. log'[r] = Append(log[r], cur[r])
      BY <1>1, <2>1, <3>3
    <3>5. Forward(seen[r], log'[r])
      BY <1>1, <2>1, <3>4, ForwardLog
    <3>6. /\ Count(log'[r]) = Count(log[r]) + 1
          /\ \E j \in Progress(log'[r]) :
               log'[r][j] = cur[r] /\ Rank(Progress(log'[r]), j) = Count(log[r]) + 1
      <4>1. /\ Count(Append(log[r], cur[r])) = Count(log[r]) + 1
            /\ \E j \in Progress(Append(log[r], cur[r])) :
                 /\ Append(log[r], cur[r])[j] = cur[r]
                 /\ Rank(Progress(Append(log[r], cur[r])), j) = Count(log[r]) + 1
        BY ZenonT(60), <1>1, <2>1, ForwardLog
      <4>. QED
        BY <3>4, <4>1, Zenon
    <3>7. Count(seen[r]) = Count(log[r])
      BY <1>1, <2>1
    <3>. QED
      BY <2>1, <2>2, <3>5, <3>6, <3>7 DEF ForwardedOf
  <2>3. CASE bpc'[r] = "fail"
    <3>1. log'[r] = log[r] \/ log'[r] = log[r] \o <<cur[r]>>
      <4>1. CommitEvents(r, HeldRecord(r), <<cur[r]>>, None, IF held[r] = None THEN {} ELSE ops[r])
        BY <1>5 DEF BridgeCommits
      <4>2. UNCHANGED store \/ Written(r, HeldRecord(r), <<cur[r]>>, None,
                                       IF held[r] = None THEN {} ELSE ops[r])
        BY <1>1, <4>1, CommitOutcome, Zenon
      <4>. QED
        BY <1>1, <4>2 DEF Written, store, TypeOK
    <3>2. log'[r] = log[r] \/ log'[r] = Append(log[r], cur[r])
      BY <1>1, <2>1, <3>1
    <3>3. Forward(seen[r], log'[r])
      BY <1>1, <2>1, <3>2, ForwardLog
    <3>. QED
      BY <1>quiet, <2>1, <2>3, <3>3
  <2>. QED
    BY <2>1, <2>2, <2>3
<1>6. CASE BridgeSends(r)
  <2>1. bpc[r] = "send" /\ cur[r] \in Event /\ IsProgress(cur[r]) /\ log' = log
    BY <1>6 DEF BridgeSends, BridgeAt, BridgeInv, store
  <2>2. PICK j \in Progress(log[r]) :
          /\ log[r][j] = cur[r]
          /\ Rank(Progress(log[r]), j) = Count(seen[r]) + 1 /\ Count(log[r]) = Count(seen[r]) + 1
    BY <2>1 DEF ForwardedOf
  <2>3. CASE listening[r]
    <3>1. seen' = [seen EXCEPT ![r] = Append(@, cur[r])] /\ bpc' = [bpc EXCEPT ![r] = "recv"]
      BY <1>6, <2>3, Zenon DEF BridgeSends, Goto
    <3>2. seen'[r] = Append(seen[r], cur[r]) /\ bpc'[r] = "recv"
      BY <3>1 DEF TypeOK
    <3>3. Forward(Append(seen[r], cur[r]), log[r])
      BY <1>1, <2>1, <2>2, ForwardSeen
    <3>4. Count(Append(seen[r], cur[r])) = Count(seen[r]) + 1
      BY <1>1, <2>1, ForwardLog
    <3>. QED
      BY <2>1, <2>2, <3>2, <3>3, <3>4 DEF ForwardedOf
  <2>4. CASE ~listening[r]
    <3>1. seen' = seen /\ bpc' = [bpc EXCEPT ![r] = "cancel"]
      BY <1>6, <2>4, Zenon DEF BridgeSends, Goto
    <3>. QED
      BY <1>1, <1>quiet, <2>1, <3>1 DEF TypeOK
  <2>. QED
    BY <2>3, <2>4
<1>7. CASE BridgeFinishes(r)
  <2>1. /\ bpc[r] = "finish" /\ cur[r] \in Event /\ IsTerminal(cur[r])
        /\ seen' = seen /\ bpc'[r] \in {"fail", "sendF", "sendT"}
    BY <1>7 DEF BridgeFinishes, BridgeAt, BridgeInv, Goto, TypeOK
  <2>2. UNCHANGED store \/ Written(r, HeldRecord(r), Append(HeldEvents(r), cur[r]),
                                   StatusOf(cur[r].kind), ops[r])
    <3>1. CommitEvents(r, HeldRecord(r), Append(HeldEvents(r), cur[r]),
                       StatusOf(cur[r].kind), ops[r])
      BY <1>7 DEF BridgeFinishes
    <3>. QED
      BY <1>1, <3>1, CommitOutcome, Zenon
  <2>. QED
    BY <1>1, <1>quiet, <1>last, <2>1, <2>2 DEF store
<1>8. CASE BridgeSendsHeld(r)
  <2>1. /\ bpc[r] = "sendF" /\ held[r] # None /\ held[r].event \in Event
        /\ IsFinal(held[r].event) /\ log' = log
    BY <1>8 DEF BridgeSendsHeld, BridgeAt, BridgeInv, TypeOK, PendingStep, store
  <2>2. seen'[r] \in {seen[r], Append(seen[r], held[r].event)} /\ bpc'[r] \in {"sendT", "done"}
    <3>1. CASE listening[r]
      <4>1. /\ seen' = [seen EXCEPT ![r] = Append(@, held[r].event)]
            /\ bpc' = [bpc EXCEPT ![r] = "sendT"]
        BY <1>8, <3>1, Zenon DEF BridgeSendsHeld, Goto
      <4>. QED
        BY <4>1 DEF TypeOK
    <3>2. CASE ~listening[r]
      <4>1. bpc' = [bpc EXCEPT ![r] = "done"] /\ seen' = seen
        BY <1>8, <3>2, Zenon DEF BridgeSendsHeld, Leave, Goto
      <4>. QED
        BY <4>1 DEF TypeOK
    <3>. QED
      BY <3>1, <3>2
  <2>3. ~IsProgress(held[r].event)
    BY <2>1 DEF IsProgress
  <2>. QED
    BY <1>1, <2>1, <2>2, <2>3, ForwardSeen DEF ForwardedOf
<1>9. CASE BridgeSendsLast(r)
  <2>1. /\ bpc'[r] = "done" /\ log' = log
    BY <1>9 DEF BridgeSendsLast, Leave, Goto, TypeOK, store
  <2>2. \/ seen'[r] = seen[r]
        \/ \E e \in Event : IsTerminal(e) /\ seen'[r] = Append(seen[r], e)
    <3>1. Terminal("Fail") \in Event /\ IsTerminal(Terminal("Fail"))
      BY EventsMade, EventSorts DEF TerminalKinds
    <3>2. bpc[r] = "sendT" => cur[r] \in Event /\ IsTerminal(cur[r])
      BY DEF BridgeInv
    <3>. QED
      BY <1>9, <3>1, <3>2 DEF BridgeSendsLast, BridgeAt, TypeOK
  <2>3. \A e \in Event : IsTerminal(e) => ~IsProgress(e)
    BY DEF IsProgress
  <2>4. Forward(seen'[r], log[r])
    BY <1>1, <2>2, <2>3, ForwardSeen
  <2>. QED
    BY <2>1, <2>4 DEF ForwardedOf
<1>10. CASE BridgeFails(r)
  <2>1. /\ bpc[r] = "fail" /\ seen' = seen /\ bpc'[r] = "sendX"
        /\ Terminal("Fail") \in Event /\ IsTerminal(Terminal("Fail"))
    BY <1>10, EventsMade, EventSorts DEF BridgeFails, BridgeAt, Goto, TypeOK, TerminalKinds
  <2>2. UNCHANGED store \/ Written(r, HeldRecord(r), Append(HeldEvents(r), Terminal("Fail")),
                                   "error", ops[r])
    <3>1. CommitEvents(r, HeldRecord(r), Append(HeldEvents(r), Terminal("Fail")), "error", ops[r])
      BY <1>10 DEF BridgeFails
    <3>. QED
      BY <1>1, <3>1, CommitOutcome, Zenon
  <2>. QED
    BY <1>1, <1>quiet, <1>last, <2>1, <2>2 DEF store
<1>11. CASE BridgeCancels(r)
  <2>1. UNCHANGED <<seen, log>> /\ bpc'[r] = "cancelled"
    BY <1>11 DEF BridgeCancels, Goto, TypeOK, store
  <2>. QED
    BY <1>1, <1>quiet, <2>1
<1>12. CASE BridgeCommitsCancel(r)
  <2>1. /\ bpc[r] = "cancelled" /\ seen' = seen /\ bpc'[r] = "clear"
        /\ Terminal("Cancel") \in Event /\ IsTerminal(Terminal("Cancel"))
    BY <1>12, EventsMade, EventSorts
       DEF BridgeCommitsCancel, BridgeAt, Goto, TypeOK, TerminalKinds
  <2>2. UNCHANGED store \/ Written(r, HeldRecord(r), Append(HeldEvents(r), Terminal("Cancel")),
                                   "cancelled", ops[r])
    <3>1. CommitEvents(r, HeldRecord(r), Append(HeldEvents(r), Terminal("Cancel")),
                       "cancelled", ops[r])
      BY <1>12 DEF BridgeCommitsCancel
    <3>. QED
      BY <1>1, <3>1, CommitOutcome, Zenon
  <2>. QED
    BY <1>1, <1>quiet, <1>last, <2>1, <2>2 DEF store
<1>13. CASE BridgeClears(r)
  <2>1. UNCHANGED <<seen, log>> /\ bpc'[r] = "done"
    BY <1>13 DEF BridgeClears, Leave, Goto, TypeOK, store
  <2>. QED
    BY <1>1, <1>quiet, <2>1
<1>. QED
  BY <1>2, <1>3, <1>4, <1>5, <1>6, <1>7, <1>8, <1>9, <1>10, <1>11, <1>12, <1>13 DEF Bridge

LEMMA ForwardStep ==
  ASSUME TaskInv, ForwardInv, Next
  PROVE  ForwardInv'
<1>. USE DEF TaskInv
<1>1. ASSUME NEW r \in Runs, Runner(r)
      PROVE  ForwardInv'
  BY <1>1, RunnerOwn, ForwardSame DEF ForwardInv, bridge, store
<1>2. ASSUME NEW r \in Runs, Bridge(r)
      PROVE  ForwardInv'
  <2>1. ASSUME NEW q \in Runs \ {r}
        PROVE  ForwardedOf(q)'
    <3>1. seen'[q] = seen[q] /\ bpc'[q] = bpc[q] /\ cur'[q] = cur[q]
      BY <1>2, BridgeOwn
    <3>2. log'[q] = log[q]
      BY <1>2, BridgeStoresOwn
    <3>. QED
      BY <3>1, <3>2, ForwardSame DEF ForwardInv
  <2>2. ForwardedOf(r)'
    BY <1>2, ForwardBridge DEF ForwardInv
  <2>. QED
    BY <2>1, <2>2 DEF ForwardInv
<1>3. ASSUME NEW r \in Runs, NEW i \in Instances, Stream(r, i)
      PROVE  ForwardInv'
  <2>1. /\ bpc' = [bpc EXCEPT ![r] = "recv"] /\ bpc[r] = "off"
        /\ UNCHANGED <<log, cur, seen>>
    BY <1>3 DEF Stream, StartInv
  <2>2. \A q \in Runs : \/ bpc'[q] = bpc[q]
                        \/ bpc[q] = "off" /\ bpc'[q] = "recv"
    BY <2>1 DEF TypeOK
  <2>. QED
    BY <2>1, <2>2 DEF ForwardInv, ForwardedOf
<1>4. ASSUME NEW r \in Runs, \/ RenewFails(r) \/ CancelRun(r) \/ LeaseLapses(r)
                              \/ StopListening(r)
      PROVE  ForwardInv'
  <2>1. UNCHANGED <<log, seen, bpc, cur>>
    BY <1>4 DEF RenewFails, CancelRun, LeaseLapses, StopListening, EnvFrame, bridge
  <2>. QED
    BY <2>1 DEF ForwardInv, ForwardedOf
<1>5. ASSUME NEW r \in Runs, Reap(r)
      PROVE  ForwardInv'
  <2>1. /\ UNCHANGED <<seen, bpc, cur>>
        /\ log' = [log EXCEPT ![r] = Append(@, Terminal("Fail"))]
    BY <1>5 DEF Reap, EnvFrame, bridge
  <2>2. ASSUME NEW q \in Runs \ {r}
        PROVE  ForwardedOf(q)'
    BY <2>1, ForwardSame DEF ForwardInv, TypeOK
  <2>3. ForwardedOf(r)'
    <3>1. /\ Terminal("Fail") \in Event /\ ~IsProgress(Terminal("Fail"))
          /\ log[r] \in Seq(Event) /\ seen[r] \in Seq(Event)
      BY EventsMade, EventSorts DEF TerminalKinds, IsProgress, TypeOK
    <3>2. log'[r] = Append(log[r], Terminal("Fail"))
      BY <2>1 DEF TypeOK
    <3>3. /\ Forward(seen[r], log'[r]) /\ Count(log'[r]) = Count(log[r])
          /\ Progress(log'[r]) = Progress(log[r])
          /\ \A j \in Progress(log[r]) : log'[r][j] = log[r][j]
      BY <3>1, <3>2, ForwardLog, ProgressGrows DEF ForwardInv, ForwardedOf
    <3>. QED
      BY <2>1, <3>3 DEF ForwardInv, ForwardedOf
  <2>. QED
    BY <2>2, <2>3 DEF ForwardInv
<1>6. ASSUME NEW i \in Instances, Crash(i)
      PROVE  ForwardInv'
  <2>1. /\ UNCHANGED <<log, seen>>
        /\ bpc' = [q \in Runs |-> IF home[q] = i THEN "done" ELSE bpc[q]]
        /\ cur' = [q \in Runs |-> IF home[q] = i THEN None ELSE cur[q]]
    BY <1>6, Zenon DEF Crash, store
  <2>2. ASSUME NEW q \in Runs
        PROVE  \/ bpc'[q] = bpc[q] /\ cur'[q] = cur[q]
               \/ bpc'[q] = "done"
    BY <2>1
  <2>. QED
    BY <2>1, <2>2 DEF ForwardInv, ForwardedOf
<1>7. CASE UNCHANGED vars
  BY <1>7, ForwardSame DEF ForwardInv, vars, store, bridge
<1>. QED
  BY <1>1, <1>2, <1>3, <1>4, <1>5, <1>6, <1>7, StepOf

\* TypeOK holds at all times: whatever the actors do in whatever order, each
\* variable keeps its type.  With it goes that what a task has in hand fits the
\* place it is at (TaskInv): a bridge forwards progress and finishes with a
\* terminal event, never the other way round.
THEOREM TypeCorrect == Spec => []TypeOK
<1>1. TaskInv => TypeOK
  BY DEF TaskInv
<1>. QED
  BY <1>1, TasksCorrect, PTL

\* CommitBeforeForward: the n-th progress event a consumer is sent is the n-th
\* of the log, however commits fail and tasks stop in between.
THEOREM NothingForwardedUncommitted == Spec => []CommitBeforeForward
<1>1. Init => ForwardInv
  BY DEF Init, ForwardInv, ForwardedOf, Forward, Count, Progress
<1>2. TaskInv /\ TaskInv' /\ ForwardInv /\ [Next]_vars => ForwardInv'
  <2>1. ASSUME ForwardInv, UNCHANGED vars PROVE ForwardInv'
    BY <2>1, ForwardSame DEF ForwardInv, vars, store, bridge
  <2>. QED
    BY <2>1, ForwardStep
<1>3. ForwardInv => CommitBeforeForward
  BY DEF ForwardInv, ForwardedOf, Forward, CommitBeforeForward
<1>. QED
  BY <1>1, <1>2, <1>3, TasksCorrect, PTL DEF Spec

-----------------------------------------------------------------------------
(* What the consumer is told.                                              *)

\* Until its bridge has finished it, only the reaper can end a run; after that
\* its status stays.
ToldOf(r) ==
  /\ bpc[r] \in {"recv", "select", "take", "commit", "send", "finish", "fail", "cancel",
                 "cancelled", "sendX"} => status[r] \in {"running", "error"}
  /\ bpc[r] \in {"sendF", "sendT"} => status[r] \in {StatusOf(cur[r].kind), "error"}
  /\ bpc[r] # "done" => \A i \in DOMAIN seen[r] : ~IsTerminal(seen[r][i])
  /\ \A i \in DOMAIN seen[r] : IsTerminal(seen[r][i]) =>
       /\ i = Len(seen[r])
       /\ \/ status[r] \in {StatusOf(seen[r][i].kind), "error"}
          \/ seen[r][i].kind = "Fail" /\ status[r] = "running"

ToldInv == \A r \in Runs : ToldOf(r)

LEMMA ToldSame ==
  ASSUME NEW r \in Runs, ToldOf(r),
         seen'[r] = seen[r], bpc'[r] = bpc[r], cur'[r] = cur[r],
         status'[r] = status[r] \/ (status[r] = "running" /\ status'[r] = "error")
  PROVE  ToldOf(r)'
<1>1. CASE status'[r] = status[r]
  BY <1>1 DEF ToldOf
<1>2. CASE status[r] = "running" /\ status'[r] = "error"
  BY <1>2 DEF ToldOf
<1>. QED
  BY <1>1, <1>2

LEMMA ToldBridge ==
  ASSUME TaskInv, NEW r \in Runs, ToldOf(r), Bridge(r)
  PROVE  ToldOf(r)'
<1>. USE DEF TaskInv
<1>. DEFINE Early == {"recv", "select", "take", "commit", "send", "finish", "fail", "cancel",
                      "cancelled"}
            Untold(s) == \A i \in DOMAIN s : ~IsTerminal(s[i])
<1>1. /\ TypeOK /\ seen[r] \in Seq(Event) /\ bpc[r] # "done" /\ Untold(seen[r])
      /\ bpc[r] \in Early \cup {"sendX"} => status[r] \in {"running", "error"}
      /\ bpc[r] \in {"sendF", "sendT"} => status[r] \in {StatusOf(cur[r].kind), "error"}
  BY BridgeOwn DEF TypeOK, ToldOf
<1>early. ASSUME Untold(seen'[r]), bpc'[r] \in Early \cup {"clear", "sendX"},
                 bpc'[r] # "clear" => status'[r] \in {"running", "error"}
          PROVE  ToldOf(r)'
  BY <1>early DEF ToldOf
<1>add. ASSUME NEW e \in Event, ~IsTerminal(e)
        PROVE  Untold(Append(seen[r], e))
  BY <1>1, <1>add
<1>2. CASE BridgeReceives(r) \/ BridgeSelects(r)
  <2>1. /\ UNCHANGED <<seen, status>> /\ bpc[r] \in {"recv", "select"}
        /\ bpc'[r] \in {"finish", "take", "commit", "cancel", "select"}
    BY <1>2 DEF BridgeReceives, BridgeSelects, BridgeAt, Dispatch, Goto, TypeOK, store
  <2>. QED
    BY <1>1, <1>early, <2>1
<1>3. CASE BridgeTakes(r) \/ BridgeCancels(r)
  <2>1. /\ UNCHANGED <<seen, status>> /\ bpc[r] \in {"take", "cancel"}
        /\ bpc'[r] \in {"fail", "recv", "commit", "cancelled"}
    BY <1>3 DEF BridgeTakes, BridgeCancels, BridgeAt, Goto, TypeOK, store
  <2>. QED
    BY <1>1, <1>early, <2>1
<1>4. CASE BridgeCommits(r)
  <2>1. bpc[r] = "commit" /\ bpc'[r] \in {"send", "fail"} /\ seen' = seen
    BY <1>4 DEF BridgeCommits, BridgeAt, Goto, TypeOK
  <2>2. CommitEvents(r, HeldRecord(r), <<cur[r]>>, None, IF held[r] = None THEN {} ELSE ops[r])
    BY <1>4 DEF BridgeCommits
  <2>3. \/ UNCHANGED store
        \/ \E taken : Written(r, HeldRecord(r), <<cur[r]>>, None, taken)
    BY <1>1, <2>2, CommitOutcome, Zenon
  <2>4. status'[r] = status[r]
    BY <2>3 DEF Written, store, TypeOK
  <2>. QED
    BY <1>1, <1>early, <2>1, <2>4
<1>5. CASE BridgeSends(r)
  <2>1. /\ bpc[r] = "send" /\ cur[r] \in Event /\ ~IsTerminal(cur[r]) /\ status' = status
        /\ seen'[r] \in {seen[r], Append(seen[r], cur[r])} /\ bpc'[r] \in {"recv", "cancel"}
    BY <1>5 DEF BridgeSends, BridgeAt, BridgeInv, IsProgress, Goto, TypeOK, store
  <2>. QED
    BY <1>1, <1>early, <1>add, <2>1
<1>6. CASE BridgeFinishes(r)
  <2>1. /\ bpc[r] = "finish" /\ cur[r] \in Event /\ IsTerminal(cur[r])
        /\ UNCHANGED <<seen, cur>>
    BY <1>6 DEF BridgeFinishes, BridgeAt, BridgeInv
  <2>2. StatusOf(cur[r].kind) \in RunStatus /\ StatusOf(cur[r].kind) # None
    BY <2>1, EventFields, NoneAssumption
  <2>3. CommitEvents(r, HeldRecord(r), Append(HeldEvents(r), cur[r]),
                     StatusOf(cur[r].kind), ops[r])
    BY <1>6 DEF BridgeFinishes
  <2>4. \/ /\ Commit(r, HeldRecord(r), TRUE) # "recorded" /\ UNCHANGED store
        \/ /\ Commit(r, HeldRecord(r), TRUE) = "recorded"
           /\ status'[r] = StatusOf(cur[r].kind)
    BY <1>1, <2>2, <2>3, FinishOutcome, Zenon
  <2>5. CASE Commit(r, HeldRecord(r), TRUE) = "recorded"
    <3>1. bpc'[r] \in {"sendF", "sendT"}
      BY <1>6, <2>5 DEF BridgeFinishes, Goto, TypeOK
    <3>2. status'[r] = StatusOf(cur[r].kind)
      BY <2>4, <2>5
    <3>. QED
      BY <1>1, <2>1, <3>1, <3>2 DEF ToldOf
  <2>6. CASE Commit(r, HeldRecord(r), TRUE) = "already"
    <3>1. Finished(r)
      BY <2>6, Zenon DEF Commit
    <3>2. status'[r] = "error"
      BY <1>1, <2>1, <2>4, <2>6, <3>1 DEF Finished, store
    <3>3. bpc'[r] \in {"sendF", "sendT"}
      BY <1>6, <2>6 DEF BridgeFinishes, Goto, TypeOK
    <3>. QED
      BY <1>1, <2>1, <3>2, <3>3 DEF ToldOf
  <2>7. CASE Commit(r, HeldRecord(r), TRUE) \notin {"recorded", "already"}
    <3>1. bpc'[r] = "fail" /\ status' = status
      BY <1>6, <2>4, <2>7 DEF BridgeFinishes, Goto, TypeOK, store
    <3>. QED
      BY <1>1, <1>early, <2>1, <3>1
  <2>. QED
    BY <2>5, <2>6, <2>7
<1>7. CASE BridgeSendsHeld(r)
  <2>1. /\ bpc[r] = "sendF" /\ held[r].event \in Event /\ ~IsTerminal(held[r].event)
        /\ status' = status
    BY <1>7, EventSorts DEF BridgeSendsHeld, BridgeAt, BridgeInv, TypeOK, PendingStep, store
  <2>2. CASE listening[r]
    <3>1. /\ seen' = [seen EXCEPT ![r] = Append(@, held[r].event)]
          /\ bpc' = [bpc EXCEPT ![r] = "sendT"] /\ cur' = cur
      BY <1>7, <2>2, Zenon DEF BridgeSendsHeld, Goto
    <3>2. seen'[r] = Append(seen[r], held[r].event) /\ bpc'[r] = "sendT" /\ cur'[r] = cur[r]
      BY <3>1 DEF TypeOK
    <3>. QED
      BY <1>1, <1>add, <2>1, <3>2 DEF ToldOf
  <2>3. CASE ~listening[r]
    <3>1. seen' = seen /\ bpc' = [bpc EXCEPT ![r] = "done"]
      BY <1>7, <2>3, Zenon DEF BridgeSendsHeld, Leave, Goto
    <3>. QED
      BY <1>1, <3>1 DEF ToldOf, TypeOK
  <2>. QED
    BY <2>2, <2>3
<1>8. CASE BridgeSendsLast(r)
  <2>1. bpc'[r] = "done" /\ status' = status
    BY <1>8 DEF BridgeSendsLast, Leave, Goto, TypeOK, store
  <2>. DEFINE e == IF bpc[r] = "sendT" THEN cur[r] ELSE Terminal("Fail")
  <2>2. e \in Event /\ (bpc[r] = "sendX" => e.kind = "Fail" /\ StatusOf(e.kind) = "error")
    BY <1>8, EventsMade, EventSorts DEF BridgeSendsLast, BridgeInv, TerminalKinds, StatusOf
  <2>3. \/ status[r] \in {StatusOf(e.kind), "error"}
        \/ e.kind = "Fail" /\ status[r] = "running"
    BY <1>1, <1>8, <2>2 DEF BridgeSendsLast
  <2>4. seen'[r] = seen[r] \/ seen'[r] = Append(seen[r], e)
    BY <1>8 DEF BridgeSendsLast, BridgeAt, TypeOK
  <2>5. /\ DOMAIN Append(seen[r], e) = 1..(Len(seen[r]) + 1)
        /\ Len(Append(seen[r], e)) = Len(seen[r]) + 1
        /\ Append(seen[r], e)[Len(seen[r]) + 1] = e
        /\ \A i \in DOMAIN Append(seen[r], e) :
             i # Len(seen[r]) + 1 => i \in DOMAIN seen[r] /\ Append(seen[r], e)[i] = seen[r][i]
    BY <1>1, <2>2
  <2>. HIDE DEF e
  <2>. QED
    BY <1>1, <2>1, <2>3, <2>4, <2>5 DEF ToldOf
<1>9. CASE BridgeFails(r)
  <2>1. bpc[r] = "fail" /\ bpc'[r] = "sendX" /\ seen' = seen
    BY <1>9 DEF BridgeFails, BridgeAt, Goto, TypeOK
  <2>2. CommitEvents(r, HeldRecord(r), Append(HeldEvents(r), Terminal("Fail")), "error", ops[r])
    BY <1>9 DEF BridgeFails
  <2>3. \/ UNCHANGED store
        \/ \E evs, taken : Written(r, HeldRecord(r), evs, "error", taken)
    BY <1>1, <2>2, CommitOutcome, Zenon
  <2>4. status'[r] \in {status[r], "error"}
    BY <2>3, NoneAssumption DEF Written, store, TypeOK, RunStatus
  <2>. QED
    BY <1>1, <1>early, <2>1, <2>4
<1>10. CASE BridgeCommitsCancel(r)
  <2>1. bpc'[r] = "clear" /\ seen' = seen
    BY <1>10 DEF BridgeCommitsCancel, Goto, TypeOK
  <2>. QED
    BY <1>1, <1>early, <2>1
<1>11. CASE BridgeClears(r)
  <2>1. bpc'[r] = "done" /\ seen' = seen
    BY <1>11 DEF BridgeClears, Leave, Goto, TypeOK
  <2>. QED
    BY <1>1, <2>1 DEF ToldOf
<1>. QED
  BY <1>2, <1>3, <1>4, <1>5, <1>6, <1>7, <1>8, <1>9, <1>10, <1>11 DEF Bridge

LEMMA ToldStep ==
  ASSUME TaskInv, ToldInv, Next
  PROVE  ToldInv'
<1>. USE DEF TaskInv
<1>1. ASSUME NEW r \in Runs, Runner(r)
      PROVE  ToldInv'
  BY <1>1, RunnerOwn, ToldSame DEF ToldInv, bridge, store
<1>2. ASSUME NEW r \in Runs, Bridge(r)
      PROVE  ToldInv'
  <2>1. ASSUME NEW q \in Runs \ {r}
        PROVE  ToldOf(q)'
    <3>1. seen'[q] = seen[q] /\ bpc'[q] = bpc[q] /\ cur'[q] = cur[q]
      BY <1>2, BridgeOwn
    <3>2. status'[q] = status[q]
      BY <1>2, BridgeStoresOwn
    <3>. QED
      BY <3>1, <3>2, ToldSame DEF ToldInv
  <2>2. ToldOf(r)'
    BY <1>2, ToldBridge DEF ToldInv
  <2>. QED
    BY <2>1, <2>2 DEF ToldInv
<1>3. ASSUME NEW r \in Runs, NEW i \in Instances, Stream(r, i)
      PROVE  ToldInv'
  <2>1. /\ bpc' = [bpc EXCEPT ![r] = "recv"] /\ bpc[r] = "off"
        /\ status' = [status EXCEPT ![r] = "running"] /\ UNCHANGED <<cur, seen>>
    BY <1>3 DEF Stream, StartInv
  <2>2. bpc'[r] = "recv" /\ status'[r] = "running"
    BY <2>1 DEF TypeOK
  <2>3. ToldOf(r)'
    BY <2>1, <2>2 DEF ToldInv, ToldOf
  <2>4. ASSUME NEW q \in Runs \ {r}
        PROVE  ToldOf(q)'
    BY <2>1, ToldSame DEF ToldInv, TypeOK
  <2>. QED
    BY <2>3, <2>4 DEF ToldInv
<1>4. ASSUME NEW r \in Runs, \/ RenewFails(r) \/ CancelRun(r) \/ LeaseLapses(r)
                              \/ StopListening(r)
      PROVE  ToldInv'
  <2>1. UNCHANGED <<status, seen, bpc, cur>>
    BY <1>4 DEF RenewFails, CancelRun, LeaseLapses, StopListening, EnvFrame, bridge
  <2>. QED
    BY <2>1, ToldSame DEF ToldInv
<1>5. ASSUME NEW r \in Runs, Reap(r)
      PROVE  ToldInv'
  <2>1. /\ UNCHANGED <<seen, bpc, cur>>
        /\ status[r] = "running" /\ status' = [status EXCEPT ![r] = "error"]
    BY <1>5 DEF Reap, EnvFrame, bridge
  <2>2. \A q \in Runs : \/ status'[q] = status[q]
                        \/ status[q] = "running" /\ status'[q] = "error"
    BY <2>1 DEF TypeOK
  <2>. QED
    BY <2>1, <2>2, ToldSame DEF ToldInv
<1>6. ASSUME NEW i \in Instances, Crash(i)
      PROVE  ToldInv'
  <2>1. /\ UNCHANGED <<status, seen>>
        /\ bpc' = [q \in Runs |-> IF home[q] = i THEN "done" ELSE bpc[q]]
        /\ cur' = [q \in Runs |-> IF home[q] = i THEN None ELSE cur[q]]
    BY <1>6, Zenon DEF Crash, store
  <2>2. ASSUME NEW q \in Runs
        PROVE  \/ bpc'[q] = bpc[q] /\ cur'[q] = cur[q]
               \/ bpc'[q] = "done"
    BY <2>1
  <2>3. ASSUME NEW q \in Runs
        PROVE  ToldOf(q)'
    BY <2>1, <2>2 DEF ToldInv, ToldOf
  <2>. QED
    BY <2>3 DEF ToldInv
<1>7. CASE UNCHANGED vars
  BY <1>7, ToldSame DEF ToldInv, vars, store, bridge
<1>. QED
  BY <1>1, <1>2, <1>3, <1>4, <1>5, <1>6, <1>7, StepOf

\* ToldConsistent: the terminal event a consumer was sent is the last it is
\* sent and is never contradicted by the store, except that the run was lost to
\* the reaper or that Failed came before the reaper.
THEOREM ToldWhatIsStored == Spec => []ToldConsistent
<1>1. Init => ToldInv
  BY DEF Init, ToldInv, ToldOf
<1>2. TaskInv /\ ToldInv /\ [Next]_vars => ToldInv'
  <2>1. ASSUME ToldInv, UNCHANGED vars PROVE ToldInv'
    BY <2>1, ToldSame DEF ToldInv, vars, store, bridge
  <2>. QED
    BY <2>1, ToldStep
<1>3. ToldInv => ToldConsistent
  BY DEF ToldInv, ToldOf, ToldConsistent
<1>. QED
  BY <1>1, <1>2, <1>3, TasksCorrect, PTL DEF Spec

-----------------------------------------------------------------------------
(* Checkpoint records on their way from a runner through TxSaver and its   *)
(* bridge into the store.                                                  *)

\* The store starts a run only when no other is running.
OneRuns == \A p, q \in Runs : status[p] = "running" /\ status[q] = "running" => p = q

\* The bridge has not done its last commit: what it holds may still be written.
Open(r) == bpc[r] \notin {"off", "sendF", "sendT", "sendX", "clear", "done"}

Holds(r) == Open(r) /\ held[r] # None /\ held[r].record.run = r
Kept(r)  == ckpt # None /\ ckpt.run = r

\* A record of step n is behind what the runner will save next.
Within(r, n) ==
  /\ rpc[r] \notin {"term", "done"} => n <= count[r]
  /\ rpc[r] \in {"trans", "acted", "save"} => n < count[r]

\* Of the records of a run the stored one is the oldest, the one its bridge
\* holds comes next, and those of the queue follow in order.  They are all in
\* the queue of the instance the run is on.
Queued(r, i, k) ==
  /\ home[r] = i
  /\ Within(r, saver[i][k].n)
  /\ Kept(r) => ckpt.n < saver[i][k].n
  /\ Holds(r) => held[r].record.n < saver[i][k].n
  /\ \A l \in DOMAIN saver[i] :
       k < l /\ saver[i][l].run = r => saver[i][k].n < saver[i][l].n

RecordOf(r) ==
  /\ \A i \in Instances : \A k \in DOMAIN saver[i] :
       saver[i][k].run = r => Queued(r, i, k)
  /\ Holds(r) => Within(r, held[r].record.n)
  /\ Holds(r) /\ Kept(r) => ckpt.n < held[r].record.n
  /\ Kept(r) => Within(r, ckpt.n)
  /\ bpc[r] = "off" => held[r] = None

RecordInv == \A r \in Runs : RecordOf(r)

\* A queue that lost its head or all of its records.
LEMMA QueueLoses ==
  ASSUME TypeOK, TypeOK', NEW i \in Instances,
         \/ saver'[i] = saver[i]
         \/ saver'[i] = <<>>
         \/ saver[i] # <<>> /\ saver'[i] = Tail(saver[i])
  PROVE  \E d \in {0, 1} : \A k \in DOMAIN saver'[i] :
           k \in Nat /\ k + d \in DOMAIN saver[i] /\ saver'[i][k] = saver[i][k + d]
<1>1. saver[i] \in Seq(Record) /\ saver'[i] \in Seq(Record)
  BY DEF TypeOK
<1>2. CASE saver'[i] = saver[i]
  <2>1. \A k \in DOMAIN saver'[i] :
           k \in Nat /\ k + 0 \in DOMAIN saver[i] /\ saver'[i][k] = saver[i][k + 0]
    BY <1>1, <1>2
  <2>. QED
    BY <2>1
<1>3. CASE saver'[i] = <<>>
  BY <1>3
<1>4. CASE saver[i] # <<>> /\ saver'[i] = Tail(saver[i])
  <2>1. \A k \in DOMAIN saver'[i] :
           k \in Nat /\ k + 1 \in DOMAIN saver[i] /\ saver'[i][k] = saver[i][k + 1]
    BY <1>1, <1>4, HeadTail
  <2>. QED
    BY <2>1
<1>. QED
  BY <1>2, <1>3, <1>4

\* What a step may do to the records of a run without adding one.
LEMMA RecordKept ==
  ASSUME TypeOK, TypeOK', NEW r \in Runs, RecordOf(r),
         home'[r] = home[r],
         \A n \in Nat : Within(r, n) => Within(r, n)',
         \A i \in Instances :
           \/ saver'[i] = saver[i]
           \/ saver'[i] = <<>>
           \/ saver[i] # <<>> /\ saver'[i] = Tail(saver[i]),
         bpc'[r] = "off" => bpc[r] = "off" /\ held'[r] = held[r],
         Holds(r)' => Holds(r) /\ held'[r] = held[r],
         \/ ckpt' = ckpt
         \/ ckpt' # None /\ ckpt'.run # r
         \/ Holds(r) /\ ~Holds(r)' /\ ckpt' = held[r].record
  PROVE  RecordOf(r)'
<1>1. /\ \A i \in Instances : \A k \in DOMAIN saver[i] : saver[i][k].n \in Nat
      /\ Holds(r) => held[r].record.n \in Nat
      /\ Kept(r) => ckpt.n \in Nat
  <2>1. \A i \in Instances : \A k \in DOMAIN saver[i] : saver[i][k] \in Record
    BY DEF TypeOK
  <2>2. held[r] # None => held[r].record \in Record
    BY DEF TypeOK, PendingStep
  <2>3. ckpt # None => ckpt \in Record
    BY DEF TypeOK
  <2>4. \A x \in Record : x.n \in Nat
    BY DEF Record
  <2>. QED
    BY <2>1, <2>2, <2>3, <2>4 DEF Holds, Kept
<1>2. Kept(r)' => \/ Kept(r) /\ ckpt' = ckpt
                  \/ Holds(r) /\ ~Holds(r)' /\ ckpt' = held[r].record
  BY DEF Kept
<1>3. ASSUME NEW i \in Instances, NEW k \in DOMAIN saver'[i], saver'[i][k].run = r
      PROVE  Queued(r, i, k)'
  <2>1. PICK d \in {0, 1} : \A l \in DOMAIN saver'[i] :
           l \in Nat /\ l + d \in DOMAIN saver[i] /\ saver'[i][l] = saver[i][l + d]
    BY QueueLoses, Zenon
  <2>2. Queued(r, i, k + d)
    BY <1>3, <2>1 DEF RecordOf
  <2>3. home'[r] = i /\ Within(r, saver[i][k].n)'
    BY <1>1, <1>3, <2>1, <2>2 DEF Queued, Within
  <2>4. Kept(r)' => ckpt'.n < saver'[i][k].n
    BY <1>2, <1>3, <2>1, <2>2 DEF Queued
  <2>5. Holds(r)' => held'[r].record.n < saver'[i][k].n
    BY <1>3, <2>1, <2>2 DEF Queued
  <2>6. ASSUME NEW l \in DOMAIN saver'[i], k < l, saver'[i][l].run = r
        PROVE  saver'[i][k].n < saver'[i][l].n
    <3>1. k + d < l + d /\ l + d \in DOMAIN saver[i]
      BY <1>3, <2>1, <2>6
    <3>. QED
      BY <1>3, <2>1, <2>2, <2>6, <3>1 DEF Queued
  <2>. QED
    BY <2>3, <2>4, <2>5, <2>6 DEF Queued
<1>4. Holds(r)' => Within(r, held[r].record.n)'
  BY <1>1 DEF RecordOf, Within
<1>5. Holds(r)' /\ Kept(r)' => ckpt'.n < held'[r].record.n
  BY <1>2 DEF RecordOf
<1>6. Kept(r)' => Within(r, ckpt.n)'
  BY <1>1, <1>2 DEF RecordOf, Within
<1>7. bpc'[r] = "off" => held'[r] = None
  BY DEF RecordOf
<1>. QED
  BY <1>3, <1>4, <1>5, <1>6, <1>7 DEF RecordOf

\* A runner adds the record of the step it is at, the newest of all.
LEMMA RecordRunner ==
  ASSUME TaskInv, TaskInv', RecordInv, NEW r \in Runs, Runner(r)
  PROVE  RecordInv'
<1>. USE DEF TaskInv
<1>1. /\ UNCHANGED <<store, home, bridge>>
      /\ \A q \in Runs \ {r} : rpc'[q] = rpc[q] /\ count'[q] = count[q]
  BY RunnerOwn
<1>2. ASSUME NEW q \in Runs, NEW n \in Nat, Within(q, n)
      PROVE  Within(q, n)'
  <2>1. CASE q = r
    <3>1. count[r] \in 0..MaxSteps /\ MaxSteps \in Nat
      BY ConstantsAssumption DEF TypeOK
    <3>. QED
      BY <1>2, <2>1, <3>1, RunnerMoves DEF Within
  <2>2. CASE q # r
    BY <1>1, <1>2, <2>2 DEF Within
  <2>. QED
    BY <2>1, <2>2
<1>3. CASE RunnerSaves(r)
  <2>. DEFINE new == [run |-> r, n |-> count[r], result |-> result[r]]
              h == home[r]
  <2>1. /\ rpc[r] = "save" /\ rpc'[r] = "fin" /\ count' = count
        /\ saver' = [saver EXCEPT ![h] = Append(@, new)]
    BY <1>3 DEF RunnerSaves, RunnerAt, TypeOK
  <2>2. h \in Instances /\ new \in Record /\ new.run = r /\ new.n = count[r]
    BY <2>1 DEF StartInv, RunnerInv, Record, TypeOK
  <2>3. /\ \A i \in Instances \ {h} : saver'[i] = saver[i]
        /\ saver[h] \in Seq(Record) /\ saver'[h] = Append(saver[h], new)
    BY <2>1, <2>2 DEF TypeOK
  <2>4. /\ DOMAIN saver'[h] = DOMAIN saver[h] \cup {Len(saver[h]) + 1}
        /\ Len(saver[h]) \in Nat /\ DOMAIN saver[h] = 1..Len(saver[h])
        /\ saver'[h][Len(saver[h]) + 1] = new
        /\ \A k \in DOMAIN saver[h] : saver'[h][k] = saver[h][k] /\ saver[h][k].n \in Nat
    <3>1. /\ DOMAIN Append(saver[h], new) = DOMAIN saver[h] \cup {Len(saver[h]) + 1}
          /\ Len(saver[h]) \in Nat /\ DOMAIN saver[h] = 1..Len(saver[h])
          /\ Append(saver[h], new)[Len(saver[h]) + 1] = new
          /\ \A k \in DOMAIN saver[h] : /\ Append(saver[h], new)[k] = saver[h][k]
                                        /\ saver[h][k] \in Record
      BY <2>2, <2>3
    <3>2. \A x \in Record : x.n \in Nat
      BY DEF Record
    <3>. HIDE DEF new, h
    <3>. QED
      BY <2>3, <3>1, <3>2
  <2>. HIDE DEF new, h
  <2>5. /\ \A q \in Runs : Holds(q)' <=> Holds(q)
        /\ \A q \in Runs : Kept(q)' <=> Kept(q)
        /\ UNCHANGED <<home, held, ckpt, bpc>>
    BY <1>1 DEF Holds, Open, Kept, bridge, store
  <2>6. \A q \in Runs : held[q] # None => held[q].record.n \in Nat
    <3>1. \A q \in Runs : held[q] # None => held[q].record \in Record
      BY DEF TypeOK, PendingStep
    <3>2. \A x \in Record : x.n \in Nat
      BY DEF Record
    <3>. QED
      BY <3>1, <3>2
  <2>7. ckpt # None => ckpt.n \in Nat
    BY DEF TypeOK, Record
  <2>8. ASSUME NEW q \in Runs, NEW i \in Instances, NEW k \in DOMAIN saver'[i],
               saver'[i][k].run = q
        PROVE  Queued(q, i, k)'
    <3>1. CASE i # h
      <4>1. Queued(q, i, k) /\ saver'[i] = saver[i] /\ saver[i][k].n \in Nat
        <5>1. saver[i] \in Seq(Record)
          BY DEF TypeOK
        <5>2. \A x \in Record : x.n \in Nat
          BY DEF Record
        <5>. QED
          BY <2>3, <2>8, <3>1, <5>1, <5>2 DEF RecordInv, RecordOf
      <4>2. Within(q, saver[i][k].n)'
        BY <1>2, <4>1 DEF Queued, Within
      <4>. QED
        BY <2>5, <4>1, <4>2 DEF Queued
    <3>2. CASE i = h /\ k # Len(saver[h]) + 1
      <4>1. k \in DOMAIN saver[h] /\ saver'[h][k] = saver[h][k] /\ saver[h][k].n \in Nat
        BY <2>4, <2>8, <3>2
      <4>2. Queued(q, h, k)
        BY <2>8, <3>2, <4>1 DEF RecordInv, RecordOf
      <4>3. Within(q, saver[i][k].n)'
        BY <1>2, <3>2, <4>1, <4>2 DEF Queued, Within
      <4>4. ASSUME NEW l \in DOMAIN saver'[h], k < l, saver'[h][l].run = q
            PROVE  saver'[h][k].n < saver'[h][l].n
        <5>1. CASE l \in DOMAIN saver[h]
          BY <2>4, <4>1, <4>2, <4>4, <5>1 DEF Queued
        <5>2. CASE l = Len(saver[h]) + 1
          <6>1. q = r
            BY <2>2, <2>4, <4>4, <5>2
          <6>2. saver[h][k].n < count[r]
            BY <2>1, <4>2, <6>1 DEF Queued, Within
          <6>. QED
            BY <2>2, <2>4, <4>1, <5>2, <6>2
        <5>. QED
          BY <2>4, <4>4, <5>1, <5>2
      <4>. QED
        BY <2>5, <3>2, <4>1, <4>2, <4>3, <4>4 DEF Queued
    <3>3. CASE i = h /\ k = Len(saver[h]) + 1
      <4>1. q = r /\ saver'[i][k].n = count[r]
        BY <2>2, <2>4, <2>8, <3>3
      <4>2. home[q] = i
        BY <3>3, <4>1 DEF h
      <4>3. Within(q, saver[i][k].n)'
        <5>1. count[r] \in Nat
          BY DEF TypeOK
        <5>. QED
          BY <2>1, <4>1, <5>1 DEF Within
      <4>4. Kept(q) => ckpt.n < count[r]
        BY <2>1, <4>1 DEF RecordInv, RecordOf, Within
      <4>5. Holds(q) => held[q].record.n < count[r]
        BY <2>1, <4>1 DEF RecordInv, RecordOf, Within
      <4>6. \A l \in DOMAIN saver'[i] : ~(k < l)
        BY <2>4, <3>3
      <4>. QED
        BY <2>5, <4>1, <4>2, <4>3, <4>4, <4>5, <4>6 DEF Queued
    <3>. QED
      BY <3>1, <3>2, <3>3
  <2>9. ASSUME NEW q \in Runs
        PROVE  /\ Holds(q)' => Within(q, held[q].record.n)'
               /\ Kept(q)' => Within(q, ckpt.n)'
               /\ Holds(q)' /\ Kept(q)' => ckpt'.n < held'[q].record.n
               /\ bpc'[q] = "off" => held'[q] = None
    BY <1>2, <2>5, <2>6, <2>7 DEF RecordInv, RecordOf, Within, Holds, Kept
  <2>. QED
    BY <2>8, <2>9 DEF RecordInv, RecordOf
<1>4. CASE ~RunnerSaves(r)
  <2>1. saver' = saver
    BY <1>4 DEF Runner, RunnerQuits, RunnerOpens, RunnerBeats, RunnerLocks, RunnerCancelled,
         RunnerLoads, RunnerSteps, RunnerPushes, RunnerTransits, RunnerFinishesStep, RunnerEnds
  <2>2. ASSUME NEW q \in Runs PROVE RecordOf(q)'
    <3>1. home'[q] = home[q] /\ ckpt' = ckpt /\ bpc'[q] = bpc[q] /\ held'[q] = held[q]
      BY <1>1 DEF store, bridge
    <3>2. Holds(q)' <=> Holds(q)
      BY <3>1 DEF Holds, Open
    <3>3. RecordOf(q)
      BY DEF RecordInv
    <3>. QED
      BY <1>2, <2>1, <3>1, <3>2, <3>3, RecordKept
  <2>. QED
    BY <2>2 DEF RecordInv
<1>. QED
  BY <1>3, <1>4

\* The only step that changes the thread's checkpoint: a running run commits
\* the record of its own that its bridge holds, and is rid of it.
LEMMA BridgeCheckpoint ==
  ASSUME TaskInv, NEW r \in Runs, Bridge(r)
  PROVE  \/ ckpt' = ckpt
         \/ status[r] = "running" /\ Holds(r) /\ ~Holds(r)' /\ ckpt' = held[r].record
<1>. USE DEF TaskInv
<1>1. ASSUME NEW evs, NEW st, NEW taken, Written(r, HeldRecord(r), evs, st, taken)
      PROVE  \/ ckpt' = ckpt
             \/ held[r] # None /\ held[r].record.run = r /\ ckpt' = held[r].record
  <2>1. held[r] # None => held[r].record # None
    BY NoneAssumption DEF TypeOK, PendingStep
  <2>. QED
    BY <1>1, <2>1 DEF Written, HeldRecord
<1>2. CASE BridgeCommits(r)
  <2>1. Open(r) /\ held'[r] = None
    BY <1>2 DEF BridgeCommits, BridgeAt, Open, TypeOK
  <2>2. \/ ckpt' = ckpt
        \/ \E evs, st, taken : status[r] = "running" /\ Written(r, HeldRecord(r), evs, st, taken)
    BY BridgeStores, Zenon
  <2>. QED
    BY <1>1, <2>1, <2>2 DEF Holds
<1>3. CASE BridgeFinishes(r)
  <2>1. Open(r)
    BY <1>3 DEF BridgeFinishes, BridgeAt, Open
  <2>2. StatusOf(cur[r].kind) \in RunStatus
    BY <1>3, EventFields DEF BridgeFinishes, BridgeAt, BridgeInv
  <2>3. CommitEvents(r, HeldRecord(r), Append(HeldEvents(r), cur[r]),
                     StatusOf(cur[r].kind), ops[r])
    BY <1>3 DEF BridgeFinishes
  <2>4. \/ UNCHANGED store
        \/ Commit(r, HeldRecord(r), TRUE) = "recorded"
    BY <2>2, <2>3, FinishOutcome, Zenon
  <2>5. CASE Commit(r, HeldRecord(r), TRUE) = "recorded"
    <3>1. bpc'[r] \in {"sendF", "sendT"}
      BY <1>3, <2>5 DEF BridgeFinishes, Goto, TypeOK
    <3>2. ~Holds(r)'
      BY <3>1 DEF Holds, Open
    <3>3. \/ ckpt' = ckpt
          \/ \E evs, st, taken : status[r] = "running" /\ Written(r, HeldRecord(r), evs, st, taken)
      BY BridgeStores, Zenon
    <3>. QED
      BY <1>1, <2>1, <3>2, <3>3 DEF Holds
  <2>. QED
    BY <2>4, <2>5 DEF store
<1>4. CASE BridgeFails(r) \/ BridgeCommitsCancel(r)
  <2>1. Open(r) /\ bpc'[r] \in {"sendX", "clear"}
    BY <1>4 DEF BridgeFails, BridgeCommitsCancel, BridgeAt, Open, Goto, TypeOK
  <2>2. ~Holds(r)'
    BY <2>1 DEF Holds, Open
  <2>3. \/ ckpt' = ckpt
        \/ \E evs, st, taken : status[r] = "running" /\ Written(r, HeldRecord(r), evs, st, taken)
    BY BridgeStores, Zenon
  <2>. QED
    BY <1>1, <2>1, <2>2, <2>3 DEF Holds
<1>. QED
  BY <1>2, <1>3, <1>4, BridgeStores

\* A bridge takes the head of its queue, clears the queue or leaves it alone.
LEMMA BridgeQueue ==
  ASSUME TaskInv, NEW r \in Runs, Bridge(r)
  PROVE  \/ /\ BridgeTakes(r) /\ home[r] \in Instances /\ saver[home[r]] # <<>>
            /\ bpc[r] = "take" /\ ckpt' = ckpt
            /\ saver' = [saver EXCEPT ![home[r]] = Tail(@)]
            /\ held'[r].record = Head(saver[home[r]])
         \/ /\ held'[r] \in {held[r], None} /\ (Open(r)' => Open(r))
            /\ \A i \in Instances : saver'[i] \in {saver[i], <<>>}
<1>. USE DEF TaskInv
<1>leave. ASSUME Leave(r)
          PROVE  held'[r] = None /\ (Open(r)' => Open(r))
  BY <1>leave DEF Leave, Goto, Open, TypeOK
<1>1. CASE BridgeTakes(r)
  <2>1. bpc[r] = "take" /\ home[r] \in Instances /\ ckpt' = ckpt
    BY <1>1 DEF BridgeTakes, BridgeAt, StartInv, TypeOK, store
  <2>2. CASE saver[home[r]] = <<>>
    <3>1. UNCHANGED <<saver, held>>
      BY <1>1, <2>2, Zenon DEF BridgeTakes, MySaver
    <3>. QED
      BY <2>1, <3>1 DEF Open
  <2>3. CASE saver[home[r]] # <<>>
    <3>1. /\ saver' = [saver EXCEPT ![home[r]] = Tail(@)]
          /\ held' = [held EXCEPT ![r] = [event |-> cur[r], record |-> Head(saver[home[r]])]]
      BY <1>1, <2>3, Zenon DEF BridgeTakes, MySaver
    <3>2. held'[r].record = Head(saver[home[r]])
      BY <3>1 DEF TypeOK
    <3>. QED
      BY <1>1, <2>1, <2>3, <3>1, <3>2
  <2>. QED
    BY <2>2, <2>3
<1>2. CASE BridgeReceives(r) \/ BridgeSelects(r)
  BY <1>2 DEF BridgeReceives, BridgeSelects, BridgeAt, Open
<1>3. CASE BridgeCommits(r)
  BY <1>3 DEF BridgeCommits, BridgeAt, Open, TypeOK
<1>4. CASE BridgeSends(r) \/ BridgeFinishes(r) \/ BridgeCancels(r)
  BY <1>4 DEF BridgeSends, BridgeFinishes, BridgeCancels, BridgeAt, Open
<1>5. CASE BridgeSendsHeld(r)
  <2>1. CASE listening[r]
    <3>1. bpc' = [bpc EXCEPT ![r] = "sendT"] /\ UNCHANGED <<held, saver>>
      BY <1>5, <2>1, Zenon DEF BridgeSendsHeld, Goto
    <3>. QED
      BY <3>1 DEF Open, TypeOK
  <2>2. CASE ~listening[r]
    BY <1>5, <1>leave, <2>2 DEF BridgeSendsHeld
  <2>. QED
    BY <2>1, <2>2
<1>6. CASE BridgeSendsLast(r)
  BY <1>6, <1>leave DEF BridgeSendsLast
<1>7. CASE BridgeFails(r) \/ BridgeCommitsCancel(r)
  BY <1>7 DEF BridgeFails, BridgeCommitsCancel, BridgeAt, Open
<1>8. CASE BridgeClears(r)
  BY <1>8, <1>leave DEF BridgeClears, TypeOK
<1>. QED
  BY <1>1, <1>2, <1>3, <1>4, <1>5, <1>6, <1>7, <1>8 DEF Bridge

LEMMA RecordBridge ==
  ASSUME TaskInv, TaskInv', RecordInv, NEW r \in Runs, Bridge(r)
  PROVE  RecordInv'
<1>. USE DEF TaskInv
<1>1. /\ home' = home /\ rpc' = rpc /\ count' = count
      /\ bpc[r] # "off" /\ bpc'[r] # "off"
      /\ \A q \in Runs \ {r} : bpc'[q] = bpc[q] /\ held'[q] = held[q]
  BY BridgeOwn DEF runner
<1>2. /\ \A q \in Runs : \A n \in Nat : Within(q, n) => Within(q, n)'
      /\ \A q \in Runs \ {r} : Holds(q)' <=> Holds(q)
  BY <1>1 DEF Within, Holds, Open
<1>3. \A i \in Instances : \/ saver'[i] = saver[i]
                           \/ saver'[i] = <<>>
                           \/ saver[i] # <<>> /\ saver'[i] = Tail(saver[i])
  <2>1. CASE \A i \in Instances : saver'[i] \in {saver[i], <<>>}
    BY <2>1
  <2>2. CASE /\ home[r] \in Instances /\ saver[home[r]] # <<>>
             /\ saver' = [saver EXCEPT ![home[r]] = Tail(@)]
    BY <2>2 DEF TypeOK
  <2>. QED
    BY <2>1, <2>2, BridgeQueue
<1>4. ASSUME NEW q \in Runs \ {r}
      PROVE  RecordOf(q)'
  <2>1. ckpt' = ckpt \/ (ckpt' # None /\ ckpt'.run # q)
    <3>1. held[r] # None => held[r].record # None
      BY NoneAssumption DEF TypeOK, PendingStep
    <3>. QED
      BY <3>1, BridgeCheckpoint DEF Holds
  <2>2. RecordOf(q)
    BY DEF RecordInv
  <2>. QED
    BY <1>1, <1>2, <1>3, <2>1, <2>2, RecordKept
<1>5. RecordOf(r)'
  <2>0. RecordOf(r)
    BY DEF RecordInv
  <2>1. CASE held'[r] \in {held[r], None} /\ (Open(r)' => Open(r))
    <3>1. Holds(r)' => Holds(r) /\ held'[r] = held[r]
      BY <2>1 DEF Holds
    <3>. QED
      BY <1>1, <1>2, <1>3, <2>0, <3>1, BridgeCheckpoint, RecordKept
  <2>2. CASE /\ BridgeTakes(r) /\ home[r] \in Instances /\ saver[home[r]] # <<>>
             /\ bpc[r] = "take" /\ ckpt' = ckpt
             /\ saver' = [saver EXCEPT ![home[r]] = Tail(@)]
             /\ held'[r].record = Head(saver[home[r]])
    <3>. DEFINE h == home[r]
    <3>1. /\ saver[h] \in Seq(Record) /\ Head(saver[h]) = saver[h][1] /\ 1 \in DOMAIN saver[h]
          /\ \A k \in DOMAIN saver'[h] : k \in Nat \ {0} /\ k + 1 \in DOMAIN saver[h]
                                         /\ saver'[h][k] = saver[h][k + 1]
          /\ \A i \in Instances \ {h} : saver'[i] = saver[i]
      <4>1. saver[h] \in Seq(Record) /\ saver'[h] = Tail(saver[h])
            /\ \A i \in Instances \ {h} : saver'[i] = saver[i]
        BY <2>2 DEF TypeOK
      <4>2. \A k \in DOMAIN Tail(saver[h]) : k \in Nat \ {0}
        BY <2>2, <4>1
      <4>3. /\ Head(saver[h]) = saver[h][1] /\ 1 \in DOMAIN saver[h]
            /\ \A k \in DOMAIN Tail(saver[h]) :
                 k + 1 \in DOMAIN saver[h] /\ Tail(saver[h])[k] = saver[h][k + 1]
        <5>. HIDE DEF h
        <5>1. saver[h] # <<>>
          BY <2>2 DEF h
        <5>. QED
          BY <4>1, <5>1, HeadTail
      <4>. QED
        BY <4>1, <4>2, <4>3
    <3>2. /\ \A k \in DOMAIN saver[h] : saver[h][k].n \in Nat
          /\ \A i \in Instances : \A k \in DOMAIN saver[i] : saver[i][k].n \in Nat
          /\ Kept(r) => ckpt.n \in Nat
      <4>1. \A i \in Instances : \A k \in DOMAIN saver[i] : saver[i][k] \in Record
        BY DEF TypeOK
      <4>2. \A x \in Record : x.n \in Nat
        BY DEF Record
      <4>. QED
        BY <2>2, <4>1, <4>2 DEF TypeOK, Kept
    <3>3. Kept(r)' <=> Kept(r)
      BY <2>2 DEF Kept
    <3>4. Holds(r)' => saver[h][1].run = r /\ Queued(r, h, 1)
      BY <2>2, <2>0, <3>1 DEF Holds, RecordOf
    <3>5. ASSUME NEW i \in Instances, NEW k \in DOMAIN saver'[i], saver'[i][k].run = r
          PROVE  Queued(r, i, k)'
      <4>1. i = h
        BY <2>0, <3>1, <3>5 DEF RecordOf, Queued
      <4>2. /\ k \in Nat \ {0} /\ k + 1 \in DOMAIN saver[h] /\ saver'[i][k] = saver[h][k + 1]
            /\ saver[h][k + 1].run = r
        BY <3>1, <3>5, <4>1
      <4>3. Queued(r, h, k + 1)
        BY <2>0, <2>2, <4>2 DEF RecordOf
      <4>4. home'[r] = i
        BY <1>1, <4>1
      <4>5. Within(r, saver[i][k].n)'
        BY <1>2, <3>2, <4>2, <4>3 DEF Queued, Within
      <4>6. Kept(r)' => ckpt'.n < saver'[i][k].n
        BY <2>2, <3>3, <4>2, <4>3 DEF Queued
      <4>7. Holds(r)' => held'[r].record.n < saver'[i][k].n
        <5>1. Holds(r)' => saver[h][1].n < saver[h][k + 1].n
          <6>1. 1 < k + 1
            BY <4>2
          <6>. QED
            BY <3>4, <4>2, <6>1 DEF Queued
        <5>. QED
          BY <2>2, <3>1, <4>2, <5>1
      <4>8. ASSUME NEW l \in DOMAIN saver'[i], k < l, saver'[i][l].run = r
            PROVE  saver'[i][k].n < saver'[i][l].n
        <5>1. l \in Nat /\ l + 1 \in DOMAIN saver[h] /\ saver'[i][l] = saver[h][l + 1]
          BY <3>1, <4>1, <4>8
        <5>2. k + 1 < l + 1
          BY <4>2, <4>8, <5>1
        <5>. QED
          BY <4>2, <4>3, <4>8, <5>1, <5>2 DEF Queued
      <4>. QED
        BY <4>4, <4>5, <4>6, <4>7, <4>8 DEF Queued
    <3>6. Holds(r)' => Within(r, held[r].record.n)'
      BY <1>1, <2>2, <3>1, <3>4 DEF Queued, Within
    <3>7. Holds(r)' /\ Kept(r)' => ckpt'.n < held'[r].record.n
      BY <2>2, <3>1, <3>3, <3>4 DEF Queued
    <3>8. Kept(r)' => Within(r, ckpt.n)'
      BY <1>1, <2>0, <2>2, <3>3 DEF RecordOf, Within
    <3>. QED
      BY <1>1, <3>5, <3>6, <3>7, <3>8 DEF RecordOf
  <2>. QED
    BY <2>1, <2>2, BridgeQueue
<1>. QED
  BY <1>4, <1>5 DEF RecordInv

\* A step that moves no records: what is asked of it, for every run.
LEMMA RecordStill ==
  ASSUME TaskInv, TaskInv', RecordInv,
         UNCHANGED <<home, rpc, count, saver, ckpt, bpc, held>>
  PROVE  RecordInv'
<1>1. ASSUME NEW q \in Runs PROVE RecordOf(q)'
  <2>1. /\ RecordOf(q) /\ (Holds(q)' <=> Holds(q))
        /\ \A n \in Nat : Within(q, n) => Within(q, n)'
    BY DEF RecordInv, Holds, Open, Within
  <2>. QED
    BY <2>1, RecordKept DEF TaskInv
<1>. QED
  BY <1>1 DEF RecordInv

LEMMA RecordStep ==
  ASSUME TaskInv, TaskInv', RecordInv, Next
  PROVE  RecordInv'
<1>. USE DEF TaskInv
<1>1. ASSUME NEW r \in Runs, NEW i \in Instances, Stream(r, i)
      PROVE  RecordInv'
  <2>1. /\ rpc' = [rpc EXCEPT ![r] = "open"] /\ bpc' = [bpc EXCEPT ![r] = "recv"]
        /\ home' = [home EXCEPT ![r] = i] /\ home[r] = None /\ rpc[r] = "off" /\ bpc[r] = "off"
        /\ count[r] = 0 /\ UNCHANGED <<count, saver, ckpt, held>>
    BY <1>1 DEF Stream, StartInv, RunnerInv
  <2>2. /\ rpc'[r] = "open" /\ bpc'[r] = "recv"
        /\ \A q \in Runs \ {r} : rpc'[q] = rpc[q] /\ bpc'[q] = bpc[q] /\ home'[q] = home[q]
    BY <2>1 DEF TypeOK
  <2>3. ASSUME NEW q \in Runs \ {r} PROVE RecordOf(q)'
    <3>1. /\ RecordOf(q) /\ (Holds(q)' <=> Holds(q))
          /\ \A n \in Nat : Within(q, n) => Within(q, n)'
      BY <2>1, <2>2 DEF RecordInv, Holds, Open, Within
    <3>. QED
      BY <2>1, <2>2, <3>1, RecordKept
  <2>4. RecordOf(r)'
    <3>1. RecordOf(r)
      BY DEF RecordInv
    <3>2. \A j \in Instances : \A k \in DOMAIN saver[j] : saver[j][k].run # r
      BY <2>1, <3>1, ConstantsAssumption DEF RecordOf, Queued
    <3>3. held[r] = None
      BY <2>1, <3>1 DEF RecordOf
    <3>4. ~Kept(r)
      <4>1. Kept(r) => ckpt.n <= 0 /\ ckpt.n \in 1..MaxSteps
        BY <2>1, <3>1 DEF RecordOf, Within, Kept, TypeOK, Record
      <4>. QED
        BY <4>1, ConstantsAssumption
    <3>5. ~Kept(r)' /\ ~Holds(r)'
      BY <2>1, <3>3, <3>4 DEF Kept, Holds
    <3>. QED
      BY <2>1, <2>2, <3>2, <3>5 DEF RecordOf
  <2>. QED
    BY <2>3, <2>4 DEF RecordInv
<1>2. ASSUME NEW r \in Runs, \/ RenewFails(r) \/ CancelRun(r) \/ LeaseLapses(r)
                              \/ StopListening(r) \/ Reap(r)
      PROVE  RecordInv'
  <2>1. UNCHANGED <<home, rpc, count, saver, ckpt, bpc, held>>
    BY <1>2 DEF RenewFails, CancelRun, LeaseLapses, StopListening, Reap, EnvFrame, bridge
  <2>. QED
    BY <2>1, RecordStill
<1>3. ASSUME NEW i \in Instances, Crash(i)
      PROVE  RecordInv'
  <2>1. /\ UNCHANGED <<home, ckpt>> /\ saver' = [saver EXCEPT ![i] = <<>>]
        /\ rpc' = [q \in Runs |-> IF home[q] = i THEN "done" ELSE rpc[q]]
        /\ bpc' = [q \in Runs |-> IF home[q] = i THEN "done" ELSE bpc[q]]
        /\ count' = [q \in Runs |-> IF home[q] = i THEN 0 ELSE count[q]]
        /\ held' = [q \in Runs |-> IF home[q] = i THEN None ELSE held[q]]
    BY <1>3, Zenon DEF Crash, store
  <2>2. \A j \in Instances : saver'[j] = saver[j] \/ saver'[j] = <<>>
    BY <2>1 DEF TypeOK
  <2>3. ASSUME NEW q \in Runs PROVE RecordOf(q)'
    <3>1. \/ /\ rpc'[q] = rpc[q] /\ bpc'[q] = bpc[q] /\ count'[q] = count[q] /\ held'[q] = held[q]
          \/ rpc'[q] = "done" /\ bpc'[q] = "done" /\ held'[q] = None
      BY <2>1
    <3>2. /\ RecordOf(q) /\ (Holds(q)' => Holds(q) /\ held'[q] = held[q])
          /\ \A n \in Nat : Within(q, n) => Within(q, n)'
          /\ bpc'[q] = "off" => bpc[q] = "off" /\ held'[q] = held[q]
      BY <3>1 DEF RecordInv, Holds, Open, Within
    <3>. QED
      BY <2>1, <2>2, <3>2, RecordKept
  <2>. QED
    BY <2>3 DEF RecordInv
<1>4. CASE UNCHANGED vars
  BY <1>4, RecordStill DEF vars, store, runner, bridge
<1>. QED
  BY <1>1, <1>2, <1>3, <1>4, RecordRunner, RecordBridge, StepOf

LEMMA OneRunsStep ==
  ASSUME TaskInv, OneRuns, Next
  PROVE  OneRuns'
<1>. USE DEF TaskInv
<1>1. ASSUME \A q \in Runs : status'[q] = "running" => status[q] = "running"
      PROVE  OneRuns'
  BY <1>1 DEF OneRuns
<1>2. ASSUME NEW r \in Runs, Runner(r) PROVE OneRuns'
  BY <1>1, <1>2, RunnerOwn DEF store
<1>3. ASSUME NEW r \in Runs, Bridge(r) PROVE OneRuns'
  BY <1>1, <1>3, BridgeStoresOwn
<1>4. ASSUME NEW r \in Runs, NEW i \in Instances, Stream(r, i) PROVE OneRuns'
  <2>1. \A q \in Runs : status'[q] = "running" => q = r
    BY <1>4 DEF Stream, TypeOK
  <2>. QED
    BY <2>1 DEF OneRuns
<1>5. ASSUME NEW r \in Runs, \/ RenewFails(r) \/ CancelRun(r) \/ LeaseLapses(r)
                              \/ StopListening(r) \/ Reap(r)
      PROVE  OneRuns'
  BY <1>1, <1>5 DEF RenewFails, CancelRun, LeaseLapses, StopListening, Reap, EnvFrame, TypeOK
<1>6. ASSUME NEW i \in Instances, Crash(i) PROVE OneRuns'
  BY <1>1, <1>6 DEF Crash, store
<1>7. CASE UNCHANGED vars
  BY <1>1, <1>7 DEF vars, store
<1>. QED
  BY <1>2, <1>3, <1>4, <1>5, <1>6, <1>7, StepOf

\* A running run that has begun to step, or of which there is a record that may
\* still be stored, finds the checkpoint it loaded, or one of its own.
HasRecord(r) ==
  \/ \E i \in Instances : \E k \in DOMAIN saver[i] : saver[i][k].run = r
  \/ Holds(r)
BaseOf(r) ==
  status[r] = "running" /\ (rpc[r] \in {"step", "trans", "acted", "save", "fin"} \/ HasRecord(r))
    => ckpt = base[r] \/ Kept(r)
BaseInv == \A r \in Runs : BaseOf(r)

\* The step keeps the store's side of it: only a running run writes, and no
\* other is running.
LEMMA BaseStep ==
  ASSUME TaskInv, TaskInv', OneRuns, RecordInv, BaseInv, Next
  PROVE  BaseInv'
<1>. USE DEF TaskInv
<1>same. ASSUME NEW q \in Runs, ckpt' = ckpt, status'[q] = "running" => status[q] = "running",
                rpc'[q] \in {"step", "trans", "acted", "save", "fin"} =>
                  rpc[q] \in {"step", "trans", "acted", "save", "fin"},
                base'[q] = base[q], HasRecord(q)' => HasRecord(q)
         PROVE  BaseOf(q)'
  BY <1>same DEF BaseInv, BaseOf, Kept
<1>1. ASSUME NEW r \in Runs, Runner(r) PROVE BaseInv'
  <2>1. /\ UNCHANGED <<store, home, bridge>>
        /\ \A q \in Runs \ {r} : rpc'[q] = rpc[q] /\ base'[q] = base[q]
    BY <1>1, RunnerOwn
  <2>2. ASSUME NEW q \in Runs
        PROVE  Holds(q)' <=> Holds(q)
    BY <2>1 DEF Holds, Open, bridge
  <2>3. CASE RunnerSaves(r)
    <3>1. /\ base' = base /\ rpc[r] = "save" /\ home[r] \in Instances
          /\ saver' = [saver EXCEPT ![home[r]] =
               Append(@, [run |-> r, n |-> count[r], result |-> result[r]])]
      BY <2>3 DEF RunnerSaves, RunnerAt, StartInv, TypeOK
    <3>2. ASSUME NEW q \in Runs \ {r}, NEW i \in Instances, NEW k \in DOMAIN saver'[i],
                 saver'[i][k].run = q
          PROVE  k \in DOMAIN saver[i] /\ saver[i][k].run = q
      <4>. DEFINE new == [run |-> r, n |-> count[r], result |-> result[r]]
      <4>1. /\ saver[i] \in Seq(Record) /\ new.run = r
            /\ saver'[i] = saver[i] \/ saver'[i] = Append(saver[i], new)
        BY <3>1 DEF TypeOK
      <4>. HIDE DEF new
      <4>2. CASE saver'[i] = Append(saver[i], new)
        <5>1. \A l \in DOMAIN Append(saver[i], new) :
                 \/ l \in DOMAIN saver[i] /\ Append(saver[i], new)[l] = saver[i][l]
                 \/ Append(saver[i], new)[l] = new
          BY <4>1
        <5>. QED
          BY <3>2, <4>1, <4>2, <5>1
      <4>. QED
        BY <3>2, <4>1, <4>2
    <3>3. ASSUME NEW q \in Runs \ {r} PROVE BaseOf(q)'
      <4>1. HasRecord(q)' => HasRecord(q)
        BY <2>2, <3>2 DEF HasRecord
      <4>. QED
        BY <1>same, <2>1, <4>1 DEF store
    <3>4. BaseOf(r)'
      BY <2>1, <3>1 DEF BaseInv, BaseOf, Kept, store
    <3>. QED
      BY <3>3, <3>4 DEF BaseInv
  <2>4. CASE RunnerLoads(r)
    <3>1. base'[r] = ckpt /\ saver' = saver
      BY <2>4 DEF RunnerLoads, TypeOK
    <3>2. ASSUME NEW q \in Runs \ {r} PROVE BaseOf(q)'
      <4>1. HasRecord(q)' => HasRecord(q)
        BY <2>2, <3>1 DEF HasRecord
      <4>. QED
        BY <1>same, <2>1, <4>1 DEF store
    <3>3. BaseOf(r)'
      BY <2>1, <3>1 DEF BaseOf, store
    <3>. QED
      BY <3>2, <3>3 DEF BaseInv
  <2>5. CASE ~RunnerSaves(r) /\ ~RunnerLoads(r)
    <3>1. UNCHANGED <<base, saver>>
      BY <1>1, <2>5 DEF Runner, RunnerQuits, RunnerOpens, RunnerBeats, RunnerLocks,
         RunnerCancelled, RunnerSteps, RunnerPushes, RunnerTransits, RunnerFinishesStep,
         RunnerEnds
    <3>2. rpc'[r] \in {"step", "trans", "acted", "save", "fin"} =>
            rpc[r] \in {"load", "step", "trans", "acted", "save", "fin"}
      BY <1>1, RunnerMoves
    <3>3. rpc[r] = "load" => rpc'[r] \notin {"step", "trans", "acted", "save", "fin"}
      <4>1. ASSUME RunnerQuits(r) \/ RunnerEnds(r) PROVE rpc'[r] = "done"
        BY <4>1 DEF RunnerQuits, RunnerEnds, Exit, TypeOK
      <4>. QED
        BY <1>1, <2>5, <4>1 DEF Runner, RunnerOpens, RunnerBeats, RunnerLocks,
           RunnerCancelled, RunnerSteps, RunnerPushes, RunnerTransits, RunnerSaves,
           RunnerFinishesStep, RunnerAt, InSelect, InTransition
    <3>4. ASSUME NEW q \in Runs PROVE BaseOf(q)'
      <4>1. HasRecord(q)' => HasRecord(q)
        BY <2>2, <3>1 DEF HasRecord
      <4>. QED
        BY <1>same, <2>1, <3>1, <3>2, <3>3, <4>1 DEF store
    <3>. QED
      BY <3>4 DEF BaseInv
  <2>. QED
    BY <2>3, <2>4, <2>5
<1>2. ASSUME NEW r \in Runs, Bridge(r) PROVE BaseInv'
  <2>1. /\ rpc' = rpc /\ base' = base
        /\ \A q \in Runs \ {r} : bpc'[q] = bpc[q] /\ held'[q] = held[q]
    BY <1>2, BridgeOwn DEF runner
  <2>2. \A q \in Runs : status'[q] = "running" => status[q] = "running"
    BY <1>2, BridgeStoresOwn
  <2>3. ASSUME NEW q \in Runs, HasRecord(q)' PROVE HasRecord(q)
    <3>1. ASSUME NEW i \in Instances, NEW k \in DOMAIN saver'[i], saver'[i][k].run = q
          PROVE  \E l \in DOMAIN saver[i] : saver[i][l].run = q
      <4>1. \/ saver'[i] = saver[i]
            \/ saver'[i] = <<>>
            \/ saver[i] # <<>> /\ saver'[i] = Tail(saver[i])
        <5>1. CASE \A j \in Instances : saver'[j] \in {saver[j], <<>>}
          BY <5>1
        <5>2. CASE /\ home[r] \in Instances /\ saver[home[r]] # <<>>
                   /\ saver' = [saver EXCEPT ![home[r]] = Tail(@)]
          BY <5>2 DEF TypeOK
        <5>. QED
          BY <1>2, <5>1, <5>2, BridgeQueue
      <4>. QED
        BY <3>1, <4>1, QueueLoses
    <3>2. Holds(q)' => HasRecord(q)
      <4>1. CASE q # r
        BY <2>1, <4>1 DEF Holds, Open, HasRecord
      <4>2. CASE q = r /\ held'[r] \in {held[r], None} /\ (Open(r)' => Open(r))
        BY <4>2 DEF Holds, HasRecord
      <4>3. CASE q = r /\ home[r] \in Instances /\ saver[home[r]] # <<>>
                 /\ held'[r].record = Head(saver[home[r]])
        <5>1. 1 \in DOMAIN saver[home[r]] /\ Head(saver[home[r]]) = saver[home[r]][1]
          <6>1. saver[home[r]] \in Seq(Record)
            BY <4>3 DEF TypeOK
          <6>. QED
            BY <4>3, <6>1, HeadTail
        <5>. QED
          BY <4>3, <5>1 DEF Holds, HasRecord
      <4>. QED
        BY <1>2, <4>1, <4>2, <4>3, BridgeQueue
    <3>. QED
      BY <2>3, <3>1, <3>2 DEF HasRecord
  <2>4. CASE ckpt' = ckpt
    BY <1>same, <2>1, <2>2, <2>3, <2>4 DEF BaseInv
  <2>5. CASE status[r] = "running" /\ Holds(r) /\ ckpt' = held[r].record
    <3>1. \A q \in Runs : status'[q] = "running" => q = r
      BY <2>2, <2>5 DEF OneRuns
    <3>2. held[r].record # None
      BY <2>5, NoneAssumption DEF Holds, TypeOK, PendingStep
    <3>3. Kept(r)'
      BY <2>5, <3>2 DEF Kept, Holds
    <3>. QED
      BY <3>1, <3>3 DEF BaseInv, BaseOf
  <2>. QED
    BY <1>2, <2>4, <2>5, BridgeCheckpoint
<1>3. ASSUME NEW r \in Runs, NEW i \in Instances, Stream(r, i) PROVE BaseInv'
  <2>1. /\ rpc' = [rpc EXCEPT ![r] = "open"] /\ bpc' = [bpc EXCEPT ![r] = "recv"]
        /\ status' = [status EXCEPT ![r] = "running"]
        /\ home[r] = None /\ rpc[r] = "off" /\ bpc[r] = "off"
        /\ UNCHANGED <<saver, ckpt, held, base>>
    BY <1>3 DEF Stream, StartInv
  <2>2. /\ rpc'[r] = "open"
        /\ \A q \in Runs \ {r} : rpc'[q] = rpc[q] /\ bpc'[q] = bpc[q] /\ status'[q] = status[q]
    BY <2>1 DEF TypeOK
  <2>3. ASSUME NEW q \in Runs \ {r} PROVE BaseOf(q)'
    <3>1. HasRecord(q)' => HasRecord(q)
      BY <2>1, <2>2 DEF HasRecord, Holds, Open
    <3>. QED
      BY <1>same, <2>1, <2>2, <3>1
  <2>4. ~HasRecord(r)'
    <3>1. \A j \in Instances : \A k \in DOMAIN saver[j] : saver[j][k].run # r
      BY <2>1, ConstantsAssumption DEF RecordInv, RecordOf, Queued
    <3>2. held[r] = None
      BY <2>1 DEF RecordInv, RecordOf
    <3>. QED
      BY <2>1, <3>1, <3>2 DEF HasRecord, Holds
  <2>. QED
    BY <2>2, <2>3, <2>4 DEF BaseInv, BaseOf
<1>4. ASSUME NEW r \in Runs, \/ RenewFails(r) \/ CancelRun(r) \/ LeaseLapses(r)
                              \/ StopListening(r) \/ Reap(r)
      PROVE  BaseInv'
  <2>1. /\ UNCHANGED <<rpc, base, saver, ckpt, bpc, held>>
        /\ \A q \in Runs : status'[q] = "running" => status[q] = "running"
    BY <1>4 DEF RenewFails, CancelRun, LeaseLapses, StopListening, Reap, EnvFrame, bridge, TypeOK
  <2>2. \A q \in Runs : HasRecord(q)' => HasRecord(q)
    BY <2>1 DEF HasRecord, Holds, Open
  <2>. QED
    BY <1>same, <2>1, <2>2 DEF BaseInv
<1>5. ASSUME NEW i \in Instances, Crash(i) PROVE BaseInv'
  <2>1. /\ UNCHANGED <<status, base, ckpt>> /\ saver' = [saver EXCEPT ![i] = <<>>]
        /\ rpc' = [q \in Runs |-> IF home[q] = i THEN "done" ELSE rpc[q]]
        /\ bpc' = [q \in Runs |-> IF home[q] = i THEN "done" ELSE bpc[q]]
        /\ held' = [q \in Runs |-> IF home[q] = i THEN None ELSE held[q]]
    BY <1>5, Zenon DEF Crash, store
  <2>2. ASSUME NEW q \in Runs
        PROVE  /\ rpc'[q] \in {rpc[q], "done"} /\ (Holds(q)' => Holds(q))
               /\ HasRecord(q)' => HasRecord(q)
    <3>1. rpc'[q] \in {rpc[q], "done"} /\ (Holds(q)' => Holds(q))
      BY <2>1 DEF Holds, Open
    <3>2. \A j \in Instances : saver'[j] \in {saver[j], <<>>}
      BY <2>1 DEF TypeOK
    <3>3. ASSUME NEW j \in Instances, NEW k \in DOMAIN saver'[j]
          PROVE  k \in DOMAIN saver[j] /\ saver'[j][k] = saver[j][k]
      BY <3>2, <3>3
    <3>. QED
      BY <3>1, <3>3 DEF HasRecord
  <2>. QED
    BY <1>same, <2>1, <2>2 DEF BaseInv
<1>6. CASE UNCHANGED vars
  BY <1>6 DEF vars, store, runner, bridge, BaseInv, BaseOf, HasRecord, Holds, Open, Kept
<1>. QED
  BY <1>1, <1>2, <1>3, <1>4, <1>5, <1>6, StepOf

\* How the count of finished steps of a log grows.
LEMMA DoneGrows ==
  ASSUME TypeOK, TypeOK', NEW r \in Runs, NEW e \in Event, log'[r] = Append(log[r], e)
  PROVE  /\ StepsDone(r) \in Nat
         /\ StepsDone(r)' = IF e.kind = "StepDone" THEN StepsDone(r) + 1 ELSE StepsDone(r)
<1>. DEFINE S == {i \in DOMAIN log[r] : log[r][i].kind = "StepDone"}
            n == Len(log[r])
<1>1. log[r] \in Seq(Event) /\ n \in Nat /\ S \in SUBSET (1..n)
  BY DEF TypeOK
<1>2. {i \in DOMAIN log'[r] : log'[r][i].kind = "StepDone"} =
        IF e.kind = "StepDone" THEN S \cup {n + 1} ELSE S
  <2>1. /\ DOMAIN Append(log[r], e) = 1..(n + 1) /\ DOMAIN log[r] = 1..n
        /\ Append(log[r], e)[n + 1] = e
        /\ \A i \in 1..n : Append(log[r], e)[i] = log[r][i]
    BY <1>1
  <2>. QED
    BY <1>1, <2>1
<1>3. Cardinality(S) \in Nat /\ Cardinality(S \cup {n + 1}) = Cardinality(S) + 1
  <2>. HIDE DEF S, n
  <2>. QED
    BY <1>1, RankGrows
<1>. QED
  BY <1>2, <1>3 DEF StepsDone

\* CheckpointCoversLog, for one run.
CoversOf(r) ==
  StepsDone(r) > 0 /\ status[r] = "running" => Kept(r) /\ ckpt.n >= StepsDone(r)
CoversInv == \A r \in Runs : CoversOf(r)

LEMMA CoversStep ==
  ASSUME TaskInv, TaskInv', OneRuns, RecordInv, CoversInv, Next
  PROVE  CoversInv'
<1>. USE DEF TaskInv
<1>same. ASSUME NEW q \in Runs, ckpt' = ckpt, log'[q] = log[q],
                status'[q] = "running" => status[q] = "running"
         PROVE  CoversOf(q)'
  BY <1>same DEF CoversInv, CoversOf, StepsDone, Kept
<1>over. ASSUME NEW q \in Runs, status'[q] # "running"
         PROVE  CoversOf(q)'
  BY <1>over DEF CoversOf
<1>1. ASSUME NEW r \in Runs, Runner(r) PROVE CoversInv'
  BY <1>1, <1>same, RunnerOwn DEF store, CoversInv
<1>2. ASSUME NEW r \in Runs, Bridge(r) PROVE CoversInv'
  <2>1. ASSUME NEW q \in Runs \ {r} PROVE CoversOf(q)'
    <3>1. log'[q] = log[q] /\ status'[q] = status[q]
      BY <1>2, BridgeStoresOwn
    <3>2. CASE ckpt' = ckpt
      BY <1>same, <3>1, <3>2
    <3>3. CASE status[r] = "running"
      BY <1>over, <3>1, <3>3 DEF OneRuns
    <3>. QED
      BY <1>2, <3>2, <3>3, BridgeCheckpoint
  <2>2. CoversOf(r)'
    <3>1. CASE UNCHANGED <<status, log, ckpt, opsAt>>
      BY <1>same, <3>1
    <3>2. ASSUME NEW evs, NEW st \in RunStatus \ {"running"}, NEW taken,
                 Written(r, HeldRecord(r), evs, st, taken)
          PROVE  CoversOf(r)'
      <4>1. status'[r] = st
        BY <3>2, NoneAssumption DEF Written, TypeOK
      <4>. QED
        BY <1>over, <3>2, <4>1
    <3>3. CASE BridgeCommits(r) /\ \E taken : Written(r, HeldRecord(r), <<cur[r]>>, None, taken)
      <4>1. bpc[r] = "commit" /\ cur[r] \in Event /\ Open(r)
        BY <3>3 DEF BridgeCommits, BridgeAt, BridgeInv, Open
      <4>2. log'[r] = Append(log[r], cur[r])
        <5>1. log'[r] = log[r] \o <<cur[r]>>
          BY <3>3 DEF Written, TypeOK
        <5>2. log[r] \in Seq(Event)
          BY DEF TypeOK
        <5>. QED
          BY <4>1, <5>1, <5>2
      <4>3. /\ StepsDone(r) \in Nat
            /\ StepsDone(r)' = IF cur[r].kind = "StepDone" THEN StepsDone(r) + 1 ELSE StepsDone(r)
        BY <4>1, <4>2, DoneGrows
      <4>4. status'[r] = status[r]
        BY <3>3 DEF Written, TypeOK
      <4>5. CASE held[r] = None
        <5>1. cur[r].kind # "StepDone"
          BY <4>1, <4>5 DEF BridgeInv
        <5>2. ckpt' = ckpt
          BY <3>3, <4>5 DEF Written, HeldRecord
        <5>. QED
          BY <4>3, <4>4, <5>1, <5>2 DEF CoversInv, CoversOf, Kept
      <4>6. CASE held[r] # None
        <5>1. held[r].record # None /\ held[r].record \in Record
          BY <4>6, NoneAssumption DEF TypeOK, PendingStep
        <5>2. ckpt' = held[r].record /\ held[r].record.run = r
          BY <3>3, <4>6, <5>1 DEF Written, HeldRecord
        <5>3. Kept(r)' /\ ckpt'.n \in Nat \ {0}
          BY <5>1, <5>2 DEF Kept, Record
        <5>4. Kept(r) => ckpt.n < ckpt'.n /\ ckpt.n \in Nat
          <6>1. Kept(r) => ckpt.n < held[r].record.n
            BY <4>1, <4>6, <5>2 DEF RecordInv, RecordOf, Holds
          <6>2. Kept(r) => ckpt.n \in Nat
            BY DEF Kept, TypeOK, Record
          <6>. QED
            BY <5>2, <6>1, <6>2
        <5>5. ASSUME status[r] = "running" PROVE ckpt'.n >= StepsDone(r)'
          <6>1. StepsDone(r) > 0 => Kept(r) /\ ckpt.n >= StepsDone(r)
            BY <5>5 DEF CoversInv, CoversOf
          <6>2. StepsDone(r)' <= StepsDone(r) + 1 /\ StepsDone(r)' \in Nat
            BY <4>3
          <6>. QED
            BY <4>3, <5>3, <5>4, <6>1, <6>2
        <5>. QED
          BY <4>4, <5>3, <5>5 DEF CoversOf
      <4>. QED
        BY <4>5, <4>6
    <3>4. /\ BridgeFinishes(r) => /\ StatusOf(cur[r].kind) \in RunStatus \ {"running"}
          /\ "error" \in RunStatus \ {"running"} /\ "cancelled" \in RunStatus \ {"running"}
      <4>1. BridgeFinishes(r) => cur[r].kind \in TerminalKinds
        BY EventFields DEF BridgeFinishes, BridgeAt, BridgeInv
      <4>. QED
        BY <4>1 DEF RunStatus, StatusOf, TerminalKinds
    <3>5. \/ UNCHANGED <<status, log, ckpt, opsAt>>
          \/ BridgeCommits(r) /\ \E taken : Written(r, HeldRecord(r), <<cur[r]>>, None, taken)
          \/ \E evs, taken : \E st \in RunStatus \ {"running"} :
                Written(r, HeldRecord(r), evs, st, taken)
      BY <1>2, <3>4, BridgeStores, Zenon
    <3>. QED
      BY <3>1, <3>2, <3>3, <3>5
  <2>. QED
    BY <2>1, <2>2 DEF CoversInv
<1>3. ASSUME NEW r \in Runs, NEW i \in Instances, Stream(r, i) PROVE CoversInv'
  <2>1. /\ status' = [status EXCEPT ![r] = "running"] /\ UNCHANGED <<log, ckpt>>
        /\ log[r] = <<>>
    BY <1>3 DEF Stream, StartInv
  <2>2. ASSUME NEW q \in Runs \ {r} PROVE CoversOf(q)'
    BY <1>same, <2>1 DEF TypeOK
  <2>3. StepsDone(r)' = 0
    <3>1. {k \in DOMAIN log'[r] : log'[r][k].kind = "StepDone"} = {}
      BY <2>1
    <3>. QED
      BY <3>1, FS_EmptySet DEF StepsDone
  <2>. QED
    BY <2>2, <2>3 DEF CoversInv, CoversOf
<1>4. ASSUME NEW r \in Runs, RenewFails(r) \/ CancelRun(r) \/ LeaseLapses(r) \/ StopListening(r)
      PROVE  CoversInv'
  BY <1>4, <1>same DEF RenewFails, CancelRun, LeaseLapses, StopListening, EnvFrame, CoversInv
<1>5. ASSUME NEW r \in Runs, Reap(r)
      PROVE  CoversInv'
  <2>1. /\ status'[r] = "error" /\ ckpt' = ckpt
        /\ \A q \in Runs \ {r} : status'[q] = status[q] /\ log'[q] = log[q]
    BY <1>5 DEF Reap, EnvFrame, TypeOK
  <2>. QED
    BY <1>same, <1>over, <2>1 DEF CoversInv
<1>6. ASSUME NEW i \in Instances, Crash(i) PROVE CoversInv'
  BY <1>6, <1>same DEF Crash, store, CoversInv
<1>7. CASE UNCHANGED vars
  BY <1>7, <1>same DEF vars, store, CoversInv
<1>. QED
  BY <1>1, <1>2, <1>3, <1>4, <1>5, <1>6, <1>7, StepOf

\* What a running run has on record: the inductive invariant of the two
\* theorems about the checkpoint.
CheckpointInv == OneRuns /\ RecordInv /\ BaseInv /\ CoversInv

LEMMA CheckpointsCorrect == Spec => []CheckpointInv
<1>1. Init => CheckpointInv
  <2>1. Init => OneRuns
    BY DEF Init, OneRuns
  <2>2. Init => RecordInv
    BY DEF Init, RecordInv, RecordOf, Holds, Open, Kept
  <2>3. Init => BaseInv /\ CoversInv
    BY DEF Init, BaseInv, BaseOf, CoversInv, CoversOf
  <2>. QED
    BY <2>1, <2>2, <2>3 DEF CheckpointInv
<1>2. TaskInv /\ TaskInv' /\ CheckpointInv /\ [Next]_vars => CheckpointInv'
  <2>1. ASSUME CheckpointInv, UNCHANGED vars PROVE CheckpointInv'
    BY SMTT(30), <2>1 DEF CheckpointInv, OneRuns, RecordInv, RecordOf, Queued, Within, BaseInv, BaseOf,
       HasRecord, Holds, Open, Kept, CoversInv, CoversOf, StepsDone, vars, store, runner, bridge
  <2>. QED
    BY <2>1, OneRunsStep, RecordStep, BaseStep, CoversStep DEF CheckpointInv
<1>. QED
  BY <1>1, <1>2, TasksCorrect, PTL DEF Spec

\* CheckpointCoversLog: as long as a run may go on, the thread's checkpoint is
\* its own and at least as far as the steps its log shows as done.
THEOREM RestartRepeatsNothing == Spec => []CheckpointCoversLog
<1>1. CheckpointInv => CheckpointCoversLog
  BY DEF CheckpointInv, CoversInv, CoversOf, CheckpointCoversLog, Kept
<1>. QED
  BY <1>1, CheckpointsCorrect, PTL

\* NoLostUpdate: a checkpoint only replaces the one its run was started from,
\* or an earlier one of its own, whatever other runs did to the thread since
\* the run loaded it.
THEOREM CheckpointsNotLost == Spec => NoLostUpdate
<1>1. ASSUME TaskInv, CheckpointInv, Next, ckpt' # ckpt
      PROVE  LET r == ckpt'.run IN
               /\ status[r] = "running"
               /\ IF ckpt # None /\ ckpt.run = r THEN ckpt'.n > ckpt.n ELSE ckpt = base[r]
  <2>1. PICK r \in Runs : Bridge(r)
    <3>1. \A r \in Runs : Runner(r) => ckpt' = ckpt
      BY <1>1, RunnerOwn DEF store
    <3>2. \A r \in Runs : RenewFails(r) \/ CancelRun(r) \/ LeaseLapses(r) \/ StopListening(r)
                          \/ Reap(r) => ckpt' = ckpt
      BY DEF RenewFails, CancelRun, LeaseLapses, StopListening, Reap, EnvFrame
    <3>3. \A r \in Runs, i \in Instances : Stream(r, i) => ckpt' = ckpt
      BY DEF Stream
    <3>4. \A i \in Instances : Crash(i) => ckpt' = ckpt
      BY DEF Crash, store
    <3>5. UNCHANGED vars => ckpt' = ckpt
      BY DEF vars, store
    <3>. QED
      BY <1>1, <3>1, <3>2, <3>3, <3>4, <3>5, StepOf
  <2>2. status[r] = "running" /\ Holds(r) /\ ckpt' = held[r].record
    BY <1>1, <2>1, BridgeCheckpoint
  <2>3. ckpt'.run = r
    BY <2>2 DEF Holds
  <2>4. Kept(r) => ckpt.n < ckpt'.n /\ ckpt.n \in Nat /\ ckpt'.n \in Nat
    <3>1. held[r].record \in Record
      BY <1>1, <2>2 DEF TaskInv, TypeOK, PendingStep, Holds
    <3>2. Kept(r) => ckpt \in Record
      BY <1>1 DEF TaskInv, TypeOK, Kept
    <3>3. \A x \in Record : x.n \in Nat
      BY DEF Record
    <3>. QED
      BY <1>1, <2>2, <3>1, <3>2, <3>3 DEF CheckpointInv, RecordInv, RecordOf
  <2>5. ~Kept(r) => ckpt = base[r]
    BY <1>1, <2>2 DEF CheckpointInv, BaseInv, BaseOf, HasRecord
  <2>. QED
    BY <2>2, <2>3, <2>4, <2>5 DEF Kept
<1>2. TaskInv /\ CheckpointInv /\ [Next]_vars =>
        [ckpt' # ckpt =>
           LET r == ckpt'.run IN
             /\ status[r] = "running"
             /\ IF ckpt # None /\ ckpt.run = r THEN ckpt'.n > ckpt.n ELSE ckpt = base[r]]_vars
  BY <1>1 DEF vars, store
<1>. QED
  BY <1>2, TasksCorrect, CheckpointsCorrect, PTL DEF Spec, NoLostUpdate

-----------------------------------------------------------------------------
(* The events of a run on their way from the runner to the log.            *)

\* The step events of F go on from turn b, one after the other, ...
InTurn(F, b) ==
  \A i \in Steps(F) :
    /\ b < Turn(F[i])
    /\ Turn(F[i]) = b + 1 \/ \E j \in Steps(F) : j < i /\ Turn(F[j]) = Turn(F[i]) - 1
    /\ \A j \in Steps(F) : i < j => Turn(F[i]) < Turn(F[j])

\* ... as far as turn s.
UpTo(F, b, s) ==
  /\ s = b \/ \E j \in Steps(F) : Turn(F[j]) = s
  /\ \A j \in Steps(F) : Turn(F[j]) <= s

\* A final step is followed by the terminal event at most, and nothing follows
\* that; Done and Interrupt come right after a final step.
Ending(F) ==
  /\ \A i \in DOMAIN F : IsFinal(F[i]) => \A j \in DOMAIN F : i < j => IsTerminal(F[j])
  /\ \A i \in DOMAIN F : IsTerminal(F[i]) => i = Len(F)
  /\ \A i \in DOMAIN F : F[i].kind \in {"Done", "Interrupt"} => i > 1 /\ IsFinal(F[i - 1])

LEMMA TurnType ==
  \A e \in Event : IsStep(e) => Turn(e) \in Nat
BY EventFields, ConstantsAssumption DEF IsStep, Turn

\* The positions of an extended sequence.
LEMMA Extended ==
  ASSUME NEW F \in Seq(Event), NEW e \in Event
  PROVE  /\ Append(F, e) \in Seq(Event) /\ Len(F) \in Nat
         /\ DOMAIN F = 1..Len(F) /\ Len(Append(F, e)) = Len(F) + 1
         /\ DOMAIN Append(F, e) = DOMAIN F \cup {Len(F) + 1}
         /\ Append(F, e)[Len(F) + 1] = e
         /\ \A i \in DOMAIN F : Append(F, e)[i] = F[i] /\ F[i] \in Event
         /\ Steps(F) \in SUBSET (1..Len(F))
         /\ Steps(Append(F, e)) = IF IsStep(e) THEN Steps(F) \cup {Len(F) + 1} ELSE Steps(F)
<1>1. /\ Append(F, e) \in Seq(Event) /\ Len(F) \in Nat
      /\ DOMAIN F = 1..Len(F) /\ Len(Append(F, e)) = Len(F) + 1
      /\ DOMAIN Append(F, e) = DOMAIN F \cup {Len(F) + 1}
      /\ Append(F, e)[Len(F) + 1] = e
      /\ \A i \in DOMAIN F : Append(F, e)[i] = F[i] /\ F[i] \in Event
  OBVIOUS
<1>2. Steps(F) \in SUBSET (1..Len(F))
  BY <1>1 DEF Steps
<1>3. Steps(Append(F, e)) = IF IsStep(e) THEN Steps(F) \cup {Len(F) + 1} ELSE Steps(F)
  BY <1>1 DEF Steps
<1>. QED
  BY <1>1, <1>2, <1>3

LEMMA TurnGrows ==
  ASSUME NEW F \in Seq(Event), NEW e \in Event, NEW b \in Nat, NEW s \in Nat,
         InTurn(F, b), UpTo(F, b, s), IsStep(e) => Turn(e) = s + 1
  PROVE  /\ InTurn(Append(F, e), b)
         /\ IsStep(e) => UpTo(Append(F, e), b, s + 1)
         /\ ~IsStep(e) => UpTo(Append(F, e), b, s)
<1>. DEFINE A == Append(F, e)
            n == Len(F) + 1
<1>1. /\ n \in Nat /\ A[n] = e
      /\ \A i \in Steps(F) : A[i] = F[i] /\ Turn(F[i]) \in Nat /\ i \in Nat /\ i < n
      /\ Steps(A) = IF IsStep(e) THEN Steps(F) \cup {n} ELSE Steps(F)
  BY Extended, TurnType DEF Steps
<1>. HIDE DEF A, n
<1>2. b <= s
  BY <1>1 DEF UpTo, InTurn
<1>3. CASE ~IsStep(e)
  <2>1. Steps(A) = Steps(F)
    BY <1>1, <1>3
  <2>2. InTurn(A, b)
    BY <1>1, <2>1 DEF InTurn
  <2>3. UpTo(A, b, s)
    BY <1>1, <2>1 DEF UpTo
  <2>. QED
    BY <1>3, <2>2, <2>3 DEF A
<1>4. CASE IsStep(e)
  <2>1. Steps(A) = Steps(F) \cup {n} /\ Turn(A[n]) = s + 1
    BY <1>1, <1>4
  <2>2. InTurn(A, b)
    <3>1. ASSUME NEW i \in Steps(F)
          PROVE  /\ b < Turn(A[i])
                 /\ Turn(A[i]) = b + 1 \/ \E j \in Steps(A) : j < i /\ Turn(A[j]) = Turn(A[i]) - 1
                 /\ \A j \in Steps(A) : i < j => Turn(A[i]) < Turn(A[j])
      <4>1. \A j \in Steps(F) : A[j] = F[j]
        BY <1>1
      <4>2. Turn(A[i]) < Turn(A[n])
        <5>1. Turn(F[i]) <= s /\ Turn(F[i]) \in Nat /\ A[i] = F[i]
          BY <1>1 DEF UpTo
        <5>. QED
          BY <2>1, <5>1
      <4>. QED
        BY <2>1, <4>1, <4>2 DEF InTurn
    <3>2. /\ b < Turn(A[n])
          /\ Turn(A[n]) = b + 1 \/ \E j \in Steps(A) : j < n /\ Turn(A[j]) = Turn(A[n]) - 1
          /\ \A j \in Steps(A) : n < j => Turn(A[n]) < Turn(A[j])
      <4>1. b < Turn(A[n])
        BY <1>2, <2>1
      <4>2. Turn(A[n]) = b + 1 \/ \E j \in Steps(A) : j < n /\ Turn(A[j]) = Turn(A[n]) - 1
        BY <1>1, <2>1 DEF UpTo
      <4>3. \A j \in Steps(A) : ~(n < j)
        BY <1>1, <2>1
      <4>. QED
        BY <4>1, <4>2, <4>3
    <3>. QED
      BY <2>1, <3>1, <3>2 DEF InTurn
  <2>3. UpTo(A, b, s + 1)
    <3>1. \A j \in Steps(F) : Turn(A[j]) <= s + 1
      BY <1>1 DEF UpTo
    <3>. QED
      BY <2>1, <3>1 DEF UpTo
  <2>. QED
    BY <1>4, <2>2, <2>3 DEF A
<1>. QED
  BY <1>3, <1>4

LEMMA TurnShrinks ==
  ASSUME NEW F \in Seq(Event), F # <<>>, NEW b \in Nat, InTurn(F, b)
  PROVE  /\ IsStep(Head(F)) => /\ Turn(Head(F)) = b + 1
                               /\ InTurn(Tail(F), b + 1)
                               /\ \A s \in Nat : UpTo(F, b, s) => UpTo(Tail(F), b + 1, s)
         /\ ~IsStep(Head(F)) => /\ InTurn(Tail(F), b)
                                /\ \A s \in Nat : UpTo(F, b, s) => UpTo(Tail(F), b, s)
<1>. DEFINE T == Tail(F)
<1>1. /\ F[1] = Head(F) /\ Steps(F) \in SUBSET (Nat \ {0})
      /\ IsStep(Head(F)) <=> 1 \in Steps(F)
      /\ \A i \in Steps(T) : i \in Nat \ {0} /\ i + 1 \in Steps(F) /\ T[i] = F[i + 1]
      /\ \A i \in Steps(F) : i # 1 => i - 1 \in Steps(T) /\ T[i - 1] = F[i]
      /\ \A i \in Steps(F) : Turn(F[i]) \in Nat
  <2>1. /\ F[1] = Head(F) /\ DOMAIN F = 1..Len(F) /\ Len(F) \in Nat \ {0}
        /\ T \in Seq(Event) /\ Len(T) = Len(F) - 1 /\ DOMAIN T = 1..Len(T)
        /\ \A i \in DOMAIN T : T[i] = F[i + 1]
        /\ \A i \in DOMAIN F : F[i] \in Event
    BY HeadTail
  <2>. HIDE DEF T
  <2>2. /\ \A i \in Steps(T) : i \in Nat \ {0} /\ i + 1 \in Steps(F) /\ T[i] = F[i + 1]
        /\ Steps(F) \in SUBSET (Nat \ {0})
        /\ IsStep(Head(F)) <=> 1 \in Steps(F)
    BY <2>1 DEF Steps
  <2>3. ASSUME NEW i \in Steps(F), i # 1
        PROVE  i - 1 \in Steps(T) /\ T[i - 1] = F[i]
    <3>1. i \in 1..Len(F) /\ i - 1 \in DOMAIN T /\ (i - 1) + 1 = i
      BY <2>1, <2>3 DEF Steps
    <3>. QED
      BY <2>1, <3>1 DEF Steps
  <2>4. \A i \in Steps(F) : Turn(F[i]) \in Nat
    BY <2>1, TurnType DEF Steps
  <2>. QED
    BY <2>1, <2>2, <2>3, <2>4
<1>. HIDE DEF T
<1>2. CASE IsStep(Head(F))
  <2>1. Turn(F[1]) = b + 1
    BY <1>1, <1>2 DEF InTurn
  <2>2. ASSUME NEW i \in Steps(T)
        PROVE  /\ b + 1 < Turn(T[i])
               /\ \/ Turn(T[i]) = b + 2
                  \/ \E j \in Steps(T) : j < i /\ Turn(T[j]) = Turn(T[i]) - 1
               /\ \A j \in Steps(T) : i < j => Turn(T[i]) < Turn(T[j])
    <3>1. i + 1 \in Steps(F) /\ T[i] = F[i + 1] /\ 1 < i + 1
      BY <1>1
    <3>2. b + 1 < Turn(T[i])
      BY <1>1, <1>2, <2>1, <3>1 DEF InTurn
    <3>3. PICK j \in Steps(F) : j < i + 1 /\ Turn(F[j]) = Turn(F[i + 1]) - 1
      BY <1>1, <3>1, <3>2 DEF InTurn
    <3>4. \/ Turn(T[i]) = b + 2
          \/ \E k \in Steps(T) : k < i /\ Turn(T[k]) = Turn(T[i]) - 1
      <4>1. CASE j = 1
        BY <1>1, <2>1, <3>1, <3>3, <4>1
      <4>2. CASE j # 1
        BY <1>1, <3>1, <3>3, <4>2
      <4>. QED
        BY <4>1, <4>2
    <3>5. ASSUME NEW k \in Steps(T), i < k
          PROVE  Turn(T[i]) < Turn(T[k])
      BY <1>1, <3>1, <3>5 DEF InTurn
    <3>. QED
      BY <3>2, <3>4, <3>5
  <2>3. ASSUME NEW s \in Nat, UpTo(F, b, s)
        PROVE  UpTo(T, b + 1, s)
    <3>1. \A j \in Steps(T) : Turn(T[j]) <= s
      BY <1>1, <2>3 DEF UpTo
    <3>2. PICK j \in Steps(F) : Turn(F[j]) = s
      BY <1>1, <1>2, <2>1, <2>3 DEF UpTo
    <3>. QED
      BY <1>1, <2>1, <3>1, <3>2 DEF UpTo
  <2>4. InTurn(T, b + 1)
    BY <2>2 DEF InTurn
  <2>. QED
    BY <1>1, <1>2, <2>1, <2>3, <2>4 DEF T
<1>3. CASE ~IsStep(Head(F))
  <2>1. \A i \in Steps(F) : i # 1
    BY <1>1, <1>3
  <2>2. ASSUME NEW i \in Steps(T)
        PROVE  /\ b < Turn(T[i])
               /\ \/ Turn(T[i]) = b + 1
                  \/ \E j \in Steps(T) : j < i /\ Turn(T[j]) = Turn(T[i]) - 1
               /\ \A j \in Steps(T) : i < j => Turn(T[i]) < Turn(T[j])
    <3>1. i + 1 \in Steps(F) /\ T[i] = F[i + 1]
      BY <1>1
    <3>2. b < Turn(T[i])
      BY <1>1, <3>1 DEF InTurn
    <3>3. \/ Turn(T[i]) = b + 1
          \/ \E j \in Steps(T) : j < i /\ Turn(T[j]) = Turn(T[i]) - 1
      <4>1. ASSUME NEW j \in Steps(F), j < i + 1, Turn(F[j]) = Turn(F[i + 1]) - 1
            PROVE  j - 1 \in Steps(T) /\ j - 1 < i /\ Turn(T[j - 1]) = Turn(T[i]) - 1
        BY <1>1, <2>1, <3>1, <4>1
      <4>. QED
        BY <3>1, <4>1 DEF InTurn
    <3>4. ASSUME NEW k \in Steps(T), i < k
          PROVE  Turn(T[i]) < Turn(T[k])
      BY <1>1, <3>1, <3>4 DEF InTurn
    <3>. QED
      BY <3>2, <3>3, <3>4
  <2>3. InTurn(T, b)
    BY <2>2 DEF InTurn
  <2>4. ASSUME NEW s \in Nat, UpTo(F, b, s)
        PROVE  UpTo(T, b, s)
    BY <1>1, <2>1, <2>4 DEF UpTo
  <2>. QED
    BY <1>3, <2>3, <2>4 DEF T
<1>. QED
  BY <1>2, <1>3

LEMMA EndGrows ==
  ASSUME NEW F \in Seq(Event), NEW e \in Event, Ending(F),
         \A i \in DOMAIN F : ~IsTerminal(F[i]) /\ (IsFinal(F[i]) => IsTerminal(e)),
         e.kind \in {"Done", "Interrupt"} => F # <<>> /\ IsFinal(F[Len(F)])
  PROVE  Ending(Append(F, e))
<1>. DEFINE A == Append(F, e)
            n == Len(F)
<1>1. /\ n \in Nat /\ DOMAIN F = 1..n /\ A[n + 1] = e /\ DOMAIN A = 1..(n + 1)
      /\ \A i \in 1..n : A[i] = F[i]
      /\ Len(A) = n + 1 /\ (F # <<>> => n > 0)
  BY Extended
<1>2. IsFinal(e) => ~IsTerminal(e)
  BY EventSorts
<1>. HIDE DEF A, n
<1>3. \A i \in DOMAIN A : IsFinal(A[i]) => \A j \in DOMAIN A : i < j => IsTerminal(A[j])
  BY <1>1 DEF Ending
<1>4. \A i \in DOMAIN A : IsTerminal(A[i]) => i = Len(A)
  BY <1>1
<1>5. \A i \in DOMAIN A : A[i].kind \in {"Done", "Interrupt"} => i > 1 /\ IsFinal(A[i - 1])
  <2>1. ASSUME NEW i \in 1..n, A[i].kind \in {"Done", "Interrupt"}
        PROVE  FALSE
    BY <1>1, <2>1 DEF IsTerminal, TerminalKinds
  <2>2. e.kind \in {"Done", "Interrupt"} => n > 0 /\ IsFinal(F[n])
    BY <1>1 DEF n
  <2>3. n > 0 => A[n] = F[n] /\ n + 1 > 1 /\ (n + 1) - 1 = n
    BY <1>1
  <2>4. \A i \in DOMAIN A : i \in 1..n \/ i = n + 1
    BY <1>1
  <2>. QED
    BY <1>1, <2>1, <2>2, <2>3, <2>4
<1>. QED
  BY <1>3, <1>4, <1>5 DEF Ending, A

LEMMA EndShrinks ==
  ASSUME NEW F \in Seq(Event), F # <<>>, Ending(F), ~IsFinal(Head(F))
  PROVE  Ending(Tail(F))
<1>. DEFINE T == Tail(F)
<1>1. /\ F[1] = Head(F) /\ DOMAIN F = 1..Len(F) /\ Len(F) \in Nat \ {0}
      /\ Len(T) = Len(F) - 1 /\ DOMAIN T = 1..Len(T)
      /\ \A i \in DOMAIN T : i \in Nat \ {0} /\ i + 1 \in DOMAIN F /\ T[i] = F[i + 1]
  BY HeadTail
<1>. HIDE DEF T
<1>2. ASSUME NEW i \in DOMAIN T, IsFinal(T[i]), NEW j \in DOMAIN T, i < j
      PROVE  IsTerminal(T[j])
  BY <1>1, <1>2 DEF Ending
<1>3. ASSUME NEW i \in DOMAIN T, IsTerminal(T[i])
      PROVE  i = Len(T)
  BY <1>1, <1>3 DEF Ending
<1>4. ASSUME NEW i \in DOMAIN T, T[i].kind \in {"Done", "Interrupt"}
      PROVE  i > 1 /\ IsFinal(T[i - 1])
  <2>1. i + 1 > 1 /\ IsFinal(F[(i + 1) - 1]) /\ (i + 1) - 1 = i
    BY <1>1, <1>4 DEF Ending
  <2>2. i # 1
    BY <1>1, <2>1
  <2>3. i - 1 \in DOMAIN T /\ (i - 1) + 1 = i
    BY <1>1, <2>2
  <2>. QED
    BY <1>1, <2>1, <2>2, <2>3
<1>. QED
  BY <1>2, <1>3, <1>4 DEF Ending, T

\* What is on its way, F, fits a log of b step events and a runner at pc that has
\* sent s step events and, once it is at "term", ends with res.
Fits(F, b, s, pc, res) ==
  /\ InTurn(F, b) /\ Ending(F)
  /\ pc \notin {"term", "done"} => UpTo(F, b, s) /\ \A i \in DOMAIN F : ~IsFinal(F[i])
  /\ pc # "done" => \A i \in DOMAIN F : ~IsTerminal(F[i])
  /\ pc = "term" /\ res \in {"Done", "Interrupt"} => F # <<>> /\ IsFinal(F[Len(F)])

\* The runner sends a step event or another event before its last step, ...
LEMMA FitsEvent ==
  ASSUME NEW F \in Seq(Event), NEW e \in Event, NEW b \in Nat, NEW s \in Nat, NEW t \in Nat,
         NEW pc, NEW npc, NEW res, NEW nres, pc \notin {"term", "done"}, npc \notin {"term", "done"},
         Fits(F, b, s, pc, res), ~IsFinal(e), ~IsTerminal(e),
         IsStep(e) => Turn(e) = s + 1 /\ t = s + 1,
         ~IsStep(e) => t = s
  PROVE  Fits(Append(F, e), b, t, npc, nres)
<1>1. /\ InTurn(Append(F, e), b) /\ UpTo(Append(F, e), b, t)
  BY TurnGrows DEF Fits
<1>2. Ending(Append(F, e))
  <2>1. e.kind \notin {"Done", "Interrupt"}
    BY DEF IsTerminal, TerminalKinds
  <2>. QED
    BY <2>1, EndGrows DEF Fits
<1>3. \A i \in DOMAIN Append(F, e) : ~IsFinal(Append(F, e)[i]) /\ ~IsTerminal(Append(F, e)[i])
  BY Extended DEF Fits
<1>. QED
  BY <1>1, <1>2, <1>3 DEF Fits

\* ... its last step, ...
LEMMA FitsFinal ==
  ASSUME NEW F \in Seq(Event), NEW e \in Event, NEW b \in Nat, NEW s \in Nat, NEW t,
         NEW pc, NEW res, NEW nres, pc \notin {"term", "done"},
         Fits(F, b, s, pc, res), IsFinal(e), Turn(e) = s + 1
  PROVE  Fits(Append(F, e), b, t, "term", nres)
<1>1. InTurn(Append(F, e), b)
  <2>1. InTurn(F, b) /\ UpTo(F, b, s) /\ (IsStep(e) => Turn(e) = s + 1)
    BY DEF Fits
  <2>. QED
    BY <2>1, TurnGrows, Zenon
<1>2. ~IsTerminal(e) /\ e.kind \notin {"Done", "Interrupt"}
  BY EventSorts DEF IsFinal
<1>3. Ending(Append(F, e))
  BY <1>2, EndGrows DEF Fits
<1>4. /\ \A i \in DOMAIN Append(F, e) : ~IsTerminal(Append(F, e)[i])
      /\ Append(F, e) # <<>> /\ IsFinal(Append(F, e)[Len(Append(F, e))])
  BY <1>2, Extended DEF Fits
<1>. QED
  BY <1>1, <1>3, <1>4 DEF Fits

\* ... or the terminal event.
LEMMA FitsLast ==
  ASSUME NEW F \in Seq(Event), NEW kind \in TerminalKinds, NEW b \in Nat, NEW s, NEW t, NEW nres,
         Fits(F, b, s, "term", kind)
  PROVE  Fits(Append(F, Terminal(kind)), b, t, "done", nres)
<1>. DEFINE e == Terminal(kind)
<1>1. e \in Event /\ e.kind = kind /\ IsTerminal(e) /\ ~IsStep(e)
  BY EventsMade, EventSorts DEF IsStep, TerminalKinds
<1>. HIDE DEF e
<1>2. InTurn(Append(F, e), b)
  <2>. DEFINE A == Append(F, e)
  <2>1. Steps(A) = Steps(F) /\ \A i \in Steps(F) : A[i] = F[i]
    BY <1>1, Extended DEF Steps
  <2>. HIDE DEF A
  <2>2. InTurn(A, b)
    BY <2>1 DEF InTurn, Fits
  <2>. QED
    BY <2>2 DEF A
<1>3. Ending(Append(F, e))
  BY <1>1, EndGrows DEF Fits
<1>. QED
  BY <1>2, <1>3 DEF Fits, e

\* The bridge takes the next event out and commits it.
LEMMA FitsTail ==
  ASSUME NEW F \in Seq(Event), F # <<>>, NEW b \in Nat, NEW s \in Nat, NEW pc, NEW res,
         Fits(F, b, s, pc, res), ~IsFinal(Head(F))
  PROVE  /\ IsStep(Head(F)) => Turn(Head(F)) = b + 1 /\ Fits(Tail(F), b + 1, s, pc, res)
         /\ ~IsStep(Head(F)) => Fits(Tail(F), b, s, pc, res)
<1>1. Ending(Tail(F))
  BY EndShrinks DEF Fits
<1>2. /\ \A i \in DOMAIN Tail(F) : i + 1 \in DOMAIN F /\ Tail(F)[i] = F[i + 1]
      /\ F[1] = Head(F) /\ Tail(F) \in Seq(Event) /\ Len(Tail(F)) = Len(F) - 1 /\ Len(F) \in Nat \ {0}
  BY HeadTail
<1>3. /\ pc \notin {"term", "done"} => \A i \in DOMAIN Tail(F) : ~IsFinal(Tail(F)[i])
      /\ pc # "done" => \A i \in DOMAIN Tail(F) : ~IsTerminal(Tail(F)[i])
  BY <1>2 DEF Fits
<1>4. pc = "term" /\ res \in {"Done", "Interrupt"} =>
        Tail(F) # <<>> /\ IsFinal(Tail(F)[Len(Tail(F))])
  <2>1. CASE Len(F) = 1
    BY <1>2, <2>1 DEF Fits
  <2>2. CASE Len(F) > 1
    <3>1. Tail(F) # <<>> /\ Len(Tail(F)) \in DOMAIN Tail(F) /\ Len(Tail(F)) + 1 = Len(F)
      BY <1>2, <2>2
    <3>. QED
      BY <1>2, <3>1 DEF Fits
  <2>. QED
    BY <1>2, <2>1, <2>2
<1>5. /\ IsStep(Head(F)) => /\ Turn(Head(F)) = b + 1 /\ InTurn(Tail(F), b + 1)
                            /\ UpTo(F, b, s) => UpTo(Tail(F), b + 1, s)
      /\ ~IsStep(Head(F)) => /\ InTurn(Tail(F), b)
                             /\ UpTo(F, b, s) => UpTo(Tail(F), b, s)
  BY TurnShrinks DEF Fits
<1>. QED
  BY <1>1, <1>3, <1>4, <1>5 DEF Fits

-----------------------------------------------------------------------------
(* The step events of a log.                                               *)

Dones(l) == Cardinality({i \in DOMAIN l : l[i].kind = "StepDone"})

\* They are there in turn.
Ordered(l) ==
  /\ \A i \in Steps(l) : Turn(l[i]) = Rank(Steps(l), i)
  /\ Cardinality(Steps(l)) \in {2 * Dones(l), 2 * Dones(l) + 1}

LEMMA OrderedGrows ==
  ASSUME NEW l \in Seq(Event), NEW e \in Event, Ordered(l),
         IsStep(e) => Turn(e) = Cardinality(Steps(l)) + 1
  PROVE  /\ Ordered(Append(l, e))
         /\ Cardinality(Steps(l)) \in Nat /\ Dones(l) \in Nat
         /\ IsStep(e) => Cardinality(Steps(Append(l, e))) = Cardinality(Steps(l)) + 1
         /\ ~IsStep(e) => Cardinality(Steps(Append(l, e))) = Cardinality(Steps(l))
         /\ e.kind = "StepDone" => Dones(Append(l, e)) = Dones(l) + 1
         /\ e.kind # "StepDone" => Dones(Append(l, e)) = Dones(l)
<1>. DEFINE A == Append(l, e)
            n == Len(l)
            D == {i \in DOMAIN l : l[i].kind = "StepDone"}
            S == Steps(l)
<1>1. /\ n \in Nat /\ DOMAIN l = 1..n /\ A[n + 1] = e /\ DOMAIN A = 1..(n + 1)
      /\ \A i \in 1..n : A[i] = l[i]
      /\ Steps(A) = IF IsStep(e) THEN S \cup {n + 1} ELSE S
      /\ S \in SUBSET (1..n) /\ D \in SUBSET (1..n)
  BY Extended
<1>2. /\ Cardinality(S) \in Nat /\ Cardinality(S \cup {n + 1}) = Cardinality(S) + 1
      /\ \A i \in 1..n : Rank(S \cup {n + 1}, i) = Rank(S, i)
      /\ Rank(S \cup {n + 1}, n + 1) = Cardinality(S) + 1
  BY <1>1, RankGrows, Zenon
<1>3. Cardinality(D) \in Nat /\ Cardinality(D \cup {n + 1}) = Cardinality(D) + 1
  BY <1>1, RankGrows, Zenon
<1>4. {i \in DOMAIN A : A[i].kind = "StepDone"} =
        IF e.kind = "StepDone" THEN D \cup {n + 1} ELSE D
  <2>. HIDE DEF A, n
  <2>. QED
    BY <1>1
<1>5. Dones(A) = IF e.kind = "StepDone" THEN Dones(l) + 1 ELSE Dones(l)
  BY <1>3, <1>4 DEF Dones
<1>6. Dones(l) = Cardinality(D)
  BY DEF Dones
<1>. HIDE DEF A, n, D
<1>7. CASE IsStep(e)
  <2>1. Steps(A) = S \cup {n + 1} /\ Turn(e) = Cardinality(S) + 1
    BY <1>1, <1>7
  <2>2. \A i \in Steps(A) : Turn(A[i]) = Rank(Steps(A), i)
    <3>1. \A i \in S : Turn(A[i]) = Rank(S \cup {n + 1}, i)
      BY <1>1, <1>2 DEF Ordered
    <3>2. Turn(A[n + 1]) = Rank(S \cup {n + 1}, n + 1)
      BY <1>1, <1>2, <2>1
    <3>. QED
      BY <2>1, <3>1, <3>2
  <2>3. Cardinality(Steps(A)) \in {2 * Dones(A), 2 * Dones(A) + 1}
    <3>1. Cardinality(Steps(A)) = Cardinality(S) + 1
      BY <1>2, <2>1
    <3>2. e.n \in Nat /\ e.kind \in {"StepStart", "StepDone"}
      BY <1>7, EventFields, ConstantsAssumption DEF IsStep
    <3>3. Cardinality(S) \in {2 * Dones(l), 2 * Dones(l) + 1} /\ Dones(l) \in Nat
      BY <1>3, <1>6 DEF Ordered
    <3>4. CASE e.kind = "StepStart"
      <4>1. 2 * e.n - 1 = Cardinality(S) + 1 /\ Dones(A) = Dones(l)
        BY <1>5, <2>1, <3>4 DEF Turn
      <4>. QED
        BY <1>2, <3>1, <3>2, <3>3, <4>1
    <3>5. CASE e.kind = "StepDone"
      <4>1. 2 * e.n = Cardinality(S) + 1 /\ Dones(A) = Dones(l) + 1
        BY <1>5, <2>1, <3>5 DEF Turn
      <4>. QED
        BY <1>2, <3>1, <3>2, <3>3, <4>1
    <3>. QED
      BY <3>2, <3>4, <3>5
  <2>. QED
    BY <1>2, <1>3, <1>5, <1>6, <1>7, <2>1, <2>2, <2>3 DEF Ordered, A
<1>8. CASE ~IsStep(e)
  <2>1. Steps(A) = S /\ Dones(A) = Dones(l)
    BY <1>1, <1>5, <1>8 DEF IsStep
  <2>2. \A i \in S : A[i] = l[i]
    BY <1>1
  <2>. QED
    BY <1>2, <1>3, <1>6, <1>8, <2>1, <2>2 DEF Ordered, A, IsStep
<1>. QED
  BY <1>7, <1>8

-----------------------------------------------------------------------------
(* What is on its way.                                                     *)

\* As long as its bridge may still commit the run's own terminal event.
Live(r) == bpc[r] \in {"recv", "select", "take", "commit", "send", "finish"}

\* What the bridge has in hand and has not committed, and with it all that was
\* sent and is not in the log.
Hand(r) == IF bpc[r] = "commit" THEN <<cur[r]>>
           ELSE HeldEvents(r) \o (IF bpc[r] \in {"take", "finish"} THEN <<cur[r]>> ELSE <<>>)
Flow(r) == Hand(r) \o raw[r]

\* The turn of the last step event a runner has sent.
Sent(r) == IF rpc[r] \in {"trans", "acted", "save", "fin"} THEN 2 * count[r] - 1
                                                          ELSE 2 * count[r]

\* How far the log has got.
Cnt(r) == Cardinality(Steps(log[r]))

FlowOf(r) ==
  /\ Ordered(log[r])
  /\ bpc[r] = "off" => raw[r] = <<>> /\ held[r] = None
  /\ Live(r) => Fits(Flow(r), Cnt(r), Sent(r), rpc[r], result[r])
  /\ bpc[r] = "send" => held[r] = None
  /\ bpc[r] = "commit" /\ held[r] # None => held[r].event = cur[r]
  /\ bpc[r] \in {"fail", "cancel", "cancelled"} /\ held[r] # None =>
       Turn(held[r].event) = Cnt(r) + 1
FlowInv == \A r \in Runs : FlowOf(r)

LEMMA FlowType ==
  ASSUME TaskInv, NEW r \in Runs
  PROVE  /\ Hand(r) \in Seq(Event) /\ Flow(r) \in Seq(Event) /\ raw[r] \in Seq(Event)
         /\ HeldEvents(r) \in Seq(Event) /\ log[r] \in Seq(Event)
         /\ Cnt(r) \in Nat /\ Sent(r) \in Nat
<1>. USE DEF TaskInv
<1>1. HeldEvents(r) \in Seq(Event) /\ raw[r] \in Seq(Event) /\ log[r] \in Seq(Event)
  BY DEF TypeOK, PendingStep, HeldEvents
<1>2. bpc[r] \in {"take", "finish", "commit"} => <<cur[r]>> \in Seq(Event)
  BY DEF BridgeInv
<1>3. <<>> \in Seq(Event)
  OBVIOUS
<1>4. Hand(r) \in Seq(Event)
  <2>1. CASE bpc[r] = "commit"
    BY <1>2, <2>1 DEF Hand
  <2>2. CASE bpc[r] \in {"take", "finish"}
    <3>1. HeldEvents(r) \o <<cur[r]>> \in Seq(Event)
      BY <1>1, <1>2, <2>2
    <3>. QED
      BY <2>2, <3>1 DEF Hand
  <2>3. CASE bpc[r] \notin {"take", "finish", "commit"}
    <3>1. HeldEvents(r) \o <<>> \in Seq(Event)
      BY <1>1, <1>3
    <3>. QED
      BY <2>3, <3>1 DEF Hand
  <2>. QED
    BY <2>1, <2>2, <2>3
<1>5. Flow(r) \in Seq(Event)
  BY <1>1, <1>4 DEF Flow
<1>6. Cnt(r) \in Nat
  <2>1. Steps(log[r]) \in SUBSET (1..Len(log[r])) /\ Len(log[r]) \in Nat
    BY <1>1 DEF Steps
  <2>. QED
    BY <2>1, RankGrows DEF Cnt
<1>7. Sent(r) \in Nat
  BY ConstantsAssumption DEF Sent, RunnerInv, TypeOK
<1>. QED
  BY <1>1, <1>4, <1>5, <1>6, <1>7

\* What a step of a runner sends, and how far it gets.
LEMMA RunnerSends ==
  ASSUME TaskInv, NEW r \in Runs, Runner(r), bpc[r] # "done"
  PROVE  \/ /\ rpc[r] \notin {"term", "done"} /\ raw'[r] = raw[r]
            /\ \/ rpc'[r] = "term" /\ result'[r] \in {"Cancel", "Fail"}
               \/ rpc'[r] \notin {"term", "done"} /\ Sent(r)' = Sent(r)
         \/ \E e \in Event :
              /\ rpc[r] \notin {"term", "done"} /\ raw'[r] = Append(raw[r], e)
              /\ \/ /\ rpc'[r] \notin {"term", "done"} /\ ~IsFinal(e) /\ ~IsTerminal(e)
                    /\ IsStep(e) => Turn(e) = Sent(r) + 1 /\ Sent(r)' = Sent(r) + 1
                    /\ ~IsStep(e) => Sent(r)' = Sent(r)
                 \/ /\ rpc[r] = "fin" /\ rpc'[r] = "term" /\ IsFinal(e)
                    /\ Turn(e) = Sent(r) + 1 /\ e.n = count[r]
         \/ /\ rpc[r] = "term" /\ rpc'[r] = "done" /\ result[r] \in TerminalKinds
            /\ raw'[r] = Append(raw[r], Terminal(result[r]))
<1>. USE DEF TaskInv
<1>inv. RunnerInv /\ TypeOK
  OBVIOUS
<1>return. ASSUME NEW kind, Return(r, kind)
           PROVE  rpc'[r] = "term" /\ result'[r] = kind
  BY <1>return DEF Return, TypeOK
<1>send. ASSUME NEW e, Send(r, e)
         PROVE  raw'[r] = Append(raw[r], e)
  BY <1>send DEF Send, TypeOK
<1>1. ~RunnerQuits(r)
  BY DEF RunnerQuits, ReceiverGone
<1>2. CASE RunnerOpens(r)
  <2>1. rpc[r] = "open" /\ rpc'[r] = "lock" /\ count' = count /\ raw'[r] = Append(raw[r], Started)
    BY <1>inv, <1>2, <1>send DEF RunnerOpens, RunnerAt, TypeOK
  <2>2. Started \in Event /\ ~IsFinal(Started) /\ ~IsTerminal(Started) /\ ~IsStep(Started)
    BY EventsMade DEF Started, IsFinal, IsTerminal, IsStep, TerminalKinds
  <2>3. Sent(r)' = Sent(r)
    BY <2>1 DEF Sent
  <2>. QED
    BY <2>1, <2>2, <2>3
<1>3. CASE RunnerBeats(r)
  <2>1. /\ rpc[r] \in {"lock", "trans", "acted"} /\ rpc' = rpc /\ count' = count
        /\ raw'[r] = Append(raw[r], Beat)
    BY <1>inv, <1>3, <1>send DEF RunnerBeats, InSelect, InTransition, RunnerAt
  <2>2. Beat \in Event /\ ~IsFinal(Beat) /\ ~IsTerminal(Beat) /\ ~IsStep(Beat)
    BY EventsMade DEF Beat, IsFinal, IsTerminal, IsStep, TerminalKinds
  <2>3. Sent(r)' = Sent(r)
    BY <2>1 DEF Sent
  <2>. QED
    BY <2>1, <2>2, <2>3
<1>4. CASE RunnerLocks(r)
  <2>1. rpc[r] = "lock" /\ UNCHANGED <<count, raw>>
    BY <1>4 DEF RunnerLocks, RunnerAt
  <2>2. CASE cancel[r]
    <3>1. Return(r, "Cancel")
      BY <1>4, <2>2, Zenon DEF RunnerLocks
    <3>. QED
      BY <1>return, <2>1, <3>1
  <2>3. CASE ~cancel[r]
    <3>1. rpc' = [rpc EXCEPT ![r] = "load"]
      BY <1>4, <2>3, Zenon DEF RunnerLocks
    <3>. QED
      BY <1>inv, <2>1, <3>1 DEF Sent, TypeOK
  <2>. QED
    BY <2>2, <2>3
<1>5. CASE RunnerCancelled(r)
  BY <1>return, <1>5 DEF RunnerCancelled, InSelect, InTransition, RunnerAt
<1>6. CASE RunnerLoads(r)
  <2>1. rpc[r] = "load" /\ UNCHANGED <<count, raw>>
    BY <1>6 DEF RunnerLoads, RunnerAt
  <2>2. CASE Return(r, "Fail")
    BY <1>return, <2>1, <2>2
  <2>3. CASE rpc' = [rpc EXCEPT ![r] = "step"]
    BY <1>inv, <2>1, <2>3 DEF Sent, TypeOK
  <2>. QED
    BY <1>6, <2>2, <2>3 DEF RunnerLoads
<1>7. CASE RunnerSteps(r)
  <2>1. rpc[r] = "step"
    BY <1>7 DEF RunnerSteps, RunnerAt
  <2>2. CASE count[r] = MaxSteps
    <3>1. Return(r, "Fail") /\ raw' = raw
      BY <1>7, <2>2, Zenon DEF RunnerSteps
    <3>. QED
      BY <1>return, <2>1, <3>1
  <2>3. CASE count[r] # MaxSteps
    <3>. DEFINE k == count[r] + 1
    <3>1. /\ Send(r, StepStart(k)) /\ count' = [count EXCEPT ![r] = @ + 1]
          /\ rpc' = [rpc EXCEPT ![r] = "trans"]
      BY <1>7, <2>3, Zenon DEF RunnerSteps
    <3>2. k \in 1..MaxSteps /\ count[r] \in Nat
      BY <2>3, ConstantsAssumption DEF TypeOK
    <3>3. /\ StepStart(k) \in Event /\ ~IsFinal(StepStart(k)) /\ ~IsTerminal(StepStart(k))
          /\ IsStep(StepStart(k)) /\ Turn(StepStart(k)) = 2 * k - 1
      BY <3>2, EventsMade DEF StepStart, IsFinal, IsTerminal, IsStep, TerminalKinds, Turn
    <3>4. rpc'[r] = "trans" /\ count'[r] = k /\ raw'[r] = Append(raw[r], StepStart(k))
      BY <1>inv, <1>send, <3>1 DEF TypeOK
    <3>5. Sent(r) = 2 * count[r] /\ Sent(r)' = 2 * k - 1
      BY <2>1, <3>4 DEF Sent
    <3>. QED
      BY <2>1, <3>2, <3>3, <3>4, <3>5
  <2>. QED
    BY <2>2, <2>3
<1>8. CASE RunnerPushes(r)
  BY <1>inv, <1>8 DEF RunnerPushes, RunnerAt, Sent, TypeOK
<1>9. CASE RunnerTransits(r)
  <2>1. rpc[r] \in {"trans", "acted"} /\ UNCHANGED <<count, raw>>
    BY <1>9 DEF RunnerTransits, InTransition
  <2>2. CASE Return(r, "Fail")
    BY <1>return, <2>1, <2>2
  <2>3. CASE rpc' = [rpc EXCEPT ![r] = "save"]
    BY <1>inv, <2>1, <2>3 DEF Sent, TypeOK
  <2>. QED
    BY <1>9, <2>2, <2>3 DEF RunnerTransits
<1>10. CASE RunnerSaves(r)
  BY <1>inv, <1>10 DEF RunnerSaves, RunnerAt, Sent, TypeOK
<1>11. CASE RunnerFinishesStep(r)
  <2>. DEFINE e == StepDone(count[r], result[r])
  <2>1. count' = count /\ rpc[r] = "fin" /\ result[r] \in StepResult /\ count[r] \in 1..MaxSteps
    BY <1>inv, <1>11 DEF RunnerFinishesStep, RunnerAt, RunnerInv
  <2>2. raw'[r] = Append(raw[r], e)
    BY <1>11, <1>send DEF RunnerFinishesStep
  <2>3. /\ e \in Event /\ ~IsTerminal(e) /\ IsStep(e) /\ Turn(e) = Sent(r) + 1 /\ e.n = count[r]
        /\ IsFinal(e) <=> result[r] # "next"
    <3>1. e \in Event
      BY <2>1, EventsMade
    <3>2. e.kind = "StepDone" /\ e.n = count[r] /\ e.result = result[r]
      BY DEF StepDone
    <3>3. Sent(r) = 2 * count[r] - 1 /\ count[r] \in Nat
      BY <2>1 DEF Sent
    <3>. QED
      BY <3>1, <3>2, <3>3 DEF IsFinal, IsTerminal, IsStep, TerminalKinds, Turn
  <2>. HIDE DEF e
  <2>4. CASE result[r] = "next"
    <3>1. rpc' = [rpc EXCEPT ![r] = "step"]
      BY <1>11, <2>4 DEF RunnerFinishesStep
    <3>2. rpc'[r] = "step" /\ Sent(r)' = 2 * count[r] /\ Sent(r) = 2 * count[r] - 1
      BY <1>inv, <2>1, <3>1 DEF TypeOK, Sent
    <3>3. Sent(r)' = Sent(r) + 1
      BY <2>1, <3>2
    <3>. QED
      BY <2>1, <2>2, <2>3, <2>4, <3>2, <3>3
  <2>5. CASE result[r] # "next"
    <3>1. rpc'[r] = "term"
      <4>1. CASE result[r] = "interrupt"
        BY <1>return, <1>11, <4>1 DEF RunnerFinishesStep
      <4>2. CASE result[r] = "complete"
        BY <1>return, <1>11, <4>2 DEF RunnerFinishesStep
      <4>. QED
        BY <2>1, <2>5, <4>1, <4>2 DEF StepResult
    <3>. QED
      BY <2>1, <2>2, <2>3, <2>5, <3>1
  <2>. QED
    BY <2>4, <2>5
<1>12. CASE RunnerEnds(r)
  <2>1. rpc[r] = "term" /\ result[r] \in TerminalKinds
    BY <1>inv, <1>12 DEF RunnerEnds, RunnerAt, RunnerInv
  <2>2. raw'[r] = Append(raw[r], Terminal(result[r])) /\ rpc'[r] = "done"
    BY <1>inv, <1>12, <1>send DEF RunnerEnds, Exit, TypeOK
  <2>. QED
    BY <2>1, <2>2
<1>. QED
  BY <1>1, <1>2, <1>3, <1>4, <1>5, <1>6, <1>7, <1>8, <1>9, <1>10, <1>11, <1>12 DEF Runner

LEMMA FlowRunner ==
  ASSUME TaskInv, TaskInv', NEW r \in Runs, FlowOf(r), Runner(r)
  PROVE  FlowOf(r)'
<1>1. /\ UNCHANGED <<log, bpc, cur, held>>
  BY RunnerOwn DEF store, bridge
<1>2. /\ Hand(r)' = Hand(r) /\ Cnt(r)' = Cnt(r) /\ (Live(r)' <=> Live(r))
  BY <1>1 DEF Hand, HeldEvents, Cnt, Live
<1>3. ASSUME Live(r)
      PROVE  Fits(Flow(r), Cnt(r), Sent(r), rpc[r], result[r])'
  <2>. DEFINE F == Flow(r)
  <2>1. Fits(F, Cnt(r), Sent(r), rpc[r], result[r]) /\ bpc[r] # "done"
    BY <1>3 DEF FlowOf, Live
  <2>2. /\ F \in Seq(Event) /\ Hand(r) \in Seq(Event) /\ raw[r] \in Seq(Event)
        /\ Cnt(r) \in Nat /\ Sent(r) \in Nat /\ Sent(r)' \in Nat
    <3>1. Sent(r)' \in Nat
      BY SMTT(30), ConstantsAssumption DEF Sent, TaskInv, RunnerInv, TypeOK
    <3>. QED
      BY <3>1, FlowType
  <2>3. ASSUME NEW e \in Event, raw'[r] = Append(raw[r], e)
        PROVE  Flow(r)' = Append(F, e)
    <3>1. Flow(r)' = Hand(r) \o Append(raw[r], e)
      BY <1>2, <2>3 DEF Flow
    <3>. QED
      BY SMTT(30), <2>2, <3>1 DEF Flow
  <2>4. raw'[r] = raw[r] => Flow(r)' = F
    BY <1>2 DEF Flow
  <2>. HIDE DEF F
  <2>5. ASSUME rpc[r] \notin {"term", "done"}, raw'[r] = raw[r],
               \/ rpc'[r] = "term" /\ result'[r] \in {"Cancel", "Fail"}
               \/ rpc'[r] \notin {"term", "done"} /\ Sent(r)' = Sent(r)
        PROVE  Fits(F, Cnt(r), Sent(r)', rpc'[r], result'[r])
    BY <2>1, <2>5 DEF Fits
  <2>6. ASSUME NEW e \in Event,
               rpc[r] \notin {"term", "done"}, rpc'[r] \notin {"term", "done"},
               ~IsFinal(e), ~IsTerminal(e),
               IsStep(e) => Turn(e) = Sent(r) + 1 /\ Sent(r)' = Sent(r) + 1,
               ~IsStep(e) => Sent(r)' = Sent(r)
        PROVE  Fits(Append(F, e), Cnt(r), Sent(r)', rpc'[r], result'[r])
    BY <2>1, <2>2, <2>6, FitsEvent
  <2>7. ASSUME NEW e \in Event,
               rpc[r] \notin {"term", "done"}, rpc'[r] = "term",
               IsFinal(e), Turn(e) = Sent(r) + 1
        PROVE  Fits(Append(F, e), Cnt(r), Sent(r)', rpc'[r], result'[r])
    BY <2>1, <2>2, <2>7, FitsFinal
  <2>8. ASSUME rpc[r] = "term", rpc'[r] = "done", result[r] \in TerminalKinds
        PROVE  Fits(Append(F, Terminal(result[r])), Cnt(r), Sent(r)', rpc'[r], result'[r])
    BY <2>1, <2>2, <2>8, FitsLast
  <2>9. \A k \in TerminalKinds : Terminal(k) \in Event
    BY EventsMade
  <2>10. Fits(Flow(r)', Cnt(r), Sent(r)', rpc'[r], result'[r])
    BY <2>1, <2>3, <2>4, <2>5, <2>6, <2>7, <2>8, <2>9, RunnerSends
  <2>. QED
    BY <1>2, <2>10
<1>. QED
  <2>1. (bpc[r] = "off" => raw'[r] = <<>>)
    BY RunnerOwn DEF TaskInv, StartInv
  <2>. QED
    BY <1>1, <1>2, <1>3, <2>1 DEF FlowOf

LEMMA Parts ==
  ASSUME NEW S, NEW q \in Seq(S), NEW a \in S
  PROVE  /\ <<>> \o q = q /\ q \o <<>> = q
         /\ <<a>> \o q \in Seq(S) /\ <<a>> \o q # <<>>
         /\ Head(<<a>> \o q) = a /\ Tail(<<a>> \o q) = q
<1>1. Tail(<<a>> \o q) = q
  OBVIOUS
<1>. QED
  BY <1>1

\* The head of a queue goes to the end of the one before it.
LEMMA Rejoined ==
  ASSUME NEW S, NEW p \in Seq(S), NEW q \in Seq(S), q # <<>>
  PROVE  (p \o <<Head(q)>>) \o Tail(q) = p \o q
<1>1. Head(q) \in S /\ Tail(q) \in Seq(S) /\ <<Head(q)>> \o Tail(q) = q
  OBVIOUS
<1>2. <<Head(q)>> \in Seq(S)
  BY <1>1
<1>3. (p \o <<Head(q)>>) \o Tail(q) = p \o (<<Head(q)>> \o Tail(q))
  BY <1>1, <1>2
<1>. QED
  BY <1>1, <1>3

\* The bridge sorts the next event of the channel.  With a final step in hand
\* that can only be the terminal event.
LEMMA FlowDispatch ==
  ASSUME TaskInv, NEW r \in Runs, FlowOf(r), Dispatch(r), bpc[r] \in {"recv", "select"},
         held' = held
  PROVE  /\ bpc'[r] \in {"finish", "take", "commit"} /\ Flow(r)' = Flow(r)
         /\ bpc'[r] # "finish" => held[r] = None
<1>. USE DEF TaskInv
<1>1. /\ Flow(r) = HeldEvents(r) \o raw[r]
      /\ HeldEvents(r) \in Seq(Event) /\ raw[r] \in Seq(Event) /\ raw[r] # <<>>
      /\ Ending(Flow(r)) /\ Flow(r) \in Seq(Event)
  <2>1. /\ HeldEvents(r) \in Seq(Event) /\ raw[r] \in Seq(Event) /\ raw[r] # <<>>
        /\ Ending(Flow(r)) /\ Flow(r) \in Seq(Event)
    BY FlowType DEF Dispatch, FlowOf, Live, Fits
  <2>2. Hand(r) = HeldEvents(r) \o <<>>
    BY DEF Hand
  <2>. QED
    BY <2>1, <2>2, Parts DEF Flow
<1>2. Head(raw[r]) \in Event /\ Head(raw[r]) = raw[r][1] /\ Tail(raw[r]) \in Seq(Event)
  BY <1>1, HeadTail
<1>3. cur'[r] = Head(raw[r]) /\ raw'[r] = Tail(raw[r]) /\ HeldEvents(r)' = HeldEvents(r)
  BY DEF Dispatch, TypeOK, HeldEvents
<1>4. /\ bpc'[r] \in {"finish", "take", "commit"}
      /\ bpc'[r] = "finish" <=> IsTerminal(Head(raw[r]))
  <2>1. bpc' = [bpc EXCEPT ![r] = CASE IsTerminal(Head(raw[r])) -> "finish"
                                    [] Head(raw[r]).kind = "StepDone" -> "take"
                                    [] OTHER -> "commit"]
    BY Zenon DEF Dispatch, Goto
  <2>2. CASE IsTerminal(Head(raw[r]))
    <3>1. Head(raw[r]).kind # "StepDone"
      BY <2>2, EventSorts
    <3>2. bpc' = [bpc EXCEPT ![r] = "finish"]
      BY <2>1, <2>2, <3>1
    <3>. QED
      BY <2>2, <3>2 DEF TypeOK
  <2>3. CASE ~IsTerminal(Head(raw[r]))
    <3>1. bpc' = [bpc EXCEPT ![r] = IF Head(raw[r]).kind = "StepDone" THEN "take" ELSE "commit"]
      BY <2>1, <2>3
    <3>. QED
      BY <2>3, <3>1 DEF TypeOK
  <2>. QED
    BY <2>2, <2>3
<1>5. ASSUME held[r] # None PROVE IsTerminal(Head(raw[r]))
  <2>1. IsFinal(held[r].event) /\ held[r].event \in Event
    BY <1>5 DEF BridgeInv, TypeOK, PendingStep
  <2>2. Flow(r) = <<held[r].event>> \o raw[r]
    BY <1>1, <1>5 DEF HeldEvents
  <2>3. /\ 1 \in DOMAIN Flow(r) /\ 2 \in DOMAIN Flow(r)
        /\ Flow(r)[1] = held[r].event /\ Flow(r)[2] = Head(raw[r])
    BY <1>1, <1>2, <2>1, <2>2
  <2>. QED
    <3>1. \A j \in DOMAIN Flow(r) : 1 < j => IsTerminal(Flow(r)[j])
      BY <1>1, <2>1, <2>3 DEF Ending
    <3>. QED
      BY <2>3, <3>1
<1>6. Flow(r)' = Flow(r)
  <2>1. CASE bpc'[r] \in {"finish", "take"}
    <3>1. Flow(r)' = (HeldEvents(r) \o <<Head(raw[r])>>) \o Tail(raw[r])
      BY <1>3, <2>1 DEF Flow, Hand
    <3>2. (HeldEvents(r) \o <<Head(raw[r])>>) \o Tail(raw[r]) = HeldEvents(r) \o raw[r]
      BY <1>1, Rejoined
    <3>. QED
      BY <1>1, <3>1, <3>2
  <2>2. CASE bpc'[r] = "commit"
    <3>1. HeldEvents(r) = <<>>
      BY <1>4, <1>5, <2>2 DEF HeldEvents
    <3>2. Flow(r)' = <<Head(raw[r])>> \o Tail(raw[r])
      BY <1>3, <2>2 DEF Flow, Hand
    <3>3. <<Head(raw[r])>> \o Tail(raw[r]) = raw[r]
      BY <1>1
    <3>. QED
      BY <1>1, <3>1, <3>2, <3>3, Parts
  <2>. QED
    BY <1>4, <2>1, <2>2
<1>. QED
  BY <1>4, <1>5, <1>6

\* What is left in hand when a bridge gives up is the next step event of the log.
LEMMA HeldNext ==
  ASSUME TaskInv, NEW r \in Runs, FlowOf(r), bpc[r] \in {"recv", "select", "finish"},
         held[r] # None
  PROVE  IsStep(held[r].event) /\ held[r].event \in Event /\ Turn(held[r].event) = Cnt(r) + 1
<1>. USE DEF TaskInv
<1>1. /\ IsFinal(held[r].event) /\ held[r].event \in Event
      /\ HeldEvents(r) = <<held[r].event>>
  BY DEF BridgeInv, TypeOK, PendingStep, HeldEvents
<1>2. \E rest \in Seq(Event) : Flow(r) = <<held[r].event>> \o rest
  <2>1. CASE bpc[r] = "finish"
    <3>1. Flow(r) = (<<held[r].event>> \o <<cur[r]>>) \o raw[r]
      BY <1>1, <2>1 DEF Flow, Hand
    <3>2. <<cur[r]>> \o raw[r] \in Seq(Event) /\ raw[r] \in Seq(Event) /\ cur[r] \in Event
      BY <2>1, FlowType DEF BridgeInv
    <3>3. Flow(r) = <<held[r].event>> \o (<<cur[r]>> \o raw[r])
      BY <1>1, <3>1, <3>2
    <3>. QED
      BY <3>2, <3>3
  <2>2. CASE bpc[r] \in {"recv", "select"}
    <3>1. Flow(r) = (<<held[r].event>> \o <<>>) \o raw[r] /\ raw[r] \in Seq(Event)
      BY <1>1, <2>2, FlowType DEF Flow, Hand
    <3>2. <<held[r].event>> \o <<>> = <<held[r].event>>
      BY <1>1
    <3>. QED
      BY <3>1, <3>2
  <2>. QED
    BY <2>1, <2>2
<1>3. Flow(r) # <<>> /\ Head(Flow(r)) = held[r].event /\ Flow(r) \in Seq(Event)
  BY <1>1, <1>2, FlowType, Parts
<1>4. IsStep(held[r].event)
  BY <1>1 DEF IsFinal, IsStep
<1>5. InTurn(Flow(r), Cnt(r)) /\ Cnt(r) \in Nat
  BY FlowType DEF FlowOf, Live, Fits
<1>. QED
  BY <1>1, <1>3, <1>4, <1>5, TurnShrinks

\* A last commit keeps the step events of the log in turn.
LEMMA OrderedLast ==
  ASSUME TaskInv, NEW r \in Runs, NEW e \in Event, ~IsStep(e), Ordered(log[r]),
         held[r] # None => Turn(held[r].event) = Cnt(r) + 1,
         log'[r] = log[r] \o Append(HeldEvents(r), e)
  PROVE  Ordered(log'[r])
<1>. USE DEF TaskInv
<1>1. log[r] \in Seq(Event)
  BY DEF TypeOK
<1>2. CASE held[r] = None
  <2>1. log'[r] = Append(log[r], e)
    BY <1>1, <1>2 DEF HeldEvents
  <2>. QED
    BY <1>1, <2>1, OrderedGrows
<1>3. CASE held[r] # None
  <2>. DEFINE h == held[r].event
              l == Append(log[r], h)
  <2>1. h \in Event /\ l \in Seq(Event)
    BY <1>1, <1>3 DEF TypeOK, PendingStep
  <2>2. log'[r] = Append(l, e)
    BY <1>1, <1>3, <2>1 DEF HeldEvents
  <2>3. Ordered(l)
    BY <1>1, <1>3, <2>1, OrderedGrows DEF Cnt
  <2>. QED
    BY <2>1, <2>2, <2>3, OrderedGrows
<1>. QED
  BY <1>2, <1>3

\* A bridge leaves what is on its way alone, or takes the next event out.
Carried(r) ==
  Live(r)' =>
    /\ Live(r)
    /\ \/ Flow(r)' = Flow(r)
       \/ Flow(r) # <<>> /\ ~IsFinal(Head(Flow(r))) /\ Flow(r)' = Tail(Flow(r))

LEMMA FlowBridge ==
  ASSUME TaskInv, TaskInv', NEW r \in Runs, FlowOf(r), Bridge(r)
  PROVE  FlowOf(r)' /\ Carried(r)
<1>. USE DEF TaskInv
<1>inv. TypeOK /\ BridgeInv /\ bpc'[r] # "off" /\ bpc[r] \notin {"off", "done"}
  BY BridgeOwn
<1>runner. UNCHANGED <<rpc, count, result>> /\ Sent(r)' = Sent(r)
  BY BridgeOwn DEF runner, Sent
<1>same. ASSUME log' = log PROVE Ordered(log'[r]) /\ Cnt(r)' = Cnt(r)
  BY <1>same DEF FlowOf, Cnt
<1>quiet. ASSUME Ordered(log'[r]),
                 bpc'[r] \in {"sendF", "sendT", "sendX", "clear", "done"}
          PROVE  FlowOf(r)' /\ Carried(r)
  BY <1>quiet DEF FlowOf, Live, Carried
<1>gone. ASSUME Ordered(log'[r]), bpc'[r] \in {"fail", "cancel", "cancelled"},
                held'[r] # None => Turn(held'[r].event) = Cnt(r)'  + 1
         PROVE  FlowOf(r)' /\ Carried(r)
  BY <1>gone DEF FlowOf, Live, Carried
<1>leave. ASSUME Leave(r) PROVE bpc'[r] = "done"
  BY <1>leave, <1>inv DEF Leave, Goto, TypeOK
<1>1. CASE BridgeReceives(r) \/ BridgeSelects(r)
  <2>1. bpc[r] \in {"recv", "select"} /\ UNCHANGED <<log, held>>
    BY <1>1 DEF BridgeReceives, BridgeSelects, BridgeAt, store
  <2>2. Ordered(log'[r]) /\ Cnt(r)' = Cnt(r)
    BY <1>same, <2>1
  <2>3. CASE Dispatch(r)
    <3>1. /\ bpc'[r] \in {"finish", "take", "commit"} /\ Flow(r)' = Flow(r)
          /\ bpc'[r] # "finish" => held[r] = None
      BY <2>1, <2>3, FlowDispatch
    <3>2. Fits(Flow(r), Cnt(r), Sent(r), rpc[r], result[r])
      BY <2>1 DEF FlowOf, Live
    <3>3. Fits(Flow(r), Cnt(r), Sent(r), rpc[r], result[r])'
      BY <1>runner, <2>2, <3>1, <3>2
    <3>4. Carried(r)
      BY <2>1, <3>1 DEF Carried, Live
    <3>. QED
      BY <2>1, <2>2, <3>1, <3>3, <3>4 DEF FlowOf
  <2>4. CASE bpc' = [bpc EXCEPT ![r] = "select"] /\ UNCHANGED <<cur, raw>>
    <3>1. bpc'[r] = "select"
      BY <1>inv, <2>4 DEF TypeOK
    <3>2. HeldEvents(r)' = HeldEvents(r)
      BY <2>1 DEF HeldEvents
    <3>3. Hand(r)' = Hand(r)
      BY <2>1, <3>1, <3>2 DEF Hand
    <3>4. Flow(r)' = Flow(r)
      BY <2>4, <3>3 DEF Flow
    <3>5. Fits(Flow(r), Cnt(r), Sent(r), rpc[r], result[r])
      BY <2>1 DEF FlowOf, Live
    <3>6. Fits(Flow(r), Cnt(r), Sent(r), rpc[r], result[r])'
      BY <1>runner, <2>2, <3>4, <3>5
    <3>7. Carried(r)
      BY <2>1, <3>4 DEF Carried, Live
    <3>. QED
      BY <2>2, <3>1, <3>6, <3>7 DEF FlowOf
  <2>5. CASE bpc' = [bpc EXCEPT ![r] = "cancel"]
    <3>1. bpc'[r] = "cancel"
      BY <1>inv, <2>5 DEF TypeOK
    <3>2. held[r] # None => Turn(held[r].event) = Cnt(r) + 1
      BY <2>1, HeldNext
    <3>. QED
      BY <1>gone, <2>1, <2>2, <3>1, <3>2
  <2>. QED
    BY <1>1, <2>3, <2>4, <2>5 DEF BridgeReceives, BridgeSelects, Goto
<1>2. CASE BridgeTakes(r)
  <2>1. /\ bpc[r] = "take" /\ UNCHANGED <<log, cur, raw>>
        /\ cur[r] \in Event /\ cur[r].kind = "StepDone"
    BY <1>inv, <1>2 DEF BridgeTakes, BridgeAt, BridgeInv, store
  <2>2. Ordered(log'[r]) /\ Cnt(r)' = Cnt(r)
    BY <1>same, <2>1
  <2>3. Fits(Flow(r), Cnt(r), Sent(r), rpc[r], result[r])
    BY <2>1 DEF FlowOf, Live
  <2>4. held[r] = None
    <3>1. SUFFICES ASSUME held[r] # None PROVE FALSE
      OBVIOUS
    <3>2. IsFinal(held[r].event) /\ held[r].event \in Event
      BY <1>inv, <2>1, <3>1 DEF BridgeInv, TypeOK, PendingStep
    <3>3. Flow(r) = (<<held[r].event>> \o <<cur[r]>>) \o raw[r] /\ raw[r] \in Seq(Event)
      BY <2>1, <3>1, FlowType DEF Flow, Hand, HeldEvents
    <3>4. /\ 1 \in DOMAIN Flow(r) /\ 2 \in DOMAIN Flow(r)
          /\ Flow(r)[1] = held[r].event /\ Flow(r)[2] = cur[r]
      BY <2>1, <3>2, <3>3
    <3>5. \A j \in DOMAIN Flow(r) : 1 < j => IsTerminal(Flow(r)[j])
      BY <2>3, <3>2, <3>4 DEF Fits, Ending
    <3>. QED
      BY <2>1, <3>4, <3>5, EventSorts
  <2>5. Flow(r) = <<cur[r]>> \o raw[r]
    <3>1. Hand(r) = <<>> \o <<cur[r]>>
      BY <2>1, <2>4 DEF Hand, HeldEvents
    <3>2. Hand(r) = <<cur[r]>>
      BY <3>1
    <3>. QED
      BY <3>2 DEF Flow
  <2>6. CASE MySaver(r) = <<>>
    <3>1. bpc' = [bpc EXCEPT ![r] = "fail"] /\ held' = held
      BY <1>2, <2>6, Zenon DEF BridgeTakes, Goto
    <3>. QED
      BY <1>inv, <1>gone, <2>2, <2>4, <3>1 DEF TypeOK
  <2>7. CASE MySaver(r) # <<>>
    <3>1. /\ held' = [held EXCEPT ![r] = [event |-> cur[r], record |-> Head(MySaver(r))]]
          /\ bpc' = [bpc EXCEPT ![r] = IF IsFinal(cur[r]) THEN "recv" ELSE "commit"]
      BY <1>2, <2>7, Zenon DEF BridgeTakes, Goto
    <3>2. bpc'[r] \in {"recv", "commit"} /\ held'[r].event = cur'[r]
      BY <1>inv, <2>1, <3>1 DEF TypeOK
    <3>3. Flow(r)' = <<cur[r]>> \o raw[r]
      <4>1. CASE bpc'[r] = "commit"
        BY <2>1, <4>1 DEF Flow, Hand
      <4>2. CASE bpc'[r] = "recv"
        <5>1. held'[r] # None
          <6>1. held'[r] = [event |-> cur[r], record |-> Head(MySaver(r))]
            BY <1>inv, <3>1 DEF TypeOK
          <6>2. home[r] \in Instances
            BY <1>inv DEF StartInv, TypeOK
          <6>3. Head(MySaver(r)) \in Record
            BY <1>inv, <2>7, <6>2 DEF MySaver, TypeOK
          <6>4. held'[r] \in PendingStep
            BY <2>1, <6>1, <6>3 DEF PendingStep
          <6>. QED
            BY <6>4, NoneAssumption
        <5>2. Hand(r)' = <<cur[r]>> \o <<>>
          BY <2>1, <3>2, <4>2, <5>1 DEF Hand, HeldEvents
        <5>3. Hand(r)' = <<cur[r]>>
          BY <5>2
        <5>. QED
          BY <2>1, <5>3 DEF Flow
      <4>. QED
        BY <3>2, <4>1, <4>2
    <3>4. Fits(Flow(r), Cnt(r), Sent(r), rpc[r], result[r])'
      BY <1>runner, <2>2, <2>3, <2>5, <3>3
    <3>5. Carried(r)
      BY <2>1, <2>5, <3>3 DEF Carried, Live
    <3>. QED
      BY <2>2, <3>2, <3>4, <3>5 DEF FlowOf
  <2>. QED
    BY <2>6, <2>7
<1>3. CASE BridgeCommits(r)
  <2>1. /\ bpc[r] = "commit" /\ UNCHANGED <<cur, raw>> /\ held'[r] = None
        /\ cur[r] \in Event /\ IsProgress(cur[r]) /\ raw[r] \in Seq(Event)
    BY <1>inv, <1>3, FlowType DEF BridgeCommits, BridgeAt, BridgeInv, TypeOK
  <2>2. Fits(Flow(r), Cnt(r), Sent(r), rpc[r], result[r]) /\ Ordered(log[r])
    BY <2>1 DEF FlowOf, Live
  <2>3. /\ Flow(r) \in Seq(Event) /\ Flow(r) # <<>> /\ Head(Flow(r)) = cur[r]
        /\ Tail(Flow(r)) = raw[r] /\ Cnt(r) \in Nat /\ Sent(r) \in Nat /\ log[r] \in Seq(Event)
    <3>1. Flow(r) = <<cur[r]>> \o raw[r]
      BY <2>1 DEF Flow, Hand
    <3>. QED
      BY SMTT(30), <2>1, <3>1, Parts, FlowType
  <2>4. /\ IsStep(cur[r]) => /\ Turn(cur[r]) = Cnt(r) + 1
                             /\ Fits(raw[r], Cnt(r) + 1, Sent(r), rpc[r], result[r])
        /\ ~IsStep(cur[r]) => Fits(raw[r], Cnt(r), Sent(r), rpc[r], result[r])
    <3>1. ~IsFinal(cur[r])
      BY <2>1 DEF IsProgress
    <3>. QED
      BY <2>2, <2>3, <3>1, FitsTail
  <2>5. ASSUME log'[r] = Append(log[r], cur[r])
        PROVE  /\ Ordered(log'[r])
               /\ Cnt(r)' = IF IsStep(cur[r]) THEN Cnt(r) + 1 ELSE Cnt(r)
    BY <2>1, <2>2, <2>3, <2>4, <2>5, OrderedGrows DEF Cnt
  <2>6. \/ log'[r] = log[r] /\ Commit(r, HeldRecord(r), FALSE) # "recorded"
        \/ log'[r] = Append(log[r], cur[r])
    <3>1. \/ UNCHANGED store /\ Commit(r, HeldRecord(r), None # None) # "recorded"
          \/ Written(r, HeldRecord(r), <<cur[r]>>, None, IF held[r] = None THEN {} ELSE ops[r])
      BY <1>inv, <1>3, CommitOutcome, Zenon DEF BridgeCommits
    <3>2. (None # None) = FALSE
      OBVIOUS
    <3>3. \/ log'[r] = log[r] /\ Commit(r, HeldRecord(r), FALSE) # "recorded"
          \/ log'[r] = log[r] \o <<cur[r]>>
      <4>1. CASE UNCHANGED store /\ Commit(r, HeldRecord(r), None # None) # "recorded"
        BY <3>2, <4>1, Zenon DEF store
      <4>2. CASE Written(r, HeldRecord(r), <<cur[r]>>, None, IF held[r] = None THEN {} ELSE ops[r])
        BY ZenonT(60), <1>inv, <4>2 DEF Written, TypeOK
      <4>. QED
        BY <3>1, <4>1, <4>2
    <3>4. log[r] \o <<cur[r]>> = Append(log[r], cur[r])
      BY <2>1, <2>3
    <3>. QED
      BY <3>3, <3>4, Zenon
  <2>7. bpc'[r] \in {"send", "fail"} /\ (Commit(r, HeldRecord(r), FALSE) # "recorded" => bpc'[r] = "fail")
    <3>1. bpc' = [bpc EXCEPT ![r] = IF Commit(r, HeldRecord(r), FALSE) = "recorded"
                                     THEN "send" ELSE "fail"]
      BY <1>3, Zenon DEF BridgeCommits, Goto
    <3>2. bpc'[r] = IF Commit(r, HeldRecord(r), FALSE) = "recorded" THEN "send" ELSE "fail"
      BY <1>inv, <3>1 DEF TypeOK
    <3>. QED
      BY <3>2, Zenon
  <2>8. Ordered(log'[r])
    BY <2>2, <2>5, <2>6
  <2>9. CASE bpc'[r] = "send"
    <3>1. log'[r] = Append(log[r], cur[r])
      BY <2>6, <2>7, <2>9
    <3>2. Flow(r)' = raw[r]
      <4>1. Hand(r)' = <<>> \o <<>>
        BY <2>1, <2>9 DEF Hand, HeldEvents
      <4>2. Hand(r)' = <<>>
        BY <4>1
      <4>3. Flow(r)' = <<>> \o raw[r]
        BY <2>1, <4>2 DEF Flow
      <4>. QED
        BY <2>1, <4>3, Parts
    <3>3. Fits(Flow(r), Cnt(r), Sent(r), rpc[r], result[r])'
      <4>1. CASE IsStep(cur[r])
        BY <1>runner, <2>4, <2>5, <3>1, <3>2, <4>1
      <4>2. CASE ~IsStep(cur[r])
        BY <1>runner, <2>4, <2>5, <3>1, <3>2, <4>2
      <4>. QED
        BY <4>1, <4>2
    <3>4. Carried(r)
      BY <2>1, <2>3, <3>2 DEF Carried, Live, IsProgress
    <3>. QED
      BY <2>1, <2>8, <2>9, <3>3, <3>4 DEF FlowOf
  <2>10. CASE bpc'[r] = "fail"
    BY <1>gone, <2>1, <2>8, <2>10
  <2>. QED
    BY <2>7, <2>9, <2>10
<1>4. CASE BridgeSends(r)
  <2>1. bpc[r] = "send" /\ UNCHANGED <<log, cur, raw, held>> /\ held[r] = None
    BY <1>4 DEF BridgeSends, BridgeAt, FlowOf, store
  <2>2. bpc'[r] \in {"recv", "cancel"}
    BY <1>inv, <1>4 DEF BridgeSends, Goto, TypeOK
  <2>3. Ordered(log'[r]) /\ Cnt(r)' = Cnt(r)
    BY <1>same, <2>1
  <2>4. CASE bpc'[r] = "recv"
    <3>1. Flow(r)' = Flow(r)
      BY <2>1, <2>4 DEF Flow, Hand, HeldEvents
    <3>2. Fits(Flow(r), Cnt(r), Sent(r), rpc[r], result[r])
      BY <2>1 DEF FlowOf, Live
    <3>3. Fits(Flow(r), Cnt(r), Sent(r), rpc[r], result[r])'
      BY <1>runner, <2>3, <3>1, <3>2
    <3>4. Carried(r)
      BY <2>1, <3>1 DEF Carried, Live
    <3>. QED
      BY <2>1, <2>3, <2>4, <3>3, <3>4 DEF FlowOf
  <2>5. CASE bpc'[r] = "cancel"
    BY <1>gone, <2>1, <2>3, <2>5
  <2>. QED
    BY <2>2, <2>4, <2>5
<1>last. ASSUME NEW e \in Event, ~IsStep(e), held[r] # None => Turn(held[r].event) = Cnt(r) + 1,
                NEW st \in RunStatus,
                CommitEvents(r, HeldRecord(r), Append(HeldEvents(r), e), st, ops[r])
         PROVE  /\ Ordered(log'[r])
                /\ Commit(r, HeldRecord(r), TRUE) # "recorded" => log'[r] = log[r]
  <2>1. \/ Commit(r, HeldRecord(r), TRUE) # "recorded" /\ UNCHANGED store
        \/ /\ Commit(r, HeldRecord(r), TRUE) = "recorded"
           /\ Written(r, HeldRecord(r), Append(HeldEvents(r), e), st, ops[r])
    BY <1>inv, <1>last, FinishOutcome, Zenon
  <2>2. Ordered(log[r])
    BY DEF FlowOf
  <2>3. CASE Commit(r, HeldRecord(r), TRUE) # "recorded" /\ UNCHANGED store
    BY <2>2, <2>3 DEF store
  <2>4. CASE /\ Commit(r, HeldRecord(r), TRUE) = "recorded"
             /\ Written(r, HeldRecord(r), Append(HeldEvents(r), e), st, ops[r])
    <3>1. log'[r] = log[r] \o Append(HeldEvents(r), e)
      BY ZenonT(60), <1>inv, <2>4 DEF Written, TypeOK
    <3>. QED
      BY <1>last, <2>2, <2>4, <3>1, OrderedLast
  <2>. QED
    BY <2>1, <2>3, <2>4
<1>terminal. \A e \in Event : IsTerminal(e) => ~IsStep(e)
  BY DEF IsTerminal, TerminalKinds, IsStep
<1>5. CASE BridgeFinishes(r)
  <2>1. /\ bpc[r] = "finish" /\ cur[r] \in Event /\ IsTerminal(cur[r]) /\ held' = held
        /\ StatusOf(cur[r].kind) \in RunStatus
    BY <1>inv, <1>5, EventFields DEF BridgeFinishes, BridgeAt, BridgeInv
  <2>2. held[r] # None => Turn(held[r].event) = Cnt(r) + 1
    BY <2>1, HeldNext
  <2>3. /\ Ordered(log'[r])
        /\ Commit(r, HeldRecord(r), TRUE) # "recorded" => log'[r] = log[r]
    <3>1. CommitEvents(r, HeldRecord(r), Append(HeldEvents(r), cur[r]), StatusOf(cur[r].kind), ops[r])
      BY <1>5 DEF BridgeFinishes
    <3>. QED
      BY <1>last, <1>terminal, <2>1, <2>2, <3>1
  <2>4. CASE Commit(r, HeldRecord(r), TRUE) \in {"recorded", "already"}
    <3>1. bpc' = [bpc EXCEPT ![r] = IF held[r] # None THEN "sendF" ELSE "sendT"]
      BY <1>5, <2>4 DEF BridgeFinishes, Goto
    <3>. QED
      BY <1>inv, <1>quiet, <2>3, <3>1 DEF TypeOK
  <2>5. CASE Commit(r, HeldRecord(r), TRUE) \notin {"recorded", "already"}
    <3>1. bpc' = [bpc EXCEPT ![r] = "fail"]
      BY <1>5, <2>5 DEF BridgeFinishes, Goto
    <3>2. bpc'[r] = "fail" /\ log'[r] = log[r]
      <4>1. Commit(r, HeldRecord(r), TRUE) # "recorded"
        BY <2>5
      <4>2. bpc'[r] = "fail"
        BY <1>inv, <3>1 DEF TypeOK
      <4>. QED
        BY <2>3, <4>1, <4>2
    <3>3. Cnt(r)' = Cnt(r)
      BY <3>2 DEF Cnt
    <3>. QED
      BY <1>gone, <2>1, <2>2, <2>3, <3>2, <3>3
  <2>. QED
    BY <2>4, <2>5
<1>6. CASE BridgeFails(r)
  <2>1. bpc[r] = "fail" /\ bpc'[r] = "sendX"
    BY <1>inv, <1>6 DEF BridgeFails, BridgeAt, Goto, TypeOK
  <2>2. Terminal("Fail") \in Event /\ ~IsStep(Terminal("Fail")) /\ "error" \in RunStatus
    BY <1>terminal, EventsMade, EventSorts DEF TerminalKinds, RunStatus
  <2>3. CommitEvents(r, HeldRecord(r), Append(HeldEvents(r), Terminal("Fail")), "error", ops[r])
    BY <1>6 DEF BridgeFails
  <2>4. Ordered(log'[r])
    BY <1>last, <2>1, <2>2, <2>3 DEF FlowOf
  <2>. QED
    BY <1>quiet, <2>1, <2>4
<1>7. CASE BridgeCommitsCancel(r)
  <2>1. bpc[r] = "cancelled" /\ bpc'[r] = "clear"
    BY <1>inv, <1>7 DEF BridgeCommitsCancel, BridgeAt, Goto, TypeOK
  <2>2. Terminal("Cancel") \in Event /\ ~IsStep(Terminal("Cancel")) /\ "cancelled" \in RunStatus
    BY <1>terminal, EventsMade, EventSorts DEF TerminalKinds, RunStatus
  <2>3. CommitEvents(r, HeldRecord(r), Append(HeldEvents(r), Terminal("Cancel")),
                     "cancelled", ops[r])
    BY <1>7 DEF BridgeCommitsCancel
  <2>4. Ordered(log'[r])
    BY <1>last, <2>1, <2>2, <2>3 DEF FlowOf
  <2>. QED
    BY <1>quiet, <2>1, <2>4
<1>8. CASE BridgeCancels(r)
  <2>1. bpc[r] = "cancel" /\ bpc'[r] = "cancelled" /\ UNCHANGED <<log, held>>
    BY <1>inv, <1>8 DEF BridgeCancels, BridgeAt, Goto, TypeOK, store
  <2>2. held[r] # None => Turn(held[r].event) = Cnt(r) + 1
    BY <2>1 DEF FlowOf
  <2>. QED
    BY <1>gone, <1>same, <2>1, <2>2
<1>9. CASE BridgeSendsHeld(r) \/ BridgeSendsLast(r) \/ BridgeClears(r)
  <2>1. log' = log
    BY <1>9 DEF BridgeSendsHeld, BridgeSendsLast, BridgeClears, store
  <2>2. bpc'[r] \in {"sendT", "done"}
    BY <1>inv, <1>9, <1>leave DEF BridgeSendsHeld, BridgeSendsLast, BridgeClears, Goto, TypeOK
  <2>. QED
    BY <1>quiet, <1>same, <2>1, <2>2
<1>. QED
  BY <1>1, <1>2, <1>3, <1>4, <1>5, <1>6, <1>7, <1>8, <1>9 DEF Bridge

LEMMA FlowSame ==
  ASSUME NEW r \in Runs, FlowOf(r), log'[r] = log[r], bpc'[r] = bpc[r], raw'[r] = raw[r],
         held'[r] = held[r], cur'[r] = cur[r], rpc'[r] = rpc[r], count'[r] = count[r],
         result'[r] = result[r]
  PROVE  FlowOf(r)'
<1>1. /\ Hand(r)' = Hand(r) /\ Sent(r)' = Sent(r) /\ Cnt(r)' = Cnt(r)
      /\ Live(r)' <=> Live(r)
  BY DEF Hand, HeldEvents, Sent, Cnt, Live
<1>2. Flow(r)' = Flow(r)
  BY <1>1 DEF Flow
<1>3. Ordered(log[r])' <=> Ordered(log[r])
  BY DEF Ordered, Steps, Dones
<1>. QED
  BY <1>1, <1>2, <1>3 DEF FlowOf

LEMMA FitsEmpty ==
  ASSUME NEW pc, NEW res, pc # "term"
  PROVE  Fits(<<>>, 0, 0, pc, res)
BY DEF Fits, InTurn, UpTo, Ending, Steps

\* A run that is about to start has nothing on its way.
LEMMA FlowStart ==
  ASSUME TaskInv, NEW r \in Runs, FlowOf(r), NEW i \in Instances, Stream(r, i)
  PROVE  FlowOf(r)' /\ Flow(r)' = <<>>
<1>. USE DEF TaskInv
<1>1. status[r] = "absent" /\ bpc[r] = "off" /\ rpc[r] = "off" /\ log[r] = <<>> /\ count[r] = 0
  BY DEF Stream, StartInv, RunnerInv
<1>2. raw[r] = <<>> /\ held[r] = None /\ Ordered(log[r])
  BY <1>1 DEF FlowOf
<1>3. /\ rpc'[r] = "open" /\ bpc'[r] = "recv"
      /\ UNCHANGED <<log, raw, held, count, result>>
  BY DEF Stream, TypeOK
<1>4. Flow(r)' = <<>>
  <2>1. Hand(r)' = <<>> \o <<>>
    BY <1>2, <1>3 DEF Hand, HeldEvents
  <2>2. Flow(r)' = (<<>> \o <<>>) \o <<>>
    BY <1>2, <1>3, <2>1 DEF Flow
  <2>. QED
    BY <2>2
<1>5. Cnt(r)' = 0 /\ Sent(r)' = 0
  <2>1. Steps(log'[r]) = {}
    BY <1>1, <1>3 DEF Steps
  <2>2. Cnt(r)' = 0
    BY <2>1, FS_EmptySet DEF Cnt
  <2>3. Sent(r)' = 0
    BY <1>1, <1>3 DEF Sent
  <2>. QED
    BY <2>2, <2>3
<1>6. Fits(Flow(r), Cnt(r), Sent(r), rpc[r], result[r])'
  BY <1>3, <1>4, <1>5, FitsEmpty
<1>. QED
  BY <1>2, <1>3, <1>4, <1>6 DEF FlowOf

LEMMA FlowStep ==
  ASSUME TaskInv, TaskInv', FlowInv, Next
  PROVE  FlowInv'
<1>. USE DEF TaskInv
<1>inv. TypeOK
  OBVIOUS
<1>1. ASSUME NEW r \in Runs, Runner(r) PROVE FlowInv'
  <2>1. FlowOf(r)'
    BY <1>1, FlowRunner DEF FlowInv
  <2>2. ASSUME NEW q \in Runs \ {r} PROVE FlowOf(q)'
    <3>1. /\ UNCHANGED <<log, bpc, cur, held>>
          /\ rpc'[q] = rpc[q] /\ count'[q] = count[q] /\ result'[q] = result[q] /\ raw'[q] = raw[q]
      BY <1>1, RunnerOwn DEF store, bridge
    <3>. QED
      BY <3>1, FlowSame DEF FlowInv
  <2>. QED
    BY <2>1, <2>2 DEF FlowInv
<1>2. ASSUME NEW r \in Runs, Bridge(r) PROVE FlowInv'
  <2>1. FlowOf(r)'
    BY <1>2, FlowBridge DEF FlowInv
  <2>2. ASSUME NEW q \in Runs \ {r} PROVE FlowOf(q)'
    <3>1. /\ UNCHANGED <<rpc, count, result>> /\ log'[q] = log[q]
          /\ bpc'[q] = bpc[q] /\ cur'[q] = cur[q] /\ held'[q] = held[q] /\ raw'[q] = raw[q]
      BY <1>2, BridgeOwn, BridgeStoresOwn DEF runner
    <3>. QED
      BY <3>1, FlowSame DEF FlowInv
  <2>. QED
    BY <2>1, <2>2 DEF FlowInv
<1>3. ASSUME NEW r \in Runs, NEW i \in Instances, Stream(r, i) PROVE FlowInv'
  <2>1. FlowOf(r)'
    BY <1>3, FlowStart DEF FlowInv
  <2>2. ASSUME NEW q \in Runs \ {r} PROVE FlowOf(q)'
    <3>1. /\ UNCHANGED <<log, raw, held, cur, count, result>>
          /\ rpc'[q] = rpc[q] /\ bpc'[q] = bpc[q]
      BY <1>inv, <1>3 DEF Stream, TypeOK
    <3>. QED
      BY <3>1, FlowSame DEF FlowInv
  <2>. QED
    BY <2>1, <2>2 DEF FlowInv
<1>4. ASSUME NEW r \in Runs, RenewFails(r) \/ CancelRun(r) \/ LeaseLapses(r) \/ StopListening(r)
      PROVE  FlowInv'
  <2>1. UNCHANGED <<log, bpc, raw, held, cur, rpc, count, result>>
    BY <1>4 DEF RenewFails, CancelRun, LeaseLapses, StopListening, EnvFrame, bridge
  <2>. QED
    BY <2>1, FlowSame DEF FlowInv
<1>5. ASSUME NEW r \in Runs, Reap(r) PROVE FlowInv'
  <2>1. /\ UNCHANGED <<bpc, raw, held, cur, rpc, count, result>>
        /\ log'[r] = Append(log[r], Terminal("Fail"))
        /\ \A q \in Runs \ {r} : log'[q] = log[q]
    BY <1>inv, <1>5 DEF Reap, EnvFrame, bridge, TypeOK
  <2>2. ASSUME NEW q \in Runs \ {r} PROVE FlowOf(q)'
    BY <2>1, FlowSame DEF FlowInv
  <2>3. FlowOf(r)
    BY DEF FlowInv
  <2>4. Ordered(log'[r]) /\ Cnt(r)' = Cnt(r)
    <3>1. Terminal("Fail") \in Event /\ ~IsStep(Terminal("Fail"))
      BY EventsMade DEF TerminalKinds, Terminal, IsStep
    <3>2. log[r] \in Seq(Event) /\ Ordered(log[r])
      BY <2>3, FlowType DEF FlowOf
    <3>. QED
      BY <2>1, <3>1, <3>2, OrderedGrows DEF Cnt
  <2>5. Hand(r)' = Hand(r) /\ Sent(r)' = Sent(r) /\ (Live(r)' <=> Live(r))
    BY <2>1 DEF Hand, HeldEvents, Sent, Live
  <2>6. Flow(r)' = Flow(r)
    BY <2>1, <2>5 DEF Flow
  <2>7. FlowOf(r)'
    BY <2>1, <2>3, <2>4, <2>5, <2>6 DEF FlowOf
  <2>. QED
    BY <2>2, <2>7 DEF FlowInv
<1>6. ASSUME NEW i \in Instances, Crash(i) PROVE FlowInv'
  <2>1. ASSUME NEW q \in Runs, home[q] = i PROVE FlowOf(q)'
    <3>1. bpc'[q] = "done" /\ log' = log
      BY <1>6, <2>1 DEF Crash, store
    <3>. QED
      BY <3>1 DEF FlowOf, FlowInv, Live
  <2>2. ASSUME NEW q \in Runs, home[q] # i PROVE FlowOf(q)'
    <3>1. /\ log' = log /\ bpc'[q] = bpc[q] /\ raw'[q] = raw[q] /\ held'[q] = held[q]
          /\ cur'[q] = cur[q] /\ rpc'[q] = rpc[q] /\ count'[q] = count[q] /\ result'[q] = result[q]
      BY <1>6, <2>2 DEF Crash, store
    <3>. QED
      BY <3>1, FlowSame DEF FlowInv
  <2>. QED
    BY <2>1, <2>2 DEF FlowInv
<1>7. CASE UNCHANGED vars
  BY <1>7, FlowSame DEF vars, store, runner, bridge, FlowInv
<1>. QED
  BY <1>1, <1>2, <1>3, <1>4, <1>5, <1>6, <1>7, StepOf

-----------------------------------------------------------------------------
(* The end of a log.                                                       *)

EndOf(r) ==
  /\ \A i \in DOMAIN log[r] : IsTerminal(log[r][i]) <=> Finished(r) /\ i = Len(log[r])
  /\ Finished(r) => Len(log[r]) > 0 /\ StatusOf(log[r][Len(log[r])].kind) = status[r]
  /\ status[r] \in {"completed", "interrupted"} =>
       IsFinal(log[r][Len(log[r]) - 1]) /\ ckpt # None /\ StepsDone(r) > 0
EndInv == \A r \in Runs : EndOf(r)

LEMMA EndSame ==
  ASSUME NEW r \in Runs, EndOf(r), log'[r] = log[r], status'[r] = status[r],
         ckpt # None => ckpt' # None
  PROVE  EndOf(r)'
BY DEF EndOf, Finished, StepsDone

\* A run ends with status st and the events evs.
LEMMA EndWith ==
  ASSUME TypeOK, TypeOK', NEW r \in Runs, EndOf(r), ~Finished(r), NEW e \in Event, IsTerminal(e),
         Finished(r)', status'[r] = StatusOf(e.kind), NEW h \in Event,
         \/ log'[r] = Append(log[r], e) /\ e.kind \notin {"Done", "Interrupt"}
         \/ IsFinal(h) /\ log'[r] = Append(Append(log[r], h), e) /\ ckpt' # None
  PROVE  EndOf(r)'
<1>1. log[r] \in Seq(Event) /\ \A i \in DOMAIN log[r] : ~IsTerminal(log[r][i])
  BY DEF EndOf, TypeOK
<1>2. e.kind \notin {"Done", "Interrupt"} => status'[r] \notin {"completed", "interrupted"}
  BY DEF IsTerminal, TerminalKinds, StatusOf
<1>3. CASE log'[r] = Append(log[r], e) /\ e.kind \notin {"Done", "Interrupt"}
  BY <1>1, <1>2, <1>3, Extended DEF EndOf
<1>4. CASE IsFinal(h) /\ log'[r] = Append(Append(log[r], h), e) /\ ckpt' # None
  <2>. DEFINE l == Append(log[r], h)
              n == Len(log[r])
  <2>1. /\ l \in Seq(Event) /\ Len(l) = n + 1 /\ n \in Nat /\ DOMAIN l = 1..(n + 1) /\ l[n + 1] = h
        /\ ~IsTerminal(h) /\ \A i \in DOMAIN l : ~IsTerminal(l[i])
    BY <1>1, <1>4, Extended, EventSorts
  <2>. HIDE DEF l, n
  <2>2. /\ Len(log'[r]) = n + 2 /\ DOMAIN log'[r] = 1..(n + 2)
        /\ log'[r][n + 2] = e /\ log'[r][n + 1] = h
        /\ \A i \in 1..(n + 1) : ~IsTerminal(log'[r][i])
    BY <1>4, <2>1 DEF l
  <2>3. StepsDone(r)' > 0
    <3>. DEFINE S == {i \in DOMAIN log'[r] : log'[r][i].kind = "StepDone"}
    <3>1. n + 1 \in S
      BY <1>4, <2>1, <2>2 DEF IsFinal
    <3>2. IsFiniteSet(1..(n + 2)) /\ S \in SUBSET (1..(n + 2))
      BY <2>1, <2>2, FS_Interval
    <3>3. Cardinality(S) \in Nat /\ Cardinality(S) # 0
      BY <3>1, <3>2, FS_Subset, FS_CardinalityType, FS_EmptySet
    <3>. QED
      BY <3>3 DEF StepsDone
  <2>4. (n + 2) - 1 = n + 1 /\ n + 2 > 0 /\ \A i \in 1..(n + 2) : i = n + 2 \/ i \in 1..(n + 1)
    BY <2>1
  <2>. QED
    BY <1>4, <2>2, <2>3, <2>4 DEF EndOf
<1>. QED
  BY <1>3, <1>4

\* A bridge that commits Done or Interrupt holds the final step.
LEMMA FinalHeld ==
  ASSUME TaskInv, NEW r \in Runs, FlowOf(r), bpc[r] = "finish", cur[r].kind \in {"Done", "Interrupt"}
  PROVE  /\ held[r] # None /\ IsFinal(held[r].event) /\ held[r].event \in Event
         /\ 1 \in DOMAIN Flow(r) /\ Flow(r)[1] = held[r].event
<1>. USE DEF TaskInv
<1>1. Ending(Flow(r)) /\ raw[r] \in Seq(Event) /\ cur[r] \in Event
  BY FlowType DEF FlowOf, Live, Fits, BridgeInv
<1>2. held[r] # None
  <2>1. SUFFICES ASSUME held[r] = None PROVE FALSE
    OBVIOUS
  <2>2. Flow(r) = (<<>> \o <<cur[r]>>) \o raw[r]
    BY <2>1 DEF Flow, Hand, HeldEvents
  <2>3. 1 \in DOMAIN Flow(r) /\ Flow(r)[1] = cur[r]
    BY <1>1, <2>2
  <2>. QED
    BY <1>1, <2>3 DEF Ending
<1>3. IsFinal(held[r].event) /\ held[r].event \in Event
  BY <1>2 DEF BridgeInv, TypeOK, PendingStep
<1>4. Flow(r) = (<<held[r].event>> \o <<cur[r]>>) \o raw[r]
  BY <1>2 DEF Flow, Hand, HeldEvents
<1>. QED
  BY <1>1, <1>2, <1>3, <1>4

LEMMA EndBridge ==
  ASSUME TaskInv, TaskInv', NEW r \in Runs, FlowOf(r), EndOf(r), Bridge(r)
  PROVE  EndOf(r)'
<1>. USE DEF TaskInv
<1>inv. TypeOK /\ TypeOK' /\ BridgeInv
  OBVIOUS
<1>1. CASE UNCHANGED <<status, log, ckpt, opsAt>>
  BY <1>1, EndSame
<1>2. ASSUME BridgeCommits(r), status[r] = "running", NEW taken,
             Written(r, HeldRecord(r), <<cur[r]>>, None, taken)
      PROVE  EndOf(r)'
  <2>1. cur[r] \in Event /\ ~IsTerminal(cur[r])
    BY <1>2 DEF BridgeCommits, BridgeAt, BridgeInv, IsProgress
  <2>2. log'[r] = Append(log[r], cur[r]) /\ log[r] \in Seq(Event)
    <3>1. log'[r] = log[r] \o <<cur[r]>> /\ log[r] \in Seq(Event)
      BY <1>inv, <1>2 DEF Written, TypeOK
    <3>. QED
      BY <2>1, <3>1
  <2>3. status'[r] = "running"
    BY <1>inv, <1>2 DEF Written, TypeOK
  <2>. QED
    BY <1>2, <2>1, <2>2, <2>3, Extended DEF EndOf, Finished
<1>last. ASSUME NEW e \in Event, IsTerminal(e), status[r] = "running",
                StatusOf(e.kind) \in RunStatus \ {"running"},
                Written(r, HeldRecord(r), Append(HeldEvents(r), e), StatusOf(e.kind), ops[r]),
                held[r] # None => IsFinal(held[r].event),
                e.kind \in {"Done", "Interrupt"} => held[r] # None
         PROVE  EndOf(r)'
  <2>1. /\ log'[r] = log[r] \o Append(HeldEvents(r), e) /\ log[r] \in Seq(Event)
        /\ status'[r] = StatusOf(e.kind)
    <3>1. StatusOf(e.kind) # None
      BY <1>last, NoneAssumption
    <3>. QED
      BY ZenonT(60), <1>inv, <1>last, <3>1 DEF Written, TypeOK
  <2>2. ~Finished(r) /\ Finished(r)'
    BY <1>last, <2>1 DEF Finished, RunStatus
  <2>3. CASE held[r] = None
    <3>1. log'[r] = Append(log[r], e)
      BY <2>1, <2>3 DEF HeldEvents
    <3>. QED
      BY <1>inv, <1>last, <2>1, <2>2, <2>3, <3>1, EndWith
  <2>4. CASE held[r] # None
    <3>1. held[r].event \in Event /\ held[r].record # None
      BY <1>inv, <2>4, NoneAssumption DEF TypeOK, PendingStep
    <3>2. log'[r] = Append(Append(log[r], held[r].event), e)
      BY <2>1, <2>4, <3>1 DEF HeldEvents
    <3>3. ckpt' # None
      BY <1>last, <2>4, <3>1 DEF Written, HeldRecord
    <3>. QED
      BY <1>inv, <1>last, <2>1, <2>2, <2>4, <3>1, <3>2, <3>3, EndWith
  <2>. QED
    BY <2>3, <2>4
<1>3. ASSUME BridgeFinishes(r), status[r] = "running",
             Written(r, HeldRecord(r), Append(HeldEvents(r), cur[r]), StatusOf(cur[r].kind), ops[r])
      PROVE  EndOf(r)'
  <2>1. bpc[r] = "finish" /\ cur[r] \in Event /\ IsTerminal(cur[r])
    BY <1>3 DEF BridgeFinishes, BridgeAt, BridgeInv
  <2>2. StatusOf(cur[r].kind) \in RunStatus \ {"running"}
    BY <2>1 DEF IsTerminal, TerminalKinds, StatusOf, RunStatus
  <2>3. held[r] # None => IsFinal(held[r].event)
    BY <2>1 DEF BridgeInv
  <2>4. cur[r].kind \in {"Done", "Interrupt"} => held[r] # None
    BY <2>1, FinalHeld
  <2>. QED
    BY <1>3, <1>last, <2>1, <2>2, <2>3, <2>4
<1>terminal. /\ Terminal("Fail") \in Event /\ IsTerminal(Terminal("Fail"))
             /\ StatusOf(Terminal("Fail").kind) = "error" /\ Terminal("Fail").kind = "Fail"
             /\ Terminal("Cancel") \in Event /\ IsTerminal(Terminal("Cancel"))
             /\ StatusOf(Terminal("Cancel").kind) = "cancelled" /\ Terminal("Cancel").kind = "Cancel"
             /\ {"error", "cancelled"} \subseteq RunStatus \ {"running"}
  BY EventsMade, EventSorts DEF TerminalKinds, StatusOf, RunStatus
<1>4. ASSUME BridgeFails(r), status[r] = "running",
             Written(r, HeldRecord(r), Append(HeldEvents(r), Terminal("Fail")), "error", ops[r])
      PROVE  EndOf(r)'
  <2>1. held[r] # None => IsFinal(held[r].event)
    BY <1>4 DEF BridgeFails, BridgeAt, BridgeInv
  <2>. QED
    BY <1>4, <1>last, <1>terminal, <2>1
<1>5. ASSUME BridgeCommitsCancel(r), status[r] = "running",
             Written(r, HeldRecord(r), Append(HeldEvents(r), Terminal("Cancel")), "cancelled", ops[r])
      PROVE  EndOf(r)'
  <2>1. held[r] # None => IsFinal(held[r].event)
    BY <1>5 DEF BridgeCommitsCancel, BridgeAt, BridgeInv
  <2>. QED
    BY <1>5, <1>last, <1>terminal, <2>1
<1>6. \/ UNCHANGED <<status, log, ckpt, opsAt>>
      \/ /\ status[r] = "running" /\ BridgeCommits(r)
         /\ \E taken : Written(r, HeldRecord(r), <<cur[r]>>, None, taken)
      \/ /\ status[r] = "running" /\ BridgeFinishes(r)
         /\ Written(r, HeldRecord(r), Append(HeldEvents(r), cur[r]), StatusOf(cur[r].kind), ops[r])
      \/ /\ status[r] = "running" /\ BridgeFails(r)
         /\ Written(r, HeldRecord(r), Append(HeldEvents(r), Terminal("Fail")), "error", ops[r])
      \/ /\ status[r] = "running" /\ BridgeCommitsCancel(r)
         /\ Written(r, HeldRecord(r), Append(HeldEvents(r), Terminal("Cancel")), "cancelled", ops[r])
  BY BridgeStores, Zenon
<1>. QED
  BY <1>1, <1>2, <1>3, <1>4, <1>5, <1>6

LEMMA EndStep ==
  ASSUME TaskInv, TaskInv', FlowInv, EndInv, Next
  PROVE  EndInv'
<1>. USE DEF TaskInv
<1>inv. TypeOK /\ StartInv
  OBVIOUS
<1>1. ASSUME NEW r \in Runs, Runner(r) PROVE EndInv'
  BY <1>1, RunnerOwn, EndSame DEF store, EndInv
<1>2. ASSUME NEW r \in Runs, Bridge(r) PROVE EndInv'
  <2>1. EndOf(r)'
    BY <1>2, EndBridge DEF FlowInv, EndInv
  <2>2. ckpt # None => ckpt' # None
    <3>1. Holds(r) => held[r].record \in Record
      BY <1>inv DEF Holds, TypeOK, PendingStep
    <3>2. ckpt' = ckpt \/ (Holds(r) /\ ckpt' = held[r].record)
      BY <1>2, BridgeCheckpoint
    <3>. QED
      BY <3>1, <3>2, NoneAssumption
  <2>3. ASSUME NEW q \in Runs \ {r} PROVE EndOf(q)'
    BY <1>2, <2>2, BridgeStoresOwn, EndSame DEF EndInv
  <2>. QED
    BY <2>1, <2>3 DEF EndInv
<1>3. ASSUME NEW r \in Runs, NEW i \in Instances, Stream(r, i) PROVE EndInv'
  <2>1. /\ log' = log /\ ckpt' = ckpt /\ log[r] = <<>> /\ status'[r] = "running"
        /\ \A q \in Runs \ {r} : status'[q] = status[q]
    BY <1>inv, <1>3 DEF Stream, StartInv, TypeOK
  <2>2. EndOf(r)'
    BY <2>1 DEF EndOf, Finished
  <2>. QED
    BY <2>1, <2>2, EndSame DEF EndInv
<1>4. ASSUME NEW r \in Runs, RenewFails(r) \/ CancelRun(r) \/ LeaseLapses(r) \/ StopListening(r)
      PROVE  EndInv'
  BY <1>4, EndSame DEF RenewFails, CancelRun, LeaseLapses, StopListening, EnvFrame, EndInv
<1>5. ASSUME NEW r \in Runs, Reap(r) PROVE EndInv'
  <2>1. /\ ckpt' = ckpt /\ status[r] = "running" /\ status'[r] = "error"
        /\ log'[r] = Append(log[r], Terminal("Fail"))
        /\ \A q \in Runs \ {r} : log'[q] = log[q] /\ status'[q] = status[q]
    BY <1>inv, <1>5 DEF Reap, EnvFrame, TypeOK
  <2>2. /\ Terminal("Fail") \in Event /\ IsTerminal(Terminal("Fail"))
        /\ Terminal("Fail").kind = "Fail" /\ StatusOf("Fail") = "error"
    BY EventsMade, EventSorts DEF TerminalKinds, StatusOf
  <2>3. ~Finished(r) /\ Finished(r)' /\ EndOf(r) /\ TypeOK'
    BY <2>1 DEF Finished, EndInv
  <2>4. EndOf(r)'
    BY <1>inv, <2>1, <2>2, <2>3, EndWith
  <2>. QED
    BY <2>1, <2>4, EndSame DEF EndInv
<1>6. ASSUME NEW i \in Instances, Crash(i) PROVE EndInv'
  BY <1>6, EndSame DEF Crash, store, EndInv
<1>7. CASE UNCHANGED vars
  BY <1>7, EndSame DEF vars, store, EndInv
<1>. QED
  BY <1>1, <1>2, <1>3, <1>4, <1>5, <1>6, <1>7, StepOf

\* Logs are well formed: the inductive invariant of LogGrammar.
StreamInv == FlowInv /\ EndInv

LEMMA StreamsCorrect == Spec => []StreamInv
<1>1. Init => StreamInv
  <2>1. ASSUME Init, NEW r \in Runs PROVE FlowOf(r) /\ EndOf(r)
    <3>1. log[r] = <<>> /\ raw[r] = <<>> /\ held[r] = None /\ bpc[r] = "off" /\ status[r] = "absent"
      BY <2>1 DEF Init
    <3>2. Ordered(log[r])
      <4>1. Steps(log[r]) = {} /\ {i \in DOMAIN log[r] : log[r][i].kind = "StepDone"} = {}
        BY <3>1 DEF Steps
      <4>2. Cardinality(Steps(log[r])) = 0 /\ Dones(log[r]) = 0
        BY <4>1, FS_EmptySet DEF Dones
      <4>. QED
        BY <4>1, <4>2 DEF Ordered
    <3>. QED
      BY <3>1, <3>2 DEF FlowOf, Live, EndOf, Finished
  <2>. QED
    BY <2>1 DEF StreamInv, FlowInv, EndInv
<1>2. TaskInv /\ TaskInv' /\ StreamInv /\ [Next]_vars => StreamInv'
  <2>1. ASSUME StreamInv, UNCHANGED vars PROVE StreamInv'
    BY <2>1, FlowSame, EndSame DEF StreamInv, FlowInv, EndInv, vars, store, runner, bridge
  <2>. QED
    BY <2>1, FlowStep, EndStep DEF StreamInv
<1>. QED
  BY <1>1, <1>2, TasksCorrect, PTL DEF Spec

\* LogInv: whatever is lost, cancelled, reaped or taken over, the steps of a
\* log are there in turn, a terminal event ends it exactly when the run is over,
\* and a run that succeeded has its final step right before that.
THEOREM LogsWellFormed == Spec => []LogInv
<1>1. StreamInv => LogGrammar
  BY DEF StreamInv, FlowInv, EndInv, FlowOf, EndOf, Ordered, LogGrammar
<1>. QED
  BY <1>1, StreamsCorrect, TypeCorrect, PTL DEF LogInv

-----------------------------------------------------------------------------
(* Operations.                                                             *)

\* The steps whose operations a run has committed, and with them those that wait.
Keys(r)   == {p[1] : p \in opsAt[r]}
Pushed(r) == Keys(r) \cup ops[r]
OpsTo(n)  == {k \in OpSteps : k <= n}

OpsOf(r) ==
  /\ \A p, q \in opsAt[r] : p[1] = q[1] => p = q
  /\ Keys(r) \cap ops[r] = {} /\ Pushed(r) \subseteq OpSteps
  /\ rpc[r] \notin {"term", "done"} =>
       \A k \in Pushed(r) : k <= count[r] /\ (rpc[r] = "trans" => k < count[r])
  /\ Live(r) /\ rpc[r] \notin {"term", "done"} =>
       \A k \in OpsTo(count[r]) : k \in Pushed(r) \/ (rpc[r] = "trans" /\ k = count[r])
  /\ Live(r) => \A i \in DOMAIN Flow(r) : IsFinal(Flow(r)[i]) => Pushed(r) = OpsTo(Flow(r)[i].n)
  /\ status[r] \in {"completed", "interrupted"} => Keys(r) = OpsTo(StepsDone(r))
OpsInv == \A r \in Runs : OpsOf(r)

LEMMA OpsSame ==
  ASSUME NEW r \in Runs, OpsOf(r), ops'[r] = ops[r], opsAt'[r] = opsAt[r], log'[r] = log[r],
         status'[r] = status[r], rpc'[r] = rpc[r], count'[r] = count[r],
         Live(r)' => Live(r) /\ Flow(r)' = Flow(r)
  PROVE  OpsOf(r)'
<1>1. Pushed(r)' = Pushed(r) /\ Keys(r)' = Keys(r) /\ StepsDone(r)' = StepsDone(r)
  BY DEF Pushed, Keys, StepsDone
<1>. QED
  BY <1>1 DEF OpsOf

\* The operations that wait go with a commit that is recorded.
LEMMA OpsTaken ==
  ASSUME TypeOK, NEW r \in Runs, OpsOf(r), NEW taken \in SUBSET ops[r],
         opsAt'[r] = opsAt[r] \cup {<<k, StepsDone(r)'>> : k \in taken},
         ops'[r] = ops[r] \ taken
  PROVE  /\ \A p, q \in opsAt'[r] : p[1] = q[1] => p = q
         /\ Keys(r)' = Keys(r) \cup taken /\ Keys(r)' \cap ops'[r] = {}
         /\ Pushed(r)' = Pushed(r)
<1>. DEFINE new == {<<k, StepsDone(r)'>> : k \in taken}
<1>1. \A p \in new : p[1] \in taken /\ p = <<p[1], StepsDone(r)'>>
  OBVIOUS
<1>2. \A k \in taken : \E p \in new : p[1] = k
  <2>1. \A k \in taken : <<k, StepsDone(r)'>> \in new /\ <<k, StepsDone(r)'>>[1] = k
    OBVIOUS
  <2>. QED
    BY <2>1, Zenon
<1>3. \A p \in opsAt[r] : p[1] \notin taken
  BY DEF OpsOf, Keys
<1>. HIDE DEF new
<1>4. opsAt'[r] = opsAt[r] \cup new
  BY DEF new
<1>5. ASSUME NEW p \in opsAt'[r], NEW q \in opsAt'[r], p[1] = q[1]
      PROVE  p = q
  <2>1. CASE p \in opsAt[r] /\ q \in opsAt[r]
    BY <1>5, <2>1 DEF OpsOf
  <2>2. CASE p \in new /\ q \in new
    BY <1>1, <1>5, <2>2
  <2>. QED
    BY <1>1, <1>3, <1>4, <1>5, <2>1, <2>2
<1>6. Keys(r)' = Keys(r) \cup taken
  <2>1. Keys(r)' = {p[1] : p \in opsAt[r] \cup new}
    BY <1>4 DEF Keys
  <2>. QED
    BY <1>1, <1>2, <2>1 DEF Keys
<1>7. Keys(r)' \cap ops'[r] = {}
  BY <1>6 DEF OpsOf
<1>8. Pushed(r)' = Pushed(r)
  BY <1>6 DEF Pushed
<1>. QED
  BY <1>5, <1>6, <1>7, <1>8

LEMMA RunnerOps ==
  ASSUME TaskInv, NEW r \in Runs, Runner(r)
  PROVE  /\ opsAt' = opsAt
         /\ \/ ops'[r] = ops[r]
            \/ /\ rpc[r] = "trans" /\ rpc'[r] = "acted" /\ count'[r] = count[r]
               /\ ops'[r] = ops[r] \cup {count[r]} /\ count[r] \in OpSteps
         /\ rpc[r] = "trans" /\ rpc'[r] = "acted" => ops'[r] = ops[r] \cup {count[r]}
         /\ rpc[r] = "trans" /\ rpc'[r] = "save" => count[r] \notin OpSteps
<1>. USE DEF TaskInv
<1>inv. TypeOK
  OBVIOUS
<1>return. ASSUME NEW kind, Return(r, kind) PROVE rpc'[r] = "term"
  BY <1>return, <1>inv DEF Return, TypeOK
<1>1. CASE RunnerPushes(r)
  BY <1>1, <1>inv DEF RunnerPushes, RunnerAt, TypeOK, store
<1>2. CASE RunnerTransits(r)
  <2>1. ops' = ops /\ opsAt' = opsAt
    BY <1>2 DEF RunnerTransits, RunnerFrame, store
  <2>2. CASE Return(r, "Fail")
    BY <1>return, <2>1, <2>2
  <2>3. CASE /\ count[r] \in OpSteps => RunnerAt(r, "acted")
             /\ rpc' = [rpc EXCEPT ![r] = "save"]
    BY <1>inv, <2>1, <2>3 DEF RunnerAt, TypeOK
  <2>. QED
    BY <1>2, <2>2, <2>3 DEF RunnerTransits
<1>3. CASE RunnerBeats(r)
  BY <1>3 DEF RunnerBeats, RunnerFrame, store
<1>4. CASE \/ RunnerQuits(r) \/ RunnerOpens(r) \/ RunnerLocks(r)
           \/ RunnerCancelled(r) \/ RunnerLoads(r) \/ RunnerSteps(r)
           \/ RunnerSaves(r) \/ RunnerFinishesStep(r) \/ RunnerEnds(r)
  <2>1. ops' = ops /\ opsAt' = opsAt
    BY <1>4 DEF RunnerQuits, RunnerOpens, RunnerLocks, RunnerCancelled, RunnerLoads, RunnerSteps,
                RunnerSaves, RunnerFinishesStep, RunnerEnds, RunnerFrame, store
  <2>2. rpc[r] = "trans" => rpc'[r] \in {"done", "term"}
    <3>1. RunnerQuits(r) => rpc'[r] = "done"
      BY <1>inv DEF RunnerQuits, Exit, TypeOK
    <3>2. RunnerCancelled(r) => rpc'[r] = "term"
      BY <1>return DEF RunnerCancelled
    <3>3. ASSUME ~RunnerQuits(r), ~RunnerCancelled(r) PROVE rpc[r] # "trans"
      BY <1>4, <3>3 DEF RunnerOpens, RunnerLocks, RunnerLoads, RunnerSteps,
                RunnerSaves, RunnerFinishesStep, RunnerEnds, RunnerAt
    <3>. QED
      BY <3>1, <3>2, <3>3
  <2>. QED
    BY <2>1, <2>2
<1>. QED
  BY <1>1, <1>2, <1>3, <1>4 DEF Runner

LEMMA OpsRunner ==
  ASSUME TaskInv, TaskInv', NEW r \in Runs, FlowOf(r), OpsOf(r), Runner(r)
  PROVE  OpsOf(r)'
<1>. USE DEF TaskInv
<1>1. /\ UNCHANGED <<log, status, opsAt, bpc, cur, held>> /\ Hand(r)' = Hand(r)
      /\ Live(r)' <=> Live(r)
  BY RunnerOwn DEF store, bridge, Hand, HeldEvents, Live
<1>2. /\ count[r] \in Nat /\ count'[r] \in Nat /\ \A k \in Pushed(r) : k \in Nat
      /\ \A n, k \in Nat : k \in OpsTo(n) => k \in OpSteps /\ k <= n
      /\ \A n : \A k \in OpsTo(n) : k \in Nat
  <2>1. \A k \in OpSteps : k \in Nat
    BY ConstantsAssumption
  <2>2. \A k \in Pushed(r) : k \in Nat
    BY DEF Pushed, Keys, TypeOK
  <2>3. count[r] \in Nat /\ count'[r] \in Nat
    BY ConstantsAssumption DEF TypeOK
  <2>. QED
    BY <2>1, <2>2, <2>3 DEF OpsTo
<1>keys. Keys(r)' = Keys(r) /\ StepsDone(r)' = StepsDone(r)
  BY <1>1 DEF Keys, StepsDone
<1>3. Keys(r)' \cap ops'[r] = {}
  <2>1. CASE ops'[r] = ops[r]
    BY <1>keys, <2>1 DEF OpsOf
  <2>2. CASE rpc[r] = "trans" /\ ops'[r] = ops[r] \cup {count[r]}
    <3>1. count[r] \notin Keys(r)
      BY <1>2, <2>2 DEF OpsOf, Pushed
    <3>. QED
      BY <1>keys, <2>2, <3>1 DEF OpsOf
  <2>. QED
    BY <2>1, <2>2, RunnerOps
<1>4. \/ Pushed(r)' = Pushed(r)
      \/ /\ rpc[r] = "trans" /\ rpc'[r] = "acted" /\ count'[r] = count[r]
         /\ Pushed(r)' = Pushed(r) \cup {count[r]}
  BY <1>keys, RunnerOps DEF Pushed
<1>pushed. Pushed(r)' \subseteq OpSteps
  BY <1>keys, RunnerOps DEF OpsOf, Pushed
<1>acted. rpc[r] = "trans" /\ rpc'[r] = "acted" => count[r] \in Pushed(r)'
  BY RunnerOps DEF Pushed
<1>5. ASSUME rpc'[r] \notin {"term", "done"}
      PROVE  /\ \A k \in Pushed(r)' : k <= count'[r] /\ (rpc'[r] = "trans" => k < count'[r])
             /\ Live(r) => \A k \in OpsTo(count'[r]) :
                             k \in Pushed(r)' \/ (rpc'[r] = "trans" /\ k = count'[r])
  <2>1. rpc[r] \notin {"term", "done"}
    BY <1>5, RunnerMoves, RunnerOwn
  <2>2. /\ \A k \in Pushed(r) : k <= count[r] /\ (rpc[r] = "trans" => k < count[r])
        /\ Live(r) => \A k \in OpsTo(count[r]) :
                        k \in Pushed(r) \/ (rpc[r] = "trans" /\ k = count[r])
    BY <2>1 DEF OpsOf
  <2>3. CASE rpc[r] = "step" /\ rpc'[r] = "trans" /\ count'[r] = count[r] + 1
    <3>1. Pushed(r)' = Pushed(r)
      BY <1>4, <2>3
    <3>2. \A k \in OpsTo(count'[r]) : k = count'[r] \/ k \in OpsTo(count[r])
      BY <1>2, <2>3 DEF OpsTo
    <3>. QED
      BY <1>2, <2>2, <2>3, <3>1, <3>2
  <2>4. CASE rpc[r] = "trans" /\ rpc'[r] = "acted" /\ count'[r] = count[r]
    BY <1>2, <1>4, <1>acted, <2>2, <2>4
  <2>5. CASE rpc[r] \in {"trans", "acted"} /\ rpc'[r] = "save" /\ count'[r] = count[r]
    <3>1. Pushed(r)' = Pushed(r)
      BY <1>4, <2>5
    <3>2. rpc[r] = "trans" => count[r] \notin OpsTo(count[r])
      BY <2>5, RunnerOps DEF OpsTo
    <3>. QED
      BY <2>2, <2>5, <3>1, <3>2
  <2>6. CASE rpc'[r] = rpc[r] /\ count'[r] = count[r]
    BY <1>4, <2>2, <2>6
  <2>7. CASE /\ count'[r] = count[r] /\ rpc[r] # "trans" /\ rpc'[r] # "trans"
    BY <1>4, <2>2, <2>7
  <2>. QED
    BY <1>5, <2>3, <2>4, <2>5, <2>6, <2>7, RunnerMoves
<1>6. ASSUME Live(r), NEW i \in DOMAIN Flow(r)', IsFinal(Flow(r)'[i])
      PROVE  Pushed(r)' = OpsTo(Flow(r)'[i].n)
  <2>. DEFINE F == Flow(r)
  <2>1. /\ Fits(F, Cnt(r), Sent(r), rpc[r], result[r]) /\ bpc[r] # "done" /\ F \in Seq(Event)
        /\ raw[r] \in Seq(Event) /\ Hand(r) \in Seq(Event)
    BY <1>6, FlowType DEF FlowOf, Live
  <2>2. ASSUME NEW e \in Event, raw'[r] = Append(raw[r], e)
        PROVE  Flow(r)' = Append(F, e)
    <3>1. Flow(r)' = Hand(r) \o Append(raw[r], e)
      BY <1>1, <2>2 DEF Flow
    <3>. QED
      BY <2>1, <3>1 DEF Flow
  <2>3. ASSUME i \in DOMAIN F, Flow(r)'[i] = F[i]
        PROVE  Pushed(r)' = OpsTo(Flow(r)'[i].n)
    <3>1. rpc[r] \in {"term", "done"}
      BY <1>6, <2>1, <2>3 DEF Fits
    <3>2. Pushed(r)' = Pushed(r)
      BY <1>4, <3>1
    <3>. QED
      BY <1>6, <2>3, <3>2 DEF OpsOf
  <2>4. CASE raw'[r] = raw[r]
    <3>1. Flow(r)' = F
      BY <1>1, <2>4 DEF Flow
    <3>. QED
      BY <1>6, <2>3, <3>1
  <2>5. ASSUME NEW e \in Event, raw'[r] = Append(raw[r], e),
               IsFinal(e) => rpc[r] = "fin" /\ rpc'[r] = "term" /\ e.n = count[r]
        PROVE  Pushed(r)' = OpsTo(Flow(r)'[i].n)
    <3>1. Flow(r)' = Append(F, e)
      BY <2>2, <2>5
    <3>. HIDE DEF F
    <3>2. CASE i \in DOMAIN F
      <4>1. Append(F, e)[i] = F[i]
        BY <2>1, <3>2, Extended
      <4>2. Flow(r)'[i] = F[i]
        BY <3>1, <4>1
      <4>. QED
        BY <2>3, <3>2, <4>2
    <3>3. CASE i \notin DOMAIN F
      <4>1. Flow(r)'[i] = e
        BY <1>6, <2>1, <3>1, <3>3, Extended
      <4>2. rpc[r] = "fin" /\ e.n = count[r]
        BY <1>6, <2>5, <4>1
      <4>3. Pushed(r)' = Pushed(r)
        BY <1>4, <4>2
      <4>4. Pushed(r) \subseteq OpsTo(count[r])
        <5>1. \A k \in Pushed(r) : k <= count[r]
          BY <4>2 DEF OpsOf
        <5>2. Pushed(r) \subseteq OpSteps
          BY DEF OpsOf
        <5>. QED
          BY <5>1, <5>2 DEF OpsTo
      <4>5. OpsTo(count[r]) \subseteq Pushed(r)
        BY <1>6, <4>2 DEF OpsOf
      <4>6. Pushed(r) = OpsTo(count[r])
        BY <4>4, <4>5
      <4>7. Flow(r)'[i].n = count[r]
        BY <4>1, <4>2
      <4>. QED
        BY <4>3, <4>6, <4>7, Zenon
    <3>. QED
      BY <3>2, <3>3
  <2>6. \A k \in TerminalKinds : Terminal(k) \in Event /\ ~IsFinal(Terminal(k))
    BY EventsMade, EventSorts DEF IsFinal
  <2>. QED
    BY <2>1, <2>4, <2>5, <2>6, RunnerSends
<1>. QED
  BY <1>1, <1>keys, <1>3, <1>pushed, <1>5, <1>6 DEF OpsOf

\* The last step a successful run commits is the last its log shows as done.
LEMMA DoneUpTo ==
  ASSUME TaskInv, NEW r \in Runs, FlowOf(r), bpc[r] = "finish", held[r] # None,
         IsFinal(held[r].event), cur[r] \in Event, ~IsStep(cur[r]),
         log'[r] = log[r] \o Append(HeldEvents(r), cur[r])
  PROVE  StepsDone(r)' = held[r].event.n
<1>. USE DEF TaskInv
<1>. DEFINE h == held[r].event
            l == Append(log[r], h)
<1>1. /\ log[r] \in Seq(Event) /\ Ordered(log[r]) /\ Cnt(r) \in Nat
  BY FlowType DEF FlowOf
<1>2. h \in Event /\ Turn(h) = Cnt(r) + 1
  BY HeldNext
<1>3. h.kind = "StepDone" /\ h.n \in Nat /\ Turn(h) = 2 * h.n
  BY <1>2, EventFields, ConstantsAssumption DEF IsFinal, Turn
<1>4. l \in Seq(Event)
  BY <1>1, <1>2
<1>5. log'[r] = Append(l, cur[r])
  BY <1>1, <1>2 DEF HeldEvents
<1>6. Dones(l) = Dones(log[r]) + 1 /\ Ordered(l) /\ Dones(log[r]) \in Nat
  <2>. HIDE DEF h
  <2>. QED
    BY <1>1, <1>2, <1>3, OrderedGrows DEF Cnt
<1>. HIDE DEF h, l
<1>7. Dones(log'[r]) = Dones(l)
  BY <1>4, <1>5, <1>6, OrderedGrows DEF IsStep
<1>8. Cnt(r) \in {2 * Dones(log[r]), 2 * Dones(log[r]) + 1}
  BY <1>1 DEF Ordered, Cnt
<1>9. h.n = Dones(log[r]) + 1
  BY <1>1, <1>2, <1>3, <1>6, <1>8
<1>10. StepsDone(r)' = Dones(log'[r])
  BY DEF StepsDone, Dones
<1>. QED
  BY <1>6, <1>7, <1>9, <1>10 DEF h

LEMMA OpsBridge ==
  ASSUME TaskInv, TaskInv', NEW r \in Runs, FlowOf(r), OpsOf(r), Bridge(r)
  PROVE  OpsOf(r)'
<1>. USE DEF TaskInv
<1>inv. TypeOK /\ BridgeInv
  OBVIOUS
<1>runner. rpc' = rpc /\ count' = count
  BY BridgeOwn DEF runner
<1>keep. ASSUME \A p, q \in opsAt'[r] : p[1] = q[1] => p = q,
                Keys(r)' \cap ops'[r] = {}, Pushed(r)' \subseteq Pushed(r),
                Live(r)' => Pushed(r)' = Pushed(r),
                status'[r] \in {"completed", "interrupted"} => Keys(r)' = OpsTo(StepsDone(r)')
         PROVE  OpsOf(r)'
  <2>1. ASSUME Live(r)', NEW i \in DOMAIN Flow(r)', IsFinal(Flow(r)'[i])
        PROVE  Pushed(r)' = OpsTo(Flow(r)'[i].n)
    <3>1. \A j \in DOMAIN Flow(r) : IsFinal(Flow(r)[j]) => Pushed(r) = OpsTo(Flow(r)[j].n)
      BY <2>1, FlowBridge DEF OpsOf, Carried
    <3>2. \E j \in DOMAIN Flow(r) : Flow(r)[j] = Flow(r)'[i]
      <4>1. CASE Flow(r)' = Flow(r)
        BY <2>1, <4>1
      <4>2. CASE Flow(r) # <<>> /\ Flow(r)' = Tail(Flow(r))
        <5>1. Flow(r) \in Seq(Event)
          BY FlowType
        <5>2. i + 1 \in DOMAIN Flow(r) /\ Tail(Flow(r))[i] = Flow(r)[i + 1]
          BY <2>1, <4>2, <5>1, HeadTail
        <5>. QED
          BY <4>2, <5>2
      <4>. QED
        BY <2>1, <4>1, <4>2, FlowBridge DEF Carried
    <3>. QED
      BY <1>keep, <2>1, <3>1, <3>2
  <2>2. Live(r)' => Live(r)
    BY FlowBridge DEF Carried
  <2>. QED
    BY <1>keep, <1>runner, <2>1, <2>2 DEF OpsOf
<1>same. ASSUME ops'[r] = ops[r], UNCHANGED <<opsAt, log, status>>
         PROVE  OpsOf(r)'
  <2>1. Keys(r)' = Keys(r) /\ Pushed(r)' = Pushed(r) /\ StepsDone(r)' = StepsDone(r)
    BY <1>same DEF Keys, Pushed, StepsDone
  <2>. QED
    BY <1>keep, <1>same, <2>1 DEF OpsOf
<1>refused. ASSUME UNCHANGED store, ops'[r] \subseteq ops[r], ~Live(r)'
            PROVE  OpsOf(r)'
  <2>1. /\ Keys(r)' = Keys(r) /\ StepsDone(r)' = StepsDone(r) /\ opsAt' = opsAt /\ status' = status
    BY <1>refused DEF Keys, StepsDone, store
  <2>2. Pushed(r)' \subseteq Pushed(r) /\ Keys(r)' \cap ops'[r] = {}
    BY <1>refused, <2>1 DEF Pushed, OpsOf
  <2>. QED
    BY <1>keep, <1>refused, <2>1, <2>2 DEF OpsOf
<1>1. CASE UNCHANGED <<store, ops>>
  BY <1>1, <1>same DEF store
<1>2. CASE BridgeCommits(r)
  <2>. DEFINE taken == IF held[r] = None THEN {} ELSE ops[r]
  <2>1. bpc[r] = "commit" /\ status[r] \notin {"absent"} /\ ops'[r] = ops[r] \ taken /\ taken \subseteq ops[r]
    BY <1>2, <1>inv DEF BridgeCommits, BridgeAt, StartInv, TypeOK
  <2>2. \/ UNCHANGED store /\ Commit(r, HeldRecord(r), None # None) # "recorded"
        \/ Written(r, HeldRecord(r), <<cur[r]>>, None, taken)
    BY <1>inv, <1>2, CommitOutcome, Zenon DEF BridgeCommits
  <2>3. CASE UNCHANGED store /\ Commit(r, HeldRecord(r), None # None) # "recorded"
    <3>1. (None # None) = FALSE
      OBVIOUS
    <3>2. Commit(r, HeldRecord(r), FALSE) # "recorded"
      BY <2>3, <3>1, Zenon
    <3>3. bpc' = [bpc EXCEPT ![r] = IF Commit(r, HeldRecord(r), FALSE) = "recorded"
                                     THEN "send" ELSE "fail"]
      BY <1>2, Zenon DEF BridgeCommits, Goto
    <3>4. bpc'[r] = IF Commit(r, HeldRecord(r), FALSE) = "recorded" THEN "send" ELSE "fail"
      BY <1>inv, <3>3 DEF TypeOK
    <3>5. bpc'[r] = "fail"
      BY <3>2, <3>4, Zenon
    <3>. QED
      BY <1>refused, <2>1, <2>3, <3>5 DEF Live
  <2>4. CASE Written(r, HeldRecord(r), <<cur[r]>>, None, taken)
    <3>. HIDE DEF taken
    <3>1. /\ status'[r] = status[r] /\ ~Finished(r)
          /\ opsAt'[r] = opsAt[r] \cup {<<k, StepsDone(r)'>> : k \in taken}
      BY <1>inv, <2>4 DEF Written, TypeOK
    <3>2. /\ \A p, q \in opsAt'[r] : p[1] = q[1] => p = q
          /\ Keys(r)' \cap ops'[r] = {} /\ Pushed(r)' = Pushed(r)
      BY <1>inv, <2>1, <3>1, OpsTaken
    <3>. QED
      BY <1>keep, <3>1, <3>2 DEF Finished
  <2>. QED
    BY <2>2, <2>3, <2>4
<1>last. ASSUME NEW e, NEW st \in RunStatus, ops'[r] = {}, ~Live(r)',
                CommitEvents(r, HeldRecord(r), Append(HeldEvents(r), e), st, ops[r]),
                (st \in {"completed", "interrupted"} /\ log'[r] = log[r] \o Append(HeldEvents(r), e))
                  => Pushed(r) = OpsTo(StepsDone(r)')
         PROVE  OpsOf(r)'
  <2>1. \/ UNCHANGED store
        \/ Written(r, HeldRecord(r), Append(HeldEvents(r), e), st, ops[r]) /\ status'[r] = st
    BY <1>inv, <1>last, FinishOutcome, Zenon
  <2>2. CASE UNCHANGED store
    BY <1>last, <1>refused, <2>2
  <2>3. CASE Written(r, HeldRecord(r), Append(HeldEvents(r), e), st, ops[r]) /\ status'[r] = st
    <3>1. /\ opsAt'[r] = opsAt[r] \cup {<<k, StepsDone(r)'>> : k \in ops[r]}
          /\ log'[r] = log[r] \o Append(HeldEvents(r), e)
      BY <1>inv, <2>3 DEF Written, TypeOK
    <3>2. ops'[r] = ops[r] \ ops[r]
      BY <1>last
    <3>3. /\ \A p, q \in opsAt'[r] : p[1] = q[1] => p = q
          /\ Keys(r)' = Keys(r) \cup ops[r] /\ Keys(r)' \cap ops'[r] = {}
          /\ Pushed(r)' = Pushed(r)
      BY <1>inv, <3>1, <3>2, OpsTaken
    <3>4. status'[r] \in {"completed", "interrupted"} => Keys(r)' = OpsTo(StepsDone(r)')
      BY <1>last, <2>3, <3>1, <3>3 DEF Pushed
    <3>. QED
      BY <1>keep, <1>last, <3>3, <3>4
  <2>. QED
    BY <2>1, <2>2, <2>3
<1>3. CASE BridgeFinishes(r)
  <2>1. /\ bpc[r] = "finish" /\ cur[r] \in Event /\ IsTerminal(cur[r]) /\ ops'[r] = {}
        /\ StatusOf(cur[r].kind) \in RunStatus
        /\ StatusOf(cur[r].kind) \in {"completed", "interrupted"}
             => cur[r].kind \in {"Done", "Interrupt"}
    <3>1. bpc[r] = "finish" /\ cur[r] \in Event /\ IsTerminal(cur[r]) /\ ops'[r] = {}
      BY <1>inv, <1>3 DEF BridgeFinishes, BridgeAt, BridgeInv, TypeOK
    <3>. QED
      BY <3>1 DEF IsTerminal, TerminalKinds, StatusOf, RunStatus
  <2>2. ~Live(r)'
    <3>1. bpc'[r] \in {"sendF", "sendT", "fail"}
      <4>1. bpc' = [bpc EXCEPT ![r] =
              CASE ~(Commit(r, HeldRecord(r), TRUE) \in {"recorded", "already"}) -> "fail"
                [] (Commit(r, HeldRecord(r), TRUE) \in {"recorded", "already"}) /\ held[r] # None -> "sendF"
                [] OTHER -> "sendT"]
        BY <1>3, Zenon DEF BridgeFinishes, Goto
      <4>. DEFINE ok == Commit(r, HeldRecord(r), TRUE) \in {"recorded", "already"}
      <4>2. bpc' = [bpc EXCEPT ![r] = CASE ~ok -> "fail" [] ok /\ held[r] # None -> "sendF"
                                        [] OTHER -> "sendT"]
        BY <4>1, Zenon
      <4>. HIDE DEF ok
      <4>. QED
        BY <1>inv, <4>2 DEF TypeOK
    <3>. QED
      BY <3>1 DEF Live
  <2>3. ASSUME StatusOf(cur[r].kind) \in {"completed", "interrupted"},
               log'[r] = log[r] \o Append(HeldEvents(r), cur[r])
        PROVE  Pushed(r) = OpsTo(StepsDone(r)')
    <3>1. /\ held[r] # None /\ IsFinal(held[r].event)
          /\ 1 \in DOMAIN Flow(r) /\ Flow(r)[1] = held[r].event
      BY <2>1, <2>3, FinalHeld
    <3>2. Pushed(r) = OpsTo(held[r].event.n)
      BY <2>1, <3>1 DEF OpsOf, Live
    <3>3. ~IsStep(cur[r])
      BY <2>1 DEF IsTerminal, TerminalKinds, IsStep
    <3>4. StepsDone(r)' = held[r].event.n
      BY <2>1, <2>3, <3>1, <3>3, DoneUpTo
    <3>. QED
      BY <3>2, <3>4
  <2>4. CommitEvents(r, HeldRecord(r), Append(HeldEvents(r), cur[r]), StatusOf(cur[r].kind), ops[r])
    BY <1>3 DEF BridgeFinishes
  <2>. QED
    BY <1>last, <2>1, <2>2, <2>3, <2>4
<1>4. CASE BridgeFails(r)
  <2>1. bpc'[r] = "sendX" /\ ops'[r] = {} /\ "error" \in RunStatus
    BY <1>inv, <1>4 DEF BridgeFails, Goto, TypeOK, RunStatus
  <2>2. CommitEvents(r, HeldRecord(r), Append(HeldEvents(r), Terminal("Fail")), "error", ops[r])
    BY <1>4 DEF BridgeFails
  <2>. QED
    BY <1>last, <2>1, <2>2 DEF Live
<1>5. CASE BridgeCommitsCancel(r)
  <2>1. bpc'[r] = "clear" /\ ops'[r] = {} /\ "cancelled" \in RunStatus
    BY <1>inv, <1>5 DEF BridgeCommitsCancel, Goto, TypeOK, RunStatus
  <2>2. CommitEvents(r, HeldRecord(r), Append(HeldEvents(r), Terminal("Cancel")),
                     "cancelled", ops[r])
    BY <1>5 DEF BridgeCommitsCancel
  <2>. QED
    BY <1>last, <2>1, <2>2 DEF Live
<1>. QED
  BY <1>1, <1>2, <1>3, <1>4, <1>5
     DEF Bridge, BridgeReceives, BridgeSelects, BridgeTakes, BridgeSends, BridgeSendsHeld,
         BridgeSendsLast, BridgeCancels, BridgeClears

LEMMA OpsStep ==
  ASSUME TaskInv, TaskInv', FlowInv, OpsInv, Next
  PROVE  OpsInv'
<1>. USE DEF TaskInv
<1>inv. TypeOK /\ StartInv /\ RunnerInv
  OBVIOUS
<1>flow. ASSUME NEW q \in Runs, bpc'[q] = bpc[q], cur'[q] = cur[q], held'[q] = held[q],
                raw'[q] = raw[q]
         PROVE  Live(q)' => Live(q) /\ Flow(q)' = Flow(q)
  <2>1. Hand(q)' = Hand(q) /\ (Live(q)' => Live(q))
    BY <1>flow DEF Hand, HeldEvents, Live
  <2>. QED
    BY <1>flow, <2>1 DEF Flow
<1>1. ASSUME NEW r \in Runs, Runner(r) PROVE OpsInv'
  <2>1. OpsOf(r)'
    BY <1>1, OpsRunner DEF FlowInv, OpsInv
  <2>2. ASSUME NEW q \in Runs \ {r} PROVE OpsOf(q)'
    <3>1. /\ UNCHANGED <<status, log, opsAt, bpc, cur, held>> /\ raw'[q] = raw[q]
          /\ rpc'[q] = rpc[q] /\ count'[q] = count[q] /\ ops'[q] = ops[q]
      BY <1>1, RunnerOwn DEF store, bridge
    <3>. QED
      BY <1>flow, <3>1, OpsSame DEF OpsInv
  <2>. QED
    BY <2>1, <2>2 DEF OpsInv
<1>2. ASSUME NEW r \in Runs, Bridge(r) PROVE OpsInv'
  <2>1. OpsOf(r)'
    BY <1>2, OpsBridge DEF FlowInv, OpsInv
  <2>2. ASSUME NEW q \in Runs \ {r} PROVE OpsOf(q)'
    <3>1. /\ UNCHANGED <<rpc, count>> /\ ops'[q] = ops[q]
          /\ bpc'[q] = bpc[q] /\ cur'[q] = cur[q] /\ held'[q] = held[q] /\ raw'[q] = raw[q]
      BY <1>2, BridgeOwn DEF runner
    <3>2. log'[q] = log[q] /\ status'[q] = status[q] /\ opsAt'[q] = opsAt[q]
      BY <1>2, BridgeStoresOwn
    <3>. QED
      BY <1>flow, <3>1, <3>2, OpsSame DEF OpsInv
  <2>. QED
    BY <2>1, <2>2 DEF OpsInv
<1>3. ASSUME NEW r \in Runs, NEW i \in Instances, Stream(r, i) PROVE OpsInv'
  <2>1. OpsOf(r)'
    <3>1. /\ rpc[r] = "off" /\ count[r] = 0 /\ rpc'[r] = "open" /\ status'[r] = "running"
          /\ UNCHANGED <<ops, opsAt, count>>
      BY <1>inv, <1>3 DEF Stream, StartInv, RunnerInv, TypeOK
    <3>2. Pushed(r)' = Pushed(r) /\ Keys(r)' = Keys(r)
      BY <3>1 DEF Pushed, Keys
    <3>3. OpsTo(0) = {}
      <4>1. \A k \in OpSteps : ~(k <= 0)
        BY ConstantsAssumption
      <4>. QED
        BY <4>1 DEF OpsTo
    <3>4. Flow(r)' = <<>>
      BY <1>3, FlowStart DEF FlowInv
    <3>5. OpsOf(r)
      BY DEF OpsInv
    <3>. QED
      BY <3>1, <3>2, <3>3, <3>4, <3>5 DEF OpsOf
  <2>2. ASSUME NEW q \in Runs \ {r} PROVE OpsOf(q)'
    <3>1. /\ UNCHANGED <<log, opsAt, raw, held, cur, count, ops>>
          /\ rpc'[q] = rpc[q] /\ bpc'[q] = bpc[q] /\ status'[q] = status[q]
      BY <1>inv, <1>3 DEF Stream, TypeOK
    <3>. QED
      BY <1>flow, <3>1, OpsSame DEF OpsInv
  <2>. QED
    BY <2>1, <2>2 DEF OpsInv
<1>4. ASSUME NEW r \in Runs, RenewFails(r) \/ CancelRun(r) \/ LeaseLapses(r) \/ StopListening(r)
      PROVE  OpsInv'
  <2>1. UNCHANGED <<status, log, opsAt, bpc, raw, held, cur, rpc, count, ops>>
    BY <1>4 DEF RenewFails, CancelRun, LeaseLapses, StopListening, EnvFrame, bridge
  <2>. QED
    BY <1>flow, <2>1, OpsSame DEF OpsInv
<1>5. ASSUME NEW r \in Runs, Reap(r) PROVE OpsInv'
  <2>1. /\ UNCHANGED <<opsAt, bpc, raw, held, cur, rpc, count, ops>>
        /\ status'[r] = "error"
        /\ \A q \in Runs \ {r} : log'[q] = log[q] /\ status'[q] = status[q]
    BY <1>inv, <1>5 DEF Reap, EnvFrame, bridge, TypeOK
  <2>2. OpsOf(r)'
    <3>1. Pushed(r)' = Pushed(r) /\ Keys(r)' = Keys(r) /\ (Live(r)' => Live(r) /\ Flow(r)' = Flow(r))
      BY <1>flow, <2>1 DEF Pushed, Keys
    <3>2. OpsOf(r)
      BY DEF OpsInv
    <3>. QED
      BY <2>1, <3>1, <3>2 DEF OpsOf
  <2>. QED
    BY <1>flow, <2>1, <2>2, OpsSame DEF OpsInv
<1>6. ASSUME NEW i \in Instances, Crash(i) PROVE OpsInv'
  <2>1. ASSUME NEW q \in Runs, home[q] = i PROVE OpsOf(q)'
    <3>1. bpc'[q] = "done" /\ rpc'[q] = "done" /\ ops'[q] = {} /\ UNCHANGED <<log, status, opsAt>>
      BY <1>6, <2>1 DEF Crash, store
    <3>2. Keys(q)' = Keys(q) /\ StepsDone(q)' = StepsDone(q) /\ Pushed(q)' \subseteq Pushed(q)
      BY <3>1 DEF Keys, StepsDone, Pushed
    <3>3. OpsOf(q) /\ ~Live(q)'
      BY <3>1 DEF OpsInv, Live
    <3>. QED
      BY <3>1, <3>2, <3>3 DEF OpsOf
  <2>2. ASSUME NEW q \in Runs, home[q] # i PROVE OpsOf(q)'
    <3>1. /\ UNCHANGED <<log, status, opsAt>> /\ bpc'[q] = bpc[q] /\ raw'[q] = raw[q]
          /\ held'[q] = held[q] /\ cur'[q] = cur[q] /\ rpc'[q] = rpc[q] /\ count'[q] = count[q]
          /\ ops'[q] = ops[q]
      BY <1>6, <2>2 DEF Crash, store
    <3>. QED
      BY <1>flow, <3>1, OpsSame DEF OpsInv
  <2>. QED
    BY <2>1, <2>2 DEF OpsInv
<1>7. CASE UNCHANGED vars
  <2>1. UNCHANGED <<status, log, opsAt, bpc, raw, held, cur, rpc, count, ops>>
    BY <1>7 DEF vars, store, runner, bridge
  <2>. QED
    BY <1>flow, <2>1, OpsSame DEF OpsInv
<1>. QED
  BY <1>1, <1>2, <1>3, <1>4, <1>5, <1>6, <1>7, StepOf

\* OpsCommitted: an operation a step pushed is committed at most once, and a run
\* that succeeds has committed those of all its steps and no others.
THEOREM OperationsCommittedOnce == Spec => []OpsCommitted
<1>1. Init => OpsInv
  BY DEF Init, OpsInv, OpsOf, Keys, Pushed, Live
<1>2. TaskInv /\ TaskInv' /\ StreamInv /\ OpsInv /\ [Next]_vars => OpsInv'
  <2>1. ASSUME OpsInv, UNCHANGED vars PROVE OpsInv'
    <3>1. UNCHANGED <<status, log, opsAt, bpc, raw, held, cur, rpc, count, ops>>
      BY <2>1 DEF vars, store, runner, bridge
    <3>2. ASSUME NEW r \in Runs PROVE Live(r)' => Live(r) /\ Flow(r)' = Flow(r)
      <4>1. Hand(r)' = Hand(r) /\ (Live(r)' => Live(r))
        BY <3>1 DEF Hand, HeldEvents, Live
      <4>. QED
        BY <3>1, <4>1 DEF Flow
    <3>. QED
      BY <2>1, <3>1, <3>2, OpsSame DEF OpsInv
  <2>. QED
    BY <2>1, OpsStep DEF StreamInv
<1>3. OpsInv => OpsCommitted
  BY DEF OpsInv, OpsOf, OpsCommitted, Keys, OpsTo
<1>. QED
  BY <1>1, <1>2, <1>3, TasksCorrect, StreamsCorrect, PTL DEF Spec
=============================================================================
