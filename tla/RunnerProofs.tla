---------------------------- MODULE RunnerProofs ----------------------------
(***************************************************************************)
(* Runner, for any runs, threads, invocations and cancellers: what TLC     *)
(* checks on two streams of one thread holds of any number of them.        *)
(***************************************************************************)
EXTENDS Runner, TLAPS

-----------------------------------------------------------------------------
(* Types.  What a place in the program implies about the other variables   *)
(* is part of the invariant: a request before it is read, a step to be in, *)
(* an outcome to save.                                                     *)

\* An invocation that was made has a request; one that steps has a step; one that saves
\* "Next" has a step to go to; a canceller under way has a run, and later an invocation.
InPlace ==
  /\ \A v \in Invocations : pc[v] # "idle" => req[v] \in Request
  /\ \A v \in Invocations : pc[v] \in {"step", "transit", "save"} => step[v] \in Steps
  /\ \A v \in Invocations : pc[v] = "save" /\ outcome[v] = "Next" => step[v] < LastStep
  /\ \A c \in Cancellers : cpc[c] # "idle" => target[c] \in Runs
  /\ \A c \in Cancellers : cpc[c] \in {"set", "notify"} => found[c] \in Invocations

Fits == TypeOK /\ InPlace

LEMMA RequestType ==
  ASSUME NEW q \in Request
  PROVE  q.run \in Runs /\ ThreadOf[q.run] \in Threads
  BY ConstantsAssumption DEF Request

LEMMA FirstStepType ==
  ASSUME NEW q \in Request, NEW record \in Record \cup {None}
  PROVE  RestoreOrStart(q, record) \in Steps \cup {None}
<1>1. q.command \in {"Start", "Resume"}
  BY ConstantsAssumption DEF Request
<1>2. 1 \in Steps
  BY ConstantsAssumption DEF Steps
<1>3. record # None => record.next \in Steps \cup {None} /\ record.interrupted \in Steps \cup {None}
  BY DEF Record
<1>. QED
  BY <1>1, <1>2, <1>3 DEF RestoreOrStart

LEMMA SavedType ==
  ASSUME Fits, NEW v \in Invocations, pc[v] = "save"
  PROVE  Saved(v) \in Record
<1>1. req[v] \in Request /\ step[v] \in Steps
  BY DEF Fits, InPlace
<1>2. RunOf(v) \in Runs
  BY <1>1, RequestType DEF RunOf
<1>3. outcome[v] = "Next" => step[v] + 1 \in Steps
  BY <1>1, ConstantsAssumption DEF Fits, InPlace, Steps
<1>. QED
  BY <1>1, <1>2, <1>3 DEF Saved, Record

LEMMA InitFits == Init => Fits
  BY ConstantsAssumption DEF Init, Fits, TypeOK, InPlace

\* An invocation that goes leaves every other one where it is; whatever it has saved,
\* loaded or counted by then only has to be of its type.
LEMMA LeaveFits ==
  ASSUME Fits, NEW v \in Invocations, pc[v] # "idle", Leave(v),
         UNCHANGED <<marker, active, req, outcome, cancelVars>>,
         flag' \in [Invocations -> BOOLEAN],
         ckpt' \in [Threads -> Record \cup {None}],
         base' \in [Invocations -> Record \cup {None}],
         count' \in [Invocations -> 0..MaxSteps],
         step' \in [Invocations -> Steps \cup {None}],
         \A u \in Invocations \ {v} : step'[u] = step[u]
  PROVE  Fits'
<1>. USE DEF Leave, Goto, Unlocks, StopsWaiting, cancelVars
<1>1. TypeOK'
  BY DEF Fits, TypeOK
<1>2. pc'[v] = "unregister"
      /\ \A u \in Invocations \ {v} : pc'[u] = pc[u] /\ step'[u] = step[u]
  BY DEF Fits, TypeOK
<1>3. InPlace'
  BY <1>2 DEF Fits, InPlace
<1>. QED
  BY <1>1, <1>3 DEF Fits

\* What takes an invocation on to a place that asks nothing of its step.
LEMMA MoveFits ==
  ASSUME Fits, NEW v \in Invocations, pc[v] # "idle",
         NEW place \in {"insert", "recheck", "lock", "check", "load", "unmark", "done"},
         Goto(v, place),
         UNCHANGED <<ckpt, req, step, count, outcome, base, cancelVars>>,
         marker' \subseteq Runs,
         active' \in [Runs -> Invocations \cup {None}],
         lock' \in [Threads -> Invocations \cup {None}],
         flag' \in [Invocations -> BOOLEAN],
         wait' \in [Invocations -> {"off", "armed", "looked", "asleep"}],
         woken' \in [Invocations -> BOOLEAN]
  PROVE  Fits'
<1>. USE DEF Goto, cancelVars
<1>1. TypeOK'
  BY DEF Fits, TypeOK
<1>2. pc'[v] = place /\ \A u \in Invocations \ {v} : pc'[u] = pc[u]
  BY DEF Fits, TypeOK
<1>3. InPlace'
  BY <1>2 DEF Fits, InPlace
<1>. QED
  BY <1>1, <1>3 DEF Fits

LEMMA PlacedTypes ==
  ASSUME Fits, NEW v \in Invocations, pc[v] # "idle"
  PROVE  /\ req[v] \in Request
         /\ RunOf(v) \in Runs
         /\ Thread(v) \in Threads
         /\ ckpt[Thread(v)] \in Record \cup {None}
<1>1. req[v] \in Request
  BY DEF Fits, InPlace
<1>2. RunOf(v) \in Runs /\ Thread(v) \in Threads
  BY <1>1, RequestType DEF RunOf, Thread
<1>. QED
  BY <1>1, <1>2 DEF Fits, TypeOK

LEMMA RegisterFits ==
  ASSUME Fits, NEW v \in Invocations,
         LooksFirst(v) \/ Inserts(v) \/ LooksAgain(v) \/ Locks(v) \/ Unregisters(v) \/ Unmarks(v)
  PROVE  Fits'
<1>. USE DEF waitVars
<1>1. CASE LooksFirst(v)
  BY <1>1, MoveFits DEF LooksFirst, Fits, TypeOK
<1>2. CASE Inserts(v)
  <2>1. pc[v] # "idle" /\ RunOf(v) \in Runs
    BY <1>2, PlacedTypes DEF Inserts
  <2>. QED
    BY <1>2, <2>1, MoveFits DEF Inserts, Fits, TypeOK
<1>3. CASE LooksAgain(v)
  <2>1. flag' \in [Invocations -> BOOLEAN]
    BY <1>3 DEF LooksAgain, Fits, TypeOK
  <2>. QED
    BY <1>3, <2>1, MoveFits DEF LooksAgain, Fits, TypeOK
<1>4. CASE Locks(v)
  <2>1. pc[v] # "idle" /\ Thread(v) \in Threads
    BY <1>4, PlacedTypes DEF Locks
  <2>2. /\ lock' \in [Threads -> Invocations \cup {None}]
        /\ wait' \in [Invocations -> {"off", "armed", "looked", "asleep"}]
        /\ woken' \in [Invocations -> BOOLEAN]
    BY <1>4, <2>1 DEF Locks, StopsWaiting, Fits, TypeOK
  <2>. QED
    BY <1>4, <2>1, <2>2, MoveFits DEF Locks, Fits, TypeOK
<1>5. CASE Unregisters(v)
  <2>1. pc[v] # "idle" /\ RunOf(v) \in Runs
    BY <1>5, PlacedTypes DEF Unregisters
  <2>2. active' \in [Runs -> Invocations \cup {None}]
    BY <1>5, <2>1 DEF Unregisters, Fits, TypeOK
  <2>3. CASE active[RunOf(v)] = v
    BY <1>5, <2>1, <2>2, <2>3, MoveFits DEF Unregisters, Fits, TypeOK
  <2>4. CASE active[RunOf(v)] # v
    BY <1>5, <2>1, <2>2, <2>4, MoveFits DEF Unregisters, Fits, TypeOK
  <2>. QED
    BY <2>3, <2>4
<1>6. CASE Unmarks(v)
  BY <1>6, MoveFits DEF Unmarks, Fits, TypeOK
<1>. QED
  BY <1>1, <1>2, <1>3, <1>4, <1>5, <1>6

LEMMA ChecksFits ==
  ASSUME Fits, NEW v \in Invocations, Checks(v)
  PROVE  Fits'
<1>1. CASE RunOf(v) \in marker
  <2>1. flag' \in [Invocations -> BOOLEAN]
    BY <1>1 DEF Checks, Fits, TypeOK
  <2>. QED
    BY <1>1, <2>1, LeaveFits DEF Checks, Fits, TypeOK
<1>2. CASE RunOf(v) \notin marker
  BY <1>2, MoveFits DEF Checks, Fits, TypeOK, waitVars
<1>. QED
  BY <1>1, <1>2

LEMMA LoadsFits ==
  ASSUME Fits, NEW v \in Invocations, Loads(v)
  PROVE  Fits'
<1>. DEFINE first == RestoreOrStart(req[v], ckpt[Thread(v)])
<1>1. pc[v] = "load" /\ req[v] \in Request /\ ckpt[Thread(v)] \in Record \cup {None}
  BY PlacedTypes DEF Loads
<1>2. first \in Steps \cup {None}
  BY <1>1, FirstStepType
<1>3. /\ base' = [base EXCEPT ![v] = ckpt[Thread(v)]]
      /\ step' = [step EXCEPT ![v] = first]
      /\ IF first = None THEN Leave(v) ELSE Goto(v, "step") /\ UNCHANGED <<lock, waitVars>>
      /\ UNCHANGED <<marker, active, ckpt, req, count, outcome, flag, cancelVars>>
  BY DEF Loads
<1>. HIDE DEF first
<1>4. /\ base' \in [Invocations -> Record \cup {None}]
      /\ step' \in [Invocations -> Steps \cup {None}]
      /\ step'[v] = first
      /\ \A u \in Invocations \ {v} : step'[u] = step[u]
  BY <1>1, <1>2, <1>3 DEF Fits, TypeOK
<1>5. CASE first = None
  BY <1>1, <1>3, <1>4, <1>5, LeaveFits DEF Fits, TypeOK
<1>6. CASE first # None
  <2>1. TypeOK'
    BY <1>3, <1>4, <1>6 DEF Fits, TypeOK, Goto, waitVars, cancelVars
  <2>2. pc'[v] = "step" /\ \A u \in Invocations \ {v} : pc'[u] = pc[u]
    BY <1>3, <1>6 DEF Fits, TypeOK, Goto
  <2>3. InPlace'
    BY <1>1, <1>2, <1>3, <1>4, <1>6, <2>2 DEF Fits, InPlace, cancelVars
  <2>. QED
    BY <2>1, <2>3 DEF Fits
<1>. QED
  BY <1>5, <1>6

LEMMA StartsFits ==
  ASSUME Fits, NEW v \in Invocations, Starts(v)
  PROVE  Fits'
<1>1. CASE count[v] = MaxSteps
  BY <1>1, LeaveFits DEF Starts, Fits, TypeOK
<1>2. CASE count[v] # MaxSteps
  <2>1. count' \in [Invocations -> 0..MaxSteps]
    <3>1. count[v] \in 0..MaxSteps
      BY DEF Fits, TypeOK
    <3>2. count[v] + 1 \in 0..MaxSteps
      BY <1>2, <3>1, ConstantsAssumption
    <3>3. count' = [count EXCEPT ![v] = count[v] + 1]
      BY <1>2 DEF Starts
    <3>. QED
      BY <3>2, <3>3 DEF Fits, TypeOK
  <2>2. TypeOK'
    BY <1>2, <2>1 DEF Starts, Fits, TypeOK, Goto, waitVars, cancelVars
  <2>3. pc'[v] = "transit" /\ \A u \in Invocations \ {v} : pc'[u] = pc[u]
    BY <1>2 DEF Starts, Fits, TypeOK, Goto
  <2>4. InPlace'
    BY <1>2, <2>3 DEF Starts, Fits, InPlace, cancelVars
  <2>. QED
    BY <2>2, <2>4 DEF Fits
<1>. QED
  BY <1>1, <1>2

LEMMA TransitsFits ==
  ASSUME Fits, NEW v \in Invocations, NEW o \in Outcomes, Transits(v, o)
  PROVE  Fits'
<1>1. CASE o = "Error"
  BY <1>1, LeaveFits DEF Transits, Fits, TypeOK
<1>2. CASE o # "Error"
  <2>1. outcome' \in [Invocations -> {"Next", "Interrupt", "Complete", None}]
        /\ outcome'[v] = o /\ \A u \in Invocations \ {v} : outcome'[u] = outcome[u]
    BY <1>2 DEF Transits, Outcomes, Fits, TypeOK
  <2>2. wait' \in [Invocations -> {"off", "armed", "looked", "asleep"}]
        /\ woken' \in [Invocations -> BOOLEAN]
    BY <1>2 DEF Transits, StopsWaiting, Fits, TypeOK
  <2>3. TypeOK'
    BY <1>2, <2>1, <2>2 DEF Transits, Fits, TypeOK, Goto, cancelVars
  <2>4. pc'[v] = "save" /\ \A u \in Invocations \ {v} : pc'[u] = pc[u]
    BY <1>2 DEF Transits, Fits, TypeOK, Goto
  <2>5. InPlace'
    BY <1>2, <2>1, <2>4 DEF Transits, Fits, InPlace, cancelVars
  <2>. QED
    BY <2>3, <2>5 DEF Fits
<1>. QED
  BY <1>1, <1>2

LEMMA SavesFits ==
  ASSUME Fits, NEW v \in Invocations, Saves(v)
  PROVE  Fits'
<1>. DEFINE saved == Saved(v)
<1>1. pc[v] = "save" /\ Thread(v) \in Threads /\ saved \in Record
  BY PlacedTypes, SavedType DEF Saves
<1>2. /\ ckpt' = [ckpt EXCEPT ![Thread(v)] = saved]
      /\ base' = [base EXCEPT ![v] = saved]
      /\ UNCHANGED <<marker, active, req, count, outcome, flag, cancelVars>>
  BY DEF Saves
<1>. HIDE DEF saved
<1>3. /\ ckpt' \in [Threads -> Record \cup {None}]
      /\ base' \in [Invocations -> Record \cup {None}]
  BY <1>1, <1>2 DEF Fits, TypeOK
<1>4. CASE outcome[v] = "Next"
  <2>1. step[v] \in Steps /\ step[v] < LastStep
    BY <1>1, <1>4 DEF Fits, InPlace
  <2>2. step[v] + 1 \in Steps
    BY <2>1, ConstantsAssumption DEF Steps
  <2>3. step' = [step EXCEPT ![v] = step[v] + 1] /\ Goto(v, "step") /\ UNCHANGED <<lock, waitVars>>
    BY <1>4 DEF Saves
  <2>4. /\ step' \in [Invocations -> Steps \cup {None}]
        /\ step'[v] \in Steps /\ \A u \in Invocations \ {v} : step'[u] = step[u]
    BY <2>2, <2>3 DEF Fits, TypeOK
  <2>5. TypeOK'
    BY <1>2, <1>3, <2>3, <2>4 DEF Fits, TypeOK, Goto, waitVars, cancelVars
  <2>6. pc'[v] = "step" /\ \A u \in Invocations \ {v} : pc'[u] = pc[u]
    BY <2>3 DEF Fits, TypeOK, Goto
  <2>7. InPlace'
    BY <1>1, <1>2, <2>4, <2>6 DEF Fits, InPlace, cancelVars
  <2>. QED
    BY <2>5, <2>7 DEF Fits
<1>5. CASE outcome[v] # "Next"
  <2>1. Leave(v) /\ UNCHANGED step
    BY <1>5 DEF Saves
  <2>. QED
    BY <1>1, <1>2, <1>3, <2>1, LeaveFits DEF Fits, TypeOK
<1>. QED
  BY <1>4, <1>5

LEMMA PollsFits ==
  ASSUME Fits, NEW v \in Invocations, Polls(v)
  PROVE  Fits'
<1>1. CASE SeesFlag(v) /\ flag[v]
  <2>1. pc[v] # "idle"
    BY <1>1 DEF SeesFlag, Listens
  <2>. QED
    BY <1>1, <2>1, LeaveFits DEF SeesFlag, Fits, TypeOK
<1>2. CASE ~(SeesFlag(v) /\ flag[v])
  <2>1. /\ wait' \in [Invocations -> {"off", "armed", "looked", "asleep"}]
        /\ woken' \in [Invocations -> BOOLEAN]
        /\ UNCHANGED <<marker, active, lock, ckpt, invVars, flag, cancelVars>>
    BY <1>2 DEF Polls, Arms, SeesFlag, Sleeps, Wakes, StopsWaiting, Fits, TypeOK, invVars
  <2>2. TypeOK'
    BY <2>1 DEF Fits, TypeOK, invVars, cancelVars
  <2>3. InPlace'
    BY <2>1 DEF Fits, InPlace, invVars, cancelVars
  <2>. QED
    BY <2>2, <2>3 DEF Fits
<1>. QED
  BY <1>1, <1>2

LEMMA CancellerFits ==
  ASSUME Fits, NEW c \in Cancellers, Cancelling(c) \/ \E r \in Runs : CancelRun(c, r)
  PROVE  Fits'
<1>. USE DEF invVars, waitVars
<1>1. CASE FindsActive(c)
  <2>1. target[c] \in Runs
    BY <1>1 DEF FindsActive, Fits, InPlace
  <2>2. active[target[c]] \in Invocations \cup {None}
    BY <2>1 DEF Fits, TypeOK
  <2>3. TypeOK'
    BY <1>1, <2>2 DEF FindsActive, Fits, TypeOK
  <2>4. InPlace'
    BY <1>1, <2>2 DEF FindsActive, Fits, TypeOK, InPlace
  <2>. QED
    BY <2>3, <2>4 DEF Fits
<1>2. CASE SetsFlag(c)
  <2>1. TypeOK'
    BY <1>2 DEF SetsFlag, Fits, TypeOK
  <2>2. InPlace'
    BY <1>2 DEF SetsFlag, Fits, TypeOK, InPlace
  <2>. QED
    BY <2>1, <2>2 DEF Fits
<1>3. CASE Notifies(c)
  <2>1. TypeOK'
    BY <1>3 DEF Notifies, Fits, TypeOK
  <2>2. InPlace'
    BY <1>3 DEF Notifies, Fits, TypeOK, InPlace
  <2>. QED
    BY <2>1, <2>2 DEF Fits
<1>4. CASE \E r \in Runs : CancelRun(c, r)
  <2>1. PICK r \in Runs : CancelRun(c, r)
    BY <1>4
  <2>2. TypeOK'
    BY <2>1 DEF CancelRun, Fits, TypeOK
  <2>3. InPlace'
    BY <2>1 DEF CancelRun, Fits, TypeOK, InPlace
  <2>. QED
    BY <2>2, <2>3 DEF Fits
<1>. QED
  BY <1>1, <1>2, <1>3, <1>4 DEF Cancelling

LEMMA InvokeFits ==
  ASSUME Fits, NEW v \in Invocations, NEW q \in Request, Invoke(v, q)
  PROVE  Fits'
<1>1. TypeOK'
  BY DEF Invoke, Fits, TypeOK, Goto, waitVars, cancelVars
<1>2. InPlace'
  BY DEF Invoke, Fits, TypeOK, InPlace, Goto, cancelVars
<1>. QED
  BY <1>1, <1>2 DEF Fits

LEMMA NextFits == Fits /\ [Next]_vars => Fits'
<1>. SUFFICES ASSUME Fits, [Next]_vars PROVE Fits'
  OBVIOUS
<1>1. ASSUME NEW v \in Invocations, SaveFails(v) \/ ReceiverCloses(v) PROVE Fits'
  BY <1>1, LeaveFits DEF SaveFails, ReceiverCloses, Fits, TypeOK
<1>2. UNCHANGED vars => Fits'
  BY DEF vars, invVars, waitVars, cancelVars, Fits, TypeOK, InPlace
<1>. QED
  BY <1>1, <1>2, InvokeFits, RegisterFits, ChecksFits, LoadsFits, StartsFits, TransitsFits,
     SavesFits, PollsFits, CancellerFits DEF Next, Proceeds, Quiet

\* Every reachable state is well typed.
THEOREM TypeCorrect == Spec => []TypeOK
<1>1. Fits => TypeOK
  BY DEF Fits
<1>. QED
  BY <1>1, InitFits, NextFits, PTL DEF Spec

-----------------------------------------------------------------------------
(* No cancellation is lost.  MarkerHeard asks only about runs whose         *)
(* cancel_run has gone by; the invariant also says who will still tell the  *)
(* others: a canceller that has not looked yet, or one that has found this  *)
(* very invocation.                                                         *)

ActiveOwn ==
  \A r \in Runs : \A v \in Invocations : active[r] = v => pc[v] # "idle" /\ RunOf(v) = r

WillTell(c, r, v) == target[c] = r /\ (cpc[c] = "find" \/ (cpc[c] = "set" /\ found[c] = v))

KnowsOrTold ==
  \A r \in Runs : \A v \in Invocations :
    r \in marker /\ active[r] = v /\ Running(v) =>
      flag[v] \/ \E c \in Cancellers : WillTell(c, r, v)

Heard == ActiveOwn /\ KnowsOrTold

\* What starts no invocation, sets no marker, registers nothing and leaves the flags of
\* running invocations set.
LEMMA HeardFrame ==
  ASSUME Heard, marker' \subseteq marker, UNCHANGED <<active, cancelVars>>,
         \A u \in Invocations : pc[u] # "idle" => pc'[u] # "idle" /\ req'[u] = req[u],
         \A u \in Invocations : Running(u)' => Running(u) /\ (flag[u] => flag'[u])
  PROVE  Heard'
<1>1. ActiveOwn'
  BY DEF Heard, ActiveOwn, RunOf, cancelVars
<1>2. \A c \in Cancellers, r \in Runs, u \in Invocations : WillTell(c, r, u) => WillTell(c, r, u)'
  BY DEF WillTell, cancelVars
<1>3. KnowsOrTold'
  BY <1>2 DEF Heard, KnowsOrTold
<1>. QED
  BY <1>1, <1>3 DEF Heard

LEMMA RegisterHeard ==
  ASSUME Fits, Heard, NEW v \in Invocations,
         LooksFirst(v) \/ Inserts(v) \/ LooksAgain(v) \/ Unregisters(v) \/ Unmarks(v)
  PROVE  Heard'
<1>1. CASE LooksFirst(v) \/ Unmarks(v)
  <2>1. \A u \in Invocations : pc'[u] = pc[u] \/ (u = v /\ pc'[u] \in {"insert", "done"})
    BY <1>1 DEF LooksFirst, Unmarks, Goto, Fits, TypeOK
  <2>2. \A u \in Invocations : Running(u) => flag'[u] = flag[u]
    BY <1>1 DEF LooksFirst, Unmarks, Running, Fits, TypeOK
  <2>3. \A u \in Invocations : Running(u)' => Running(u) /\ (flag[u] => flag'[u])
    BY <2>1, <2>2 DEF Running
  <2>. QED
    BY <1>1, <2>1, <2>3, HeardFrame DEF LooksFirst, Unmarks
<1>2. CASE Inserts(v)
  <2>1. pc[v] = "insert" /\ RunOf(v) \in Runs
    BY <1>2, PlacedTypes DEF Inserts
  <2>2. active' = [active EXCEPT ![RunOf(v)] = v] /\ UNCHANGED <<marker, req, flag, cancelVars>>
        /\ pc' = [pc EXCEPT ![v] = "recheck"]
    BY <1>2 DEF Inserts, Goto
  <2>3. \A r \in Runs, u \in Invocations : active'[r] = u =>
          (r = RunOf(v) /\ u = v) \/ (r # RunOf(v) /\ active[r] = u)
    BY <2>1, <2>2 DEF Fits, TypeOK
  <2>4. \A u \in Invocations : pc[u] # "idle" => pc'[u] # "idle"
    BY <2>2 DEF Fits, TypeOK
  <2>5. \A u \in Invocations : RunOf(u)' = RunOf(u)
    BY <2>2 DEF RunOf
  <2>6. ActiveOwn'
    BY <2>1, <2>3, <2>4, <2>5 DEF Heard, ActiveOwn
  <2>7. \A u \in Invocations : Running(u)' => u # v /\ Running(u)
    BY <2>2 DEF Running, Fits, TypeOK
  <2>8. \A c \in Cancellers, r \in Runs, u \in Invocations : WillTell(c, r, u) => WillTell(c, r, u)'
    BY <2>2 DEF WillTell, cancelVars
  <2>9. KnowsOrTold'
    BY <2>2, <2>3, <2>7, <2>8 DEF Heard, KnowsOrTold
  <2>. QED
    BY <2>6, <2>9 DEF Heard
<1>3. CASE LooksAgain(v)
  <2>1. pc[v] = "recheck" /\ pc' = [pc EXCEPT ![v] = "lock"]
        /\ flag' = [flag EXCEPT ![v] = flag[v] \/ RunOf(v) \in marker]
        /\ UNCHANGED <<marker, active, req, cancelVars>>
    BY <1>3 DEF LooksAgain, Goto
  <2>2. flag'[v] = (flag[v] \/ RunOf(v) \in marker)
        /\ \A u \in Invocations \ {v} : flag'[u] = flag[u] /\ pc'[u] = pc[u]
    BY <2>1 DEF Fits, TypeOK
  <2>3. ActiveOwn'
    BY <2>1, <2>2 DEF Heard, ActiveOwn, RunOf, Fits, TypeOK
  <2>4. \A c \in Cancellers, r \in Runs, u \in Invocations : WillTell(c, r, u) => WillTell(c, r, u)'
    BY <2>1 DEF WillTell, cancelVars
  <2>5. ASSUME NEW r \in Runs, r \in marker, active[r] = v PROVE flag'[v]
    <3>1. RunOf(v) = r
      BY <2>5 DEF Heard, ActiveOwn
    <3>. QED
      BY <2>2, <2>5, <3>1
  <2>6. \A u \in Invocations \ {v} : Running(u)' => Running(u)
    BY <2>2 DEF Running
  <2>7. KnowsOrTold'
    BY <2>1, <2>2, <2>4, <2>5, <2>6 DEF Heard, KnowsOrTold
  <2>. QED
    BY <2>3, <2>7 DEF Heard
<1>4. CASE Unregisters(v)
  <2>1. pc[v] = "unregister" /\ RunOf(v) \in Runs
    BY <1>4, PlacedTypes DEF Unregisters
  <2>2. \A r \in Runs, u \in Invocations : active'[r] = u => active[r] = u
    BY <1>4, <2>1, ConstantsAssumption DEF Unregisters, Fits, TypeOK
  <2>3. \A u \in Invocations : pc'[u] = pc[u] \/ (u = v /\ pc'[u] \in {"unmark", "done"})
    BY <1>4 DEF Unregisters, Goto, Fits, TypeOK
  <2>4. UNCHANGED <<marker, req, flag, cancelVars>>
    BY <1>4 DEF Unregisters
  <2>5. \A u \in Invocations : (pc[u] # "idle" => pc'[u] # "idle") /\ RunOf(u)' = RunOf(u)
    BY <2>3, <2>4 DEF RunOf
  <2>6. ActiveOwn'
    BY <2>2, <2>5 DEF Heard, ActiveOwn
  <2>7. \A u \in Invocations : Running(u)' => Running(u)
    BY <2>3 DEF Running
  <2>8. \A c \in Cancellers, r \in Runs, u \in Invocations : WillTell(c, r, u) => WillTell(c, r, u)'
    BY <2>4 DEF WillTell, cancelVars
  <2>9. KnowsOrTold'
    BY <2>2, <2>4, <2>7, <2>8 DEF Heard, KnowsOrTold
  <2>. QED
    BY <2>6, <2>9 DEF Heard
<1>. QED
  BY <1>1, <1>2, <1>3, <1>4

\* Every other step of an invocation.
LEMMA RunHeard ==
  ASSUME Fits, Heard, NEW v \in Invocations,
         \/ \E q \in Request : Invoke(v, q)
         \/ Locks(v) \/ Checks(v) \/ Loads(v) \/ Starts(v) \/ Saves(v) \/ SaveFails(v)
         \/ Polls(v) \/ ReceiverCloses(v)
         \/ \E o \in Outcomes : Transits(v, o)
  PROVE  Heard'
<1>. USE DEF Goto, Leave, Unlocks, StopsWaiting, invVars
<1>1. CASE \E q \in Request : Invoke(v, q)
  <2>1. PICK q \in Request : Invoke(v, q)
    BY <1>1
  <2>2. pc[v] = "idle" /\ pc' = [pc EXCEPT ![v] = "register"] /\ req' = [req EXCEPT ![v] = q]
        /\ UNCHANGED <<marker, active, flag, cancelVars>>
    BY <2>1 DEF Invoke
  <2>3. \A u \in Invocations : pc[u] # "idle" => pc'[u] # "idle" /\ req'[u] = req[u]
    BY <2>2 DEF Fits, TypeOK
  <2>4. \A u \in Invocations : Running(u)' => Running(u)
    BY <2>2 DEF Running, Fits, TypeOK
  <2>. QED
    BY <2>2, <2>3, <2>4, HeardFrame
<1>2. CASE ~\E q \in Request : Invoke(v, q)
  <2>1. UNCHANGED <<marker, active, req, cancelVars>>
    BY <1>2 DEF Locks, Checks, Loads, Starts, Saves, SaveFails, Polls, Arms, SeesFlag, Sleeps, Wakes,
       ReceiverCloses, Transits
  <2>2. Running(v) \/ pc'[v] = pc[v]
    BY <1>2 DEF Locks, Checks, Loads, Starts, Saves, SaveFails, Polls, Arms, SeesFlag, Sleeps, Wakes,
       ReceiverCloses, Transits, Running, Listens
  <2>3. pc'[v] # "idle" \/ pc'[v] = pc[v]
    BY <1>2 DEF Locks, Checks, Loads, Starts, Saves, SaveFails, Polls, Arms, SeesFlag, Sleeps, Wakes,
       ReceiverCloses, Transits, Fits, TypeOK
  <2>4. \A u \in Invocations \ {v} : pc'[u] = pc[u]
    BY <1>2 DEF Locks, Checks, Loads, Starts, Saves, SaveFails, Polls, Arms, SeesFlag, Sleeps, Wakes,
       ReceiverCloses, Transits, Fits, TypeOK
  <2>5. \A u \in Invocations : flag[u] => flag'[u]
    BY <1>2 DEF Locks, Checks, Loads, Starts, Saves, SaveFails, Polls, Arms, SeesFlag, Sleeps, Wakes,
       ReceiverCloses, Transits, Fits, TypeOK
  <2>6. \A u \in Invocations : Running(u)' => Running(u)
    BY <2>2, <2>4 DEF Running
  <2>7. \A u \in Invocations : pc[u] # "idle" => pc'[u] # "idle" /\ req'[u] = req[u]
    BY <2>1, <2>3, <2>4
  <2>. QED
    BY <2>1, <2>5, <2>6, <2>7, HeardFrame
<1>. QED
  BY <1>1, <1>2

LEMMA CancellerHeard ==
  ASSUME Fits, Heard, NEW c \in Cancellers, Cancelling(c) \/ \E r \in Runs : CancelRun(c, r)
  PROVE  Heard'
<1>1. UNCHANGED <<active, pc, req>>
  BY DEF Cancelling, FindsActive, SetsFlag, Notifies, CancelRun, invVars
<1>2. ActiveOwn'
  BY <1>1 DEF Heard, ActiveOwn, RunOf
<1>3. SUFFICES ASSUME NEW r \in Runs, NEW v \in Invocations,
                      r \in marker', active[r] = v, Running(v)
               PROVE  flag'[v] \/ \E d \in Cancellers : WillTell(d, r, v)'
  BY <1>1, <1>2 DEF Heard, KnowsOrTold, Running
<1>4. \A d \in Cancellers \ {c} : target'[d] = target[d] /\ cpc'[d] = cpc[d] /\ found'[d] = found[d]
  BY DEF Cancelling, FindsActive, SetsFlag, Notifies, CancelRun, invVars, Fits, TypeOK
<1>5. \A d \in Cancellers \ {c} : WillTell(d, r, v) => WillTell(d, r, v)'
  BY <1>4 DEF WillTell
<1>6. flag[v] => flag'[v]
  BY DEF Cancelling, FindsActive, SetsFlag, Notifies, CancelRun, Fits, TypeOK
<1>7. r \in marker => flag[v] \/ \E d \in Cancellers : WillTell(d, r, v)
  BY <1>3 DEF Heard, KnowsOrTold
<1>8. CASE FindsActive(c)
  <2>1. marker' = marker
    BY <1>8 DEF FindsActive
  <2>2. WillTell(c, r, v) => WillTell(c, r, v)'
    BY <1>3, <1>8, ConstantsAssumption DEF WillTell, FindsActive, Fits, TypeOK
  <2>. QED
    BY <1>3, <1>5, <1>6, <1>7, <2>1, <2>2
<1>9. CASE SetsFlag(c)
  <2>1. marker' = marker
    BY <1>9 DEF SetsFlag
  <2>2. WillTell(c, r, v) => flag'[v]
    BY <1>9 DEF WillTell, SetsFlag, Fits, TypeOK
  <2>. QED
    BY <1>3, <1>5, <1>6, <1>7, <2>1, <2>2
<1>10. CASE Notifies(c)
  <2>1. marker' = marker /\ ~WillTell(c, r, v)
    BY <1>10 DEF Notifies, WillTell
  <2>. QED
    BY <1>3, <1>5, <1>6, <1>7, <2>1
<1>11. CASE \E s \in Runs : CancelRun(c, s)
  <2>1. PICK s \in Runs : CancelRun(c, s)
    BY <1>11
  <2>2. ~WillTell(c, r, v) /\ marker' = marker \cup {s}
    BY <2>1 DEF CancelRun, WillTell
  <2>3. target'[c] = s /\ cpc'[c] = "find"
    BY <2>1 DEF CancelRun, Fits, TypeOK
  <2>4. r = s => WillTell(c, r, v)'
    BY <2>3 DEF WillTell
  <2>. QED
    BY <1>3, <1>5, <1>6, <1>7, <2>2, <2>4
<1>. QED
  BY <1>8, <1>9, <1>10, <1>11 DEF Cancelling

LEMMA HeardInvariant == Spec => [](Fits /\ Heard)
<1>1. Init => Fits /\ Heard
  BY InitFits, ConstantsAssumption DEF Init, Heard, ActiveOwn, KnowsOrTold, Running
<1>2. Fits /\ Heard /\ [Next]_vars => (Fits /\ Heard)'
  <2>. SUFFICES ASSUME Fits, Heard, [Next]_vars PROVE Heard'
    BY NextFits
  <2>1. CASE UNCHANGED vars
    BY <2>1 DEF vars, invVars, waitVars, cancelVars, Heard, ActiveOwn, KnowsOrTold, WillTell, RunOf, Running
  <2>. QED
    BY <2>1, RegisterHeard, RunHeard, CancellerHeard DEF Next, Proceeds, Quiet
<1>. QED
  BY <1>1, <1>2, PTL DEF Spec

\* A cancellation is never lost between the map of markers and the map of invocations,
\* whatever the number of invocations and of cancel_run calls that race.
THEOREM CancellationsHeard == Spec => []MarkerInv
<1>1. Fits /\ Heard => MarkerInv
  BY DEF Fits, MarkerInv, MarkerHeard, Heard, KnowsOrTold, WillTell
<1>. QED
  BY <1>1, HeardInvariant, PTL

-----------------------------------------------------------------------------
(* No update is lost.  The invocations of a thread exclude each other from  *)
(* the lock to the last save, so what one of them has loaded or saved last   *)
(* is still the record of the thread when it saves.                          *)

Holds(v) == pc[v] \in {"check", "load", "step", "transit", "save"}
Stepping(v) == pc[v] \in {"step", "transit", "save"}

LockHeld == \A v \in Invocations : Holds(v) => lock[Thread(v)] = v

\* A record of a run under way is continued with the step it names.
OnRecord ==
  \A v \in Invocations : Stepping(v) =>
    LET record == ckpt[Thread(v)]
    IN /\ base[v] = record
       /\ record # None /\ record.run = RunOf(v) /\ record.next # None => step[v] = record.next

OneNext == \A t \in Threads : ckpt[t] # None => ckpt[t].next = None \/ ckpt[t].interrupted = None

Serial == LockHeld /\ OnRecord /\ OneNext

\* What writes no record and moves only an invocation that has the lock, or has just left.
LEMMA SerialFrame ==
  ASSUME Fits, Serial, UNCHANGED <<ckpt, base, step>>,
         \A u \in Invocations : Holds(u)' =>
           Holds(u) /\ req'[u] = req[u] /\ lock'[Thread(u)] = lock[Thread(u)],
         \A u \in Invocations : Stepping(u)' => Stepping(u)
  PROVE  Serial'
<1>0. \A u \in Invocations : Stepping(u)' => Holds(u)'
  BY DEF Stepping, Holds
<1>1. \A u \in Invocations : Holds(u)' => Thread(u)' = Thread(u) /\ RunOf(u)' = RunOf(u)
  BY DEF Thread, RunOf
<1>2. LockHeld'
  BY <1>1 DEF Serial, LockHeld
<1>3. OnRecord'
  BY <1>0, <1>1 DEF Serial, OnRecord
<1>4. OneNext'
  BY DEF Serial, OneNext
<1>. QED
  BY <1>2, <1>3, <1>4 DEF Serial

\* Who leaves takes only its own lock along.
LEMMA LeaveSerial ==
  ASSUME Fits, Serial, NEW v \in Invocations, Leave(v), UNCHANGED <<ckpt, req>>,
         \A u \in Invocations \ {v} : base'[u] = base[u] /\ step'[u] = step[u]
  PROVE  Serial'
<1>1. \A u \in Invocations : u # v => pc'[u] = pc[u]
  BY DEF Leave, Goto, Fits, TypeOK
<1>2. ~Holds(v)' /\ ~Stepping(v)'
  BY DEF Leave, Goto, Holds, Stepping, Fits, TypeOK
<1>3. \A u \in Invocations : Thread(u)' = Thread(u) /\ RunOf(u)' = RunOf(u)
  BY DEF Thread, RunOf
<1>4. \A u \in Invocations \ {v} : (Holds(u)' <=> Holds(u)) /\ (Stepping(u)' <=> Stepping(u))
  BY <1>1 DEF Holds, Stepping
<1>5. ASSUME NEW u \in Invocations \ {v}, Holds(u) PROVE lock'[Thread(u)] = u
  <2>1. lock[Thread(u)] = u /\ Thread(u) \in Threads
    BY <1>5, PlacedTypes DEF Serial, LockHeld, Holds
  <2>. QED
    BY <2>1 DEF Leave, Unlocks
<1>6. LockHeld'
  BY <1>2, <1>3, <1>4, <1>5 DEF LockHeld
<1>7. OnRecord'
  BY <1>2, <1>3, <1>4 DEF Serial, OnRecord
<1>8. OneNext'
  BY DEF Serial, OneNext
<1>. QED
  BY <1>6, <1>7, <1>8 DEF Serial

LEMMA LocksSerial ==
  ASSUME Fits, Serial, NEW v \in Invocations, Locks(v)
  PROVE  Serial'
<1>1. pc[v] = "lock" /\ Thread(v) \in Threads /\ lock[Thread(v)] = None
  BY PlacedTypes DEF Locks
<1>2. lock' = [lock EXCEPT ![Thread(v)] = v] /\ pc' = [pc EXCEPT ![v] = "check"]
      /\ UNCHANGED <<ckpt, req, base, step>>
  BY DEF Locks, Goto
<1>3. \A u \in Invocations : Thread(u)' = Thread(u) /\ RunOf(u)' = RunOf(u)
  BY <1>2 DEF Thread, RunOf
<1>4. \A u \in Invocations \ {v} : pc'[u] = pc[u]
  BY <1>2 DEF Fits, TypeOK
<1>5. lock'[Thread(v)] = v
  BY <1>1, <1>2 DEF Fits, TypeOK
<1>6. ASSUME NEW u \in Invocations \ {v}, Holds(u)' PROVE lock'[Thread(u)] = u
  <2>1. lock[Thread(u)] = u /\ Thread(u) \in Threads
    BY <1>4, <1>6, PlacedTypes DEF Serial, LockHeld, Holds
  <2>2. Thread(u) # Thread(v)
    BY <1>1, <2>1, ConstantsAssumption
  <2>. QED
    BY <1>1, <1>2, <2>1, <2>2 DEF Fits, TypeOK
<1>7. LockHeld'
  BY <1>3, <1>5, <1>6 DEF LockHeld
<1>8. \A u \in Invocations : Stepping(u)' => Stepping(u)
  BY <1>2, <1>4 DEF Stepping, Fits, TypeOK
<1>9. OnRecord'
  BY <1>2, <1>3, <1>8 DEF Serial, OnRecord
<1>10. OneNext'
  BY <1>2 DEF Serial, OneNext
<1>. QED
  BY <1>7, <1>9, <1>10 DEF Serial

LEMMA LoadsSerial ==
  ASSUME Fits, Serial, NEW v \in Invocations, Loads(v)
  PROVE  Serial'
<1>. DEFINE record == ckpt[Thread(v)]
            first == RestoreOrStart(req[v], record)
<1>1. pc[v] = "load" /\ req[v] \in Request /\ Thread(v) \in Threads
  BY PlacedTypes DEF Loads
<1>2. /\ base' = [base EXCEPT ![v] = record]
      /\ step' = [step EXCEPT ![v] = first]
      /\ IF first = None THEN Leave(v) ELSE Goto(v, "step") /\ UNCHANGED <<lock, waitVars>>
      /\ UNCHANGED <<ckpt, req>>
  BY DEF Loads
<1>3. first # None /\ record # None /\ record.run = RunOf(v) /\ record.next # None
        => first = record.next
  <2>1. req[v].command \in {"Start", "Resume"}
    BY <1>1, ConstantsAssumption DEF Request
  <2>2. record # None => record.next = None \/ record.interrupted = None
    BY <1>1 DEF Serial, OneNext
  <2>. QED
    BY <2>1, <2>2 DEF RestoreOrStart, RunOf
<1>. HIDE DEF record, first
<1>4. base'[v] = record /\ step'[v] = first
      /\ \A u \in Invocations \ {v} : base'[u] = base[u] /\ step'[u] = step[u]
  BY <1>2 DEF Fits, TypeOK
<1>5. CASE first = None
  BY <1>2, <1>4, <1>5, LeaveSerial
<1>6. CASE first # None
  <2>1. pc'[v] = "step" /\ lock' = lock /\ \A u \in Invocations \ {v} : pc'[u] = pc[u]
    BY <1>2, <1>6 DEF Goto, Fits, TypeOK
  <2>2. \A u \in Invocations : Thread(u)' = Thread(u) /\ RunOf(u)' = RunOf(u)
    BY <1>2 DEF Thread, RunOf
  <2>3. \A u \in Invocations : Holds(u)' => Holds(u)
    BY <1>1, <2>1 DEF Holds
  <2>4. LockHeld'
    BY <2>1, <2>2, <2>3 DEF Serial, LockHeld
  <2>5. \A u \in Invocations \ {v} : Stepping(u)' => Stepping(u)
    BY <2>1 DEF Stepping
  <2>6. ckpt'[Thread(v)'] = record
    BY <1>2, <2>2 DEF record
  <2>7. OnRecord'
    BY <1>2, <1>3, <1>4, <1>6, <2>2, <2>5, <2>6 DEF Serial, OnRecord
  <2>8. OneNext'
    BY <1>2 DEF Serial, OneNext
  <2>. QED
    BY <2>4, <2>7, <2>8 DEF Serial
<1>. QED
  BY <1>5, <1>6

\* While an invocation saves, no other one steps on its thread.
LEMMA Alone ==
  ASSUME Fits, Serial, NEW v \in Invocations, Holds(v), NEW u \in Invocations \ {v}, Holds(u)
  PROVE  Thread(u) # Thread(v)
  BY DEF Serial, LockHeld

LEMMA SavesSerial ==
  ASSUME Fits, Serial, NEW v \in Invocations, Saves(v)
  PROVE  Serial'
<1>. DEFINE saved == Saved(v)
<1>1. pc[v] = "save" /\ Thread(v) \in Threads /\ saved \in Record
  BY PlacedTypes, SavedType DEF Saves
<1>2. /\ ckpt' = [ckpt EXCEPT ![Thread(v)] = saved]
      /\ base' = [base EXCEPT ![v] = saved]
      /\ UNCHANGED req
  BY DEF Saves
<1>3. /\ saved.next = None \/ saved.interrupted = None
      /\ outcome[v] = "Next" => saved.next = step[v] + 1
  BY DEF Saved
<1>. HIDE DEF saved
<1>4. /\ ckpt'[Thread(v)] = saved /\ base'[v] = saved
      /\ \A t \in Threads \ {Thread(v)} : ckpt'[t] = ckpt[t]
      /\ \A u \in Invocations \ {v} : base'[u] = base[u]
  BY <1>1, <1>2 DEF Fits, TypeOK
<1>5. \A u \in Invocations : Thread(u)' = Thread(u) /\ RunOf(u)' = RunOf(u)
  BY <1>2 DEF Thread, RunOf
<1>6. OneNext'
  BY <1>3, <1>4 DEF Serial, OneNext
<1>7. \A u \in Invocations \ {v} : Holds(u) => Thread(u) \in Threads \ {Thread(v)}
  BY <1>1, Alone, PlacedTypes DEF Holds
<1>8. \A u \in Invocations \ {v} : pc'[u] = pc[u] /\ step'[u] = step[u]
  BY DEF Saves, Leave, Goto, Fits, TypeOK
<1>9. \A u \in Invocations \ {v} : (Holds(u)' <=> Holds(u)) /\ (Stepping(u)' <=> Stepping(u))
                                   /\ (Stepping(u) => Holds(u))
  BY <1>8 DEF Holds, Stepping
<1>10. ASSUME NEW u \in Invocations \ {v}, Stepping(u)
       PROVE  ckpt'[Thread(u)] = ckpt[Thread(u)] /\ base'[u] = base[u] /\ step'[u] = step[u]
  BY <1>4, <1>7, <1>8, <1>9, <1>10
<1>11. CASE outcome[v] = "Next"
  <2>1. pc' = [pc EXCEPT ![v] = "step"] /\ lock' = lock /\ step' = [step EXCEPT ![v] = step[v] + 1]
    BY <1>11 DEF Saves, Goto
  <2>2. step'[v] = step[v] + 1
    BY <2>1 DEF Fits, TypeOK
  <2>3. Holds(v)
    BY <1>1 DEF Holds
  <2>4. LockHeld'
    BY <1>5, <1>9, <2>1, <2>3 DEF Serial, LockHeld
  <2>5. OnRecord'
    BY <1>3, <1>4, <1>5, <1>9, <1>10, <1>11, <2>2 DEF Serial, OnRecord
  <2>. QED
    BY <1>6, <2>4, <2>5 DEF Serial
<1>12. CASE outcome[v] # "Next"
  <2>1. Leave(v)
    BY <1>12 DEF Saves
  <2>2. ~Holds(v)' /\ ~Stepping(v)'
    BY <2>1 DEF Leave, Goto, Holds, Stepping, Fits, TypeOK
  <2>3. ASSUME NEW u \in Invocations \ {v}, Holds(u) PROVE lock'[Thread(u)] = u
    <3>1. lock[Thread(u)] = u /\ Thread(u) \in Threads
      BY <2>3, PlacedTypes DEF Serial, LockHeld, Holds
    <3>. QED
      BY <2>1, <3>1 DEF Leave, Unlocks
  <2>4. LockHeld'
    BY <1>5, <1>9, <2>2, <2>3 DEF LockHeld
  <2>5. OnRecord'
    BY <1>5, <1>9, <1>10, <2>2 DEF Serial, OnRecord
  <2>. QED
    BY <1>6, <2>4, <2>5 DEF Serial
<1>. QED
  BY <1>11, <1>12

\* Every other step of an invocation leaves the records alone, and so do its lock and its
\* place if it does not leave.
LEMMA RunSerial ==
  ASSUME Fits, Serial, NEW v \in Invocations,
         \/ \E q \in Request : Invoke(v, q)
         \/ LooksFirst(v) \/ Inserts(v) \/ LooksAgain(v) \/ Unregisters(v) \/ Unmarks(v)
         \/ Checks(v) \/ Starts(v) \/ SaveFails(v) \/ Polls(v) \/ ReceiverCloses(v)
         \/ \E o \in Outcomes : Transits(v, o)
  PROVE  Serial'
<1>1. CASE \E q \in Request : Invoke(v, q)
  <2>1. PICK q \in Request : Invoke(v, q)
    BY <1>1
  <2>2. pc[v] = "idle" /\ pc' = [pc EXCEPT ![v] = "register"] /\ req' = [req EXCEPT ![v] = q]
        /\ UNCHANGED <<lock, ckpt, base, step>>
    BY <2>1 DEF Invoke, Goto
  <2>3. \A u \in Invocations : Holds(u)' => Holds(u) /\ req'[u] = req[u]
    BY <2>2 DEF Holds, Fits, TypeOK
  <2>4. \A u \in Invocations : Stepping(u)' => Stepping(u)
    BY <2>2 DEF Stepping, Fits, TypeOK
  <2>. QED
    BY <2>2, <2>3, <2>4, SerialFrame
<1>2. CASE Leave(v) /\ ~\E q \in Request : Invoke(v, q)
  <2>1. UNCHANGED <<ckpt, req, base, step>>
    BY <1>2 DEF LooksFirst, Inserts, LooksAgain, Unregisters, Unmarks, Checks, Starts, SaveFails, Polls,
       Arms, SeesFlag, Sleeps, Wakes, ReceiverCloses, Transits, invVars
  <2>. QED
    BY <1>2, <2>1, LeaveSerial
<1>3. CASE ~Leave(v) /\ ~\E q \in Request : Invoke(v, q)
  <2>1. UNCHANGED <<lock, ckpt, req, base, step>>
    BY <1>3 DEF LooksFirst, Inserts, LooksAgain, Unregisters, Unmarks, Checks, Starts, SaveFails, Polls,
       Arms, SeesFlag, Sleeps, Wakes, ReceiverCloses, Transits, invVars
  <2>2. \A u \in Invocations \ {v} : pc'[u] = pc[u]
    BY <1>3 DEF LooksFirst, Inserts, LooksAgain, Unregisters, Unmarks, Checks, Starts, SaveFails, Polls,
       Arms, SeesFlag, Sleeps, Wakes, ReceiverCloses, Transits, invVars, Goto, Fits, TypeOK
  <2>3. (Holds(v)' => Holds(v)) /\ (Stepping(v)' => Stepping(v))
    BY <1>3 DEF LooksFirst, Inserts, LooksAgain, Unregisters, Unmarks, Checks, Starts, SaveFails, Polls,
       Arms, SeesFlag, Sleeps, Wakes, ReceiverCloses, Transits, invVars, Goto, Fits, TypeOK, Holds, Stepping
  <2>4. \A u \in Invocations : Holds(u)' => Holds(u)
    BY <2>2, <2>3 DEF Holds
  <2>5. \A u \in Invocations : Stepping(u)' => Stepping(u)
    BY <2>2, <2>3 DEF Stepping
  <2>. QED
    BY <2>1, <2>4, <2>5, SerialFrame
<1>. QED
  BY <1>1, <1>2, <1>3

LEMMA SerialInvariant == Spec => [](Fits /\ Serial)
<1>1. Init => Fits /\ Serial
  BY InitFits DEF Init, Serial, LockHeld, OnRecord, OneNext, Holds, Stepping
<1>2. Fits /\ Serial /\ [Next]_vars => (Fits /\ Serial)'
  <2>. SUFFICES ASSUME Fits, Serial, [Next]_vars PROVE Serial'
    BY NextFits
  <2>1. CASE UNCHANGED <<pc, req, lock, ckpt, base, step>>
    BY <2>1, SerialFrame DEF Holds, Stepping
  <2>2. ASSUME NEW c \in Cancellers, Cancelling(c) \/ \E r \in Runs : CancelRun(c, r)
        PROVE  UNCHANGED <<pc, req, lock, ckpt, base, step>>
    BY <2>2 DEF Cancelling, FindsActive, SetsFlag, Notifies, CancelRun, invVars
  <2>3. UNCHANGED vars => UNCHANGED <<pc, req, lock, ckpt, base, step>>
    BY DEF vars, invVars
  <2>. QED
    BY <2>1, <2>2, <2>3, LocksSerial, LoadsSerial, SavesSerial, RunSerial DEF Next, Proceeds, Quiet
<1>. QED
  BY <1>1, <1>2, PTL DEF Spec

\* A checkpoint is written only by a save, and over the record the invocation went on from.
LEMMA SavesContinue ==
  ASSUME Fits, Serial, [Next]_vars, NEW t \in Threads, ckpt'[t] # ckpt[t]
  PROVE  \E v \in Invocations :
           /\ pc[v] = "save" /\ pc'[v] # "save" /\ Thread(v) = t /\ base[v] = ckpt[t]
           /\ ckpt[t] # None /\ ckpt[t].run = RunOf(v) /\ ckpt[t].next # None =>
                step[v] = ckpt[t].next
<1>1. ASSUME NEW c \in Cancellers, Cancelling(c) \/ \E r \in Runs : CancelRun(c, r)
      PROVE  ckpt' = ckpt
  BY <1>1 DEF Cancelling, FindsActive, SetsFlag, Notifies, CancelRun
<1>2. ASSUME NEW v \in Invocations,
             \/ \E q \in Request : Invoke(v, q)
             \/ LooksFirst(v) \/ Inserts(v) \/ LooksAgain(v) \/ Unregisters(v) \/ Unmarks(v)
             \/ Locks(v) \/ Checks(v) \/ Loads(v) \/ Starts(v) \/ SaveFails(v)
             \/ Polls(v) \/ ReceiverCloses(v)
             \/ \E o \in Outcomes : Transits(v, o)
      PROVE  ckpt' = ckpt
  BY <1>2 DEF Invoke, LooksFirst, Inserts, LooksAgain, Unregisters, Unmarks, Locks, Checks, Loads, Starts,
     SaveFails, Polls, Arms, SeesFlag, Sleeps, Wakes, ReceiverCloses, Transits
<1>3. UNCHANGED vars => ckpt' = ckpt
  BY DEF vars
<1>4. PICK v \in Invocations : Saves(v)
  BY <1>1, <1>2, <1>3 DEF Next, Proceeds, Quiet
<1>5. pc[v] = "save" /\ Thread(v) \in Threads /\ ckpt' = [ckpt EXCEPT ![Thread(v)] = Saved(v)]
  BY <1>4, PlacedTypes DEF Saves
<1>6. Thread(v) = t
  BY <1>5 DEF Fits, TypeOK
<1>7. pc'[v] # "save"
  BY <1>4 DEF Saves, Leave, Goto, Fits, TypeOK
<1>8. Stepping(v)
  BY <1>5 DEF Stepping
<1>. QED
  BY <1>5, <1>6, <1>7, <1>8 DEF Serial, OnRecord

\* No update of a thread's record is lost between invocations, and a retry repeats no
\* step that was saved, for any number of invocations and threads.
THEOREM StepsContinue == Spec => Continues
<1>1. Fits /\ Serial /\ [Next]_vars =>
        [\A t \in Threads : ckpt'[t] # ckpt[t] =>
           \E v \in Invocations :
             /\ pc[v] = "save" /\ pc'[v] # "save" /\ Thread(v) = t /\ base[v] = ckpt[t]
             /\ ckpt[t] # None /\ ckpt[t].run = RunOf(v) /\ ckpt[t].next # None =>
                  step[v] = ckpt[t].next]_vars
  BY SavesContinue
<1>. QED
  BY <1>1, SerialInvariant, PTL DEF Spec, Continues

=============================================================================
