-------------------------- MODULE LifecycleProofs --------------------------
(***************************************************************************)
(* Lifecycle, for any finite sets of runs and callers and any instances:    *)
(* the event lock of a run excludes.                                        *)
(*                                                                         *)
(* A lock object is created on demand, found in the map by others, and      *)
(* removed from the map by the operation that finds the run over.  What     *)
(* holds it together is that nobody removes it who may still be waiting for *)
(* it or hold it: the map still has the lock of everybody between           *)
(* event_lock() and unlock.                                                 *)
(*                                                                         *)
(* Then the types, the life of a run in the store and in the registries,    *)
(* and what they are for: an owner's counter is never behind its run's log, *)
(* and who follows a run at the only instance is given its log.             *)
(***************************************************************************)
EXTENDS Lifecycle, FiniteSetTheorems, SequenceTheorems, TLAPS

Waiting == {"acquire", "write", "list", "detach", "publish"}
Inside  == {"write", "list", "detach", "publish"}
Places  == {"idle", "lookup", "insert", "create", "getLock", "acquire", "write",
            "list", "detach", "publish", "dropLock", "look", "attach", "page",
            "find", "request", "mark"}

LockTypes ==
  /\ lockMap \in [Instances -> [Runs -> LockIds \cup {None}]]
  /\ holder \in [Instances -> [LockIds -> Tasks \cup {None}]]
  /\ pc \in [Tasks -> Places]
  /\ call \in [Tasks -> Call \cup {None}]
  /\ lockRef \in [Tasks -> LockIds \cup {None}]

Busy == \A t \in Tasks : pc[t] # "idle" => call[t] \in Call

\* The lock that a task waits for or holds is the one in the map ...
MapHasIt ==
  \A t \in Tasks : pc[t] \in Waiting =>
    lockRef[t] \in LockIds /\ lockMap[call[t].at][call[t].run] = lockRef[t]

\* ... and a task past lock() holds it.
InsideHolds ==
  \A t \in Tasks : pc[t] \in Inside => holder[call[t].at][lockRef[t]] = t

LockInv == LockTypes /\ Busy /\ MapHasIt /\ InsideHolds

-----------------------------------------------------------------------------
(* Finite sets.                                                            *)

LEMMA ImageBound ==
  ASSUME NEW S, IsFiniteSet(S), NEW T, NEW f \in [S -> T]
  PROVE  /\ IsFiniteSet({f[x] : x \in S})
         /\ Cardinality({f[x] : x \in S}) <= Cardinality(S)
<1>. DEFINE Values == {f[x] : x \in S}
<1>1. f \in Surjection(S, Values)
  BY DEF Surjection
<1>. QED
  BY <1>1, FS_Surjection DEF ExistsSurjection

\* There is always a lock no map entry and no task refers to.
LEMMA FreshLock ==
  ASSUME NEW f \in [Runs -> LockIds \cup {None}], NEW g \in [Tasks -> LockIds \cup {None}]
  PROVE  \E x \in LockIds : (\A r \in Runs : f[r] # x) /\ (\A t \in Tasks : g[t] # x)
<1>. DEFINE F == {f[r] : r \in Runs}
            G == {g[t] : t \in Tasks}
<1>0. IsFiniteSet(Runs) /\ IsFiniteSet(Tasks)
  BY ConstantsAssumption
<1>1. IsFiniteSet(F) /\ Cardinality(F) <= Cardinality(Runs)
  BY ONLY <1>0, ImageBound, f \in [Runs -> LockIds \cup {None}]
<1>2. IsFiniteSet(G) /\ Cardinality(G) <= Cardinality(Tasks)
  BY ONLY <1>0, ImageBound, g \in [Tasks -> LockIds \cup {None}]
<1>. HIDE DEF F, G
<1>3. /\ Cardinality(F) \in Nat /\ Cardinality(G) \in Nat
      /\ Cardinality(Runs) \in Nat /\ Cardinality(Tasks) \in Nat
  BY <1>1, <1>2, FS_CardinalityType, ConstantsAssumption
<1>4. IsFiniteSet(F \cup G) /\ Cardinality(F \cup G) \in Nat
      /\ Cardinality(F \cup G) <= Cardinality(F) + Cardinality(G)
  <2>1. IsFiniteSet(F \cap G)
    BY <1>1, FS_Subset
  <2>2. Cardinality(F \cap G) \in Nat
    BY <2>1, FS_CardinalityType
  <2>3. IsFiniteSet(F \cup G)
        /\ Cardinality(F \cup G) = Cardinality(F) + Cardinality(G) - Cardinality(F \cap G)
    BY <1>1, <1>2, FS_Union
  <2>4. Cardinality(F \cup G) \in Nat
    BY <2>3, FS_CardinalityType
  <2>. QED
    BY <1>3, <2>2, <2>3, <2>4
<1>5. Cardinality(LockIds) = Cardinality(Tasks) + Cardinality(Runs) + 1
  BY <1>3, FS_Interval DEF LockIds
<1>6. ~(LockIds \subseteq F \cup G)
  <2>. SUFFICES ASSUME LockIds \subseteq F \cup G PROVE FALSE
    OBVIOUS
  <2>1. Cardinality(LockIds) <= Cardinality(F \cup G)
    BY <1>4, FS_Subset
  <2>. QED
    BY <1>1, <1>2, <1>3, <1>4, <1>5, <2>1
<1>. QED
  BY <1>6 DEF F, G

LEMMA TwoIn ==
  ASSUME NEW S \in SUBSET Tasks, NEW t \in S, NEW u \in S, t # u
  PROVE  Cardinality(S) \in Nat /\ Cardinality(S) >= 2
<1>1. IsFiniteSet(S)
  BY ConstantsAssumption, FS_Subset
<1>2. IsFiniteSet({t}) /\ Cardinality({t}) = 1
  BY FS_Singleton
<1>3. Cardinality({t} \cup {u}) = 2
  BY <1>2, FS_AddElement
<1>4. {t} \cup {u} \in SUBSET S
  OBVIOUS
<1>5. Cardinality({t} \cup {u}) <= Cardinality(S)
  BY <1>1, <1>4, FS_Subset
<1>6. Cardinality(S) \in Nat
  BY <1>1, FS_CardinalityType
<1>. QED
  BY <1>3, <1>5, <1>6

-----------------------------------------------------------------------------
(* The steps.                                                              *)

\* What leaves locks alone, and takes its task out of its call, or on to a place that is
\* past lock() only if the task was there already.
LEMMA LockFrame ==
  ASSUME LockInv, NEW t \in Tasks, UNCHANGED <<lockMap, holder>>,
         \/ Returns(t)
         \/ /\ UNCHANGED <<call, lockRef>>
            /\ \E p \in Places \ {"acquire"} :
                 /\ Goto(t, p)
                 /\ pc[t] # "idle" \/ p = "idle"
                 /\ p \in Inside => pc[t] \in Inside
         \/ UNCHANGED <<pc, call, lockRef>>
  PROVE  LockInv'
<1>1. CASE Returns(t)
  <2>1. pc' = [pc EXCEPT ![t] = "idle"] /\ call' = [call EXCEPT ![t] = None]
        /\ lockRef' = [lockRef EXCEPT ![t] = None]
    BY <1>1 DEF Returns, Goto
  <2>2. LockTypes'
    BY <2>1 DEF LockInv, LockTypes, Places
  <2>3. pc'[t] = "idle" /\ \A u \in Tasks \ {t} : pc'[u] = pc[u] /\ call'[u] = call[u] /\ lockRef'[u] = lockRef[u]
    BY <2>1 DEF LockInv, LockTypes
  <2>4. Busy' /\ MapHasIt' /\ InsideHolds'
    BY <2>3 DEF LockInv, Busy, MapHasIt, InsideHolds, Waiting, Inside
  <2>. QED
    BY <2>2, <2>4 DEF LockInv
<1>2. ASSUME NEW p \in Places \ {"acquire"}, Goto(t, p), UNCHANGED <<call, lockRef>>,
             pc[t] # "idle" \/ p = "idle",
             p \in Inside => pc[t] \in Inside
      PROVE  LockInv'
  <2>1. pc' = [pc EXCEPT ![t] = p]
    BY <1>2 DEF Goto
  <2>2. LockTypes'
    BY <1>2, <2>1 DEF LockInv, LockTypes
  <2>3. pc'[t] = p /\ \A u \in Tasks \ {t} : pc'[u] = pc[u]
    BY <2>1 DEF LockInv, LockTypes
  <2>4. Busy'
    BY <1>2, <2>3 DEF LockInv, Busy
  <2>5. MapHasIt' /\ InsideHolds'
    BY <1>2, <2>3 DEF LockInv, MapHasIt, InsideHolds, Waiting, Inside
  <2>. QED
    BY <2>2, <2>4, <2>5 DEF LockInv
<1>3. CASE UNCHANGED <<pc, call, lockRef>>
  BY <1>3 DEF LockInv, LockTypes, Busy, MapHasIt, InsideHolds
<1>. QED
  BY <1>1, <1>2, <1>3

LEMMA BeginLock ==
  ASSUME LockInv, NEW t \in Tasks, NEW c \in Call, Begin(t, c)
  PROVE  LockInv'
<1>1. pc[t] = "idle" /\ pc' = [pc EXCEPT ![t] = FirstStep(c.kind)] /\ call' = [call EXCEPT ![t] = c]
      /\ UNCHANGED <<lockMap, holder, lockRef>>
  BY DEF Begin, Goto
<1>2. FirstStep(c.kind) \in Places /\ FirstStep(c.kind) \notin Waiting
  BY DEF FirstStep, Places, Waiting
<1>3. LockTypes'
  BY <1>1, <1>2 DEF LockInv, LockTypes
<1>4. /\ call'[t] = c /\ pc'[t] \notin Waiting
      /\ \A u \in Tasks \ {t} : pc'[u] = pc[u] /\ call'[u] = call[u]
  BY <1>1, <1>2 DEF LockInv, LockTypes
<1>5. Busy' /\ MapHasIt' /\ InsideHolds'
  BY <1>1, <1>4 DEF LockInv, Busy, MapHasIt, InsideHolds, Waiting, Inside
<1>. QED
  BY <1>3, <1>5 DEF LockInv

\* What is outside of the event lock, and what happens under it.
LEMMA CallLock ==
  ASSUME LockInv, NEW t \in Tasks,
         \/ LookupStart(t) \/ InsertRun(t) \/ CreateRun(t)
         \/ \E from \in {0, 1} : Look(t, from)
         \/ Attach(t) \/ ListPage(t) \/ TailNext(t)
         \/ FindCancelled(t) \/ RequestCancel(t) \/ MarkCancelled(t)
         \/ Write(t) \/ ListForDetach(t) \/ Detach(t) \/ Publish(t)
  PROVE  LockInv'
<1>. USE DEF Places, Inside, taskVars
<1>1. CASE LookupStart(t) \/ InsertRun(t) \/ CreateRun(t)
  BY <1>1, LockFrame DEF LookupStart, InsertRun, CreateRun
<1>2. CASE \E from \in {0, 1} : Look(t, from)
  BY <1>2, LockFrame DEF Look
<1>3. CASE Attach(t)
  BY <1>3, LockFrame DEF Attach
<1>9. CASE ListPage(t)
  <2>1. Returns(t) /\ UNCHANGED <<lockMap, holder>>
    BY <1>9 DEF ListPage
  <2>. QED
    BY <2>1, LockFrame
<1>10. CASE TailNext(t)
  <2>1. UNCHANGED <<lockMap, holder, pc, call, lockRef>>
    BY <1>10 DEF TailNext
  <2>. QED
    BY <2>1, LockFrame
<1>4. CASE FindCancelled(t) \/ RequestCancel(t) \/ MarkCancelled(t)
  BY <1>4, LockFrame DEF FindCancelled, RequestCancel, MarkCancelled
<1>5. CASE Write(t)
  BY <1>5, LockFrame DEF Write
<1>6. CASE ListForDetach(t)
  <2>1. pc[t] = "list" /\ UNCHANGED <<lockMap, holder, call, lockRef>>
    BY <1>6 DEF ListForDetach
  <2>2. Goto(t, "detach") \/ Goto(t, "publish")
    BY <1>6 DEF ListForDetach
  <2>. QED
    BY <2>1, <2>2, LockFrame
<1>7. CASE Detach(t)
  BY <1>7, LockFrame DEF Detach
<1>8. CASE Publish(t)
  BY <1>8, LockFrame DEF Publish
<1>. QED
  BY <1>1, <1>2, <1>3, <1>4, <1>5, <1>6, <1>7, <1>8, <1>9, <1>10

LEMMA GetLockLock ==
  ASSUME LockInv, NEW t \in Tasks, GetLock(t)
  PROVE  LockInv'
<1>. DEFINE i == call[t].at
            r == call[t].run
            fresh == CHOOSE x \in LockIds : x \notin InUse(i)
            l == IF lockMap[i][r] # None THEN lockMap[i][r] ELSE fresh
<1>1. pc[t] = "getLock" /\ call[t] \in Call
  BY DEF GetLock, LockInv, Busy
<1>2. i \in Instances /\ r \in Runs
  BY <1>1 DEF Call
<1>3. /\ lockMap' = [lockMap EXCEPT ![i][r] = l]
      /\ lockRef' = [lockRef EXCEPT ![t] = l]
      /\ pc' = [pc EXCEPT ![t] = "acquire"]
      /\ UNCHANGED <<holder, call>>
  BY DEF GetLock, Goto
<1>4. fresh \in LockIds
  <2>1. lockMap[i] \in [Runs -> LockIds \cup {None}] /\ lockRef \in [Tasks -> LockIds \cup {None}]
    BY <1>2 DEF LockInv, LockTypes
  <2>2. PICK x \in LockIds : (\A q \in Runs : lockMap[i][q] # x) /\ (\A u \in Tasks : lockRef[u] # x)
    BY ONLY <2>1, FreshLock
  <2>3. x \notin InUse(i)
    BY <2>2 DEF InUse
  <2>. QED
    BY <2>2, <2>3
<1>5. l \in LockIds
  BY <1>2, <1>4 DEF LockInv, LockTypes
<1>6. lockMap[i][r] # None => l = lockMap[i][r]
  OBVIOUS
<1>. HIDE DEF l
<1>7. LockTypes'
  BY <1>2, <1>3, <1>5 DEF LockInv, LockTypes, Places
<1>8. /\ lockMap'[i][r] = l /\ lockRef'[t] = l /\ pc'[t] = "acquire"
      /\ \A u \in Tasks \ {t} : pc'[u] = pc[u] /\ lockRef'[u] = lockRef[u]
      /\ \A j \in Instances, q \in Runs : <<j, q>> # <<i, r>> => lockMap'[j][q] = lockMap[j][q]
  BY <1>2, <1>3 DEF LockInv, LockTypes
<1>9. Busy'
  BY <1>1, <1>3, <1>8 DEF LockInv, Busy
<1>10. ASSUME NEW u \in Tasks \ {t}, pc[u] \in Waiting
       PROVE  lockMap'[call[u].at][call[u].run] = lockRef[u]
  <2>1. call[u] \in Call /\ lockRef[u] \in LockIds /\ lockMap[call[u].at][call[u].run] = lockRef[u]
    BY <1>10 DEF LockInv, Busy, MapHasIt, Waiting
  <2>2. lockRef[u] # None /\ call[u].at \in Instances /\ call[u].run \in Runs
    BY <2>1, ConstantsAssumption DEF Call
  <2>3. CASE call[u].at = i /\ call[u].run = r
    BY <1>6, <1>8, <2>1, <2>2, <2>3
  <2>4. CASE <<call[u].at, call[u].run>> # <<i, r>>
    BY <1>8, <2>1, <2>2, <2>4
  <2>. QED
    BY <2>3, <2>4
<1>11. MapHasIt'
  BY <1>3, <1>5, <1>8, <1>10 DEF LockInv, MapHasIt
<1>12. InsideHolds'
  BY <1>3, <1>8 DEF LockInv, InsideHolds, Inside
<1>. QED
  BY <1>7, <1>9, <1>11, <1>12 DEF LockInv

LEMMA AcquireLock ==
  ASSUME LockInv, NEW t \in Tasks, Acquire(t)
  PROVE  LockInv'
<1>. DEFINE i == call[t].at
            l == lockRef[t]
<1>1. pc[t] = "acquire" /\ call[t] \in Call /\ l \in LockIds /\ holder[i][l] = None
  BY DEF Acquire, LockInv, Busy, MapHasIt, Waiting
<1>2. i \in Instances
  BY <1>1 DEF Call
<1>3. PICK p \in {"list", "write"} : pc' = [pc EXCEPT ![t] = p]
  BY DEF Acquire, Goto
<1>4. holder' = [holder EXCEPT ![i][l] = t] /\ UNCHANGED <<lockMap, call, lockRef>>
  BY DEF Acquire
<1>5. LockTypes'
  BY <1>1, <1>2, <1>3, <1>4 DEF LockInv, LockTypes, Places
<1>6. /\ pc'[t] = p /\ \A u \in Tasks \ {t} : pc'[u] = pc[u]
      /\ holder'[i][l] = t
      /\ \A j \in Instances, k \in LockIds : <<j, k>> # <<i, l>> => holder'[j][k] = holder[j][k]
  BY <1>1, <1>2, <1>3, <1>4 DEF LockInv, LockTypes
<1>7. Busy' /\ MapHasIt'
  BY <1>1, <1>4, <1>6 DEF LockInv, Busy, MapHasIt, Waiting
<1>8. ASSUME NEW u \in Tasks \ {t}, pc[u] \in Inside
      PROVE  holder'[call[u].at][lockRef[u]] = u
  <2>1. call[u] \in Call /\ lockRef[u] \in LockIds /\ holder[call[u].at][lockRef[u]] = u
    BY <1>8 DEF LockInv, Busy, MapHasIt, InsideHolds, Waiting, Inside
  <2>2. call[u].at \in Instances /\ u # None
    BY <2>1, ConstantsAssumption DEF Call
  <2>3. <<call[u].at, lockRef[u]>> # <<i, l>>
    BY <1>1, <2>1, <2>2
  <2>. QED
    BY <1>6, <2>1, <2>2, <2>3
<1>9. InsideHolds'
  BY <1>4, <1>6, <1>8 DEF LockInv, InsideHolds
<1>. QED
  BY <1>5, <1>7, <1>9 DEF LockInv

LEMMA ReleaseLock ==
  ASSUME LockInv, NEW t \in Tasks, Release(t)
  PROVE  LockInv'
<1>. DEFINE i == call[t].at
            l == lockRef[t]
<1>1. pc[t] = "publish" /\ call[t] \in Call /\ l \in LockIds /\ holder[i][l] = t
  BY DEF Release, LockInv, Busy, MapHasIt, InsideHolds, Waiting, Inside
<1>2. i \in Instances
  BY <1>1 DEF Call
<1>3. holder' = [holder EXCEPT ![i][l] = None] /\ UNCHANGED lockMap
  BY DEF Release
<1>4. /\ pc' \in [Tasks -> Places] /\ call' \in [Tasks -> Call \cup {None}]
      /\ lockRef' \in [Tasks -> LockIds \cup {None}]
      /\ pc'[t] \in {"idle", "dropLock"} /\ (pc'[t] # "idle" => call'[t] = call[t])
      /\ \A u \in Tasks \ {t} : pc'[u] = pc[u] /\ call'[u] = call[u] /\ lockRef'[u] = lockRef[u]
  <2>1. CASE Returns(t)
    BY <2>1 DEF Returns, Goto, LockInv, LockTypes, Places
  <2>2. CASE Goto(t, "dropLock") /\ UNCHANGED <<call, lockRef, answer, calls>>
    BY <2>2 DEF Goto, LockInv, LockTypes, Places
  <2>. QED
    BY <2>1, <2>2 DEF Release
<1>5. LockTypes'
  BY <1>1, <1>2, <1>3, <1>4 DEF LockInv, LockTypes
<1>6. \A j \in Instances, k \in LockIds : <<j, k>> # <<i, l>> => holder'[j][k] = holder[j][k]
  BY <1>1, <1>2, <1>3 DEF LockInv, LockTypes
<1>7. Busy' /\ MapHasIt'
  BY <1>1, <1>3, <1>4 DEF LockInv, Busy, MapHasIt, Waiting
<1>8. ASSUME NEW u \in Tasks \ {t}, pc[u] \in Inside
      PROVE  holder'[call[u].at][lockRef[u]] = u
  <2>1. call[u] \in Call /\ lockRef[u] \in LockIds /\ holder[call[u].at][lockRef[u]] = u
    BY <1>8 DEF LockInv, Busy, MapHasIt, InsideHolds, Waiting, Inside
  <2>2. call[u].at \in Instances
    BY <2>1 DEF Call
  <2>3. <<call[u].at, lockRef[u]>> # <<i, l>>
    BY <1>1, <2>1
  <2>. QED
    BY <1>6, <2>1, <2>2, <2>3
<1>9. InsideHolds'
  BY <1>4, <1>8 DEF LockInv, InsideHolds, Inside
<1>. QED
  BY <1>5, <1>7, <1>9 DEF LockInv

\* If the caller's lock is the map's and only they refer to it, nobody else waits for it.
LEMMA NobodyWaits ==
  ASSUME LockInv, NEW t \in Tasks, pc[t] = "dropLock",
         lockMap[call[t].at][call[t].run] = lockRef[t],
         References(call[t].at, call[t].run, lockRef[t]) <= 2,
         NEW u \in Tasks, pc[u] \in Waiting
  PROVE  ~(call[u].at = call[t].at /\ call[u].run = call[t].run)
<1>. SUFFICES ASSUME call[u].at = call[t].at, call[u].run = call[t].run PROVE FALSE
  OBVIOUS
<1>. DEFINE Referring == {v \in Tasks : call[v] # None /\ call[v].at = call[t].at /\ lockRef[v] = lockRef[t]}
<1>1. call[t] \in Call /\ call[u] \in Call /\ t # u
  BY DEF LockInv, Busy, Waiting
<1>2. call[t] # None /\ call[u] # None
  BY <1>1, ConstantsAssumption
<1>3. lockRef[u] = lockRef[t]
  BY DEF LockInv, MapHasIt
<1>4. t \in Referring /\ u \in Referring
  BY <1>2, <1>3
<1>5. Cardinality(Referring) \in Nat /\ Cardinality(Referring) >= 2
  BY <1>1, <1>4, TwoIn
<1>6. References(call[t].at, call[t].run, lockRef[t]) = 1 + Cardinality(Referring)
  BY DEF References
<1>. QED
  BY <1>5, <1>6

LEMMA DropLockLock ==
  ASSUME LockInv, NEW t \in Tasks, DropLock(t)
  PROVE  LockInv'
<1>. DEFINE i == call[t].at
            r == call[t].run
            drops == lockMap[i][r] = lockRef[t] /\ References(i, r, lockRef[t]) <= 2
<1>1. pc[t] = "dropLock" /\ call[t] \in Call /\ Returns(t) /\ UNCHANGED holder
  BY DEF DropLock, LockInv, Busy
<1>2. i \in Instances /\ r \in Runs
  BY <1>1 DEF Call
<1>3. lockMap' = IF drops THEN [lockMap EXCEPT ![i][r] = None] ELSE lockMap
  BY DEF DropLock
<1>4. CASE ~drops
  <2>1. UNCHANGED <<lockMap, holder>>
    BY <1>1, <1>3, <1>4
  <2>. QED
    BY <1>1, <2>1, LockFrame
<1>5. CASE drops
  <2>1. lockMap' = [lockMap EXCEPT ![i][r] = None]
    BY <1>3, <1>5
  <2>2. \A u \in Tasks : pc[u] \in Waiting => <<call[u].at, call[u].run>> # <<i, r>>
    BY <1>1, <1>5, NobodyWaits
  <2>. HIDE DEF drops
  <2>3. /\ pc' = [pc EXCEPT ![t] = "idle"] /\ call' = [call EXCEPT ![t] = None]
        /\ lockRef' = [lockRef EXCEPT ![t] = None]
    BY <1>1 DEF Returns, Goto
  <2>4. LockTypes'
    BY <1>1, <1>2, <2>1, <2>3 DEF LockInv, LockTypes, Places
  <2>5. /\ pc'[t] = "idle"
        /\ \A u \in Tasks \ {t} : pc'[u] = pc[u] /\ call'[u] = call[u] /\ lockRef'[u] = lockRef[u]
        /\ \A j \in Instances, q \in Runs : <<j, q>> # <<i, r>> => lockMap'[j][q] = lockMap[j][q]
    BY <1>2, <2>1, <2>3 DEF LockInv, LockTypes
  <2>6. Busy' /\ InsideHolds'
    BY <1>1, <2>5 DEF LockInv, Busy, InsideHolds, Inside
  <2>7. ASSUME NEW u \in Tasks \ {t}, pc[u] \in Waiting
        PROVE  lockRef[u] \in LockIds /\ lockMap'[call[u].at][call[u].run] = lockRef[u]
    <3>1. call[u] \in Call /\ lockRef[u] \in LockIds /\ lockMap[call[u].at][call[u].run] = lockRef[u]
      BY <2>7 DEF LockInv, Busy, MapHasIt, Waiting
    <3>2. call[u].at \in Instances /\ call[u].run \in Runs
      BY <3>1 DEF Call
    <3>. QED
      BY <2>2, <2>5, <2>7, <3>1, <3>2
  <2>8. MapHasIt'
    BY <2>5, <2>7 DEF MapHasIt, Waiting
  <2>. QED
    BY <2>4, <2>6, <2>8 DEF LockInv
<1>. QED
  BY <1>4, <1>5

LEMMA LockInvariant == Spec => []LockInv
<1>1. Init => LockInv
  BY DEF Init, LockInv, LockTypes, Busy, MapHasIt, InsideHolds, Places, Waiting, Inside
<1>2. LockInv /\ [Next]_vars => LockInv'
  <2>. SUFFICES ASSUME LockInv, [Next]_vars PROVE LockInv'
    OBVIOUS
  <2>1. ASSUME NEW r \in Runs, Lapse(r) \/ Reap(r)
        PROVE  UNCHANGED <<lockMap, holder, pc, call, lockRef>>
    BY <2>1 DEF Lapse, Reap, taskVars
  <2>2. UNCHANGED vars => UNCHANGED <<lockMap, holder, pc, call, lockRef>>
    BY DEF vars, taskVars
  <2>3. UNCHANGED <<lockMap, holder, pc, call, lockRef>> => LockInv'
    BY DEF LockInv, LockTypes, Busy, MapHasIt, InsideHolds
  <2>4. ASSUME NEW t \in Tasks, Step(t) PROVE LockInv'
    BY <2>4, CallLock, GetLockLock, AcquireLock, ReleaseLock, DropLockLock DEF Step
  <2>. QED
    BY <2>1, <2>2, <2>3, <2>4, BeginLock DEF Next, Quiet
<1>. QED
  BY <1>1, <1>2, PTL DEF Spec

\* The lock of the map is the one that whoever is past lock() holds.
LEMMA LocksExclude == Spec => []EventLockExclusive
<1>1. LockInv => EventLockExclusive
  <2>. SUFFICES ASSUME LockInv, NEW i \in Instances, NEW r \in Runs
                PROVE  Cardinality(Guarded(i, r)) <= 1
    BY DEF EventLockExclusive
  <2>1. \A t \in Guarded(i, r) : t = holder[i][lockMap[i][r]]
    BY DEF Guarded, LockInv, MapHasIt, InsideHolds, Waiting, Inside
  <2>2. Guarded(i, r) = {} \/ \E t : Guarded(i, r) = {t}
    BY <2>1
  <2>3. \A t : Cardinality({t}) = 1
    BY FS_Singleton
  <2>4. Cardinality({}) = 0
    BY FS_EmptySet
  <2>. QED
    BY <2>2, <2>3, <2>4
<1>. QED
  BY <1>1, LockInvariant, PTL

-----------------------------------------------------------------------------
(* Whom a caller waits for.                                                *)

\* Two runs of an instance never have one lock ...
LocksApart ==
  \A i \in Instances, r, q \in Runs :
    lockMap[i][r] # None /\ lockMap[i][r] = lockMap[i][q] => r = q

\* ... and a lock that is held is held by a task past lock(): nothing returns with it.
HeldInside ==
  \A i \in Instances, l \in LockIds : holder[i][l] # None =>
    /\ pc[holder[i][l]] \in Inside
    /\ call[holder[i][l]].at = i
    /\ lockRef[holder[i][l]] = l

\* What leaves the maps and the guards alone and takes nobody out of the lock.
LEMMA HeldFrame ==
  ASSUME LockInv, LocksApart, HeldInside, NEW t \in Tasks, UNCHANGED <<lockMap, holder>>,
         \/ pc[t] \notin Inside
         \/ UNCHANGED <<call, lockRef>> /\ pc'[t] \in Inside,
         \A u \in Tasks \ {t} : pc'[u] = pc[u] /\ call'[u] = call[u] /\ lockRef'[u] = lockRef[u]
  PROVE  LocksApart' /\ HeldInside'
<1>1. LocksApart'
  BY DEF LocksApart
<1>2. ASSUME NEW i \in Instances, NEW l \in LockIds, holder[i][l] # None
      PROVE  /\ pc'[holder[i][l]] \in Inside
             /\ call'[holder[i][l]].at = i
             /\ lockRef'[holder[i][l]] = l
  <2>1. PICK u \in Tasks : u = holder[i][l]
    BY <1>2 DEF LockInv, LockTypes
  <2>2. pc[u] \in Inside /\ call[u].at = i /\ lockRef[u] = l
    BY <1>2, <2>1 DEF HeldInside
  <2>3. pc'[u] \in Inside /\ call'[u].at = i /\ lockRef'[u] = l
    BY <2>2
  <2>. QED
    BY <2>1, <2>3
<1>3. HeldInside'
  BY <1>2 DEF HeldInside
<1>. QED
  BY <1>1, <1>3

\* A step of a task is a step of nobody else.
LEMMA OthersStay ==
  ASSUME LockInv, NEW t \in Tasks,
         \/ Returns(t)
         \/ (\E p \in Places : Goto(t, p)) /\ UNCHANGED <<call, lockRef>>
         \/ UNCHANGED <<pc, call, lockRef>>
  PROVE  \A u \in Tasks \ {t} : pc'[u] = pc[u] /\ call'[u] = call[u] /\ lockRef'[u] = lockRef[u]
BY DEF Returns, Goto, LockInv, LockTypes

LEMMA CallHeld ==
  ASSUME LockInv, LocksApart, HeldInside, NEW t \in Tasks,
         \/ LookupStart(t) \/ InsertRun(t) \/ CreateRun(t)
         \/ \E from \in {0, 1} : Look(t, from)
         \/ Attach(t) \/ ListPage(t) \/ TailNext(t)
         \/ FindCancelled(t) \/ RequestCancel(t) \/ MarkCancelled(t)
         \/ Write(t) \/ ListForDetach(t) \/ Detach(t) \/ Publish(t)
  PROVE  LocksApart' /\ HeldInside'
<1>. USE DEF Places, Inside
<1>1. CASE LookupStart(t) \/ InsertRun(t) \/ CreateRun(t)
  <2>1. pc[t] \notin Inside /\ UNCHANGED <<lockMap, holder>>
    BY <1>1 DEF LookupStart, InsertRun, CreateRun
  <2>2. Returns(t) \/ ((\E p \in Places : Goto(t, p)) /\ UNCHANGED <<call, lockRef>>)
    BY <1>1 DEF LookupStart, InsertRun, CreateRun
  <2>. QED
    BY <2>1, <2>2, HeldFrame, OthersStay
<1>2. CASE \E from \in {0, 1} : Look(t, from)
  <2>1. pc[t] \notin Inside /\ UNCHANGED <<lockMap, holder>>
    BY <1>2 DEF Look
  <2>2. Returns(t) \/ ((\E p \in Places : Goto(t, p)) /\ UNCHANGED <<call, lockRef>>)
    BY <1>2 DEF Look
  <2>. QED
    BY <2>1, <2>2, HeldFrame, OthersStay
<1>3. CASE Attach(t) \/ ListPage(t)
  <2>1. pc[t] \notin Inside /\ UNCHANGED <<lockMap, holder>>
    BY <1>3 DEF Attach, ListPage
  <2>2. Returns(t) \/ ((\E p \in Places : Goto(t, p)) /\ UNCHANGED <<call, lockRef>>)
    BY <1>3 DEF Attach, ListPage
  <2>. QED
    BY <2>1, <2>2, HeldFrame, OthersStay
<1>4. CASE TailNext(t)
  <2>1. UNCHANGED <<lockMap, holder, pc, call, lockRef>>
    BY <1>4 DEF TailNext, taskVars
  <2>. QED
    BY <2>1, HeldFrame, OthersStay
<1>5. CASE FindCancelled(t) \/ RequestCancel(t) \/ MarkCancelled(t)
  <2>1. pc[t] \notin Inside /\ UNCHANGED <<lockMap, holder>>
    BY <1>5 DEF FindCancelled, RequestCancel, MarkCancelled
  <2>2. Returns(t) \/ ((\E p \in Places : Goto(t, p)) /\ UNCHANGED <<call, lockRef>>)
    BY <1>5 DEF FindCancelled, RequestCancel, MarkCancelled
  <2>. QED
    BY <2>1, <2>2, HeldFrame, OthersStay
<1>6. CASE Write(t) \/ Detach(t)
  <2>1. Goto(t, "publish") /\ UNCHANGED <<lockMap, holder, call, lockRef>>
    BY <1>6 DEF Write, Detach
  <2>2. pc'[t] \in Inside
    BY <2>1 DEF Goto, LockInv, LockTypes
  <2>. QED
    BY <2>1, <2>2, HeldFrame, OthersStay
<1>7. CASE ListForDetach(t)
  <2>1. /\ Goto(t, "detach") \/ Goto(t, "publish")
        /\ UNCHANGED <<lockMap, holder, call, lockRef>>
    BY <1>7 DEF ListForDetach
  <2>2. pc'[t] \in Inside
    BY <2>1 DEF Goto, LockInv, LockTypes
  <2>. QED
    BY <2>1, <2>2, HeldFrame, OthersStay
<1>8. CASE Publish(t)
  <2>1. UNCHANGED <<lockMap, holder, pc, call, lockRef>> /\ pc[t] \in Inside
    BY <1>8 DEF Publish
  <2>. QED
    BY <2>1, HeldFrame, OthersStay
<1>. QED
  BY <1>1, <1>2, <1>3, <1>4, <1>5, <1>6, <1>7, <1>8

LEMMA BeginHeld ==
  ASSUME LockInv, LocksApart, HeldInside, NEW t \in Tasks, NEW c \in Call, Begin(t, c)
  PROVE  LocksApart' /\ HeldInside'
<1>1. pc[t] \notin Inside /\ UNCHANGED <<lockMap, holder, lockRef>>
  BY DEF Begin, Inside
<1>2. \A u \in Tasks \ {t} : pc'[u] = pc[u] /\ call'[u] = call[u] /\ lockRef'[u] = lockRef[u]
  BY DEF Begin, Goto, LockInv, LockTypes
<1>. QED
  BY <1>1, <1>2, HeldFrame

\* The new lock is nobody's, and no other run of the instance has it.
LEMMA GetLockHeld ==
  ASSUME LockInv, LocksApart, HeldInside, NEW t \in Tasks, GetLock(t)
  PROVE  LocksApart' /\ HeldInside'
<1>. DEFINE i == call[t].at
            r == call[t].run
            fresh == CHOOSE x \in LockIds : x \notin InUse(i)
            l == IF lockMap[i][r] # None THEN lockMap[i][r] ELSE fresh
<1>1. pc[t] = "getLock" /\ call[t] \in Call
  BY DEF GetLock, LockInv, Busy
<1>2. i \in Instances /\ r \in Runs
  BY <1>1 DEF Call
<1>3. /\ lockMap' = [lockMap EXCEPT ![i][r] = l]
      /\ lockRef' = [lockRef EXCEPT ![t] = l]
      /\ pc' = [pc EXCEPT ![t] = "acquire"]
      /\ UNCHANGED <<holder, call>>
  BY DEF GetLock, Goto
<1>4. fresh \notin InUse(i)
  <2>1. lockMap[i] \in [Runs -> LockIds \cup {None}] /\ lockRef \in [Tasks -> LockIds \cup {None}]
    BY <1>2 DEF LockInv, LockTypes
  <2>2. PICK x \in LockIds : (\A q \in Runs : lockMap[i][q] # x) /\ (\A u \in Tasks : lockRef[u] # x)
    BY ONLY <2>1, FreshLock
  <2>3. x \notin InUse(i)
    BY <2>2 DEF InUse
  <2>. QED
    BY <2>2, <2>3
<1>5. \A q \in Runs : q # r => l # lockMap[i][q]
  <2>1. \A q \in Runs : fresh # lockMap[i][q]
    BY <1>4 DEF InUse
  <2>. HIDE DEF fresh
  <2>. QED
    BY <1>2, <2>1 DEF LocksApart
<1>. HIDE DEF l
<1>6. /\ lockMap'[i][r] = l
      /\ \A j \in Instances, q \in Runs : <<j, q>> # <<i, r>> => lockMap'[j][q] = lockMap[j][q]
  BY <1>2, <1>3 DEF LockInv, LockTypes
<1>7. LocksApart'
  <2>. SUFFICES ASSUME NEW j \in Instances, NEW p \in Runs, NEW q \in Runs,
                       lockMap'[j][p] # None, lockMap'[j][p] = lockMap'[j][q]
                PROVE  p = q
    BY DEF LocksApart
  <2>1. CASE j # i
    BY <1>6, <2>1 DEF LocksApart
  <2>2. CASE j = i /\ p # r /\ q # r
    BY <1>6, <2>2 DEF LocksApart
  <2>3. CASE j = i /\ p = r /\ q # r
    BY <1>5, <1>6, <2>3
  <2>4. CASE j = i /\ p # r /\ q = r
    BY <1>5, <1>6, <2>4
  <2>. QED
    BY <2>1, <2>2, <2>3, <2>4
<1>8. HeldInside'
  <2>. SUFFICES ASSUME NEW j \in Instances, NEW k \in LockIds, holder[j][k] # None
                PROVE  /\ pc'[holder[j][k]] \in Inside
                       /\ call'[holder[j][k]].at = j
                       /\ lockRef'[holder[j][k]] = k
    BY <1>3 DEF HeldInside
  <2>1. holder[j][k] \in Tasks /\ pc[holder[j][k]] \in Inside /\ call[holder[j][k]].at = j
        /\ lockRef[holder[j][k]] = k
    BY DEF HeldInside, LockInv, LockTypes
  <2>2. holder[j][k] # t
    BY <1>1, <2>1 DEF Inside
  <2>. QED
    BY <1>3, <2>1, <2>2 DEF LockInv, LockTypes
<1>. QED
  BY <1>7, <1>8

LEMMA AcquireHeld ==
  ASSUME LockInv, LocksApart, HeldInside, NEW t \in Tasks, Acquire(t)
  PROVE  LocksApart' /\ HeldInside'
<1>. DEFINE i == call[t].at
            l == lockRef[t]
<1>1. pc[t] = "acquire" /\ call[t] \in Call /\ l \in LockIds
  BY DEF Acquire, LockInv, Busy, MapHasIt, Waiting
<1>2. i \in Instances
  BY <1>1 DEF Call
<1>3. PICK p \in {"list", "write"} : pc' = [pc EXCEPT ![t] = p]
  BY DEF Acquire, Goto
<1>4. holder' = [holder EXCEPT ![i][l] = t] /\ UNCHANGED <<lockMap, call, lockRef>>
  BY DEF Acquire
<1>5. /\ pc'[t] = p /\ \A u \in Tasks \ {t} : pc'[u] = pc[u]
      /\ holder'[i][l] = t
      /\ \A j \in Instances, k \in LockIds : <<j, k>> # <<i, l>> => holder'[j][k] = holder[j][k]
  BY <1>1, <1>2, <1>3, <1>4 DEF LockInv, LockTypes
<1>6. LocksApart'
  BY <1>4 DEF LocksApart
<1>7. HeldInside'
  <2>. SUFFICES ASSUME NEW j \in Instances, NEW k \in LockIds, holder'[j][k] # None
                PROVE  /\ pc'[holder'[j][k]] \in Inside
                       /\ call'[holder'[j][k]].at = j
                       /\ lockRef'[holder'[j][k]] = k
    BY DEF HeldInside
  <2>1. CASE <<j, k>> = <<i, l>>
    BY <1>4, <1>5, <2>1 DEF Inside
  <2>2. CASE <<j, k>> # <<i, l>>
    <3>1. holder'[j][k] = holder[j][k] /\ holder[j][k] \in Tasks
      BY <1>5, <2>2 DEF LockInv, LockTypes
    <3>2. pc[holder[j][k]] \in Inside /\ call[holder[j][k]].at = j /\ lockRef[holder[j][k]] = k
      BY <3>1 DEF HeldInside
    <3>3. holder[j][k] # t
      BY <1>1, <3>2 DEF Inside
    <3>. QED
      BY <1>4, <1>5, <3>1, <3>2, <3>3
  <2>. QED
    BY <2>1, <2>2
<1>. QED
  BY <1>6, <1>7

\* The guard drops whatever the answer is.
LEMMA ReleaseHeld ==
  ASSUME LockInv, LocksApart, HeldInside, NEW t \in Tasks, Release(t)
  PROVE  LocksApart' /\ HeldInside'
<1>. DEFINE i == call[t].at
            l == lockRef[t]
<1>1. pc[t] = "publish" /\ call[t] \in Call /\ l \in LockIds
  BY DEF Release, LockInv, Busy, MapHasIt, Waiting
<1>2. i \in Instances
  BY <1>1 DEF Call
<1>3. holder' = [holder EXCEPT ![i][l] = None] /\ UNCHANGED lockMap
  BY DEF Release
<1>4. \A u \in Tasks \ {t} : pc'[u] = pc[u] /\ call'[u] = call[u] /\ lockRef'[u] = lockRef[u]
  BY OthersStay DEF Release, Places
<1>5. /\ holder'[i][l] = None
      /\ \A j \in Instances, k \in LockIds : <<j, k>> # <<i, l>> => holder'[j][k] = holder[j][k]
  BY <1>1, <1>2, <1>3 DEF LockInv, LockTypes
<1>6. LocksApart'
  BY <1>3 DEF LocksApart
<1>7. HeldInside'
  <2>. SUFFICES ASSUME NEW j \in Instances, NEW k \in LockIds, holder'[j][k] # None
                PROVE  /\ pc'[holder'[j][k]] \in Inside
                       /\ call'[holder'[j][k]].at = j
                       /\ lockRef'[holder'[j][k]] = k
    BY DEF HeldInside
  <2>1. <<j, k>> # <<i, l>> /\ holder'[j][k] = holder[j][k] /\ holder[j][k] \in Tasks
    BY <1>5 DEF LockInv, LockTypes
  <2>2. pc[holder[j][k]] \in Inside /\ call[holder[j][k]].at = j /\ lockRef[holder[j][k]] = k
    BY <2>1 DEF HeldInside
  <2>3. holder[j][k] # t
    BY <2>1, <2>2
  <2>. QED
    BY <1>4, <2>1, <2>2, <2>3
<1>. QED
  BY <1>6, <1>7

LEMMA DropLockHeld ==
  ASSUME LockInv, LocksApart, HeldInside, NEW t \in Tasks, DropLock(t)
  PROVE  LocksApart' /\ HeldInside'
<1>. DEFINE i == call[t].at
            r == call[t].run
<1>1. pc[t] = "dropLock" /\ call[t] \in Call /\ Returns(t) /\ UNCHANGED holder
  BY DEF DropLock, LockInv, Busy
<1>2. i \in Instances /\ r \in Runs
  BY <1>1 DEF Call
<1>3. lockMap' = [lockMap EXCEPT ![i][r] = None] \/ lockMap' = lockMap
  BY DEF DropLock
<1>4. \A j \in Instances, q \in Runs : lockMap'[j][q] = lockMap[j][q] \/ lockMap'[j][q] = None
  BY SMTT(30), <1>2, <1>3 DEF LockInv, LockTypes
<1>5. LocksApart'
  BY <1>4 DEF LocksApart
<1>6. \A u \in Tasks \ {t} : pc'[u] = pc[u] /\ call'[u] = call[u] /\ lockRef'[u] = lockRef[u]
  BY <1>1, OthersStay
<1>7. HeldInside'
  <2>. SUFFICES ASSUME NEW j \in Instances, NEW k \in LockIds, holder[j][k] # None
                PROVE  /\ pc'[holder[j][k]] \in Inside
                       /\ call'[holder[j][k]].at = j
                       /\ lockRef'[holder[j][k]] = k
    BY <1>1 DEF HeldInside
  <2>1. holder[j][k] \in Tasks /\ pc[holder[j][k]] \in Inside /\ call[holder[j][k]].at = j
        /\ lockRef[holder[j][k]] = k
    BY DEF HeldInside, LockInv, LockTypes
  <2>2. holder[j][k] # t
    BY <1>1, <2>1 DEF Inside
  <2>. QED
    BY <1>6, <2>1, <2>2
<1>. QED
  BY <1>5, <1>7

\* A caller that waits at lock() waits for a free lock, or for another caller's operation on
\* the same run at the same instance, which is past lock() and so waits for no lock itself:
\* whatever the operation met, its guard was dropped, and there is no circle of waiters.
WaitersAreServed ==
  \A t \in Tasks : pc[t] = "acquire" =>
    \/ holder[call[t].at][lockRef[t]] = None
    \/ \E u \in Guarded(call[t].at, call[t].run) \ {t} : holder[call[t].at][lockRef[t]] = u

\* For any number of callers, instances and runs: the event locks cannot deadlock, and no
\* operation that failed has left one locked.  Fairness then does the rest of CallsReturn.
THEOREM LocksComeBack == Spec => []WaitersAreServed
<1>1. Init => LocksApart /\ HeldInside
  BY DEF Init, LocksApart, HeldInside
<1>2. LockInv /\ LocksApart /\ HeldInside /\ [Next]_vars => LocksApart' /\ HeldInside'
  <2>. SUFFICES ASSUME LockInv, LocksApart, HeldInside, [Next]_vars
                PROVE  LocksApart' /\ HeldInside'
    OBVIOUS
  <2>1. ASSUME NEW r \in Runs, Lapse(r) \/ Reap(r)
        PROVE  UNCHANGED <<lockMap, holder, pc, call, lockRef>>
    BY <2>1 DEF Lapse, Reap, taskVars
  <2>2. UNCHANGED vars => UNCHANGED <<lockMap, holder, pc, call, lockRef>>
    BY DEF vars, taskVars
  <2>3. UNCHANGED <<lockMap, holder, pc, call, lockRef>> => LocksApart' /\ HeldInside'
    BY DEF LocksApart, HeldInside
  <2>4. ASSUME NEW t \in Tasks, Step(t) PROVE LocksApart' /\ HeldInside'
    BY <2>4, CallHeld, GetLockHeld, AcquireHeld, ReleaseHeld, DropLockHeld DEF Step
  <2>. QED
    BY <2>1, <2>2, <2>3, <2>4, BeginHeld DEF Next, Quiet
<1>3. LockInv /\ LocksApart /\ HeldInside => WaitersAreServed
  <2>. SUFFICES ASSUME LockInv, LocksApart, HeldInside, NEW t \in Tasks, pc[t] = "acquire",
                       holder[call[t].at][lockRef[t]] # None
                PROVE  holder[call[t].at][lockRef[t]] \in Guarded(call[t].at, call[t].run) \ {t}
    BY DEF WaitersAreServed
  <2>. DEFINE i == call[t].at
              l == lockRef[t]
              u == holder[i][l]
  <2>1. call[t] \in Call /\ l \in LockIds /\ lockMap[i][call[t].run] = l
    BY DEF LockInv, Busy, MapHasIt, Waiting
  <2>2. i \in Instances /\ call[t].run \in Runs /\ l # None
    BY <2>1, ConstantsAssumption DEF Call
  <2>3. u \in Tasks /\ pc[u] \in Inside /\ call[u].at = i /\ lockRef[u] = l
    BY <2>1, <2>2 DEF HeldInside, LockInv, LockTypes
  <2>. HIDE DEF u
  <2>4. call[u] \in Call /\ lockMap[call[u].at][call[u].run] = lockRef[u]
    BY <2>3 DEF LockInv, Busy, MapHasIt, Waiting, Inside
  <2>5. call[u].run = call[t].run
    BY <2>1, <2>2, <2>3, <2>4 DEF LocksApart, Call
  <2>6. u # t
    BY <2>3 DEF Inside
  <2>7. u \in Guarded(i, call[t].run)
    BY <2>3, <2>5 DEF Guarded, Inside
  <2>. QED
    BY <2>6, <2>7 DEF u
<1>. QED
  BY <1>1, <1>2, <1>3, LockInvariant, PTL DEF Spec

-----------------------------------------------------------------------------
(* What a write comes to.                                                  *)

Writers == {"append", "finish", "detach", "commit", "commitFinish"}
Writing == {"getLock", "acquire", "write", "list", "detach", "publish", "dropLock"}

\* A batch numbered from n on, the last event terminal if the operation finishes the run.
Batch(t, n, b) ==
  /\ b \in Seq(Event) /\ Len(b) \in {1, 2}
  /\ \A k \in 1..Len(b) : /\ b[k].seq = n + k - 1
                          /\ b[k].terminal <=> Finishes(t) /\ k = Len(b)
                          /\ b[k].by = call[t].at

LEMMA OfferBatch ==
  ASSUME NEW t \in Tasks, call[t] \in Call, Is(t, Writers), NEW n \in Nat
  PROVE  Batch(t, n, Offer(t, n))
<1>1. call[t].at \in Instances
  BY DEF Call
<1>2. NewEvent(t, n, FALSE) \in Event /\ NewEvent(t, n, TRUE) \in Event
      /\ NewEvent(t, n + 1, TRUE) \in Event
  BY <1>1 DEF NewEvent, Event
<1>3. CASE Is(t, {"append", "commit"})
  <2>1. Offer(t, n) = <<NewEvent(t, n, FALSE)>> /\ ~Finishes(t)
    <3>1. ~Is(t, {"finish", "detach"}) /\ ~Is(t, {"commitFinish"})
      BY <1>3 DEF Is
    <3>. QED
      BY <1>3, <3>1, Zenon DEF Offer, Finishes, Is
  <2>. QED
    BY <1>2, <2>1 DEF Batch, NewEvent
<1>4. CASE Is(t, {"finish", "detach"})
  <2>1. Offer(t, n) = <<NewEvent(t, n, TRUE)>> /\ Finishes(t)
    <3>1. ~Is(t, {"append", "commit"}) /\ ~Is(t, {"commitFinish"}) /\ Finishes(t)
      BY <1>4 DEF Is, Finishes
    <3>. QED
      BY <1>4, <3>1, Zenon DEF Offer
  <2>. QED
    BY <1>2, <2>1 DEF Batch, NewEvent
<1>5. CASE Is(t, {"commitFinish"})
  <2>1. Offer(t, n) = <<NewEvent(t, n, FALSE), NewEvent(t, n + 1, TRUE)>> /\ Finishes(t)
    <3>1. ~Is(t, {"append", "commit"}) /\ ~Is(t, {"finish", "detach"}) /\ Finishes(t)
      BY <1>5 DEF Is, Finishes
    <3>. QED
      BY <1>5, <3>1, Zenon DEF Offer
  <2>. QED
    BY <1>2, <2>1 DEF Batch, NewEvent
<1>. QED
  BY <1>3, <1>4, <1>5 DEF Is, Writers

LEMMA OfferDetach ==
  ASSUME NEW t, NEW n, Is(t, {"detach"}) PROVE Offer(t, n) = <<NewEvent(t, n, TRUE)>>
<1>1. ~Is(t, {"append", "commit"}) /\ ~Is(t, {"commitFinish"}) /\ Is(t, {"finish", "detach"})
  BY DEF Is
<1>. QED
  BY <1>1, Zenon DEF Offer

\* The store turns an operation on a run away: it is over, or not the caller's, or the
\* seqs are taken ...
TurnsAway(t, a) ==
  /\ \/ Over(call[t].run) /\ Finishes(t) /\ a = Answer("finished", <<Last(log[call[t].run])>>)
     \/ Over(call[t].run) /\ ~Finishes(t) /\ a = Answer("skipped", <<>>)
     \/ ~Over(call[t].run) /\ a = Answer("error", <<>>)
  /\ UNCHANGED <<log, status, lease>>

\* ... or takes the events.
TakesIn(t, b, a) ==
  LET r == call[t].run IN
  /\ ~Over(r) /\ Admitted(t) /\ ~(Head(b).seq <= LastSeq(r))
  /\ a = Answer(IF Finishes(t) THEN "finished" ELSE "recorded", b)
  /\ log' = [log EXCEPT ![r] = @ \o b]
  /\ status' = [status EXCEPT ![r] = IF Finishes(t) THEN "over" ELSE @]
  /\ lease' = [lease EXCEPT ![r] = IF Finishes(t) THEN "none" ELSE @]

LEMMA KindOf ==
  /\ \A b : Answer("error", b).kind = "error" /\ Answer("finished", b).kind # "error"
            /\ Answer("recorded", b).kind # "error"
BY DEF Answer

LEMMA StoreOutcomes ==
  ASSUME NEW t, NEW b, Stores(t, b, StoreAnswer(t, b))
  PROVE  TurnsAway(t, StoreAnswer(t, b)) \/ TakesIn(t, b, StoreAnswer(t, b))
<1>. DEFINE r == call[t].run
            a == StoreAnswer(t, b)
<1>1. CASE Over(r)
  <2>1. a = IF Finishes(t) THEN Answer("finished", <<Last(log[r])>>) ELSE Answer("skipped", <<>>)
    BY <1>1, Zenon DEF StoreAnswer
  <2>2. UNCHANGED <<log, status, lease>>
    BY <1>1, Zenon DEF Stores
  <2>. HIDE DEF a
  <2>. QED
    BY <1>1, <2>1, <2>2, Zenon DEF TurnsAway, a
<1>2. CASE ~Over(r) /\ (~Admitted(t) \/ Head(b).seq <= LastSeq(r))
  <2>1. a = Answer("error", <<>>)
    BY <1>2, Zenon DEF StoreAnswer
  <2>2. a.kind = "error"
    BY <2>1, KindOf, Zenon
  <2>3. UNCHANGED <<log, status, lease>>
    <3>. HIDE DEF a
    <3>1. Stores(t, b, a)
      BY DEF a
    <3>. QED
      BY <2>2, <3>1, Zenon DEF Stores
  <2>. HIDE DEF a
  <2>. QED
    BY <1>2, <2>1, <2>3, Zenon DEF TurnsAway, a
<1>3. CASE ~Over(r) /\ Admitted(t) /\ ~(Head(b).seq <= LastSeq(r))
  <2>1. a = Answer(IF Finishes(t) THEN "finished" ELSE "recorded", b)
    BY <1>3, Zenon DEF StoreAnswer
  <2>2. a.kind # "error"
    BY <2>1, KindOf, Zenon
  <2>3. /\ log' = [log EXCEPT ![r] = @ \o b]
        /\ status' = [status EXCEPT ![r] = IF Finishes(t) THEN "over" ELSE @]
        /\ lease' = [lease EXCEPT ![r] = IF Finishes(t) THEN "none" ELSE @]
    <3>. HIDE DEF a
    <3>1. Stores(t, b, a)
      BY DEF a
    <3>. QED
      BY <1>3, <2>2, <3>1, Zenon DEF Stores
  <2>. HIDE DEF a
  <2>. QED
    BY <1>3, <2>1, <2>3, Zenon DEF TakesIn, a
<1>. QED
  BY <1>1, <1>2, <1>3

\* A write finds no entry or no run, is turned away (and may have used its seqs up), or
\* its events are taken and counted.
WritesNothing(t) ==
  /\ \E k \in {"gone", "kept"} : answer' = [answer EXCEPT ![t] = Answer(k, <<>>)]
  /\ UNCHANGED <<registry, log, status, lease>>

Counts(t, n) ==
  /\ Reg(t) # None
  /\ registry' = [registry EXCEPT ![call[t].at][call[t].run].seq = n]

WritesInVain(t) ==
  /\ \E a : TurnsAway(t, a) /\ answer' = [answer EXCEPT ![t] = a]
  /\ Counts(t, Reg(t).seq) \/ Counts(t, Reg(t).seq + Len(Offer(t, Reg(t).seq + 1)))

WritesOffer(t) ==
  LET b == Offer(t, Reg(t).seq + 1) IN
  /\ status[call[t].run] # "absent"
  /\ \E a : TakesIn(t, b, a) /\ answer' = [answer EXCEPT ![t] = a]
  /\ Counts(t, Reg(t).seq + Len(b))

LEMMA WriteOutcomes ==
  ASSUME NEW t \in Tasks, Write(t)
  PROVE  /\ pc[t] = "write" /\ Goto(t, "publish")
         /\ UNCHANGED <<marked, owner, lockMap, holder, call, lockRef, calls, sub>>
         /\ WritesNothing(t) \/ WritesInVain(t) \/ WritesOffer(t)
<1>1. /\ pc[t] = "write" /\ Goto(t, "publish")
      /\ UNCHANGED <<marked, owner, lockMap, holder, call, lockRef, calls, sub>>
  BY Zenon DEF Write
<1>2. CASE Reg(t) = None \/ status[call[t].run] = "absent"
  <2>1. answer' = [answer EXCEPT ![t] = Answer(IF Reg(t) = None THEN "gone" ELSE "kept", <<>>)]
        /\ UNCHANGED <<registry, log, status, lease>>
    BY <1>2, Zenon DEF Write
  <2>2. (IF Reg(t) = None THEN "gone" ELSE "kept") \in {"gone", "kept"}
    OBVIOUS
  <2>. QED
    BY <1>1, <2>1, <2>2, Zenon DEF WritesNothing
<1>3. CASE ~(Reg(t) = None \/ status[call[t].run] = "absent")
  <2>. DEFINE offer == Offer(t, Reg(t).seq + 1)
              a == StoreAnswer(t, offer)
              rewinds == a.kind = "error" /\ Is(t, {"commit", "commitFinish"})
  <2>1. /\ answer' = [answer EXCEPT ![t] = a]
        /\ Stores(t, offer, a)
        /\ registry' = [registry EXCEPT ![call[t].at][call[t].run].seq =
             IF rewinds THEN @ ELSE @ + Len(offer)]
    BY <1>3, Zenon DEF Write
  <2>. HIDE DEF offer
  <2>2. TurnsAway(t, a) \/ TakesIn(t, offer, a)
    BY <2>1, StoreOutcomes
  <2>. HIDE DEF a
  <2>3. CASE TurnsAway(t, a)
    <3>1. \E x : TurnsAway(t, x) /\ answer' = [answer EXCEPT ![t] = x]
      BY <2>1, <2>3, Zenon
    <3>2. Counts(t, Reg(t).seq) \/ Counts(t, Reg(t).seq + Len(offer))
      <4>1. CASE rewinds
        <5>1. registry' = [registry EXCEPT ![call[t].at][call[t].run].seq = @]
          BY <2>1, <4>1
        <5>. QED
          BY <1>3, <5>1 DEF Counts, Reg
      <4>2. CASE ~rewinds
        <5>1. registry' = [registry EXCEPT ![call[t].at][call[t].run].seq = @ + Len(offer)]
          BY <2>1, <4>2
        <5>. QED
          BY <1>3, <5>1 DEF Counts, Reg
      <4>. QED
        BY <4>1, <4>2
    <3>. QED
      BY <1>1, <3>1, <3>2, Zenon DEF WritesInVain, offer
  <2>4. CASE TakesIn(t, offer, a)
    <3>1. \E x : TakesIn(t, offer, x) /\ answer' = [answer EXCEPT ![t] = x]
      BY <2>1, <2>4, Zenon
    <3>2. ~rewinds
      <4>1. a = Answer(IF Finishes(t) THEN "finished" ELSE "recorded", offer)
        BY <2>4, Zenon DEF TakesIn
      <4>. QED
        BY <4>1, KindOf, Zenon
    <3>3. registry' = [registry EXCEPT ![call[t].at][call[t].run].seq = @ + Len(offer)]
      BY <2>1, <3>2
    <3>4. Counts(t, Reg(t).seq + Len(offer))
      BY <1>3, <3>3 DEF Counts, Reg
    <3>. QED
      BY <1>1, <1>3, <3>1, <3>4, Zenon DEF WritesOffer, offer
  <2>. QED
    BY <2>2, <2>3, <2>4
<1>. QED
  BY <1>2, <1>3

-----------------------------------------------------------------------------
(* Type correctness.  It needs to know which operation is at which place,   *)
(* that a task at work on an answer or a subscription has one, that a       *)
(* sender belongs to a subscriber and that the log of a run that is over is *)
(* not empty.                                                               *)

Shape(t) ==
  /\ pc[t] # "idle" => call[t] \in Call
  /\ pc[t] \in Writing => Is(t, Writers)
  /\ pc[t] \in {"detach", "publish"} => answer[t] # None
  /\ pc[t] = "detach" => answer[t].events # <<>>
  /\ pc[t] = "look" /\ sub[t] # None => sub[t].run = call[t].run
  /\ pc[t] \in {"attach", "page"} =>
       sub[t] # None /\ sub[t].at = call[t].at /\ sub[t].run = call[t].run

SendersKnown ==
  \A i \in Instances, r \in Runs : registry[i][r] # None =>
    \A u \in registry[i][r].senders : sub[u] # None

OverLogged == \A r \in Runs : Over(r) => log[r] # <<>>

TypeInv == TypeOK /\ (\A t \in Tasks : Shape(t)) /\ SendersKnown /\ OverLogged


LEMMA CallParts ==
  ASSUME NEW c \in Call
  PROVE  c.at \in Instances /\ c.run \in Runs /\ c.kind \in AllKinds /\ c # None
BY ConstantsAssumption DEF Call

LEMMA ShapeStep ==
  ASSUME \A u \in Tasks : Shape(u), NEW t \in Tasks, Shape(t)',
         \A u \in Tasks \ {t} :
           /\ pc'[u] = pc[u] /\ call'[u] = call[u] /\ answer'[u] = answer[u]
           /\ sub'[u] = None <=> sub[u] = None
           /\ sub[u] # None => sub'[u].at = sub[u].at /\ sub'[u].run = sub[u].run
  PROVE  \A u \in Tasks : Shape(u)'
BY DEF Shape, Is

\* The state of the other tasks when t returns or goes on.
LEMMA ReturnsType ==
  ASSUME TypeOK, NEW t \in Tasks, Returns(t)
  PROVE  /\ pc' \in [Tasks -> Places] /\ call' \in [Tasks -> Call \cup {None}]
         /\ lockRef' \in [Tasks -> LockIds \cup {None}]
         /\ answer' \in [Tasks -> Answers \cup {None}] /\ calls' \in 0..MaxCalls
         /\ pc'[t] = "idle" /\ call'[t] = None
         /\ \A u \in Tasks \ {t} : pc'[u] = pc[u] /\ call'[u] = call[u] /\ answer'[u] = answer[u]
                                   /\ lockRef'[u] = lockRef[u]
BY DEF Returns, Goto, TypeOK, Answers, Places

LEMMA GotoType ==
  ASSUME TypeOK, NEW t \in Tasks, NEW p \in Places, Goto(t, p)
  PROVE  /\ pc' \in [Tasks -> Places]
         /\ pc'[t] = p /\ \A u \in Tasks \ {t} : pc'[u] = pc[u]
BY DEF Goto, TypeOK, Places

\* A step of t that leaves subscriptions alone and returns, or goes on in the same call.
LEMMA ShapeReturns ==
  ASSUME TypeInv, NEW t \in Tasks, Returns(t), UNCHANGED sub
  PROVE  \A u \in Tasks : Shape(u)'
<1>1. pc'[t] = "idle" /\ \A u \in Tasks \ {t} : pc'[u] = pc[u] /\ call'[u] = call[u] /\ answer'[u] = answer[u]
  BY ReturnsType DEF TypeInv
<1>2. Shape(t)'
  BY <1>1 DEF Shape, Writing
<1>. QED
  BY <1>1, <1>2, ShapeStep DEF TypeInv

LEMMA ShapeGoes ==
  ASSUME TypeInv, NEW t \in Tasks, NEW p \in Places \ {"look", "attach", "page"}, Goto(t, p),
         UNCHANGED <<call, sub>>, pc[t] # "idle",
         p \in Writing => Is(t, Writers),
         p \in {"detach", "publish"} => answer'[t] # None,
         p = "detach" => answer'[t].events # <<>>,
         \A u \in Tasks \ {t} : answer'[u] = answer[u]
  PROVE  \A u \in Tasks : Shape(u)'
<1>1. pc'[t] = p /\ \A u \in Tasks \ {t} : pc'[u] = pc[u]
  BY GotoType DEF TypeInv
<1>2. Shape(t)'
  BY <1>1 DEF Shape, Is, TypeInv
<1>. QED
  BY <1>1, <1>2, ShapeStep DEF TypeInv

\* The entries of the registry.
LEMMA EntryParts ==
  ASSUME TypeOK, NEW i \in Instances, NEW r \in Runs, registry[i][r] # None
  PROVE  /\ registry[i][r] \in Entry /\ registry[i][r].seq \in Nat
         /\ registry[i][r].senders \in SUBSET Tasks
         /\ registry[i][r].published \in BOOLEAN /\ registry[i][r].cancelled \in BOOLEAN
BY DEF TypeOK, Entry

LEMMA LogType ==
  ASSUME TypeOK, NEW r \in Runs
  PROVE  /\ log[r] \in Seq(Event) /\ Len(log[r]) \in Nat /\ LastSeq(r) \in Nat
         /\ log[r] # <<>> => Last(log[r]) \in Event
<1>1. log[r] \in Seq(Event) /\ Len(log[r]) \in Nat
  BY DEF TypeOK
<1>2. log[r] # <<>> => Last(log[r]) \in Event
  BY <1>1 DEF Last
<1>3. LastSeq(r) \in Nat
  BY <1>1, <1>2 DEF LastSeq, Event
<1>. QED
  BY <1>1, <1>2, <1>3

LEMMA BeginType ==
  ASSUME TypeInv, NEW t \in Tasks, NEW c \in Call, Begin(t, c)
  PROVE  TypeInv'
<1>1. /\ pc[t] = "idle" /\ call' = [call EXCEPT ![t] = c] /\ calls' = calls + 1
      /\ calls < MaxCalls /\ Goto(t, FirstStep(c.kind))
      /\ c.kind = "subscribe" /\ sub[t] # None => sub[t].run = c.run
      /\ UNCHANGED <<storeVars, registry, lockMap, holder, lockRef, answer, sub>>
  BY DEF Begin
<1>2. c.kind \in AllKinds
  BY DEF Call
<1>3. FirstStep(c.kind) \in {"lookup", "look", "find", "getLock"}
      /\ (FirstStep(c.kind) = "look" => c.kind = "subscribe")
      /\ (FirstStep(c.kind) = "getLock" => c.kind \in Writers)
  <2>1. c.kind = "start" => FirstStep(c.kind) = "lookup"
    BY DEF FirstStep
  <2>2. c.kind = "subscribe" => FirstStep(c.kind) = "look"
    BY DEF FirstStep
  <2>3. c.kind = "cancel" => FirstStep(c.kind) = "find"
    BY DEF FirstStep
  <2>4. c.kind \notin {"start", "subscribe", "cancel"} => FirstStep(c.kind) = "getLock"
    BY DEF FirstStep
  <2>. QED
    BY <1>2, <2>1, <2>2, <2>3, <2>4 DEF AllKinds, Writers
<1>4. PICK p \in {"lookup", "look", "find", "getLock"} :
        p = FirstStep(c.kind) /\ (p = "look" => c.kind = "subscribe") /\ (p = "getLock" => c.kind \in Writers)
  BY <1>3
<1>5. pc' \in [Tasks -> Places] /\ pc'[t] = p /\ \A u \in Tasks \ {t} : pc'[u] = pc[u]
  BY <1>1, <1>4, GotoType DEF TypeInv, Places
<1>6. /\ call' \in [Tasks -> Call \cup {None}] /\ call'[t] = c
      /\ \A u \in Tasks \ {t} : call'[u] = call[u]
      /\ calls' \in 0..MaxCalls
  BY <1>1, ConstantsAssumption DEF TypeInv, TypeOK
<1>7. TypeOK'
  BY <1>1, <1>5, <1>6 DEF TypeInv, TypeOK, storeVars, Places, Event, Subscription, Entry
<1>8. Shape(t)'
  BY <1>1, <1>4, <1>5, <1>6 DEF Shape, Is, Writing
<1>9. \A u \in Tasks : Shape(u)'
  BY <1>1, <1>5, <1>6, <1>8, ShapeStep DEF TypeInv
<1>. QED
  BY <1>1, <1>7, <1>9 DEF TypeInv, SendersKnown, OverLogged, Over, storeVars

\* start_run and request_cancel.
LEMMA InsertType ==
  ASSUME TypeInv, NEW t \in Tasks, InsertRun(t)
  PROVE  TypeInv'
<1>. DEFINE i == call[t].at
            r == call[t].run
            e == [seq |-> 0, published |-> FALSE, cancelled |-> FALSE, senders |-> {}]
<1>1. call[t] \in Call /\ pc[t] = "insert" /\ UNCHANGED <<storeVars, lockMap, holder, sub>>
  BY DEF InsertRun, TypeInv, Shape
<1>2. i \in Instances /\ r \in Runs
  BY <1>1, CallParts
<1>3. CASE Returns(t) /\ UNCHANGED registry
  <2>1. TypeOK'
    BY <1>1, <1>3, ReturnsType DEF TypeInv, TypeOK, storeVars, Places, Answers
  <2>. QED
    BY <1>1, <1>3, <2>1, ShapeReturns DEF TypeInv, SendersKnown, OverLogged, Over, storeVars
<1>4. CASE /\ registry' = [registry EXCEPT ![i][r] = e]
           /\ Goto(t, "create") /\ UNCHANGED <<call, lockRef, answer, calls>>
  <2>1. e \in Entry
    BY DEF Entry
  <2>2. registry' \in [Instances -> [Runs -> Entry \cup {None}]]
    BY <1>4, <2>1 DEF TypeInv, TypeOK
  <2>3. TypeOK'
    BY <1>1, <1>4, <2>2, GotoType DEF TypeInv, TypeOK, storeVars, Places
  <2>4. SendersKnown'
    <3>1. \A j \in Instances, q \in Runs : registry'[j][q] \in {registry[j][q], e}
      BY <1>2, <1>4 DEF TypeInv, TypeOK
    <3>. QED
      BY <1>1, <3>1 DEF TypeInv, SendersKnown
  <2>5. \A u \in Tasks : Shape(u)'
    BY <1>1, <1>4, ShapeGoes DEF Places, Writing
  <2>. QED
    BY <1>1, <2>3, <2>4, <2>5 DEF TypeInv, OverLogged, Over, storeVars
<1>. QED
  BY <1>3, <1>4 DEF InsertRun

LEMMA CreateType ==
  ASSUME TypeInv, NEW t \in Tasks, CreateRun(t)
  PROVE  TypeInv'
<1>. DEFINE i == call[t].at
            r == call[t].run
<1>1. call[t] \in Call /\ pc[t] = "create" /\ Returns(t)
      /\ UNCHANGED <<log, marked, lockMap, holder, sub>>
  BY DEF CreateRun, TypeInv, Shape
<1>2. i \in Instances /\ r \in Runs
  BY <1>1, CallParts
<1>3. CASE Blocked(r) /\ registry' = [registry EXCEPT ![i][r] = None] /\ UNCHANGED <<status, lease, owner>>
  <2>1. TypeOK'
    BY <1>1, <1>3, ReturnsType DEF TypeInv, TypeOK, Places, Answers
  <2>2. SendersKnown'
    <3>1. \A j \in Instances, q \in Runs : registry'[j][q] \in {registry[j][q], None}
      BY <1>2, <1>3 DEF TypeInv, TypeOK
    <3>. QED
      BY <1>1, <3>1 DEF TypeInv, SendersKnown
  <2>. QED
    BY <1>1, <1>3, <2>1, <2>2, ShapeReturns DEF TypeInv, OverLogged, Over
<1>4. CASE /\ status' = [status EXCEPT ![r] = "running"]
           /\ lease' = [lease EXCEPT ![r] = IF r \in Leased THEN "live" ELSE "none"]
           /\ owner' = [owner EXCEPT ![r] = i]
           /\ UNCHANGED registry
  <2>1. /\ status' \in [Runs -> {"absent", "running", "over"}]
        /\ lease' \in [Runs -> {"none", "live", "lapsed"}]
        /\ owner' \in [Runs -> Instances \cup {None}]
    BY <1>2, <1>4 DEF TypeInv, TypeOK
  <2>2. TypeOK'
    BY <1>1, <1>4, <2>1, ReturnsType DEF TypeInv, TypeOK, Places, Answers
  <2>3. OverLogged'
    BY <1>1, <1>4 DEF TypeInv, TypeOK, OverLogged, Over
  <2>. QED
    BY <1>1, <1>4, <2>2, <2>3, ShapeReturns DEF TypeInv, SendersKnown
<1>. QED
  BY <1>3, <1>4 DEF CreateRun

LEMMA CancelType ==
  ASSUME TypeInv, NEW t \in Tasks,
         LookupStart(t) \/ FindCancelled(t) \/ RequestCancel(t) \/ MarkCancelled(t)
  PROVE  TypeInv'
<1>. DEFINE i == call[t].at
            r == call[t].run
<1>1. call[t] \in Call /\ pc[t] # "idle" /\ UNCHANGED <<status, lease, log, owner, lockMap, holder, sub>>
  BY DEF LookupStart, FindCancelled, RequestCancel, MarkCancelled, TypeInv, Shape, storeVars
<1>2. i \in Instances /\ r \in Runs
  BY <1>1, CallParts
<1>3. ASSUME Returns(t), UNCHANGED registry, marked' \in [Runs -> BOOLEAN] PROVE TypeInv'
  <2>1. TypeOK'
    BY <1>1, <1>3, ReturnsType DEF TypeInv, TypeOK, Places, Answers
  <2>. QED
    BY <1>1, <1>3, <2>1, ShapeReturns DEF TypeInv, SendersKnown, OverLogged, Over
<1>4. ASSUME NEW p \in {"insert", "request", "mark"}, Goto(t, p),
             UNCHANGED <<call, lockRef, answer, calls, marked>>,
             registry' \in [Instances -> [Runs -> Entry \cup {None}]],
             SendersKnown'
      PROVE  TypeInv'
  <2>1. TypeOK'
    BY <1>1, <1>4, GotoType DEF TypeInv, TypeOK, Places
  <2>2. \A u \in Tasks : Shape(u)'
    BY <1>1, <1>4, ShapeGoes DEF Places, Writing
  <2>. QED
    BY <1>1, <1>4, <2>1, <2>2 DEF TypeInv, OverLogged, Over
<1>5. CASE LookupStart(t)
  <2>0. Returns(t) \/ (Goto(t, "insert") /\ UNCHANGED <<call, lockRef, answer, calls>>)
    <3>. DEFINE goes == Goto(t, "insert") /\ UNCHANGED <<call, lockRef, answer, calls>>
    <3>. HIDE DEF goes
    <3>1. Returns(t) \/ goes
      BY <1>5 DEF LookupStart, goes
    <3>. QED
      BY <3>1 DEF goes
  <2>1. UNCHANGED <<registry, marked>>
    BY <1>5 DEF LookupStart, storeVars
  <2>2. marked' \in [Runs -> BOOLEAN] /\ registry' \in [Instances -> [Runs -> Entry \cup {None}]] /\ SendersKnown'
    BY <1>1, <2>1 DEF TypeInv, TypeOK, SendersKnown
  <2>. QED
    BY <1>3, <1>4, <2>0, <2>1, <2>2
<1>6. CASE FindCancelled(t)
  <2>0. Returns(t) \/ (Goto(t, "request") /\ UNCHANGED <<call, lockRef, answer, calls>>)
    <3>. DEFINE goes == Goto(t, "request") /\ UNCHANGED <<call, lockRef, answer, calls>>
    <3>. HIDE DEF goes
    <3>1. Returns(t) \/ goes
      BY <1>6 DEF FindCancelled, goes
    <3>. QED
      BY <3>1 DEF goes
  <2>1. UNCHANGED <<registry, marked>>
    BY <1>6 DEF FindCancelled, storeVars
  <2>2. marked' \in [Runs -> BOOLEAN] /\ registry' \in [Instances -> [Runs -> Entry \cup {None}]] /\ SendersKnown'
    BY <1>1, <2>1 DEF TypeInv, TypeOK, SendersKnown
  <2>. QED
    BY <1>3, <1>4, <2>0, <2>1, <2>2
<1>7. CASE RequestCancel(t)
  <2>1. CASE Returns(t) /\ UNCHANGED registry
    <3>1. marked' \in [Runs -> BOOLEAN]
      BY <1>7 DEF RequestCancel, storeVars, TypeInv, TypeOK
    <3>. QED
      BY <1>3, <2>1, <3>1
  <2>2. CASE ~(Returns(t) /\ UNCHANGED registry)
    <3>1. /\ registry' = [registry EXCEPT ![i][r].cancelled = TRUE] /\ registry[i][r] # None
          /\ Goto(t, "mark") /\ UNCHANGED <<call, lockRef, answer, calls, marked>>
      BY <1>7, <2>2 DEF RequestCancel, storeVars, Reg
    <3>0. registry[i][r] \in Entry
      BY <1>2, <3>1, EntryParts DEF TypeInv
    <3>2. [registry[i][r] EXCEPT !.cancelled = TRUE] \in Entry
          /\ [registry[i][r] EXCEPT !.cancelled = TRUE].senders = registry[i][r].senders
      BY <3>0 DEF Entry
    <3>3. registry' \in [Instances -> [Runs -> Entry \cup {None}]]
      BY <3>1, <3>2 DEF TypeInv, TypeOK
    <3>4. SendersKnown'
      <4>1. \A j \in Instances, q \in Runs :
              \/ registry'[j][q] = registry[j][q]
              \/ registry[j][q] # None /\ registry'[j][q].senders = registry[j][q].senders
        BY <1>2, <3>1, <3>2 DEF TypeInv, TypeOK
      <4>. QED
        BY <1>1, <4>1 DEF TypeInv, SendersKnown
    <3>. QED
      BY <1>4, <3>1, <3>3, <3>4
  <2>. QED
    BY <2>1, <2>2
<1>8. CASE MarkCancelled(t)
  <2>1. marked' \in [Runs -> BOOLEAN]
    BY <1>2, <1>8 DEF MarkCancelled, TypeInv, TypeOK
  <2>. QED
    BY <1>3, <1>8, <2>1 DEF MarkCancelled
<1>. QED
  BY <1>5, <1>6, <1>7, <1>8

\* The reaper.
LEMMA ReapType ==
  ASSUME TypeInv, NEW r \in Runs, Lapse(r) \/ Reap(r)
  PROVE  TypeInv'
<1>1. UNCHANGED <<marked, owner, registry, lockMap, holder, taskVars, sub>>
  BY DEF Lapse, Reap
<1>2. lease' \in [Runs -> {"none", "live", "lapsed"}]
  <2>1. CASE Lapse(r)
    BY <2>1 DEF Lapse, TypeInv, TypeOK
  <2>2. lease \in [Runs -> {"none", "live", "lapsed"}]
    BY DEF TypeInv, TypeOK
  <2>3. CASE Reap(r)
    BY <2>2, <2>3, Zenon DEF Reap
  <2>. QED
    BY <2>1, <2>3
<1>3. status' \in [Runs -> {"absent", "running", "over"}] /\ log' \in [Runs -> Seq(Event)] /\ OverLogged'
  <2>1. CASE Lapse(r)
    BY <2>1 DEF Lapse, TypeInv, TypeOK, OverLogged, Over
  <2>2. CASE Reap(r)
    <3>. DEFINE e == [seq |-> LastSeq(r) + 1, terminal |-> TRUE, by |-> None]
    <3>1. e \in Event
      BY LogType DEF Event, TypeInv
    <3>. HIDE DEF e
    <3>2. log' = [log EXCEPT ![r] = Append(@, e)] /\ status' = [status EXCEPT ![r] = "over"]
      BY <2>2 DEF Reap, e
    <3>3. Append(log[r], e) \in Seq(Event) /\ Append(log[r], e) # <<>>
      BY <3>1, LogType DEF TypeInv
    <3>. QED
      BY <3>2, <3>3 DEF TypeInv, TypeOK, OverLogged, Over
  <2>. QED
    BY <2>1, <2>2
<1>4. TypeOK'
  BY <1>1, <1>2, <1>3 DEF TypeInv, TypeOK, taskVars
<1>. QED
  BY <1>1, <1>3, <1>4 DEF TypeInv, SendersKnown, Shape, Is, taskVars

\* The lock: event_lock, lock() and remove_event_lock.
LEMMA LocksType ==
  ASSUME TypeInv, LockInv', NEW t \in Tasks, GetLock(t) \/ Acquire(t) \/ DropLock(t)
  PROVE  TypeInv'
<1>1. UNCHANGED <<storeVars, registry, sub>> /\ pc[t] \in Writing /\ call[t] \in Call
  BY DEF GetLock, Acquire, DropLock, TypeInv, Shape, Writing
<1>2. Is(t, Writers)
  BY <1>1 DEF TypeInv, Shape
<1>3. CASE DropLock(t)
  <2>1. Returns(t)
    BY <1>3 DEF DropLock
  <2>2. TypeOK'
    BY <1>1, <2>1, ReturnsType DEF TypeInv, TypeOK, LockInv, LockTypes, Places, Answers, storeVars
  <2>. QED
    BY <1>1, <2>1, <2>2, ShapeReturns DEF TypeInv, SendersKnown, OverLogged, Over, storeVars
<1>4. CASE GetLock(t) \/ Acquire(t)
  <2>1. PICK p \in {"acquire", "list", "write"} : Goto(t, p)
    BY <1>4 DEF GetLock, Acquire
  <2>2. UNCHANGED <<call, answer, calls>>
    BY <1>4 DEF GetLock, Acquire
  <2>3. TypeOK'
    BY <1>1, <2>2 DEF TypeInv, TypeOK, LockInv, LockTypes, Places, storeVars
  <2>4. \A u \in Tasks : Shape(u)'
    BY <1>1, <1>2, <2>1, <2>2, ShapeGoes DEF Places, Writing
  <2>. QED
    BY <1>1, <2>3, <2>4 DEF TypeInv, SendersKnown, OverLogged, Over, storeVars
<1>. QED
  BY <1>3, <1>4

\* What the store makes of an offer.
LEMMA StoreType ==
  ASSUME TypeInv, NEW t \in Tasks, call[t] \in Call, NEW b \in Seq(Event), b # <<>>, NEW a,
         TurnsAway(t, a) \/ TakesIn(t, b, a)
  PROVE  /\ a \in Answers
         /\ log' \in [Runs -> Seq(Event)]
         /\ status' \in [Runs -> {"absent", "running", "over"}]
         /\ lease' \in [Runs -> {"none", "live", "lapsed"}]
         /\ OverLogged'
<1>. DEFINE r == call[t].run
<1>1. r \in Runs
  BY CallParts
<1>2. /\ Answer("skipped", <<>>) \in Answers /\ Answer("error", <<>>) \in Answers
      /\ Answer("finished", b) \in Answers /\ Answer("recorded", b) \in Answers
  BY DEF Answer, Answers
<1>3. CASE TurnsAway(t, a)
  <2>1. Over(r) => Answer("finished", <<Last(log[r])>>) \in Answers
    <3>1. Over(r) => <<Last(log[r])>> \in Seq(Event)
      BY <1>1, LogType DEF TypeInv, OverLogged
    <3>. QED
      BY <3>1 DEF Answer, Answers
  <2>2. a \in Answers
    BY <1>2, <1>3, <2>1 DEF TurnsAway
  <2>. QED
    BY <1>3, <2>2 DEF TurnsAway, TypeInv, TypeOK, OverLogged, Over
<1>4. CASE TakesIn(t, b, a)
  <2>1. /\ log' = [log EXCEPT ![r] = @ \o b]
        /\ status' = [status EXCEPT ![r] = IF Finishes(t) THEN "over" ELSE @]
        /\ lease' = [lease EXCEPT ![r] = IF Finishes(t) THEN "none" ELSE @]
        /\ a = Answer(IF Finishes(t) THEN "finished" ELSE "recorded", b)
    BY <1>4, Zenon DEF TakesIn
  <2>2. a \in Answers
    BY <1>2, <2>1
  <2>3. log[r] \o b \in Seq(Event) /\ log[r] \o b # <<>>
    BY <1>1, LogType DEF TypeInv
  <2>4. log' \in [Runs -> Seq(Event)] /\ log'[r] # <<>> /\ \A q \in Runs \ {r} : log'[q] = log[q]
    BY <1>1, <2>1, <2>3 DEF TypeInv, TypeOK
  <2>5. status' \in [Runs -> {"absent", "running", "over"}] /\ \A q \in Runs \ {r} : status'[q] = status[q]
    BY <1>1, <2>1 DEF TypeInv, TypeOK
  <2>6. lease' \in [Runs -> {"none", "live", "lapsed"}]
    BY <1>1, <2>1 DEF TypeInv, TypeOK
  <2>7. OverLogged'
    BY <2>4, <2>5 DEF TypeInv, OverLogged, Over
  <2>. QED
    BY <2>2, <2>4, <2>5, <2>6, <2>7
<1>. QED
  BY <1>3, <1>4

LEMMA CountsType ==
  ASSUME TypeInv, UNCHANGED sub, NEW t \in Tasks, call[t] \in Call, NEW n \in Nat, Counts(t, n)
  PROVE  registry' \in [Instances -> [Runs -> Entry \cup {None}]] /\ SendersKnown'
<1>. DEFINE i == call[t].at
            r == call[t].run
            e == [registry[i][r] EXCEPT !.seq = n]
<1>1. i \in Instances /\ r \in Runs /\ registry[i][r] # None
  BY CallParts DEF Counts, Reg
<1>2. registry[i][r] \in Entry
  BY <1>1, EntryParts DEF TypeInv
<1>3. e \in Entry /\ e.senders = registry[i][r].senders
  BY <1>2 DEF Entry
<1>4. registry' = [registry EXCEPT ![i][r] = e]
  BY DEF Counts
<1>. HIDE DEF e
<1>5. registry' \in [Instances -> [Runs -> Entry \cup {None}]]
  BY <1>3, <1>4 DEF TypeInv, TypeOK
<1>6. \A j \in Instances, q \in Runs :
        \/ registry'[j][q] = registry[j][q]
        \/ registry[j][q] # None /\ registry'[j][q].senders = registry[j][q].senders
  BY <1>1, <1>3, <1>4 DEF TypeInv, TypeOK
<1>. QED
  BY <1>5, <1>6 DEF TypeInv, SendersKnown

\* An operation on a run that writes and goes on to publish, or comes from list to detach.
LEMMA WritingType ==
  ASSUME TypeInv, NEW t \in Tasks, call[t] \in Call, pc[t] \in Writing,
         NEW p \in {"publish", "detach"}, Goto(t, p), NEW a \in Answers,
         answer' = [answer EXCEPT ![t] = a], p = "detach" => a.events # <<>>,
         log' \in [Runs -> Seq(Event)], status' \in [Runs -> {"absent", "running", "over"}],
         lease' \in [Runs -> {"none", "live", "lapsed"}], OverLogged',
         registry' \in [Instances -> [Runs -> Entry \cup {None}]], SendersKnown',
         UNCHANGED <<marked, owner, lockMap, holder, call, lockRef, calls, sub>>
  PROVE  TypeInv'
<1>1. pc' \in [Tasks -> Places]
  BY GotoType DEF TypeInv, Places
<1>2. answer' \in [Tasks -> Answers \cup {None}] /\ answer'[t] = a
      /\ \A u \in Tasks \ {t} : answer'[u] = answer[u]
  BY DEF TypeInv, TypeOK, Answers
<1>3. TypeOK'
  BY <1>1, <1>2 DEF TypeInv, TypeOK, Places, Answers
<1>4. a # None
  BY NoneAssumption
<1>5. \A u \in Tasks : Shape(u)'
  <2>1. Is(t, Writers) /\ pc[t] # "idle"
    BY DEF TypeInv, Shape, Writing
  <2>2. p \in Places \ {"look", "attach", "page"}
    BY DEF Places
  <2>. QED
    BY <1>2, <1>4, <2>1, <2>2, ShapeGoes
<1>. QED
  BY <1>3, <1>5 DEF TypeInv

LEMMA WriteType ==
  ASSUME TypeInv, NEW t \in Tasks, Write(t)
  PROVE  TypeInv'
<1>. DEFINE i == call[t].at
            r == call[t].run
<1>1. /\ pc[t] = "write" /\ Goto(t, "publish")
      /\ UNCHANGED <<marked, owner, lockMap, holder, call, lockRef, calls, sub>>
      /\ WritesNothing(t) \/ WritesInVain(t) \/ WritesOffer(t)
  BY WriteOutcomes
<1>2. call[t] \in Call /\ Is(t, Writers)
  BY <1>1 DEF TypeInv, Shape, Writing
<1>3. i \in Instances /\ r \in Runs
  BY <1>2, CallParts
<1>4. CASE WritesNothing(t)
  <2>1. PICK k \in {"gone", "kept"} : answer' = [answer EXCEPT ![t] = Answer(k, <<>>)]
    BY <1>4 DEF WritesNothing
  <2>2. Answer(k, <<>>) \in Answers
    BY DEF Answer, Answers
  <2>3. UNCHANGED <<registry, log, status, lease>>
    BY <1>4 DEF WritesNothing
  <2>4. OverLogged' /\ SendersKnown'
    BY <1>1, <2>3 DEF TypeInv, OverLogged, Over, SendersKnown
  <2>. QED
    BY <1>1, <1>2, <2>1, <2>2, <2>3, <2>4, WritingType DEF TypeInv, TypeOK, Writing
<1>5. ASSUME Reg(t) # None
      PROVE  /\ Reg(t).seq \in Nat /\ Batch(t, Reg(t).seq + 1, Offer(t, Reg(t).seq + 1))
             /\ Reg(t).seq + Len(Offer(t, Reg(t).seq + 1)) \in Nat
  <2>1. Reg(t).seq \in Nat
    BY <1>3, <1>5, EntryParts DEF Reg, TypeInv
  <2>2. Batch(t, Reg(t).seq + 1, Offer(t, Reg(t).seq + 1))
    BY <1>2, <2>1, OfferBatch
  <2>. QED
    BY <2>1, <2>2 DEF Batch
<1>6. ASSUME NEW b, Reg(t) # None, b = Offer(t, Reg(t).seq + 1),
             NEW a, TurnsAway(t, a) \/ TakesIn(t, b, a), answer' = [answer EXCEPT ![t] = a],
             NEW n \in Nat, Counts(t, n)
      PROVE  TypeInv'
  <2>0. Batch(t, Reg(t).seq + 1, b)
    BY <1>5, <1>6
  <2>1. b \in Seq(Event) /\ b # <<>>
    BY <2>0 DEF Batch
  <2>2. /\ a \in Answers /\ log' \in [Runs -> Seq(Event)]
        /\ status' \in [Runs -> {"absent", "running", "over"}]
        /\ lease' \in [Runs -> {"none", "live", "lapsed"}] /\ OverLogged'
    BY <1>2, <1>6, <2>1, StoreType
  <2>3. registry' \in [Instances -> [Runs -> Entry \cup {None}]] /\ SendersKnown'
    BY <1>1, <1>2, <1>6, CountsType
  <2>. QED
    BY <1>1, <1>2, <1>6, <2>2, <2>3, WritingType DEF Writing
<1>7. CASE WritesInVain(t)
  <2>1. PICK a : TurnsAway(t, a) /\ answer' = [answer EXCEPT ![t] = a]
    BY <1>7 DEF WritesInVain
  <2>2. Counts(t, Reg(t).seq) \/ Counts(t, Reg(t).seq + Len(Offer(t, Reg(t).seq + 1)))
    BY <1>7 DEF WritesInVain
  <2>3. Reg(t) # None
    BY <2>2 DEF Counts
  <2>. QED
    BY <1>5, <1>6, <2>1, <2>2, <2>3
<1>8. CASE WritesOffer(t)
  <2>1. PICK a : TakesIn(t, Offer(t, Reg(t).seq + 1), a) /\ answer' = [answer EXCEPT ![t] = a]
    BY <1>8 DEF WritesOffer
  <2>2. Counts(t, Reg(t).seq + Len(Offer(t, Reg(t).seq + 1)))
    BY <1>8 DEF WritesOffer
  <2>3. Reg(t) # None
    BY <2>2 DEF Counts
  <2>. QED
    BY <1>5, <1>6, <2>1, <2>2, <2>3
<1>. QED
  BY <1>1, <1>4, <1>7, <1>8

\* What list answers finish_detached_with.
LEMMA ListOutcomes ==
  ASSUME NEW t \in Tasks, answer \in [Tasks -> Answers \cup {None}], ListForDetach(t)
  PROVE  /\ pc[t] = "list" /\ UNCHANGED <<storeVars, registry, lockMap, holder, call, lockRef, calls, sub>>
         /\ \/ /\ answer' = [answer EXCEPT ![t] = Answer("listed", Offer(t, LastSeq(call[t].run) + 1))]
               /\ Reg(t) = None /\ status[call[t].run] = "running" /\ Goto(t, "detach")
            \/ /\ \E k \in {"gone", "kept"} : answer' = [answer EXCEPT ![t] = Answer(k, <<>>)]
               /\ Goto(t, "publish")
<1>1. pc[t] = "list" /\ UNCHANGED <<storeVars, registry, lockMap, holder, call, lockRef, calls, sub>>
  BY DEF ListForDetach
<1>2. Goto(t, IF answer'[t].kind = "listed" THEN "detach" ELSE "publish")
  BY DEF ListForDetach
<1>3. ASSUME NEW a, answer' = [answer EXCEPT ![t] = a] PROVE answer'[t] = a
  BY <1>3
<1>4. CASE Reg(t) # None
  <2>1. answer' = [answer EXCEPT ![t] = Answer("kept", <<>>)]
    BY <1>4, Zenon DEF ListForDetach
  <2>2. answer'[t].kind # "listed"
    BY <1>3, <2>1 DEF Answer
  <2>. QED
    BY <1>1, <1>2, <2>1, <2>2
<1>5. CASE Reg(t) = None /\ status[call[t].run] # "running"
  <2>1. answer' = [answer EXCEPT ![t] = Answer("gone", <<>>)]
    BY <1>5, Zenon DEF ListForDetach
  <2>2. answer'[t].kind # "listed"
    BY <1>3, <2>1 DEF Answer
  <2>. QED
    BY <1>1, <1>2, <2>1, <2>2
<1>6. CASE Reg(t) = None /\ status[call[t].run] = "running"
  <2>1. answer' = [answer EXCEPT ![t] = Answer("listed", Offer(t, LastSeq(call[t].run) + 1))]
    BY <1>6, Zenon DEF ListForDetach
  <2>2. answer'[t].kind = "listed"
    BY <1>3, <2>1 DEF Answer
  <2>. QED
    BY <1>1, <1>2, <1>6, <2>1, <2>2
<1>. QED
  BY <1>4, <1>5, <1>6

LEMMA ListType ==
  ASSUME TypeInv, NEW t \in Tasks, ListForDetach(t)
  PROVE  TypeInv'
<1>1. answer \in [Tasks -> Answers \cup {None}]
  BY DEF TypeInv, TypeOK
<1>2. pc[t] = "list" /\ UNCHANGED <<storeVars, registry, lockMap, holder, call, lockRef, calls, sub>>
  BY <1>1, ListOutcomes
<1>3. call[t] \in Call /\ Is(t, Writers) /\ pc[t] \in Writing
  BY <1>2 DEF TypeInv, Shape, Writing
<1>4. PICK a \in Answers, p \in {"publish", "detach"} :
        answer' = [answer EXCEPT ![t] = a] /\ Goto(t, p) /\ (p = "detach" => a.events # <<>>)
  <2>1. CASE /\ answer' = [answer EXCEPT ![t] = Answer("listed", Offer(t, LastSeq(call[t].run) + 1))]
             /\ Goto(t, "detach")
    <3>1. LastSeq(call[t].run) + 1 \in Nat
      BY <1>3, CallParts, LogType DEF TypeInv
    <3>2. Offer(t, LastSeq(call[t].run) + 1) \in Seq(Event) /\ Offer(t, LastSeq(call[t].run) + 1) # <<>>
      <4>1. Batch(t, LastSeq(call[t].run) + 1, Offer(t, LastSeq(call[t].run) + 1))
        BY <1>3, <3>1, OfferBatch
      <4>. QED
        BY <4>1 DEF Batch
    <3>3. /\ Answer("listed", Offer(t, LastSeq(call[t].run) + 1)) \in Answers
          /\ Answer("listed", Offer(t, LastSeq(call[t].run) + 1)).events # <<>>
      BY <3>2 DEF Answer, Answers
    <3>. QED
      BY <2>1, <3>3
  <2>2. CASE (\E k \in {"gone", "kept"} : answer' = [answer EXCEPT ![t] = Answer(k, <<>>)]) /\ Goto(t, "publish")
    <3>1. \A k \in {"gone", "kept"} : Answer(k, <<>>) \in Answers
      BY DEF Answer, Answers
    <3>. QED
      BY <2>2, <3>1
  <2>. QED
    BY <1>1, <2>1, <2>2, ListOutcomes
<1>5. OverLogged' /\ SendersKnown'
  BY <1>2 DEF TypeInv, OverLogged, Over, SendersKnown, storeVars
<1>. QED
  BY <1>2, <1>3, <1>4, <1>5, WritingType DEF TypeInv, TypeOK, storeVars

LEMMA DetachType ==
  ASSUME TypeInv, NEW t \in Tasks, Detach(t)
  PROVE  TypeInv'
<1>. DEFINE b == answer[t].events
            a == StoreAnswer(t, b)
<1>1. /\ pc[t] = "detach" /\ Stores(t, b, a) /\ Goto(t, "publish")
      /\ UNCHANGED <<marked, owner, registry, lockMap, holder, call, lockRef, calls, sub>>
  BY DEF Detach
<1>2. \E k \in {"gone", "kept"} : answer' = [answer EXCEPT ![t] = Answer(k, <<>>)]
  <2>1. answer' = [answer EXCEPT ![t] =
          IF a.kind = "error" THEN Answer("kept", <<>>) ELSE Answer("gone", <<>>)]
    BY Zenon DEF Detach
  <2>. HIDE DEF a
  <2>. QED
    BY <2>1
<1>3. call[t] \in Call /\ answer[t] \in Answers /\ pc[t] \in Writing
  BY <1>1 DEF TypeInv, TypeOK, Shape, Writing
<1>4. b \in Seq(Event)
  BY <1>3 DEF Answers
<1>5. TurnsAway(t, a) \/ TakesIn(t, b, a)
  BY <1>1, StoreOutcomes
<1>. HIDE DEF a, b
<1>6. /\ log' \in [Runs -> Seq(Event)] /\ status' \in [Runs -> {"absent", "running", "over"}]
      /\ lease' \in [Runs -> {"none", "live", "lapsed"}] /\ OverLogged'
  <2>1. b # <<>>
    BY <1>1 DEF b, TypeInv, Shape
  <2>. QED
    BY <1>3, <1>4, <1>5, <2>1, StoreType
<1>7. registry' \in [Instances -> [Runs -> Entry \cup {None}]] /\ SendersKnown'
  BY <1>1 DEF TypeInv, TypeOK, SendersKnown
<1>8. PICK k \in {"gone", "kept"} : answer' = [answer EXCEPT ![t] = Answer(k, <<>>)]
  BY <1>2
<1>9. Answer(k, <<>>) \in Answers
  BY DEF Answer, Answers
<1>. QED
  BY <1>1, <1>3, <1>6, <1>7, <1>8, <1>9, WritingType

\* publish, to the senders there are.
LEMMA PublishType ==
  ASSUME TypeInv, NEW t \in Tasks, Publish(t)
  PROVE  TypeInv'
<1>. DEFINE i == call[t].at
            r == call[t].run
            P == answer[t].events
            e == Head(P)
            live == Reg(t) # None /\ ~Reg(t).published
<1>1. /\ pc[t] = "publish" /\ P # <<>>
      /\ sub' = [u \in Tasks |-> IF live /\ u \in Reg(t).senders
                                   THEN [sub[u] EXCEPT !.buffer = Append(@, e)] ELSE sub[u]]
      /\ registry' = IF ~live THEN registry ELSE [registry EXCEPT ![i][r].published = e.terminal]
      /\ answer' = [answer EXCEPT ![t].events = Tail(@)]
      /\ UNCHANGED <<storeVars, lockMap, holder, pc, call, lockRef, calls>>
  BY DEF Publish
<1>2. call[t] \in Call /\ answer[t] \in Answers
  BY <1>1 DEF TypeInv, TypeOK, Shape
<1>3. i \in Instances /\ r \in Runs
  BY <1>2, CallParts
<1>4. P \in Seq(Event) /\ e \in Event /\ Tail(P) \in Seq(Event)
  BY <1>1, <1>2 DEF Answers
<1>5. e.terminal \in BOOLEAN
  BY <1>4 DEF Event
<1>. HIDE DEF e
<1>6. [answer[t] EXCEPT !.events = Tail(@)] \in Answers
  BY <1>2, <1>4 DEF Answers
<1>7. /\ answer' \in [Tasks -> Answers \cup {None}] /\ answer'[t] \in Answers
      /\ \A u \in Tasks \ {t} : answer'[u] = answer[u]
  BY <1>1, <1>6 DEF TypeInv, TypeOK
<1>8. ASSUME NEW u \in Tasks
      PROVE  \/ sub'[u] = sub[u]
             \/ /\ sub[u] \in Subscription /\ sub'[u] \in Subscription
                /\ sub'[u].at = sub[u].at /\ sub'[u].run = sub[u].run
  <2>1. CASE live /\ u \in Reg(t).senders
    <3>1. sub[u] # None
      BY <1>3, <2>1 DEF TypeInv, SendersKnown, Reg
    <3>2. sub[u] \in Subscription
      BY <3>1 DEF TypeInv, TypeOK
    <3>3. Append(sub[u].buffer, e) \in Seq(Event)
      BY <1>4, <3>2 DEF Subscription
    <3>. DEFINE s == [sub[u] EXCEPT !.buffer = Append(@, e)]
    <3>4. s \in Subscription /\ s.at = sub[u].at /\ s.run = sub[u].run
      BY <3>2, <3>3 DEF Subscription
    <3>5. sub'[u] = s
      BY <1>1, <2>1
    <3>. QED
      BY <3>2, <3>4, <3>5
  <2>2. CASE ~(live /\ u \in Reg(t).senders)
    BY <1>1, <2>2
  <2>. QED
    BY <2>1, <2>2
<1>9. /\ \A u \in Tasks : sub'[u] = None <=> sub[u] = None
      /\ \A u \in Tasks : sub[u] # None => sub'[u].at = sub[u].at /\ sub'[u].run = sub[u].run
  BY <1>8, NoneAssumption
<1>10. sub' \in [Tasks -> Subscription \cup {None}]
  <2>1. \A u \in Tasks : sub[u] \in Subscription \cup {None}
    BY DEF TypeInv, TypeOK
  <2>2. \A u \in Tasks : sub'[u] \in Subscription \cup {None}
    BY <1>8, <2>1
  <2>3. DOMAIN sub' = Tasks /\ sub' = [u \in Tasks |-> sub'[u]]
    BY <1>1
  <2>. QED
    BY <2>2, <2>3
<1>11. /\ registry' \in [Instances -> [Runs -> Entry \cup {None}]]
       /\ \A j \in Instances, q \in Runs :
            \/ registry'[j][q] = registry[j][q]
            \/ registry[j][q] # None /\ registry'[j][q].senders = registry[j][q].senders
  <2>1. CASE ~live
    BY <1>1, <2>1 DEF TypeInv, TypeOK
  <2>2. CASE live
    <3>. DEFINE f == [registry[i][r] EXCEPT !.published = e.terminal]
    <3>1. registry[i][r] # None
      BY <2>2 DEF Reg
    <3>2. registry[i][r] \in Entry
      BY <1>3, <3>1, EntryParts DEF TypeInv
    <3>3. f \in Entry /\ f.senders = registry[i][r].senders
      BY <1>5, <3>2 DEF Entry
    <3>4. registry' = [registry EXCEPT ![i][r] = f]
      BY <1>1, <2>2
    <3>. HIDE DEF f
    <3>. QED
      BY <1>3, <3>1, <3>3, <3>4 DEF TypeInv, TypeOK
  <2>. QED
    BY <2>1, <2>2
<1>12. TypeOK'
  BY <1>1, <1>7, <1>10, <1>11 DEF TypeInv, TypeOK, storeVars, Places
<1>13. SendersKnown'
  BY <1>9, <1>11, EntryParts DEF TypeInv, SendersKnown
<1>14. \A u \in Tasks : Shape(u)'
  <2>1. Shape(t)'
    BY <1>1, <1>2, <1>7, <1>9, NoneAssumption DEF TypeInv, Shape, Is
  <2>. QED
    BY <1>1, <1>7, <1>9, <2>1, ShapeStep DEF TypeInv
<1>. QED
  BY <1>1, <1>12, <1>13, <1>14 DEF TypeInv, OverLogged, Over, storeVars

\* The guard drops.
LEMMA ReleaseOutcomes ==
  ASSUME NEW t \in Tasks, Release(t)
  PROVE  /\ pc[t] = "publish" /\ answer[t].events = <<>>
         /\ UNCHANGED <<storeVars, lockMap, sub>>
         /\ Returns(t) \/ (Goto(t, "dropLock") /\ UNCHANGED <<call, lockRef, answer, calls>>)
         /\ \/ UNCHANGED registry
            \/ /\ answer[t].kind \in {"finished", "skipped"}
               /\ registry' = [registry EXCEPT ![call[t].at][call[t].run] = None]
BY DEF Release

LEMMA ReleaseType ==
  ASSUME TypeInv, LockInv', NEW t \in Tasks, Release(t)
  PROVE  TypeInv'
<1>. DEFINE i == call[t].at
            r == call[t].run
<1>1. /\ pc[t] = "publish" /\ UNCHANGED <<storeVars, lockMap, sub>>
      /\ Returns(t) \/ (Goto(t, "dropLock") /\ UNCHANGED <<call, lockRef, answer, calls>>)
      /\ UNCHANGED registry \/ registry' = [registry EXCEPT ![i][r] = None]
  BY ReleaseOutcomes
<1>2. call[t] \in Call /\ Is(t, Writers)
  BY <1>1 DEF TypeInv, Shape, Writing
<1>3. i \in Instances /\ r \in Runs
  BY <1>2, CallParts
<1>4. registry' \in [Instances -> [Runs -> Entry \cup {None}]] /\ SendersKnown'
  <2>0. registry \in [Instances -> [Runs -> Entry \cup {None}]]
    BY DEF TypeInv, TypeOK
  <2>3. ASSUME registry' = [registry EXCEPT ![i][r] = None]
        PROVE  /\ registry' \in [Instances -> [Runs -> Entry \cup {None}]]
               /\ \A j \in Instances, q \in Runs : registry'[j][q] \in {registry[j][q], None}
    <3>1. registry' \in [Instances -> [Runs -> Entry \cup {None}]]
      <4>. DEFINE row == [registry[i] EXCEPT ![r] = None]
      <4>1. row \in [Runs -> Entry \cup {None}]
        BY <1>3, <2>0
      <4>2. registry' = [registry EXCEPT ![i] = row]
        BY <2>3
      <4>. HIDE DEF row
      <4>. QED
        BY <2>0, <4>1, <4>2
    <3>2. \A j \in Instances, q \in Runs : registry'[j][q] \in {registry[j][q], None}
      BY <1>3, <2>0, <2>3
    <3>. QED
      BY <3>1, <3>2
  <2>1. registry' \in [Instances -> [Runs -> Entry \cup {None}]]
    BY <1>1, <2>0, <2>3
  <2>2. \A j \in Instances, q \in Runs : registry'[j][q] \in {registry[j][q], None}
    BY <1>1, <2>3
  <2>. QED
    BY <1>1, <2>1, <2>2 DEF TypeInv, SendersKnown
<1>5. CASE Returns(t)
  <2>1. TypeOK'
    BY <1>1, <1>4, <1>5, ReturnsType DEF TypeInv, TypeOK, LockInv, LockTypes, Places, Answers, storeVars
  <2>. QED
    BY <1>1, <1>4, <1>5, <2>1, ShapeReturns DEF TypeInv, OverLogged, Over, storeVars
<1>6. CASE Goto(t, "dropLock") /\ UNCHANGED <<call, lockRef, answer, calls>>
  <2>1. TypeOK'
    BY <1>1, <1>4, <1>6 DEF TypeInv, TypeOK, LockInv, LockTypes, Places, storeVars
  <2>2. \A u \in Tasks : Shape(u)'
    BY <1>1, <1>2, <1>6, ShapeGoes DEF Places
  <2>. QED
    BY <1>1, <1>4, <2>1, <2>2 DEF TypeInv, OverLogged, Over, storeVars
<1>. QED
  BY <1>1, <1>5, <1>6

-----------------------------------------------------------------------------
(* Following.                                                              *)

LEMMA PastType ==
  ASSUME TypeOK, NEW r \in Runs, NEW n \in Nat
  PROVE  Past(r, n) \in 0..Len(log[r])
<1>. DEFINE S == {i \in DOMAIN log[r] : log[r][i].seq <= n}
<1>1. DOMAIN log[r] = 1..Len(log[r]) /\ Len(log[r]) \in Nat
  BY LogType
<1>2. IsFiniteSet(1..Len(log[r])) /\ Cardinality(1..Len(log[r])) = Len(log[r])
  BY <1>1, FS_Interval
<1>3. S \in SUBSET (1..Len(log[r]))
  BY <1>1
<1>. HIDE DEF S
<1>4. IsFiniteSet(S) /\ Cardinality(S) <= Len(log[r])
  BY <1>2, <1>3, FS_Subset
<1>5. Cardinality(S) \in Nat
  BY <1>4, FS_CardinalityType
<1>. QED
  BY <1>1, <1>4, <1>5 DEF Past, S

LEMMA AfterType ==
  ASSUME TypeOK, NEW r \in Runs, NEW n \in Nat
  PROVE  After(r, n) \in Seq(Event) /\ Len(After(r, n)) = Len(log[r]) - Past(r, n)
         /\ \A k \in 1..Len(After(r, n)) : After(r, n)[k] = log[r][Past(r, n) + k]
<1>. DEFINE L == log[r]
            p == Past(r, n)
<1>1. p \in 0..Len(L) /\ L \in Seq(Event) /\ Len(L) \in Nat
  BY PastType, LogType
<1>2. After(r, n) = SubSeq(L, p + 1, Len(L))
  BY DEF After
<1>. HIDE DEF p, L
<1>3. /\ SubSeq(L, p + 1, Len(L)) \in Seq(Event)
      /\ Len(SubSeq(L, p + 1, Len(L))) = IF p + 1 <= Len(L) THEN Len(L) - (p + 1) + 1 ELSE 0
      /\ \A k \in 1..Len(L) - (p + 1) + 1 : SubSeq(L, p + 1, Len(L))[k] = L[p + 1 + k - 1]
  <2>1. \A k \in p + 1..Len(L) : L[k] \in Event
    BY <1>1
  <2>2. p + 1 \in Int /\ Len(L) \in Int
    BY <1>1
  <2>. QED
    BY <2>1, <2>2, SubSeqProperties
<1>4. Len(After(r, n)) = Len(L) - p
  BY <1>1, <1>2, <1>3
<1>5. ASSUME NEW k \in 1..Len(After(r, n)) PROVE After(r, n)[k] = L[p + k]
  <2>1. k \in 1..Len(L) - (p + 1) + 1 /\ p + 1 + k - 1 = p + k
    BY <1>1, <1>4
  <2>. QED
    BY <1>2, <1>3, <2>1
<1>. QED
  BY <1>2, <1>3, <1>4, <1>5 DEF p, L

LEMMA LookType ==
  ASSUME TypeInv, NEW t \in Tasks, NEW from \in {0, 1}, Look(t, from)
  PROVE  TypeInv'
<1>. DEFINE i == call[t].at
            r == call[t].run
            state == IF Over(r) THEN "listing" ELSE "attaching"
            old == [sub[t] EXCEPT !.at = i, !.state = state]
            new == [at |-> i, run |-> r, start |-> from, cursor |-> from,
                    state |-> state, buffer |-> <<>>, got |-> <<>>]
<1>1. call[t] \in Call /\ pc[t] = "look" /\ UNCHANGED <<storeVars, registry, lockMap, holder>>
  BY DEF Look, TypeInv, Shape
<1>2. i \in Instances /\ r \in Runs /\ state \in {"listing", "attaching"}
  BY <1>1, CallParts
<1>3. CASE Returns(t) /\ UNCHANGED sub
  <2>1. TypeOK'
    BY <1>1, <1>3, ReturnsType DEF TypeInv, TypeOK, storeVars, Places, Answers
  <2>. QED
    BY <1>1, <1>3, <2>1, ShapeReturns DEF TypeInv, SendersKnown, OverLogged, Over, storeVars
<1>4. CASE /\ sub' = [sub EXCEPT ![t] = IF sub[t] # None THEN old ELSE new]
           /\ Goto(t, IF Over(r) THEN "page" ELSE "attach")
           /\ UNCHANGED <<call, lockRef, answer, calls>>
  <2>1. sub[t] # None => old \in Subscription /\ old.at = i /\ old.run = sub[t].run
    <3>1. sub[t] # None => sub[t] \in Subscription
      BY DEF TypeInv, TypeOK
    <3>. QED
      BY <1>2, <3>1 DEF Subscription
  <2>2. new \in Subscription /\ new.at = i /\ new.run = r
    BY <1>2 DEF Subscription
  <2>3. sub[t] # None => sub[t].run = r
    BY <1>1 DEF TypeInv, Shape
  <2>. HIDE DEF old, new
  <2>4. PICK s \in Subscription : sub' = [sub EXCEPT ![t] = s] /\ s.at = i /\ s.run = r
    BY <1>4, <2>1, <2>2, <2>3
  <2>5. s # None
    BY NoneAssumption
  <2>6. sub' \in [Tasks -> Subscription \cup {None}] /\ sub'[t] = s
        /\ \A u \in Tasks \ {t} : sub'[u] = sub[u]
    BY <2>4 DEF TypeInv, TypeOK
  <2>7. PICK p \in {"page", "attach"} : Goto(t, p)
    BY <1>4
  <2>8. pc' \in [Tasks -> Places] /\ pc'[t] = p /\ \A u \in Tasks \ {t} : pc'[u] = pc[u]
    BY <2>7, GotoType DEF TypeInv, Places
  <2>9. TypeOK'
    BY <1>1, <1>4, <2>6, <2>8 DEF TypeInv, TypeOK, storeVars, Places
  <2>10. Shape(t)'
    BY <1>1, <1>4, <2>4, <2>5, <2>6, <2>8 DEF Shape, Is, Writing
  <2>11. \A u \in Tasks : Shape(u)'
    BY <1>4, <2>6, <2>8, <2>10, ShapeStep DEF TypeInv
  <2>12. SendersKnown'
    <3>1. \A u \in Tasks : sub[u] # None => sub'[u] # None
      BY <2>5, <2>6
    <3>2. \A j \in Instances, q \in Runs : registry[j][q] # None => registry[j][q].senders \in SUBSET Tasks
      BY EntryParts DEF TypeInv
    <3>. QED
      BY <1>1, <3>1, <3>2 DEF TypeInv, SendersKnown
  <2>. QED
    BY <1>1, <2>9, <2>11, <2>12 DEF TypeInv, OverLogged, Over, storeVars
<1>5. \/ Returns(t) /\ UNCHANGED sub
      \/ /\ sub' = [sub EXCEPT ![t] = IF sub[t] # None THEN old ELSE new]
         /\ Goto(t, IF Over(r) THEN "page" ELSE "attach")
         /\ UNCHANGED <<call, lockRef, answer, calls>>
  <2>1. CASE status[r] = "absent"
    BY <2>1, Zenon DEF Look
  <2>2. CASE status[r] # "absent"
    BY <2>2, Zenon DEF Look
  <2>. QED
    BY <2>1, <2>2
<1>. QED
  BY <1>3, <1>4, <1>5

LEMMA AttachType ==
  ASSUME TypeInv, NEW t \in Tasks, Attach(t)
  PROVE  TypeInv'
<1>. DEFINE i == call[t].at
            r == call[t].run
            e == [registry[i][r] EXCEPT !.senders = @ \cup {t}]
            s == [sub[t] EXCEPT !.state = "NotOwner"]
<1>1. call[t] \in Call /\ pc[t] = "attach" /\ UNCHANGED <<storeVars, lockMap, holder>>
      /\ sub[t] # None /\ sub[t].at = i /\ sub[t].run = r
  BY DEF Attach, TypeInv, Shape
<1>2. i \in Instances /\ r \in Runs
  BY <1>1, CallParts
<1>3. CASE registry[i][r] # None /\ registry' = [registry EXCEPT ![i][r] = e]
           /\ Goto(t, "page") /\ UNCHANGED <<sub, call, lockRef, answer, calls>>
  <2>1. e \in Entry /\ e.senders = registry[i][r].senders \cup {t}
    <3>1. registry[i][r] \in Entry
      BY <1>2, <1>3, EntryParts DEF TypeInv
    <3>. QED
      BY <3>1 DEF Entry
  <2>. HIDE DEF e
  <2>2. registry' \in [Instances -> [Runs -> Entry \cup {None}]]
        /\ registry'[i][r] = e
        /\ \A j \in Instances, q \in Runs : <<j, q>> # <<i, r>> => registry'[j][q] = registry[j][q]
    BY <1>2, <1>3, <2>1 DEF TypeInv, TypeOK
  <2>3. pc' \in [Tasks -> Places] /\ pc'[t] = "page" /\ \A u \in Tasks \ {t} : pc'[u] = pc[u]
    BY <1>3, GotoType DEF TypeInv, Places
  <2>4. TypeOK'
    BY <1>1, <1>3, <2>2, <2>3 DEF TypeInv, TypeOK, storeVars, Places
  <2>5. Shape(t)'
    BY <1>1, <1>3, <2>3 DEF Shape, Is, Writing, TypeInv
  <2>6. \A u \in Tasks : Shape(u)'
    BY <1>3, <2>3, <2>5, ShapeStep DEF TypeInv
  <2>7. SendersKnown'
    BY <1>1, <1>2, <1>3, <2>1, <2>2 DEF TypeInv, SendersKnown
  <2>. QED
    BY <1>1, <2>4, <2>6, <2>7 DEF TypeInv, OverLogged, Over, storeVars
<1>4. CASE sub' = [sub EXCEPT ![t] = s] /\ Returns(t) /\ UNCHANGED registry
  <2>1. s \in Subscription /\ s # None
    <3>1. sub[t] \in Subscription
      BY <1>1 DEF TypeInv, TypeOK
    <3>. QED
      BY <3>1, NoneAssumption DEF Subscription
  <2>. HIDE DEF s
  <2>2. sub' \in [Tasks -> Subscription \cup {None}] /\ sub'[t] = s
        /\ \A u \in Tasks \ {t} : sub'[u] = sub[u]
    BY <1>4, <2>1 DEF TypeInv, TypeOK
  <2>3. /\ pc' \in [Tasks -> Places] /\ call' \in [Tasks -> Call \cup {None}]
        /\ lockRef' \in [Tasks -> LockIds \cup {None}]
        /\ answer' \in [Tasks -> Answers \cup {None}] /\ calls' \in 0..MaxCalls
        /\ pc'[t] = "idle"
        /\ \A u \in Tasks \ {t} : pc'[u] = pc[u] /\ call'[u] = call[u] /\ answer'[u] = answer[u]
    BY <1>4, ReturnsType DEF TypeInv
  <2>4. TypeOK'
    BY <1>1, <1>4, <2>2, <2>3 DEF TypeInv, TypeOK, storeVars, Places
  <2>5. Shape(t)'
    BY <2>3 DEF Shape, Writing
  <2>6. \A u \in Tasks : Shape(u)'
    BY <2>2, <2>3, <2>5, ShapeStep DEF TypeInv
  <2>7. SendersKnown'
    <3>1. \A u \in Tasks : sub[u] # None => sub'[u] # None
      BY <2>1, <2>2
    <3>2. \A j \in Instances, q \in Runs : registry[j][q] # None => registry[j][q].senders \in SUBSET Tasks
      BY EntryParts DEF TypeInv
    <3>. QED
      BY <1>4, <3>1, <3>2 DEF TypeInv, SendersKnown
  <2>. QED
    BY <1>1, <2>4, <2>6, <2>7 DEF TypeInv, OverLogged, Over, storeVars
<1>5. \/ registry[i][r] # None /\ registry' = [registry EXCEPT ![i][r] = e]
         /\ Goto(t, "page") /\ UNCHANGED <<sub, call, lockRef, answer, calls>>
      \/ sub' = [sub EXCEPT ![t] = s] /\ Returns(t) /\ UNCHANGED registry
  <2>1. CASE Reg(t) # None /\ ~Reg(t).published
    <3>1. registry' = [registry EXCEPT ![call[t].at][call[t].run].senders = @ \cup {t}]
          /\ Goto(t, "page") /\ UNCHANGED <<sub, call, lockRef, answer, calls>>
      BY <2>1, Zenon DEF Attach
    <3>2. registry' = [registry EXCEPT ![i][r] = e]
      BY <3>1
    <3>. QED
      BY <2>1, <3>1, <3>2 DEF Reg
  <2>2. CASE ~(Reg(t) # None /\ ~Reg(t).published)
    <3>1. sub' = [sub EXCEPT ![t].state = "NotOwner"] /\ Returns(t) /\ UNCHANGED registry
      BY <2>2, Zenon DEF Attach
    <3>. QED
      BY <3>1
  <2>. QED
    BY <2>1, <2>2
<1>. QED
  BY <1>3, <1>4, <1>5

\* The pages of list_events and what a page does to the subscription.
Rest(t) == After(sub[t].run, sub[t].cursor)
Page(t) == IF Len(Rest(t)) > ReplayLimit THEN SubSeq(Rest(t), 1, ReplayLimit) ELSE Rest(t)
Paged(t, state) ==
  [sub[t] EXCEPT !.got = @ \o Page(t),
                 !.cursor = IF Page(t) = <<>> THEN @ ELSE Last(Page(t)).seq,
                 !.buffer = IF Len(Rest(t)) > ReplayLimit THEN <<>> ELSE @,
                 !.state = state]
PageState(t, state) ==
  /\ Len(Rest(t)) > ReplayLimit => state = "Replay"
  /\ Len(Rest(t)) <= ReplayLimit /\ sub[t].state = "attaching" => state = "Active"
  /\ Len(Rest(t)) <= ReplayLimit /\ sub[t].state # "attaching" => state = "Inactive"

LEMMA ListPageOutcomes ==
  ASSUME NEW t \in Tasks, Len(Rest(t)) \in Nat, ListPage(t)
  PROVE  /\ pc[t] = "page" /\ Returns(t) /\ UNCHANGED <<storeVars, lockMap, holder>>
         /\ \E state \in {"Replay", "Active", "Inactive"} :
              PageState(t, state) /\ sub' = [sub EXCEPT ![t] = Paged(t, state)]
         /\ registry' = IF Len(Rest(t)) > ReplayLimit /\ Reg(t) # None
              THEN [registry EXCEPT ![sub[t].at][sub[t].run].senders = @ \ {t}] ELSE registry
<1>. DEFINE full == Len(Rest(t)) > ReplayLimit
            state == CASE full -> "Replay"
                       [] ~full /\ sub[t].state = "attaching" -> "Active"
                       [] OTHER -> "Inactive"
<1>1. full => state = "Replay"
  OBVIOUS
<1>2. ~full /\ sub[t].state = "attaching" => state = "Active"
  OBVIOUS
<1>3. ~full /\ sub[t].state # "attaching" => state = "Inactive"
  OBVIOUS
<1>4. /\ pc[t] = "page" /\ Returns(t) /\ UNCHANGED <<storeVars, lockMap, holder>>
      /\ sub' = [sub EXCEPT ![t] = Paged(t, state)]
      /\ registry' = IF full /\ Reg(t) # None
              THEN [registry EXCEPT ![sub[t].at][sub[t].run].senders = @ \ {t}] ELSE registry
  BY DEF ListPage, Rest, Page, Paged
<1>. HIDE DEF state
<1>5. state \in {"Replay", "Active", "Inactive"} /\ PageState(t, state)
  BY <1>1, <1>2, <1>3, ConstantsAssumption DEF PageState
<1>. QED
  BY <1>4, <1>5

LEMMA PageType ==
  ASSUME TypeOK, NEW t \in Tasks, sub[t] # None
  PROVE  /\ Rest(t) \in Seq(Event) /\ Page(t) \in Seq(Event) /\ Len(Page(t)) \in Nat
         /\ Page(t) # <<>> => Last(Page(t)) \in Event
<1>1. sub[t] \in Subscription
  BY DEF TypeOK
<1>2. Rest(t) \in Seq(Event)
  BY <1>1, AfterType DEF Rest, Subscription
<1>3. Page(t) \in Seq(Event)
  <2>. DEFINE R == Rest(t)
  <2>1. CASE Len(R) > ReplayLimit
    <3>1. R \in Seq(Event) /\ ReplayLimit \in Nat /\ Len(R) \in Nat
      BY <1>2, ConstantsAssumption
    <3>. HIDE DEF R
    <3>2. \A k \in 1..ReplayLimit : R[k] \in Event
      BY <2>1, <3>1
    <3>3. SubSeq(R, 1, ReplayLimit) \in Seq(Event)
      BY <3>1, <3>2, SubSeqProperties
    <3>. QED
      BY <2>1, <3>3 DEF Page, R
  <2>2. CASE ~(Len(R) > ReplayLimit)
    BY <1>2, <2>2 DEF Page
  <2>. QED
    BY <2>1, <2>2
<1>4. Page(t) # <<>> => Last(Page(t)) \in Event
  BY <1>3 DEF Last
<1>. QED
  BY <1>2, <1>3, <1>4

LEMMA ListPageType ==
  ASSUME TypeInv, NEW t \in Tasks, ListPage(t)
  PROVE  TypeInv'
<1>. DEFINE i == call[t].at
            r == call[t].run
            e == [registry[i][r] EXCEPT !.senders = @ \ {t}]
<1>1. pc[t] = "page"
  BY DEF ListPage
<1>2. call[t] \in Call /\ sub[t] # None /\ sub[t].at = i /\ sub[t].run = r
  BY <1>1 DEF TypeInv, Shape
<1>3. i \in Instances /\ r \in Runs
  BY <1>2, CallParts
<1>4. sub[t] \in Subscription /\ Page(t) \in Seq(Event)
      /\ (Page(t) # <<>> => Last(Page(t)) \in Event) /\ Len(Rest(t)) \in Nat
  BY <1>2, PageType DEF TypeInv, TypeOK
<1>5. /\ Returns(t) /\ UNCHANGED <<storeVars, lockMap, holder>>
      /\ UNCHANGED registry \/ (registry[i][r] # None /\ registry' = [registry EXCEPT ![i][r] = e])
  <2>1. Returns(t) /\ UNCHANGED <<storeVars, lockMap, holder>>
        /\ registry' = IF Len(Rest(t)) > ReplayLimit /\ Reg(t) # None
              THEN [registry EXCEPT ![sub[t].at][sub[t].run].senders = @ \ {t}] ELSE registry
    BY <1>4, ListPageOutcomes
  <2>. QED
    BY <1>2, <2>1 DEF Reg
<1>6. PICK state \in {"Replay", "Active", "Inactive"} : sub' = [sub EXCEPT ![t] = Paged(t, state)]
  BY <1>4, ListPageOutcomes
<1>. DEFINE s == Paged(t, state)
<1>7. s \in Subscription /\ s # None /\ s.at = i /\ s.run = r
  <2>. DEFINE got == sub[t].got \o Page(t)
              cursor == IF Page(t) = <<>> THEN sub[t].cursor ELSE Last(Page(t)).seq
              buffer == IF Len(Rest(t)) > ReplayLimit THEN <<>> ELSE sub[t].buffer
  <2>1. got \in Seq(Event) /\ cursor \in Nat /\ buffer \in Seq(Event)
    <3>1. sub[t].got \in Seq(Event) /\ sub[t].cursor \in Nat /\ sub[t].buffer \in Seq(Event)
      BY <1>4 DEF Subscription
    <3>2. Page(t) # <<>> => Last(Page(t)).seq \in Nat
      BY <1>4 DEF Event
    <3>. QED
      BY <1>4, <3>1, <3>2
  <2>2. sub[t].start \in Nat
    BY <1>4 DEF Subscription
  <2>. HIDE DEF got, cursor, buffer
  <2>3. Paged(t, state) = [sub[t] EXCEPT !.got = got, !.cursor = cursor, !.buffer = buffer, !.state = state]
    BY DEF Paged, got, cursor, buffer
  <2>4. s \in Subscription /\ s.at = sub[t].at /\ s.run = sub[t].run
    BY <1>4, <2>1, <2>3 DEF Subscription
  <2>. QED
    BY <1>2, <2>4, NoneAssumption
<1>. HIDE DEF s
<1>8. sub' \in [Tasks -> Subscription \cup {None}] /\ sub'[t] = s
      /\ \A u \in Tasks \ {t} : sub'[u] = sub[u]
  BY <1>6, <1>7 DEF TypeInv, TypeOK, s
<1>9. /\ registry' \in [Instances -> [Runs -> Entry \cup {None}]]
      /\ \A j \in Instances, q \in Runs : registry'[j][q] # None =>
           registry[j][q] # None /\ registry'[j][q].senders \subseteq registry[j][q].senders
  <2>1. CASE UNCHANGED registry
    BY <2>1 DEF TypeInv, TypeOK
  <2>2. CASE registry[i][r] # None /\ registry' = [registry EXCEPT ![i][r] = e]
    <3>1. registry[i][r] \in Entry
      BY <1>3, <2>2, EntryParts DEF TypeInv
    <3>2. e \in Entry /\ e.senders \subseteq registry[i][r].senders
      BY <3>1 DEF Entry
    <3>. HIDE DEF e
    <3>3. registry' \in [Instances -> [Runs -> Entry \cup {None}]]
          /\ registry'[i][r] = e
          /\ \A j \in Instances, q \in Runs : <<j, q>> # <<i, r>> => registry'[j][q] = registry[j][q]
      BY <1>3, <2>2, <3>2 DEF TypeInv, TypeOK
    <3>. QED
      BY <2>2, <3>2, <3>3
  <2>. QED
    BY <1>5, <2>1, <2>2
<1>10. /\ pc' \in [Tasks -> Places] /\ call' \in [Tasks -> Call \cup {None}]
       /\ lockRef' \in [Tasks -> LockIds \cup {None}]
       /\ answer' \in [Tasks -> Answers \cup {None}] /\ calls' \in 0..MaxCalls
       /\ pc'[t] = "idle"
       /\ \A u \in Tasks \ {t} : pc'[u] = pc[u] /\ call'[u] = call[u] /\ answer'[u] = answer[u]
  BY <1>5, ReturnsType DEF TypeInv
<1>11. TypeOK'
  BY <1>5, <1>8, <1>9, <1>10 DEF TypeInv, TypeOK, storeVars, Places
<1>12. Shape(t)'
  BY <1>10 DEF Shape, Writing
<1>13. \A u \in Tasks : Shape(u)'
  BY <1>8, <1>10, <1>12, ShapeStep DEF TypeInv
<1>14. SendersKnown'
  <2>1. \A u \in Tasks : sub[u] # None => sub'[u] # None
    BY <1>7, <1>8
  <2>2. \A j \in Instances, q \in Runs : registry[j][q] # None => registry[j][q].senders \in SUBSET Tasks
    BY EntryParts DEF TypeInv
  <2>. QED
    BY <1>9, <2>1, <2>2 DEF TypeInv, SendersKnown
<1>. QED
  BY <1>5, <1>11, <1>13, <1>14 DEF TypeInv, OverLogged, Over, storeVars

LEMMA TailNextType ==
  ASSUME TypeInv, NEW t \in Tasks, TailNext(t)
  PROVE  TypeInv'
<1>. DEFINE e == Head(sub[t].buffer)
            skip == [sub[t] EXCEPT !.buffer = Tail(@)]
            take == [sub[t] EXCEPT !.buffer = Tail(@), !.got = Append(@, e), !.cursor = e.seq]
<1>1. sub[t] \in Subscription /\ sub[t].buffer # <<>> /\ sub[t].buffer \in Seq(Event)
  BY DEF TailNext, TypeInv, TypeOK, Subscription
<1>2. e \in Event /\ Tail(sub[t].buffer) \in Seq(Event)
  BY <1>1
<1>3. skip \in Subscription /\ skip.at = sub[t].at /\ skip.run = sub[t].run
  BY <1>1, <1>2 DEF Subscription
<1>4. take \in Subscription /\ take.at = sub[t].at /\ take.run = sub[t].run
  <2>. DEFINE got == Append(sub[t].got, e)
              buffer == Tail(sub[t].buffer)
              n == e.seq
  <2>1. got \in Seq(Event) /\ buffer \in Seq(Event) /\ n \in Nat
    BY <1>1, <1>2 DEF Subscription, Event
  <2>2. take = [sub[t] EXCEPT !.buffer = buffer, !.got = got, !.cursor = n]
    OBVIOUS
  <2>. HIDE DEF e, got, buffer, n, take
  <2>. QED
    BY <1>1, <2>1, <2>2 DEF Subscription
<1>5. /\ sub' = [sub EXCEPT ![t] = IF e.seq <= sub[t].cursor THEN skip ELSE take]
      /\ UNCHANGED <<storeVars, registry, lockMap, holder, taskVars>>
  BY DEF TailNext
<1>. HIDE DEF e, skip, take
<1>6. PICK s \in Subscription :
        sub' = [sub EXCEPT ![t] = s] /\ s.at = sub[t].at /\ s.run = sub[t].run
  BY <1>3, <1>4, <1>5
<1>7. s # None
  BY NoneAssumption
<1>8. sub' \in [Tasks -> Subscription \cup {None}] /\ sub'[t] = s
      /\ \A u \in Tasks \ {t} : sub'[u] = sub[u]
  BY <1>6 DEF TypeInv, TypeOK
<1>9. TypeOK'
  BY <1>5, <1>8 DEF TypeInv, TypeOK, storeVars, taskVars
<1>10. \A u \in Tasks : Shape(u)'
  <2>1. \A u \in Tasks : /\ sub'[u] = None <=> sub[u] = None
                         /\ sub[u] # None => sub'[u].at = sub[u].at /\ sub'[u].run = sub[u].run
    BY <1>1, <1>6, <1>7, <1>8, NoneAssumption
  <2>2. pc' = pc /\ call' = call /\ answer' = answer
    BY <1>5 DEF taskVars
  <2>. QED
    BY <2>1, <2>2 DEF TypeInv, Shape, Is
<1>11. SendersKnown'
  <2>1. \A u \in Tasks : sub[u] # None => sub'[u] # None
    BY <1>7, <1>8
  <2>2. \A j \in Instances, q \in Runs : registry[j][q] # None => registry[j][q].senders \in SUBSET Tasks
    BY EntryParts DEF TypeInv
  <2>. QED
    BY <1>5, <2>1, <2>2 DEF TypeInv, SendersKnown
<1>. QED
  BY <1>5, <1>9, <1>10, <1>11 DEF TypeInv, OverLogged, Over, storeVars

LEMMA TypeInvariant == Spec => []TypeInv
<1>1. Init => TypeInv
  BY ConstantsAssumption DEF Init, TypeInv, TypeOK, Shape, SendersKnown, OverLogged, Over, Writing
<1>2. TypeInv /\ LockInv /\ LockInv' /\ [Next]_vars => TypeInv'
  <2>. SUFFICES ASSUME TypeInv, LockInv, LockInv', [Next]_vars PROVE TypeInv'
    OBVIOUS
  <2>1. UNCHANGED vars => TypeInv'
    BY DEF TypeInv, TypeOK, Shape, Is, SendersKnown, OverLogged, Over, vars, storeVars, taskVars
  <2>2. ASSUME NEW t \in Tasks, Step(t) PROVE TypeInv'
    <3>1. CASE LookupStart(t) \/ FindCancelled(t) \/ RequestCancel(t) \/ MarkCancelled(t)
      BY <3>1, CancelType
    <3>2. CASE InsertRun(t) \/ CreateRun(t)
      BY <3>2, InsertType, CreateType
    <3>3. CASE GetLock(t) \/ Acquire(t) \/ DropLock(t)
      BY <3>3, LocksType
    <3>4. CASE Write(t) \/ ListForDetach(t) \/ Detach(t)
      BY <3>4, WriteType, ListType, DetachType
    <3>5. CASE Publish(t) \/ Release(t)
      BY <3>5, PublishType, ReleaseType
    <3>6. CASE (\E from \in {0, 1} : Look(t, from)) \/ Attach(t) \/ ListPage(t) \/ TailNext(t)
      BY <3>6, LookType, AttachType, ListPageType, TailNextType
    <3>. QED
      BY <2>2, <3>1, <3>2, <3>3, <3>4, <3>5, <3>6 DEF Step
  <2>. QED
    BY <2>1, <2>2, BeginType, ReapType DEF Next, Quiet
<1>. QED
  BY <1>1, <1>2, LockInvariant, PTL DEF Spec

\* Every variable keeps its type: an operation that publishes has its answer, one that
\* lists has its subscription, and what a batch, a page or the reaper adds to a log or to
\* a client are events.
THEOREM TypesHold == Spec => []TypeOK
<1>1. TypeInv => TypeOK
  BY DEF TypeInv
<1>. QED
  BY <1>1, TypeInvariant, PTL

\* Two operations of an instance on a run are never both between lock() and unlock, not
\* even under two locks: for any number of callers, whatever they call and whenever the
\* lock leaves the map.
THEOREM EventLocksExclude == Spec => []EventLockInv
BY TypesHold, LocksExclude, PTL DEF EventLockInv

-----------------------------------------------------------------------------
(* The life of a run in the store.                                         *)

\* A run that was not created is nobody's and empty; one that runs has a lease exactly
\* if it was started with one; the lease goes with the end.
RunsOwned ==
  \A r \in Runs :
    /\ status[r] = "absent" => log[r] = <<>> /\ owner[r] = None
    /\ status[r] # "absent" => owner[r] \in Instances
    /\ status[r] = "running" => (lease[r] = "none" <=> r \notin Leased)
    /\ status[r] # "running" => lease[r] = "none"

\* finish_detached_with finishes a run that it has found in the store.
Detaching ==
  \A t \in Tasks : pc[t] \in {"list", "detach"} =>
    /\ Is(t, {"detach"})
    /\ pc[t] = "detach" => status[call[t].run] # "absent" /\ answer[t].kind = "listed"

\* An operation that tells the registry that the run is over is right.
Telling ==
  \A t \in Tasks : pc[t] \in {"publish", "dropLock"} /\ answer[t].kind \in {"finished", "skipped"} =>
    Over(call[t].run)

StoreInv == RunsOwned /\ Detaching /\ Telling

\* What a step may do to a run.
Still(r) ==
  /\ status'[r] = status[r] /\ log'[r] = log[r] /\ owner'[r] = owner[r]
  /\ lease'[r] = lease[r] \/ (lease[r] = "live" /\ lease'[r] = "lapsed")
Opens(r) ==
  /\ status[r] = "absent" /\ status'[r] = "running" /\ log'[r] = log[r]
  /\ owner'[r] \in Instances
  /\ lease'[r] = IF r \in Leased THEN "live" ELSE "none"
Takes(r) ==
  /\ status[r] = "running" /\ owner'[r] = owner[r]
  /\ \/ status'[r] = "running" /\ lease'[r] = lease[r]
     \/ status'[r] = "over" /\ lease'[r] = "none"

LEMMA UntouchedStill ==
  ASSUME UNCHANGED <<status, log, lease, owner>> PROVE \A r \in Runs : Still(r)
BY DEF Still

LEMMA StoreSteps ==
  ASSUME TypeInv, StoreInv, NEW t \in Tasks, Step(t)
  PROVE  \A r \in Runs : Still(r) \/ Opens(r) \/ Takes(r)
<1>. DEFINE i == call[t].at
            r == call[t].run
<1>1. CASE CreateRun(t)
  <2>1. call[t] \in Call
    BY <1>1 DEF CreateRun, TypeInv, Shape
  <2>2. i \in Instances /\ r \in Runs
    BY <2>1, CallParts
  <2>3. CASE Blocked(r)
    BY <1>1, <2>3, UntouchedStill DEF CreateRun
  <2>4. CASE ~Blocked(r)
    <3>1. /\ status' = [status EXCEPT ![r] = "running"]
          /\ lease' = [lease EXCEPT ![r] = IF r \in Leased THEN "live" ELSE "none"]
          /\ owner' = [owner EXCEPT ![r] = i] /\ log' = log
      BY <1>1, <2>4, Zenon DEF CreateRun
    <3>2. status[r] = "absent"
      BY <2>2, <2>4 DEF Blocked
    <3>3. Opens(r)
      BY <2>2, <3>1, <3>2 DEF Opens, TypeInv, TypeOK
    <3>4. \A q \in Runs \ {r} : Still(q)
      BY <2>2, <3>1 DEF Still, TypeInv, TypeOK
    <3>. QED
      BY <3>3, <3>4
  <2>. QED
    BY <2>3, <2>4
<1>2. ASSUME NEW b, NEW a, r \in Runs, TurnsAway(t, a) \/ TakesIn(t, b, a), status[r] # "absent", owner' = owner
      PROVE  \A q \in Runs : Still(q) \/ Takes(q)
  <2>1. CASE TurnsAway(t, a)
    BY <1>2, <2>1, UntouchedStill DEF TurnsAway
  <2>2. CASE TakesIn(t, b, a)
    <3>1. /\ ~Over(r) /\ log' = [log EXCEPT ![r] = @ \o b]
          /\ status' = [status EXCEPT ![r] = IF Finishes(t) THEN "over" ELSE @]
          /\ lease' = [lease EXCEPT ![r] = IF Finishes(t) THEN "none" ELSE @]
      BY <2>2, Zenon DEF TakesIn
    <3>2. status[r] = "running"
      BY <1>2, <3>1 DEF Over, TypeInv, TypeOK
    <3>3. Takes(r)
      BY <1>2, <3>1, <3>2 DEF Takes, TypeInv, TypeOK
    <3>4. \A q \in Runs \ {r} : Still(q)
      BY <1>2, <3>1 DEF Still, TypeInv, TypeOK
    <3>. QED
      BY <3>3, <3>4
  <2>. QED
    BY <1>2, <2>1, <2>2
<1>3. CASE Write(t)
  <2>1. owner' = owner /\ (WritesNothing(t) \/ WritesInVain(t) \/ WritesOffer(t)) /\ r \in Runs
    BY <1>3, WriteOutcomes, CallParts DEF TypeInv, Shape
  <2>2. CASE WritesNothing(t)
    BY <2>1, <2>2, UntouchedStill DEF WritesNothing
  <2>3. CASE WritesInVain(t)
    BY <2>1, <2>3, UntouchedStill DEF WritesInVain, TurnsAway
  <2>4. CASE WritesOffer(t)
    BY <1>2, <2>1, <2>4 DEF WritesOffer
  <2>. QED
    BY <2>1, <2>2, <2>3, <2>4
<1>4. CASE Detach(t)
  <2>1. owner' = owner /\ pc[t] = "detach" /\ Stores(t, answer[t].events, StoreAnswer(t, answer[t].events))
    BY <1>4 DEF Detach
  <2>2. status[r] # "absent" /\ r \in Runs
    BY <2>1, CallParts DEF StoreInv, Detaching, TypeInv, Shape
  <2>. QED
    BY <1>2, <2>1, <2>2, StoreOutcomes
<1>5. CASE ~(CreateRun(t) \/ Write(t) \/ Detach(t))
  <2>1. UNCHANGED <<status, log, lease, owner>>
    BY <1>5 DEF Step, LookupStart, InsertRun, GetLock, Acquire, ListForDetach, Publish, Release, DropLock,
                Look, Attach, ListPage, TailNext, FindCancelled, RequestCancel, MarkCancelled, storeVars
  <2>. QED
    BY <2>1, UntouchedStill
<1>. QED
  BY <1>1, <1>3, <1>4, <1>5

LEMMA ReapSteps ==
  ASSUME TypeInv, StoreInv, NEW r \in Runs, Lapse(r) \/ Reap(r)
  PROVE  \A q \in Runs : Still(q) \/ (q = r /\ Reap(r) /\ Takes(q) /\ status'[q] = "over")
<1>1. CASE Lapse(r)
  BY <1>1 DEF Lapse, Still, TypeInv, TypeOK
<1>2. CASE Reap(r)
  <2>1. lease[r] = "lapsed" /\ status' = [status EXCEPT ![r] = "over"] /\ lease' = [lease EXCEPT ![r] = "none"]
        /\ \E e : log' = [log EXCEPT ![r] = Append(@, e)]
        /\ owner' = owner
    BY <1>2 DEF Reap
  <2>2. status[r] = "running"
    BY <2>1 DEF StoreInv, RunsOwned
  <2>3. Takes(r) /\ status'[r] = "over"
    BY <2>1, <2>2 DEF Takes, TypeInv, TypeOK
  <2>4. \A q \in Runs \ {r} : Still(q)
    BY <2>1 DEF Still, TypeInv, TypeOK
  <2>. QED
    BY <1>2, <2>3, <2>4
<1>. QED
  BY <1>1, <1>2

\* What a step of t leaves of the other tasks, and when it goes on in another call.
LEMMA StepFrame ==
  ASSUME TypeInv, NEW t \in Tasks, Step(t)
  PROVE  /\ \A u \in Tasks \ {t} : pc'[u] = pc[u] /\ call'[u] = call[u] /\ answer'[u] = answer[u]
         /\ pc'[t] = "idle" \/ call'[t] = call[t]
         /\ pc'[t] = "create" => InsertRun(t) \/ pc[t] = "create"
         /\ pc'[t] = "list" => Acquire(t) \/ pc[t] = "list"
         /\ pc'[t] = "detach" => ListForDetach(t) \/ (pc[t] = "detach" /\ answer'[t] = answer[t])
<1>1. CASE TailNext(t)
  <2>1. UNCHANGED taskVars
    BY <1>1 DEF TailNext
  <2>2. UNCHANGED <<pc, call, answer>>
    BY <2>1 DEF taskVars
  <2>. QED
    BY <2>2
<1>2. CASE Publish(t)
  <2>1. UNCHANGED <<pc, call>> /\ answer' = [answer EXCEPT ![t].events = Tail(@)] /\ pc[t] = "publish"
    BY <1>2 DEF Publish
  <2>. QED
    BY <2>1 DEF TypeInv, TypeOK
<1>3. ASSUME Returns(t)
      PROVE  /\ \A u \in Tasks \ {t} : pc'[u] = pc[u] /\ call'[u] = call[u] /\ answer'[u] = answer[u]
             /\ pc'[t] = "idle"
  BY <1>3, ReturnsType DEF TypeInv
<1>4. ASSUME NEW p \in Places, Goto(t, p), call' = call,
             answer' = answer \/ \E a : answer' = [answer EXCEPT ![t] = a]
      PROVE  /\ \A u \in Tasks \ {t} : pc'[u] = pc[u] /\ call'[u] = call[u] /\ answer'[u] = answer[u]
             /\ call'[t] = call[t] /\ pc'[t] = p
  <2>1. pc'[t] = p /\ \A u \in Tasks \ {t} : pc'[u] = pc[u]
    BY <1>4, GotoType DEF TypeInv
  <2>2. answer \in [Tasks -> Answers \cup {None}]
    BY DEF TypeInv, TypeOK
  <2>3. \A u \in Tasks \ {t} : answer'[u] = answer[u]
    BY <1>4, <2>2
  <2>. QED
    BY <1>4, <2>1, <2>3
<1>5. CASE LookupStart(t)
  <2>1. Returns(t) \/ (Goto(t, "insert") /\ call' = call /\ answer' = answer)
    BY <1>5 DEF LookupStart
  <2>. QED
    BY <1>3, <1>4, <2>1 DEF Places
<1>6. CASE InsertRun(t)
  <2>1. Returns(t) \/ (Goto(t, "create") /\ call' = call /\ answer' = answer)
    BY <1>6 DEF InsertRun
  <2>. QED
    BY <1>3, <1>4, <1>6, <2>1 DEF Places
<1>7. CASE CreateRun(t) \/ DropLock(t) \/ MarkCancelled(t)
  <2>1. Returns(t)
    BY <1>7 DEF CreateRun, DropLock, MarkCancelled
  <2>. QED
    BY <1>3, <2>1
<1>8. CASE ListPage(t)
  <2>1. Returns(t)
    BY <1>8 DEF ListPage
  <2>. QED
    BY <1>3, <2>1
<1>9. CASE GetLock(t)
  <2>1. Goto(t, "acquire") /\ call' = call /\ answer' = answer
    BY <1>9 DEF GetLock
  <2>. QED
    BY <1>4, <2>1 DEF Places
<1>10. CASE Acquire(t)
  <2>1. (Goto(t, "list") \/ Goto(t, "write")) /\ call' = call /\ answer' = answer
    BY <1>10 DEF Acquire
  <2>. QED
    BY <1>4, <1>10, <2>1 DEF Places
<1>11. CASE Write(t) \/ Detach(t)
  <2>1. Goto(t, "publish") /\ call' = call /\ \E a : answer' = [answer EXCEPT ![t] = a]
    BY <1>11, WriteOutcomes DEF Detach, WritesNothing, WritesInVain, WritesOffer
  <2>. QED
    BY <1>4, <2>1 DEF Places
<1>12. CASE ListForDetach(t)
  <2>1. answer \in [Tasks -> Answers \cup {None}]
    BY DEF TypeInv, TypeOK
  <2>2. (Goto(t, "detach") \/ Goto(t, "publish")) /\ call' = call /\ \E a : answer' = [answer EXCEPT ![t] = a]
    BY <1>12, <2>1, ListOutcomes
  <2>. QED
    BY <1>4, <1>12, <2>2 DEF Places
<1>13. CASE Release(t)
  <2>1. Returns(t) \/ (Goto(t, "dropLock") /\ call' = call /\ answer' = answer)
    BY <1>13, ReleaseOutcomes
  <2>. QED
    BY <1>3, <1>4, <2>1 DEF Places
<1>14. CASE \E from \in {0, 1} : Look(t, from)
  <2>1. Returns(t) \/ ((Goto(t, "page") \/ Goto(t, "attach")) /\ call' = call /\ answer' = answer)
    BY <1>14 DEF Look
  <2>. QED
    BY <1>3, <1>4, <2>1 DEF Places
<1>15. CASE Attach(t)
  <2>1. Returns(t) \/ (Goto(t, "page") /\ call' = call /\ answer' = answer)
    BY <1>15 DEF Attach
  <2>. QED
    BY <1>3, <1>4, <2>1 DEF Places
<1>16. CASE FindCancelled(t) \/ RequestCancel(t)
  <2>1. Returns(t) \/ ((Goto(t, "request") \/ Goto(t, "mark")) /\ call' = call /\ answer' = answer)
    BY <1>16 DEF FindCancelled, RequestCancel
  <2>. QED
    BY <1>3, <1>4, <2>1 DEF Places
<1>. QED
  BY <1>1, <1>2, <1>5, <1>6, <1>7, <1>8, <1>9, <1>10, <1>11, <1>12, <1>13, <1>14, <1>15, <1>16 DEF Step

LEMMA BeginFrame ==
  ASSUME TypeInv, NEW t \in Tasks, NEW c \in Call, Begin(t, c)
  PROVE  /\ \A u \in Tasks \ {t} : pc'[u] = pc[u] /\ call'[u] = call[u]
         /\ pc'[t] \in {"lookup", "look", "find", "getLock"} /\ answer' = answer
<1>1. call' = [call EXCEPT ![t] = c] /\ answer' = answer /\ Goto(t, FirstStep(c.kind)) /\ c.kind \in AllKinds
  BY DEF Begin, Call
<1>2. FirstStep(c.kind) \in {"lookup", "look", "find", "getLock"}
  <2>1. c.kind = "start" => FirstStep(c.kind) = "lookup"
    BY DEF FirstStep
  <2>2. c.kind = "subscribe" => FirstStep(c.kind) = "look"
    BY DEF FirstStep
  <2>3. c.kind = "cancel" => FirstStep(c.kind) = "find"
    BY DEF FirstStep
  <2>4. c.kind \notin {"start", "subscribe", "cancel"} => FirstStep(c.kind) = "getLock"
    BY DEF FirstStep
  <2>. QED
    BY <2>1, <2>2, <2>3, <2>4
<1>3. PICK p \in {"lookup", "look", "find", "getLock"} : p = FirstStep(c.kind)
  BY <1>2
<1>4. pc'[t] = p /\ \A u \in Tasks \ {t} : pc'[u] = pc[u]
  BY <1>1, <1>3, GotoType DEF TypeInv, Places
<1>. QED
  BY <1>1, <1>4 DEF TypeInv, TypeOK

\* The store's part of the invariant follows from what a step does to each run ...
LEMMA OwnedKept ==
  ASSUME TypeInv, StoreInv, \A r \in Runs : Still(r) \/ Opens(r) \/ Takes(r)
  PROVE  /\ RunsOwned'
         /\ \A r \in Runs : (status[r] # "absent" => status'[r] # "absent") /\ (Over(r) => Over(r)')
<1>1. \A r \in Runs : status[r] \in {"absent", "running", "over"} /\ lease[r] \in {"none", "live", "lapsed"}
  BY DEF TypeInv, TypeOK
<1>2. RunsOwned'
  <2>. SUFFICES ASSUME NEW r \in Runs
                PROVE  /\ status'[r] = "absent" => log'[r] = <<>> /\ owner'[r] = None
                       /\ status'[r] # "absent" => owner'[r] \in Instances
                       /\ status'[r] = "running" => (lease'[r] = "none" <=> r \notin Leased)
                       /\ status'[r] # "running" => lease'[r] = "none"
    BY DEF RunsOwned
  <2>1. CASE Still(r)
    BY <1>1, <2>1 DEF Still, StoreInv, RunsOwned
  <2>2. CASE Opens(r)
    BY <2>2 DEF Opens
  <2>3. CASE Takes(r)
    BY <2>3 DEF Takes, StoreInv, RunsOwned
  <2>. QED
    BY <2>1, <2>2, <2>3
<1>. QED
  BY <1>2 DEF Still, Opens, Takes, Over

\* ... and from the answers that are told.
LEMMA AnswerKinds ==
  ASSUME NEW k, NEW b
  PROVE  Answer(k, b).kind = k /\ Answer(k, b).events = b
BY DEF Answer

LEMMA StepAnswers ==
  ASSUME TypeInv, StoreInv, NEW t \in Tasks, Step(t), \A r \in Runs : Over(r) => Over(r)'
  PROVE  pc'[t] \in {"publish", "dropLock"} /\ answer'[t].kind \in {"finished", "skipped"} =>
           Over(call[t].run)'
<1>. DEFINE r == call[t].run
<1>. SUFFICES ASSUME pc'[t] \in {"publish", "dropLock"}, answer'[t].kind \in {"finished", "skipped"}
              PROVE  Over(r)'
  OBVIOUS
<1>0. call'[t] = call[t]
  BY StepFrame
<1>1. answer \in [Tasks -> Answers \cup {None}] /\ pc \in [Tasks -> Places]
  BY DEF TypeInv, TypeOK, Places
<1>2. ASSUME NEW p, Goto(t, p) PROVE pc'[t] = p
  BY <1>1, <1>2 DEF Goto
<1>3. ASSUME NEW a, answer' = [answer EXCEPT ![t] = a] PROVE answer'[t] = a
  BY <1>1, <1>3
<1>4. CASE Write(t)
  <2>0. WritesNothing(t) \/ WritesInVain(t) \/ WritesOffer(t)
    BY <1>4, WriteOutcomes
  <2>1. r \in Runs
    BY <1>4, WriteOutcomes, CallParts DEF TypeInv, Shape
  <2>2. CASE WritesNothing(t)
    <3>1. PICK k \in {"gone", "kept"} : answer' = [answer EXCEPT ![t] = Answer(k, <<>>)]
      BY <2>2 DEF WritesNothing
    <3>2. answer'[t] = Answer(k, <<>>)
      BY <1>3, <3>1
    <3>3. answer'[t].kind = k
      BY <3>2 DEF Answer
    <3>. QED
      BY <3>3
  <2>3. CASE WritesInVain(t)
    <3>1. PICK a : TurnsAway(t, a) /\ answer' = [answer EXCEPT ![t] = a]
      BY <2>3 DEF WritesInVain
    <3>2. a.kind \in {"finished", "skipped"}
      BY <1>3, <3>1
    <3>3. Over(r)
      BY <3>1, <3>2, AnswerKinds DEF TurnsAway
    <3>. QED
      BY <1>0, <2>1, <3>3
  <2>4. CASE WritesOffer(t)
    <3>1. PICK a : TakesIn(t, Offer(t, Reg(t).seq + 1), a) /\ answer' = [answer EXCEPT ![t] = a]
      BY <2>4 DEF WritesOffer
    <3>2. a.kind \in {"finished", "skipped"}
      BY <1>3, <3>1
    <3>3. Finishes(t) /\ status' = [status EXCEPT ![r] = IF Finishes(t) THEN "over" ELSE @]
      BY <3>1, <3>2, AnswerKinds DEF TakesIn
    <3>. QED
      BY <1>0, <2>1, <3>3 DEF Over, TypeInv, TypeOK
  <2>. QED
    BY <2>0, <2>2, <2>3, <2>4
<1>5. CASE Detach(t)
  <2>. DEFINE a == StoreAnswer(t, answer[t].events)
  <2>1. answer' = [answer EXCEPT ![t] = IF a.kind = "error" THEN Answer("kept", <<>>) ELSE Answer("gone", <<>>)]
    BY <1>5, Zenon DEF Detach
  <2>. HIDE DEF a
  <2>2. answer'[t].kind \in {"kept", "gone"}
    <3>1. answer'[t] = Answer("kept", <<>>) \/ answer'[t] = Answer("gone", <<>>)
      BY <1>3, <2>1
    <3>. QED
      BY <3>1 DEF Answer
  <2>. QED
    BY <2>2
<1>6. CASE ListForDetach(t)
  <2>1. answer'[t].kind \in {"listed", "gone", "kept"}
    BY <1>1, <1>3, <1>6, ListOutcomes, AnswerKinds
  <2>. QED
    BY <2>1
<1>7. CASE Publish(t)
  <2>1. answer' = [answer EXCEPT ![t].events = Tail(@)] /\ pc' = pc /\ pc[t] = "publish"
    BY <1>7 DEF Publish
  <2>2. answer'[t].kind = answer[t].kind
    BY <1>1, <2>1 DEF Answers
  <2>3. Over(r) /\ r \in Runs
    BY <2>1, <2>2, CallParts DEF StoreInv, Telling, TypeInv, Shape
  <2>. QED
    BY <1>0, <2>3
<1>8. CASE Release(t) \/ TailNext(t)
  <2>1. answer'[t].kind = answer[t].kind /\ pc[t] \in {"publish", "dropLock"}
    <3>1. CASE Release(t)
      <4>1. ~Returns(t)
        BY <1>1 DEF Returns, Goto
      <4>. QED
        BY <3>1, <4>1, ReleaseOutcomes
    <3>2. CASE TailNext(t)
      <4>1. UNCHANGED taskVars
        BY <3>2 DEF TailNext
      <4>. QED
        BY <4>1 DEF taskVars
    <3>. QED
      BY <1>8, <3>1, <3>2
  <2>2. Over(r) /\ r \in Runs
    BY <2>1, CallParts DEF StoreInv, Telling, TypeInv, Shape
  <2>. QED
    BY <1>0, <2>2
<1>9. CASE ~(Write(t) \/ Detach(t) \/ ListForDetach(t) \/ Publish(t) \/ Release(t) \/ TailNext(t))
  <2>1. \E p \in {"idle", "insert", "create", "acquire", "list", "write", "page", "attach", "request", "mark"} :
          Goto(t, p)
    BY <1>9 DEF Step, LookupStart, InsertRun, CreateRun, GetLock, Acquire, DropLock,
                Look, Attach, ListPage, FindCancelled, RequestCancel, MarkCancelled, Returns
  <2>. QED
    BY <1>2, <2>1
<1>. QED
  BY <1>4, <1>5, <1>6, <1>7, <1>8, <1>9

LEMMA StoreInvariant == Spec => []StoreInv
<1>1. Init => StoreInv
  BY DEF Init, StoreInv, RunsOwned, Detaching, Telling
<1>2. TypeInv /\ StoreInv /\ [Next]_vars => StoreInv'
  <2>. SUFFICES ASSUME TypeInv, StoreInv, [Next]_vars PROVE StoreInv'
    OBVIOUS
  <2>1. CASE UNCHANGED vars
    BY <2>1 DEF vars, storeVars, taskVars, StoreInv, RunsOwned, Detaching, Telling, Is, Over
  <2>2. ASSUME NEW t \in Tasks, Step(t) PROVE StoreInv'
    <3>1. /\ RunsOwned'
          /\ \A r \in Runs : (status[r] # "absent" => status'[r] # "absent") /\ (Over(r) => Over(r)')
      BY <2>2, StoreSteps, OwnedKept
    <3>2. /\ \A u \in Tasks \ {t} : pc'[u] = pc[u] /\ call'[u] = call[u] /\ answer'[u] = answer[u]
          /\ pc'[t] = "idle" \/ call'[t] = call[t]
          /\ pc'[t] = "list" => Acquire(t) \/ pc[t] = "list"
          /\ pc'[t] = "detach" => ListForDetach(t) \/ (pc[t] = "detach" /\ answer'[t] = answer[t])
      BY <2>2, StepFrame
    <3>3. \A u \in Tasks : pc[u] # "idle" => call[u].run \in Runs
      BY CallParts DEF TypeInv, Shape
    <3>4. Telling'
      <4>1. pc'[t] \in {"publish", "dropLock"} /\ answer'[t].kind \in {"finished", "skipped"} =>
              Over(call[t].run)'
        BY <2>2, <3>1, StepAnswers
      <4>2. \A u \in Tasks \ {t} :
              pc'[u] \in {"publish", "dropLock"} /\ answer'[u].kind \in {"finished", "skipped"} =>
                Over(call[u].run)'
        BY <3>1, <3>2, <3>3 DEF StoreInv, Telling, Over
      <4>. QED
        BY <4>1, <4>2 DEF Telling
    <3>5. pc'[t] \in {"list", "detach"} =>
            /\ Is(t, {"detach"})'
            /\ pc'[t] = "detach" => status'[call'[t].run] # "absent" /\ answer'[t].kind = "listed"
      <4>1. CASE Acquire(t)
        <5>1. Goto(t, IF Is(t, {"detach"}) THEN "list" ELSE "write") /\ call' = call
          BY <4>1 DEF Acquire
        <5>. QED
          BY <5>1 DEF Goto, Is, TypeInv, TypeOK
      <4>2. CASE ListForDetach(t)
        <5>1. answer \in [Tasks -> Answers \cup {None}] /\ pc \in [Tasks -> Places]
          BY DEF TypeInv, TypeOK, Places
        <5>2. /\ pc[t] = "list" /\ call' = call /\ status' = status
              /\ \/ /\ \E b : answer' = [answer EXCEPT ![t] = Answer("listed", b)]
                    /\ status[call[t].run] = "running"
                 \/ Goto(t, "publish")
          BY <4>2, <5>1, ListOutcomes DEF storeVars
        <5>3. Is(t, {"detach"})
          BY <5>2 DEF StoreInv, Detaching
        <5>4. Goto(t, "publish") => pc'[t] = "publish"
          BY <5>1 DEF Goto
        <5>5. (\E b : answer' = [answer EXCEPT ![t] = Answer("listed", b)]) => answer'[t].kind = "listed"
          BY <5>1, AnswerKinds
        <5>. QED
          BY <5>2, <5>3, <5>4, <5>5 DEF Is
      <4>3. CASE ~Acquire(t) /\ ~ListForDetach(t)
        BY <3>1, <3>2, <3>3, <4>3 DEF StoreInv, Detaching, Is
      <4>. QED
        BY <4>1, <4>2, <4>3
    <3>6. \A u \in Tasks \ {t} : pc'[u] \in {"list", "detach"} =>
            /\ Is(u, {"detach"})'
            /\ pc'[u] = "detach" => status'[call'[u].run] # "absent" /\ answer'[u].kind = "listed"
      BY <3>1, <3>2, <3>3 DEF StoreInv, Detaching, Is
    <3>. QED
      BY <3>1, <3>4, <3>5, <3>6 DEF StoreInv, Detaching
  <2>3. ASSUME NEW t \in Tasks, NEW c \in Call, Begin(t, c) PROVE StoreInv'
    <3>1. /\ \A u \in Tasks \ {t} : pc'[u] = pc[u] /\ call'[u] = call[u]
          /\ pc'[t] \in {"lookup", "look", "find", "getLock"} /\ answer' = answer
      BY <2>3, BeginFrame
    <3>2. UNCHANGED storeVars
      BY <2>3 DEF Begin
    <3>. QED
      BY <3>1, <3>2 DEF storeVars, StoreInv, RunsOwned, Detaching, Telling, Is, Over
  <2>4. ASSUME NEW r \in Runs, Lapse(r) \/ Reap(r) PROVE StoreInv'
    <3>1. /\ RunsOwned'
          /\ \A q \in Runs : (status[q] # "absent" => status'[q] # "absent") /\ (Over(q) => Over(q)')
      BY <2>4, ReapSteps, OwnedKept
    <3>2. UNCHANGED <<pc, call, answer>>
      BY <2>4 DEF Lapse, Reap, taskVars
    <3>3. \A u \in Tasks : pc[u] # "idle" => call[u].run \in Runs
      BY CallParts DEF TypeInv, Shape
    <3>. QED
      BY <3>1, <3>2, <3>3 DEF StoreInv, Detaching, Telling, Is, Over
  <2>. QED
    BY <2>1, <2>2, <2>3, <2>4 DEF Next, Quiet
<1>. QED
  BY <1>1, <1>2, TypeInvariant, PTL DEF Spec

-----------------------------------------------------------------------------
(* The slots of the registry.                                              *)

Creates(t, i, r) == pc[t] = "create" /\ call[t].at = i /\ call[t].run = r

\* Of a run that is not over, an instance has at most one start under way between
\* try_insert and the store's answer, and that start has its entry.
CreatesOnce ==
  \A i \in Instances, r \in Runs : ~Over(r) =>
    \A t \in Tasks : Creates(t, i, r) =>
      registry[i][r] # None /\ \A u \in Tasks : Creates(u, i, r) => u = t

\* A run that runs has its entry where it was started, and no start there will take it.
OwnerHasEntry ==
  \A i \in Instances, r \in Runs : status[r] = "running" /\ owner[r] = i =>
    registry[i][r] # None /\ \A t \in Tasks : ~Creates(t, i, r)

SlotInv == CreatesOnce /\ OwnerHasEntry

\* What most steps leave: every entry is there or not as before, its counter not behind ...
KeepsEntry(j, q) ==
  /\ registry'[j][q] = None <=> registry[j][q] = None
  /\ registry[j][q] # None => registry'[j][q].seq >= registry[j][q].seq
\* ... and no start goes on to create.
KeepsCreates ==
  \A t \in Tasks : pc'[t] = "create" => pc[t] = "create" /\ call'[t] = call[t]
\* No run is opened.
KeepsRun(q) == owner'[q] = owner[q] /\ (status'[q] = status[q] \/ Over(q)')

LEMMA SlotsKept ==
  ASSUME SlotInv, \A j \in Instances, q \in Runs : KeepsEntry(j, q), KeepsCreates,
         \A q \in Runs : KeepsRun(q)
  PROVE  SlotInv'
BY DEF SlotInv, CreatesOnce, OwnerHasEntry, Creates, KeepsEntry, KeepsCreates, KeepsRun, Over

LEMMA AheadKept ==
  ASSUME TypeInv, SeqAhead, \A j \in Instances, q \in Runs : KeepsEntry(j, q),
         TypeInv', \A q \in Runs : KeepsRun(q) /\ (status'[q] = "running" => log'[q] = log[q])
  PROVE  SeqAhead'
<1>. SUFFICES ASSUME NEW j \in Instances, NEW q \in Runs,
                     status'[q] = "running", registry'[j][q] # None, owner'[q] = j, OwnLog(q)'
              PROVE  registry'[j][q].seq >= LastSeq(q)'
  BY DEF SeqAhead
<1>1. status[q] = "running" /\ registry[j][q] # None /\ owner[q] = j /\ log'[q] = log[q]
      /\ registry'[j][q].seq >= registry[j][q].seq /\ OwnLog(q)
  BY DEF KeepsEntry, KeepsRun, Over, OwnLog
<1>2. registry[j][q].seq >= LastSeq(q) /\ LastSeq(q)' = LastSeq(q)
  BY <1>1 DEF SeqAhead, LastSeq
<1>3. registry[j][q].seq \in Nat /\ registry'[j][q].seq \in Nat /\ LastSeq(q) \in Nat
  <2>1. registry[j][q] \in Entry /\ registry'[j][q] \in Entry
    BY <1>1 DEF TypeInv, TypeOK
  <2>2. LastSeq(q) \in Nat
    BY LogType DEF TypeInv
  <2>. QED
    BY <2>1, <2>2 DEF Entry
<1>. QED
  BY <1>1, <1>2, <1>3

\* An entry whose fields other than the counter change is kept.
LEMMA FieldsKeep ==
  ASSUME TypeInv, NEW i \in Instances, NEW r \in Runs, NEW e, e # None,
         registry[i][r] # None, e.seq >= registry[i][r].seq,
         registry' = [registry EXCEPT ![i][r] = e]
  PROVE  \A j \in Instances, q \in Runs : KeepsEntry(j, q)
<1>1. /\ registry'[i][r] = e
      /\ \A j \in Instances, q \in Runs : <<j, q>> # <<i, r>> => registry'[j][q] = registry[j][q]
  BY DEF TypeInv, TypeOK
<1>2. \A j \in Instances, q \in Runs : registry[j][q] # None => registry[j][q].seq \in Nat
  BY EntryParts DEF TypeInv
<1>. QED
  BY <1>1, <1>2 DEF KeepsEntry

LEMMA SameKeeps ==
  ASSUME TypeInv, registry' = registry
  PROVE  \A j \in Instances, q \in Runs : KeepsEntry(j, q)
<1>1. \A j \in Instances, q \in Runs : registry[j][q] # None => registry[j][q].seq \in Nat
  BY EntryParts DEF TypeInv
<1>. QED
  BY <1>1 DEF KeepsEntry

LEMMA EntriesKept ==
  ASSUME TypeInv, NEW t \in Tasks, Step(t), ~InsertRun(t), ~CreateRun(t), ~Write(t), ~Release(t)
  PROVE  \A j \in Instances, q \in Runs : KeepsEntry(j, q)
<1>. DEFINE i == call[t].at
            r == call[t].run
<1>1. ASSUME NEW e, registry[i][r] # None, i \in Instances, r \in Runs,
             registry' = [registry EXCEPT ![i][r] = e],
             registry[i][r] \in Entry => e \in Entry /\ e.seq = registry[i][r].seq
      PROVE  \A j \in Instances, q \in Runs : KeepsEntry(j, q)
  <2>1. e \in Entry /\ e.seq = registry[i][r].seq
    BY <1>1, EntryParts DEF TypeInv
  <2>2. registry[i][r].seq \in Nat
    BY <1>1, EntryParts DEF TypeInv
  <2>3. e # None /\ e.seq >= registry[i][r].seq
    BY <2>1, <2>2, NoneAssumption
  <2>4. /\ i \in Instances /\ r \in Runs /\ registry[i][r] # None
        /\ registry' = [registry EXCEPT ![i][r] = e]
    BY <1>1
  <2>. HIDE DEF i, r
  <2>. QED
    BY <2>3, <2>4, FieldsKeep
<1>2. pc[t] # "idle" => i \in Instances /\ r \in Runs
  BY CallParts DEF TypeInv, Shape
<1>3. CASE UNCHANGED registry
  BY <1>3, SameKeeps
<1>4. CASE Publish(t)
  <2>. DEFINE x == Head(answer[t].events).terminal
  <2>1. /\ pc[t] = "publish" /\ answer[t].events # <<>>
        /\ UNCHANGED registry \/ (Reg(t) # None /\ registry' = [registry EXCEPT ![i][r].published = x])
    BY <1>4 DEF Publish
  <2>2. x \in BOOLEAN
    <3>1. answer[t] \in Answers
      BY <2>1 DEF TypeInv, TypeOK, Shape
    <3>2. Head(answer[t].events) \in Event
      BY <2>1, <3>1 DEF Answers
    <3>. QED
      BY <3>2 DEF Event
  <2>. HIDE DEF x
  <2>3. CASE Reg(t) # None /\ registry' = [registry EXCEPT ![i][r].published = x]
    <3>. DEFINE e == [registry[i][r] EXCEPT !.published = x]
    <3>1. registry[i][r] \in Entry => e \in Entry /\ e.seq = registry[i][r].seq
      BY <2>2 DEF Entry
    <3>2. registry' = [registry EXCEPT ![i][r] = e]
      BY <2>3
    <3>. HIDE DEF e
    <3>. QED
      BY <1>1, <1>2, <2>1, <2>3, <3>1, <3>2 DEF Reg
  <2>. QED
    BY <1>3, <2>1, <2>3
<1>5. CASE Attach(t)
  <2>1. pc[t] = "attach" /\ (UNCHANGED registry
          \/ (Reg(t) # None /\ registry' = [registry EXCEPT ![i][r].senders = @ \cup {t}]))
    BY <1>5 DEF Attach
  <2>2. CASE Reg(t) # None /\ registry' = [registry EXCEPT ![i][r].senders = @ \cup {t}]
    <3>. DEFINE e == [registry[i][r] EXCEPT !.senders = @ \cup {t}]
    <3>1. registry[i][r] \in Entry => e \in Entry /\ e.seq = registry[i][r].seq
      BY DEF Entry
    <3>2. registry' = [registry EXCEPT ![i][r] = e]
      BY <2>2
    <3>. HIDE DEF e
    <3>. QED
      BY <1>1, <1>2, <2>1, <2>2, <3>1, <3>2 DEF Reg
  <2>. QED
    BY <1>3, <2>1, <2>2
<1>6. CASE ListPage(t)
  <2>1. pc[t] = "page" /\ (UNCHANGED registry
          \/ (Reg(t) # None /\ registry' = [registry EXCEPT ![sub[t].at][sub[t].run].senders = @ \ {t}]))
    BY <1>6 DEF ListPage
  <2>2. CASE Reg(t) # None /\ registry' = [registry EXCEPT ![sub[t].at][sub[t].run].senders = @ \ {t}]
    <3>. DEFINE e == [registry[i][r] EXCEPT !.senders = @ \ {t}]
    <3>0. sub[t].at = i /\ sub[t].run = r
      BY <2>1 DEF TypeInv, Shape
    <3>1. registry[i][r] \in Entry => e \in Entry /\ e.seq = registry[i][r].seq
      BY DEF Entry
    <3>2. registry' = [registry EXCEPT ![i][r] = e]
      BY <2>2, <3>0
    <3>. HIDE DEF e
    <3>. QED
      BY <1>1, <1>2, <2>1, <2>2, <3>1, <3>2 DEF Reg
  <2>. QED
    BY <1>3, <2>1, <2>2
<1>7. CASE RequestCancel(t)
  <2>1. pc[t] = "request" /\ (UNCHANGED registry
          \/ (Reg(t) # None /\ registry' = [registry EXCEPT ![i][r].cancelled = TRUE]))
    BY <1>7 DEF RequestCancel
  <2>2. CASE Reg(t) # None /\ registry' = [registry EXCEPT ![i][r].cancelled = TRUE]
    <3>. DEFINE e == [registry[i][r] EXCEPT !.cancelled = TRUE]
    <3>1. registry[i][r] \in Entry => e \in Entry /\ e.seq = registry[i][r].seq
      BY DEF Entry
    <3>2. registry' = [registry EXCEPT ![i][r] = e]
      BY <2>2
    <3>. HIDE DEF e
    <3>. QED
      BY <1>1, <1>2, <2>1, <2>2, <3>1, <3>2 DEF Reg
  <2>. QED
    BY <1>3, <2>1, <2>2
<1>8. CASE ~(Publish(t) \/ Attach(t) \/ ListPage(t) \/ RequestCancel(t))
  <2>1. UNCHANGED registry
    BY <1>8 DEF Step, LookupStart, GetLock, Acquire, ListForDetach, Detach, DropLock,
                Look, TailNext, FindCancelled, MarkCancelled
  <2>. QED
    BY <1>3, <2>1
<1>. QED
  BY <1>4, <1>5, <1>6, <1>7, <1>8

LEMMA InsertSlot ==
  ASSUME TypeInv, TypeInv', StoreInv, SlotInv, SeqAhead, NEW t \in Tasks, InsertRun(t)
  PROVE  SlotInv' /\ SeqAhead'
<1>. DEFINE i == call[t].at
            r == call[t].run
            e == [seq |-> 0, published |-> FALSE, cancelled |-> FALSE, senders |-> {}]
<1>1. pc[t] = "insert" /\ UNCHANGED <<status, lease, log, marked, owner>> /\ i \in Instances /\ r \in Runs
  BY CallParts DEF InsertRun, TypeInv, Shape, storeVars
<1>2. CASE Returns(t) /\ UNCHANGED registry
  <2>1. KeepsCreates
    <3>1. pc'[t] = "idle" /\ \A u \in Tasks \ {t} : pc'[u] = pc[u] /\ call'[u] = call[u]
      BY <1>2, ReturnsType DEF TypeInv
    <3>. QED
      BY <3>1 DEF KeepsCreates
  <2>2. \A q \in Runs : KeepsRun(q) /\ log'[q] = log[q]
    BY <1>1 DEF KeepsRun
  <2>. QED
    BY <1>2, <2>1, <2>2, SameKeeps, SlotsKept, AheadKept
<1>3. CASE /\ registry[i][r] = None /\ registry' = [registry EXCEPT ![i][r] = e]
           /\ Goto(t, "create") /\ UNCHANGED <<call, lockRef, answer, calls>>
  <2>1. e # None
    <3>1. e \in Entry
      BY DEF Entry
    <3>. QED
      BY <3>1, NoneAssumption
  <2>. HIDE DEF e
  <2>2. /\ registry'[i][r] = e
        /\ \A j \in Instances, q \in Runs : <<j, q>> # <<i, r>> => registry'[j][q] = registry[j][q]
    BY <1>1, <1>3 DEF TypeInv, TypeOK
  <2>3. \A u \in Tasks \ {t} : pc'[u] = pc[u]
    BY <1>3, GotoType DEF TypeInv, Places
  <2>4. \A u \in Tasks, j \in Instances, q \in Runs :
          Creates(u, j, q)' => Creates(u, j, q) \/ (u = t /\ j = i /\ q = r)
    BY <1>3, <2>3 DEF Creates
  <2>5. ~(status[r] = "running" /\ owner[r] = i)
    BY <1>1, <1>3 DEF SlotInv, OwnerHasEntry
  <2>6. ~Over(r) => \A u \in Tasks : ~Creates(u, i, r)
    BY <1>1, <1>3 DEF SlotInv, CreatesOnce
  <2>7. CreatesOnce'
    BY <1>1, <2>1, <2>2, <2>4, <2>6 DEF SlotInv, CreatesOnce, Over
  <2>8. OwnerHasEntry'
    BY <1>1, <2>1, <2>2, <2>4, <2>5 DEF SlotInv, OwnerHasEntry
  <2>9. SeqAhead'
    BY <1>1, <2>2, <2>5 DEF SeqAhead, LastSeq, OwnLog
  <2>. QED
    BY <2>7, <2>8, <2>9 DEF SlotInv
<1>4. \/ Returns(t) /\ UNCHANGED registry
      \/ /\ registry[i][r] = None /\ registry' = [registry EXCEPT ![i][r] = e]
         /\ Goto(t, "create") /\ UNCHANGED <<call, lockRef, answer, calls>>
  <2>1. CASE registry[i][r] # None \/ Cardinality(Slots(i)) >= Capacity
    BY <2>1, Zenon DEF InsertRun
  <2>2. CASE ~(registry[i][r] # None \/ Cardinality(Slots(i)) >= Capacity)
    BY <2>2, Zenon DEF InsertRun
  <2>. QED
    BY <2>1, <2>2
<1>. QED
  BY <1>2, <1>3, <1>4

LEMMA CreateSlot ==
  ASSUME TypeInv, TypeInv', StoreInv, SlotInv, SeqAhead, NEW t \in Tasks, CreateRun(t)
  PROVE  SlotInv' /\ SeqAhead'
<1>. DEFINE i == call[t].at
            r == call[t].run
<1>1. pc[t] = "create" /\ Returns(t) /\ log' = log /\ i \in Instances /\ r \in Runs
  BY CallParts DEF CreateRun, TypeInv, Shape
<1>2. pc'[t] = "idle" /\ \A u \in Tasks \ {t} : pc'[u] = pc[u] /\ call'[u] = call[u]
  BY <1>1, ReturnsType DEF TypeInv
<1>3. \A u \in Tasks, j \in Instances, q \in Runs : Creates(u, j, q)' => u # t /\ Creates(u, j, q)
  BY <1>2 DEF Creates
<1>4. Creates(t, i, r)
  BY <1>1 DEF Creates
<1>5. ~Over(r) => registry[i][r] # None /\ \A u \in Tasks : Creates(u, i, r) => u = t
  BY <1>1, <1>4 DEF SlotInv, CreatesOnce
<1>6. ~(status[r] = "running" /\ owner[r] = i)
  BY <1>1, <1>4 DEF SlotInv, OwnerHasEntry
<1>7. CASE registry' = [registry EXCEPT ![i][r] = None] /\ UNCHANGED <<status, lease, owner>>
  <2>1. /\ registry'[i][r] = None
        /\ \A j \in Instances, q \in Runs : <<j, q>> # <<i, r>> => registry'[j][q] = registry[j][q]
    BY <1>1, <1>7 DEF TypeInv, TypeOK
  <2>2. CreatesOnce'
    BY <1>3, <1>5, <1>7, <2>1 DEF SlotInv, CreatesOnce, Over
  <2>3. OwnerHasEntry'
    BY <1>3, <1>6, <1>7, <2>1 DEF SlotInv, OwnerHasEntry
  <2>4. SeqAhead'
    BY <1>1, <1>7, <2>1 DEF SeqAhead, LastSeq, OwnLog
  <2>. QED
    BY <2>2, <2>3, <2>4 DEF SlotInv
<1>8. CASE /\ ~Blocked(r) /\ status' = [status EXCEPT ![r] = "running"]
           /\ owner' = [owner EXCEPT ![r] = i] /\ registry' = registry
  <2>1. /\ status'[r] = "running" /\ owner'[r] = i
        /\ \A q \in Runs \ {r} : status'[q] = status[q] /\ owner'[q] = owner[q]
    BY <1>1, <1>8 DEF TypeInv, TypeOK
  <2>2. status[r] = "absent"
    BY <1>1, <1>8 DEF Blocked
  <2>3. log[r] = <<>> /\ ~Over(r)
    BY <1>1, <2>2 DEF StoreInv, RunsOwned, Over
  <2>4. CreatesOnce'
    BY <1>3, <1>8, <2>1, <2>3 DEF SlotInv, CreatesOnce, Over
  <2>5. OwnerHasEntry'
    BY <1>3, <1>5, <1>8, <2>1, <2>3 DEF SlotInv, OwnerHasEntry
  <2>6. SeqAhead'
    <3>1. registry[i][r] # None => registry[i][r].seq >= 0
      BY <1>1, EntryParts DEF TypeInv
    <3>. QED
      BY <1>1, <1>8, <2>1, <2>3, <3>1 DEF SeqAhead, LastSeq, OwnLog
  <2>. QED
    BY <2>4, <2>5, <2>6 DEF SlotInv
<1>9. \/ registry' = [registry EXCEPT ![i][r] = None] /\ UNCHANGED <<status, lease, owner>>
      \/ /\ ~Blocked(r) /\ status' = [status EXCEPT ![r] = "running"]
         /\ owner' = [owner EXCEPT ![r] = i] /\ registry' = registry
  <2>1. CASE Blocked(r)
    BY <2>1, Zenon DEF CreateRun
  <2>2. CASE ~Blocked(r)
    BY <2>2, Zenon DEF CreateRun
  <2>. QED
    BY <2>1, <2>2
<1>. QED
  BY <1>7, <1>8, <1>9

LEMMA ReleaseSlot ==
  ASSUME TypeInv, TypeInv', StoreInv, SlotInv, SeqAhead, NEW t \in Tasks, Release(t)
  PROVE  SlotInv' /\ SeqAhead'
<1>. DEFINE i == call[t].at
            r == call[t].run
<1>1. /\ pc[t] = "publish" /\ UNCHANGED <<storeVars, lockMap, sub>>
      /\ \/ UNCHANGED registry
         \/ /\ answer[t].kind \in {"finished", "skipped"}
            /\ registry' = [registry EXCEPT ![i][r] = None]
      /\ i \in Instances /\ r \in Runs
  BY ReleaseOutcomes, CallParts DEF TypeInv, Shape
<1>2. UNCHANGED <<status, log, owner>>
  BY <1>1 DEF storeVars
<1>3. KeepsCreates
  <2>1. /\ \A u \in Tasks \ {t} : pc'[u] = pc[u] /\ call'[u] = call[u]
        /\ pc'[t] = "create" => InsertRun(t) \/ pc[t] = "create"
    BY StepFrame DEF Step
  <2>2. ~InsertRun(t)
    BY <1>1 DEF InsertRun
  <2>. QED
    BY <1>1, <2>1, <2>2 DEF KeepsCreates
<1>4. \A q \in Runs : KeepsRun(q)
  BY <1>2 DEF KeepsRun
<1>5. CASE UNCHANGED registry
  BY <1>2, <1>3, <1>4, <1>5, SameKeeps, SlotsKept, AheadKept
<1>6. CASE answer[t].kind \in {"finished", "skipped"} /\ registry' = [registry EXCEPT ![i][r] = None]
  <2>1. Over(r)
    BY <1>1, <1>6 DEF StoreInv, Telling
  <2>2. \A j \in Instances, q \in Runs : ~Over(q) => registry'[j][q] = registry[j][q]
    BY <1>1, <1>6, <2>1 DEF TypeInv, TypeOK
  <2>3. SlotInv'
    BY <1>2, <1>3, <2>2 DEF SlotInv, CreatesOnce, OwnerHasEntry, Creates, KeepsCreates, Over
  <2>4. SeqAhead'
    BY <1>2, <2>2 DEF SeqAhead, LastSeq, Over, OwnLog
  <2>. QED
    BY <2>3, <2>4
<1>. QED
  BY <1>1, <1>5, <1>6

\* An operation's events at the end of a log.
LEMMA LogGrows ==
  ASSUME NEW L \in Seq(Event), NEW t, NEW n \in Nat, NEW b, Batch(t, n + 1, b)
  PROVE  /\ L \o b \in Seq(Event) /\ L \o b # <<>> /\ Len(L \o b) = Len(L) + Len(b)
         /\ Last(L \o b).seq = n + Len(b)
         /\ Last(L \o b).terminal <=> Finishes(t)
         /\ Last(L \o b).by = call[t].at
<1>0. /\ b \in Seq(Event) /\ Len(b) \in {1, 2}
      /\ b[Len(b)].seq = n + 1 + Len(b) - 1
      /\ b[Len(b)].terminal <=> Finishes(t)
      /\ b[Len(b)].by = call[t].at
  <2>1. b \in Seq(Event) /\ Len(b) \in {1, 2}
    BY DEF Batch
  <2>2. PICK m \in {1, 2} : Len(b) = m
    BY <2>1
  <2>3. m \in 1..m
    OBVIOUS
  <2>. QED
    BY <2>1, <2>2, <2>3 DEF Batch
<1>1. Len(b) \in Nat /\ Len(b) >= 1 /\ Len(L) \in Nat
  <2>1. PICK m \in {1, 2} : Len(b) = m
    BY <1>0
  <2>2. m \in Nat /\ m >= 1
    OBVIOUS
  <2>. QED
    BY <2>1, <2>2
<1>2. L \o b \in Seq(Event) /\ Len(L \o b) = Len(L) + Len(b)
  BY <1>0
<1>3. (L \o b)[Len(L) + Len(b)] = b[Len(b)]
  BY <1>0, <1>1
<1>4. Last(L \o b) = b[Len(b)]
  BY <1>2, <1>3 DEF Last
<1>5. L \o b # <<>>
  BY <1>1, <1>2
<1>6. n + 1 + Len(b) - 1 = n + Len(b)
  BY <1>1
<1>. QED
  BY <1>0, <1>2, <1>4, <1>5, <1>6

LEMMA WriteSlot ==
  ASSUME TypeInv, TypeInv', StoreInv, SlotInv, SeqAhead, NEW t \in Tasks, Write(t)
  PROVE  SlotInv' /\ SeqAhead'
<1>. DEFINE i == call[t].at
            r == call[t].run
<1>1. /\ pc[t] = "write" /\ owner' = owner /\ call' = call
      /\ WritesNothing(t) \/ WritesInVain(t) \/ WritesOffer(t)
      /\ call[t] \in Call /\ i \in Instances /\ r \in Runs /\ Is(t, Writers)
  BY WriteOutcomes, CallParts DEF TypeInv, Shape, Writing
<1>2. KeepsCreates
  <2>1. /\ \A u \in Tasks \ {t} : pc'[u] = pc[u] /\ call'[u] = call[u]
        /\ pc'[t] = "create" => InsertRun(t) \/ pc[t] = "create"
    BY StepFrame DEF Step
  <2>2. ~InsertRun(t)
    BY <1>1 DEF InsertRun
  <2>. QED
    BY <1>1, <2>1, <2>2 DEF KeepsCreates
<1>3. CASE WritesNothing(t)
  <2>1. UNCHANGED <<registry, log, status, lease>>
    BY <1>3 DEF WritesNothing
  <2>2. \A q \in Runs : KeepsRun(q) /\ log'[q] = log[q]
    BY <1>1, <2>1 DEF KeepsRun
  <2>. QED
    BY <1>2, <2>1, <2>2, SameKeeps, SlotsKept, AheadKept
<1>4. ASSUME Reg(t) # None
      PROVE  /\ Reg(t) \in Entry /\ Reg(t).seq \in Nat
             /\ Batch(t, Reg(t).seq + 1, Offer(t, Reg(t).seq + 1))
             /\ Len(Offer(t, Reg(t).seq + 1)) \in Nat
  <2>1. Reg(t) \in Entry /\ Reg(t).seq \in Nat
    BY <1>1, <1>4, EntryParts DEF Reg, TypeInv
  <2>2. Batch(t, Reg(t).seq + 1, Offer(t, Reg(t).seq + 1))
    BY <1>1, <2>1, OfferBatch
  <2>. QED
    BY <2>1, <2>2 DEF Batch
<1>5. ASSUME NEW n \in Nat, Counts(t, n), n >= Reg(t).seq
      PROVE  /\ \A j \in Instances, q \in Runs : KeepsEntry(j, q)
             /\ registry'[i][r].seq = n
  <2>. DEFINE e == [registry[i][r] EXCEPT !.seq = n]
  <2>1. registry[i][r] # None /\ registry' = [registry EXCEPT ![i][r] = e]
    BY <1>5 DEF Counts, Reg
  <2>2. registry[i][r] \in Entry /\ registry[i][r].seq \in Nat
    BY <1>1, <2>1, EntryParts DEF TypeInv
  <2>3. e \in Entry /\ e.seq = n
    BY <2>2 DEF Entry
  <2>4. e # None /\ e.seq >= registry[i][r].seq
    BY <1>5, <2>2, <2>3, NoneAssumption DEF Reg
  <2>. HIDE DEF e
  <2>5. \A j \in Instances, q \in Runs : KeepsEntry(j, q)
    BY <1>1, <2>1, <2>4, FieldsKeep
  <2>6. registry'[i][r] = e
    BY <1>1, <2>1 DEF TypeInv, TypeOK
  <2>. QED
    BY <2>3, <2>5, <2>6
<1>6. CASE WritesInVain(t)
  <2>1. \E n \in Nat : Counts(t, n) /\ n >= Reg(t).seq
    <3>1. Counts(t, Reg(t).seq) \/ Counts(t, Reg(t).seq + Len(Offer(t, Reg(t).seq + 1)))
      BY <1>6 DEF WritesInVain
    <3>2. Reg(t) # None
      BY <3>1 DEF Counts
    <3>. DEFINE m == Len(Offer(t, Reg(t).seq + 1))
    <3>3. m \in Nat /\ Reg(t).seq \in Nat
      BY <1>4, <3>2
    <3>. HIDE DEF m
    <3>4. Reg(t).seq + m \in Nat /\ Reg(t).seq + m >= Reg(t).seq /\ Reg(t).seq >= Reg(t).seq
      BY <3>3
    <3>. QED
      BY <3>1, <3>3, <3>4 DEF m
  <2>2. \A q \in Runs : KeepsRun(q) /\ log'[q] = log[q]
    BY <1>1, <1>6 DEF KeepsRun, WritesInVain, TurnsAway
  <2>. QED
    BY <1>2, <1>5, <2>1, <2>2, SlotsKept, AheadKept
<1>7. CASE WritesOffer(t)
  <2>. DEFINE n == Reg(t).seq
              b == Offer(t, n + 1)
  <2>1. PICK a : TakesIn(t, b, a)
    BY <1>7 DEF WritesOffer
  <2>2. Counts(t, n + Len(b)) /\ status[r] # "absent" /\ Reg(t) # None
    BY <1>7 DEF WritesOffer, Counts
  <2>3. /\ ~Over(r) /\ Admitted(t) /\ log' = [log EXCEPT ![r] = @ \o b]
        /\ status' = [status EXCEPT ![r] = IF Finishes(t) THEN "over" ELSE @]
    BY <2>1, Zenon DEF TakesIn
  <2>4. status[r] = "running"
    BY <1>1, <2>2, <2>3 DEF Over, TypeInv, TypeOK
  <2>6. n \in Nat /\ Batch(t, n + 1, b) /\ Len(b) \in Nat
    BY <1>4, <2>2
  <2>. HIDE DEF b, n
  <2>7. n + Len(b) \in Nat /\ n + Len(b) >= n
    BY <2>6
  <2>8. (\A j \in Instances, q \in Runs : KeepsEntry(j, q)) /\ registry'[i][r].seq = n + Len(b)
    BY <1>5, <2>2, <2>7 DEF n
  <2>9. \A q \in Runs : KeepsRun(q) /\ (q # r => log'[q] = log[q] /\ status'[q] = status[q])
    BY <1>1, <2>3 DEF KeepsRun, Over, TypeInv, TypeOK
  <2>10. /\ LastSeq(r)' = n + Len(b)
         /\ OwnLog(r)' /\ ~Finishes(t) => i = owner'[r]
    <3>1. log[r] \in Seq(Event) /\ log'[r] = log[r] \o b
      BY SMTT(30), <1>1, <2>3, LogType DEF TypeInv, TypeOK
    <3>2. log[r] \o b # <<>> /\ Last(log[r] \o b).seq = n + Len(b)
          /\ (Last(log[r] \o b).terminal <=> Finishes(t)) /\ Last(log[r] \o b).by = call[t].at
      <4>1. PICK L, k, c : L = log[r] /\ k = n /\ c = b
        OBVIOUS
      <4>2. L \in Seq(Event) /\ k \in Nat /\ Batch(t, k + 1, c)
        BY <2>6, <3>1, <4>1
      <4>3. L \o c # <<>> /\ Last(L \o c).seq = k + Len(c)
            /\ (Last(L \o c).terminal <=> Finishes(t)) /\ Last(L \o c).by = call[t].at
        BY <4>2, LogGrows
      <4>. QED
        BY <4>1, <4>3
    <3>. DEFINE M == log'[r]
    <3>3. M = log[r] \o b /\ M \in Seq(Event) /\ M # <<>> /\ Last(M).seq = n + Len(b)
          /\ (Last(M).terminal <=> Finishes(t)) /\ Last(M).by = i
      BY <1>1, <3>1, <3>2 DEF TypeInv, TypeOK
    <3>4. LastSeq(r)' = Last(M).seq /\ (OwnLog(r)' <=> \A k \in DOMAIN M : ~M[k].terminal => M[k].by = owner'[r])
      BY <1>1, <3>3 DEF LastSeq, OwnLog
    <3>. HIDE DEF M, b, i
    <3>5. Len(M) \in DOMAIN M /\ Last(M) = M[Len(M)]
      BY <3>3 DEF Last
    <3>. QED
      BY <3>3, <3>4, <3>5
  <2>11. SeqAhead'
    <3>. SUFFICES ASSUME NEW j \in Instances, NEW q \in Runs,
                         status'[q] = "running", registry'[j][q] # None, owner'[q] = j,
                         OwnLog(q)'
                  PROVE  registry'[j][q].seq >= LastSeq(q)'
      BY DEF SeqAhead
    <3>1. CASE q = r
      <4>1. ~Finishes(t)
        BY <1>1, <2>3, <3>1 DEF TypeInv, TypeOK
      <4>2. i = j
        BY <1>1, <2>10, <3>1, <4>1
      <4>. QED
        BY <1>1, <2>7, <2>8, <2>10, <3>1, <4>2
    <3>2. CASE q # r
      <4>1. status[q] = "running" /\ registry[j][q] # None /\ owner[q] = j /\ LastSeq(q)' = LastSeq(q)
            /\ registry'[j][q].seq >= registry[j][q].seq /\ OwnLog(q)
        BY <1>1, <2>8, <2>9, <3>2 DEF KeepsEntry, LastSeq, OwnLog
      <4>2. registry[j][q].seq >= LastSeq(q)
        BY <4>1 DEF SeqAhead
      <4>3. registry[j][q].seq \in Nat /\ registry'[j][q].seq \in Nat /\ LastSeq(q) \in Nat
        <5>1. registry[j][q] \in Entry /\ registry'[j][q] \in Entry
          BY <4>1 DEF TypeInv, TypeOK
        <5>2. LastSeq(q) \in Nat
          BY LogType DEF TypeInv
        <5>. QED
          BY <5>1, <5>2 DEF Entry
      <4>. QED
        BY <4>1, <4>2, <4>3
    <3>. QED
      BY <3>1, <3>2
  <2>. QED
    BY <1>2, <2>8, <2>9, <2>11, SlotsKept
<1>. QED
  BY <1>1, <1>3, <1>6, <1>7

\* finish_detached_with leaves the log alone or ends the run.
LEMMA DetachEnds ==
  ASSUME TypeInv, StoreInv, NEW t \in Tasks, Detach(t)
  PROVE  owner' = owner /\ \A q \in Runs : Over(q)' \/ (status'[q] = status[q] /\ log'[q] = log[q])
<1>. DEFINE r == call[t].run
            b == answer[t].events
            a == StoreAnswer(t, b)
<1>1. owner' = owner /\ pc[t] = "detach" /\ Stores(t, b, a)
  BY DEF Detach
<1>2. r \in Runs /\ Finishes(t)
  BY <1>1, CallParts DEF StoreInv, Detaching, TypeInv, Shape, Finishes, Is
<1>3. TurnsAway(t, a) \/ TakesIn(t, b, a)
  BY <1>1, StoreOutcomes
<1>. HIDE DEF a
<1>4. CASE TurnsAway(t, a)
  BY <1>1, <1>4 DEF TurnsAway
<1>5. CASE TakesIn(t, b, a)
  <2>1. /\ log' = [log EXCEPT ![r] = @ \o b]
        /\ status' = [status EXCEPT ![r] = IF Finishes(t) THEN "over" ELSE @]
    BY <1>5, Zenon DEF TakesIn
  <2>. QED
    BY <1>1, <1>2, <2>1 DEF Over, TypeInv, TypeOK
<1>. QED
  BY <1>3, <1>4, <1>5

LEMMA SlotInvariant == Spec => [](SlotInv /\ SeqAhead)
<1>1. Init => SlotInv /\ SeqAhead
  BY DEF Init, SlotInv, CreatesOnce, OwnerHasEntry, Creates, SeqAhead
<1>2. TypeInv /\ TypeInv' /\ StoreInv /\ SlotInv /\ SeqAhead /\ [Next]_vars => SlotInv' /\ SeqAhead'
  <2>. SUFFICES ASSUME TypeInv, TypeInv', StoreInv, SlotInv, SeqAhead, [Next]_vars
                PROVE  SlotInv' /\ SeqAhead'
    OBVIOUS
  <2>1. CASE UNCHANGED vars
    BY <2>1 DEF vars, storeVars, taskVars, SlotInv, CreatesOnce, OwnerHasEntry, Creates, SeqAhead, Over, LastSeq, OwnLog
  <2>2. ASSUME NEW t \in Tasks, Step(t) PROVE SlotInv' /\ SeqAhead'
    <3>1. CASE InsertRun(t) \/ CreateRun(t) \/ Write(t) \/ Release(t)
      BY <3>1, InsertSlot, CreateSlot, WriteSlot, ReleaseSlot
    <3>2. CASE ~(InsertRun(t) \/ CreateRun(t) \/ Write(t) \/ Release(t))
      <4>1. \A j \in Instances, q \in Runs : KeepsEntry(j, q)
        BY <2>2, <3>2, EntriesKept
      <4>2. KeepsCreates
        <5>1. /\ \A u \in Tasks \ {t} : pc'[u] = pc[u] /\ call'[u] = call[u]
              /\ pc'[t] = "idle" \/ call'[t] = call[t]
              /\ pc'[t] = "create" => InsertRun(t) \/ pc[t] = "create"
          BY <2>2, StepFrame
        <5>. QED
          BY <3>2, <5>1 DEF KeepsCreates
      <4>3. owner' = owner /\ \A q \in Runs : Over(q)' \/ (status'[q] = status[q] /\ log'[q] = log[q])
        <5>1. CASE Detach(t)
          BY <5>1, DetachEnds
        <5>2. CASE ~Detach(t)
          BY <2>2, <3>2, <5>2 DEF Step, LookupStart, GetLock, Acquire, ListForDetach, Publish, DropLock,
                Look, Attach, ListPage, TailNext, FindCancelled, RequestCancel, MarkCancelled, storeVars
        <5>. QED
          BY <5>1, <5>2
      <4>4. \A q \in Runs : KeepsRun(q) /\ (status'[q] = "running" => log'[q] = log[q])
        BY <4>3 DEF KeepsRun, Over
      <4>. QED
        BY <4>1, <4>2, <4>4, SlotsKept, AheadKept
    <3>. QED
      BY <3>1, <3>2
  <2>3. ASSUME NEW t \in Tasks, NEW c \in Call, Begin(t, c) PROVE SlotInv' /\ SeqAhead'
    <3>1. /\ \A u \in Tasks \ {t} : pc'[u] = pc[u] /\ call'[u] = call[u]
          /\ pc'[t] \in {"lookup", "look", "find", "getLock"}
      BY <2>3, BeginFrame
    <3>2. KeepsCreates
      BY <3>1 DEF KeepsCreates
    <3>3. UNCHANGED storeVars /\ registry' = registry
      BY <2>3 DEF Begin
    <3>4. \A q \in Runs : KeepsRun(q) /\ log'[q] = log[q]
      BY <3>3 DEF KeepsRun, storeVars
    <3>. QED
      BY <3>2, <3>3, <3>4, SameKeeps, SlotsKept, AheadKept
  <2>4. ASSUME NEW r \in Runs, Lapse(r) \/ Reap(r) PROVE SlotInv' /\ SeqAhead'
    <3>1. UNCHANGED <<pc, call>> /\ registry' = registry
      BY <2>4 DEF Lapse, Reap, taskVars
    <3>2. KeepsCreates
      BY <3>1 DEF KeepsCreates
    <3>3. \A q \in Runs : KeepsRun(q) /\ (status'[q] = "running" => log'[q] = log[q])
      BY <2>4, ReapSteps DEF KeepsRun, Still, Takes, Over
    <3>. QED
      BY <3>1, <3>2, <3>3, SameKeeps, SlotsKept, AheadKept
  <2>. QED
    BY <2>1, <2>2, <2>3, <2>4 DEF Next, Quiet
<1>. QED
  BY <1>1, <1>2, TypeInvariant, StoreInvariant, PTL DEF Spec

\* The counter of a running run's entry is never behind its log where it was started,
\* whatever fails, is refused or wound back, as long as the log holds what its owner wrote.
THEOREM CounterAhead == Spec => []SeqAhead
BY SlotInvariant, PTL

-----------------------------------------------------------------------------
(* Slices of a log.                                                        *)

\* q is what L has after place a up to place c.
Slice(q, L, a, c) ==
  q \in Seq(Event) /\ Len(q) = c - a /\ \A k \in 1..Len(q) : q[k] = L[a + k]

LEMMA SliceEmpty ==
  ASSUME NEW L, NEW a \in Nat
  PROVE  Slice(<<>>, L, a, a)
<1>1. <<>> \in Seq(Event) /\ Len(<<>>) = 0
  OBVIOUS
<1>. QED
  BY <1>1 DEF Slice

LEMMA SliceNone ==
  ASSUME NEW L, NEW q, NEW a \in Nat, NEW c \in Nat, Slice(q, L, a, c)
  PROVE  q = <<>> <=> a = c
BY DEF Slice

LEMMA SliceAppend ==
  ASSUME NEW L, NEW q, NEW a \in Nat, NEW c \in Nat, a <= c, Slice(q, L, a, c),
         NEW e \in Event, e = L[c + 1]
  PROVE  Slice(Append(q, e), L, a, c + 1)
<1>1. q \in Seq(Event) /\ Len(q) = c - a /\ \A k \in 1..Len(q) : q[k] = L[a + k]
  BY DEF Slice
<1>2. Append(q, e) \in Seq(Event) /\ Len(Append(q, e)) = c + 1 - a
  BY <1>1
<1>3. ASSUME NEW k \in 1..(c + 1 - a) PROVE Append(q, e)[k] = L[a + k]
  <2>1. CASE k = c + 1 - a
    BY <1>1, <2>1
  <2>2. CASE k # c + 1 - a
    <3>1. k \in 1..Len(q)
      BY <1>1, <2>2
    <3>. QED
      BY <1>1, <3>1
  <2>. QED
    BY <2>1, <2>2
<1>. QED
  BY <1>2, <1>3 DEF Slice

LEMMA SliceTail ==
  ASSUME NEW L, NEW q, NEW a \in Nat, NEW c \in Nat, a < c, Slice(q, L, a, c)
  PROVE  Head(q) = L[a + 1] /\ Head(q) \in Event /\ q # <<>> /\ Slice(Tail(q), L, a + 1, c)
<1>1. q \in Seq(Event) /\ Len(q) = c - a /\ Len(q) > 0 /\ \A k \in 1..Len(q) : q[k] = L[a + k]
  BY DEF Slice
<1>2. q # <<>> /\ Head(q) = q[1] /\ 1 \in 1..Len(q)
  BY <1>1
<1>3. Tail(q) \in Seq(Event) /\ Len(Tail(q)) = c - (a + 1)
  BY <1>1, <1>2
<1>4. ASSUME NEW k \in 1..Len(Tail(q)) PROVE Tail(q)[k] = L[a + 1 + k]
  <2>1. Tail(q)[k] = q[k + 1] /\ k + 1 \in 1..Len(q)
    BY <1>1, <1>2, <1>3
  <2>2. q[k + 1] = L[a + (k + 1)] /\ a + (k + 1) = a + 1 + k
    BY <1>1, <2>1
  <2>. QED
    BY <2>1, <2>2
<1>5. Head(q) \in Event
  BY <1>1, <1>2
<1>. QED
  BY <1>1, <1>2, <1>3, <1>4, <1>5 DEF Slice

LEMMA SliceJoin ==
  ASSUME NEW L, NEW q, NEW p, NEW a \in Nat, NEW c \in Nat, NEW d \in Nat, a <= c, c <= d,
         Slice(q, L, a, c), Slice(p, L, c, d)
  PROVE  Slice(q \o p, L, a, d)
<1>1. q \in Seq(Event) /\ Len(q) = c - a /\ \A k \in 1..Len(q) : q[k] = L[a + k]
  BY DEF Slice
<1>2. p \in Seq(Event) /\ Len(p) = d - c /\ \A k \in 1..Len(p) : p[k] = L[c + k]
  BY DEF Slice
<1>3. q \o p \in Seq(Event) /\ Len(q \o p) = d - a
      /\ \A k \in 1..d - a : (q \o p)[k] = IF k <= Len(q) THEN q[k] ELSE p[k - Len(q)]
  <2>1. q \o p \in Seq(Event) /\ Len(q \o p) = Len(q) + Len(p)
        /\ \A k \in 1..Len(q) + Len(p) : (q \o p)[k] = IF k <= Len(q) THEN q[k] ELSE p[k - Len(q)]
    BY <1>1, <1>2, ConcatProperties
  <2>2. Len(q) + Len(p) = d - a
    BY <1>1, <1>2
  <2>. QED
    BY <2>1, <2>2
<1>4. ASSUME NEW k \in 1..(d - a) PROVE (q \o p)[k] = L[a + k]
  <2>1. CASE k <= Len(q)
    BY <1>1, <1>3, <2>1
  <2>2. CASE k > Len(q)
    <3>1. k - Len(q) \in 1..Len(p) /\ c + (k - Len(q)) = a + k
      BY <1>1, <1>2, <2>2
    <3>2. (q \o p)[k] = p[k - Len(q)]
      BY <1>1, <1>3, <2>2
    <3>3. p[k - Len(q)] = L[c + (k - Len(q))]
      BY <1>2, <3>1
    <3>. QED
      BY <3>1, <3>2, <3>3
  <2>3. k <= Len(q) \/ k > Len(q)
    BY <1>1
  <2>. QED
    BY <2>1, <2>2, <2>3
<1>. QED
  BY <1>3, <1>4 DEF Slice

\* A slice stays one when the log grows.
LEMMA SliceGrows ==
  ASSUME NEW L \in Seq(Event), NEW b \in Seq(Event), NEW q, NEW a \in Nat, NEW c \in Nat,
         c <= Len(L), Slice(q, L, a, c)
  PROVE  Slice(q, L \o b, a, c)
<1>1. q \in Seq(Event) /\ Len(q) = c - a /\ \A k \in 1..Len(q) : q[k] = L[a + k]
  BY DEF Slice
<1>2. \A k \in 1..Len(L) : (L \o b)[k] = L[k]
  OBVIOUS
<1>3. \A k \in 1..Len(q) : a + k \in 1..Len(L)
  BY <1>1
<1>. QED
  BY <1>1, <1>2, <1>3 DEF Slice

-----------------------------------------------------------------------------
(* Places and seqs.                                                        *)

Ordered(L) ==
  \A i, j \in 1..Len(L) : 0 < L[i].seq /\ (i < j => L[i].seq < L[j].seq)

\* Past and LastSeq, of any log.
UpTo(L, n) == Cardinality({i \in DOMAIN L : L[i].seq <= n})
LastIn(L)  == IF L = <<>> THEN 0 ELSE Last(L).seq

LEMMA SeqsType ==
  ASSUME NEW L \in Seq(Event)
  PROVE  Len(L) \in Nat /\ DOMAIN L = 1..Len(L) /\ \A k \in 1..Len(L) : L[k] \in Event /\ L[k].seq \in Nat
<1>1. Len(L) \in Nat /\ DOMAIN L = 1..Len(L) /\ \A k \in 1..Len(L) : L[k] \in Event
  OBVIOUS
<1>2. \A e \in Event : e.seq \in Nat
  BY DEF Event
<1>. QED
  BY <1>1, <1>2

LEMMA UpToCuts ==
  ASSUME NEW L \in Seq(Event), Ordered(L), NEW n \in Nat
  PROVE  /\ UpTo(L, n) \in 0..Len(L)
         /\ \A k \in 1..Len(L) : k <= UpTo(L, n) <=> L[k].seq <= n
<1>. DEFINE S == {i \in DOMAIN L : L[i].seq <= n}
<1>1. Len(L) \in Nat /\ DOMAIN L = 1..Len(L) /\ \A k \in 1..Len(L) : L[k].seq \in Nat
  BY SeqsType
<1>2. \A k : k \in S <=> k \in 1..Len(L) /\ L[k].seq <= n
  BY <1>1
<1>. HIDE DEF S
<1>3. S \in SUBSET (1..Len(L))
  BY <1>2
<1>4. IsFiniteSet(S) /\ Cardinality(S) \in 0..Len(L)
  <2>1. IsFiniteSet(1..Len(L)) /\ Cardinality(1..Len(L)) = Len(L)
    <3>. DEFINE m == Len(L)
    <3>1. m \in Nat
      BY <1>1
    <3>. HIDE DEF m
    <3>2. IsFiniteSet(1..m) /\ Cardinality(1..m) = m
      BY <3>1, FS_Interval
    <3>. QED
      BY <3>2 DEF m
  <2>2. IsFiniteSet(S) /\ Cardinality(S) <= Len(L)
    BY <1>3, <2>1, FS_Subset
  <2>. QED
    BY <1>1, <2>2, FS_CardinalityType
<1>5. ASSUME NEW k \in 1..Len(L) PROVE k <= Cardinality(S) <=> k \in S
  <2>1. CASE k \in S
    <3>1. \A i \in 1..k : L[i].seq <= L[k].seq
      BY <1>1 DEF Ordered
    <3>2. 1..k \in SUBSET S
      BY <1>1, <1>2, <2>1, <3>1
    <3>3. Cardinality(1..k) = k
      BY FS_Interval
    <3>4. Cardinality(1..k) <= Cardinality(S)
      BY <1>4, <3>2, FS_Subset
    <3>. QED
      BY <2>1, <3>3, <3>4
  <2>2. CASE k \notin S
    <3>1. \A i \in k..Len(L) : L[k].seq <= L[i].seq
      BY <1>1 DEF Ordered
    <3>2. S \in SUBSET (1..k - 1)
      BY <1>1, <1>2, <2>2, <3>1
    <3>3. IsFiniteSet(1..k - 1) /\ Cardinality(1..k - 1) = k - 1
      BY FS_Interval
    <3>4. Cardinality(S) <= k - 1
      BY ZenonT(60), <3>2, <3>3, FS_Subset
    <3>. QED
      BY <1>4, <2>2, <3>4
  <2>. QED
    BY <2>1, <2>2
<1>6. UpTo(L, n) = Cardinality(S)
  BY DEF UpTo, S
<1>. QED
  BY <1>2, <1>4, <1>5, <1>6

LEMMA UpToIs ==
  ASSUME NEW L \in Seq(Event), Ordered(L), NEW n \in Nat, NEW m \in 0..Len(L),
         \A k \in 1..Len(L) : k <= m <=> L[k].seq <= n
  PROVE  UpTo(L, n) = m
<1>1. /\ UpTo(L, n) \in 0..Len(L)
      /\ \A k \in 1..Len(L) : k <= UpTo(L, n) <=> L[k].seq <= n
  BY UpToCuts
<1>2. \A k \in 1..Len(L) : k <= m <=> k <= UpTo(L, n)
  BY <1>1
<1>3. Len(L) \in Nat
  OBVIOUS
<1>. DEFINE u == UpTo(L, n)
<1>. HIDE DEF u
<1>4. u \in 0..Len(L) /\ \A k \in 1..Len(L) : k <= m <=> k <= u
  BY <1>1, <1>2 DEF u
<1>5. u = m
  <2>1. CASE m < u
    <3>1. m + 1 \in 1..Len(L) /\ m + 1 <= u /\ ~(m + 1 <= m)
      BY <1>3, <1>4, <2>1
    <3>. QED
      BY <1>4, <3>1
  <2>2. CASE u < m
    <3>1. u + 1 \in 1..Len(L) /\ u + 1 <= m /\ ~(u + 1 <= u)
      BY <1>3, <1>4, <2>2
    <3>. QED
      BY <1>4, <3>1
  <2>. QED
    BY <1>3, <1>4, <2>1, <2>2
<1>. QED
  BY <1>5 DEF u

LEMMA UpToAt ==
  ASSUME NEW L \in Seq(Event), Ordered(L), NEW m \in 1..Len(L)
  PROVE  UpTo(L, L[m].seq) = m
<1>1. Len(L) \in Nat /\ \A k \in 1..Len(L) : L[k].seq \in Nat
  BY SeqsType
<1>2. ASSUME NEW k \in 1..Len(L) PROVE k <= m <=> L[k].seq <= L[m].seq
  <2>1. k = m \/ k < m \/ m < k
    BY <1>1
  <2>. QED
    BY <1>1, <2>1 DEF Ordered
<1>3. m \in 0..Len(L) /\ L[m].seq \in Nat
  BY <1>1
<1>. QED
  BY <1>2, <1>3, UpToIs

LEMMA UpToMonotone ==
  ASSUME NEW L \in Seq(Event), Ordered(L), NEW n \in Nat, NEW n2 \in Nat, n <= n2
  PROVE  UpTo(L, n) <= UpTo(L, n2)
<1>. DEFINE u == UpTo(L, n)
            v == UpTo(L, n2)
<1>1. /\ u \in 0..Len(L) /\ v \in 0..Len(L)
      /\ \A k \in 1..Len(L) : (k <= u <=> L[k].seq <= n) /\ (k <= v <=> L[k].seq <= n2)
  BY UpToCuts
<1>2. Len(L) \in Nat /\ \A k \in 1..Len(L) : L[k].seq \in Nat
  BY SeqsType
<1>. HIDE DEF u, v
<1>3. u > 0 => u \in 1..Len(L) /\ L[u].seq <= n
  BY <1>1, <1>2
<1>4. u > 0 => L[u].seq <= n2
  BY <1>2, <1>3
<1>5. u > 0 => u <= v
  BY <1>1, <1>3, <1>4
<1>6. u <= v
  BY <1>1, <1>2, <1>5
<1>. QED
  BY <1>6 DEF u, v

\* What the log has up to n does not shrink when it grows, and is the same if it had
\* reached n.
LEMMA UpToGrows ==
  ASSUME NEW L \in Seq(Event), NEW b \in Seq(Event), Ordered(L \o b), NEW n \in Nat
  PROVE  /\ Ordered(L) /\ UpTo(L, n) <= UpTo(L \o b, n)
         /\ n <= LastIn(L) => UpTo(L \o b, n) = UpTo(L, n)
<1>. DEFINE G == L \o b
            u == UpTo(L, n)
            v == UpTo(G, n)
<1>1. /\ G \in Seq(Event) /\ Len(G) \in Nat /\ Len(L) \in Nat /\ Len(L) <= Len(G)
      /\ \A k \in 1..Len(L) : G[k] = L[k] /\ k \in 1..Len(G)
  OBVIOUS
<1>2. \A k \in 1..Len(G) : G[k].seq \in Nat
  BY <1>1, SeqsType
<1>. HIDE DEF G
<1>3. Ordered(L)
  BY <1>1 DEF Ordered, G
<1>4. /\ u \in 0..Len(L) /\ \A k \in 1..Len(L) : k <= u <=> L[k].seq <= n
  BY <1>3, UpToCuts
<1>5. /\ v \in 0..Len(G) /\ \A k \in 1..Len(G) : k <= v <=> G[k].seq <= n
  BY <1>1, UpToCuts DEF G
<1>. HIDE DEF u, v
<1>6. u <= v
  <2>1. u > 0 => u \in 1..Len(L) /\ G[u].seq <= n
    BY <1>1, <1>4
  <2>. QED
    BY <1>1, <1>4, <1>5, <2>1
<1>7. ASSUME n <= LastIn(L) PROVE v = u
  <2>1. CASE L = <<>>
    <3>1. n = 0 /\ \A k \in 1..Len(G) : ~(G[k].seq <= n)
      <4>1. n = 0
        BY <1>7, <2>1 DEF LastIn
      <4>2. \A k \in 1..Len(G) : 0 < G[k].seq
        BY DEF Ordered, G
      <4>. QED
        BY <1>2, <4>1, <4>2
    <3>2. v = 0
      <4>1. v > 0 => v \in 1..Len(G)
        BY <1>1, <1>5
      <4>. QED
        BY <1>5, <3>1, <4>1
    <3>3. u = 0
      BY <1>4, <2>1
    <3>. QED
      BY <3>2, <3>3
  <2>2. CASE L # <<>>
    <3>1. Len(L) \in 1..Len(L) /\ n <= L[Len(L)].seq
      BY <1>1, <1>7, <2>2 DEF LastIn, Last
    <3>2. \A k \in 1..Len(G) : k > Len(L) => ~(G[k].seq <= n)
      <4>. SUFFICES ASSUME NEW k \in 1..Len(G), k > Len(L) PROVE ~(G[k].seq <= n)
        OBVIOUS
      <4>1. Len(L) \in 1..Len(G) /\ G[Len(L)] = L[Len(L)]
        BY <1>1, <3>1
      <4>2. G[Len(L)].seq < G[k].seq
        BY <4>1 DEF Ordered, G
      <4>3. G[Len(L)].seq \in Nat /\ G[k].seq \in Nat
        BY <1>2, <4>1
      <4>. QED
        BY <3>1, <4>1, <4>2, <4>3
    <3>3. v > 0 => v \in 1..Len(L) /\ L[v].seq <= n
      <4>1. v > 0 => v \in 1..Len(G) /\ G[v].seq <= n
        BY <1>1, <1>5
      <4>2. v > 0 => ~(v > Len(L))
        BY <3>2, <4>1
      <4>3. v > 0 => v \in 1..Len(L)
        BY <1>1, <1>5, <4>2
      <4>. QED
        BY <1>1, <4>1, <4>3
    <3>4. v > 0 => v <= u
      BY <1>4, <3>3
    <3>. QED
      BY <1>1, <1>4, <1>5, <1>6, <3>4
  <2>. QED
    BY <2>1, <2>2
<1>. QED
  BY <1>3, <1>6, <1>7 DEF u, v, G

-----------------------------------------------------------------------------
(* Following, at a run's owner.                                            *)

\* What is known already.
Base == TypeInv /\ LockInv /\ StoreInv /\ SlotInv

\* Logs ascend, and an event is terminal exactly if it is the last of a run that is over.
LogOf(r) ==
  /\ Ordered(log[r])
  /\ \A k \in 1..Len(log[r]) : log[r][k].terminal <=> Over(r) /\ k = Len(log[r])
LogInv == \A r \in Runs : LogOf(r)

\* The instance all events of the run but the last come from.
Ours(i, r) == owner[r] \in {i, None} /\ OwnLog(r)

\* finish_detached_with has one event, a terminal one, for a run that is a peer's.
Detachers ==
  \A t \in Tasks : pc[t] = "detach" =>
    /\ call[t].at # owner[call[t].run]
    /\ \E n \in Nat : answer[t].events = <<NewEvent(t, n, TRUE)>>

\* What a step does to a log: nothing, or it adds b to the one of a run that is not over.
Same(r) == log'[r] = log[r] /\ (Over(r)' <=> Over(r))
Adds(r, b) ==
  /\ ~Over(r) /\ b \in Seq(Event) /\ Len(b) >= 1 /\ log'[r] = log[r] \o b
  /\ \A k \in 1..Len(b) : /\ b[k].seq = b[1].seq + k - 1 /\ b[k].seq > LastIn(log[r])
                          /\ b[k].terminal <=> Over(r)' /\ k = Len(b)

LEMMA LastSeqIs == ASSUME NEW r PROVE LastSeq(r) = LastIn(log[r])
BY DEF LastSeq, LastIn

LEMMA LastInType ==
  ASSUME NEW L \in Seq(Event)
  PROVE  /\ LastIn(L) \in Nat
         /\ L # <<>> => Len(L) \in 1..Len(L) /\ LastIn(L) = L[Len(L)].seq /\ Last(L) = L[Len(L)]
<1>1. L # <<>> => Len(L) \in 1..Len(L)
  OBVIOUS
<1>. QED
  BY <1>1, SeqsType DEF LastIn, Last

LEMMA OrderedAdds ==
  ASSUME NEW L \in Seq(Event), NEW b \in Seq(Event), Ordered(L),
         \A k \in 1..Len(b) : b[k].seq = b[1].seq + k - 1 /\ b[k].seq > LastIn(L)
  PROVE  Ordered(L \o b)
<1>1. Len(L) \in Nat /\ Len(b) \in Nat /\ Len(L \o b) = Len(L) + Len(b)
      /\ \A k \in 1..Len(L) + Len(b) : (L \o b)[k] = IF k <= Len(L) THEN L[k] ELSE b[k - Len(L)]
  BY ConcatProperties
<1>2. /\ \A k \in 1..Len(L) : L[k].seq \in Nat /\ L[k].seq <= LastIn(L)
      /\ \A k \in 1..Len(b) : b[k].seq \in Nat
      /\ LastIn(L) \in Nat
  <2>1. \A k \in 1..Len(L) : L[k].seq \in Nat
    BY SeqsType
  <2>2. \A k \in 1..Len(b) : b[k].seq \in Nat
    BY SeqsType
  <2>3. LastIn(L) \in Nat /\ (L # <<>> => Len(L) \in 1..Len(L) /\ LastIn(L) = L[Len(L)].seq)
    BY LastInType
  <2>4. ASSUME NEW k \in 1..Len(L) PROVE L[k].seq <= LastIn(L)
    <3>1. L # <<>> /\ (k = Len(L) \/ k < Len(L))
      BY <1>1
    <3>. QED
      BY <2>1, <2>3, <3>1 DEF Ordered
  <2>. QED
    BY <2>1, <2>2, <2>3, <2>4
<1>. DEFINE G == L \o b
<1>3. \A k \in 1..Len(L) : G[k] = L[k]
  BY <1>1
<1>4. \A k \in 1..Len(G) : k > Len(L) => k - Len(L) \in 1..Len(b) /\ G[k] = b[k - Len(L)]
  BY <1>1
<1>5. Len(G) = Len(L) + Len(b)
  BY <1>1
<1>. HIDE DEF G
<1>6. ASSUME NEW i \in 1..Len(G), NEW j \in 1..Len(G)
      PROVE  0 < G[i].seq /\ (i < j => G[i].seq < G[j].seq)
  <2>1. CASE i <= Len(L) /\ j <= Len(L)
    <3>1. i \in 1..Len(L) /\ j \in 1..Len(L)
      BY <1>1, <1>5, <2>1
    <3>. QED
      BY <1>3, <3>1 DEF Ordered
  <2>2. CASE i <= Len(L) /\ j > Len(L)
    <3>1. i \in 1..Len(L)
      BY <1>1, <1>5, <2>2
    <3>2. j - Len(L) \in 1..Len(b) /\ G[j] = b[j - Len(L)]
      BY <1>4, <2>2
    <3>3. 0 < L[i].seq /\ L[i].seq <= LastIn(L) /\ b[j - Len(L)].seq > LastIn(L)
      BY <1>2, <3>1, <3>2 DEF Ordered
    <3>4. G[i].seq = L[i].seq /\ G[j].seq = b[j - Len(L)].seq
      BY <1>3, <3>1, <3>2
    <3>5. L[i].seq \in Nat /\ LastIn(L) \in Nat /\ b[j - Len(L)].seq \in Nat
      BY <1>2, <3>1, <3>2
    <3>6. \A x, y, z \in Nat : 0 < x /\ x <= y /\ z > y => 0 < x /\ x < z
      OBVIOUS
    <3>. QED
      BY <3>3, <3>4, <3>5, <3>6
  <2>3. CASE i > Len(L)
    <3>1. i - Len(L) \in 1..Len(b) /\ G[i] = b[i - Len(L)]
      BY <1>4, <2>3
    <3>2. 0 < G[i].seq
      BY <1>2, <3>1
    <3>3. ASSUME i < j PROVE G[i].seq < G[j].seq
      <4>1. j - Len(L) \in 1..Len(b) /\ G[j] = b[j - Len(L)] /\ i - Len(L) < j - Len(L)
        BY <1>1, <1>4, <1>5, <2>3, <3>3
      <4>. DEFINE x == i - Len(L)
                  y == j - Len(L)
      <4>2. x \in 1..Len(b) /\ y \in 1..Len(b) /\ x < y
        BY <3>1, <4>1
      <4>. HIDE DEF x, y
      <4>3. b[x].seq = b[1].seq + x - 1 /\ b[y].seq = b[1].seq + y - 1 /\ b[1].seq \in Nat
        BY <1>2, <4>2
      <4>4. b[x].seq < b[y].seq
        BY <1>1, <4>2, <4>3
      <4>. QED
        BY <3>1, <4>1, <4>4 DEF x, y
    <3>. QED
      BY <3>2, <3>3
  <2>. QED
    BY <1>1, <1>5, <2>1, <2>2, <2>3
<1>. QED
  BY <1>6 DEF Ordered, G

LEMMA LogAdds ==
  ASSUME TypeInv, LogInv, NEW r \in Runs, NEW b, Adds(r, b)
  PROVE  LogOf(r)'
<1>. DEFINE L == log[r]
            G == log'[r]
<1>1. /\ L \in Seq(Event) /\ b \in Seq(Event) /\ Len(b) >= 1 /\ G = L \o b /\ ~Over(r)
      /\ \A k \in 1..Len(b) : /\ b[k].seq = b[1].seq + k - 1 /\ b[k].seq > LastIn(L)
                              /\ b[k].terminal <=> Over(r)' /\ k = Len(b)
  BY LogType DEF TypeInv, Adds
<1>2. Ordered(L) /\ \A k \in 1..Len(L) : ~L[k].terminal
  BY <1>1 DEF LogInv, LogOf
<1>. HIDE DEF L, G
<1>3. Ordered(G)
  BY <1>1, <1>2, OrderedAdds
<1>4. Len(L) \in Nat /\ Len(b) \in Nat /\ Len(G) = Len(L) + Len(b)
      /\ \A k \in 1..Len(L) + Len(b) : G[k] = IF k <= Len(L) THEN L[k] ELSE b[k - Len(L)]
  BY <1>1, ConcatProperties
<1>5. ASSUME NEW k \in 1..Len(G) PROVE G[k].terminal <=> Over(r)' /\ k = Len(G)
  <2>1. CASE k <= Len(L)
    <3>1. k \in 1..Len(L) /\ G[k] = L[k] /\ k # Len(G)
      BY <1>1, <1>4, <2>1
    <3>. QED
      BY <1>2, <3>1
  <2>2. CASE k > Len(L)
    <3>1. k - Len(L) \in 1..Len(b) /\ G[k] = b[k - Len(L)] /\ (k - Len(L) = Len(b) <=> k = Len(G))
      BY <1>4, <2>2
    <3>. QED
      BY <1>1, <3>1
  <2>. QED
    BY <1>4, <2>1, <2>2
<1>. QED
  BY <1>3, <1>5 DEF G, LogOf

\* What an operation adds.
LEMMA OfferAdds ==
  ASSUME TypeInv, NEW t \in Tasks, pc[t] = "write", WritesOffer(t), NEW r, r = call[t].run
  PROVE  /\ r \in Runs /\ status[r] = "running"
         /\ \E b \in Seq(Event) : /\ Adds(r, b) /\ b # <<>> /\ answer'[t].events = b
                                  /\ Last(b).terminal <=> Over(r)'
                                  /\ \A k \in 1..Len(b) : b[k].by = call[t].at
         /\ \A q \in Runs \ {r} : Same(q)
         /\ \E n \in Nat : Counts(t, n)
<1>. DEFINE n == Reg(t).seq
            b == Offer(t, n + 1)
<1>1. call[t] \in Call /\ call[t].at \in Instances /\ r \in Runs /\ Is(t, Writers)
  BY CallParts DEF TypeInv, Shape, Writing
<1>2. /\ status[r] # "absent" /\ Counts(t, n + Len(b))
      /\ \E a : TakesIn(t, b, a) /\ answer' = [answer EXCEPT ![t] = a]
  BY DEF WritesOffer
<1>3. PICK a : TakesIn(t, b, a) /\ answer' = [answer EXCEPT ![t] = a]
  BY <1>2
<1>4. /\ ~Over(r) /\ ~(Head(b).seq <= LastSeq(r)) /\ log' = [log EXCEPT ![r] = @ \o b]
      /\ status' = [status EXCEPT ![r] = IF Finishes(t) THEN "over" ELSE @]
      /\ a = Answer(IF Finishes(t) THEN "finished" ELSE "recorded", b)
  BY <1>3, Zenon DEF TakesIn
<1>5. n \in Nat
  BY <1>1, <1>2, EntryParts DEF TypeInv, Reg, Counts
<1>6. Batch(t, n + 1, b)
  BY <1>1, <1>5, OfferBatch
<1>. HIDE DEF b
<1>7. /\ b \in Seq(Event) /\ Len(b) \in {1, 2}
      /\ \A k \in 1..Len(b) : /\ b[k].seq = n + 1 + k - 1
                              /\ b[k].terminal <=> Finishes(t) /\ k = Len(b)
                              /\ b[k].by = call[t].at
  BY <1>6 DEF Batch
<1>8. Len(b) \in Nat /\ Len(b) >= 1
  <2>1. PICK m \in {1, 2} : Len(b) = m
    BY <1>7
  <2>2. m \in Nat /\ m >= 1
    OBVIOUS
  <2>. QED
    BY <2>1, <2>2
<1>9. 1 \in 1..Len(b) /\ Len(b) \in 1..Len(b)
  BY <1>8
<1>10. b # <<>> /\ Head(b) = b[1] /\ Last(b) = b[Len(b)]
  BY <1>7, <1>8 DEF Last
<1>11. status[r] = "running" /\ (Over(r)' <=> Finishes(t))
  <2>1. status[r] = "running"
    BY <1>1, <1>2, <1>4 DEF Over, TypeInv, TypeOK
  <2>2. status'[r] = IF Finishes(t) THEN "over" ELSE status[r]
    BY <1>1, <1>4 DEF TypeInv, TypeOK
  <2>. QED
    BY <2>1, <2>2 DEF Over
<1>12. log'[r] = log[r] \o b /\ \A q \in Runs \ {r} : log'[q] = log[q] /\ status'[q] = status[q]
  BY <1>1, <1>4 DEF TypeInv, TypeOK
<1>13. LastIn(log[r]) \in Nat
  BY <1>1, LogType, LastInType DEF TypeInv
<1>14. b[1].seq = n + 1 /\ n + 1 > LastIn(log[r])
  <2>1. b[1].seq = n + 1 + 1 - 1
    BY <1>7, <1>9
  <2>2. ~(b[1].seq <= LastIn(log[r]))
    BY <1>4, <1>10, LastSeqIs
  <2>. QED
    BY <1>5, <1>13, <2>1, <2>2
<1>15. \A k \in 1..Len(b) : b[k].seq = b[1].seq + k - 1 /\ b[k].seq > LastIn(log[r])
  BY <1>5, <1>7, <1>13, <1>14
<1>16. Adds(r, b)
  BY <1>4, <1>7, <1>8, <1>11, <1>12, <1>15 DEF Adds
<1>17. answer'[t].events = b
  BY <1>3, <1>4, AnswerKinds DEF TypeInv, TypeOK
<1>18. Last(b).terminal <=> Over(r)'
  BY <1>7, <1>9, <1>10, <1>11
<1>19. \A q \in Runs \ {r} : Same(q)
  BY <1>12 DEF Same, Over
<1>20. n + Len(b) \in Nat /\ Counts(t, n + Len(b))
  BY <1>2, <1>5, <1>8 DEF b
<1>. QED
  BY <1>1, <1>7, <1>10, <1>11, <1>16, <1>17, <1>18, <1>19, <1>20

\* The logs after a step of a caller ...
LEMMA StepLogs ==
  ASSUME TypeInv, NEW t \in Tasks, Step(t)
  PROVE  \/ \A q \in Runs : Same(q)
         \/ Write(t) /\ WritesOffer(t)
         \/ Detach(t)
<1>1. CASE CreateRun(t)
  <2>1. log' = log /\ (UNCHANGED status \/ (~Blocked(call[t].run) /\ status' = [status EXCEPT ![call[t].run] = "running"]))
    BY <1>1 DEF CreateRun
  <2>2. call[t].run \in Runs
    BY <1>1, CallParts DEF CreateRun, TypeInv, Shape
  <2>3. \A q \in Runs : Over(q)' <=> Over(q)
    BY <2>1, <2>2 DEF Over, Blocked, TypeInv, TypeOK
  <2>. QED
    BY <2>1, <2>3 DEF Same
<1>2. CASE Write(t)
  BY <1>2, WriteOutcomes DEF WritesNothing, WritesInVain, TurnsAway, Same, Over
<1>3. CASE ~(CreateRun(t) \/ Write(t) \/ Detach(t))
  <2>1. UNCHANGED <<status, log>>
    BY <1>3 DEF Step, LookupStart, InsertRun, GetLock, Acquire, ListForDetach, Publish, Release, DropLock,
                Look, Attach, ListPage, TailNext, FindCancelled, RequestCancel, MarkCancelled, storeVars
  <2>. QED
    BY <2>1 DEF Same, Over
<1>. QED
  BY <1>1, <1>2, <1>3

\* One more event, which ends the run.
Ends(r, j) ==
  /\ status[r] = "running" /\ Over(r)'
  /\ \E e \in Event : Adds(r, <<e>>) /\ e.by = j

LEMMA AddsLast ==
  ASSUME TypeInv, NEW r \in Runs, ~Over(r), NEW e \in Event, e.terminal, e.seq > LastSeq(r),
         Over(r)', log'[r] = log[r] \o <<e>>
  PROVE  Adds(r, <<e>>)
<1>1. <<e>> \in Seq(Event) /\ Len(<<e>>) = 1 /\ <<e>>[1] = e
  OBVIOUS
<1>2. LastIn(log[r]) \in Nat /\ e.seq \in Nat
  BY LogType, LastInType DEF TypeInv, Event
<1>3. \A k \in 1..1 : /\ <<e>>[k].seq = <<e>>[1].seq + k - 1 /\ <<e>>[k].seq > LastIn(log[r])
                       /\ <<e>>[k].terminal <=> Over(r)' /\ k = 1
  BY <1>1, <1>2, LastSeqIs
<1>. QED
  BY <1>1, <1>3 DEF Adds

\* ... of finish_detached_with ...
LEMMA DetachLogs ==
  ASSUME TypeInv, StoreInv, Detachers, NEW t \in Tasks, Detach(t), NEW r, r = call[t].run
  PROVE  \/ \A q \in Runs : Same(q)
         \/ Ends(r, call[t].at) /\ \A q \in Runs \ {r} : Same(q)
<1>. DEFINE b == answer[t].events
            a == StoreAnswer(t, b)
<1>1. pc[t] = "detach" /\ Stores(t, b, a)
  BY DEF Detach
<1>2. r \in Runs /\ Finishes(t) /\ status[r] # "absent" /\ call[t].at \in Instances
  BY <1>1, CallParts DEF StoreInv, Detaching, TypeInv, Shape, Finishes, Is
<1>3. TurnsAway(t, a) \/ TakesIn(t, b, a)
  BY <1>1, StoreOutcomes
<1>4. PICK n \in Nat : b = <<NewEvent(t, n, TRUE)>>
  BY <1>1 DEF Detachers
<1>. HIDE DEF a
<1>5. CASE TurnsAway(t, a)
  BY <1>5 DEF TurnsAway, Same, Over
<1>6. CASE TakesIn(t, b, a)
  <2>. DEFINE e == NewEvent(t, n, TRUE)
  <2>1. e \in Event /\ e.terminal = TRUE /\ e.by = call[t].at /\ e.seq = n
    BY <1>2 DEF NewEvent, Event
  <2>2. /\ ~Over(r) /\ ~(Head(b).seq <= LastSeq(r)) /\ log' = [log EXCEPT ![r] = @ \o b]
        /\ status' = [status EXCEPT ![r] = IF Finishes(t) THEN "over" ELSE @]
    BY <1>6, Zenon DEF TakesIn
  <2>. HIDE DEF e, b
  <2>3. b = <<e>> /\ Head(b) = e
    BY <1>4 DEF e
  <2>4. /\ log'[r] = log[r] \o <<e>> /\ status[r] = "running" /\ status'[r] = "over"
        /\ \A q \in Runs \ {r} : log'[q] = log[q] /\ status'[q] = status[q]
    BY <1>2, <2>2, <2>3 DEF TypeInv, TypeOK, Over
  <2>5. e.seq > LastSeq(r)
    <3>1. LastSeq(r) \in Nat
      BY <1>2, LogType DEF TypeInv
    <3>. QED
      BY <2>1, <2>2, <2>3, <3>1
  <2>6. Adds(r, <<e>>)
    <3>1. ~Over(r) /\ Over(r)'
      BY <2>4 DEF Over
    <3>. QED
      BY <1>2, <2>1, <2>4, <2>5, <3>1, AddsLast
  <2>. QED
    BY <2>1, <2>4, <2>6 DEF Ends, Same, Over
<1>. QED
  BY <1>3, <1>5, <1>6

\* ... and of the reaper.
LEMMA ReapLogs ==
  ASSUME TypeInv, StoreInv, NEW r \in Runs, Lapse(r) \/ Reap(r)
  PROVE  \/ \A q \in Runs : Same(q)
         \/ Ends(r, None) /\ \A q \in Runs \ {r} : Same(q)
<1>1. CASE Lapse(r)
  BY <1>1 DEF Lapse, Same, Over
<1>2. CASE Reap(r)
  <2>. DEFINE e == [seq |-> LastSeq(r) + 1, terminal |-> TRUE, by |-> None]
  <2>1. e \in Event /\ e.seq = LastSeq(r) + 1 /\ e.terminal = TRUE /\ e.by = None
    BY LogType DEF Event, TypeInv
  <2>. HIDE DEF e
  <2>2. log' = [log EXCEPT ![r] = Append(@, e)] /\ status' = [status EXCEPT ![r] = "over"] /\ lease[r] = "lapsed"
    BY <1>2 DEF Reap, e
  <2>3. status[r] = "running"
    BY <2>2 DEF StoreInv, RunsOwned
  <2>4. Append(log[r], e) = log[r] \o <<e>>
    BY <2>1, LogType DEF TypeInv
  <2>5. /\ log'[r] = log[r] \o <<e>> /\ Over(r)' /\ ~Over(r)
        /\ \A q \in Runs \ {r} : log'[q] = log[q] /\ status'[q] = status[q]
    BY <2>2, <2>3, <2>4 DEF TypeInv, TypeOK, Over
  <2>6. e.seq > LastSeq(r)
    <3>1. LastSeq(r) \in Nat
      BY LogType DEF TypeInv
    <3>. QED
      BY <2>1, <3>1
  <2>7. Adds(r, <<e>>)
    BY <2>1, <2>5, <2>6, AddsLast
  <2>. QED
    BY <2>1, <2>3, <2>5, <2>7 DEF Ends, Same, Over
<1>. QED
  BY <1>1, <1>2

\* Every log stays or grows by a batch.
Grows(r) == Same(r) \/ \E b \in Seq(Event) : Adds(r, b)

LEMMA EndsGrow == ASSUME NEW r, NEW j, Ends(r, j) PROVE Grows(r)
BY DEF Ends, Adds, Grows

LEMMA LogsGrow ==
  ASSUME TypeInv, StoreInv, Detachers, Next
  PROVE  \A r \in Runs : Grows(r)
<1>1. ASSUME NEW t \in Tasks, Step(t) PROVE \A r \in Runs : Grows(r)
  <2>1. CASE Write(t) /\ WritesOffer(t)
    <3>1. pc[t] = "write"
      BY <2>1 DEF Write
    <3>2. PICK q : q = call[t].run
      OBVIOUS
    <3>3. (\E b \in Seq(Event) : Adds(q, b)) /\ \A r \in Runs \ {q} : Same(r)
      BY <2>1, <3>1, <3>2, OfferAdds
    <3>. QED
      BY <3>3 DEF Grows
  <2>2. CASE Detach(t)
    <3>1. PICK q, j : q = call[t].run /\ j = call[t].at
      OBVIOUS
    <3>2. (\A r \in Runs : Same(r)) \/ (Ends(q, j) /\ \A r \in Runs \ {q} : Same(r))
      BY <2>2, <3>1, DetachLogs
    <3>3. Ends(q, j) => Grows(q)
      BY EndsGrow
    <3>. QED
      BY <3>2, <3>3 DEF Grows
  <2>. QED
    BY <1>1, <2>1, <2>2, StepLogs DEF Grows
<1>2. ASSUME NEW q \in Runs, Lapse(q) \/ Reap(q), NEW r \in Runs PROVE Grows(r)
  BY <1>2, ReapLogs, EndsGrow DEF Grows
<1>3. ASSUME NEW t \in Tasks, NEW c \in Call, Begin(t, c) PROVE \A r \in Runs : Grows(r)
  BY <1>3 DEF Begin, storeVars, Grows, Same, Over
<1>4. CASE Quiet
  BY <1>4 DEF Quiet, vars, storeVars, Grows, Same, Over
<1>. QED
  BY <1>1, <1>2, <1>3, <1>4 DEF Next

LEMMA LogsStep ==
  ASSUME TypeInv, StoreInv, LogInv, Detachers, Next
  PROVE  LogInv'
<1>1. ASSUME NEW r \in Runs PROVE LogOf(r)'
  <2>1. Grows(r)
    BY LogsGrow
  <2>2. CASE Same(r)
    BY <2>2 DEF LogInv, LogOf, Same
  <2>. QED
    BY <2>1, <2>2, LogAdds DEF Grows
<1>. QED
  BY <1>1 DEF LogInv

\* finish_detached_with finishes a run only where nobody has it: not at its owner.
LEMMA DetachingStep ==
  ASSUME Base, Detachers, Next
  PROVE  Detachers'
<1>. USE DEF Base
<1>0. ASSUME NEW u \in Tasks, pc'[u] = "detach", pc[u] = "detach", call'[u] = call[u],
             answer'[u] = answer[u], owner[call[u].run] # None => owner'[call[u].run] = owner[call[u].run]
      PROVE  /\ call'[u].at # owner'[call'[u].run]
             /\ \E n \in Nat : answer'[u].events = <<NewEvent(u, n, TRUE)'>>
  <2>1. call[u].run \in Runs /\ status[call[u].run] # "absent"
    BY <1>0, CallParts DEF TypeInv, Shape, StoreInv, Detaching
  <2>2. owner[call[u].run] \in Instances
    BY <2>1 DEF StoreInv, RunsOwned
  <2>3. owner'[call[u].run] = owner[call[u].run]
    BY <1>0, <2>2, ConstantsAssumption
  <2>4. call[u].at # owner[call[u].run] /\ \E n \in Nat : answer[u].events = <<NewEvent(u, n, TRUE)>>
    BY <1>0 DEF Detachers
  <2>. QED
    BY <1>0, <2>3, <2>4 DEF NewEvent
<1>1. ASSUME NEW t \in Tasks, Step(t) PROVE Detachers'
  <2>1. /\ \A u \in Tasks \ {t} : pc'[u] = pc[u] /\ call'[u] = call[u] /\ answer'[u] = answer[u]
        /\ pc'[t] = "idle" \/ call'[t] = call[t]
        /\ pc'[t] = "detach" => ListForDetach(t) \/ (pc[t] = "detach" /\ answer'[t] = answer[t])
    BY <1>1, StepFrame
  <2>2. \A q \in Runs : owner[q] # None => owner'[q] = owner[q]
    BY <1>1, StoreSteps DEF Still, Opens, Takes, StoreInv, RunsOwned
  <2>3. ASSUME ListForDetach(t), pc'[t] = "detach"
        PROVE  /\ call'[t].at # owner'[call'[t].run]
               /\ \E n \in Nat : answer'[t].events = <<NewEvent(t, n, TRUE)'>>
    <3>1. answer \in [Tasks -> Answers \cup {None}] /\ pc \in [Tasks -> Places]
      BY DEF TypeInv, TypeOK, LockInv, LockTypes
    <3>2. /\ pc[t] = "list" /\ UNCHANGED <<storeVars, call>>
          /\ answer' = [answer EXCEPT ![t] = Answer("listed", Offer(t, LastSeq(call[t].run) + 1))]
          /\ Reg(t) = None /\ status[call[t].run] = "running"
      <4>1. ~Goto(t, "publish")
        BY <2>3, <3>1 DEF Goto
      <4>. QED
        BY <2>3, <3>1, <4>1, ListOutcomes
    <3>3. call[t].run \in Runs /\ call[t].at \in Instances /\ Is(t, {"detach"})
      BY <3>2, CallParts DEF TypeInv, Shape, StoreInv, Detaching
    <3>4. call[t].at # owner[call[t].run]
      BY <3>2, <3>3 DEF SlotInv, OwnerHasEntry, Reg
    <3>5. PICK n \in Nat : n = LastSeq(call[t].run) + 1
      <4>1. LastSeq(call[t].run) \in Nat
        BY <3>3, LogType DEF TypeInv
      <4>. QED
        BY <4>1
    <3>6. Offer(t, n) = <<NewEvent(t, n, TRUE)>>
      BY <3>3, OfferDetach
    <3>7. answer'[t].events = <<NewEvent(t, n, TRUE)>>
      <4>1. answer'[t] = Answer("listed", Offer(t, n))
        BY <3>1, <3>2, <3>5
      <4>2. answer'[t].events = Offer(t, n)
        BY <4>1, AnswerKinds
      <4>. QED
        BY <3>6, <4>2, Zenon
    <3>8. call' = call /\ owner' = owner
      BY <3>2 DEF storeVars
    <3>. QED
      BY <3>4, <3>7, <3>8 DEF NewEvent
  <2>4. ASSUME NEW u \in Tasks, pc'[u] = "detach", ~(u = t /\ ListForDetach(t))
        PROVE  pc[u] = "detach" /\ call'[u] = call[u] /\ answer'[u] = answer[u] /\ call[u].run \in Runs
    <3>1. pc[u] = "detach" /\ call'[u] = call[u] /\ answer'[u] = answer[u]
      BY <2>1, <2>4
    <3>. QED
      BY <3>1, CallParts DEF TypeInv, Shape
  <2>. QED
    BY <1>0, <2>2, <2>3, <2>4 DEF Detachers
<1>2. ASSUME \A u \in Tasks : pc'[u] = "detach" => pc[u] = "detach" /\ call'[u] = call[u],
             answer' = answer, owner' = owner
      PROVE  Detachers'
  BY <1>0, <1>2 DEF Detachers
<1>3. ASSUME NEW t \in Tasks, NEW c \in Call, Begin(t, c) PROVE Detachers'
  <2>1. /\ \A u \in Tasks \ {t} : pc'[u] = pc[u] /\ call'[u] = call[u]
        /\ pc'[t] \in {"lookup", "look", "find", "getLock"} /\ answer' = answer
    BY <1>3, BeginFrame
  <2>2. owner' = owner
    BY <1>3 DEF Begin, storeVars
  <2>. QED
    BY <1>2, <2>1, <2>2
<1>4. (\E r \in Runs : Lapse(r) \/ Reap(r)) => UNCHANGED <<pc, call, answer, owner>>
  BY DEF Lapse, Reap, taskVars
<1>5. Quiet => UNCHANGED <<pc, call, answer, owner>>
  BY DEF Quiet, vars, taskVars, storeVars
<1>. QED
  BY <1>1, <1>2, <1>3, <1>4, <1>5 DEF Next

\* Who has created a run stays its owner ...
LEMMA OwnersStay ==
  ASSUME TypeInv, StoreInv, Next
  PROVE  \A q \in Runs : owner[q] # None => owner'[q] = owner[q]
<1>1. ASSUME NEW t \in Tasks, Step(t), NEW q \in Runs, owner[q] # None PROVE owner'[q] = owner[q]
  BY <1>1, StoreSteps DEF Still, Opens, Takes, StoreInv, RunsOwned
<1>2. (\E r \in Runs : Lapse(r) \/ Reap(r)) => owner' = owner
  BY DEF Lapse, Reap
<1>3. (\E t \in Tasks, c \in Call : Begin(t, c)) => owner' = owner
  BY DEF Begin, storeVars
<1>4. Quiet => owner' = owner
  BY DEF Quiet, vars, storeVars
<1>. QED
  BY <1>1, <1>2, <1>3, <1>4 DEF Next

\* ... and a log that has one event too many of somebody else keeps it.
LEMMA OursKept ==
  ASSUME TypeInv, StoreInv, NEW i \in Instances, NEW r \in Runs, Grows(r),
         owner[r] # None => owner'[r] = owner[r], Ours(i, r)'
  PROVE  Ours(i, r)
<1>1. CASE owner[r] = None
  <2>1. log[r] = <<>>
    BY <1>1, ConstantsAssumption DEF StoreInv, RunsOwned
  <2>. QED
    BY <1>1, <2>1 DEF Ours, OwnLog
<1>2. CASE owner[r] # None
  <2>1. owner'[r] = owner[r] /\ owner[r] \in {i, None}
    BY <1>2 DEF Ours
  <2>2. log[r] \in Seq(Event)
    BY LogType DEF TypeInv
  <2>3. CASE Same(r)
    BY <2>1, <2>3 DEF Ours, OwnLog, Same
  <2>4. ASSUME NEW b \in Seq(Event), Adds(r, b) PROVE OwnLog(r)
    <3>1. log'[r] = log[r] \o b
      BY <2>4 DEF Adds
    <3>2. \A k \in DOMAIN log[r] : k \in DOMAIN log'[r] /\ log'[r][k] = log[r][k]
      BY <2>2, <3>1
    <3>. QED
      BY <2>1, <3>2 DEF Ours, OwnLog
  <2>. QED
    BY <2>1, <2>3, <2>4 DEF Grows, Ours
<1>. QED
  BY <1>1, <1>2

LEMMA OursStep ==
  ASSUME Base, Detachers, Next, NEW i \in Instances, NEW r \in Runs, Ours(i, r)'
  PROVE  Ours(i, r)
BY LogsGrow, OwnersStay, OursKept DEF Base

\* What a peer writes to such a log is one event, which ends the run ...
LEMMA ForeignEnds ==
  ASSUME TypeInv, NEW r \in Runs, NEW b \in Seq(Event), Adds(r, b), NEW j,
         \A k \in 1..Len(b) : b[k].by = j, j # owner'[r], OwnLog(r)', status[r] = "running"
  PROVE  Ends(r, j)
<1>1. /\ log[r] \in Seq(Event) /\ log'[r] = log[r] \o b /\ Len(b) \in Nat /\ Len(b) >= 1
      /\ \A k \in 1..Len(b) : b[k].terminal <=> Over(r)' /\ k = Len(b)
  BY LogType DEF TypeInv, Adds
<1>2. /\ \A k \in 1..Len(b) : Len(log[r]) + k \in DOMAIN log'[r] /\ log'[r][Len(log[r]) + k] = b[k]
  BY <1>1
<1>3. \A k \in 1..Len(b) : b[k].terminal
  BY <1>2 DEF OwnLog
<1>4. 1 \in 1..Len(b)
  BY <1>1
<1>5. Over(r)' /\ Len(b) = 1
  BY <1>1, <1>3, <1>4
<1>6. PICK e \in Event : e = b[1]
  BY <1>4
<1>7. b = <<e>> /\ e.by = j
  BY <1>4, <1>5, <1>6
<1>. QED
  BY <1>5, <1>7 DEF Ends

\* ... so a step leaves the log, adds what the owner offers, or is the end of the run
\* at a peer.
OfferOf(t, i, r) ==
  Write(t) /\ WritesOffer(t) /\ call[t].at = i /\ call[t].run = r /\ owner[r] = i
EndOf(t, i, r) ==
  /\ Write(t) \/ Detach(t)
  /\ call[t].run = r /\ call[t].at # i /\ owner[r] = i /\ Ends(r, call[t].at)

LEMMA StepEnds ==
  ASSUME Base, Detachers, NEW t \in Tasks, Step(t), NEW i \in Instances, NEW r \in Runs,
         Ours(i, r), Ours(i, r)', ~Same(r)
  PROVE  OfferOf(t, i, r) \/ EndOf(t, i, r)
<1>. USE DEF Base
<1>0. ASSUME status[r] = "running" PROVE owner[r] = i
  BY <1>0, ConstantsAssumption DEF Ours, StoreInv, RunsOwned
<1>. PICK q, j : q = call[t].run /\ j = call[t].at
  OBVIOUS
<1>1. CASE Write(t) /\ WritesOffer(t)
  <2>1. pc[t] = "write" /\ owner' = owner
    BY <1>1 DEF Write
  <2>2. PICK b \in Seq(Event) : Adds(q, b) /\ \A k \in 1..Len(b) : b[k].by = j
    BY <1>1, <2>1, OfferAdds
  <2>3. q = r /\ status[r] = "running"
    BY <1>1, <2>1, OfferAdds
  <2>4. owner[r] = i /\ owner'[r] = i
    BY <1>0, <2>1, <2>3
  <2>5. CASE j = i
    BY <1>1, <2>3, <2>4, <2>5 DEF OfferOf
  <2>6. CASE j # i
    <3>1. OwnLog(r)' /\ j # owner'[r]
      BY <2>4, <2>6 DEF Ours
    <3>2. Ends(r, j)
      BY <2>2, <2>3, <3>1, ForeignEnds
    <3>. QED
      BY <1>1, <2>3, <2>4, <2>6, <3>2 DEF EndOf
  <2>. QED
    BY <2>5, <2>6
<1>2. CASE Detach(t)
  <2>1. Ends(q, j) /\ q = r
    BY <1>2, DetachLogs
  <2>2. owner[r] = i
    BY <1>0, <2>1 DEF Ends
  <2>3. j # i
    BY <1>2, <2>1, <2>2 DEF Detach, Detachers
  <2>. QED
    BY <1>2, <2>1, <2>2, <2>3 DEF EndOf
<1>. QED
  BY <1>1, <1>2, StepLogs

-----------------------------------------------------------------------------
(* Events between the store and the registry.                              *)

\* An operation that has events to publish.
Publishes(u, i, r) ==
  pc[u] = "publish" /\ call[u].at = i /\ call[u].run = r /\ answer[u].events # <<>>

\* The run's entry will not be taken away behind a publisher's back.
Secure(i, r) == registry[i][r] # None /\ \A v \in Tasks : ~Creates(v, i, r)

\* What is at the place after n, up to e, is still to be published: it is what the log ends
\* with, or what it ended with before somebody else ended it.
Remains(P, i, r, n, e) ==
  /\ Slice(P, log[r], n, e)
  /\ e = Len(log[r]) \/ (e = Len(log[r]) - 1 /\ Over(r) /\ Last(log[r]).by # i)
  /\ log[r][n + 1].terminal \/ Secure(i, r)
PendingAt(u, i, r) ==
  Publishes(u, i, r) => \E n, e \in Nat : Remains(answer[u].events, i, r, n, e)
Pending == \A u \in Tasks, i \in Instances, r \in Runs : Ours(i, r) => PendingAt(u, i, r)

\* One operation on a run is past lock().
LEMMA InsideOne ==
  ASSUME LockInv, NEW t \in Tasks, NEW u \in Tasks, pc[t] \in Inside, pc[u] \in Inside,
         call[t].at = call[u].at, call[t].run = call[u].run
  PROVE  t = u
<1>1. pc[t] \in Waiting /\ pc[u] \in Waiting
  BY DEF Inside, Waiting
<1>2. lockRef[t] = lockRef[u]
  BY <1>1 DEF LockInv, MapHasIt
<1>. QED
  BY <1>2 DEF LockInv, InsideHolds

\* What replacing an entry does to an entry.
LEMMA PutEntry ==
  ASSUME TypeOK, NEW i \in Instances, NEW r \in Runs, NEW j, NEW q, NEW e,
         registry' = [registry EXCEPT ![j][q] = e]
  PROVE  registry'[i][r] = IF j = i /\ q = r THEN e ELSE registry[i][r]
<1>1. registry'[i] = IF j = i THEN [registry[i] EXCEPT ![q] = e] ELSE registry[i]
  BY DEF TypeOK
<1>2. DOMAIN registry[i] = Runs
  BY DEF TypeOK
<1>3. [registry[i] EXCEPT ![q] = e][r] = IF q = r THEN e ELSE registry[i][r]
  BY <1>2
<1>. QED
  BY <1>1, <1>3

\* The part of an operation's steps that is not the start or the end of a run's stay in
\* the registry.
LEMMA SecureKept ==
  ASSUME Base, NEW t \in Tasks, Step(t), NEW i \in Instances, NEW r \in Runs, Secure(i, r),
         NEW u \in Tasks \ {t}, Publishes(u, i, r)
  PROVE  Secure(i, r)'
<1>. USE DEF Base
<1>1. /\ \A v \in Tasks \ {t} : pc'[v] = pc[v] /\ call'[v] = call[v]
      /\ pc'[t] = "idle" \/ call'[t] = call[t]
      /\ pc'[t] = "create" => InsertRun(t) \/ pc[t] = "create"
  BY StepFrame
<1>2. ASSUME InsertRun(t), pc'[t] = "create" PROVE ~(call[t].at = i /\ call[t].run = r)
  <2>1. Reg(t) = None
    <3>1. CASE registry[call[t].at][call[t].run] # None \/ Cardinality(Slots(call[t].at)) >= Capacity
      <4>1. Returns(t)
        BY <1>2, <3>1, Zenon DEF InsertRun
      <4>2. pc'[t] = "idle"
        BY <4>1, ReturnsType DEF TypeInv
      <4>. QED
        BY <1>2, <4>2
    <3>2. CASE ~(registry[call[t].at][call[t].run] # None)
      BY <3>2 DEF Reg
    <3>. QED
      BY <3>1, <3>2
  <2>. QED
    BY <2>1 DEF Secure, Reg
<1>3. \A v \in Tasks : ~Creates(v, i, r)'
  <2>1. \A v \in Tasks \ {t} : ~Creates(v, i, r)'
    BY <1>1 DEF Creates, Secure
  <2>2. ~Creates(t, i, r)'
    BY <1>1, <1>2 DEF Creates, Secure
  <2>. QED
    BY <2>1, <2>2
<1>4. registry'[i][r] # None
  <2>1. CASE ~InsertRun(t) /\ ~CreateRun(t) /\ ~Write(t) /\ ~Release(t)
    BY <2>1, EntriesKept DEF KeepsEntry, Secure
  <2>2. CASE InsertRun(t)
    <3>. DEFINE f == [seq |-> 0, published |-> FALSE, cancelled |-> FALSE, senders |-> {}]
    <3>1. UNCHANGED registry \/ registry' = [registry EXCEPT ![call[t].at][call[t].run] = f]
      BY <2>2 DEF InsertRun
    <3>2. f \in Entry
      BY DEF Entry
    <3>. HIDE DEF f
    <3>3. f # None
      BY <3>2, NoneAssumption
    <3>4. CASE registry' = [registry EXCEPT ![call[t].at][call[t].run] = f]
      <4>1. registry'[i][r] = f \/ registry'[i][r] = registry[i][r]
        BY <3>4, PutEntry DEF TypeInv
      <4>. QED
        BY <3>3, <4>1 DEF Secure
    <3>. QED
      BY <3>1, <3>4 DEF Secure
  <2>3. CASE CreateRun(t)
    <3>1. UNCHANGED registry \/ registry' = [registry EXCEPT ![call[t].at][call[t].run] = None]
      BY <2>3 DEF CreateRun
    <3>2. ~(call[t].at = i /\ call[t].run = r)
      BY <2>3 DEF CreateRun, Secure, Creates
    <3>3. CASE registry' = [registry EXCEPT ![call[t].at][call[t].run] = None]
      <4>1. registry'[i][r] = registry[i][r]
        BY <3>2, <3>3, PutEntry DEF TypeInv
      <4>. QED
        BY <4>1 DEF Secure
    <3>. QED
      BY <3>1, <3>3 DEF Secure
  <2>4. CASE Write(t)
    <3>1. UNCHANGED registry \/ \E n : Counts(t, n)
      BY <2>4, WriteOutcomes DEF WritesNothing, WritesInVain, WritesOffer
    <3>2. ASSUME NEW n, Counts(t, n) PROVE registry'[i][r] # None
      <4>1. ~(call[t].at = i /\ call[t].run = r)
        <5>1. pc[t] \in Inside /\ pc[u] \in Inside
          BY <2>4 DEF Write, Inside, Publishes
        <5>. QED
          BY <5>1, InsideOne DEF Publishes
      <4>. QED
        BY <3>2, <4>1 DEF Counts, Secure, TypeInv, TypeOK
    <3>. QED
      BY <3>1, <3>2 DEF Secure
  <2>5. CASE Release(t)
    <3>1. ~(call[t].at = i /\ call[t].run = r)
      <4>1. pc[t] \in Inside /\ pc[u] \in Inside
        BY <2>5 DEF Release, Inside, Publishes
      <4>. QED
        BY <4>1, InsideOne DEF Publishes
    <3>2. UNCHANGED registry \/ registry' = [registry EXCEPT ![call[t].at][call[t].run] = None]
      BY <2>5, ReleaseOutcomes
    <3>3. CASE registry' = [registry EXCEPT ![call[t].at][call[t].run] = None]
      <4>1. registry'[i][r] = registry[i][r]
        BY <3>1, <3>3, PutEntry DEF TypeInv
      <4>. QED
        BY <4>1 DEF Secure
    <3>. QED
      BY <3>2, <3>3 DEF Secure
  <2>. QED
    BY <2>1, <2>2, <2>3, <2>4, <2>5
<1>. QED
  BY <1>3, <1>4 DEF Secure

\* A publisher that does not move, when the log does not.
LEMMA PendingSame ==
  ASSUME NEW u, NEW i, NEW r, PendingAt(u, i, r), Publishes(u, i, r)' => Publishes(u, i, r),
         answer'[u] = answer[u], Same(r), Publishes(u, i, r) /\ Secure(i, r) => Secure(i, r)'
  PROVE  PendingAt(u, i, r)'
<1>. SUFFICES ASSUME Publishes(u, i, r)'
              PROVE  \E n, e \in Nat : Remains(answer[u].events, i, r, n, e)'
  BY DEF PendingAt
<1>1. PICK n \in Nat, e \in Nat : Remains(answer[u].events, i, r, n, e)
  BY DEF PendingAt
<1>2. Remains(answer[u].events, i, r, n, e)'
  BY <1>1 DEF Remains, Same
<1>. QED
  BY <1>2

\* A write makes its events, or the terminal event it has found, wait for publishing.
LEMMA PendingWrite ==
  ASSUME Base, Base', LogInv, LogInv', NEW t \in Tasks, Write(t),
         NEW i \in Instances, NEW r \in Runs, Ours(i, r)
  PROVE  PendingAt(t, i, r)'
<1>. USE DEF Base
<1>. SUFFICES ASSUME Publishes(t, i, r)'
              PROVE  \E n, e \in Nat : Remains(answer[t].events, i, r, n, e)'
  BY DEF PendingAt
<1>1. /\ pc[t] = "write" /\ UNCHANGED <<owner, call>> /\ pc' = [pc EXCEPT ![t] = "publish"]
      /\ WritesNothing(t) \/ WritesInVain(t) \/ WritesOffer(t)
  BY WriteOutcomes DEF Goto
<1>2. call[t].at = i /\ call[t].run = r /\ answer'[t].events # <<>>
  BY <1>1 DEF Publishes
<1>3. ~WritesNothing(t)
  <2>1. ASSUME NEW k, answer' = [answer EXCEPT ![t] = Answer(k, <<>>)] PROVE answer'[t].events = <<>>
    BY <2>1, AnswerKinds DEF TypeInv, TypeOK
  <2>. QED
    BY <1>2, <2>1 DEF WritesNothing
<1>4. CASE WritesInVain(t)
  <2>1. PICK a : TurnsAway(t, a) /\ answer' = [answer EXCEPT ![t] = a]
    BY <1>4 DEF WritesInVain
  <2>2. answer'[t] = a /\ UNCHANGED <<log, status>>
    BY <2>1 DEF TypeInv, TypeOK, TurnsAway
  <2>3. Over(r) /\ a = Answer("finished", <<Last(log[r])>>)
    BY <1>2, <2>1, <2>2, AnswerKinds DEF TurnsAway
  <2>4. a.events = <<Last(log[r])>>
    BY <2>3, AnswerKinds
  <2>5. /\ log[r] \in Seq(Event) /\ Len(log[r]) \in 1..Len(log[r])
        /\ Last(log[r]) = log[r][Len(log[r])] /\ Last(log[r]) \in Event
    BY <2>3, LogType, LastInType DEF TypeInv, OverLogged
  <2>a. PICK m \in Nat : m = Len(log[r])
    BY <2>5
  <2>. DEFINE e == Last(log[r])
  <2>6. m \in Nat /\ m >= 1 /\ m - 1 \in Nat /\ e \in Event /\ e = log[r][m] /\ m \in 1..m
    BY <2>5, <2>a
  <2>7. log[r][m].terminal
    BY <2>3, <2>6, <2>a DEF LogInv, LogOf
  <2>. HIDE DEF e
  <2>8. Slice(<<e>>, log[r], m - 1, m)
    <3>1. <<e>> \in Seq(Event) /\ Len(<<e>>) = 1 /\ <<e>>[1] = e
      BY <2>6
    <3>2. m - (m - 1) = 1 /\ m - 1 + 1 = m
      BY <2>6
    <3>3. <<e>>[1] = log[r][m - 1 + 1]
      BY <2>6, <3>1, <3>2
    <3>4. \A k \in 1..Len(<<e>>) : k = 1
      BY <3>1
    <3>5. \A k \in 1..Len(<<e>>) : <<e>>[k] = log[r][m - 1 + k]
      BY <3>3, <3>4
    <3>. QED
      BY <3>1, <3>2, <3>5 DEF Slice
  <2>9. m - 1 + 1 = m
    BY <2>6
  <2>10. answer'[t].events = <<e>> /\ log' = log
    BY <2>2, <2>4 DEF e
  <2>11. Remains(answer[t].events, i, r, m - 1, m)'
    <3>1. Slice(answer'[t].events, log'[r], m - 1, m) /\ log'[r][m].terminal
      BY <2>7, <2>8, <2>10
    <3>2. m = Len(log'[r])
      BY <2>10, <2>a
    <3>. QED
      BY <2>9, <3>1, <3>2 DEF Remains
  <2>. QED
    BY <2>6, <2>11
<1>5. CASE WritesOffer(t)
  <2>1. /\ status[r] = "running" /\ \E n \in Nat : Counts(t, n)
        /\ \E b \in Seq(Event) : /\ Adds(r, b) /\ b # <<>> /\ answer'[t].events = b
                                 /\ Last(b).terminal <=> Over(r)'
    BY <1>1, <1>2, <1>5, OfferAdds
  <2>2. PICK b \in Seq(Event) : Adds(r, b) /\ b # <<>> /\ answer'[t].events = b
    BY <2>1
  <2>3. PICK c \in Nat : Counts(t, c)
    BY <2>1
  <2>4. owner[r] = i
    BY <2>1, ConstantsAssumption DEF Ours, StoreInv, RunsOwned
  <2>5. \A v \in Tasks : ~Creates(v, i, r)'
    <3>1. \A v \in Tasks : ~Creates(v, i, r)
      BY <2>1, <2>4 DEF SlotInv, OwnerHasEntry
    <3>. QED
      BY <1>1, <3>1 DEF Creates, TypeInv, TypeOK
  <2>6. registry'[i][r] # None
    <3>1. registry[i][r] \in Entry
      BY <1>2, <2>3, EntryParts DEF Counts, Reg, TypeInv
    <3>. DEFINE f == [registry[i][r] EXCEPT !.seq = c]
    <3>2. f \in Entry
      BY <3>1 DEF Entry
    <3>3. registry'[i][r] = f
      BY <1>2, <2>3 DEF Counts, TypeInv, TypeOK
    <3>. HIDE DEF f
    <3>. QED
      BY <3>2, <3>3, NoneAssumption
  <2>7. /\ log[r] \in Seq(Event) /\ log'[r] = log[r] \o b /\ Len(log[r]) \in Nat /\ Len(b) \in Nat
        /\ Len(log'[r]) = Len(log[r]) + Len(b)
        /\ \A k \in 1..Len(b) : log'[r][Len(log[r]) + k] = b[k]
    <3>1. log[r] \in Seq(Event) /\ log'[r] = log[r] \o b
      BY <2>2, LogType DEF Adds, TypeInv
    <3>. QED
      BY <2>2, <3>1
  <2>8. Slice(b, log'[r], Len(log[r]), Len(log'[r]))
    <3>1. Len(log'[r]) - Len(log[r]) = Len(b)
      BY <2>7
    <3>. QED
      BY <2>2, <2>7, <3>1 DEF Slice
  <2>9. PICK n \in Nat, e \in Nat : n = Len(log[r]) /\ e = Len(log'[r])
    BY <2>7
  <2>10. Remains(answer[t].events, i, r, n, e)'
    <3>1. Slice(answer'[t].events, log'[r], n, e) /\ e = Len(log'[r])
      BY <2>2, <2>8, <2>9
    <3>2. Secure(i, r)'
      BY <2>5, <2>6 DEF Secure
    <3>. QED
      BY <3>1, <3>2 DEF Remains
  <2>. QED
    BY <2>9, <2>10
<1>. QED
  BY <1>1, <1>3, <1>4, <1>5

\* Publishing leaves the rest to publish.
LEMMA PendingPublish ==
  ASSUME Base, Base', LogInv, NEW t \in Tasks, Publish(t), NEW i \in Instances, NEW r \in Runs,
         PendingAt(t, i, r)
  PROVE  PendingAt(t, i, r)'
<1>. USE DEF Base
<1>. SUFFICES ASSUME Publishes(t, i, r)'
              PROVE  \E n, e \in Nat : Remains(answer[t].events, i, r, n, e)'
  BY DEF PendingAt
<1>1. /\ UNCHANGED <<storeVars, pc, call>> /\ answer[t].events # <<>> /\ pc[t] = "publish"
      /\ answer' = [answer EXCEPT ![t].events = Tail(@)]
  BY DEF Publish
<1>2. call[t].at = i /\ call[t].run = r /\ Publishes(t, i, r)
  BY <1>1 DEF Publishes
<1>3. PICK n \in Nat, e \in Nat : Remains(answer[t].events, i, r, n, e)
  BY <1>2 DEF PendingAt
<1>4. answer'[t].events = Tail(answer[t].events)
  BY <1>1 DEF TypeInv, TypeOK, Shape, Answers
<1>5. Tail(answer[t].events) # <<>>
  BY <1>4 DEF Publishes
<1>. DEFINE P == answer[t].events
            L == log[r]
<1>6. Slice(P, L, n, e) /\ P # <<>>
  BY <1>1, <1>3 DEF Remains
<1>7. n < e
  BY <1>6 DEF Slice
<1>8. Slice(Tail(P), L, n + 1, e)
  BY <1>6, <1>7, SliceTail
<1>. HIDE DEF P, L
<1>9. n + 1 < e
  <2>1. n + 1 \in Nat /\ Tail(P) # <<>>
    BY <1>5 DEF P
  <2>2. n + 1 # e
    BY <1>8, <2>1, SliceNone
  <2>. QED
    BY <1>7, <2>2
<1>. USE DEF P, L
<1>10. Len(L) \in Nat /\ e <= Len(L)
  BY <1>3, LogType DEF Remains, TypeInv
<1>11. ~L[n + 1].terminal
  <2>1. n + 1 \in 1..Len(L) /\ n + 1 # Len(L)
    BY <1>9, <1>10
  <2>. QED
    BY <2>1 DEF LogInv, LogOf
<1>12. Secure(i, r)
  BY <1>3, <1>11 DEF Remains
<1>13. Secure(i, r)'
  <2>1. ~InsertRun(t) /\ ~CreateRun(t) /\ ~Write(t) /\ ~Release(t) /\ Step(t)
    BY <1>1 DEF InsertRun, CreateRun, Write, Release, Step
  <2>2. registry'[i][r] # None
    BY <1>12, <2>1, EntriesKept DEF KeepsEntry, Secure
  <2>. QED
    BY <1>1, <1>12, <2>2 DEF Secure, Creates
<1>14. UNCHANGED <<log, status>>
  BY <1>1 DEF storeVars
<1>15. Remains(answer[t].events, i, r, n + 1, e)'
  BY <1>3, <1>4, <1>8, <1>13, <1>14 DEF Remains, Over
<1>. QED
  BY <1>15

\* Somebody else ends the log of a run, after what an operation has still to publish.
LEMMA PendingEnded ==
  ASSUME Base, LogInv, NEW r \in Runs, NEW j, Ends(r, j),
         NEW u \in Tasks, NEW i \in Instances, j # i, PendingAt(u, i, r),
         Publishes(u, i, r)' => Publishes(u, i, r), answer'[u] = answer[u],
         Publishes(u, i, r) /\ Secure(i, r) => Secure(i, r)'
  PROVE  PendingAt(u, i, r)'
<1>. USE DEF Base
<1>. SUFFICES ASSUME Publishes(u, i, r)'
              PROVE  \E n, m \in Nat : Remains(answer[u].events, i, r, n, m)'
  BY DEF PendingAt
<1>0. PICK e \in Event : e.by = j /\ Adds(r, <<e>>) /\ Over(r)'
  BY DEF Ends
<1>1. Publishes(u, i, r)
  OBVIOUS
<1>2. PICK n \in Nat, m \in Nat : Remains(answer[u].events, i, r, n, m)
  BY <1>1 DEF PendingAt
<1>. DEFINE L == log[r]
            G == log'[r]
<1>3. L \in Seq(Event) /\ Len(L) \in Nat /\ G = L \o <<e>> /\ ~Over(r)
  BY <1>0, LogType DEF TypeInv, Adds
<1>4. m = Len(L) /\ Slice(answer[u].events, L, n, m) /\ answer[u].events # <<>>
  BY <1>1, <1>2, <1>3 DEF Remains, Publishes
<1>5. n < m
  BY <1>4 DEF Slice
<1>6. Len(G) = Len(L) + 1 /\ G[Len(L) + 1] = e /\ G \in Seq(Event) /\ G # <<>>
      /\ \A k \in 1..Len(L) : G[k] = L[k]
  <2>. HIDE DEF L, G
  <2>. QED
    BY <1>3
<1>7. Last(G) = e
  BY <1>3, <1>6 DEF Last
<1>8. Slice(answer[u].events, G, n, m)
  <2>. DEFINE b == <<e>>
              P == answer[u].events
  <2>1. b \in Seq(Event) /\ G = L \o b /\ m <= Len(L) /\ Slice(P, L, n, m)
    BY <1>3, <1>4
  <2>. HIDE DEF b, L, G, P
  <2>2. Slice(P, L \o b, n, m)
    BY <1>3, <2>1, SliceGrows
  <2>. QED
    BY <2>1, <2>2 DEF P, G
<1>9. ~L[n + 1].terminal /\ G[n + 1] = L[n + 1]
  <2>1. n + 1 \in 1..Len(L)
    BY <1>3, <1>4, <1>5
  <2>. QED
    BY <1>3, <1>6, <2>1 DEF LogInv, LogOf
<1>10. Secure(i, r)
  BY <1>2, <1>9 DEF Remains
<1>11. Secure(i, r)'
  BY <1>1, <1>10
<1>12. e.by # i
  BY <1>0
<1>13. m = Len(G) - 1
  BY <1>3, <1>4, <1>6
<1>14. Remains(answer[u].events, i, r, n, m)'
  <2>. HIDE DEF L
  <2>. QED
    BY <1>0, <1>7, <1>8, <1>11, <1>12, <1>13 DEF Remains
<1>. QED
  BY <1>14

\* The operation that moves.
LEMMA PendingOwn ==
  ASSUME Base, Base', LogInv, LogInv', Pending, NEW t \in Tasks, Step(t),
         NEW i \in Instances, NEW r \in Runs, Ours(i, r)
  PROVE  PendingAt(t, i, r)'
<1>. USE DEF Base
<1>1. CASE Write(t)
  BY <1>1, PendingWrite
<1>2. CASE Publish(t)
  BY <1>2, PendingPublish DEF Pending
<1>3. CASE ListForDetach(t)
  <2>1. answer \in [Tasks -> Answers \cup {None}] /\ pc \in [Tasks -> Places]
    BY DEF TypeInv, TypeOK, LockInv, LockTypes
  <2>2. CASE Goto(t, "detach")
    BY <2>1, <2>2 DEF Goto, Publishes, PendingAt
  <2>3. ASSUME NEW k, answer' = [answer EXCEPT ![t] = Answer(k, <<>>)] PROVE PendingAt(t, i, r)'
    <3>1. answer'[t].events = <<>>
      BY <2>1, <2>3, AnswerKinds
    <3>. QED
      BY <3>1 DEF Publishes, PendingAt
  <2>. QED
    BY <1>3, <2>1, <2>2, <2>3, ListOutcomes
<1>4. CASE TailNext(t)
  <2>1. UNCHANGED <<status, log, registry, pc, call, answer>>
    BY <1>4 DEF TailNext, storeVars, taskVars
  <2>2. PendingAt(t, i, r)
    BY DEF Pending
  <2>3. Same(r) /\ (Secure(i, r) => Secure(i, r)') /\ (Publishes(t, i, r)' => Publishes(t, i, r))
    BY <2>1 DEF Same, Secure, Creates, Publishes, Over
  <2>. QED
    BY <2>1, <2>2, <2>3, PendingSame
<1>5. CASE Detach(t)
  <2>1. PICK k : answer' = [answer EXCEPT ![t] = Answer(k, <<>>)]
    <3>. DEFINE a == StoreAnswer(t, answer[t].events)
    <3>1. answer' = [answer EXCEPT ![t] =
            IF a.kind = "error" THEN Answer("kept", <<>>) ELSE Answer("gone", <<>>)]
      BY <1>5, Zenon DEF Detach
    <3>. HIDE DEF a
    <3>. QED
      BY <3>1
  <2>2. answer'[t].events = <<>>
    BY <2>1, AnswerKinds DEF TypeInv, TypeOK
  <2>. QED
    BY <2>2 DEF Publishes, PendingAt
<1>6. CASE ~(Write(t) \/ Publish(t) \/ ListForDetach(t) \/ TailNext(t) \/ Detach(t))
  <2>1. pc \in [Tasks -> Places]
    BY DEF LockInv, LockTypes
  <2>2. \/ Returns(t)
        \/ \E p \in Places \ {"publish"} : Goto(t, p)
    <3>1. CASE Release(t)
      BY <3>1, ReleaseOutcomes DEF Places
    <3>2. CASE ~Release(t)
      BY <1>6, <3>2 DEF Step, LookupStart, InsertRun, CreateRun, GetLock, Acquire, DropLock,
         Look, Attach, ListPage, FindCancelled, RequestCancel, MarkCancelled, Places
    <3>. QED
      BY <3>1, <3>2
  <2>3. pc'[t] # "publish"
    BY <2>1, <2>2 DEF Returns, Goto
  <2>. QED
    BY <2>3 DEF PendingAt, Publishes
<1>. QED
  BY <1>1, <1>2, <1>3, <1>4, <1>5, <1>6

\* The operations that do not.
LEMMA PendingOthers ==
  ASSUME Base, LogInv, Detachers, Pending, NEW t \in Tasks, Step(t), NEW u \in Tasks \ {t},
         NEW i \in Instances, NEW r \in Runs, Ours(i, r), Ours(i, r)'
  PROVE  PendingAt(u, i, r)'
<1>. USE DEF Base
<1>1. pc'[u] = pc[u] /\ call'[u] = call[u] /\ answer'[u] = answer[u]
  BY StepFrame
<1>2. PendingAt(u, i, r) /\ (Publishes(u, i, r)' <=> Publishes(u, i, r))
  BY <1>1 DEF Pending, Publishes
<1>3. Publishes(u, i, r) /\ Secure(i, r) => Secure(i, r)'
  BY SecureKept
<1>4. CASE Same(r)
  BY <1>1, <1>2, <1>3, <1>4, PendingSame
<1>5. CASE OfferOf(t, i, r)
  <2>1. pc[t] = "write"
    BY <1>5 DEF OfferOf, Write
  <2>2. ~Publishes(u, i, r)
    BY <1>5, <2>1, InsideOne DEF Publishes, Inside, OfferOf
  <2>. QED
    BY <1>2, <2>2 DEF PendingAt
<1>6. CASE EndOf(t, i, r)
  <2>1. PICK j : j # i /\ Ends(r, j)
    BY <1>6 DEF EndOf
  <2>. QED
    BY <1>1, <1>2, <1>3, <2>1, PendingEnded
<1>. QED
  BY <1>4, <1>5, <1>6, StepEnds

LEMMA PendingStep ==
  ASSUME Base, Base', LogInv, LogInv', Detachers, Pending, Next
  PROVE  Pending'
<1>. USE DEF Base
<1>. SUFFICES ASSUME NEW u \in Tasks, NEW i \in Instances, NEW r \in Runs, Ours(i, r)'
              PROVE  PendingAt(u, i, r)'
  BY DEF Pending
<1>0. Ours(i, r) /\ PendingAt(u, i, r)
  BY OursStep DEF Pending
<1>1. ASSUME NEW t \in Tasks, Step(t) PROVE PendingAt(u, i, r)'
  BY <1>0, <1>1, PendingOwn, PendingOthers
<1>2. ASSUME NEW q \in Runs, Lapse(q) \/ Reap(q) PROVE PendingAt(u, i, r)'
  <2>1. UNCHANGED <<pc, call, answer, registry>>
    BY <1>2 DEF Lapse, Reap, taskVars
  <2>2. (Publishes(u, i, r)' => Publishes(u, i, r)) /\ (Secure(i, r) => Secure(i, r)') /\ answer'[u] = answer[u]
    BY <2>1 DEF Publishes, Secure, Creates
  <2>3. CASE Same(r)
    BY <1>0, <2>2, <2>3, PendingSame
  <2>4. CASE ~Same(r)
    <3>1. Ends(r, None) /\ None # i
      BY <1>2, <2>4, ReapLogs, ConstantsAssumption
    <3>. QED
      BY <1>0, <2>2, <3>1, PendingEnded
  <2>. QED
    BY <2>3, <2>4
<1>3. ASSUME NEW t \in Tasks, NEW c \in Call, Begin(t, c) PROVE PendingAt(u, i, r)'
  <2>1. /\ \A v \in Tasks \ {t} : pc'[v] = pc[v] /\ call'[v] = call[v]
        /\ pc'[t] \in {"lookup", "look", "find", "getLock"} /\ answer' = answer
    BY <1>3, BeginFrame
  <2>2. registry' = registry /\ Same(r)
    BY <1>3 DEF Begin, storeVars, Same, Over
  <2>3. (Publishes(u, i, r)' => Publishes(u, i, r)) /\ (Secure(i, r) => Secure(i, r)')
    BY <2>1, <2>2 DEF Publishes, Secure, Creates
  <2>. QED
    BY <1>0, <2>1, <2>2, <2>3, PendingSame
<1>4. ASSUME Quiet PROVE PendingAt(u, i, r)'
  <2>1. UNCHANGED <<status, log, registry, pc, call, answer>>
    BY <1>4 DEF Quiet, vars, storeVars, taskVars
  <2>2. (Publishes(u, i, r)' => Publishes(u, i, r)) /\ (Secure(i, r) => Secure(i, r)')
    BY <2>1 DEF Publishes, Secure, Creates
  <2>3. Same(r)
    BY <2>1 DEF Same, Over
  <2>. QED
    BY <1>0, <2>1, <2>2, <2>3, PendingSame
<1>. QED
  BY <1>1, <1>2, <1>3, <1>4 DEF Next

-----------------------------------------------------------------------------
(* What the steps of following do, field by field.                         *)

\* All of a subscription but its buffer stays.
Refilled(u, b) ==
  /\ sub[u] # None /\ sub'[u] # None /\ sub'[u].buffer = b
  /\ sub'[u].at = sub[u].at /\ sub'[u].run = sub[u].run /\ sub'[u].state = sub[u].state
  /\ sub'[u].start = sub[u].start /\ sub'[u].cursor = sub[u].cursor /\ sub'[u].got = sub[u].got

\* An entry that is still open and has t among its senders.
Receives(t, i, r) ==
  registry[i][r] # None /\ t \in registry[i][r].senders /\ ~registry[i][r].published

\* The senders and the flag of an entry stay.
EntrySame(j, q) ==
  /\ registry'[j][q] = None <=> registry[j][q] = None
  /\ registry[j][q] # None => /\ registry'[j][q].senders = registry[j][q].senders
                              /\ registry'[j][q].published = registry[j][q].published

LEMMA SubParts ==
  ASSUME TypeOK, NEW t \in Tasks, sub[t] # None
  PROVE  /\ sub[t] \in Subscription /\ sub[t].at \in Instances /\ sub[t].run \in Runs
         /\ sub[t].start \in Nat /\ sub[t].cursor \in Nat
         /\ sub[t].buffer \in Seq(Event) /\ sub[t].got \in Seq(Event)
<1>1. sub[t] \in Subscription
  BY DEF TypeOK
<1>. QED
  BY <1>1 DEF Subscription

\* One entry of the registry is replaced.
LEMMA EntryPut ==
  ASSUME TypeOK, NEW i \in Instances, NEW r \in Runs, NEW e, registry' = [registry EXCEPT ![i][r] = e]
  PROVE  /\ registry'[i][r] = e
         /\ \A j \in Instances, q \in Runs : <<j, q>> # <<i, r>> => registry'[j][q] = registry[j][q]
BY DEF TypeOK

LEMMA SameEntries ==
  ASSUME UNCHANGED registry PROVE \A j \in Instances, q \in Runs : EntrySame(j, q)
BY DEF EntrySame

LEMMA SubPut ==
  ASSUME TypeOK, NEW t \in Tasks, NEW s, sub' = [sub EXCEPT ![t] = s]
  PROVE  sub'[t] = s /\ \A u \in Tasks \ {t} : sub'[u] = sub[u]
BY DEF TypeOK

LEMMA PublishOutcome ==
  ASSUME TypeInv, NEW t \in Tasks, Publish(t), NEW i, NEW r, i = call[t].at, r = call[t].run,
         NEW e, e = Head(answer[t].events)
  PROVE  /\ i \in Instances /\ r \in Runs /\ pc[t] = "publish" /\ answer[t].events # <<>>
         /\ UNCHANGED <<status, log, pc, call, lockRef>>
         /\ answer'[t].events = Tail(answer[t].events)
         /\ \A u \in Tasks : answer'[u] = answer[u] \/ u = t
         /\ \A u \in Tasks : Receives(u, i, r) => Refilled(u, Append(sub[u].buffer, e))
         /\ \A u \in Tasks : ~Receives(u, i, r) => sub'[u] = sub[u]
         /\ \A j \in Instances, q \in Runs : <<j, q>> # <<i, r>> => registry'[j][q] = registry[j][q]
         /\ registry'[i][r] = None <=> registry[i][r] = None
         /\ registry[i][r] # None =>
              /\ registry'[i][r].senders = registry[i][r].senders
              /\ registry'[i][r].published <=> (registry[i][r].published \/ e.terminal)
<1>. DEFINE live == registry[i][r] # None /\ ~registry[i][r].published
<1>1. /\ pc[t] = "publish" /\ answer[t].events # <<>>
      /\ sub' = [u \in Tasks |-> IF live /\ u \in registry[i][r].senders
                                   THEN [sub[u] EXCEPT !.buffer = Append(@, e)] ELSE sub[u]]
      /\ registry' = IF ~live THEN registry ELSE [registry EXCEPT ![i][r].published = e.terminal]
      /\ answer' = [answer EXCEPT ![t].events = Tail(@)]
      /\ UNCHANGED <<storeVars, lockMap, holder, pc, call, lockRef, calls>>
  BY DEF Publish, Reg
<1>2. call[t] \in Call /\ answer[t] \in Answers
  BY <1>1 DEF TypeInv, TypeOK, Shape
<1>3. i \in Instances /\ r \in Runs
  BY <1>2, CallParts
<1>4. e \in Event
  BY <1>1, <1>2 DEF Answers
<1>5. e.terminal \in BOOLEAN
  BY <1>4 DEF Event
<1>6. answer'[t].events = Tail(answer[t].events) /\ \A u \in Tasks : answer'[u] = answer[u] \/ u = t
  BY <1>1, <1>2 DEF TypeInv, TypeOK, Answers
<1>7. ASSUME NEW u \in Tasks, Receives(u, i, r) PROVE Refilled(u, Append(sub[u].buffer, e))
  <2>1. sub[u] # None
    BY <1>3, <1>7 DEF TypeInv, SendersKnown, Receives
  <2>2. sub[u] \in Subscription
    BY <2>1 DEF TypeInv, TypeOK
  <2>3. Append(sub[u].buffer, e) \in Seq(Event)
    BY <1>4, <2>2 DEF Subscription
  <2>. DEFINE b == Append(sub[u].buffer, e)
              s == [sub[u] EXCEPT !.buffer = b]
  <2>4. sub'[u] = s
    BY <1>1, <1>7 DEF Receives
  <2>. HIDE DEF b
  <2>5. s \in Subscription
    BY <2>2, <2>3 DEF Subscription, b
  <2>6. /\ s.buffer = b /\ s.at = sub[u].at /\ s.run = sub[u].run /\ s.state = sub[u].state
        /\ s.start = sub[u].start /\ s.cursor = sub[u].cursor /\ s.got = sub[u].got
    BY <2>2 DEF Subscription
  <2>7. s # None
    BY <2>5, NoneAssumption
  <2>. HIDE DEF s
  <2>. QED
    BY <2>1, <2>4, <2>6, <2>7 DEF Refilled, b
<1>8. \A u \in Tasks : ~Receives(u, i, r) => sub'[u] = sub[u]
  BY <1>1 DEF Receives
<1>9. /\ \A j \in Instances, q \in Runs : <<j, q>> # <<i, r>> => registry'[j][q] = registry[j][q]
      /\ registry'[i][r] = None <=> registry[i][r] = None
      /\ registry[i][r] # None =>
              /\ registry'[i][r].senders = registry[i][r].senders
              /\ registry'[i][r].published <=> (registry[i][r].published \/ e.terminal)
  <2>1. CASE ~live
    BY <1>1, <2>1
  <2>2. CASE live
    <3>. DEFINE f == [registry[i][r] EXCEPT !.published = e.terminal]
    <3>1. registry[i][r] \in Entry
      BY <1>3, <2>2, EntryParts DEF TypeInv
    <3>2. f \in Entry /\ f.senders = registry[i][r].senders /\ f.published = e.terminal
      BY <1>5, <3>1 DEF Entry
    <3>3. registry' = [registry EXCEPT ![i][r] = f]
      BY <1>1, <2>2
    <3>. HIDE DEF f
    <3>4. registry'[i][r] = f
          /\ \A j \in Instances, q \in Runs : <<j, q>> # <<i, r>> => registry'[j][q] = registry[j][q]
      BY <1>3, <3>3 DEF TypeInv, TypeOK
    <3>. QED
      BY <2>2, <3>2, <3>4, NoneAssumption
  <2>. QED
    BY <2>1, <2>2
<1>10. UNCHANGED <<status, log, pc, call, lockRef>>
  BY <1>1 DEF storeVars
<1>. QED
  BY <1>1, <1>3, <1>6, <1>7, <1>8, <1>9, <1>10

LEMMA LookOutcome ==
  ASSUME TypeInv, NEW t \in Tasks, \E from \in {0, 1} : Look(t, from),
         NEW i, NEW r, i = call[t].at, r = call[t].run
  PROVE  /\ i \in Instances /\ r \in Runs /\ pc[t] = "look"
         /\ UNCHANGED <<status, log, registry>>
         /\ \A u \in Tasks \ {t} : sub'[u] = sub[u]
         /\ \/ pc'[t] = "idle" /\ sub'[t] = sub[t]
            \/ /\ status[r] # "absent" /\ sub'[t] # None /\ sub'[t].at = i /\ sub'[t].run = r
               /\ \/ pc'[t] = "page" /\ sub'[t].state = "listing" /\ Over(r)
                  \/ pc'[t] = "attach" /\ sub'[t].state = "attaching"
               /\ sub[t] # None => /\ sub[t].run = r /\ sub'[t].buffer = sub[t].buffer
                                   /\ sub'[t].start = sub[t].start /\ sub'[t].cursor = sub[t].cursor
                                   /\ sub'[t].got = sub[t].got
               /\ sub[t] = None => /\ sub'[t].buffer = <<>> /\ sub'[t].got = <<>>
                                   /\ sub'[t].start \in Nat /\ sub'[t].cursor = sub'[t].start
<1>. PICK from \in {0, 1} : Look(t, from)
  OBVIOUS
<1>. DEFINE state == IF Over(r) THEN "listing" ELSE "attaching"
            old == [sub[t] EXCEPT !.at = i, !.state = state]
            new == [at |-> i, run |-> r, start |-> from, cursor |-> from,
                    state |-> state, buffer |-> <<>>, got |-> <<>>]
<1>1. call[t] \in Call /\ pc[t] = "look" /\ UNCHANGED <<storeVars, registry>>
      /\ (sub[t] # None => sub[t].run = r)
  BY DEF Look, TypeInv, Shape
<1>2. i \in Instances /\ r \in Runs
  BY <1>1, CallParts
<1>3. UNCHANGED <<status, log, registry>>
  BY <1>1 DEF storeVars
<1>4. \/ Returns(t) /\ UNCHANGED sub
      \/ /\ status[r] # "absent"
         /\ sub' = [sub EXCEPT ![t] = IF sub[t] # None THEN old ELSE new]
         /\ Goto(t, IF Over(r) THEN "page" ELSE "attach")
  <2>1. CASE status[r] = "absent"
    BY <2>1, Zenon DEF Look
  <2>2. CASE status[r] # "absent"
    BY <2>2, Zenon DEF Look
  <2>. QED
    BY <2>1, <2>2
<1>5. CASE Returns(t) /\ UNCHANGED sub
  BY <1>1, <1>2, <1>3, <1>5, ReturnsType DEF TypeInv
<1>6. CASE /\ status[r] # "absent"
           /\ sub' = [sub EXCEPT ![t] = IF sub[t] # None THEN old ELSE new]
           /\ Goto(t, IF Over(r) THEN "page" ELSE "attach")
  <2>1. /\ pc' = [pc EXCEPT ![t] = IF Over(r) THEN "page" ELSE "attach"]
        /\ pc \in [Tasks -> Places]
    BY <1>6 DEF Goto, TypeInv, TypeOK, Places
  <2>2. \/ pc'[t] = "page" /\ state = "listing" /\ Over(r)
        \/ pc'[t] = "attach" /\ state = "attaching"
    BY <2>1
  <2>3. /\ sub'[t] = IF sub[t] # None THEN old ELSE new
        /\ \A u \in Tasks \ {t} : sub'[u] = sub[u]
    BY <1>6 DEF TypeInv, TypeOK
  <2>4. state \in {"listing", "attaching"}
    OBVIOUS
  <2>. HIDE DEF state
  <2>5. sub[t] # None => /\ old \in Subscription /\ old.at = i /\ old.run = sub[t].run /\ old.state = state
                         /\ old.buffer = sub[t].buffer /\ old.start = sub[t].start
                         /\ old.cursor = sub[t].cursor /\ old.got = sub[t].got
    <3>1. sub[t] # None => sub[t] \in Subscription
      BY DEF TypeInv, TypeOK
    <3>. QED
      BY <1>2, <2>4, <3>1 DEF Subscription
  <2>6. /\ new \in Subscription /\ new.at = i /\ new.run = r /\ new.state = state
        /\ new.buffer = <<>> /\ new.got = <<>> /\ new.start = from /\ new.cursor = from /\ from \in Nat
    BY <1>2, <2>4 DEF Subscription
  <2>. HIDE DEF old, new
  <2>7. CASE sub[t] # None
    <3>1. sub'[t] = old /\ old # None
      BY <2>3, <2>5, <2>7, NoneAssumption
    <3>. QED
      BY <1>1, <1>2, <1>3, <1>6, <2>2, <2>3, <2>5, <2>7, <3>1
  <2>8. CASE sub[t] = None
    <3>1. sub'[t] = new /\ new # None
      BY <2>3, <2>6, <2>8, NoneAssumption
    <3>. QED
      BY <1>1, <1>2, <1>3, <1>6, <2>2, <2>3, <2>6, <2>8, <3>1
  <2>. QED
    BY <2>7, <2>8
<1>. QED
  BY <1>4, <1>5, <1>6

LEMMA AttachOutcome ==
  ASSUME TypeInv, NEW t \in Tasks, Attach(t), NEW i, NEW r, i = call[t].at, r = call[t].run
  PROVE  /\ i \in Instances /\ r \in Runs /\ pc[t] = "attach"
         /\ sub[t] # None /\ sub[t].at = i /\ sub[t].run = r
         /\ UNCHANGED <<status, log>>
         /\ \/ /\ pc'[t] = "page" /\ UNCHANGED <<sub, call, answer>>
               /\ registry[i][r] # None /\ ~registry[i][r].published
               /\ registry'[i][r] # None /\ ~registry'[i][r].published
               /\ registry'[i][r].senders = registry[i][r].senders \cup {t}
               /\ Receives(t, i, r)'
               /\ \A j \in Instances, q \in Runs : <<j, q>> # <<i, r>> => registry'[j][q] = registry[j][q]
            \/ /\ pc'[t] = "idle" /\ UNCHANGED registry
               /\ sub'[t] # None /\ sub'[t].state = "NotOwner"
               /\ sub'[t].at = sub[t].at /\ sub'[t].run = sub[t].run /\ sub'[t].buffer = sub[t].buffer
               /\ sub'[t].start = sub[t].start /\ sub'[t].cursor = sub[t].cursor /\ sub'[t].got = sub[t].got
               /\ \A u \in Tasks \ {t} : sub'[u] = sub[u]
<1>1. call[t] \in Call /\ pc[t] = "attach" /\ UNCHANGED storeVars
      /\ sub[t] # None /\ sub[t].at = i /\ sub[t].run = r
  BY DEF Attach, TypeInv, Shape
<1>2. i \in Instances /\ r \in Runs
  BY <1>1, CallParts
<1>3. UNCHANGED <<status, log>>
  BY <1>1 DEF storeVars
<1>. DEFINE e == [registry[i][r] EXCEPT !.senders = @ \cup {t}]
            s == [sub[t] EXCEPT !.state = "NotOwner"]
<1>4. \/ /\ registry[i][r] # None /\ ~registry[i][r].published
         /\ registry' = [registry EXCEPT ![i][r] = e]
         /\ Goto(t, "page") /\ UNCHANGED <<sub, call, answer>>
      \/ sub' = [sub EXCEPT ![t] = s] /\ Returns(t) /\ UNCHANGED registry
  BY DEF Attach, Reg
<1>5. CASE /\ registry[i][r] # None /\ ~registry[i][r].published
           /\ registry' = [registry EXCEPT ![i][r] = e]
           /\ Goto(t, "page") /\ UNCHANGED <<sub, call, answer>>
  <2>1. registry[i][r] \in Entry
    BY <1>2, <1>5, EntryParts DEF TypeInv
  <2>2. e \in Entry /\ e.senders = registry[i][r].senders \cup {t} /\ e.published = registry[i][r].published
    BY <2>1 DEF Entry
  <2>3. pc'[t] = "page"
    BY <1>5, GotoType DEF TypeInv, Places
  <2>. HIDE DEF e
  <2>4. /\ registry'[i][r] = e
        /\ \A j \in Instances, q \in Runs : <<j, q>> # <<i, r>> => registry'[j][q] = registry[j][q]
    BY <1>2, <1>5 DEF TypeInv, TypeOK
  <2>5. e # None
    BY <2>2, NoneAssumption
  <2>6. Receives(t, i, r)'
    BY <1>5, <2>2, <2>4, <2>5 DEF Receives
  <2>. QED
    BY <1>1, <1>2, <1>3, <1>5, <2>2, <2>3, <2>4, <2>5, <2>6
<1>6. CASE sub' = [sub EXCEPT ![t] = s] /\ Returns(t) /\ UNCHANGED registry
  <2>1. sub[t] \in Subscription
    BY <1>1, SubParts DEF TypeInv
  <2>2. /\ s \in Subscription /\ s.state = "NotOwner" /\ s.at = sub[t].at /\ s.run = sub[t].run
        /\ s.buffer = sub[t].buffer /\ s.start = sub[t].start /\ s.cursor = sub[t].cursor /\ s.got = sub[t].got
    BY <2>1 DEF Subscription
  <2>. HIDE DEF s
  <2>3. sub'[t] = s /\ \A u \in Tasks \ {t} : sub'[u] = sub[u]
    BY <1>6 DEF TypeInv, TypeOK
  <2>4. s # None
    BY <2>2, NoneAssumption
  <2>5. pc'[t] = "idle"
    BY <1>6, ReturnsType DEF TypeInv
  <2>. QED
    BY <1>1, <1>2, <1>3, <1>6, <2>2, <2>3, <2>4, <2>5
<1>. QED
  BY <1>4, <1>5, <1>6

\* list_events answers a full page: there may be more.
Full(t) == Len(Rest(t)) > ReplayLimit
Drops(t, i, r) == registry'[i][r].senders = registry[i][r].senders \ {t}

LEMMA PageOutcome ==
  ASSUME TypeInv, NEW t \in Tasks, ListPage(t), NEW i, NEW r, i = call[t].at, r = call[t].run
  PROVE  /\ i \in Instances /\ r \in Runs /\ pc[t] = "page" /\ pc'[t] = "idle"
         /\ sub[t] # None /\ sub[t].at = i /\ sub[t].run = r
         /\ UNCHANGED <<status, log>>
         /\ \A u \in Tasks \ {t} : sub'[u] = sub[u]
         /\ sub'[t] # None /\ sub'[t].at = i /\ sub'[t].run = r /\ sub'[t].start = sub[t].start
         /\ sub'[t].got = sub[t].got \o Page(t)
         /\ sub'[t].cursor = IF Page(t) = <<>> THEN sub[t].cursor ELSE Last(Page(t)).seq
         /\ \A j \in Instances, q \in Runs : <<j, q>> # <<i, r>> => registry'[j][q] = registry[j][q]
         /\ Full(t) => /\ sub'[t].state = "Replay" /\ sub'[t].buffer = <<>>
                       /\ registry'[i][r] = None <=> registry[i][r] = None
                       /\ registry[i][r] # None =>
                            /\ Drops(t, i, r)
                            /\ registry'[i][r].published = registry[i][r].published
         /\ ~Full(t) => /\ UNCHANGED registry /\ sub'[t].buffer = sub[t].buffer
                        /\ sub[t].state = "attaching" => sub'[t].state = "Active"
                        /\ sub[t].state # "attaching" => sub'[t].state = "Inactive"
<1>1. pc[t] = "page"
  BY DEF ListPage
<1>2. call[t] \in Call /\ sub[t] # None /\ sub[t].at = i /\ sub[t].run = r
  BY <1>1 DEF TypeInv, Shape
<1>3. i \in Instances /\ r \in Runs
  BY <1>2, CallParts
<1>4. /\ sub[t] \in Subscription /\ Page(t) \in Seq(Event) /\ (Page(t) # <<>> => Last(Page(t)) \in Event)
      /\ Len(Rest(t)) \in Nat
  BY <1>2, PageType DEF TypeInv, TypeOK
<1>5. Returns(t) /\ UNCHANGED storeVars
      /\ registry' = IF Len(Rest(t)) > ReplayLimit /\ registry[i][r] # None
            THEN [registry EXCEPT ![i][r].senders = @ \ {t}] ELSE registry
  BY <1>2, <1>4, ListPageOutcomes DEF Reg
<1>6. PICK state \in {"Replay", "Active", "Inactive"} :
        PageState(t, state) /\ sub' = [sub EXCEPT ![t] = Paged(t, state)]
  BY <1>4, ListPageOutcomes
<1>. DEFINE s == Paged(t, state)
            got == sub[t].got \o Page(t)
            cursor == IF Page(t) = <<>> THEN sub[t].cursor ELSE Last(Page(t)).seq
            buffer == IF Len(Rest(t)) > ReplayLimit THEN <<>> ELSE sub[t].buffer
<1>7. got \in Seq(Event) /\ cursor \in Nat /\ buffer \in Seq(Event)
  <2>1. sub[t].got \in Seq(Event) /\ sub[t].cursor \in Nat /\ sub[t].buffer \in Seq(Event)
    BY <1>2, SubParts DEF TypeInv
  <2>2. Page(t) # <<>> => Last(Page(t)).seq \in Nat
    BY <1>4 DEF Event
  <2>. QED
    BY <1>4, <2>1, <2>2
<1>8. s = [sub[t] EXCEPT !.got = got, !.cursor = cursor, !.buffer = buffer, !.state = state]
  BY DEF Paged
<1>. HIDE DEF got, cursor, buffer, s
<1>9. /\ s \in Subscription /\ s.at = sub[t].at /\ s.run = sub[t].run /\ s.start = sub[t].start
      /\ s.got = got /\ s.cursor = cursor /\ s.buffer = buffer /\ s.state = state
  BY <1>4, <1>7, <1>8 DEF Subscription
<1>10. s # None
  BY <1>9, NoneAssumption
<1>11. sub'[t] = s /\ \A u \in Tasks \ {t} : sub'[u] = sub[u]
  BY <1>6 DEF TypeInv, TypeOK, s
<1>12. pc'[t] = "idle" /\ UNCHANGED <<status, log>>
  BY <1>5, ReturnsType DEF TypeInv, storeVars
<1>13. ReplayLimit \in Nat
  BY ConstantsAssumption
<1>14. CASE Full(t)
  <2>1. state = "Replay" /\ buffer = <<>>
    BY <1>6, <1>14 DEF PageState, buffer, Full
  <2>2. CASE registry[i][r] # None
    <3>. DEFINE e == [registry[i][r] EXCEPT !.senders = @ \ {t}]
    <3>1. registry[i][r] \in Entry
      BY <1>3, <2>2, EntryParts DEF TypeInv
    <3>2. e \in Entry /\ e.senders = registry[i][r].senders \ {t} /\ e.published = registry[i][r].published
      BY <3>1 DEF Entry
    <3>3. registry' = [registry EXCEPT ![i][r] = e]
      BY <1>5, <1>14, <2>2 DEF Full
    <3>. HIDE DEF e
    <3>4. /\ registry'[i][r] = e
          /\ \A j \in Instances, q \in Runs : <<j, q>> # <<i, r>> => registry'[j][q] = registry[j][q]
      BY <1>3, <3>3 DEF TypeInv, TypeOK
    <3>5. e # None
      BY <3>2, NoneAssumption
    <3>. QED
      BY <1>1, <1>2, <1>3, <1>9, <1>10, <1>11, <1>12, <1>14, <2>1, <2>2, <3>2, <3>4, <3>5 DEF got, cursor, Drops
  <2>3. CASE registry[i][r] = None
    <3>1. registry' = registry
      BY <1>5, <2>3
    <3>. QED
      BY <1>1, <1>2, <1>3, <1>9, <1>10, <1>11, <1>12, <1>14, <2>1, <2>3, <3>1 DEF got, cursor
  <2>. QED
    BY <2>2, <2>3
<1>15. CASE ~Full(t)
  <2>1. Len(Rest(t)) <= ReplayLimit /\ registry' = registry
    BY <1>4, <1>5, <1>13, <1>15 DEF Full
  <2>2. buffer = sub[t].buffer
    BY <1>15 DEF buffer, Full
  <2>3. state = IF sub[t].state = "attaching" THEN "Active" ELSE "Inactive"
    BY <1>6, <2>1 DEF PageState
  <2>. QED
    BY <1>1, <1>2, <1>3, <1>9, <1>10, <1>11, <1>12, <1>15, <2>1, <2>2, <2>3 DEF got, cursor
<1>. QED
  BY <1>14, <1>15

LEMMA TailOutcome ==
  ASSUME TypeInv, NEW t \in Tasks, TailNext(t), NEW e, e = Head(sub[t].buffer)
  PROVE  /\ sub[t] # None /\ sub[t].state = "Active" /\ sub[t].buffer # <<>>
         /\ UNCHANGED <<status, log, registry, pc, call, answer>>
         /\ \A u \in Tasks \ {t} : sub'[u] = sub[u]
         /\ \/ e.seq <= sub[t].cursor /\ Refilled(t, Tail(sub[t].buffer))
            \/ /\ ~(e.seq <= sub[t].cursor) /\ sub'[t] # None
               /\ sub'[t].at = sub[t].at /\ sub'[t].run = sub[t].run /\ sub'[t].state = sub[t].state
               /\ sub'[t].start = sub[t].start /\ sub'[t].buffer = Tail(sub[t].buffer)
               /\ sub'[t].got = Append(sub[t].got, e) /\ sub'[t].cursor = e.seq
<1>. DEFINE skip == [sub[t] EXCEPT !.buffer = Tail(@)]
            take == [sub[t] EXCEPT !.buffer = Tail(@), !.got = Append(@, e), !.cursor = e.seq]
<1>1. sub[t] # None /\ sub[t].state = "Active" /\ sub[t].buffer # <<>>
      /\ UNCHANGED <<storeVars, registry, lockMap, holder, taskVars>>
      /\ sub' = [sub EXCEPT ![t] = IF e.seq <= sub[t].cursor THEN skip ELSE take]
  BY DEF TailNext
<1>2. sub[t] \in Subscription /\ sub[t].buffer \in Seq(Event)
  BY <1>1, SubParts DEF TypeInv
<1>3. e \in Event /\ Tail(sub[t].buffer) \in Seq(Event)
  BY <1>1, <1>2
<1>4. UNCHANGED <<status, log, registry, pc, call, answer>>
  BY <1>1 DEF storeVars, taskVars
<1>. DEFINE got == Append(sub[t].got, e)
            buffer == Tail(sub[t].buffer)
            n == e.seq
<1>5. got \in Seq(Event) /\ buffer \in Seq(Event) /\ n \in Nat
  BY <1>2, <1>3 DEF Subscription, Event
<1>6. take = [sub[t] EXCEPT !.buffer = buffer, !.got = got, !.cursor = n] /\ skip = [sub[t] EXCEPT !.buffer = buffer]
  OBVIOUS
<1>. HIDE DEF got, buffer, n, take, skip
<1>7. /\ take \in Subscription /\ take.at = sub[t].at /\ take.run = sub[t].run /\ take.state = sub[t].state
      /\ take.start = sub[t].start /\ take.buffer = buffer /\ take.got = got /\ take.cursor = n
  BY <1>2, <1>5, <1>6 DEF Subscription
<1>8. /\ skip \in Subscription /\ skip.at = sub[t].at /\ skip.run = sub[t].run /\ skip.state = sub[t].state
      /\ skip.start = sub[t].start /\ skip.buffer = buffer /\ skip.got = sub[t].got /\ skip.cursor = sub[t].cursor
  BY <1>2, <1>5, <1>6 DEF Subscription
<1>9. sub'[t] = (IF e.seq <= sub[t].cursor THEN skip ELSE take) /\ \A u \in Tasks \ {t} : sub'[u] = sub[u]
  BY <1>1 DEF TypeInv, TypeOK
<1>10. CASE e.seq <= sub[t].cursor
  <2>1. sub'[t] = skip /\ skip # None
    BY <1>8, <1>9, <1>10, NoneAssumption
  <2>2. Refilled(t, Tail(sub[t].buffer))
    BY <1>1, <1>8, <2>1 DEF Refilled, buffer
  <2>. QED
    BY <1>1, <1>4, <1>9, <1>10, <2>2
<1>11. CASE ~(e.seq <= sub[t].cursor)
  <2>1. sub'[t] = take /\ take # None
    BY <1>7, <1>9, <1>11, NoneAssumption
  <2>. QED
    BY <1>1, <1>4, <1>7, <1>9, <1>11, <2>1 DEF got, buffer, n
<1>. QED
  BY <1>10, <1>11

\* The senders of an entry were there before.
NoNewSenders(j, q) ==
  registry'[j][q] # None =>
    \A u \in registry'[j][q].senders : registry[j][q] # None /\ u \in registry[j][q].senders

LEMMA SameSenders ==
  ASSUME NEW j, NEW q, EntrySame(j, q) \/ registry'[j][q] = None
  PROVE  NoNewSenders(j, q)
BY DEF EntrySame, NoNewSenders

LEMMA InsertOutcome ==
  ASSUME TypeInv, NEW t \in Tasks, InsertRun(t), NEW i, NEW r, i = call[t].at, r = call[t].run
  PROVE  /\ i \in Instances /\ r \in Runs /\ pc[t] = "insert" /\ pc'[t] \in {"idle", "create"}
         /\ UNCHANGED <<status, log, sub>>
         /\ \A j \in Instances, q \in Runs : <<j, q>> # <<i, r>> => registry'[j][q] = registry[j][q]
         /\ \/ UNCHANGED registry /\ pc'[t] = "idle"
            \/ registry[i][r] = None /\ registry'[i][r] # None /\ registry'[i][r].senders = {}
<1>. DEFINE e == [seq |-> 0, published |-> FALSE, cancelled |-> FALSE, senders |-> {}]
<1>1. pc[t] = "insert" /\ call[t] \in Call /\ UNCHANGED storeVars /\ UNCHANGED sub
  BY DEF InsertRun, TypeInv, Shape
<1>2. i \in Instances /\ r \in Runs /\ UNCHANGED <<status, log>>
  BY <1>1, CallParts DEF storeVars
<1>3. \/ Returns(t) /\ UNCHANGED registry
      \/ registry[i][r] = None /\ registry' = [registry EXCEPT ![i][r] = e] /\ Goto(t, "create")
  BY DEF InsertRun
<1>4. CASE Returns(t) /\ UNCHANGED registry
  BY <1>1, <1>2, <1>4, ReturnsType DEF TypeInv
<1>5. CASE registry[i][r] = None /\ registry' = [registry EXCEPT ![i][r] = e] /\ Goto(t, "create")
  <2>1. e \in Entry /\ e.senders = {}
    BY DEF Entry
  <2>. HIDE DEF e
  <2>2. e # None
    BY <2>1, NoneAssumption
  <2>3. /\ registry'[i][r] = e
        /\ \A j \in Instances, q \in Runs : <<j, q>> # <<i, r>> => registry'[j][q] = registry[j][q]
    BY <1>2, <1>5 DEF TypeInv, TypeOK
  <2>4. pc'[t] = "create"
    BY <1>5, GotoType DEF TypeInv, Places
  <2>. QED
    BY <1>1, <1>2, <1>5, <2>1, <2>2, <2>3, <2>4
<1>. QED
  BY <1>3, <1>4, <1>5

LEMMA CreateOutcome ==
  ASSUME TypeInv, NEW t \in Tasks, CreateRun(t), NEW i, NEW r, i = call[t].at, r = call[t].run
  PROVE  /\ i \in Instances /\ r \in Runs /\ pc[t] = "create" /\ pc'[t] = "idle"
         /\ UNCHANGED <<log, sub>>
         /\ \/ /\ UNCHANGED status /\ registry'[i][r] = None
               /\ \A j \in Instances, q \in Runs : <<j, q>> # <<i, r>> => registry'[j][q] = registry[j][q]
            \/ /\ UNCHANGED registry /\ status[r] = "absent" /\ status'[r] = "running"
               /\ \A q \in Runs \ {r} : status'[q] = status[q]
<1>1. pc[t] = "create" /\ call[t] \in Call /\ UNCHANGED <<log, sub>> /\ Returns(t)
  BY DEF CreateRun, TypeInv, Shape
<1>2. i \in Instances /\ r \in Runs /\ pc'[t] = "idle"
  BY <1>1, CallParts, ReturnsType DEF TypeInv
<1>3. \/ UNCHANGED status /\ registry' = [registry EXCEPT ![i][r] = None]
      \/ status[r] = "absent" /\ status' = [status EXCEPT ![r] = "running"] /\ UNCHANGED registry
  BY <1>2 DEF CreateRun, Blocked
<1>4. CASE UNCHANGED status /\ registry' = [registry EXCEPT ![i][r] = None]
  BY <1>1, <1>2, <1>4 DEF TypeInv, TypeOK
<1>5. CASE status[r] = "absent" /\ status' = [status EXCEPT ![r] = "running"] /\ UNCHANGED registry
  BY <1>1, <1>2, <1>5 DEF TypeInv, TypeOK
<1>. QED
  BY <1>3, <1>4, <1>5

LEMMA ReleaseOutcome ==
  ASSUME TypeInv, StoreInv, NEW t \in Tasks, Release(t), NEW i, NEW r, i = call[t].at, r = call[t].run
  PROVE  /\ i \in Instances /\ r \in Runs /\ pc[t] = "publish" /\ pc'[t] \in {"idle", "dropLock"}
         /\ answer[t].events = <<>> /\ UNCHANGED <<status, log, sub>>
         /\ \/ UNCHANGED registry
            \/ /\ Over(r) /\ registry'[i][r] = None
               /\ \A j \in Instances, q \in Runs : <<j, q>> # <<i, r>> => registry'[j][q] = registry[j][q]
<1>1. /\ pc[t] = "publish" /\ answer[t].events = <<>> /\ UNCHANGED <<storeVars, lockMap, sub>>
      /\ Returns(t) \/ (Goto(t, "dropLock") /\ UNCHANGED <<call, lockRef, answer, calls>>)
      /\ \/ UNCHANGED registry
         \/ answer[t].kind \in {"finished", "skipped"} /\ registry' = [registry EXCEPT ![i][r] = None]
  BY ReleaseOutcomes
<1>2. call[t] \in Call /\ UNCHANGED <<status, log, sub>>
  BY <1>1 DEF TypeInv, Shape, storeVars
<1>3. i \in Instances /\ r \in Runs
  BY <1>2, CallParts
<1>4. pc'[t] \in {"idle", "dropLock"}
  <2>1. CASE Returns(t)
    BY <2>1, ReturnsType DEF TypeInv
  <2>2. CASE Goto(t, "dropLock")
    BY <2>2, GotoType DEF TypeInv, Places
  <2>. QED
    BY <1>1, <2>1, <2>2
<1>5. answer[t].kind \in {"finished", "skipped"} => Over(r)
  BY <1>1 DEF StoreInv, Telling
<1>6. CASE UNCHANGED registry
  BY <1>1, <1>2, <1>3, <1>4, <1>6
<1>7. CASE answer[t].kind \in {"finished", "skipped"} /\ registry' = [registry EXCEPT ![i][r] = None]
  BY <1>1, <1>2, <1>3, <1>4, <1>5, <1>7 DEF TypeInv, TypeOK
<1>. QED
  BY <1>1, <1>6, <1>7

LEMMA WriteCounts ==
  ASSUME TypeInv, NEW t \in Tasks, Write(t)
  PROVE  UNCHANGED registry \/ \E n \in Nat : Counts(t, n)
<1>1. call[t] \in Call /\ Is(t, Writers) /\ pc[t] = "write"
  BY DEF Write, TypeInv, Shape, Writing
<1>2. call[t].at \in Instances /\ call[t].run \in Runs
  BY <1>1, CallParts
<1>3. CASE UNCHANGED registry
  BY <1>3
<1>4. ASSUME Reg(t) # None
      PROVE  Reg(t).seq \in Nat /\ Reg(t).seq + Len(Offer(t, Reg(t).seq + 1)) \in Nat
  <2>. DEFINE n == Reg(t).seq
              b == Offer(t, n + 1)
  <2>1. n \in Nat
    BY <1>2, <1>4, EntryParts DEF TypeInv, Reg
  <2>2. Batch(t, n + 1, b)
    BY <1>1, <2>1, OfferBatch
  <2>. HIDE DEF n, b
  <2>3. b \in Seq(Event)
    BY <2>2 DEF Batch
  <2>4. n + Len(b) \in Nat
    BY <2>1, <2>3
  <2>. QED
    BY <2>1, <2>4 DEF n, b
<1>5. CASE WritesInVain(t)
  <2>1. Reg(t) # None
    BY <1>5 DEF WritesInVain, Counts
  <2>. QED
    BY <1>4, <1>5, <2>1 DEF WritesInVain
<1>6. CASE WritesOffer(t)
  <2>1. Reg(t) # None
    BY <1>6 DEF WritesOffer, Counts
  <2>. QED
    BY <1>4, <1>6, <2>1 DEF WritesOffer
<1>. QED
  BY <1>3, <1>5, <1>6, WriteOutcomes DEF WritesNothing

\* All other steps leave the senders and the flags of all entries.
LEMMA QuietEntries ==
  ASSUME TypeInv, NEW t \in Tasks, Step(t), ~InsertRun(t), ~CreateRun(t), ~Release(t), ~Publish(t),
         ~Attach(t), ~ListPage(t)
  PROVE  \A j \in Instances, q \in Runs : EntrySame(j, q)
<1>1. CASE UNCHANGED registry
  BY <1>1, SameEntries
<1>2. ASSUME NEW i \in Instances, NEW r \in Runs, registry[i][r] # None,
             NEW e, registry' = [registry EXCEPT ![i][r] = e], e \in Entry,
             e.senders = registry[i][r].senders, e.published = registry[i][r].published
      PROVE  \A j \in Instances, q \in Runs : EntrySame(j, q)
  <2>1. /\ registry'[i][r] = e
        /\ \A j \in Instances, q \in Runs : <<j, q>> # <<i, r>> => registry'[j][q] = registry[j][q]
    BY <1>2 DEF TypeInv, TypeOK
  <2>2. e # None
    BY <1>2, NoneAssumption
  <2>. QED
    BY <1>2, <2>1, <2>2 DEF EntrySame
<1>3. CASE Write(t)
  <2>1. UNCHANGED registry \/ \E n \in Nat : Counts(t, n)
    BY <1>3, WriteCounts
  <2>2. ASSUME NEW n \in Nat, Counts(t, n) PROVE \A j \in Instances, q \in Runs : EntrySame(j, q)
    <3>1. call[t].at \in Instances /\ call[t].run \in Runs
      BY <1>3, CallParts DEF Write, TypeInv, Shape
    <3>2. PICK i \in Instances, r \in Runs : i = call[t].at /\ r = call[t].run
      BY <3>1
    <3>. DEFINE e == [registry[i][r] EXCEPT !.seq = n]
    <3>3. registry[i][r] # None /\ registry' = [registry EXCEPT ![i][r] = e]
      BY <2>2, <3>2 DEF Counts, Reg
    <3>4. registry[i][r] \in Entry
      BY <3>3, EntryParts DEF TypeInv
    <3>6. e \in Entry /\ e.senders = registry[i][r].senders /\ e.published = registry[i][r].published
      BY <3>4 DEF Entry
    <3>. HIDE DEF e
    <3>. QED
      BY <1>2, <3>3, <3>6
  <2>. QED
    BY <1>1, <2>1, <2>2
<1>4. CASE RequestCancel(t)
  <2>1. call[t].at \in Instances /\ call[t].run \in Runs
    BY <1>4, CallParts DEF RequestCancel, TypeInv, Shape
  <2>2. PICK i \in Instances, r \in Runs : i = call[t].at /\ r = call[t].run
    BY <2>1
  <2>. DEFINE e == [registry[i][r] EXCEPT !.cancelled = TRUE]
  <2>3. UNCHANGED registry \/ (registry[i][r] # None /\ registry' = [registry EXCEPT ![i][r] = e])
    BY <1>4, <2>2 DEF RequestCancel, Reg
  <2>4. registry[i][r] # None => /\ e \in Entry /\ e.senders = registry[i][r].senders
                                 /\ e.published = registry[i][r].published
    <3>1. registry[i][r] # None => registry[i][r] \in Entry
      BY EntryParts DEF TypeInv
    <3>. QED
      BY <3>1 DEF Entry
  <2>. HIDE DEF e
  <2>. QED
    BY <1>1, <1>2, <2>3, <2>4
<1>5. CASE ~Write(t) /\ ~RequestCancel(t)
  <2>1. UNCHANGED registry
    BY <1>5 DEF Step, LookupStart, GetLock, Acquire, ListForDetach, Detach, DropLock, Look, TailNext,
                FindCancelled, MarkCancelled
  <2>. QED
    BY <1>1, <2>1
<1>. QED
  BY <1>3, <1>4, <1>5

\* Only an attachment adds a sender.
LEMMA SendersShrink ==
  ASSUME TypeInv, StoreInv, NEW t \in Tasks, Step(t), ~Attach(t)
  PROVE  \A j \in Instances, q \in Runs : NoNewSenders(j, q)
<1>. PICK i, r : i = call[t].at /\ r = call[t].run
  OBVIOUS
<1>1. ASSUME UNCHANGED registry PROVE \A j \in Instances, q \in Runs : NoNewSenders(j, q)
  BY <1>1 DEF NoNewSenders
<1>2. ASSUME \A j \in Instances, q \in Runs : <<j, q>> # <<i, r>> => registry'[j][q] = registry[j][q],
             NoNewSenders(i, r)
      PROVE  \A j \in Instances, q \in Runs : NoNewSenders(j, q)
  <2>. SUFFICES ASSUME NEW j \in Instances, NEW q \in Runs PROVE NoNewSenders(j, q)
    OBVIOUS
  <2>1. CASE <<j, q>> # <<i, r>>
    BY <1>2, <2>1 DEF NoNewSenders
  <2>2. CASE <<j, q>> = <<i, r>>
    BY <1>2, <2>2
  <2>. QED
    BY <2>1, <2>2
<1>3. CASE InsertRun(t)
  <2>1. /\ \A j \in Instances, q \in Runs : <<j, q>> # <<i, r>> => registry'[j][q] = registry[j][q]
        /\ UNCHANGED registry \/ registry'[i][r].senders = {}
    BY SMTT(30), <1>3, InsertOutcome
  <2>. QED
    BY <1>1, <1>2, <2>1 DEF NoNewSenders
<1>4. CASE CreateRun(t)
  <2>1. \/ /\ registry'[i][r] = None
           /\ \A j \in Instances, q \in Runs : <<j, q>> # <<i, r>> => registry'[j][q] = registry[j][q]
        \/ UNCHANGED registry
    BY <1>4, CreateOutcome
  <2>. QED
    BY <1>1, <1>2, <2>1 DEF NoNewSenders
<1>5. CASE Release(t)
  <2>1. \/ /\ registry'[i][r] = None
           /\ \A j \in Instances, q \in Runs : <<j, q>> # <<i, r>> => registry'[j][q] = registry[j][q]
        \/ UNCHANGED registry
    BY <1>5, ReleaseOutcome
  <2>. QED
    BY <1>1, <1>2, <2>1 DEF NoNewSenders
<1>6. CASE Publish(t)
  <2>1. PICK e : e = Head(answer[t].events)
    OBVIOUS
  <2>2. \A j \in Instances, q \in Runs : <<j, q>> # <<i, r>> => registry'[j][q] = registry[j][q]
    BY <1>6, <2>1, PublishOutcome
  <2>3. /\ registry'[i][r] = None <=> registry[i][r] = None
        /\ registry[i][r] # None => registry'[i][r].senders = registry[i][r].senders
    BY <1>6, <2>1, PublishOutcome
  <2>. QED
    BY <1>2, <2>2, <2>3 DEF NoNewSenders
<1>7. CASE ListPage(t)
  <2>1. \A j \in Instances, q \in Runs : <<j, q>> # <<i, r>> => registry'[j][q] = registry[j][q]
    BY <1>7, PageOutcome
  <2>2. CASE ~Full(t)
    BY <1>1, <1>7, <2>2, PageOutcome
  <2>3. CASE Full(t)
    <3>1. registry'[i][r] = None <=> registry[i][r] = None
      BY <1>7, <2>3, PageOutcome
    <3>2. registry[i][r] # None => Drops(t, i, r)
      BY <1>7, <2>3, PageOutcome
    <3>. QED
      BY <1>2, <2>1, <3>1, <3>2 DEF NoNewSenders, Drops
  <2>. QED
    BY <2>2, <2>3
<1>8. CASE ~(InsertRun(t) \/ CreateRun(t) \/ Release(t) \/ Publish(t) \/ ListPage(t))
  BY <1>8, QuietEntries, SameSenders
<1>. QED
  BY <1>3, <1>4, <1>5, <1>6, <1>7, <1>8

-----------------------------------------------------------------------------
(* Who listens.                                                            *)

\* Where a client is while it subscribes.
LooksAt(t) ==
  /\ pc[t] = "look" /\ sub[t] # None => sub[t].state = "Replay"
  /\ pc[t] = "attach" => sub[t].state = "attaching" /\ sub[t].buffer = <<>>
  /\ pc[t] = "page" => \/ sub[t].state = "attaching"
                       \/ sub[t].state = "listing" /\ status[sub[t].run] = "over"
  /\ sub[t] # None => /\ status[sub[t].run] # "absent"
                      /\ sub[t].state = "attaching" => pc[t] \in {"attach", "page"}
                      /\ sub[t].state = "Replay" => sub[t].buffer = <<>>
Looking == \A t \in Tasks : LooksAt(t)

\* What is published is for those that follow a tail or have attached and are about to list.
Listens(t) ==
  sub[t] # None /\ (sub[t].state = "Active" \/ (sub[t].state = "attaching" /\ pc[t] = "page"))
Hears(t, i, r) == Listens(t) /\ sub[t].at = i /\ sub[t].run = r

\* Senders belong to such.
Senders ==
  \A i \in Instances, r \in Runs : registry[i][r] # None =>
    \A u \in registry[i][r].senders : Hears(u, i, r)

\* Nothing happens to a client but that its buffer is filled.
Keeps(u) ==
  pc'[u] = pc[u] /\ (sub'[u] = sub[u] \/ (Listens(u) /\ \E b : Refilled(u, b)))

\* Runs are not lost and do not start again.
Onward(r) ==
  (status[r] # "absent" => status'[r] # "absent") /\ (status[r] = "over" => status'[r] = "over")

LEMMA RunsOnward ==
  ASSUME TypeInv, StoreInv, Next
  PROVE  \A r \in Runs : Onward(r)
<1>1. ASSUME \A r \in Runs : Still(r) \/ Opens(r) \/ Takes(r) PROVE \A r \in Runs : Onward(r)
  BY <1>1 DEF Still, Opens, Takes, Onward
<1>2. ASSUME NEW t \in Tasks, Step(t) PROVE \A r \in Runs : Onward(r)
  BY <1>1, <1>2, StoreSteps
<1>3. ASSUME NEW r \in Runs, Lapse(r) \/ Reap(r) PROVE \A q \in Runs : Onward(q)
  BY <1>1, <1>3, ReapSteps
<1>4. ASSUME NEW t \in Tasks, NEW c \in Call, Begin(t, c) PROVE \A r \in Runs : Onward(r)
  BY <1>4 DEF Begin, storeVars, Onward
<1>5. CASE Quiet
  BY <1>5 DEF Quiet, vars, storeVars, Onward
<1>. QED
  BY <1>2, <1>3, <1>4, <1>5 DEF Next

LEMMA LooksKept ==
  ASSUME TypeInv, NEW u \in Tasks, LooksAt(u), Keeps(u), \A r \in Runs : Onward(r)
  PROVE  LooksAt(u)'
<1>1. sub[u] # None => sub[u].run \in Runs
  BY SubParts DEF TypeInv
<1>2. CASE sub'[u] = sub[u]
  <2>1. pc[u] = "page" => sub[u] # None
    BY DEF TypeInv, Shape
  <2>. QED
    BY <1>1, <1>2, <2>1 DEF LooksAt, Keeps, Onward
<1>3. ASSUME Listens(u), NEW b, Refilled(u, b) PROVE LooksAt(u)'
  BY <1>1, <1>3 DEF LooksAt, Keeps, Onward, Listens, Refilled
<1>. QED
  BY <1>2, <1>3 DEF Keeps

LEMMA HearsKept ==
  ASSUME NEW u \in Tasks, Keeps(u), NEW i, NEW r
  PROVE  Hears(u, i, r)' <=> Hears(u, i, r)
<1>1. CASE sub'[u] = sub[u]
  BY <1>1 DEF Keeps, Hears, Listens
<1>2. ASSUME NEW b, Refilled(u, b) PROVE Hears(u, i, r)' <=> Hears(u, i, r)
  BY <1>2 DEF Keeps, Hears, Listens, Refilled
<1>. QED
  BY <1>1, <1>2 DEF Keeps

\* Publishing fills buffers.
LEMMA PublishKeeps ==
  ASSUME TypeInv, Senders, NEW t \in Tasks, Publish(t)
  PROVE  \A u \in Tasks : Keeps(u)
<1>. PICK i, r, e : i = call[t].at /\ r = call[t].run /\ e = Head(answer[t].events)
  OBVIOUS
<1>. SUFFICES ASSUME NEW u \in Tasks PROVE Keeps(u)
  OBVIOUS
<1>1. i \in Instances /\ r \in Runs /\ UNCHANGED pc
  BY PublishOutcome
<1>2. CASE Receives(u, i, r)
  <2>1. Refilled(u, Append(sub[u].buffer, e))
    BY <1>2, PublishOutcome
  <2>2. Listens(u)
    BY <1>1, <1>2 DEF Receives, Senders, Hears
  <2>. QED
    BY <1>1, <2>1, <2>2 DEF Keeps
<1>3. CASE ~Receives(u, i, r)
  <2>1. sub'[u] = sub[u]
    BY <1>3, PublishOutcome
  <2>. QED
    BY <1>1, <2>1 DEF Keeps
<1>. QED
  BY <1>2, <1>3

\* Most steps have nothing to do with following.
LEMMA StaysOut ==
  ASSUME TypeInv, NEW t \in Tasks, Step(t), ~Publish(t), ~(\E from \in {0, 1} : Look(t, from)),
         ~Attach(t), ~ListPage(t), ~TailNext(t)
  PROVE  /\ UNCHANGED sub
         /\ pc[t] \notin {"look", "attach", "page"} /\ pc'[t] \notin {"look", "attach", "page"}
<1>1. UNCHANGED sub /\ pc[t] \notin {"look", "attach", "page"}
  BY DEF Step, LookupStart, InsertRun, CreateRun, GetLock, Acquire, Write, ListForDetach, Detach,
         Release, DropLock, FindCancelled, RequestCancel, MarkCancelled
<1>2. Returns(t) \/ \E p \in Places \ {"look", "attach", "page"} : Goto(t, p)
  <2>1. CASE ListForDetach(t)
    <3>1. Goto(t, "detach") \/ Goto(t, "publish")
      BY <2>1 DEF ListForDetach
    <3>. QED
      BY <3>1 DEF Places
  <2>2. CASE Write(t)
    BY <2>2, WriteOutcomes DEF Places
  <2>3. CASE Release(t)
    BY <2>3, ReleaseOutcomes DEF Places
  <2>4. CASE ~(ListForDetach(t) \/ Write(t) \/ Release(t))
    BY <2>4 DEF Step, LookupStart, InsertRun, CreateRun, GetLock, Acquire, Detach,
         DropLock, FindCancelled, RequestCancel, MarkCancelled, Places
  <2>. QED
    BY <2>1, <2>2, <2>3, <2>4
<1>3. pc'[t] \notin {"look", "attach", "page"}
  <2>1. CASE Returns(t)
    BY <2>1, ReturnsType DEF TypeInv
  <2>2. ASSUME NEW p \in Places \ {"look", "attach", "page"}, Goto(t, p)
        PROVE  pc'[t] \notin {"look", "attach", "page"}
    BY <2>2, GotoType DEF TypeInv
  <2>. QED
    BY <1>2, <2>1, <2>2
<1>. QED
  BY <1>1, <1>3

\* Nor has the step of another.
LEMMA OthersKeep ==
  ASSUME TypeInv, Senders, NEW t \in Tasks, Step(t), NEW u \in Tasks \ {t}
  PROVE  Keeps(u)
<1>. PICK i, r, e : i = call[t].at /\ r = call[t].run /\ e = Head(sub[t].buffer)
  OBVIOUS
<1>1. pc'[u] = pc[u]
  BY StepFrame
<1>2. CASE Publish(t)
  BY <1>2, PublishKeeps
<1>3. CASE ~Publish(t)
  <2>. SUFFICES sub'[u] = sub[u]
    BY <1>1 DEF Keeps
  <2>1. CASE \E from \in {0, 1} : Look(t, from)
    BY <2>1, LookOutcome
  <2>2. CASE Attach(t)
    <3>1. UNCHANGED sub \/ sub'[u] = sub[u]
      BY <2>2, AttachOutcome
    <3>. QED
      BY <3>1
  <2>3. CASE ListPage(t)
    BY <2>3, PageOutcome
  <2>4. CASE TailNext(t)
    BY <2>4, TailOutcome
  <2>5. CASE ~((\E from \in {0, 1} : Look(t, from)) \/ Attach(t) \/ ListPage(t) \/ TailNext(t))
    BY <1>3, <2>5, StaysOut
  <2>. QED
    BY <2>1, <2>2, <2>3, <2>4, <2>5
<1>. QED
  BY <1>2, <1>3

LEMMA BeginLooks ==
  ASSUME TypeInv, NEW t \in Tasks, NEW c \in Call, Begin(t, c)
  PROVE  /\ pc[t] = "idle" /\ UNCHANGED sub /\ pc'[t] \notin {"attach", "page"}
         /\ pc'[t] = "look" => (sub[t] # None => sub[t].state = "Replay")
         /\ \A u \in Tasks \ {t} : Keeps(u)
<1>1. /\ pc[t] = "idle" /\ UNCHANGED sub /\ Goto(t, FirstStep(c.kind))
      /\ c.kind = "subscribe" /\ sub[t] # None => sub[t].state = "Replay"
  BY DEF Begin
<1>2. /\ pc'[t] \in {"lookup", "look", "find", "getLock"}
      /\ \A u \in Tasks \ {t} : pc'[u] = pc[u]
  BY BeginFrame
<1>3. FirstStep(c.kind) = "look" => c.kind = "subscribe"
  <2>1. c.kind = "start" => FirstStep(c.kind) = "lookup"
    BY DEF FirstStep
  <2>2. c.kind = "cancel" => FirstStep(c.kind) = "find"
    BY DEF FirstStep
  <2>3. c.kind \notin {"start", "subscribe", "cancel"} => FirstStep(c.kind) = "getLock"
    BY DEF FirstStep
  <2>. QED
    BY <2>1, <2>2, <2>3
<1>4. pc'[t] = FirstStep(c.kind)
  BY <1>1 DEF Goto, TypeInv, TypeOK
<1>. QED
  BY <1>1, <1>2, <1>3, <1>4 DEF Keeps

LEMMA LookingStep ==
  ASSUME TypeInv, StoreInv, Looking, Senders, Next
  PROVE  Looking'
<1>1. \A r \in Runs : Onward(r)
  BY RunsOnward
<1>2. ASSUME NEW t \in Tasks, Step(t) PROVE Looking'
  <2>. PICK i, r, e : i = call[t].at /\ r = call[t].run /\ e = Head(sub[t].buffer)
    OBVIOUS
  <2>1. \A u \in Tasks \ {t} : LooksAt(u)'
    BY <1>1, <1>2, OthersKeep, LooksKept DEF Looking
  <2>2. LooksAt(t) /\ (sub[t] # None => sub[t].run \in Runs)
    BY SubParts DEF Looking, TypeInv
  <2>3. LooksAt(t)'
    <3>1. CASE Publish(t)
      BY <1>1, <2>2, <3>1, PublishKeeps, LooksKept
    <3>2. CASE \E from \in {0, 1} : Look(t, from)
      <4>1. UNCHANGED status /\ r \in Runs /\ pc[t] = "look"
        BY <3>2, LookOutcome
      <4>2. \/ pc'[t] = "idle" /\ sub'[t] = sub[t]
            \/ /\ status[r] # "absent" /\ sub'[t] # None /\ sub'[t].at = i /\ sub'[t].run = r
               /\ \/ pc'[t] = "page" /\ sub'[t].state = "listing" /\ Over(r)
                  \/ pc'[t] = "attach" /\ sub'[t].state = "attaching"
        BY <3>2, LookOutcome
      <4>3. pc'[t] # "idle" => /\ sub[t] # None => sub'[t].buffer = sub[t].buffer
                               /\ sub[t] = None => sub'[t].buffer = <<>>
        BY <3>2, LookOutcome
      <4>. QED
        BY <2>2, <4>1, <4>2, <4>3 DEF LooksAt, Over
    <3>3. CASE Attach(t)
      <4>1. UNCHANGED status /\ r \in Runs /\ pc[t] = "attach" /\ sub[t] # None /\ sub[t].run = r
        BY <3>3, AttachOutcome
      <4>2. \/ pc'[t] = "page" /\ sub'[t] = sub[t]
            \/ /\ pc'[t] = "idle" /\ sub'[t] # None /\ sub'[t].state = "NotOwner"
               /\ sub'[t].run = sub[t].run
        BY <3>3, AttachOutcome
      <4>. QED
        BY <2>2, <4>1, <4>2 DEF LooksAt
    <3>4. CASE ListPage(t)
      <4>1. UNCHANGED status /\ r \in Runs /\ pc'[t] = "idle" /\ sub[t] # None /\ sub[t].run = r
            /\ sub'[t] # None /\ sub'[t].run = r
        BY <3>4, PageOutcome
      <4>2. /\ Full(t) => sub'[t].state = "Replay" /\ sub'[t].buffer = <<>>
            /\ ~Full(t) => sub'[t].state \in {"Active", "Inactive"}
        BY <3>4, PageOutcome
      <4>. QED
        BY <2>2, <4>1, <4>2 DEF LooksAt
    <3>5. CASE TailNext(t)
      <4>1. /\ UNCHANGED <<status, pc>> /\ sub[t] # None /\ sub[t].state = "Active"
            /\ sub'[t] # None /\ sub'[t].state = sub[t].state /\ sub'[t].run = sub[t].run
        BY <3>5, TailOutcome DEF Refilled
      <4>. QED
        BY <2>2, <4>1 DEF LooksAt
    <3>6. CASE ~(Publish(t) \/ (\E from \in {0, 1} : Look(t, from)) \/ Attach(t) \/ ListPage(t) \/ TailNext(t))
      <4>1. /\ UNCHANGED sub
            /\ pc[t] \notin {"look", "attach", "page"} /\ pc'[t] \notin {"look", "attach", "page"}
        BY <1>2, <3>6, StaysOut
      <4>. QED
        BY <1>1, <2>2, <4>1 DEF LooksAt, Onward
    <3>. QED
      BY <3>1, <3>2, <3>3, <3>4, <3>5, <3>6
  <2>. QED
    BY <2>1, <2>3 DEF Looking
<1>3. ASSUME NEW t \in Tasks, NEW c \in Call, Begin(t, c) PROVE Looking'
  <2>1. \A u \in Tasks \ {t} : LooksAt(u)'
    BY <1>1, <1>3, BeginLooks, LooksKept DEF Looking
  <2>2. LooksAt(t) /\ (sub[t] # None => sub[t].run \in Runs)
    BY SubParts DEF Looking, TypeInv
  <2>3. LooksAt(t)'
    <3>1. /\ pc[t] = "idle" /\ UNCHANGED sub /\ pc'[t] \notin {"attach", "page"}
          /\ pc'[t] = "look" => (sub[t] # None => sub[t].state = "Replay")
      BY <1>3, BeginLooks
    <3>. QED
      BY <1>1, <2>2, <3>1 DEF LooksAt, Onward
  <2>. QED
    BY <2>1, <2>3 DEF Looking
<1>4. ASSUME UNCHANGED <<pc, sub>> PROVE Looking'
  BY <1>1, <1>4, LooksKept DEF Keeps, Looking
<1>5. (\E r \in Runs : Lapse(r) \/ Reap(r)) => UNCHANGED <<pc, sub>>
  BY DEF Lapse, Reap, taskVars
<1>6. Quiet => UNCHANGED <<pc, sub>>
  BY DEF Quiet, vars, taskVars
<1>. QED
  BY <1>2, <1>3, <1>4, <1>5, <1>6 DEF Next

\* A client stops listening only by listing a page that is full, and starts by attaching.
LEMMA HearsOwn ==
  ASSUME TypeInv, Senders, NEW t \in Tasks, LooksAt(t), Step(t), ~Attach(t), NEW j, NEW q
  PROVE  /\ Hears(t, j, q)' => Hears(t, j, q)
         /\ Hears(t, j, q) /\ ~(ListPage(t) /\ Full(t)) => Hears(t, j, q)'
<1>. PICK i, r, e : i = call[t].at /\ r = call[t].run /\ e = Head(sub[t].buffer)
  OBVIOUS
<1>1. CASE Publish(t)
  BY <1>1, PublishKeeps, HearsKept
<1>2. CASE \E from \in {0, 1} : Look(t, from)
  <2>1. pc[t] = "look"
    BY <1>2, LookOutcome
  <2>2. \/ pc'[t] = "idle" /\ sub'[t] = sub[t]
        \/ pc'[t] = "page" /\ sub'[t].state = "listing"
        \/ pc'[t] = "attach" /\ sub'[t].state = "attaching"
    BY <1>2, LookOutcome
  <2>. QED
    BY <2>1, <2>2 DEF LooksAt, Hears, Listens
<1>3. CASE ListPage(t)
  <2>1. /\ pc[t] = "page" /\ pc'[t] = "idle" /\ sub[t] # None /\ sub[t].at = i /\ sub[t].run = r
        /\ sub'[t] # None /\ sub'[t].at = i /\ sub'[t].run = r
    BY <1>3, PageOutcome
  <2>2. /\ Full(t) => sub'[t].state = "Replay"
        /\ ~Full(t) => /\ sub[t].state = "attaching" => sub'[t].state = "Active"
                       /\ sub[t].state # "attaching" => sub'[t].state = "Inactive"
    BY <1>3, PageOutcome
  <2>. QED
    BY <1>3, <2>1, <2>2 DEF LooksAt, Hears, Listens
<1>4. CASE TailNext(t)
  <2>1. /\ pc' = pc /\ sub[t] # None /\ sub'[t] # None /\ sub'[t].state = sub[t].state
        /\ sub'[t].at = sub[t].at /\ sub'[t].run = sub[t].run
    BY <1>4, TailOutcome DEF Refilled
  <2>. QED
    BY <2>1 DEF Hears, Listens
<1>5. CASE ~(Publish(t) \/ (\E from \in {0, 1} : Look(t, from)) \/ ListPage(t) \/ TailNext(t))
  <2>1. UNCHANGED sub /\ pc[t] # "page" /\ pc'[t] # "page"
    BY <1>5, StaysOut
  <2>. QED
    BY <2>1 DEF Hears, Listens
<1>. QED
  BY <1>1, <1>2, <1>3, <1>4, <1>5

LEMMA AttachSenders ==
  ASSUME TypeInv, Looking, Senders, NEW t \in Tasks, Attach(t)
  PROVE  Senders'
<1>. PICK i, r : i = call[t].at /\ r = call[t].run
  OBVIOUS
<1>1. /\ i \in Instances /\ r \in Runs /\ pc[t] = "attach"
      /\ sub[t] # None /\ sub[t].at = i /\ sub[t].run = r
  BY AttachOutcome
<1>2. sub[t].state = "attaching"
  BY <1>1 DEF Looking, LooksAt
<1>3. ASSUME NEW u \in Tasks \ {t}, NEW j \in Instances, NEW q \in Runs, Hears(u, j, q)
      PROVE  Hears(u, j, q)'
  <2>1. Step(t)
    BY DEF Step
  <2>. QED
    BY <1>3, <2>1, OthersKeep, HearsKept
<1>4. \A j \in Instances, q \in Runs : ~Hears(t, j, q)
  BY <1>1, <1>2 DEF Hears, Listens
<1>5. \A j \in Instances, q \in Runs : registry[j][q] # None => registry[j][q].senders \in SUBSET Tasks
  BY EntryParts DEF TypeInv
<1>6. ASSUME NEW j \in Instances, NEW q \in Runs, registry[j][q] # None, NEW u \in registry[j][q].senders
      PROVE  Hears(u, j, q)'
  <2>1. Hears(u, j, q) /\ u \in Tasks
    BY <1>5, <1>6 DEF Senders
  <2>2. u # t
    BY <1>4, <2>1
  <2>. QED
    BY <1>3, <2>1, <2>2
<1>7. CASE UNCHANGED registry
  BY <1>6, <1>7 DEF Senders
<1>8. CASE ~UNCHANGED registry
  <2>1. pc'[t] = "page" /\ UNCHANGED sub
    BY <1>8, AttachOutcome
  <2>2. registry'[i][r].senders = registry[i][r].senders \cup {t} /\ registry[i][r] # None
    BY SMTT(30), <1>8, AttachOutcome
  <2>3. \A j \in Instances, q \in Runs : <<j, q>> # <<i, r>> => registry'[j][q] = registry[j][q]
    BY <1>8, AttachOutcome
  <2>4. Hears(t, i, r)'
    BY <1>1, <1>2, <2>1 DEF Hears, Listens
  <2>5. ASSUME NEW j \in Instances, NEW q \in Runs, registry'[j][q] # None,
               NEW u \in registry'[j][q].senders
        PROVE  Hears(u, j, q)'
    <3>1. CASE <<j, q>> # <<i, r>>
      BY <1>6, <2>3, <2>5, <3>1
    <3>2. CASE j = i /\ q = r
      BY <1>1, <1>6, <2>2, <2>4, <2>5, <3>2
    <3>. QED
      BY <3>1, <3>2
  <2>. QED
    BY <2>5 DEF Senders
<1>. QED
  BY <1>7, <1>8

LEMMA SendersStep ==
  ASSUME TypeInv, StoreInv, Looking, Senders, Next
  PROVE  Senders'
<1>0. \A j \in Instances, q \in Runs : registry[j][q] # None => registry[j][q].senders \in SUBSET Tasks
  BY EntryParts DEF TypeInv
<1>1. ASSUME NEW t \in Tasks, Step(t), ~Attach(t) PROVE Senders'
  <2>1. \A j \in Instances, q \in Runs : NoNewSenders(j, q)
    BY <1>1, SendersShrink
  <2>2. ASSUME NEW j \in Instances, NEW q \in Runs, registry'[j][q] # None,
               NEW u \in registry'[j][q].senders
        PROVE  Hears(u, j, q)'
    <3>1. registry[j][q] # None /\ u \in registry[j][q].senders /\ u \in Tasks /\ Hears(u, j, q)
      BY <1>0, <2>1, <2>2 DEF NoNewSenders, Senders
    <3>2. CASE u # t
      BY <1>1, <3>1, <3>2, OthersKeep, HearsKept
    <3>3. CASE u = t
      <4>1. ~(ListPage(t) /\ Full(t))
        <5>. SUFFICES ASSUME ListPage(t), Full(t) PROVE FALSE
          OBVIOUS
        <5>. PICK i, r : i = call[t].at /\ r = call[t].run
          OBVIOUS
        <5>1. sub[t].at = i /\ sub[t].run = r
          BY PageOutcome
        <5>2. j = i /\ q = r
          BY <3>1, <3>3, <5>1 DEF Hears
        <5>3. registry[i][r] # None => Drops(t, i, r)
          BY PageOutcome
        <5>. QED
          BY <2>2, <3>1, <3>3, <5>2, <5>3 DEF Drops
      <4>. QED
        BY <1>1, <3>1, <3>3, <4>1, HearsOwn DEF Looking
    <3>. QED
      BY <3>2, <3>3
  <2>. QED
    BY <2>2 DEF Senders
<1>2. ASSUME NEW t \in Tasks, NEW c \in Call, Begin(t, c) PROVE Senders'
  <2>1. /\ pc[t] = "idle" /\ UNCHANGED sub
        /\ \A u \in Tasks \ {t} : Keeps(u)
    BY <1>2, BeginLooks
  <2>2. registry' = registry
    BY <1>2 DEF Begin
  <2>3. ASSUME NEW j \in Instances, NEW q \in Runs, registry[j][q] # None, NEW u \in registry[j][q].senders
        PROVE  Hears(u, j, q)'
    <3>1. u \in Tasks /\ Hears(u, j, q)
      BY <1>0, <2>3 DEF Senders
    <3>2. CASE u # t
      BY <2>1, <3>1, <3>2, HearsKept
    <3>3. CASE u = t
      BY <2>1, <3>1, <3>3 DEF Hears, Listens
    <3>. QED
      BY <3>2, <3>3
  <2>. QED
    BY <2>2, <2>3 DEF Senders
<1>3. ASSUME UNCHANGED <<pc, sub, registry>> PROVE Senders'
  BY <1>3 DEF Senders, Hears, Listens
<1>4. (\E r \in Runs : Lapse(r) \/ Reap(r)) => UNCHANGED <<pc, sub, registry>>
  BY DEF Lapse, Reap, taskVars
<1>5. Quiet => UNCHANGED <<pc, sub, registry>>
  BY DEF Quiet, vars, taskVars
<1>. QED
  BY <1>1, <1>2, <1>3, <1>4, <1>5, AttachSenders DEF Next

-----------------------------------------------------------------------------
(* What a client has got and what it is going to get.                      *)

\* g is what a log L has after start and up to cursor.
GotOf(L, start, cursor, g) ==
  /\ start <= cursor /\ Slice(g, L, UpTo(L, start), UpTo(L, cursor))
  /\ cursor # start => cursor <= LastIn(L)
GotAt(t, r) ==
  sub[t] # None /\ sub[t].run = r => GotOf(log[r], sub[t].start, sub[t].cursor, sub[t].got)
Got == \A t \in Tasks, r \in Runs : Heard(t) => GotAt(t, r)

\* A start that is going to lose takes the entry with it: only of a run that is over, when
\* all has been handed on.
Stale(t, i, r) ==
  Receives(t, i, r) /\ Over(r) /\ (\E v \in Tasks : Creates(v, i, r)) =>
    /\ sub[t].buffer = <<>>
    /\ sub[t].state = "Active" => UpTo(log[r], sub[t].cursor) = Len(log[r])

\* The event after place m is the next an operation publishes.
Awaits(u, i, r, m) ==
  Publishes(u, i, r) => m < Len(log[r]) /\ log[r][m + 1] = Head(answer[u].events)

\* If there is none, everything was published but what the reaper may have added; of a run
\* that is over there is then nothing to read either.
Settled(i, r, b, m) ==
  \/ m = Len(log[r]) /\ (Over(r) => b = m)
  \/ m = Len(log[r]) - 1 /\ Over(r) /\ Last(log[r]).by # i

\* The buffer of a client that listens is a window, after place b and up to m, of the log.
\* There is no gap before it, and what comes after it will be published, unless somebody
\* else has ended the run.
Window(t, i, r, b, m) ==
  /\ b <= m /\ Slice(sub[t].buffer, log[r], b, m)
  /\ sub[t].state = "Active" => b <= UpTo(log[r], sub[t].cursor)
  /\ Receives(t, i, r) => \A u \in Tasks : Awaits(u, i, r, m)
  /\ Receives(t, i, r) /\ (\A u \in Tasks : ~Publishes(u, i, r)) => Settled(i, r, b, m)
  /\ ~Receives(t, i, r) => Over(r) /\ (m = Len(log[r]) \/ Last(log[r]).by # i)

HasWindow(t, i, r) == \E b, m \in 0..Len(log[r]) : Window(t, i, r, b, m)
FollowsAt(t, i, r) == Hears(t, i, r) => Stale(t, i, r) /\ HasWindow(t, i, r)
Follows == \A t \in Tasks, i \in Instances, r \in Runs : Ours(i, r) => FollowsAt(t, i, r)

-----------------------------------------------------------------------------
(* Getting.                                                                *)

LEMMA LastInGrows ==
  ASSUME NEW L \in Seq(Event), NEW b \in Seq(Event), Ordered(L \o b)
  PROVE  LastIn(L) <= LastIn(L \o b)
<1>. DEFINE G == L \o b
<1>1. G \in Seq(Event) /\ Len(G) = Len(L) + Len(b) /\ Len(L) \in Nat /\ Len(b) \in Nat
      /\ \A k \in 1..Len(L) : G[k] = L[k]
  OBVIOUS
<1>2. /\ LastIn(L) \in Nat /\ (L # <<>> => Len(L) \in 1..Len(L) /\ LastIn(L) = L[Len(L)].seq)
      /\ LastIn(G) \in Nat /\ (G # <<>> => Len(G) \in 1..Len(G) /\ LastIn(G) = G[Len(G)].seq)
  BY <1>1, LastInType
<1>3. \A k \in 1..Len(G) : G[k].seq \in Nat
  BY <1>1, SeqsType
<1>4. Ordered(G)
  OBVIOUS
<1>. SUFFICES LastIn(L) <= LastIn(G)
  OBVIOUS
<1>. HIDE DEF G
<1>5. CASE L = <<>>
  BY <1>2, <1>5 DEF LastIn
<1>6. CASE L # <<>>
  <2>1. Len(L) \in 1..Len(L) /\ LastIn(L) = G[Len(L)].seq
    BY <1>1, <1>2, <1>6
  <2>2. Len(L) \in 1..Len(G) /\ Len(G) \in 1..Len(G) /\ G # <<>>
    BY <1>1, <2>1
  <2>3. Len(L) = Len(G) \/ Len(L) < Len(G)
    BY <1>1
  <2>4. G[Len(L)].seq = G[Len(G)].seq \/ G[Len(L)].seq < G[Len(G)].seq
    BY <1>4, <2>2, <2>3 DEF Ordered
  <2>. QED
    BY <1>2, <1>3, <2>1, <2>2, <2>4
<1>. QED
  BY <1>5, <1>6

LEMMA GotGrows ==
  ASSUME NEW L \in Seq(Event), NEW b \in Seq(Event), Ordered(L \o b),
         NEW start \in Nat, NEW cursor \in Nat, NEW g, GotOf(L, start, cursor, g)
  PROVE  GotOf(L \o b, start, cursor, g)
<1>. DEFINE G == L \o b
<1>1. start <= cursor /\ Slice(g, L, UpTo(L, start), UpTo(L, cursor)) /\ (cursor # start => cursor <= LastIn(L))
  BY DEF GotOf
<1>2. LastIn(L) <= LastIn(G) /\ LastIn(L) \in Nat /\ LastIn(G) \in Nat
  <2>1. G \in Seq(Event)
    OBVIOUS
  <2>. QED
    BY <2>1, LastInGrows, LastInType
<1>3. G \in Seq(Event) /\ Ordered(L) /\ Ordered(G)
  BY UpToGrows
<1>4. UpTo(L, start) \in Nat /\ UpTo(L, cursor) \in Nat /\ UpTo(L, cursor) <= Len(L)
      /\ UpTo(G, start) \in Nat
  <2>1. UpTo(L, start) \in 0..Len(L) /\ UpTo(L, cursor) \in 0..Len(L)
    BY <1>3, UpToCuts
  <2>2. UpTo(G, start) \in 0..Len(G)
    BY <1>3, UpToCuts
  <2>. QED
    BY <2>1, <2>2
<1>5. CASE cursor = start
  <2>1. g = <<>>
    BY <1>1, <1>4, <1>5, SliceNone
  <2>2. Slice(g, G, UpTo(G, start), UpTo(G, start))
    BY <1>4, <2>1, SliceEmpty
  <2>. QED
    BY <1>1, <1>5, <2>2 DEF GotOf
<1>6. CASE cursor # start
  <2>1. cursor <= LastIn(L) /\ start <= LastIn(L) /\ cursor <= LastIn(G)
    BY <1>1, <1>2, <1>6
  <2>2. UpTo(G, cursor) = UpTo(L, cursor) /\ UpTo(G, start) = UpTo(L, start)
    BY <2>1, UpToGrows
  <2>3. Slice(g, G, UpTo(L, start), UpTo(L, cursor))
    BY <1>1, <1>4, SliceGrows
  <2>. QED
    BY <1>1, <2>1, <2>2, <2>3 DEF GotOf
<1>. QED
  BY <1>5, <1>6

\* Getting what comes next, up to place d.
LEMMA GotReaches ==
  ASSUME NEW L \in Seq(Event), Ordered(L), NEW start \in Nat, NEW cursor \in Nat, NEW g,
         GotOf(L, start, cursor, g), NEW d \in 1..Len(L), UpTo(L, cursor) < d,
         NEW h, Slice(h, L, UpTo(L, start), d)
  PROVE  GotOf(L, start, L[d].seq, h)
<1>1. UpTo(L, cursor) \in 0..Len(L) /\ \A k \in 1..Len(L) : k <= UpTo(L, cursor) <=> L[k].seq <= cursor
  BY UpToCuts
<1>2. Len(L) \in Nat /\ \A k \in 1..Len(L) : L[k].seq \in Nat
  BY SeqsType
<1>3. ~(L[d].seq <= cursor) /\ L[d].seq \in Nat
  <2>1. ~(d <= UpTo(L, cursor))
    BY <1>1
  <2>. QED
    BY <1>1, <1>2, <2>1
<1>4. start <= L[d].seq
  BY <1>3 DEF GotOf
<1>5. L[d].seq <= LastIn(L)
  <2>1. L # <<>>
    BY <1>2
  <2>2. Len(L) \in 1..Len(L) /\ LastIn(L) = L[Len(L)].seq
    BY <2>1, LastInType
  <2>3. d = Len(L) \/ d < Len(L)
    BY <1>2
  <2>. QED
    BY <1>2, <2>2, <2>3 DEF Ordered
<1>6. UpTo(L, L[d].seq) = d
  BY UpToAt
<1>. QED
  BY <1>4, <1>5, <1>6 DEF GotOf

\* A page is what comes next.
LEMMA PageSlice ==
  ASSUME TypeInv, NEW t \in Tasks, sub[t] # None, NEW r, r = sub[t].run,
         NEW L, L = log[r], NEW n, n = UpTo(L, sub[t].cursor)
  PROVE  /\ n \in 0..Len(L)
         /\ \E d \in n..Len(L) : /\ Slice(Page(t), L, n, d)
                                 /\ ~Full(t) => d = Len(L)
                                 /\ Page(t) # <<>> => n < d /\ Last(Page(t)) = L[d]
                                 /\ Page(t) = <<>> => d = n
<1>1. r \in Runs /\ sub[t].cursor \in Nat
  BY SubParts DEF TypeInv
<1>2. n = Past(r, sub[t].cursor)
  BY DEF Past, UpTo
<1>3. n \in 0..Len(L) /\ L \in Seq(Event) /\ Len(L) \in Nat
  BY <1>1, <1>2, PastType, LogType DEF TypeInv
<1>. DEFINE R == Rest(t)
            P == Page(t)
<1>4. R \in Seq(Event) /\ Len(R) = Len(L) - n /\ \A k \in 1..Len(R) : R[k] = L[n + k]
  BY <1>1, <1>2, AfterType DEF Rest, TypeInv
<1>5. P = IF Full(t) THEN SubSeq(R, 1, ReplayLimit) ELSE R
  BY DEF Page, Full
<1>6. ReplayLimit \in Nat /\ (Full(t) <=> Len(R) > ReplayLimit)
  BY ConstantsAssumption DEF Full
<1>7. P \in Seq(Event)
  BY PageType DEF TypeInv
<1>. HIDE DEF P, R
<1>8. ASSUME NEW d \in n..Len(L), Slice(P, L, n, d)
      PROVE  /\ P # <<>> => n < d /\ Last(P) = L[d]
             /\ P = <<>> => d = n
  <2>1. Len(P) = d - n /\ d \in Nat /\ n \in Nat /\ \A k \in 1..Len(P) : P[k] = L[n + k]
    BY <1>3, <1>8 DEF Slice
  <2>2. ASSUME P # <<>> PROVE n < d /\ Last(P) = L[d]
    <3>1. Len(P) >= 1 /\ Last(P) = P[Len(P)]
      BY <1>7, <2>2 DEF Last
    <3>2. Len(P) \in 1..Len(P) /\ n + Len(P) = d
      BY <1>7, <2>1, <3>1
    <3>. QED
      BY <2>1, <3>1, <3>2
  <2>3. P = <<>> => Len(P) = 0
    OBVIOUS
  <2>. QED
    BY <2>1, <2>2, <2>3
<1>9. CASE Full(t)
  <2>1. \A k \in 1..ReplayLimit : R[k] \in Event
    BY <1>4, <1>6, <1>9
  <2>2. /\ Len(SubSeq(R, 1, ReplayLimit)) = ReplayLimit
        /\ \A k \in 1..ReplayLimit : SubSeq(R, 1, ReplayLimit)[k] = R[k]
    BY <1>4, <1>6, <1>9
  <2>3. Len(P) = ReplayLimit /\ \A k \in 1..ReplayLimit : P[k] = R[k]
    BY <1>5, <1>9, <2>2
  <2>4. n + ReplayLimit \in n..Len(L) /\ (n + ReplayLimit) - n = ReplayLimit
    BY SMTT(30), <1>3, <1>4, <1>6, <1>9
  <2>5. \A k \in 1..ReplayLimit : k \in 1..Len(R)
    BY <1>4, <1>6, <1>9
  <2>6. Slice(P, L, n, n + ReplayLimit)
    BY <1>4, <1>7, <2>3, <2>4, <2>5 DEF Slice
  <2>. QED
    BY <1>3, <1>8, <1>9, <2>4, <2>6 DEF P
<1>10. CASE ~Full(t)
  <2>1. Slice(P, L, n, Len(L))
    BY <1>4, <1>5, <1>10 DEF Slice
  <2>2. Len(L) \in n..Len(L)
    BY <1>3
  <2>. QED
    BY <1>3, <1>8, <2>1, <2>2 DEF P
<1>. QED
  BY <1>9, <1>10

\* Nothing of what a client has got changes.
GotSame(t) ==
  sub'[t] # None =>
    /\ sub[t] # None /\ sub'[t].run = sub[t].run /\ sub'[t].start = sub[t].start
    /\ sub'[t].cursor = sub[t].cursor /\ sub'[t].got = sub[t].got

LEMMA GotKept ==
  ASSUME TypeInv, LogInv', NEW t \in Tasks, NEW r \in Runs, GotAt(t, r), GotSame(t), Grows(r)
  PROVE  GotAt(t, r)'
<1>. SUFFICES ASSUME sub'[t] # None, sub'[t].run = r
              PROVE  GotOf(log'[r], sub'[t].start, sub'[t].cursor, sub'[t].got)
  BY DEF GotAt
<1>. PICK start, cursor, g : start = sub[t].start /\ cursor = sub[t].cursor /\ g = sub[t].got
  OBVIOUS
<1>1. /\ sub[t] # None /\ sub[t].run = r /\ start = sub'[t].start /\ cursor = sub'[t].cursor /\ g = sub'[t].got
  BY DEF GotSame
<1>2. start \in Nat /\ cursor \in Nat
  BY <1>1, SubParts DEF TypeInv
<1>3. GotOf(log[r], start, cursor, g)
  BY <1>1 DEF GotAt
<1>4. CASE Same(r)
  BY <1>1, <1>3, <1>4 DEF Same
<1>5. ASSUME NEW b \in Seq(Event), Adds(r, b) PROVE GotOf(log'[r], start, cursor, g)
  <2>1. log[r] \in Seq(Event) /\ log'[r] = log[r] \o b
    BY <1>5, LogType DEF TypeInv, Adds
  <2>2. Ordered(log[r] \o b)
    BY <2>1 DEF LogInv, LogOf
  <2>. QED
    BY <1>2, <1>3, <2>1, <2>2, GotGrows
<1>. QED
  BY <1>1, <1>4, <1>5 DEF Grows

\* Listing.
LEMMA GotPage ==
  ASSUME TypeInv, LogInv, NEW t \in Tasks, ListPage(t), NEW r \in Runs, GotAt(t, r)
  PROVE  GotAt(t, r)'
<1>. PICK i, q : i = call[t].at /\ q = call[t].run
  OBVIOUS
<1>1. UNCHANGED log /\ sub[t] # None /\ sub[t].run = q /\ sub'[t].run = q /\ sub'[t].start = sub[t].start
      /\ sub'[t].got = sub[t].got \o Page(t)
      /\ sub'[t].cursor = IF Page(t) = <<>> THEN sub[t].cursor ELSE Last(Page(t)).seq
  BY PageOutcome
<1>. SUFFICES ASSUME q = r
              PROVE  GotOf(log[r], sub'[t].start, sub'[t].cursor, sub'[t].got)
  BY <1>1 DEF GotAt
<1>. PICK start, cursor, g, L, p :
            start = sub[t].start /\ cursor = sub[t].cursor /\ g = sub[t].got /\ L = log[r] /\ p = Page(t)
  OBVIOUS
<1>2. start \in Nat /\ cursor \in Nat /\ g \in Seq(Event) /\ L \in Seq(Event) /\ Ordered(L)
  BY <1>1, SubParts, LogType DEF TypeInv, LogInv, LogOf
<1>3. GotOf(L, start, cursor, g)
  BY <1>1 DEF GotAt
<1>4. PICK a, n : a = UpTo(L, start) /\ n = UpTo(L, cursor)
  OBVIOUS
<1>5. a \in 0..Len(L) /\ n \in 0..Len(L) /\ a <= n /\ Slice(g, L, a, n)
  <2>1. a \in 0..Len(L) /\ n \in 0..Len(L)
    BY <1>2, <1>4, UpToCuts
  <2>2. start <= cursor /\ Slice(g, L, a, n)
    BY <1>3, <1>4 DEF GotOf
  <2>3. a <= n
    BY <1>2, <1>4, <2>2, UpToMonotone
  <2>. QED
    BY <2>1, <2>2, <2>3
<1>6. PICK d \in n..Len(L) : /\ Slice(p, L, n, d)
                             /\ p # <<>> => n < d /\ Last(p) = L[d]
                             /\ p = <<>> => d = n
  BY <1>1, <1>4, PageSlice
<1>7. Slice(g \o p, L, a, d)
  <2>1. d \in Nat /\ n <= d
    BY <1>5, <1>6
  <2>. QED
    BY <1>5, <1>6, <2>1, SliceJoin
<1>8. CASE p = <<>>
  <2>1. g \o p = g /\ sub'[t].cursor = cursor /\ sub'[t].got = g \o p
    BY <1>1, <1>2, <1>8
  <2>. QED
    BY <1>1, <1>3, <2>1
<1>9. CASE p # <<>>
  <2>1. n < d /\ Last(p) = L[d] /\ d \in 1..Len(L)
    BY <1>5, <1>6, <1>9
  <2>2. sub'[t].cursor = L[d].seq /\ sub'[t].got = g \o p
    BY <1>1, <1>9, <2>1
  <2>3. GotOf(L, start, L[d].seq, g \o p)
    BY <1>2, <1>3, <1>4, <1>7, <2>1, GotReaches
  <2>. QED
    BY <1>1, <2>2, <2>3
<1>. QED
  BY <1>8, <1>9

\* The next event of a tail.
LEMMA GotTail ==
  ASSUME TypeInv, LogInv, Follows, NEW t \in Tasks, TailNext(t), Heard(t), NEW r \in Runs, GotAt(t, r)
  PROVE  GotAt(t, r)'
<1>. PICK e : e = Head(sub[t].buffer)
  OBVIOUS
<1>1. UNCHANGED log /\ sub[t] # None /\ sub[t].state = "Active" /\ sub[t].buffer # <<>>
      /\ \/ e.seq <= sub[t].cursor /\ Refilled(t, Tail(sub[t].buffer))
         \/ /\ ~(e.seq <= sub[t].cursor) /\ sub'[t] # None
            /\ sub'[t].run = sub[t].run /\ sub'[t].start = sub[t].start
            /\ sub'[t].got = Append(sub[t].got, e) /\ sub'[t].cursor = e.seq
  BY TailOutcome
<1>2. CASE e.seq <= sub[t].cursor /\ Refilled(t, Tail(sub[t].buffer))
  BY <1>1, <1>2 DEF GotAt, Refilled
<1>3. CASE /\ ~(e.seq <= sub[t].cursor) /\ sub'[t].run = sub[t].run /\ sub'[t].start = sub[t].start
           /\ sub'[t].got = Append(sub[t].got, e) /\ sub'[t].cursor = e.seq
  <2>. SUFFICES ASSUME sub[t].run = r
                PROVE  GotOf(log[r], sub'[t].start, sub'[t].cursor, sub'[t].got)
    BY <1>1, <1>3 DEF GotAt
  <2>. PICK start, cursor, g, L, i, q :
              start = sub[t].start /\ cursor = sub[t].cursor /\ g = sub[t].got /\ L = log[r]
              /\ i = sub[t].at /\ q = sub[t].buffer
    OBVIOUS
  <2>1. start \in Nat /\ cursor \in Nat /\ g \in Seq(Event) /\ L \in Seq(Event) /\ Ordered(L) /\ i \in Instances
        /\ Len(L) \in Nat
    BY <1>1, SubParts, LogType DEF TypeInv, LogInv, LogOf
  <2>2. GotOf(L, start, cursor, g)
    BY <1>1 DEF GotAt
  <2>3. PICK a, n : a = UpTo(L, start) /\ n = UpTo(L, cursor)
    OBVIOUS
  <2>4. /\ a \in 0..Len(L) /\ n \in 0..Len(L) /\ a <= n /\ Slice(g, L, a, n)
        /\ \A k \in 1..Len(L) : k <= n <=> L[k].seq <= cursor
    <3>1. a \in 0..Len(L) /\ n \in 0..Len(L) /\ \A k \in 1..Len(L) : k <= n <=> L[k].seq <= cursor
      BY <2>1, <2>3, UpToCuts
    <3>2. start <= cursor /\ Slice(g, L, a, n)
      BY <2>2, <2>3 DEF GotOf
    <3>3. a <= n
      BY <2>1, <2>3, <3>2, UpToMonotone
    <3>. QED
      BY <3>1, <3>2, <3>3
  <2>5. HasWindow(t, i, r)
    <3>1. Ours(i, r)
      BY <1>1 DEF Heard, Ours
    <3>. QED
      BY <1>1, <2>1, <3>1 DEF Follows, FollowsAt, Hears, Listens
  <2>6. PICK b \in 0..Len(L), m \in 0..Len(L) : b <= m /\ Slice(q, L, b, m) /\ b <= n
    BY <1>1, <2>3, <2>5 DEF HasWindow, Window
  <2>7. b < m
    <3>1. q # <<>>
      BY <1>1
    <3>2. b # m
      BY <2>6, <3>1, SliceNone
    <3>. QED
      BY <2>6, <3>2
  <2>8. e = L[b + 1] /\ e \in Event
    BY <2>6, <2>7, SliceTail
  <2>9. b + 1 \in 1..Len(L) /\ b = n
    <3>1. b + 1 \in 1..Len(L)
      BY <2>1, <2>6, <2>7
    <3>2. ~(b + 1 <= n)
      BY <1>3, <2>4, <2>8, <3>1
    <3>. QED
      BY <2>4, <2>6, <3>1, <3>2
  <2>10. Slice(Append(g, e), L, a, n + 1)
    BY <2>4, <2>8, <2>9, SliceAppend
  <2>11. GotOf(L, start, L[b + 1].seq, Append(g, e))
    <3>1. UpTo(L, cursor) < b + 1
      BY <2>3, <2>9, <2>6
    <3>. QED
      BY <2>1, <2>2, <2>3, <2>9, <2>10, <3>1, GotReaches
  <2>. QED
    BY <1>3, <2>8, <2>11
<1>. QED
  BY <1>1, <1>2, <1>3

\* Who follows a tail goes on following it.
SameTail(t) ==
  sub[t] # None => /\ sub'[t].run = sub[t].run
                   /\ sub[t].state = "Active" => sub'[t].state = "Active" /\ sub'[t].at = sub[t].at

\* A log that has its owner's events had them before.
LEMMA HeardKept ==
  ASSUME Base, Detachers, Looking, Next, NEW t \in Tasks, sub[t] # None, SameTail(t), Heard(t)'
  PROVE  Heard(t)
<1>. USE DEF Base
<1>. SUFFICES ASSUME sub[t].state = "Active" PROVE sub[t].at = owner[sub[t].run] /\ OwnLog(sub[t].run)
  BY DEF Heard
<1>. PICK i, r : i = sub[t].at /\ r = sub[t].run
  OBVIOUS
<1>1. i \in Instances /\ r \in Runs
  BY SubParts DEF TypeInv
<1>2. sub'[t].run = r /\ sub'[t].at = i /\ sub'[t].state = "Active"
  BY DEF SameTail
<1>3. i = owner'[r] /\ OwnLog(r)'
  BY <1>2 DEF Heard
<1>4. Ours(i, r)
  <2>1. Ours(i, r)'
    BY <1>3 DEF Ours
  <2>. QED
    BY <1>1, <2>1, OursStep
<1>5. owner[r] # None
  BY <1>1, ConstantsAssumption DEF Looking, LooksAt, StoreInv, RunsOwned
<1>. QED
  BY <1>4, <1>5 DEF Ours

LEMMA GotStep ==
  ASSUME Base, LogInv, LogInv', Detachers, Looking, Senders, Follows, Got, Next
  PROVE  Got'
<1>. USE DEF Base
<1>0. ASSUME NEW u \in Tasks, sub[u] # None, SameTail(u), Heard(u)' PROVE Heard(u) /\ \A r \in Runs : GotAt(u, r)
  BY <1>0, HeardKept DEF Got
<1>1. \A r \in Runs : Grows(r)
  BY LogsGrow
<1>2. ASSUME NEW u \in Tasks, GotSame(u), SameTail(u), Heard(u)' PROVE \A r \in Runs : GotAt(u, r)'
  <2>1. CASE sub[u] = None
    BY <1>2, <2>1 DEF GotSame, GotAt
  <2>2. CASE sub[u] # None
    BY <1>0, <1>1, <1>2, <2>2, GotKept
  <2>. QED
    BY <2>1, <2>2
<1>3. ASSUME NEW u \in Tasks, Keeps(u) PROVE GotSame(u) /\ SameTail(u)
  BY <1>3 DEF Keeps, GotSame, SameTail, Refilled, Listens
<1>4. ASSUME NEW t \in Tasks, Step(t) PROVE Got'
  <2>. PICK i, q : i = call[t].at /\ q = call[t].run
    OBVIOUS
  <2>1. \A u \in Tasks \ {t} : GotSame(u) /\ SameTail(u)
    BY <1>3, <1>4, OthersKeep
  <2>2. ASSUME Heard(t)' PROVE \A r \in Runs : GotAt(t, r)'
    <3>0. LooksAt(t)
      BY DEF Looking
    <3>1. CASE Publish(t)
      BY <1>2, <1>3, <2>2, <3>1, PublishKeeps
    <3>2. CASE \E from \in {0, 1} : Look(t, from)
      <4>1. CASE sub[t] # None
        <5>1. GotSame(t)
          BY <3>2, <4>1, LookOutcome DEF GotSame
        <5>2. sub'[t].run = sub[t].run
          BY <3>2, <4>1, LookOutcome
        <5>3. pc[t] = "look"
          BY <3>2, LookOutcome
        <5>4. SameTail(t)
          BY <3>0, <5>2, <5>3 DEF SameTail, LooksAt
        <5>. QED
          BY <1>2, <2>2, <5>1, <5>4
      <4>2. CASE sub[t] = None
        <5>1. \/ sub'[t] = sub[t]
              \/ /\ sub'[t].got = <<>> /\ sub'[t].start \in Nat /\ sub'[t].cursor = sub'[t].start
          BY <3>2, <4>2, LookOutcome
        <5>2. UNCHANGED log
          BY <3>2, LookOutcome
        <5>. SUFFICES ASSUME NEW r \in Runs, sub'[t] # None
                      PROVE  GotOf(log[r], sub'[t].start, sub'[t].cursor, sub'[t].got)
          BY <5>2 DEF GotAt
        <5>3. PICK s \in Nat : s = sub'[t].start /\ s = sub'[t].cursor
          BY <4>2, <5>1
        <5>4. UpTo(log[r], s) \in Nat
          <6>1. log[r] \in Seq(Event) /\ Ordered(log[r]) /\ Len(log[r]) \in Nat
            BY LogType DEF TypeInv, LogInv, LogOf
          <6>2. UpTo(log[r], s) \in 0..Len(log[r])
            BY <6>1, UpToCuts
          <6>. QED
            BY <6>1, <6>2
        <5>5. Slice(<<>>, log[r], UpTo(log[r], s), UpTo(log[r], s))
          BY <5>4, SliceEmpty
        <5>6. GotOf(log[r], s, s, <<>>)
          BY <5>5 DEF GotOf
        <5>. QED
          BY <4>2, <5>1, <5>3, <5>6
      <4>. QED
        BY <4>1, <4>2
    <3>3. CASE Attach(t)
      <4>1. sub[t] # None /\ (sub'[t] = sub[t] \/ (sub'[t].run = sub[t].run /\ sub'[t].start = sub[t].start
              /\ sub'[t].cursor = sub[t].cursor /\ sub'[t].got = sub[t].got))
        BY <3>3, AttachOutcome
      <4>2. pc[t] = "attach"
        BY <3>3, AttachOutcome
      <4>3. GotSame(t)
        BY <4>1 DEF GotSame
      <4>4. SameTail(t)
        BY <3>0, <4>1, <4>2 DEF SameTail, LooksAt
      <4>. QED
        BY <1>2, <2>2, <4>3, <4>4
    <3>4. CASE ListPage(t)
      <4>1. sub[t] # None /\ sub[t].run = q /\ sub'[t].run = q /\ pc[t] = "page"
        BY <3>4, PageOutcome
      <4>2. SameTail(t)
        BY <3>0, <4>1 DEF SameTail, LooksAt
      <4>3. \A r \in Runs : GotAt(t, r)
        BY <1>0, <2>2, <4>1, <4>2
      <4>. QED
        BY <3>4, <4>3, GotPage
    <3>5. CASE TailNext(t)
      <4>1. /\ sub[t] # None /\ sub'[t].state = sub[t].state
            /\ sub'[t].at = sub[t].at /\ sub'[t].run = sub[t].run
        BY <3>5, TailOutcome DEF Refilled
      <4>2. Heard(t) /\ \A r \in Runs : GotAt(t, r)
        BY <1>0, <2>2, <4>1 DEF SameTail
      <4>. QED
        BY <3>5, <4>2, GotTail
    <3>6. CASE ~(Publish(t) \/ (\E from \in {0, 1} : Look(t, from)) \/ Attach(t) \/ ListPage(t) \/ TailNext(t))
      <4>1. UNCHANGED sub
        BY <1>4, <3>6, StaysOut
      <4>2. GotSame(t) /\ SameTail(t)
        BY <4>1 DEF GotSame, SameTail
      <4>. QED
        BY <1>2, <2>2, <4>2
    <3>. QED
      BY <3>1, <3>2, <3>3, <3>4, <3>5, <3>6
  <2>. QED
    BY <1>2, <2>1, <2>2 DEF Got
<1>5. ASSUME UNCHANGED sub PROVE Got'
  BY <1>2, <1>5 DEF GotSame, SameTail, Got
<1>6. \A t \in Tasks, c \in Call : Begin(t, c) => UNCHANGED sub
  BY DEF Begin
<1>7. (\E r \in Runs : Lapse(r) \/ Reap(r)) => UNCHANGED sub
  BY DEF Lapse, Reap
<1>8. Quiet => UNCHANGED sub
  BY DEF Quiet, vars
<1>. QED
  BY <1>4, <1>5, <1>6, <1>7, <1>8 DEF Next

-----------------------------------------------------------------------------
(* A client that listens misses nothing.                                   *)

\* What a client follows by stays, and what operations have yet to publish.
StaysAt(t) ==
  sub'[t].buffer = sub[t].buffer /\ sub'[t].state = sub[t].state /\ sub'[t].cursor = sub[t].cursor
SameOffers(i, r) ==
  \A u \in Tasks : /\ Publishes(u, i, r)' <=> Publishes(u, i, r)
                   /\ Publishes(u, i, r) => answer'[u].events = answer[u].events

LEMMA FollowsSame ==
  ASSUME NEW t, NEW i, NEW r, FollowsAt(t, i, r), Hears(t, i, r)' => Hears(t, i, r),
         StaysAt(t), Same(r), Receives(t, i, r)' <=> Receives(t, i, r), SameOffers(i, r),
         Receives(t, i, r) /\ (\E v \in Tasks : Creates(v, i, r)') => \E v \in Tasks : Creates(v, i, r)
  PROVE  FollowsAt(t, i, r)'
<1>. SUFFICES ASSUME Hears(t, i, r)' PROVE Stale(t, i, r)' /\ HasWindow(t, i, r)'
  BY DEF FollowsAt
<1>1. Stale(t, i, r)
  BY DEF FollowsAt
<1>2. Stale(t, i, r)'
  BY <1>1 DEF Stale, Same, StaysAt
<1>3. PICK b, m \in 0..Len(log[r]) : Window(t, i, r, b, m)
  BY DEF FollowsAt, HasWindow
<1>4. \A u \in Tasks : Awaits(u, i, r, m) => Awaits(u, i, r, m)'
  BY DEF Awaits, SameOffers, Same
<1>5. Settled(i, r, b, m) => Settled(i, r, b, m)'
  BY DEF Settled, Same
<1>6. (\A u \in Tasks : ~Publishes(u, i, r)') => \A u \in Tasks : ~Publishes(u, i, r)
  BY DEF SameOffers
<1>7. Window(t, i, r, b, m)'
  BY <1>3, <1>4, <1>5, <1>6 DEF Window, Same, StaysAt
<1>8. log'[r] = log[r]
  BY DEF Same
<1>. QED
  BY <1>2, <1>7, <1>8 DEF HasWindow

\* A client that no entry serves has all there will be.
LEMMA FollowsDeaf ==
  ASSUME NEW t, NEW i, NEW r, FollowsAt(t, i, r), Hears(t, i, r)' => Hears(t, i, r),
         StaysAt(t), Same(r), ~Receives(t, i, r), ~Receives(t, i, r)'
  PROVE  FollowsAt(t, i, r)'
<1>. SUFFICES ASSUME Hears(t, i, r)' PROVE Stale(t, i, r)' /\ HasWindow(t, i, r)'
  BY DEF FollowsAt
<1>1. Stale(t, i, r)'
  BY DEF Stale
<1>2. PICK b, m \in 0..Len(log[r]) : Window(t, i, r, b, m)
  BY DEF FollowsAt, HasWindow
<1>3. Window(t, i, r, b, m)'
  BY <1>2 DEF Window, Same, StaysAt
<1>4. log'[r] = log[r]
  BY DEF Same
<1>. QED
  BY <1>1, <1>3, <1>4 DEF HasWindow

\* Of a run that runs its owner has the entry, and serves everybody who listens.
LEMMA RunningServes ==
  ASSUME Base, NEW i \in Instances, NEW r \in Runs, Ours(i, r), status[r] = "running"
  PROVE  /\ \A v \in Tasks : ~Creates(v, i, r)
         /\ \A t \in Tasks : FollowsAt(t, i, r) /\ Hears(t, i, r) => Receives(t, i, r)
<1>. USE DEF Base
<1>1. owner[r] = i
  BY ConstantsAssumption DEF Ours, StoreInv, RunsOwned
<1>2. \A v \in Tasks : ~Creates(v, i, r)
  BY <1>1 DEF SlotInv, OwnerHasEntry
<1>3. ~Over(r)
  BY DEF Over
<1>4. ASSUME NEW t \in Tasks, FollowsAt(t, i, r), Hears(t, i, r) PROVE Receives(t, i, r)
  BY <1>3, <1>4 DEF FollowsAt, HasWindow, Window
<1>. QED
  BY <1>2, <1>4

\* A start that loses takes the entry of a run that is over.
LEMMA FollowsCreate ==
  ASSUME Base, Looking, NEW u \in Tasks, CreateRun(u), NEW t \in Tasks,
         NEW i \in Instances, NEW r \in Runs, i = call[u].at, r = call[u].run,
         Ours(i, r), FollowsAt(t, i, r), StaysAt(t),
         registry'[i][r] = None, UNCHANGED status, Hears(t, i, r)' => Hears(t, i, r)
  PROVE  FollowsAt(t, i, r)'
<1>. USE DEF Base
<1>. SUFFICES ASSUME Hears(t, i, r)' PROVE Stale(t, i, r)' /\ HasWindow(t, i, r)'
  BY DEF FollowsAt
<1>1. pc[u] = "create" /\ UNCHANGED log
  BY CreateOutcome
<1>2. Creates(u, i, r) /\ Same(r)
  BY <1>1 DEF Creates, Same, Over
<1>3. ~Receives(t, i, r)'
  BY DEF Receives
<1>4. Stale(t, i, r)' /\ FollowsAt(t, i, r)
  BY <1>3 DEF Stale
<1>5. CASE ~Receives(t, i, r)
  BY <1>2, <1>3, <1>4, <1>5, FollowsDeaf DEF FollowsAt
<1>6. CASE Receives(t, i, r)
  <2>1. Over(r)
    <3>1. status[r] # "running"
      BY <1>2, RunningServes
    <3>2. status[r] # "absent"
      BY DEF Hears, Listens, Looking, LooksAt
    <3>. QED
      BY <3>1, <3>2 DEF Over, TypeInv, TypeOK
  <2>2. /\ sub[t].buffer = <<>>
        /\ sub[t].state = "Active" => UpTo(log[r], sub[t].cursor) = Len(log[r])
    BY <1>2, <1>4, <1>6, <2>1 DEF FollowsAt, Stale
  <2>3. PICK m \in Nat : m = Len(log[r])
    BY LogType DEF TypeInv
  <2>4. Slice(<<>>, log[r], m, m)
    BY SliceEmpty
  <2>5. Window(t, i, r, m, m)'
    <3>1. Slice(sub'[t].buffer, log'[r], m, m) /\ m <= m
      BY <1>2, <2>2, <2>4 DEF StaysAt, Same
    <3>2. sub'[t].state = "Active" => m <= UpTo(log'[r], sub'[t].cursor)
      BY <1>2, <2>2, <2>3 DEF StaysAt, Same
    <3>3. Over(r)' /\ m = Len(log'[r])
      BY <1>2, <2>1, <2>3 DEF Same
    <3>. QED
      BY <1>3, <3>1, <3>2, <3>3 DEF Window
  <2>6. m \in 0..Len(log'[r])
    BY <1>2, <2>3 DEF Same
  <2>. QED
    BY <1>4, <2>5, <2>6 DEF HasWindow
<1>. QED
  BY <1>5, <1>6

\* An operation that has published all takes the entry of a run that is over.
LEMMA FollowsRelease ==
  ASSUME Base, NEW u \in Tasks, Release(u), NEW t \in Tasks,
         NEW i \in Instances, NEW r \in Runs, i = call[u].at, r = call[u].run,
         FollowsAt(t, i, r), StaysAt(t),
         registry'[i][r] = None, Over(r), Hears(t, i, r)' => Hears(t, i, r)
  PROVE  FollowsAt(t, i, r)'
<1>. USE DEF Base
<1>. SUFFICES ASSUME Hears(t, i, r)' PROVE Stale(t, i, r)' /\ HasWindow(t, i, r)'
  BY DEF FollowsAt
<1>1. pc[u] = "publish" /\ answer[u].events = <<>> /\ UNCHANGED <<log, status>>
  BY ReleaseOutcome
<1>2. Same(r)
  BY <1>1 DEF Same, Over
<1>3. ~Receives(t, i, r)'
  BY DEF Receives
<1>4. Stale(t, i, r)' /\ FollowsAt(t, i, r)
  BY <1>3 DEF Stale
<1>5. CASE ~Receives(t, i, r)
  BY <1>2, <1>3, <1>4, <1>5, FollowsDeaf DEF FollowsAt
<1>6. CASE Receives(t, i, r)
  <2>1. PICK b, m \in 0..Len(log[r]) : Window(t, i, r, b, m)
    BY <1>4 DEF FollowsAt, HasWindow
  <2>2. ASSUME NEW v \in Tasks PROVE ~Publishes(v, i, r)
    <3>. SUFFICES ASSUME Publishes(v, i, r) PROVE FALSE
      OBVIOUS
    <3>1. pc[v] = "publish" /\ call[v].at = i /\ call[v].run = r
      BY DEF Publishes
    <3>2. u = v
      BY <1>1, <3>1, InsideOne DEF Inside
    <3>. QED
      BY <1>1, <3>2 DEF Publishes
  <2>3. Settled(i, r, b, m)
    BY <1>6, <2>1, <2>2 DEF Window
  <2>4. Window(t, i, r, b, m)'
    BY <1>2, <1>3, <2>1, <2>3 DEF Window, Same, StaysAt, Settled
  <2>5. b \in 0..Len(log'[r]) /\ m \in 0..Len(log'[r])
    BY <1>2 DEF Same
  <2>. QED
    BY <1>4, <2>4, <2>5 DEF HasWindow
<1>. QED
  BY <1>5, <1>6

\* Operations on a run publish one at a time.
LEMMA OnePublishes ==
  ASSUME LockInv, NEW u \in Tasks, pc[u] \in Inside, NEW i, NEW r, i = call[u].at, r = call[u].run
  PROVE  \A v \in Tasks \ {u} : ~Publishes(v, i, r)
<1>. SUFFICES ASSUME NEW v \in Tasks \ {u}, Publishes(v, i, r) PROVE FALSE
  OBVIOUS
<1>1. pc[v] \in Inside /\ call[v].at = i /\ call[v].run = r
  BY DEF Publishes, Inside
<1>. QED
  BY <1>1, InsideOne

\* What a write does to publishing.
LEMMA WriteOffers ==
  ASSUME Base, NEW u \in Tasks, Write(u), NEW i \in Instances, NEW r \in Runs,
         i = call[u].at, r = call[u].run
  PROVE  /\ \A v \in Tasks : ~Publishes(v, i, r)
         /\ \A v \in Tasks \ {u} : ~Publishes(v, i, r)'
         /\ Publishes(u, i, r)' <=> answer'[u].events # <<>>
         /\ \A v \in Tasks : Creates(v, i, r)' <=> Creates(v, i, r)
<1>. USE DEF Base
<1>1. pc[u] = "write" /\ pc' = [pc EXCEPT ![u] = "publish"] /\ UNCHANGED call
  BY WriteOutcomes DEF Goto
<1>2. pc'[u] = "publish" /\ \A v \in Tasks \ {u} : pc'[v] = pc[v]
  BY <1>1 DEF TypeInv, TypeOK
<1>3. \A v \in Tasks \ {u} : answer'[v] = answer[v]
  <2>1. Step(u)
    BY DEF Step
  <2>. QED
    BY <2>1, StepFrame
<1>4. \A v \in Tasks \ {u} : ~Publishes(v, i, r)
  BY <1>1, OnePublishes DEF Inside
<1>5. \A v \in Tasks : ~Publishes(v, i, r)
  BY <1>1, <1>4 DEF Publishes
<1>6. \A v \in Tasks \ {u} : ~Publishes(v, i, r)'
  BY <1>1, <1>2, <1>3, <1>4 DEF Publishes
<1>7. Publishes(u, i, r)' <=> answer'[u].events # <<>>
  BY <1>1, <1>2 DEF Publishes
<1>8. \A v \in Tasks : Creates(v, i, r)' <=> Creates(v, i, r)
  BY <1>1, <1>2 DEF Creates
<1>. QED
  BY <1>5, <1>6, <1>7, <1>8

\* An operation that is told the run is over publishes its last event again.
LEMMA FollowsVain ==
  ASSUME Base, LogInv, NEW u \in Tasks, Write(u), ~WritesOffer(u), NEW t \in Tasks,
         NEW i \in Instances, NEW r \in Runs, i = call[u].at, r = call[u].run,
         FollowsAt(t, i, r), StaysAt(t),
         Receives(t, i, r)' <=> Receives(t, i, r), Hears(t, i, r)' => Hears(t, i, r)
  PROVE  FollowsAt(t, i, r)'
<1>. USE DEF Base
<1>1. WritesNothing(u) \/ WritesInVain(u)
  BY WriteOutcomes
<1>2. /\ \A v \in Tasks : ~Publishes(v, i, r)
      /\ \A v \in Tasks \ {u} : ~Publishes(v, i, r)'
      /\ Publishes(u, i, r)' <=> answer'[u].events # <<>>
      /\ \A v \in Tasks : Creates(v, i, r)' <=> Creates(v, i, r)
  BY WriteOffers
<1>3. UNCHANGED <<log, status>>
  <2>1. WritesNothing(u) => UNCHANGED <<log, status>>
    BY DEF WritesNothing
  <2>2. WritesInVain(u) => UNCHANGED <<log, status>>
    BY DEF WritesInVain, TurnsAway
  <2>. QED
    BY <1>1, <2>1, <2>2
<1>4. Same(r) /\ FollowsAt(t, i, r)
  BY <1>3 DEF Same, Over
<1>5. CASE answer'[u].events = <<>>
  <2>1. SameOffers(i, r)
    BY <1>2, <1>5 DEF SameOffers
  <2>. QED
    BY <1>2, <1>4, <2>1, FollowsSame
<1>6. CASE ~Receives(t, i, r)
  BY <1>4, <1>6, FollowsDeaf
<1>7. CASE answer'[u].events # <<>> /\ Receives(t, i, r)
  <2>. SUFFICES ASSUME Hears(t, i, r)' PROVE Stale(t, i, r)' /\ HasWindow(t, i, r)'
    BY DEF FollowsAt
  <2>1. Over(r) /\ answer'[u].events = <<Last(log[r])>>
    <3>1. ASSUME NEW a, answer' = [answer EXCEPT ![u] = a] PROVE answer'[u] = a
      BY <3>1 DEF TypeInv, TypeOK
    <3>2. ~WritesNothing(u)
      <4>1. ASSUME NEW k, answer' = [answer EXCEPT ![u] = Answer(k, <<>>)] PROVE FALSE
        <5>1. answer'[u] = Answer(k, <<>>)
          BY <3>1, <4>1
        <5>. QED
          BY <1>7, <5>1, AnswerKinds
      <4>. QED
        BY <4>1 DEF WritesNothing
    <3>3. PICK a : TurnsAway(u, a) /\ answer' = [answer EXCEPT ![u] = a]
      BY <1>1, <3>2 DEF WritesInVain
    <3>4. answer'[u] = a
      BY <3>1, <3>3
    <3>5. Over(r) /\ a = Answer("finished", <<Last(log[r])>>)
      BY <1>7, <3>3, <3>4, AnswerKinds DEF TurnsAway
    <3>. QED
      BY <3>4, <3>5, AnswerKinds
  <2>2. PICK b, m \in 0..Len(log[r]) : Window(t, i, r, b, m)
    BY <1>4 DEF FollowsAt, HasWindow
  <2>3. Settled(i, r, b, m)
    BY <1>2, <1>7, <2>2 DEF Window
  <2>4. Stale(t, i, r)'
    BY <1>2, <1>4 DEF FollowsAt, Stale, Same, StaysAt
  <2>5. PICK n \in Nat : n + 1 = Len(log[r]) /\ n + 1 \in 1..Len(log[r]) /\ Last(log[r]) = log[r][n + 1]
    <3>1. log[r] \in Seq(Event) /\ log[r] # <<>>
      BY <2>1, LogType DEF TypeInv, OverLogged
    <3>2. Len(log[r]) \in 1..Len(log[r]) /\ Last(log[r]) = log[r][Len(log[r])]
      BY <3>1, LastInType
    <3>3. PICK k \in Nat : k = Len(log[r])
      BY <3>1, LogType DEF TypeInv
    <3>4. k >= 1 /\ k - 1 \in Nat /\ k - 1 + 1 = k
      BY <3>2, <3>3
    <3>. QED
      BY <3>2, <3>3, <3>4
  <2>6. PICK c \in Nat : /\ c <= n /\ Slice(sub[t].buffer, log[r], c, n)
                         /\ sub[t].state = "Active" => c <= UpTo(log[r], sub[t].cursor)
    <3>1. b \in Nat /\ m \in Nat
      OBVIOUS
    <3>2. CASE m = Len(log[r])
      <4>1. b = m
        BY <2>1, <2>3, <2>5, <3>1, <3>2 DEF Settled
      <4>2. sub[t].buffer = <<>>
        BY <2>2, <3>1, <4>1, SliceNone DEF Window
      <4>3. Slice(<<>>, log[r], n, n)
        BY SliceEmpty
      <4>4. sub[t].state = "Active" => n <= UpTo(log[r], sub[t].cursor)
        <5>1. ASSUME sub[t].state = "Active" PROVE n + 1 <= UpTo(log[r], sub[t].cursor)
          BY <2>2, <2>5, <3>2, <4>1, <5>1 DEF Window
        <5>2. UpTo(log[r], sub[t].cursor) \in Nat
          <6>1. sub[t] # None
            BY DEF Hears, Listens
          <6>2. sub[t].cursor \in Nat /\ log[r] \in Seq(Event)
            BY <6>1, SubParts, LogType DEF TypeInv
          <6>3. Ordered(log[r])
            BY DEF LogInv, LogOf
          <6>4. UpTo(log[r], sub[t].cursor) \in 0..Len(log[r])
            BY <6>2, <6>3, UpToCuts
          <6>. QED
            BY <2>5, <6>4
        <5>. QED
          BY <5>1, <5>2
      <4>5. n <= n /\ Slice(sub[t].buffer, log[r], n, n)
        BY <4>2, <4>3
      <4>. QED
        BY <4>4, <4>5
    <3>3. CASE m # Len(log[r])
      <4>1. m = n
        BY <2>3, <2>5, <3>1, <3>3 DEF Settled
      <4>. QED
        BY <2>2, <3>1, <4>1 DEF Window
    <3>. QED
      BY <3>2, <3>3
  <2>7. \A v \in Tasks : Awaits(v, i, r, n)'
    <3>1. Awaits(u, i, r, n)'
      <4>1. Head(answer'[u].events) = Last(log[r])
        BY <2>1
      <4>2. n < Len(log[r]) /\ log[r][n + 1] = Last(log[r])
        BY <2>5
      <4>. QED
        BY <1>4, <4>1, <4>2 DEF Awaits, Same
    <3>2. \A v \in Tasks \ {u} : Awaits(v, i, r, n)'
      BY <1>2 DEF Awaits
    <3>. QED
      BY <3>1, <3>2
  <2>8. Window(t, i, r, c, n)'
    <3>1. c <= n /\ Slice(sub'[t].buffer, log'[r], c, n)
          /\ (sub'[t].state = "Active" => c <= UpTo(log'[r], sub'[t].cursor))
      BY <1>4, <2>6 DEF StaysAt, Same
    <3>2. Publishes(u, i, r)' /\ Receives(t, i, r)'
      BY <1>2, <1>7
    <3>. QED
      BY <2>7, <3>1, <3>2 DEF Window
  <2>9. c \in 0..Len(log'[r]) /\ n \in 0..Len(log'[r])
    BY <1>4, <2>5, <2>6 DEF Same
  <2>. QED
    BY <2>4, <2>8, <2>9 DEF HasWindow
<1>. QED
  BY <1>5, <1>6, <1>7

\* What is added to the log of a run is published next.
LEMMA FollowsOffer ==
  ASSUME Base, LogInv, LogInv', NEW u \in Tasks, Write(u), WritesOffer(u), NEW t \in Tasks,
         NEW i \in Instances, NEW r \in Runs, i = call[u].at, r = call[u].run,
         Ours(i, r), FollowsAt(t, i, r), StaysAt(t),
         Receives(t, i, r)' <=> Receives(t, i, r), Hears(t, i, r)' => Hears(t, i, r)
  PROVE  FollowsAt(t, i, r)'
<1>. USE DEF Base
<1>. SUFFICES ASSUME Hears(t, i, r)' PROVE Stale(t, i, r)' /\ HasWindow(t, i, r)'
  BY DEF FollowsAt
<1>1. /\ \A v \in Tasks : ~Publishes(v, i, r)
      /\ \A v \in Tasks \ {u} : ~Publishes(v, i, r)'
      /\ Publishes(u, i, r)' <=> answer'[u].events # <<>>
      /\ \A v \in Tasks : Creates(v, i, r)' <=> Creates(v, i, r)
  BY WriteOffers
<1>2. /\ status[r] = "running"
      /\ \E b \in Seq(Event) : Adds(r, b) /\ b # <<>> /\ answer'[u].events = b
  <2>1. pc[u] = "write"
    BY WriteOutcomes
  <2>. QED
    BY <2>1, OfferAdds
<1>3. PICK p \in Seq(Event) : Adds(r, p) /\ p # <<>> /\ answer'[u].events = p
  BY <1>2
<1>4. Receives(t, i, r) /\ \A v \in Tasks : ~Creates(v, i, r)
  BY <1>2, RunningServes
<1>5. Stale(t, i, r)'
  BY <1>1, <1>4 DEF Stale
<1>6. PICK b, m \in 0..Len(log[r]) : Window(t, i, r, b, m)
  BY DEF FollowsAt, HasWindow
<1>7. m = Len(log[r])
  <2>1. Settled(i, r, b, m)
    BY <1>1, <1>4, <1>6 DEF Window
  <2>. QED
    BY <1>2, <2>1 DEF Settled, Over
<1>8. log[r] \in Seq(Event) /\ Len(log[r]) \in Nat /\ log'[r] = log[r] \o p /\ Ordered(log[r] \o p)
  <2>1. log[r] \in Seq(Event) /\ Len(log[r]) \in Nat
    BY LogType DEF TypeInv
  <2>2. log'[r] = log[r] \o p
    BY <1>3 DEF Adds
  <2>3. Ordered(log'[r])
    BY DEF LogInv, LogOf
  <2>. QED
    BY <2>1, <2>2, <2>3
<1>9. Len(log'[r]) = m + Len(p) /\ Len(p) >= 1 /\ log'[r][m + 1] = Head(p) /\ Len(p) \in Nat
  <2>1. Len(p) >= 1 /\ Len(p) \in Nat /\ Head(p) = p[1]
    BY <1>3
  <2>. DEFINE L == log[r]
  <2>2. Len(L \o p) = Len(L) + Len(p) /\ (L \o p)[Len(L) + 1] = p[1]
    <3>. HIDE DEF L
    <3>1. L \in Seq(Event)
      BY <1>8 DEF L
    <3>. QED
      BY <1>3, <2>1, <3>1
  <2>. QED
    BY <1>7, <1>8, <2>1, <2>2
<1>10. b <= m /\ Slice(sub'[t].buffer, log'[r], b, m)
  <2>1. b \in Nat /\ m \in Nat /\ m <= Len(log[r]) /\ Slice(sub[t].buffer, log[r], b, m) /\ b <= m
    BY <1>6, <1>8 DEF Window
  <2>2. Slice(sub[t].buffer, log[r] \o p, b, m)
    BY <1>8, <2>1, SliceGrows
  <2>. QED
    BY <1>8, <2>1, <2>2 DEF StaysAt
<1>11. sub'[t].state = "Active" => b <= UpTo(log'[r], sub'[t].cursor)
  <2>1. PICK c \in Nat : c = sub[t].cursor
    <3>1. sub[t] # None
      BY DEF Hears, Listens
    <3>. QED
      BY <3>1, SubParts DEF TypeInv
  <2>2. UpTo(log[r], c) <= UpTo(log[r] \o p, c) /\ UpTo(log[r], c) \in Nat /\ UpTo(log[r] \o p, c) \in Nat
    <3>1. UpTo(log[r], c) <= UpTo(log[r] \o p, c) /\ Ordered(log[r])
      BY <1>8, UpToGrows
    <3>2. UpTo(log[r], c) \in 0..Len(log[r])
      BY <1>8, <3>1, UpToCuts
    <3>3. UpTo(log[r] \o p, c) \in 0..Len(log[r] \o p) /\ Len(log[r] \o p) \in Nat
      <4>. DEFINE G == log[r] \o p
      <4>1. G \in Seq(Event) /\ Ordered(G)
        BY <1>8
      <4>. HIDE DEF G
      <4>2. UpTo(G, c) \in 0..Len(G) /\ Len(G) \in Nat
        <5>1. UpTo(G, c) \in 0..Len(G)
          BY <4>1, UpToCuts
        <5>2. Len(G) \in Nat
          BY <4>1
        <5>. QED
          BY <5>1, <5>2
      <4>. QED
        BY <4>2 DEF G
    <3>. QED
      BY <1>8, <3>1, <3>2, <3>3
  <2>3. sub[t].state = "Active" => b <= UpTo(log[r], c)
    BY <1>6, <2>1 DEF Window
  <2>4. sub'[t].state = sub[t].state /\ sub'[t].cursor = c
    BY <2>1 DEF StaysAt
  <2>. QED
    BY <1>8, <2>2, <2>3, <2>4
<1>12. \A v \in Tasks : Awaits(v, i, r, m)'
  <2>1. Awaits(u, i, r, m)'
    BY <1>3, <1>7, <1>8, <1>9 DEF Awaits
  <2>. QED
    BY <1>1, <2>1 DEF Awaits
<1>13. Window(t, i, r, b, m)'
  BY <1>1, <1>3, <1>4, <1>10, <1>11, <1>12 DEF Window
<1>14. b \in 0..Len(log'[r]) /\ m \in 0..Len(log'[r])
  BY <1>7, <1>8, <1>9, <1>10
<1>. QED
  BY <1>5, <1>13, <1>14 DEF HasWindow

\* The event that waits for publishing has one place in the log.
LEMMA PlaceOf ==
  ASSUME NEW L \in Seq(Event), Ordered(L), NEW n \in 1..Len(L), NEW m \in 1..Len(L), L[n] = L[m]
  PROVE  n = m
<1>1. Len(L) \in Nat /\ L[n].seq \in Nat /\ L[m].seq \in Nat
  BY SeqsType
<1>2. ~(n < m) /\ ~(m < n)
  BY <1>1 DEF Ordered
<1>. QED
  BY <1>1, <1>2

\* Where an event waits for publishing, and how many after it.
LEMMA WaitsAt ==
  ASSUME Base, LogInv, NEW u \in Tasks, NEW i \in Instances, NEW r \in Runs, PendingAt(u, i, r), Publishes(u, i, r)
  PROVE  \E n, e \in Nat :
           /\ Remains(answer[u].events, i, r, n, e) /\ n < e /\ e <= Len(log[r])
           /\ n + 1 \in 1..Len(log[r]) /\ Head(answer[u].events) = log[r][n + 1]
           /\ Slice(Tail(answer[u].events), log[r], n + 1, e)
<1>. USE DEF Base
<1>1. PICK n \in Nat, e \in Nat : Remains(answer[u].events, i, r, n, e)
  BY DEF PendingAt
<1>2. Len(log[r]) \in Nat
  BY LogType DEF TypeInv
<1>3. Slice(answer[u].events, log[r], n, e) /\ answer[u].events # <<>> /\ e <= Len(log[r])
  BY <1>1, <1>2 DEF Remains, Publishes
<1>4. n < e
  BY <1>3 DEF Slice
<1>5. Head(answer[u].events) = log[r][n + 1] /\ Slice(Tail(answer[u].events), log[r], n + 1, e)
  BY <1>3, <1>4, SliceTail
<1>6. n + 1 \in 1..Len(log[r])
  BY <1>2, <1>3, <1>4
<1>. QED
  BY <1>1, <1>3, <1>4, <1>5, <1>6

LEMMA SliceRest ==
  ASSUME NEW L, NEW q, NEW m \in Nat, NEW d \in Nat, m < d, Slice(q, L, m + 1, d)
  PROVE  /\ q = <<>> => m + 1 = d
         /\ q # <<>> => m + 1 < d /\ Head(q) = L[m + 1 + 1]
<1>1. PICK a \in Nat : a = m + 1
  OBVIOUS
<1>2. Slice(q, L, a, d) /\ a <= d
  BY <1>1
<1>3. q = <<>> <=> a = d
  BY <1>2, SliceNone
<1>4. a < d => Head(q) = L[a + 1]
  BY <1>2, SliceTail
<1>. QED
  BY <1>1, <1>2, <1>3, <1>4

\* Publishing moves the end of the window.
LEMMA FollowsPublish ==
  ASSUME Base, LogInv, NEW u \in Tasks, Publish(u), NEW t \in Tasks,
         NEW i \in Instances, NEW r \in Runs, i = call[u].at, r = call[u].run,
         PendingAt(u, i, r), FollowsAt(t, i, r), Hears(t, i, r), Receives(t, i, r)
  PROVE  FollowsAt(t, i, r)'
<1>. USE DEF Base
<1>. SUFFICES Stale(t, i, r)' /\ HasWindow(t, i, r)'
  BY DEF FollowsAt
<1>1. PICK e : e = Head(answer[u].events)
  OBVIOUS
<1>2. /\ pc[u] = "publish" /\ answer[u].events # <<>> /\ UNCHANGED <<status, log, pc, call>>
      /\ answer'[u].events = Tail(answer[u].events)
      /\ \A v \in Tasks : answer'[v] = answer[v] \/ v = u
  BY <1>1, PublishOutcome
<1>3. Refilled(t, Append(sub[t].buffer, e))
  BY <1>1, PublishOutcome
<1>4. /\ registry'[i][r] = None <=> registry[i][r] = None
      /\ registry[i][r] # None => /\ registry'[i][r].senders = registry[i][r].senders
                                  /\ registry'[i][r].published <=> (registry[i][r].published \/ e.terminal)
  BY <1>1, PublishOutcome
<1>5. Publishes(u, i, r) /\ \A v \in Tasks \ {u} : ~Publishes(v, i, r)
  BY <1>2, OnePublishes DEF Publishes, Inside
<1>6. Same(r) /\ (\A v \in Tasks \ {u} : ~Publishes(v, i, r)')
  BY <1>2, <1>5 DEF Same, Over, Publishes
<1>7. Publishes(u, i, r)' <=> Tail(answer[u].events) # <<>>
  BY <1>2 DEF Publishes
<1>8. Receives(t, i, r)' <=> ~e.terminal
  BY <1>4 DEF Receives
<1>9. PICK b, m \in 0..Len(log[r]) : Window(t, i, r, b, m)
  BY DEF FollowsAt, HasWindow
<1>10. m < Len(log[r]) /\ log[r][m + 1] = e /\ b <= m /\ Slice(sub[t].buffer, log[r], b, m)
  BY <1>1, <1>5, <1>9 DEF Window, Awaits
<1>11. log[r] \in Seq(Event) /\ Len(log[r]) \in Nat /\ Ordered(log[r]) /\ b \in Nat /\ m \in Nat
  BY LogType DEF TypeInv, LogInv, LogOf
<1>12. m + 1 \in 1..Len(log[r]) /\ m + 1 \in Nat /\ m + 1 \in 0..Len(log[r]) /\ b <= m + 1
  BY <1>10, <1>11
<1>13. e \in Event
  BY <1>10, <1>11, <1>12, SeqsType
<1>14. e.terminal <=> Over(r) /\ m + 1 = Len(log[r])
  BY <1>10, <1>12 DEF LogInv, LogOf
<1>15. PICK n \in Nat, d \in Nat :
           /\ Remains(answer[u].events, i, r, n, d) /\ n < d /\ d <= Len(log[r])
           /\ n + 1 \in 1..Len(log[r]) /\ Head(answer[u].events) = log[r][n + 1]
           /\ Slice(Tail(answer[u].events), log[r], n + 1, d)
  BY <1>5, WaitsAt
<1>16. n = m
  <2>1. n + 1 = m + 1
    BY <1>1, <1>10, <1>11, <1>12, <1>15, PlaceOf
  <2>. QED
    BY <1>11, <2>1
<1>b. Slice(Tail(answer[u].events), log[r], m + 1, d) /\ m < d /\ d <= Len(log[r])
  BY <1>15, <1>16
<1>17. Receives(t, i, r)' => \A v \in Tasks : ~Creates(v, i, r)'
  <2>1. ~e.terminal => Secure(i, r)
    BY <1>1, <1>15 DEF Remains
  <2>. QED
    BY <1>2, <1>8, <2>1 DEF Secure, Creates
<1>18. Stale(t, i, r)'
  BY <1>17 DEF Stale
<1>19. Slice(sub'[t].buffer, log'[r], b, m + 1)
  <2>1. Slice(Append(sub[t].buffer, e), log[r], b, m + 1)
    BY <1>10, <1>11, <1>13, SliceAppend
  <2>. QED
    BY <1>3, <1>6, <2>1 DEF Refilled, Same
<1>20. sub'[t].state = "Active" => b <= UpTo(log'[r], sub'[t].cursor)
  BY <1>3, <1>6, <1>9 DEF Window, Refilled, Same
<1>21. \A v \in Tasks : Awaits(v, i, r, m + 1)'
  <2>1. Awaits(u, i, r, m + 1)'
    <3>. SUFFICES ASSUME Tail(answer[u].events) # <<>>
                  PROVE  m + 1 < Len(log[r]) /\ log[r][m + 1 + 1] = Head(Tail(answer[u].events))
      BY <1>2, <1>6, <1>7 DEF Awaits, Same
    <3>. DEFINE Q == Tail(answer[u].events)
    <3>1. Q # <<>> /\ Slice(Q, log[r], m + 1, d) /\ m < d /\ d <= Len(log[r])
      BY <1>b
    <3>. HIDE DEF Q
    <3>2. m + 1 < d /\ Head(Q) = log[r][m + 1 + 1]
      BY <1>11, <3>1, SliceRest
    <3>3. m + 1 < Len(log[r])
      BY <1>11, <3>1, <3>2
    <3>. QED
      BY <3>2, <3>3 DEF Q
  <2>. QED
    BY <1>6, <2>1 DEF Awaits
<1>22. Receives(t, i, r)' /\ ~Publishes(u, i, r)' => Settled(i, r, b, m + 1)'
  <2>. SUFFICES ASSUME ~e.terminal, Tail(answer[u].events) = <<>> PROVE Settled(i, r, b, m + 1)'
    BY <1>7, <1>8
  <2>1. m + 1 = d
    <3>. DEFINE Q == Tail(answer[u].events)
    <3>1. Q = <<>> /\ Slice(Q, log[r], m + 1, d) /\ m < d
      BY <1>b
    <3>. HIDE DEF Q
    <3>. QED
      BY ZenonT(60), <1>11, <3>1, SliceRest
  <2>2. d = Len(log[r]) \/ (d = Len(log[r]) - 1 /\ Over(r) /\ Last(log[r]).by # i)
    BY <1>15 DEF Remains
  <2>3. Settled(i, r, b, m + 1)
    BY <1>14, <2>1, <2>2 DEF Settled
  <2>. QED
    BY <1>6, <2>3 DEF Settled, Same
<1>23. ~Receives(t, i, r)' => Over(r)' /\ m + 1 = Len(log'[r])
  BY <1>6, <1>8, <1>14 DEF Same
<1>24. Window(t, i, r, b, m + 1)'
  BY <1>12, <1>19, <1>20, <1>21, <1>22, <1>23 DEF Window
<1>25. b \in 0..Len(log'[r]) /\ m + 1 \in 0..Len(log'[r])
  BY <1>6, <1>12 DEF Same
<1>. QED
  BY <1>18, <1>24, <1>25 DEF HasWindow

\* A client that attaches is served what has not been published yet.
LEMMA FollowsAttach ==
  ASSUME Base, LogInv, Looking, NEW t \in Tasks, Attach(t),
         NEW i \in Instances, NEW r \in Runs,
         \A v \in Tasks : PendingAt(v, i, r), Hears(t, i, r)'
  PROVE  FollowsAt(t, i, r)'
<1>. USE DEF Base
<1>. SUFFICES Stale(t, i, r)' /\ HasWindow(t, i, r)'
  BY DEF FollowsAt
<1>1. PICK j, q : j = call[t].at /\ q = call[t].run
  OBVIOUS
<1>2. /\ j \in Instances /\ q \in Runs /\ pc[t] = "attach"
      /\ sub[t] # None /\ sub[t].at = j /\ sub[t].run = q /\ UNCHANGED <<status, log>>
  BY <1>1, AttachOutcome
<1>3. sub[t].state = "attaching" /\ sub[t].buffer = <<>>
  BY <1>2 DEF Looking, LooksAt
<1>4. sub'[t].state # "NotOwner"
  BY DEF Hears, Listens
<1>5. pc'[t] = "page" /\ UNCHANGED <<sub, call, answer>>
  BY <1>1, <1>4, AttachOutcome
<1>a. Receives(t, j, q)'
  BY <1>1, <1>4, AttachOutcome
<1>6. i = j /\ r = q
  BY <1>2, <1>5 DEF Hears
<1>7. sub'[t] = sub[t] /\ Same(r) /\ Receives(t, i, r)'
  BY <1>2, <1>5, <1>6, <1>a DEF Same, Over
<1>8. Stale(t, i, r)'
  BY <1>3, <1>7 DEF Stale
<1>9. \A v \in Tasks : Publishes(v, i, r)' <=> Publishes(v, i, r)
  <2>1. Goto(t, "page") \/ Returns(t)
    BY DEF Attach
  <2>2. pc \in [Tasks -> Places]
    BY DEF LockInv, LockTypes
  <2>3. \A v \in Tasks : pc'[v] = "publish" <=> pc[v] = "publish"
    BY <1>2, <2>1, <2>2 DEF Goto, Returns
  <2>. QED
    BY <1>5, <2>3 DEF Publishes
<1>10. PICK k \in Nat : k = Len(log[r])
  BY LogType DEF TypeInv
<1>11. ASSUME NEW n \in Nat, n <= k, \A v \in Tasks : Awaits(v, i, r, n),
              (\A v \in Tasks : ~Publishes(v, i, r)) => n = k
       PROVE  HasWindow(t, i, r)'
  <2>1. Slice(sub'[t].buffer, log'[r], n, n) /\ n <= n
    <3>1. Slice(<<>>, log[r], n, n)
      BY SliceEmpty
    <3>. QED
      BY <1>3, <1>7, <3>1 DEF Same
  <2>2. sub'[t].state # "Active"
    BY <1>3, <1>7
  <2>3. \A v \in Tasks : Awaits(v, i, r, n)'
    BY <1>5, <1>7, <1>9, <1>11 DEF Awaits, Same
  <2>4. (\A v \in Tasks : ~Publishes(v, i, r)') => Settled(i, r, n, n)'
    BY <1>7, <1>9, <1>10, <1>11 DEF Settled, Same
  <2>5. Window(t, i, r, n, n)'
    BY <1>7, <2>1, <2>2, <2>3, <2>4 DEF Window
  <2>6. n \in 0..Len(log'[r])
    BY <1>7, <1>10, <1>11 DEF Same
  <2>. QED
    BY <2>5, <2>6 DEF HasWindow
<1>12. CASE \E u \in Tasks : Publishes(u, i, r)
  <2>1. PICK u \in Tasks : Publishes(u, i, r)
    BY <1>12
  <2>2. PICK n \in Nat, e \in Nat :
           n < e /\ e <= Len(log[r]) /\ Head(answer[u].events) = log[r][n + 1]
    BY <2>1, WaitsAt
  <2>3. n <= k /\ n < Len(log[r])
    BY <1>10, <2>2
  <2>4. \A v \in Tasks \ {u} : ~Publishes(v, i, r)
    <3>1. pc[u] \in Inside /\ i = call[u].at /\ r = call[u].run
      BY <2>1 DEF Publishes, Inside
    <3>. QED
      BY <3>1, OnePublishes
  <2>5. \A v \in Tasks : Awaits(v, i, r, n)
    BY <2>2, <2>3, <2>4 DEF Awaits
  <2>. QED
    BY <1>8, <1>11, <2>1, <2>3, <2>5
<1>13. CASE \A u \in Tasks : ~Publishes(u, i, r)
  <2>1. \A v \in Tasks : Awaits(v, i, r, k)
    BY <1>13 DEF Awaits
  <2>2. k <= k
    OBVIOUS
  <2>. QED
    BY <1>8, <1>11, <2>1, <2>2
<1>. QED
  BY <1>12, <1>13

\* A client that has listed to the end follows.
LEMMA FollowsPage ==
  ASSUME Base, LogInv, Senders, Looking, NEW t \in Tasks, ListPage(t),
         NEW i \in Instances, NEW r \in Runs, FollowsAt(t, i, r), Hears(t, i, r)'
  PROVE  FollowsAt(t, i, r)'
<1>. USE DEF Base
<1>. SUFFICES Stale(t, i, r)' /\ HasWindow(t, i, r)'
  BY DEF FollowsAt
<1>1. PICK j, q : j = call[t].at /\ q = call[t].run
  OBVIOUS
<1>2. /\ j \in Instances /\ q \in Runs /\ pc[t] = "page" /\ UNCHANGED <<status, log>>
      /\ sub[t] # None /\ sub[t].at = j /\ sub[t].run = q
  BY <1>1, PageOutcome
<1>3. sub'[t].at = j /\ sub'[t].run = q
  BY <1>1, PageOutcome
<1>4. i = j /\ r = q
  BY <1>3 DEF Hears
<1>5. ~Full(t)
  <2>1. Full(t) => sub'[t].state = "Replay"
    BY <1>1, PageOutcome
  <2>. QED
    BY <2>1 DEF Hears, Listens
<1>6. UNCHANGED registry /\ sub'[t].buffer = sub[t].buffer
  BY <1>1, <1>5, PageOutcome
<1>7. sub'[t].cursor = IF Page(t) = <<>> THEN sub[t].cursor ELSE Last(Page(t)).seq
  BY <1>1, PageOutcome
<1>8. Hears(t, i, r)
  <2>1. Step(t) /\ ~Attach(t)
    BY <1>2 DEF Step, Attach
  <2>. QED
    BY <2>1, HearsOwn DEF Looking
<1>9. sub[t].state # "Active"
  BY <1>2 DEF Looking, LooksAt
<1>10. log[r] \in Seq(Event) /\ Ordered(log[r]) /\ Len(log[r]) \in Nat
  BY LogType DEF TypeInv, LogInv, LogOf
<1>11. UpTo(log[r], sub'[t].cursor) = Len(log[r])
  <2>. PICK L, n, p, d : L = log[r] /\ n = UpTo(L, sub[t].cursor) /\ p = Page(t) /\ d = Len(L)
    OBVIOUS
  <2>1. /\ n \in 0..Len(L)
        /\ p # <<>> => n < d /\ Last(p) = L[d]
        /\ p = <<>> => d = n
    <3>1. PICK c \in n..Len(L) : /\ ~Full(t) => c = Len(L)
                                 /\ p # <<>> => n < c /\ Last(p) = L[c]
                                 /\ p = <<>> => c = n
      BY <1>2, <1>4, PageSlice
    <3>2. n \in 0..Len(L)
      BY <1>2, <1>4, PageSlice
    <3>. QED
      BY <1>5, <3>1, <3>2
  <2>2. CASE p = <<>>
    BY <1>7, <2>1, <2>2
  <2>3. CASE p # <<>>
    <3>1. d \in 1..Len(L) /\ sub'[t].cursor = L[d].seq
      BY <1>7, <1>10, <2>1, <2>3
    <3>2. UpTo(L, L[d].seq) = d
      BY <1>10, <3>1, UpToAt
    <3>. QED
      BY <3>1, <3>2
  <2>. QED
    BY <2>2, <2>3
<1>12. PICK b, m \in 0..Len(log[r]) : Window(t, i, r, b, m)
  BY <1>8 DEF FollowsAt, HasWindow
<1>13. /\ \A v \in Tasks : v # t => pc'[v] = pc[v] /\ call'[v] = call[v] /\ answer'[v] = answer[v]
       /\ pc'[t] = "idle"
  BY <1>2, ReturnsType DEF ListPage, TypeInv
<1>14. \A v \in Tasks : (Publishes(v, i, r)' <=> Publishes(v, i, r)) /\ (Creates(v, i, r)' <=> Creates(v, i, r))
  BY <1>2, <1>13 DEF Publishes, Creates
<1>15. Same(r) /\ (Receives(t, i, r)' <=> Receives(t, i, r))
  BY <1>2, <1>6 DEF Same, Over, Receives
<1>16. Stale(t, i, r)'
  <2>1. Stale(t, i, r)
    BY <1>8 DEF FollowsAt
  <2>. QED
    BY <1>6, <1>11, <1>14, <1>15, <2>1 DEF Stale, Same
<1>17. \A v \in Tasks : Awaits(v, i, r, m) => Awaits(v, i, r, m)'
  BY <1>2, <1>13, <1>14, <1>15 DEF Awaits, Same, Publishes
<1>18. Window(t, i, r, b, m)'
  <2>1. b <= UpTo(log'[r], sub'[t].cursor)
    BY <1>11, <1>15 DEF Same
  <2>2. Settled(i, r, b, m) => Settled(i, r, b, m)'
    BY <1>15 DEF Settled, Same
  <2>3. \A v \in Tasks : Publishes(v, i, r)' <=> Publishes(v, i, r)
    BY <1>14
  <2>. QED
    BY <1>6, <1>12, <1>15, <1>17, <2>1, <2>2, <2>3 DEF Window, Same
<1>19. log'[r] = log[r]
  BY <1>15 DEF Same
<1>. QED
  BY <1>16, <1>18, <1>19 DEF HasWindow

\* Reading moves the start of the window.
LEMMA FollowsTail ==
  ASSUME Base, LogInv, NEW t \in Tasks, TailNext(t),
         NEW i \in Instances, NEW r \in Runs, FollowsAt(t, i, r), Hears(t, i, r)'
  PROVE  FollowsAt(t, i, r)'
<1>. USE DEF Base
<1>. SUFFICES Stale(t, i, r)' /\ HasWindow(t, i, r)'
  BY DEF FollowsAt
<1>1. PICK e : e = Head(sub[t].buffer)
  OBVIOUS
<1>2. /\ sub[t] # None /\ sub[t].state = "Active" /\ sub[t].buffer # <<>>
      /\ UNCHANGED <<status, log, registry, pc, call, answer>>
  BY TailOutcome
<1>3. /\ sub'[t] # None /\ sub'[t].at = sub[t].at /\ sub'[t].run = sub[t].run
      /\ sub'[t].state = sub[t].state /\ sub'[t].buffer = Tail(sub[t].buffer)
      /\ \/ e.seq <= sub[t].cursor /\ sub'[t].cursor = sub[t].cursor
         \/ ~(e.seq <= sub[t].cursor) /\ sub'[t].cursor = e.seq
  BY <1>1, TailOutcome DEF Refilled
<1>4. Hears(t, i, r)
  BY <1>2, <1>3 DEF Hears, Listens
<1>5. PICK b, m \in 0..Len(log[r]) : Window(t, i, r, b, m)
  BY <1>4 DEF FollowsAt, HasWindow
<1>6. log[r] \in Seq(Event) /\ Ordered(log[r]) /\ Len(log[r]) \in Nat /\ b \in Nat /\ m \in Nat
  BY LogType DEF TypeInv, LogInv, LogOf
<1>7. b <= m /\ Slice(sub[t].buffer, log[r], b, m) /\ b <= UpTo(log[r], sub[t].cursor)
  BY <1>2, <1>5 DEF Window
<1>8. b < m
  <2>1. b # m
    BY <1>2, <1>6, <1>7, SliceNone
  <2>. QED
    BY <1>6, <1>7, <2>1
<1>9. e = log[r][b + 1] /\ Slice(Tail(sub[t].buffer), log[r], b + 1, m)
  BY <1>1, <1>6, <1>7, <1>8, SliceTail
<1>10. b + 1 \in 1..Len(log[r]) /\ b + 1 <= m
  BY <1>6, <1>8
<1>11. b + 1 <= UpTo(log[r], sub'[t].cursor)
  <2>1. CASE e.seq <= sub[t].cursor /\ sub'[t].cursor = sub[t].cursor
    <3>1. sub[t].cursor \in Nat
      BY <1>2, SubParts DEF TypeInv
    <3>2. \A k \in 1..Len(log[r]) : k <= UpTo(log[r], sub[t].cursor) <=> log[r][k].seq <= sub[t].cursor
      BY <1>6, <3>1, UpToCuts
    <3>. QED
      BY <1>9, <1>10, <2>1, <3>2
  <2>2. CASE sub'[t].cursor = e.seq
    <3>1. UpTo(log[r], log[r][b + 1].seq) = b + 1
      BY <1>6, <1>10, UpToAt
    <3>. QED
      BY <1>6, <1>9, <2>2, <3>1
  <2>. QED
    BY <1>3, <2>1, <2>2
<1>12. Same(r) /\ (Receives(t, i, r)' <=> Receives(t, i, r))
       /\ \A v \in Tasks : (Publishes(v, i, r)' <=> Publishes(v, i, r)) /\ (Creates(v, i, r)' <=> Creates(v, i, r))
                           /\ (Awaits(v, i, r, m) => Awaits(v, i, r, m)')
  BY <1>2 DEF Same, Over, Receives, Publishes, Creates, Awaits
<1>13. Stale(t, i, r)'
  <2>1. Stale(t, i, r)
    BY <1>4 DEF FollowsAt
  <2>2. ~(Receives(t, i, r) /\ Over(r) /\ \E v \in Tasks : Creates(v, i, r))
    BY <1>2, <2>1 DEF Stale
  <2>. QED
    BY <1>12, <2>2 DEF Stale, Same
<1>14. Settled(i, r, b, m) => Settled(i, r, b + 1, m)'
  BY <1>6, <1>8, <1>12 DEF Settled, Same
<1>15. Window(t, i, r, b + 1, m)'
  <2>1. b + 1 <= m /\ Slice(sub'[t].buffer, log'[r], b + 1, m) /\ b + 1 <= UpTo(log'[r], sub'[t].cursor)
    BY <1>3, <1>9, <1>10, <1>11, <1>12 DEF Same
  <2>. QED
    BY <1>5, <1>12, <1>14, <2>1 DEF Window, Same
<1>16. b + 1 \in 0..Len(log'[r]) /\ m \in 0..Len(log'[r])
  BY <1>10, <1>12 DEF Same
<1>. QED
  BY <1>13, <1>15, <1>16 DEF HasWindow

LEMMA OneMore ==
  ASSUME NEW L \in Seq(Event), NEW e \in Event
  PROVE  /\ Len(L \o <<e>>) = Len(L) + 1 /\ L \o <<e>> \in Seq(Event) /\ (L \o <<e>>)[Len(L) + 1] = e
         /\ \A k \in 1..Len(L) : (L \o <<e>>)[k] = L[k]
OBVIOUS

\* The event by which somebody else ends a run is not published here.
LEMMA FollowsEnded ==
  ASSUME Base, LogInv, LogInv', NEW r \in Runs, NEW j, Ends(r, j), NEW t \in Tasks,
         NEW i \in Instances, j # i, Ours(i, r), FollowsAt(t, i, r), StaysAt(t),
         Hears(t, i, r)' => Hears(t, i, r), Receives(t, i, r)' <=> Receives(t, i, r),
         SameOffers(i, r), \A v \in Tasks : Creates(v, i, r)' => Creates(v, i, r)
  PROVE  FollowsAt(t, i, r)'
<1>. USE DEF Base
<1>. SUFFICES ASSUME Hears(t, i, r)' PROVE Stale(t, i, r)' /\ HasWindow(t, i, r)'
  BY DEF FollowsAt
<1>0. PICK e \in Event : Adds(r, <<e>>) /\ e.by = j
  BY DEF Ends
<1>a. status[r] = "running" /\ Over(r)'
  BY DEF Ends
<1>1. Hears(t, i, r)
  OBVIOUS
<1>2. Receives(t, i, r) /\ \A v \in Tasks : ~Creates(v, i, r)
  BY <1>1, <1>a, RunningServes
<1>3. Receives(t, i, r)' /\ \A v \in Tasks : ~Creates(v, i, r)' /\ (Publishes(v, i, r)' <=> Publishes(v, i, r))
  BY <1>2 DEF SameOffers
<1>4. Stale(t, i, r)'
  BY <1>3 DEF Stale
<1>5. PICK b, m \in 0..Len(log[r]) : Window(t, i, r, b, m)
  BY <1>1 DEF FollowsAt, HasWindow
<1>. DEFINE p == <<e>>
<1>6. /\ log[r] \in Seq(Event) /\ Len(log[r]) \in Nat /\ b \in Nat /\ m \in Nat
      /\ p \in Seq(Event) /\ Len(p) = 1 /\ p[1] = e
  BY LogType DEF TypeInv
<1>7. log'[r] = log[r] \o p /\ ~Over(r)
  BY <1>0 DEF Adds
<1>8. Ordered(log'[r])
  BY DEF LogInv, LogOf
<1>. HIDE DEF p
<1>9. PICK L : L = log[r]
  OBVIOUS
<1>10. Len(L \o p) = Len(L) + 1 /\ L \o p \in Seq(Event) /\ (L \o p)[Len(L) + 1] = e
       /\ \A k \in 1..Len(L) : (L \o p)[k] = L[k]
  BY <1>6, <1>9, OneMore DEF p
<1>11. Last(log'[r]) = e
  BY <1>6, <1>7, <1>9, <1>10 DEF Last
<1>12. e.by # i
  BY <1>0
<1>13. b <= m /\ m <= Len(L) /\ Slice(sub'[t].buffer, log'[r], b, m)
  <2>0. sub'[t].buffer = sub[t].buffer
    BY DEF StaysAt
  <2>1. b <= m /\ m <= Len(L) /\ Slice(sub[t].buffer, L, b, m)
    BY <1>5, <1>6, <1>9 DEF Window
  <2>2. Slice(sub[t].buffer, L \o p, b, m)
    BY <1>6, <1>9, <2>1, SliceGrows
  <2>. QED
    BY <1>7, <1>9, <2>0, <2>1, <2>2
<1>14. sub'[t].state = "Active" => b <= UpTo(log'[r], sub'[t].cursor)
  <2>1. PICK c \in Nat : c = sub[t].cursor
    <3>1. sub[t] # None
      BY <1>1 DEF Hears, Listens
    <3>. QED
      BY <3>1, SubParts DEF TypeInv
  <2>2. Ordered(L \o p) /\ L \in Seq(Event)
    BY <1>6, <1>7, <1>8, <1>9
  <2>3. UpTo(L, c) <= UpTo(L \o p, c) /\ Ordered(L)
    BY <1>6, <2>2, UpToGrows
  <2>4. UpTo(L, c) \in 0..Len(L)
    BY <2>2, <2>3, UpToCuts
  <2>5. UpTo(L \o p, c) \in 0..Len(L \o p)
    BY <1>10, <2>2, UpToCuts
  <2>6. UpTo(L, c) \in Nat /\ UpTo(L \o p, c) \in Nat
    BY <1>6, <1>9, <1>10, <2>4, <2>5
  <2>7. sub[t].state = "Active" => b <= UpTo(L, c)
    BY <1>5, <1>9, <2>1 DEF Window
  <2>8. sub'[t].state = sub[t].state /\ sub'[t].cursor = c
    BY <2>1 DEF StaysAt
  <2>. QED
    BY <1>6, <1>7, <1>9, <2>1, <2>3, <2>6, <2>7, <2>8
<1>15. ASSUME NEW v \in Tasks PROVE Awaits(v, i, r, m)'
  <2>. SUFFICES ASSUME Publishes(v, i, r)
                PROVE  m < Len(log'[r]) /\ log'[r][m + 1] = Head(answer[v].events)
    BY <1>3 DEF Awaits, SameOffers
  <2>1. m < Len(L) /\ L[m + 1] = Head(answer[v].events)
    BY <1>2, <1>5, <1>9 DEF Window, Awaits
  <2>2. m + 1 \in 1..Len(L)
    BY <1>6, <1>9, <2>1
  <2>3. (L \o p)[m + 1] = L[m + 1] /\ m < Len(L \o p)
    BY <1>6, <1>9, <1>10, <2>1, <2>2
  <2>. QED
    BY <1>7, <1>9, <2>1, <2>3
<1>16. (\A v \in Tasks : ~Publishes(v, i, r)') => Settled(i, r, b, m)'
  <2>. SUFFICES ASSUME \A v \in Tasks : ~Publishes(v, i, r) PROVE Settled(i, r, b, m)'
    BY <1>3
  <2>1. Settled(i, r, b, m)
    BY <1>2, <1>5 DEF Window
  <2>2. m = Len(L)
    BY <1>7, <1>9, <2>1 DEF Settled
  <2>3. m = Len(log'[r]) - 1
    BY <1>6, <1>7, <1>9, <1>10, <2>2
  <2>. QED
    BY <1>a, <1>11, <1>12, <2>3 DEF Settled
<1>17. Window(t, i, r, b, m)'
  BY <1>3, <1>13, <1>14, <1>15, <1>16 DEF Window
<1>18. b \in 0..Len(log'[r]) /\ m \in 0..Len(log'[r])
  BY <1>6, <1>7, <1>9, <1>10, <1>13
<1>. QED
  BY <1>4, <1>17, <1>18 DEF HasWindow

\* Most operations do not touch what has yet to be published ...
LEMMA QuietOffers ==
  ASSUME Base, NEW u \in Tasks, Step(u), ~Write(u), ~Publish(u),
         NEW i \in Instances, NEW r \in Runs
  PROVE  SameOffers(i, r)
<1>. USE DEF Base
<1>1. \A v \in Tasks \ {u} : pc'[v] = pc[v] /\ call'[v] = call[v] /\ answer'[v] = answer[v]
  BY StepFrame
<1>. SUFFICES /\ Publishes(u, i, r)' <=> Publishes(u, i, r)
              /\ Publishes(u, i, r) => answer'[u].events = answer[u].events
  BY <1>1 DEF SameOffers, Publishes
<1>2. pc \in [Tasks -> Places] /\ answer \in [Tasks -> Answers \cup {None}]
  BY DEF LockInv, LockTypes, TypeInv, TypeOK
<1>3. CASE TailNext(u)
  BY <1>3 DEF TailNext, taskVars, Publishes
<1>4. CASE ListForDetach(u)
  <2>1. pc[u] = "list"
    BY <1>4 DEF ListForDetach
  <2>2. CASE Goto(u, "detach")
    BY <1>2, <2>1, <2>2 DEF Goto, Publishes
  <2>3. ASSUME NEW k, answer' = [answer EXCEPT ![u] = Answer(k, <<>>)] PROVE ~Publishes(u, i, r)'
    <3>1. answer'[u].events = <<>>
      BY <1>2, <2>3, AnswerKinds
    <3>. QED
      BY <3>1 DEF Publishes
  <2>. QED
    BY <1>4, <1>2, <2>1, <2>2, <2>3, ListOutcomes DEF Publishes
<1>5. CASE Release(u)
  <2>1. answer[u].events = <<>>
    BY <1>5 DEF Release
  <2>2. Returns(u) \/ Goto(u, "dropLock")
    BY <1>5, ReleaseOutcomes
  <2>3. pc'[u] # "publish"
    BY <1>2, <2>2 DEF Returns, Goto
  <2>. QED
    BY <2>1, <2>3 DEF Publishes
<1>6. CASE Detach(u)
  <2>1. pc[u] = "detach"
    BY <1>6 DEF Detach
  <2>2. answer'[u].events = <<>>
    <3>1. ASSUME NEW k, answer' = [answer EXCEPT ![u] = Answer(k, <<>>)] PROVE answer'[u].events = <<>>
      BY <1>2, <3>1, AnswerKinds
    <3>2. \E k : answer' = [answer EXCEPT ![u] = Answer(k, <<>>)]
      BY <1>6 DEF Detach
    <3>. QED
      BY <3>1, <3>2
  <2>. QED
    BY <2>1, <2>2 DEF Publishes
<1>7. CASE ~(TailNext(u) \/ ListForDetach(u) \/ Release(u) \/ Detach(u))
  <2>2. /\ pc[u] # "publish"
        /\ Returns(u) \/ \E p \in Places \ {"publish"} : Goto(u, p)
    BY <1>7 DEF Step, LookupStart, InsertRun, CreateRun, GetLock, Acquire, DropLock,
         Look, Attach, ListPage, FindCancelled, RequestCancel, MarkCancelled, Places
  <2>3. pc'[u] # "publish"
    BY <1>2, <2>2 DEF Returns, Goto
  <2>. QED
    BY <2>2, <2>3 DEF Publishes
<1>. QED
  BY <1>3, <1>4, <1>5, <1>6, <1>7

\* ... nor the starts that wait for the store.
LEMMA FollowsQuiet ==
  ASSUME Base, NEW u \in Tasks, Step(u), ~Write(u), ~Publish(u), ~InsertRun(u),
         NEW t \in Tasks, NEW i \in Instances, NEW r \in Runs,
         Same(r), FollowsAt(t, i, r), StaysAt(t),
         Hears(t, i, r)' => Hears(t, i, r), Receives(t, i, r)' <=> Receives(t, i, r)
  PROVE  FollowsAt(t, i, r)'
<1>. USE DEF Base
<1>1. SameOffers(i, r)
  BY QuietOffers
<1>2. \A v \in Tasks : Creates(v, i, r)' => Creates(v, i, r)
  <2>1. /\ \A v \in Tasks \ {u} : pc'[v] = pc[v] /\ call'[v] = call[v]
        /\ pc'[u] = "idle" \/ call'[u] = call[u]
        /\ pc'[u] = "create" => InsertRun(u) \/ pc[u] = "create"
    BY StepFrame
  <2>. QED
    BY <2>1 DEF Creates
<1>. QED
  BY <1>1, <1>2, FollowsSame

LEMMA SameReceives ==
  ASSUME NEW i, NEW r, NEW t, EntrySame(i, r) \/ registry'[i][r] = registry[i][r]
  PROVE  Receives(t, i, r)' <=> Receives(t, i, r)
BY DEF EntrySame, Receives

\* A new entry has nobody to serve.
LEMMA FollowsInsert ==
  ASSUME Base, NEW u \in Tasks, InsertRun(u),
         NEW t \in Tasks, NEW i \in Instances, NEW r \in Runs,
         FollowsAt(t, i, r), StaysAt(t),
         Hears(t, i, r)' => Hears(t, i, r)
  PROVE  FollowsAt(t, i, r)'
<1>. USE DEF Base
<1>1. Step(u) /\ ~Write(u) /\ ~Publish(u)
  BY DEF Step, InsertRun, Write, Publish
<1>2. SameOffers(i, r) /\ Same(r)
  BY <1>1, QuietOffers DEF InsertRun, storeVars, Same, Over
<1>3. PICK j, q : j = call[u].at /\ q = call[u].run
  OBVIOUS
<1>4. /\ j \in Instances /\ q \in Runs /\ pc[u] = "insert"
      /\ \A k \in Instances, p \in Runs : <<k, p>> # <<j, q>> => registry'[k][p] = registry[k][p]
  BY <1>3, InsertOutcome
<1>5. \/ UNCHANGED registry /\ pc'[u] = "idle"
      \/ registry[j][q] = None /\ registry'[j][q] # None /\ registry'[j][q].senders = {}
  BY SMTT(30), <1>3, InsertOutcome
<1>6. /\ \A v \in Tasks \ {u} : pc'[v] = pc[v] /\ call'[v] = call[v]
      /\ pc'[u] = "idle" \/ call'[u] = call[u]
  BY <1>1, StepFrame
<1>7. CASE UNCHANGED registry /\ pc'[u] = "idle"
  <2>1. \A v \in Tasks : Creates(v, i, r)' => Creates(v, i, r)
    BY <1>6, <1>7 DEF Creates
  <2>2. Receives(t, i, r)' <=> Receives(t, i, r)
    BY <1>7, SameReceives
  <2>. QED
    BY <1>2, <2>1, <2>2, FollowsSame
<1>8. CASE registry[j][q] = None /\ registry'[j][q] # None /\ registry'[j][q].senders = {}
  <2>1. CASE i = j /\ r = q
    <3>1. ~Receives(t, i, r) /\ ~Receives(t, i, r)'
      BY <1>8, <2>1 DEF Receives
    <3>. QED
      BY <1>2, <3>1, FollowsDeaf
  <2>2. CASE ~(i = j /\ r = q)
    <3>1. \A v \in Tasks : Creates(v, i, r)' => Creates(v, i, r)
      BY <1>3, <1>6, <2>2 DEF Creates
    <3>2. registry'[i][r] = registry[i][r]
      BY <1>4, <2>2
    <3>3. Receives(t, i, r)' <=> Receives(t, i, r)
      BY <3>2, SameReceives
    <3>. QED
      BY <1>2, <3>1, <3>3, FollowsSame
  <2>. QED
    BY <2>1, <2>2
<1>. QED
  BY <1>5, <1>7, <1>8

\* A write.
LEMMA FollowsWrite ==
  ASSUME Base, LogInv, LogInv', Detachers, NEW u \in Tasks, Write(u),
         NEW t \in Tasks, NEW i \in Instances, NEW r \in Runs,
         Ours(i, r), Ours(i, r)', FollowsAt(t, i, r), StaysAt(t),
         Hears(t, i, r)' => Hears(t, i, r)
  PROVE  FollowsAt(t, i, r)'
<1>. USE DEF Base
<1>1. Step(u) /\ pc[u] = "write"
  BY DEF Step, Write
<1>2. Receives(t, i, r)' <=> Receives(t, i, r)
  <2>1. EntrySame(i, r)
    BY <1>1, QuietEntries DEF InsertRun, CreateRun, Release, Publish, Attach, ListPage
  <2>. QED
    BY <2>1, SameReceives
<1>3. PICK j, q : j = call[u].at /\ q = call[u].run
  OBVIOUS
<1>4. CASE i = j /\ r = q
  BY <1>2, <1>3, <1>4, FollowsVain, FollowsOffer
<1>5. CASE ~(i = j /\ r = q)
  <2>4. /\ \A v \in Tasks \ {u} : pc'[v] = pc[v] /\ call'[v] = call[v] /\ answer'[v] = answer[v]
        /\ pc'[u] = "idle" \/ call'[u] = call[u]
        /\ pc'[u] = "create" => InsertRun(u) \/ pc[u] = "create"
    BY <1>1, StepFrame
  <2>5. SameOffers(i, r)
    <3>1. ~Publishes(u, i, r)
      BY <1>1 DEF Publishes
    <3>2. ~Publishes(u, i, r)'
      BY <1>3, <1>5, <2>4 DEF Publishes
    <3>. QED
      BY <2>4, <3>1, <3>2 DEF SameOffers, Publishes
  <2>6. \A v \in Tasks : Creates(v, i, r)' => Creates(v, i, r)
    BY <1>1, <2>4 DEF Creates, InsertRun
  <2>7. CASE Same(r)
    BY <1>2, <2>5, <2>6, <2>7, FollowsSame
  <2>8. CASE ~Same(r)
    <3>1. OfferOf(u, i, r) \/ EndOf(u, i, r)
      BY <1>1, <2>8, StepEnds
    <3>2. Ends(r, j) /\ j # i
      BY <1>3, <1>5, <3>1 DEF OfferOf, EndOf
    <3>. QED
      BY <1>2, <2>5, <2>6, <3>2, FollowsEnded
  <2>. QED
    BY <2>7, <2>8
<1>. QED
  BY <1>4, <1>5

\* Publishing, of the run that is followed or of another.
LEMMA FollowsPublishes ==
  ASSUME Base, LogInv, Senders, NEW u \in Tasks, Publish(u),
         NEW t \in Tasks, NEW i \in Instances, NEW r \in Runs,
         PendingAt(u, i, r), FollowsAt(t, i, r), Hears(t, i, r)'
  PROVE  FollowsAt(t, i, r)'
<1>. USE DEF Base
<1>1. Hears(t, i, r)
  BY PublishKeeps, HearsKept
<1>2. PICK j, q, e : j = call[u].at /\ q = call[u].run /\ e = Head(answer[u].events)
  OBVIOUS
<1>3. /\ j \in Instances /\ q \in Runs /\ pc[u] = "publish" /\ UNCHANGED <<status, log, pc, call>>
      /\ \A v \in Tasks : answer'[v] = answer[v] \/ v = u
  BY <1>2, PublishOutcome
<1>4. \A v \in Tasks : ~Receives(v, j, q) => sub'[v] = sub[v]
  BY <1>2, PublishOutcome
<1>5. \A k \in Instances, p \in Runs : <<k, p>> # <<j, q>> => registry'[k][p] = registry[k][p]
  BY <1>2, PublishOutcome
<1>6. /\ registry'[j][q] = None <=> registry[j][q] = None
      /\ registry[j][q] # None =>
           /\ registry'[j][q].senders = registry[j][q].senders
           /\ registry'[j][q].published <=> (registry[j][q].published \/ e.terminal)
  BY <1>2, PublishOutcome
<1>7. Same(r)
  BY <1>3 DEF Same, Over
<1>8. CASE i = j /\ r = q /\ Receives(t, i, r)
  BY <1>1, <1>2, <1>8, FollowsPublish
<1>9. CASE i = j /\ r = q /\ ~Receives(t, i, r)
  <2>1. StaysAt(t)
    BY <1>4, <1>9 DEF StaysAt
  <2>2. ~Receives(t, i, r)'
    BY <1>6, <1>9 DEF Receives
  <2>. QED
    BY <1>1, <1>7, <1>9, <2>1, <2>2, FollowsDeaf
<1>10. CASE ~(i = j /\ r = q)
  <2>1. ~Receives(t, j, q)
    <3>1. Receives(t, j, q) => Hears(t, j, q)
      BY <1>3 DEF Receives, Senders
    <3>. QED
      BY <1>1, <1>10, <3>1 DEF Hears
  <2>2. StaysAt(t)
    BY <1>4, <2>1 DEF StaysAt
  <2>3. registry'[i][r] = registry[i][r]
    BY <1>5, <1>10
  <2>4. Receives(t, i, r)' <=> Receives(t, i, r)
    BY <2>3, SameReceives
  <2>5. SameOffers(i, r)
    <3>1. ~Publishes(u, i, r) /\ ~Publishes(u, i, r)'
      BY <1>2, <1>3, <1>10 DEF Publishes
    <3>2. \A v \in Tasks \ {u} : answer'[v] = answer[v]
      BY <1>3
    <3>. QED
      BY <1>3, <3>1, <3>2 DEF SameOffers, Publishes
  <2>6. \A v \in Tasks : Creates(v, i, r)' => Creates(v, i, r)
    BY <1>3 DEF Creates
  <2>. QED
    BY <1>1, <1>7, <2>2, <2>4, <2>5, <2>6, FollowsSame
<1>. QED
  BY <1>8, <1>9, <1>10

\* A client that subscribes or reads.
LEMMA FollowsOwn ==
  ASSUME Base, LogInv, Looking, Senders, NEW t \in Tasks,
         (\E from \in {0, 1} : Look(t, from)) \/ Attach(t) \/ ListPage(t) \/ TailNext(t),
         NEW i \in Instances, NEW r \in Runs,
         \A v \in Tasks : PendingAt(v, i, r), FollowsAt(t, i, r), Hears(t, i, r)'
  PROVE  FollowsAt(t, i, r)'
<1>. USE DEF Base
<1>1. CASE \E from \in {0, 1} : Look(t, from)
  <2>1. Step(t) /\ ~Attach(t)
    BY <1>1 DEF Step, Look, Attach
  <2>2. Hears(t, i, r)
    BY <2>1, HearsOwn DEF Looking
  <2>3. pc[t] = "look"
    BY <1>1 DEF Look
  <2>. QED
    BY <2>2, <2>3 DEF Looking, LooksAt, Hears, Listens
<1>. QED
  BY <1>1, FollowsAttach, FollowsPage, FollowsTail

\* Another that does.
LEMMA FollowsOther ==
  ASSUME Base, Senders, NEW u \in Tasks,
         (\E from \in {0, 1} : Look(u, from)) \/ Attach(u) \/ ListPage(u) \/ TailNext(u), ~Publish(u),
         NEW t \in Tasks \ {u}, NEW i \in Instances, NEW r \in Runs, FollowsAt(t, i, r)
  PROVE  FollowsAt(t, i, r)'
<1>. USE DEF Base
<1>1. Step(u) /\ ~Write(u) /\ ~Publish(u) /\ ~InsertRun(u)
  <2>1. CASE TailNext(u)
    <3>1. sub'[u] # sub[u]
      <4>1. sub'[u].buffer = Tail(sub[u].buffer) /\ sub[u] # None /\ sub[u].buffer # <<>>
        BY <2>1, TailOutcome DEF Refilled
      <4>2. PICK q \in Seq(Event) : q = sub[u].buffer
        BY <4>1, SubParts DEF TypeInv
      <4>3. Len(Tail(q)) # Len(q)
        BY <4>1, <4>2
      <4>. QED
        BY <4>1, <4>2, <4>3
    <3>2. ~Write(u) /\ ~InsertRun(u)
      BY <3>1, Zenon DEF Write, InsertRun
    <3>. QED
      BY <2>1, <3>2 DEF Step
  <2>2. CASE ~TailNext(u)
    BY <2>2 DEF Step, Look, Attach, ListPage, Write, Publish, InsertRun
  <2>. QED
    BY <2>1, <2>2
<1>2. Hears(t, i, r)' => Hears(t, i, r)
  BY <1>1, OthersKeep, HearsKept
<1>3. sub'[t] = sub[t]
  <2>1. CASE \E from \in {0, 1} : Look(u, from)
    BY <2>1, LookOutcome
  <2>2. CASE Attach(u)
    BY <2>2, AttachOutcome
  <2>3. CASE ListPage(u)
    BY <2>3, PageOutcome
  <2>4. CASE TailNext(u)
    BY <2>4, TailOutcome
  <2>. QED
    BY <2>1, <2>2, <2>3, <2>4
<1>4. StaysAt(t)
  BY <1>3 DEF StaysAt
<1>5. Receives(t, i, r)' <=> Receives(t, i, r)
  <2>. PICK j, q : j = call[u].at /\ q = call[u].run
    OBVIOUS
  <2>1. CASE UNCHANGED registry
    BY <2>1, SameReceives
  <2>2. CASE Attach(u) /\ ~UNCHANGED registry
    <3>1. registry'[j][q].senders = registry[j][q].senders \cup {u} /\ registry[j][q] # None
      BY <2>2, AttachOutcome
    <3>2. ~registry[j][q].published /\ registry'[j][q] # None /\ ~registry'[j][q].published
      BY <2>2, AttachOutcome
    <3>3. \A k \in Instances, p \in Runs : <<k, p>> # <<j, q>> => registry'[k][p] = registry[k][p]
      BY <2>2, AttachOutcome
    <3>4. CASE i = j /\ r = q
      BY <3>1, <3>2, <3>4 DEF Receives
    <3>5. CASE ~(i = j /\ r = q)
      BY <3>3, <3>5, SameReceives
    <3>. QED
      BY <3>4, <3>5
  <2>3. CASE ListPage(u) /\ ~UNCHANGED registry
    <3>1. Full(u)
      BY <2>3, PageOutcome
    <3>2. registry'[j][q] = None <=> registry[j][q] = None
      BY <2>3, <3>1, PageOutcome
    <3>3. registry[j][q] # None => Drops(u, j, q)
      BY <2>3, <3>1, PageOutcome
    <3>4. registry[j][q] # None => registry'[j][q].published = registry[j][q].published
      BY <2>3, <3>1, PageOutcome
    <3>5. \A k \in Instances, p \in Runs : <<k, p>> # <<j, q>> => registry'[k][p] = registry[k][p]
      BY <2>3, PageOutcome
    <3>6. CASE i = j /\ r = q
      BY <3>2, <3>3, <3>4, <3>6 DEF Receives, Drops
    <3>7. CASE ~(i = j /\ r = q)
      BY <3>5, <3>7, SameReceives
    <3>. QED
      BY <3>6, <3>7
  <2>4. Attach(u) \/ ListPage(u) \/ UNCHANGED registry
    BY LookOutcome, TailOutcome
  <2>. QED
    BY <2>1, <2>2, <2>3, <2>4
<1>6. Same(r)
  BY LookOutcome, AttachOutcome, PageOutcome, TailOutcome DEF Same, Over
<1>. QED
  BY <1>1, <1>2, <1>4, <1>5, <1>6, FollowsQuiet

\* The other operations.
LEMMA FollowsRest ==
  ASSUME Base, LogInv, LogInv', Detachers, Looking, Senders, NEW u \in Tasks, Step(u),
         ~Publish(u), ~(\E from \in {0, 1} : Look(u, from)), ~Attach(u), ~ListPage(u), ~TailNext(u),
         NEW t \in Tasks, NEW i \in Instances, NEW r \in Runs,
         Ours(i, r), Ours(i, r)', FollowsAt(t, i, r)
  PROVE  FollowsAt(t, i, r)'
<1>. USE DEF Base
<1>1. UNCHANGED sub
  BY StaysOut
<1>2. StaysAt(t)
  BY <1>1 DEF StaysAt
<1>3. Hears(t, i, r)' => Hears(t, i, r)
  <2>1. CASE t = u
    BY <2>1, HearsOwn DEF Looking
  <2>2. CASE t # u
    BY <2>2, OthersKeep, HearsKept
  <2>. QED
    BY <2>1, <2>2
<1>. PICK j, q : j = call[u].at /\ q = call[u].run
  OBVIOUS
<1>4. CASE InsertRun(u)
  BY <1>2, <1>3, <1>4, FollowsInsert
<1>5. CASE Write(u)
  BY <1>2, <1>3, <1>5, FollowsWrite
<1>6. ASSUME ~InsertRun(u), ~Write(u), EntrySame(i, r) \/ registry'[i][r] = registry[i][r]
      PROVE  FollowsAt(t, i, r)'
  <2>1. Receives(t, i, r)' <=> Receives(t, i, r)
    BY <1>6, SameReceives
  <2>2. CASE Same(r)
    BY <1>2, <1>3, <1>6, <2>1, <2>2, FollowsQuiet
  <2>3. CASE ~Same(r)
    <3>1. PICK k : k = call[u].at
      OBVIOUS
    <3>2. Ends(r, k) /\ k # i
      BY <1>6, <2>3, <3>1, StepEnds DEF OfferOf, EndOf
    <3>3. SameOffers(i, r)
      BY <1>6, QuietOffers
    <3>4. \A v \in Tasks : Creates(v, i, r)' => Creates(v, i, r)
      <4>1. /\ \A v \in Tasks \ {u} : pc'[v] = pc[v] /\ call'[v] = call[v]
            /\ pc'[u] = "idle" \/ call'[u] = call[u]
            /\ pc'[u] = "create" => InsertRun(u) \/ pc[u] = "create"
        BY StepFrame
      <4>. QED
        BY <1>6, <4>1 DEF Creates
    <3>. QED
      BY <1>2, <1>3, <2>1, <3>2, <3>3, <3>4, FollowsEnded
  <2>. QED
    BY <2>2, <2>3
<1>7. CASE CreateRun(u)
  <2>0. ~InsertRun(u) /\ ~Write(u)
    BY <1>7 DEF InsertRun, Write, CreateRun
  <2>1. CASE UNCHANGED registry
    BY <1>6, <2>0, <2>1
  <2>2. CASE ~UNCHANGED registry
    <3>1. UNCHANGED status /\ registry'[j][q] = None
      BY <1>7, <2>2, CreateOutcome
    <3>2. \A k \in Instances, p \in Runs : <<k, p>> # <<j, q>> => registry'[k][p] = registry[k][p]
      BY <1>7, <2>2, CreateOutcome
    <3>3. CASE i = j /\ r = q
      BY <1>2, <1>3, <1>7, <3>1, <3>3, FollowsCreate
    <3>4. CASE ~(i = j /\ r = q)
      BY <1>6, <2>0, <3>2, <3>4
    <3>. QED
      BY <3>3, <3>4
  <2>. QED
    BY <2>1, <2>2
<1>8. CASE Release(u)
  <2>0. ~InsertRun(u) /\ ~Write(u)
    BY <1>8 DEF InsertRun, Write, Release
  <2>1. CASE UNCHANGED registry
    BY <1>6, <2>0, <2>1
  <2>2. CASE ~UNCHANGED registry
    <3>1. Over(q) /\ registry'[j][q] = None
      BY <1>8, <2>2, ReleaseOutcome
    <3>2. \A k \in Instances, p \in Runs : <<k, p>> # <<j, q>> => registry'[k][p] = registry[k][p]
      BY <1>8, <2>2, ReleaseOutcome
    <3>3. CASE i = j /\ r = q
      BY <1>2, <1>3, <1>8, <3>1, <3>3, FollowsRelease
    <3>4. CASE ~(i = j /\ r = q)
      BY <1>6, <2>0, <3>2, <3>4
    <3>. QED
      BY <3>3, <3>4
  <2>. QED
    BY <2>1, <2>2
<1>9. CASE ~(InsertRun(u) \/ Write(u) \/ CreateRun(u) \/ Release(u))
  <2>1. EntrySame(i, r)
    BY <1>9, QuietEntries
  <2>. QED
    BY <1>6, <1>9, <2>1
<1>. QED
  BY <1>4, <1>5, <1>7, <1>8, <1>9

\* No operation of the lifecycle moves.
LEMMA FollowsStill ==
  ASSUME NEW t \in Tasks, NEW i \in Instances, NEW r \in Runs, FollowsAt(t, i, r), UNCHANGED <<registry, sub>>, Same(r),
         Hears(t, i, r)' => Hears(t, i, r), SameOffers(i, r),
         \A v \in Tasks : Creates(v, i, r)' => Creates(v, i, r)
  PROVE  FollowsAt(t, i, r)'
<1>1. StaysAt(t) /\ (Receives(t, i, r)' <=> Receives(t, i, r))
  BY DEF StaysAt, Receives
<1>. QED
  BY <1>1, FollowsSame

LEMMA FollowsStep ==
  ASSUME Base, LogInv, LogInv', Detachers, Pending, Looking, Senders, Follows, Next
  PROVE  Follows'
<1>. USE DEF Base
<1>. SUFFICES ASSUME NEW t \in Tasks, NEW i \in Instances, NEW r \in Runs, Ours(i, r)'
              PROVE  FollowsAt(t, i, r)'
  BY DEF Follows
<1>0. Ours(i, r) /\ FollowsAt(t, i, r) /\ \A v \in Tasks : PendingAt(v, i, r)
  BY OursStep DEF Follows, Pending
<1>1. ASSUME NEW u \in Tasks, Step(u) PROVE FollowsAt(t, i, r)'
  <2>1. CASE Publish(u)
    BY <1>0, <2>1, FollowsPublishes DEF FollowsAt
  <2>2. CASE ~Publish(u) /\ ((\E from \in {0, 1} : Look(u, from)) \/ Attach(u) \/ ListPage(u) \/ TailNext(u))
    <3>1. CASE t = u
      BY <1>0, <2>2, <3>1, FollowsOwn DEF FollowsAt
    <3>2. CASE t # u
      BY <1>0, <2>2, <3>2, FollowsOther
    <3>. QED
      BY <3>1, <3>2
  <2>3. CASE ~(Publish(u) \/ (\E from \in {0, 1} : Look(u, from)) \/ Attach(u) \/ ListPage(u) \/ TailNext(u))
    BY <1>0, <1>1, <2>3, FollowsRest
  <2>. QED
    BY <2>1, <2>2, <2>3
<1>2. ASSUME NEW u \in Tasks, NEW c \in Call, Begin(u, c) PROVE FollowsAt(t, i, r)'
  <2>1. /\ \A v \in Tasks \ {u} : pc'[v] = pc[v] /\ call'[v] = call[v]
        /\ pc'[u] \in {"lookup", "look", "find", "getLock"} /\ answer' = answer
    BY <1>2, BeginFrame
  <2>2. pc[u] = "idle" /\ UNCHANGED <<registry, sub>> /\ Same(r)
    BY <1>2 DEF Begin, storeVars, Same, Over
  <2>3. Hears(t, i, r)' => Hears(t, i, r)
    BY <2>1, <2>2 DEF Hears, Listens
  <2>4. SameOffers(i, r) /\ \A v \in Tasks : Creates(v, i, r)' => Creates(v, i, r)
    BY <2>1, <2>2 DEF SameOffers, Publishes, Creates
  <2>. QED
    BY <1>0, <2>2, <2>3, <2>4, FollowsStill
<1>3. ASSUME UNCHANGED <<pc, call, answer, registry, sub>>, Same(r) PROVE FollowsAt(t, i, r)'
  <2>1. /\ Hears(t, i, r)' => Hears(t, i, r)
        /\ SameOffers(i, r) /\ \A v \in Tasks : Creates(v, i, r)' => Creates(v, i, r)
    BY <1>3 DEF Hears, Listens, SameOffers, Publishes, Creates
  <2>. QED
    BY <1>0, <1>3, <2>1, FollowsStill
<1>4. ASSUME NEW q \in Runs, Lapse(q) \/ Reap(q) PROVE FollowsAt(t, i, r)'
  <2>1. UNCHANGED <<pc, call, answer, registry, sub>>
    BY <1>4 DEF Lapse, Reap, taskVars
  <2>2. CASE Same(r)
    BY <1>3, <2>1, <2>2
  <2>3. CASE ~Same(r)
    <3>1. Ends(r, None) /\ None # i
      BY <1>4, <2>3, ReapLogs, ConstantsAssumption
    <3>2. /\ StaysAt(t) /\ (Receives(t, i, r)' <=> Receives(t, i, r))
          /\ Hears(t, i, r)' => Hears(t, i, r)
          /\ SameOffers(i, r) /\ \A v \in Tasks : Creates(v, i, r)' => Creates(v, i, r)
      BY <2>1 DEF StaysAt, Receives, Hears, Listens, SameOffers, Publishes, Creates
    <3>. QED
      BY <1>0, <3>1, <3>2, FollowsEnded
  <2>. QED
    BY <2>2, <2>3
<1>5. ASSUME Quiet PROVE FollowsAt(t, i, r)'
  <2>1. UNCHANGED <<status, log, registry, pc, call, answer, sub>>
    BY <1>5 DEF Quiet, vars, storeVars, taskVars
  <2>. QED
    BY <1>3, <2>1 DEF Same, Over
<1>. QED
  BY <1>1, <1>2, <1>4, <1>5 DEF Next

-----------------------------------------------------------------------------
(* Together.                                                               *)

FollowInv == LogInv /\ Detachers /\ Pending /\ Looking /\ Senders /\ Follows /\ Got

\* A slice is what there is between two places ...
LEMMA SliceIs ==
  ASSUME NEW L \in Seq(Event), NEW a \in Nat, NEW c \in Nat, a <= c, c <= Len(L), NEW q, Slice(q, L, a, c)
  PROVE  q = SubSeq(L, a + 1, c)
<1>1. /\ q \in Seq(Event) /\ Len(q) = c - a /\ \A k \in 1..Len(q) : q[k] = L[a + k]
  BY DEF Slice
<1>2. PICK s : s = SubSeq(L, a + 1, c)
  OBVIOUS
<1>3. s \in Seq(Event) /\ Len(s) = c - a /\ \A k \in 1..c - a : s[k] = L[a + k]
  BY <1>2
<1>4. \A k \in 1..c - a : q[k] = s[k]
  BY <1>1, <1>3
<1>5. q = s
  BY <1>1, <1>3, <1>4
<1>. QED
  BY <1>2, <1>5

\* ... and a prefix of all there is after the first.
LEMMA SlicePrefix ==
  ASSUME NEW L \in Seq(Event), NEW a \in Nat, NEW c \in Nat, a <= c, c <= Len(L), NEW q, Slice(q, L, a, c)
  PROVE  IsPrefix(q, SubSeq(L, a + 1, Len(L)))
<1>1. Len(L) \in Nat /\ q \in Seq(Event) /\ Len(q) = c - a /\ \A k \in 1..Len(q) : q[k] = L[a + k]
  BY DEF Slice
<1>2. PICK s : s = SubSeq(L, a + 1, Len(L))
  OBVIOUS
<1>3. s \in Seq(Event) /\ Len(s) = Len(L) - a /\ \A k \in 1..Len(L) - a : s[k] = L[a + k]
  BY <1>1, <1>2
<1>4. PICK n \in Nat : n = Len(q)
  BY <1>1
<1>5. n <= Len(s) /\ \A k \in 1..n : q[k] = s[k]
  <2>1. n = c - a /\ n <= Len(L) - a
    BY <1>1, <1>4
  <2>2. \A k \in 1..n : k \in 1..Len(q) /\ k \in 1..Len(L) - a
    BY <1>1, <1>4, <2>1
  <2>. QED
    BY <1>1, <1>3, <2>1, <2>2
<1>6. PICK x, y : x = SubSeq(q, 1, n) /\ y = SubSeq(s, 1, n)
  OBVIOUS
<1>7. x \in Seq(Event) /\ Len(x) = n /\ \A k \in 1..n : x[k] = q[k]
  BY <1>1, <1>4, <1>6
<1>8. y \in Seq(Event) /\ Len(y) = n /\ \A k \in 1..n : y[k] = s[k]
  BY <1>3, <1>4, <1>5, <1>6
<1>9. x = y
  BY <1>4, <1>5, <1>7, <1>8
<1>. QED
  BY <1>2, <1>4, <1>5, <1>6, <1>9 DEF IsPrefix

LEMMA FollowersServed ==
  ASSUME TypeInv, FollowInv
  PROVE  TailsFaithful
<1>. USE DEF FollowInv
<1>1. ASSUME NEW t \in Tasks, Heard(t), NEW r, r = sub[t].run, NEW L, L = log[r]
      PROVE  \E a, c \in Nat :
               /\ a = Past(r, sub[t].start) /\ c = UpTo(L, sub[t].cursor)
               /\ r \in Runs /\ L \in Seq(Event) /\ a <= c /\ c <= Len(L) /\ Slice(sub[t].got, L, a, c)
  <2>0. sub[t] # None
    BY <1>1 DEF Heard
  <2>1. sub[t].start \in Nat /\ sub[t].cursor \in Nat /\ r \in Runs
    BY <1>1, <2>0, SubParts DEF TypeInv
  <2>2. L \in Seq(Event) /\ Len(L) \in Nat /\ Ordered(L)
    BY <1>1, <2>1, LogType DEF TypeInv, LogInv, LogOf
  <2>3. sub[t].start <= sub[t].cursor
        /\ Slice(sub[t].got, L, UpTo(L, sub[t].start), UpTo(L, sub[t].cursor))
    BY <1>1, <2>0, <2>1 DEF Got, GotAt, GotOf
  <2>4. UpTo(L, sub[t].start) \in 0..Len(L) /\ UpTo(L, sub[t].start) <= UpTo(L, sub[t].cursor)
    BY <2>1, <2>2, <2>3, UpToCuts, UpToMonotone
  <2>5. UpTo(L, sub[t].cursor) \in 0..Len(L)
    BY <2>1, <2>2, UpToCuts
  <2>6. Past(r, sub[t].start) = UpTo(L, sub[t].start)
    BY <1>1 DEF Past, UpTo
  <2>. QED
    BY <2>1, <2>2, <2>3, <2>4, <2>5, <2>6
<1>2. TailExact
  <2>. SUFFICES ASSUME NEW t \in Tasks, Heard(t)
                PROVE  IsPrefix(sub[t].got, After(sub[t].run, sub[t].start))
    BY DEF TailExact
  <2>. PICK r, L : r = sub[t].run /\ L = log[r]
    OBVIOUS
  <2>1. PICK a, c \in Nat :
               /\ a = Past(r, sub[t].start) /\ c = UpTo(L, sub[t].cursor)
               /\ r \in Runs /\ L \in Seq(Event) /\ a <= c /\ c <= Len(L) /\ Slice(sub[t].got, L, a, c)
    BY <1>1
  <2>2. IsPrefix(sub[t].got, SubSeq(L, a + 1, Len(L)))
    BY <2>1, SlicePrefix
  <2>. QED
    BY <2>1, <2>2 DEF After
<1>3. TailEndsComplete
  <2>. SUFFICES ASSUME NEW t \in Tasks, Heard(t), Drained(t), ~(Over(sub[t].run) /\ Last(log[sub[t].run]).by # sub[t].at)
                PROVE  sub[t].got = After(sub[t].run, sub[t].start)
    BY DEF TailEndsComplete
  <2>. PICK i, r, L : i = sub[t].at /\ r = sub[t].run /\ L = log[r]
    OBVIOUS
  <2>0. sub[t] # None /\ sub[t].state = "Active" /\ sub[t].buffer = <<>>
    BY DEF Drained
  <2>1. PICK a, c \in Nat :
               /\ a = Past(r, sub[t].start) /\ c = UpTo(L, sub[t].cursor)
               /\ r \in Runs /\ L \in Seq(Event) /\ a <= c /\ c <= Len(L) /\ Slice(sub[t].got, L, a, c)
    BY <1>1, <2>0
  <2>2. i \in Instances /\ Hears(t, i, r)
    BY <2>0, SubParts DEF Hears, Listens, TypeInv
  <2>3. ~Receives(t, i, r)
    BY DEF Drained, Attached, Receives
  <2>4. PICK b, m \in 0..Len(L) : Window(t, i, r, b, m)
    <3>1. Ours(i, r)
      BY <2>0 DEF Heard, Ours
    <3>. QED
      BY <2>1, <2>2, <3>1 DEF Follows, FollowsAt, HasWindow
  <2>5. m = Len(L)
    BY <2>3, <2>4 DEF Window
  <2>6. b = m /\ b <= c
    <3>1. Slice(<<>>, L, b, m) /\ b <= c
      BY <2>0, <2>1, <2>4 DEF Window
    <3>2. b \in Nat /\ m \in Nat
      BY <2>1
    <3>. QED
      BY <3>1, <3>2, SliceNone
  <2>7. c = Len(L)
    BY <2>1, <2>5, <2>6
  <2>8. sub[t].got = SubSeq(L, a + 1, c)
    BY <2>1, SliceIs
  <2>. QED
    BY <2>1, <2>7, <2>8 DEF After
<1>. QED
  BY <1>2, <1>3 DEF TailsFaithful

LEMMA FollowStart == Init => FollowInv
<1>. SUFFICES ASSUME Init PROVE FollowInv
  OBVIOUS
<1>1. /\ log = [r \in Runs |-> <<>>] /\ registry = [i \in Instances |-> [r \in Runs |-> None]]
      /\ pc = [t \in Tasks |-> "idle"] /\ sub = [t \in Tasks |-> None]
  BY DEF Init
<1>2. LogInv
  BY <1>1 DEF LogInv, LogOf, Ordered
<1>3. Detachers /\ Pending /\ Looking
  BY <1>1 DEF Detachers, Pending, PendingAt, Publishes, Looking, LooksAt
<1>4. Senders /\ Follows /\ Got
  BY <1>1 DEF Senders, Follows, FollowsAt, Hears, Listens, Got, GotAt
<1>. QED
  BY <1>2, <1>3, <1>4 DEF FollowInv

\* What a follower was given is the log from its cursor on, whatever was recorded or
\* published while it subscribed, and a tail that ends has given it to the end, unless
\* somebody else ended the run.  That is so with any number of instances, for whoever
\* reads pages and for whoever has the tail of the owner's entry of a run whose log its
\* owner wrote; a peer, or the reaper, may end it at any time.
THEOREM FollowersGetTheLog == Spec => []TailsFaithful
<1>2. Spec => [](SlotInv /\ SeqAhead)
  BY SlotInvariant
<1>3. Base /\ Base' /\ FollowInv /\ [Next]_vars => FollowInv'
  <2>. SUFFICES ASSUME Base, Base', FollowInv, [Next]_vars PROVE FollowInv'
    OBVIOUS
  <2>. USE DEF FollowInv
  <2>1. TypeInv /\ StoreInv
    BY DEF Base
  <2>2. CASE Next
    <3>1. LogInv'
      BY <2>1, <2>2, LogsStep
    <3>2. Detachers'
      BY <2>2, DetachingStep
    <3>3. Pending'
      BY <2>2, <3>1, PendingStep
    <3>4. Looking' /\ Senders'
      BY <2>1, <2>2, LookingStep, SendersStep
    <3>5. Follows'
      BY <2>2, <3>1, FollowsStep
    <3>6. Got'
      BY <2>2, <3>1, GotStep
    <3>. QED
      BY <3>1, <3>2, <3>3, <3>4, <3>5, <3>6
  <2>3. CASE UNCHANGED vars
    <3>1. UNCHANGED <<status, log, owner, registry, pc, call, answer, sub>>
      BY <2>3 DEF vars, storeVars, taskVars
    <3>2. LogInv'
      BY <3>1 DEF LogInv, LogOf, Ordered, Over
    <3>0. \A i \in Instances, r \in Runs : Ours(i, r)' => Ours(i, r)
      BY <3>1 DEF Ours, OwnLog
    <3>3. Detachers' /\ Looking' /\ Senders'
      BY <3>1 DEF Detachers, NewEvent, Looking, LooksAt, Senders, Hears, Listens
    <3>4. Pending'
      <4>1. ASSUME NEW t \in Tasks, NEW i \in Instances, NEW r \in Runs, Ours(i, r)' PROVE PendingAt(t, i, r)'
        <5>1. /\ Publishes(t, i, r)' => Publishes(t, i, r)
              /\ Same(r) /\ (Secure(i, r) => Secure(i, r)')
          BY <3>1 DEF Publishes, Same, Over, Secure, Creates
        <5>2. PendingAt(t, i, r) /\ answer'[t] = answer[t]
          BY <3>0, <3>1, <4>1 DEF Pending
        <5>. QED
          BY <5>1, <5>2, PendingSame
      <4>. QED
        BY <4>1 DEF Pending
    <3>5. Follows'
      <4>1. ASSUME NEW t \in Tasks, NEW i \in Instances, NEW r \in Runs, Ours(i, r)' PROVE FollowsAt(t, i, r)'
        <5>1. /\ Hears(t, i, r)' => Hears(t, i, r)
              /\ SameOffers(i, r) /\ \A v \in Tasks : Creates(v, i, r)' => Creates(v, i, r)
          BY <3>1 DEF Hears, Listens, SameOffers, Publishes, Creates
        <5>2. Same(r) /\ UNCHANGED <<registry, sub>> /\ FollowsAt(t, i, r)
          BY <3>0, <3>1, <4>1 DEF Same, Over, Follows
        <5>. QED
          BY <5>1, <5>2, FollowsStill
      <4>. QED
        BY <4>1 DEF Follows
    <3>6. Got'
      <4>1. ASSUME NEW t \in Tasks, NEW r \in Runs, Heard(t)' PROVE GotAt(t, r)'
        <5>1. GotSame(t) /\ Grows(r) /\ GotAt(t, r)
          <6>1. Heard(t)
            BY <3>1, <4>1 DEF Heard, OwnLog
          <6>. QED
            BY <3>1, <6>1 DEF GotSame, Grows, Same, Over, Got
        <5>. QED
          BY <2>1, <3>2, <5>1, GotKept
      <4>. QED
        BY <4>1 DEF Got
    <3>. QED
      BY <3>2, <3>3, <3>4, <3>5, <3>6
  <2>. QED
    BY <2>2, <2>3
<1>4. TypeInv /\ LockInv /\ StoreInv /\ SlotInv => Base
  BY DEF Base
<1>5. TypeInv /\ FollowInv => TailsFaithful
  BY FollowersServed
<1>. QED
  BY <1>2, <1>3, <1>4, <1>5, FollowStart, LockInvariant, TypeInvariant, StoreInvariant, PTL DEF Spec
=============================================================================
