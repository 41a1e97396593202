---------------------------- MODULE LeaseTables ----------------------------
(***************************************************************************)
(* What the two SQL stores have in common for a proof: the tables of runs,   *)
(* thread leases and checkpoints, and the six kinds of steps that may change *)
(* them.  Such steps keep the two copies of a lease the same, are steps of   *)
(* ThreadFence and keep what the fence is for.  SqliteStoreProofs and        *)
(* PgStoreProofs show that every step of their store is of one of these      *)
(* kinds.                                                                   *)
(***************************************************************************)
EXTENDS Integers, FiniteSets, FiniteSetTheorems, WellFoundedInduction, TLAPS

CONSTANTS
  Runs, Threads, None,
  InOrder  \* whether the event of a reaper always comes last

VARIABLES runs, threadLease, checkpoints

Running(r) == runs[r] # None /\ runs[r].status = "running"
RunningOthers(t, r) == {q \in Runs \ {r} : Running(q) /\ runs[q].thread = t}

FreedThreads(S) ==
  [t \in Threads |-> IF threadLease[t] # None /\ threadLease[t].run \in S
                     THEN None ELSE threadLease[t]]

Tenure == [thread : Threads, seq : Nat, open : BOOLEAN]

TenureOf(r) ==
  IF runs[r] = None THEN None
  ELSE [thread |-> runs[r].thread, seq |-> runs[r].seq, open |-> runs[r].status = "running"]

Fence == INSTANCE ThreadFence WITH
  tenure <- [r \in Runs |-> TenureOf(r)],
  note <- checkpoints

\* What the proofs need of the types of the tables.
Shaped ==
  /\ None \notin Tenure
  /\ \A r \in Runs : runs[r] # None => runs[r].thread \in Threads /\ runs[r].seq \in Nat
  /\ \A t \in Threads : threadLease[t] # None => threadLease[t].run \in Runs

-----------------------------------------------------------------------------
(* The kinds of steps.                                                      *)

\* A run whose status, thread and log stay as they are.
Same(r) ==
  /\ runs'[r] = None <=> runs[r] = None
  /\ runs[r] # None => /\ runs'[r].status = runs[r].status
                       /\ runs'[r].thread = runs[r].thread
                       /\ runs'[r].seq = runs[r].seq

SameLease(r) ==
  runs[r] # None => runs'[r].lease = runs[r].lease /\ runs'[r].until = runs[r].until

Quiet == checkpoints' = checkpoints /\ \A r \in Runs : Same(r)

\* No lease moves either.
Untouched == Quiet /\ threadLease' = threadLease /\ \A r \in Runs : SameLease(r)

\* A new run on a thread without a running one.
Begins(r, t) ==
  /\ runs[r] = None /\ RunningOthers(t, r) = {}
  /\ runs'[r] # None /\ runs'[r].status = "running" /\ runs'[r].thread = t /\ runs'[r].seq = 0
  /\ \A q \in Runs \ {r} : runs'[q] = runs[q]
  /\ \A x \in Threads \ {t} : threadLease'[x] = threadLease[x]
  /\ runs'[r].lease = None => threadLease'[t] = threadLease[t]
  /\ runs'[r].lease # None =>
       /\ threadLease'[t] # None /\ threadLease'[t].run = r
       /\ threadLease'[t].lease = runs'[r].lease /\ threadLease'[t].until = runs'[r].until
  /\ checkpoints' = checkpoints

\* A running run goes on from its last event and may end with a new one.
Writes(r) ==
  /\ Running(r) /\ runs'[r] # None /\ runs'[r].thread = runs[r].thread
  /\ runs[r].seq \in Nat /\ runs'[r].seq \in Nat /\ runs'[r].seq >= runs[r].seq
  /\ \/ /\ runs'[r].status = "running" /\ SameLease(r) /\ threadLease' = threadLease
     \/ /\ runs'[r].status # "running" /\ runs'[r].seq > runs[r].seq
        /\ threadLease' = FreedThreads({r})
  /\ \A q \in Runs \ {r} : runs'[q] = runs[q]
  /\ checkpoints' \in {checkpoints, [checkpoints EXCEPT ![runs[r].thread] =
                                       [run |-> r, seq |-> runs'[r].seq]]}

\* Each run of S ends with one more event: the next, or one below the last.
Reaps(S) ==
  /\ \A r \in S : /\ Running(r) /\ runs'[r] # None /\ runs'[r].status # "running"
                  /\ runs'[r].thread = runs[r].thread
                  /\ \/ runs'[r].seq = runs[r].seq + 1
                     \/ ~InOrder /\ runs'[r].seq = runs[r].seq
  /\ \A r \in Runs \ S : runs'[r] = runs[r]
  /\ threadLease' = FreedThreads(S)
  /\ checkpoints' = checkpoints

\* Both copies of a lease move on together.
Renews(r, t) ==
  /\ Quiet
  /\ runs[r] # None /\ threadLease[t] # None /\ threadLease'[t] # None
  /\ threadLease[t].run = r /\ threadLease'[t].run = r
  /\ threadLease'[t].lease = threadLease[t].lease /\ runs'[r].lease = runs[r].lease
  /\ runs'[r].until = threadLease'[t].until
  /\ \A q \in Runs \ {r} : runs'[q] = runs[q]
  /\ \A x \in Threads \ {t} : threadLease'[x] = threadLease[x]

\* Both copies of lease l of r are dropped, each where it is held.
HoldsRun(r, l) == Running(r) /\ runs[r].lease # None /\ runs[r].lease = l
HoldsThread(t, r, l) ==
  threadLease[t] # None /\ threadLease[t].run = r /\ threadLease[t].lease = l

Releases(r, l) ==
  /\ Quiet
  /\ HoldsRun(r, l) => runs'[r].lease = None
  /\ ~HoldsRun(r, l) => runs'[r] = runs[r]
  /\ \A q \in Runs \ {r} : runs'[q] = runs[q]
  /\ \A t \in Threads :
       threadLease'[t] = IF HoldsThread(t, r, l) THEN None ELSE threadLease[t]

Step(locks) ==
  \/ Untouched
  \/ \E r \in Runs, t \in Threads : Begins(r, t)
  \/ \E r \in Runs : Writes(r)
  \/ \E S \in SUBSET Runs : Reaps(S)
  \/ \E r \in Runs, t \in Threads : Renews(r, t)
  \/ \E r \in Runs, l \in locks : Releases(r, l)

-----------------------------------------------------------------------------
(* The two copies of a lease.                                               *)

\* r holds a lease as the running run of t.
OnThread(r, t) == Running(r) /\ runs[r].thread = t /\ runs[r].lease # None

Names(t, r) == threadLease[t] # None /\ threadLease[t].run = r

\* The thread and its running run have the same lease.
Agree(t) ==
  /\ \A r \in Runs : OnThread(r, t) <=> Names(t, r)
  /\ \A r \in Runs : Names(t, r) =>
       /\ runs[r] # None /\ runs[r].lease = threadLease[t].lease
       /\ runs[r].until = threadLease[t].until

\* What a step leaves alone agrees as before.
LEMMA SameAgree ==
  ASSUME NEW t \in Threads, Agree(t), threadLease'[t] = threadLease[t],
         \A r \in Runs : (Same(r) /\ SameLease(r)) \/ runs'[r] = runs[r]
  PROVE  Agree(t)'
<1>1. ASSUME NEW r \in Runs
      PROVE  /\ OnThread(r, t)' <=> OnThread(r, t)
             /\ runs[r] # None => /\ runs'[r] # None /\ runs'[r].lease = runs[r].lease
                                  /\ runs'[r].until = runs[r].until
  BY DEF OnThread, Running, Same, SameLease
<1>2. \A r \in Runs : Names(t, r)' <=> Names(t, r)
  BY DEF Names
<1>. QED
  BY <1>1, <1>2 DEF Agree

LEMMA BeginAgrees ==
  ASSUME Shaped, \A t \in Threads : Agree(t), NEW r \in Runs, NEW u \in Threads, Begins(r, u),
         NEW t \in Threads
  PROVE  Agree(t)'
<1>1. runs[r] = None /\ \A q \in Runs \ {r} : runs'[q] = runs[q]
  BY DEF Begins
<1>2. ~Names(t, r) /\ ~OnThread(r, t)
  BY <1>1 DEF Agree, OnThread, Running
<1>3. ASSUME NEW q \in Runs \ {r} PROVE OnThread(q, t)' <=> OnThread(q, t)
  BY <1>1 DEF OnThread, Running
<1>4. CASE threadLease'[t] = threadLease[t] /\ ~(t = u /\ runs'[r].lease # None)
  <2>1. ~OnThread(r, t)'
    BY <1>4 DEF Begins, OnThread
  <2>2. \A q \in Runs : Names(t, q)' <=> Names(t, q)
    BY <1>4 DEF Names
  <2>3. ASSUME NEW q \in Runs PROVE OnThread(q, t)' <=> Names(t, q)'
    BY <1>2, <1>3, <2>1, <2>2 DEF Agree
  <2>4. ASSUME NEW q \in Runs, Names(t, q)'
        PROVE  /\ runs'[q] # None /\ runs'[q].lease = threadLease'[t].lease
               /\ runs'[q].until = threadLease'[t].until
    <3>1. q # r /\ Names(t, q)
      BY <1>2, <2>2, <2>4
    <3>2. runs'[q] = runs[q]
      BY <1>1, <3>1
    <3>. QED
      BY <1>4, <3>1, <3>2 DEF Agree
  <2>. QED
    BY <2>3, <2>4 DEF Agree
<1>5. CASE t = u /\ runs'[r].lease # None
  <2>1. threadLease[t] = None
    <3>1. ASSUME threadLease[t] # None PROVE FALSE
      <4>1. PICK q \in Runs : Names(t, q)
        BY <3>1 DEF Names, Shaped
      <4>2. OnThread(q, t) /\ q # r
        BY <1>2, <4>1 DEF Agree
      <4>. QED
        BY <1>5, <4>2 DEF Begins, RunningOthers, OnThread
    <3>. QED
      BY <3>1
  <2>2. /\ threadLease'[t] # None /\ threadLease'[t].run = r
        /\ threadLease'[t].lease = runs'[r].lease /\ threadLease'[t].until = runs'[r].until
        /\ runs'[r] # None /\ runs'[r].status = "running" /\ runs'[r].thread = t
    BY <1>5 DEF Begins
  <2>3. OnThread(r, t)' /\ Names(t, r)'
    BY <1>5, <2>2 DEF OnThread, Names, Running
  <2>4. ASSUME NEW q \in Runs \ {r} PROVE ~OnThread(q, t)' /\ ~Names(t, q)'
    BY <1>3, <2>1, <2>2 DEF Agree, Names
  <2>. QED
    BY <2>2, <2>3, <2>4 DEF Agree
<1>6. CASE threadLease'[t] # threadLease[t] /\ ~(t = u /\ runs'[r].lease # None)
  BY <1>6 DEF Begins
<1>. QED
  BY <1>4, <1>5, <1>6

\* Ending the runs of S frees their threads.
LEMMA EndAgrees ==
  ASSUME Shaped, NEW t \in Threads, Agree(t), NEW S \in SUBSET Runs,
         \A r \in S : runs'[r].status # "running",
         \A r \in Runs \ S : runs'[r] = runs[r],
         threadLease' = FreedThreads(S)
  PROVE  Agree(t)'
<1>1. threadLease'[t] = IF threadLease[t] # None /\ threadLease[t].run \in S
                        THEN None ELSE threadLease[t]
  BY DEF FreedThreads
<1>2. ASSUME NEW r \in S PROVE ~OnThread(r, t)' /\ ~Names(t, r)'
  BY <1>1 DEF OnThread, Running, Names
<1>3. ASSUME NEW r \in Runs \ S
      PROVE  /\ OnThread(r, t)' <=> OnThread(r, t)
             /\ Names(t, r)' <=> Names(t, r)
             /\ Names(t, r)' => threadLease'[t] = threadLease[t]
  BY <1>1 DEF OnThread, Running, Names
<1>. QED
  BY <1>2, <1>3 DEF Agree

LEMMA WriteAgrees ==
  ASSUME Shaped, NEW t \in Threads, Agree(t), NEW r \in Runs, Writes(r)
  PROVE  Agree(t)'
<1>1. CASE runs'[r].status = "running"
  <2>1. Same(r) \/ runs[r].seq # runs'[r].seq
    BY <1>1 DEF Writes, Same, Running
  <2>2. SameLease(r) /\ threadLease' = threadLease
    BY <1>1 DEF Writes
  <2>3. ASSUME NEW q \in Runs
        PROVE  /\ OnThread(q, t)' <=> OnThread(q, t)
               /\ runs[q] # None => /\ runs'[q] # None /\ runs'[q].lease = runs[q].lease
                                    /\ runs'[q].until = runs[q].until
    <3>1. CASE q = r
      BY <1>1, <2>2, <3>1 DEF Writes, OnThread, Running, SameLease
    <3>2. CASE q # r
      BY <3>2 DEF Writes, OnThread, Running
    <3>. QED
      BY <3>1, <3>2
  <2>4. \A q \in Runs : Names(t, q)' <=> Names(t, q)
    BY <2>2 DEF Names
  <2>. QED
    BY <2>2, <2>3, <2>4 DEF Agree
<1>2. CASE runs'[r].status # "running"
  <2>1. threadLease' = FreedThreads({r}) /\ \A q \in Runs \ {r} : runs'[q] = runs[q]
    BY <1>2 DEF Writes
  <2>2. {r} \in SUBSET Runs /\ \A q \in {r} : runs'[q].status # "running"
    BY <1>2
  <2>. QED
    BY <2>1, <2>2, EndAgrees
<1>. QED
  BY <1>1, <1>2

LEMMA RenewAgrees ==
  ASSUME Shaped, \A t \in Threads : Agree(t), NEW r \in Runs, NEW u \in Threads, Renews(r, u),
         NEW t \in Threads
  PROVE  Agree(t)'
<1>1. \A q \in Runs : OnThread(q, t)' <=> OnThread(q, t)
  BY DEF Renews, Quiet, Same, OnThread, Running
<1>2. \A q \in Runs : Names(t, q)' <=> Names(t, q)
  BY DEF Renews, Names
<1>3. OnThread(r, u)
  BY DEF Renews, Agree, Names
<1>4. ASSUME NEW q \in Runs, Names(t, q)
      PROVE  /\ runs'[q] # None /\ runs'[q].lease = threadLease'[t].lease
             /\ runs'[q].until = threadLease'[t].until
  <2>1. OnThread(q, t) /\ runs[q] # None /\ runs[q].lease = threadLease[t].lease
        /\ runs[q].until = threadLease[t].until
    BY <1>4 DEF Agree
  <2>2. CASE q = r
    <3>1. t = u
      BY <1>3, <2>1, <2>2 DEF OnThread
    <3>. QED
      BY <2>1, <2>2, <3>1 DEF Renews, Quiet, Same
  <2>3. CASE q # r
    <3>1. t # u
      BY <1>4, <2>3 DEF Renews, Names
    <3>. QED
      BY <2>1, <2>3, <3>1 DEF Renews
  <2>. QED
    BY <2>2, <2>3
<1>. QED
  BY <1>1, <1>2, <1>4 DEF Agree

LEMMA ReleaseAgrees ==
  ASSUME Shaped, \A t \in Threads : Agree(t), NEW r \in Runs, NEW l, Releases(r, l),
         NEW t \in Threads
  PROVE  Agree(t)'
<1>1. HoldsThread(t, r, l) => Names(t, r) /\ OnThread(r, t) /\ HoldsRun(r, l)
  <2>. SUFFICES ASSUME HoldsThread(t, r, l) PROVE Names(t, r) /\ OnThread(r, t) /\ HoldsRun(r, l)
    OBVIOUS
  <2>1. Names(t, r) /\ threadLease[t].lease = l
    BY DEF HoldsThread, Names
  <2>2. OnThread(r, t) /\ runs[r].lease = l
    BY <2>1 DEF Agree
  <2>. QED
    BY <2>1, <2>2 DEF OnThread, HoldsRun
<1>2. Names(t, r) /\ HoldsRun(r, l) => HoldsThread(t, r, l)
  BY DEF Names, HoldsRun, HoldsThread, Agree
<1>3. threadLease'[t] = IF HoldsThread(t, r, l) THEN None ELSE threadLease[t]
  BY DEF Releases
<1>4. \A q \in Runs \ {r} : runs'[q] = runs[q]
  BY DEF Releases
<1>5. CASE ~HoldsRun(r, l)
  <2>1. threadLease'[t] = threadLease[t] /\ \A q \in Runs : runs'[q] = runs[q]
    BY <1>1, <1>3, <1>5 DEF Releases
  <2>. QED
    BY <2>1, SameAgree
<1>6. CASE HoldsRun(r, l)
  <2>1. ~OnThread(r, t)' /\ ~Names(t, r)'
    <3>1. runs'[r].lease = None
      BY <1>6 DEF Releases
    <3>. QED
      BY <1>2, <1>3, <1>6, <3>1 DEF OnThread, Names
  <2>2. ASSUME NEW q \in Runs \ {r}
        PROVE  /\ OnThread(q, t)' <=> OnThread(q, t)
               /\ Names(t, q)' <=> Names(t, q)
               /\ Names(t, q)' => threadLease'[t] = threadLease[t]
    <3>1. OnThread(q, t)' <=> OnThread(q, t)
      BY <1>4 DEF OnThread, Running
    <3>2. Names(t, q) => ~HoldsThread(t, r, l)
      BY DEF Names, HoldsThread
    <3>. QED
      BY <1>3, <3>1, <3>2 DEF Names
  <2>. QED
    BY <1>4, <2>1, <2>2 DEF Agree
<1>. QED
  BY <1>5, <1>6

\* Steps of the six kinds keep the copies of every lease the same.
LEMMA StepAgrees ==
  ASSUME Shaped, \A t \in Threads : Agree(t), NEW L, Step(L)
  PROVE  \A t \in Threads : Agree(t)'
<1>. SUFFICES ASSUME NEW t \in Threads PROVE Agree(t)'
  OBVIOUS
<1>1. CASE Untouched
  BY <1>1, SameAgree DEF Untouched, Quiet
<1>2. ASSUME NEW r \in Runs, NEW u \in Threads, Begins(r, u) PROVE Agree(t)'
  BY <1>2, BeginAgrees
<1>3. ASSUME NEW r \in Runs, Writes(r) PROVE Agree(t)'
  BY <1>3, WriteAgrees
<1>4. ASSUME NEW S \in SUBSET Runs, Reaps(S) PROVE Agree(t)'
  <2>1. /\ \A r \in S : runs'[r].status # "running"
        /\ \A r \in Runs \ S : runs'[r] = runs[r]
        /\ threadLease' = FreedThreads(S)
    BY <1>4 DEF Reaps
  <2>. QED
    BY <2>1, EndAgrees
<1>5. ASSUME NEW r \in Runs, NEW u \in Threads, Renews(r, u) PROVE Agree(t)'
  BY <1>5, RenewAgrees
<1>6. ASSUME NEW r \in Runs, NEW l \in L, Releases(r, l) PROVE Agree(t)'
  BY <1>6, ReleaseAgrees
<1>. QED
  BY <1>1, <1>2, <1>3, <1>4, <1>5, <1>6 DEF Step

-----------------------------------------------------------------------------
(* The fence.                                                               *)

LEMMA TenureType ==
  ASSUME Shaped, NEW r \in Runs
  PROVE  /\ runs[r] # None => /\ TenureOf(r) = [thread |-> runs[r].thread, seq |-> runs[r].seq,
                                                open |-> runs[r].status = "running"]
                              /\ TenureOf(r) # None
         /\ runs[r] = None => TenureOf(r) = None
         /\ TenureOf(r) # None /\ TenureOf(r).open <=> Running(r)
<1>1. CASE runs[r] # None
  <2>. DEFINE ten == [thread |-> runs[r].thread, seq |-> runs[r].seq,
                      open |-> runs[r].status = "running"]
  <2>1. TenureOf(r) = ten
    BY <1>1 DEF TenureOf
  <2>2. ten \in Tenure /\ None \notin Tenure
    BY <1>1 DEF Shaped, Tenure
  <2>3. ten.open <=> Running(r)
    BY <1>1 DEF Running
  <2>4. TenureOf(r) # None /\ (TenureOf(r).open <=> Running(r))
    <3>. HIDE DEF ten
    <3>. QED
      BY <2>1, <2>2, <2>3
  <2>. QED
    BY <1>1, <2>1, <2>4
<1>2. CASE runs[r] = None
  BY <1>2 DEF TenureOf, Running
<1>. QED
  BY <1>1, <1>2

LEMMA TenureSame ==
  ASSUME NEW r \in Runs, Same(r) \/ runs'[r] = runs[r]
  PROVE  TenureOf(r)' = TenureOf(r)
BY DEF Same, TenureOf

LEMMA BeginAdmits ==
  ASSUME Shaped, NEW r \in Runs, NEW t \in Threads, Begins(r, t)
  PROVE  Fence!Admit(r)
<1>1. TenureOf(r) = None
  BY TenureType DEF Begins
<1>2. TenureOf(r)' = [thread |-> t, seq |-> 0, open |-> TRUE]
  BY DEF Begins, TenureOf
<1>3. \A q \in Runs \ {r} : TenureOf(q)' = TenureOf(q)
  BY TenureSame DEF Begins
<1>4. ASSUME NEW q \in Runs, TenureOf(q) # None, TenureOf(q).open
      PROVE  TenureOf(q).thread # t
  <2>1. Running(q) /\ TenureOf(q).thread = runs[q].thread
    BY <1>4, TenureType DEF Running
  <2>2. q # r /\ RunningOthers(t, r) = {}
    BY <1>1, <1>4 DEF Begins
  <2>. QED
    BY <2>1, <2>2 DEF RunningOthers
<1>. QED
  BY <1>1, <1>2, <1>3, <1>4 DEF Begins, Fence!Admit, Fence!Open

LEMMA WriteExtends ==
  ASSUME Shaped, NEW r \in Runs, Writes(r)
  PROVE  Fence!Extend(r)
<1>1. /\ TenureOf(r) = [thread |-> runs[r].thread, seq |-> runs[r].seq, open |-> TRUE]
      /\ TenureOf(r) # None
  BY TenureType DEF Writes, Running
<1>2. TenureOf(r)' = [thread |-> runs[r].thread, seq |-> runs'[r].seq,
                      open |-> runs'[r].status = "running"]
  BY DEF Writes, TenureOf
<1>3. /\ runs'[r].seq >= runs[r].seq
      /\ runs'[r].status = "running" \/ runs'[r].seq > runs[r].seq
  BY DEF Writes
<1>4. \A q \in Runs \ {r} : TenureOf(q)' = TenureOf(q)
  BY TenureSame DEF Writes
<1>5. checkpoints' \in {checkpoints, [checkpoints EXCEPT ![runs[r].thread] =
                                        [run |-> r, seq |-> runs'[r].seq]]}
  BY DEF Writes
<1>. DEFINE ten == [q \in Runs |-> TenureOf(q)]
<1>6. /\ ten[r] = [thread |-> runs[r].thread, seq |-> runs[r].seq, open |-> TRUE]
      /\ ten[r] # None
  BY <1>1
<1>7. ten'[r] = [thread |-> runs[r].thread, seq |-> runs'[r].seq,
                 open |-> runs'[r].status = "running"]
  BY <1>2
<1>8. ten' = [ten EXCEPT ![r] = ten'[r]]
  BY <1>4
<1>. HIDE DEF ten
<1>9. /\ ten[r].open /\ ten[r].thread = runs[r].thread /\ ten[r].seq = runs[r].seq
      /\ ten'[r].thread = runs[r].thread /\ ten'[r].seq = runs'[r].seq
      /\ ten'[r].open <=> runs'[r].status = "running"
      /\ ten'[r] = [thread |-> ten[r].thread, seq |-> ten'[r].seq, open |-> ten'[r].open]
  <2>1. ten[r].open /\ ten[r].thread = runs[r].thread /\ ten[r].seq = runs[r].seq
    BY <1>6
  <2>2. /\ ten'[r].thread = runs[r].thread /\ ten'[r].seq = runs'[r].seq
        /\ ten'[r].open = (runs'[r].status = "running")
    BY <1>7
  <2>. QED
    BY <1>7, <2>1, <2>2
<1>10. ten' = [ten EXCEPT ![r] = [thread |-> ten[r].thread, seq |-> ten'[r].seq,
                                  open |-> ten'[r].open]]
  BY <1>8, <1>9
<1>11. checkpoints' \in {checkpoints, [checkpoints EXCEPT ![ten[r].thread] =
                                         [run |-> r, seq |-> ten'[r].seq]]}
  BY <1>5, <1>9
<1>12. /\ ten'[r].thread = ten[r].thread /\ ten'[r].seq >= ten[r].seq
       /\ ten'[r].open \/ ten'[r].seq > ten[r].seq
  BY <1>3, <1>9
<1>. QED
  BY <1>6, <1>9, <1>10, <1>11, <1>12 DEF ten, Fence!Extend, Fence!Open

LEMMA ReapExpires ==
  ASSUME Shaped, NEW S \in SUBSET Runs, Reaps(S)
  PROVE  Fence!Expire(S)
<1>1. ASSUME NEW r \in S
      PROVE  /\ TenureOf(r) # None /\ TenureOf(r).open
             /\ TenureOf(r)' = [thread |-> TenureOf(r).thread, seq |-> TenureOf(r)'.seq,
                                open |-> FALSE]
             /\ \/ TenureOf(r)'.seq = TenureOf(r).seq + 1
                \/ ~InOrder /\ TenureOf(r)'.seq = TenureOf(r).seq
  <2>1. /\ Running(r) /\ runs[r] # None /\ runs'[r] # None /\ runs'[r].status # "running"
        /\ runs'[r].thread = runs[r].thread
        /\ runs'[r].seq = runs[r].seq + 1 \/ (~InOrder /\ runs'[r].seq = runs[r].seq)
    BY DEF Reaps, Running
  <2>2. TenureOf(r)' = [thread |-> runs[r].thread, seq |-> runs'[r].seq, open |-> FALSE]
    BY <2>1 DEF TenureOf
  <2>3. /\ TenureOf(r) = [thread |-> runs[r].thread, seq |-> runs[r].seq, open |-> TRUE]
        /\ TenureOf(r) # None
    BY <2>1, TenureType DEF Running
  <2>. QED
    BY <2>1, <2>2, <2>3
<1>2. \A r \in Runs \ S : TenureOf(r)' = TenureOf(r)
  BY TenureSame DEF Reaps
<1>3. checkpoints' = checkpoints
  BY DEF Reaps
<1>. QED
  BY <1>1, <1>2, <1>3 DEF Fence!Expire, Fence!Open

\* Steps of the six kinds are steps of ThreadFence, or invisible to it.
LEMMA StepFence ==
  ASSUME Shaped, NEW L, Step(L)
  PROVE  [Fence!Next]_(Fence!vars)
<1>1. Quiet => [Fence!Next]_(Fence!vars)
  <2>1. Quiet => \A r \in Runs : TenureOf(r)' = TenureOf(r)
    BY TenureSame DEF Quiet
  <2>. QED
    BY <2>1 DEF Quiet, Fence!vars
<1>2. ASSUME NEW r \in Runs, NEW t \in Threads, Begins(r, t) PROVE Fence!Next
  BY <1>2, BeginAdmits DEF Fence!Next
<1>3. ASSUME NEW r \in Runs, Writes(r) PROVE Fence!Next
  BY <1>3, WriteExtends DEF Fence!Next
<1>4. ASSUME NEW S \in SUBSET Runs, Reaps(S) PROVE Fence!Next
  BY <1>4, ReapExpires DEF Fence!Next
<1>. QED
  BY <1>1, <1>2, <1>3, <1>4 DEF Step, Untouched, Renews, Releases

-----------------------------------------------------------------------------
(* What the fence comes to.                                                 *)

\* One run at most is running on a thread.
OneRunning ==
  \A q, r \in Runs : Running(q) /\ Running(r) /\ runs[q].thread = runs[r].thread => q = r

\* The checkpoint of a thread is a run's of that thread, and the run's log has the event it
\* was saved with.
CheckpointsFit ==
  \A t \in Threads : checkpoints[t] # None =>
    LET c == checkpoints[t] IN
      /\ c.run \in Runs /\ runs[c.run] # None /\ runs[c.run].thread = t
      /\ c.seq \in 0 .. runs[c.run].seq

\* A run that has ended keeps its end, its thread and its log.
EndedKept == \A r \in Runs : runs[r] # None /\ ~Running(r) => Same(r)

\* A checkpoint changes by the hand of the thread's running run, together with its log.
RunningSaves ==
  \A t \in Threads : checkpoints'[t] # checkpoints[t] =>
    \E r \in Runs : /\ Running(r) /\ runs[r].thread = t
                    /\ checkpoints'[t] = [run |-> r, seq |-> runs'[r].seq]

LEMMA StepOneRunning ==
  ASSUME OneRunning, NEW L, Step(L)
  PROVE  OneRunning'
<1>1. ASSUME \A r \in Runs : Running(r)' => Running(r) /\ runs'[r].thread = runs[r].thread
      PROVE  OneRunning'
  BY <1>1 DEF OneRunning
<1>2. CASE Quiet
  BY <1>1, <1>2 DEF Quiet, Same, Running
<1>3. ASSUME NEW r \in Runs, NEW t \in Threads, Begins(r, t) PROVE OneRunning'
  <2>1. \A q \in Runs \ {r} : /\ Running(q)' <=> Running(q)
                              /\ Running(q) => runs[q].thread # t /\ runs'[q].thread = runs[q].thread
    BY <1>3 DEF Begins, RunningOthers, Running
  <2>. QED
    BY <1>3, <2>1 DEF Begins, OneRunning
<1>4. ASSUME NEW r \in Runs, Writes(r) PROVE OneRunning'
  BY <1>1, <1>4 DEF Writes, Running
<1>5. ASSUME NEW S \in SUBSET Runs, Reaps(S) PROVE OneRunning'
  BY <1>1, <1>5 DEF Reaps, Running
<1>. QED
  BY <1>2, <1>3, <1>4, <1>5 DEF Step, Untouched, Renews, Releases

LEMMA StepEndedKept ==
  ASSUME NEW L, Step(L)
  PROVE  EndedKept
<1>1. ASSUME NEW r \in Runs, runs'[r] = runs[r] PROVE Same(r)
  BY <1>1 DEF Same
<1>2. ASSUME NEW r \in Runs, NEW t \in Threads, Begins(r, t) PROVE EndedKept
  BY <1>1, <1>2 DEF Begins, EndedKept
<1>3. ASSUME NEW r \in Runs, Writes(r) PROVE EndedKept
  BY <1>1, <1>3 DEF Writes, EndedKept
<1>4. ASSUME NEW S \in SUBSET Runs, Reaps(S) PROVE EndedKept
  BY <1>1, <1>4 DEF Reaps, EndedKept
<1>5. Quiet => EndedKept
  BY DEF Quiet, EndedKept
<1>. QED
  BY <1>2, <1>3, <1>4, <1>5 DEF Step, Untouched, Renews, Releases

LEMMA StepRunningSaves ==
  ASSUME Shaped, DOMAIN checkpoints = Threads, NEW L, Step(L)
  PROVE  RunningSaves
<1>1. checkpoints' = checkpoints => RunningSaves
  BY DEF RunningSaves
<1>2. ASSUME NEW r \in Runs, Writes(r) PROVE RunningSaves
  <2>1. runs[r].thread \in Threads
    BY <1>2 DEF Writes, Running, Shaped
  <2>2. CASE checkpoints' = [checkpoints EXCEPT ![runs[r].thread] = [run |-> r, seq |-> runs'[r].seq]]
    <3>1. \A t \in Threads \ {runs[r].thread} : checkpoints'[t] = checkpoints[t]
      BY <2>2
    <3>2. checkpoints'[runs[r].thread] = [run |-> r, seq |-> runs'[r].seq]
      BY <2>1, <2>2
    <3>. QED
      BY <1>2, <3>1, <3>2 DEF RunningSaves, Writes
  <2>. QED
    BY <1>1, <1>2, <2>2 DEF Writes
<1>. QED
  BY <1>1, <1>2 DEF Step, Untouched, Quiet, Begins, Reaps, Renews, Releases

\* A run's log only grows, and its thread stays.
LEMMA StepGrows ==
  ASSUME Shaped, NEW L, Step(L), NEW r \in Runs, runs[r] # None
  PROVE  /\ runs'[r] # None /\ runs'[r].thread = runs[r].thread
         /\ runs[r].seq \in Nat /\ runs'[r].seq \in Nat /\ runs'[r].seq >= runs[r].seq
<1>1. runs[r].seq \in Nat
  BY DEF Shaped
<1>2. runs'[r] = runs[r] \/ Same(r) =>
        /\ runs'[r] # None /\ runs'[r].thread = runs[r].thread /\ runs'[r].seq = runs[r].seq
  BY DEF Same
<1>3. ASSUME NEW q \in Runs, NEW t \in Threads, Begins(q, t) PROVE runs'[r] = runs[r]
  BY <1>3 DEF Begins
<1>4. ASSUME NEW q \in Runs, Writes(q), q = r
      PROVE  runs'[r] # None /\ runs'[r].thread = runs[r].thread
             /\ runs'[r].seq \in Nat /\ runs'[r].seq >= runs[r].seq
  BY <1>4 DEF Writes
<1>5. ASSUME NEW q \in Runs, Writes(q), q # r PROVE runs'[r] = runs[r]
  BY <1>5 DEF Writes
<1>6. ASSUME NEW S \in SUBSET Runs, Reaps(S), r \notin S PROVE runs'[r] = runs[r]
  BY <1>6 DEF Reaps
<1>7. ASSUME NEW S \in SUBSET Runs, Reaps(S), r \in S
      PROVE  /\ runs'[r] # None /\ runs'[r].thread = runs[r].thread
             /\ runs'[r].seq \in {runs[r].seq, runs[r].seq + 1}
  BY <1>7 DEF Reaps
<1>8. Quiet => Same(r)
  BY DEF Quiet
<1>. QED
  BY <1>1, <1>2, <1>3, <1>4, <1>5, <1>6, <1>7, <1>8 DEF Step, Untouched, Renews, Releases

LEMMA StepCheckpointsFit ==
  ASSUME Shaped, DOMAIN checkpoints = Threads, CheckpointsFit, NEW L, Step(L)
  PROVE  CheckpointsFit'
<1>. SUFFICES ASSUME NEW t \in Threads, checkpoints'[t] # None
              PROVE  LET c == checkpoints'[t] IN
                       /\ c.run \in Runs /\ runs'[c.run] # None /\ runs'[c.run].thread = t
                       /\ c.seq \in 0 .. runs'[c.run].seq
  BY DEF CheckpointsFit
<1>1. CASE checkpoints'[t] = checkpoints[t]
  <2>. DEFINE c == checkpoints[t]
  <2>1. /\ c.run \in Runs /\ runs[c.run] # None /\ runs[c.run].thread = t
        /\ c.seq \in 0 .. runs[c.run].seq
    BY <1>1 DEF CheckpointsFit
  <2>2. /\ runs'[c.run] # None /\ runs'[c.run].thread = runs[c.run].thread
        /\ runs[c.run].seq \in Nat /\ runs'[c.run].seq \in Nat
        /\ runs'[c.run].seq >= runs[c.run].seq
    BY <2>1, StepGrows
  <2>. QED
    BY <1>1, <2>1, <2>2
<1>2. CASE checkpoints'[t] # checkpoints[t]
  <2>1. PICK r \in Runs : /\ Running(r) /\ runs[r].thread = t
                          /\ checkpoints'[t] = [run |-> r, seq |-> runs'[r].seq]
    BY <1>2, StepRunningSaves DEF RunningSaves
  <2>2. /\ runs'[r] # None /\ runs'[r].thread = runs[r].thread /\ runs'[r].seq \in Nat
    BY <2>1, StepGrows DEF Running
  <2>. QED
    BY <2>1, <2>2
<1>. QED
  BY <1>1, <1>2

-----------------------------------------------------------------------------
(* The greatest of finitely many numbers: MAX(seq) of a table.             *)

\* A finite set of numbers has a greatest one: a least set without one, in the order of
\* inclusion, has one more element than a set with one.
LEMMA Greatest ==
  ASSUME NEW S \in SUBSET Nat, IsFiniteSet(S), S # {}
  PROVE  \E m \in S : \A k \in S : m >= k
<1>. DEFINE Headed(U) == \E m \in U : \A k \in U : m >= k
            Bad == {U \in SUBSET S : U # {} /\ ~Headed(U)}
<1>1. ASSUME Bad # {} PROVE FALSE
  <2>1. Bad \subseteq FiniteSubsetsOf(S)
    BY FS_Subset DEF FiniteSubsetsOf
  <2>2. IsWellFoundedOn(StrictSubsetOrdering(S), FiniteSubsetsOf(S))
    BY FS_StrictSubsetOrderingWellFounded
  <2>3. PICK U \in Bad : \A V \in Bad : ~(<<V, U>> \in StrictSubsetOrdering(S))
    <3>. HIDE DEF Bad
    <3>. QED
      BY <1>1, <2>1, <2>2, WFMin
  <2>4. PICK x \in U : TRUE
    OBVIOUS
  <2>5. U \ {x} \notin Bad
    <3>1. <<U \ {x}, U>> \in StrictSubsetOrdering(S)
      BY DEF StrictSubsetOrdering
    <3>. QED
      BY <2>3, <3>1
  <2>6. CASE U \ {x} = {}
    <3>1. \A k \in U : x >= k
      BY <2>6
    <3>. QED
      BY <2>3, <2>4, <3>1
  <2>7. CASE U \ {x} # {}
    <3>1. PICK m \in U \ {x} : \A k \in U \ {x} : m >= k
      BY <2>5, <2>7
    <3>2. x \in Nat /\ m \in Nat /\ m \in U
      OBVIOUS
    <3>3. CASE x >= m
      <4>1. \A k \in U : x >= k
        BY <3>1, <3>2, <3>3
      <4>. QED
        BY <2>3, <2>4, <4>1
    <3>4. CASE m >= x
      <4>1. \A k \in U : m >= k
        BY <3>1, <3>4
      <4>. QED
        BY <2>3, <3>2, <4>1
    <3>. QED
      BY <3>2, <3>3, <3>4
  <2>. QED
    BY <2>6, <2>7
<1>. QED
  BY <1>1

LEMMA FiniteOnto ==
  ASSUME NEW S, NEW T, IsFiniteSet(S), ExistsSurjection(S, T)
  PROVE  IsFiniteSet(T)
<1>1. PICK f \in Surjection(S, T) : TRUE
  BY DEF ExistsSurjection
<1>. QED
  BY <1>1, FS_Surjection

\* MAX(seq) of a table has a value: what follows is numbered after it, or after 0.
LEMMA GreatestNumber ==
  ASSUME NEW I, IsFiniteSet(I), NEW f \in [I -> Nat]
  PROVE  \E m \in {f[i] : i \in I} \cup {0} : \A k \in {f[i] : i \in I} \cup {0} : m >= k
<1>. DEFINE S == {f[i] : i \in I}
<1>1. f \in Surjection(I, S)
  BY DEF Surjection
<1>2. ExistsSurjection(I, S)
  BY <1>1 DEF ExistsSurjection
<1>3. S \cup {0} \in SUBSET Nat /\ S \cup {0} # {}
  OBVIOUS
<1>. HIDE DEF S
<1>4. IsFiniteSet(S)
  BY ONLY <1>2, IsFiniteSet(I), FiniteOnto
<1>5. IsFiniteSet(S \cup {0})
  BY <1>4, FS_AddElement
<1>6. \E m \in S \cup {0} : \A k \in S \cup {0} : m >= k
  BY <1>3, <1>5, Greatest
<1>. QED
  BY <1>6 DEF S

=============================================================================
