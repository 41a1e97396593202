--------------------------- MODULE RunStoreProofs ---------------------------
(***************************************************************************)
(* Machine-checked facts about RunStore, for any sets of runs, threads,    *)
(* keys and tokens and any values of the bounds.                           *)
(***************************************************************************)
EXTENDS RunStore, FunctionTheorems, FiniteSetTheorems, TLAPS

\* A batch offered to the store is a sequence of what the batch is made of.
LEMMA BatchIsSeq ==
  ASSUME NEW n \in Nat, NEW S, NEW b \in UpTo(n, S)
  PROVE  b \in Seq(S) /\ DOMAIN b = 1..Len(b) /\ Len(b) \in Nat
<1>1. PICK k \in 0..n : b \in [1..k -> S]
  BY DEF UpTo
<1>. QED
  BY <1>1

LEMMA LastOfSeq ==
  ASSUME NEW S, NEW q \in Seq(S), q # <<>>
  PROVE  Len(q) \in 1..Len(q) /\ Len(q) \in DOMAIN q /\ q[Len(q)] \in S
OBVIOUS

LEMMA AppendType ==
  ASSUME NEW S, NEW q \in Seq(S), NEW e \in S
  PROVE  /\ Append(q, e) \in Seq(S)
         /\ Len(Append(q, e)) = Len(q) + 1
         /\ \A i \in DOMAIN Append(q, e) :
              Append(q, e)[i] = IF i \in DOMAIN q THEN q[i] ELSE e
OBVIOUS

\* What a started, committed, renewed or reaped row is made of.
LEMMA RowType ==
  ASSUME NEW row \in Run
  PROVE  /\ row.status \in RunStatus /\ row.scope \in Scopes /\ row.thread \in Threads
         /\ row.key \in Keys \cup {None} /\ row.lease \in Lease \cup {None}
         /\ row.events \in Seq(Event) /\ Len(row.events) \in Nat
         /\ \A log \in Seq(Event) : [row EXCEPT !.events = log] \in Run
         /\ \A log \in Seq(Event), st \in RunStatus :
              [row EXCEPT !.events = log, !.status = st, !.lease = None] \in Run
         /\ [row EXCEPT !.cancel_requested = TRUE] \in Run
         /\ \A l \in Lease \cup {None} : [row EXCEPT !.lease = l] \in Run
<1>1. /\ row.status \in RunStatus /\ row.scope \in Scopes /\ row.thread \in Threads
      /\ row.key \in Keys \cup {None} /\ row.lease \in Lease \cup {None}
      /\ row.cancel_requested \in BOOLEAN /\ row.events \in Seq(Event)
  BY DEF Run
<1>2. Len(row.events) \in Nat
  BY <1>1
<1>3. ASSUME NEW log \in Seq(Event)
      PROVE  [row EXCEPT !.events = log] \in Run
  BY <1>1 DEF Run
<1>4. ASSUME NEW log \in Seq(Event), NEW st \in RunStatus
      PROVE  [row EXCEPT !.events = log, !.status = st, !.lease = None] \in Run
  BY <1>1 DEF Run
<1>5. [row EXCEPT !.cancel_requested = TRUE] \in Run
  BY <1>1 DEF Run
<1>6. ASSUME NEW l \in Lease \cup {None}
      PROVE  [row EXCEPT !.lease = l] \in Run
  BY <1>1 DEF Run
<1>. QED
  BY <1>1, <1>2, <1>3, <1>4, <1>5, <1>6

\* The writes of the entry table keep its type.
LEMMA EntriesType ==
  ASSUME TypeOK, NEW sc \in Scopes, NEW r \in Runs,
         NEW ws \in UpTo(MaxWrites, Write(EntryKeys)), ApplyEntries(sc, r, ws)
  PROVE  /\ entries' \in [Scopes -> [EntryKeys -> Entry \cup {None}]]
         /\ entrySeq' \in [Scopes -> Nat]
<1>1. ws \in Seq(Write(EntryKeys)) /\ DOMAIN ws = 1..Len(ws) /\ Len(ws) \in Nat
  BY BatchIsSeq, BoundAssumption
<1>2. \A F \in SUBSET DOMAIN ws : Cardinality(F) \in Nat
  <2>1. IsFiniteSet(1..Len(ws))
    BY <1>1, FS_Interval
  <2>. QED
    BY <1>1, <2>1, FS_Subset, FS_CardinalityType
<1>3. ASSUME NEW i \in DOMAIN ws
      PROVE  ws[i].body \in Payloads
  <2>1. ws[i] \in Write(EntryKeys)
    BY <1>1, <1>3
  <2>. QED
    BY <2>1 DEF Write
<1>4. Cardinality(FreshEntries(sc, ws)) \in Nat
  BY <1>2 DEF FreshEntries
<1>5. ASSUME NEW k \in EntryKeys, WritesOf(ws, k) \cap FreshEntries(sc, ws) # {}
      PROVE  LET i == CHOOSE i \in WritesOf(ws, k) : TRUE IN
               [run |-> r, body |-> ws[i].body,
                seq |-> entrySeq[sc] + Cardinality({j \in FreshEntries(sc, ws) : j <= i})]
                 \in Entry
  <2>. DEFINE i == CHOOSE i \in WritesOf(ws, k) : TRUE
  <2>1. i \in DOMAIN ws
    BY <1>5 DEF WritesOf
  <2>2. Cardinality({j \in FreshEntries(sc, ws) : j <= i}) \in Nat
    BY <1>2 DEF FreshEntries
  <2>3. entrySeq[sc] \in Nat
    BY DEF TypeOK
  <2>. QED
    BY <1>3, <2>1, <2>2, <2>3 DEF Entry
<1>6. entrySeq' \in [Scopes -> Nat]
  BY <1>4 DEF ApplyEntries, TypeOK
<1>. QED
  BY <1>5, <1>6 DEF ApplyEntries, TypeOK

-----------------------------------------------------------------------------
(* Type correctness.                                                       *)

LEMMA InitType == Init => TypeOK
BY DEF Init, TypeOK

LEMMA StartType ==
  ASSUME TypeOK, NEW s \in Starts, StartRun(s)
  PROVE  TypeOK'
<1>. USE DEF Starts
<1>1. /\ entries' \in [Scopes -> [EntryKeys -> Entry \cup {None}]]
      /\ entrySeq' \in [Scopes -> Nat]
  BY EntriesType DEF StartRun
<1>2. clock + Ttl \in Nat
  BY BoundAssumption DEF TypeOK
<1>3. s.lease # None =>
        /\ [owner |-> s.lease.owner, id |-> s.lease.id, until |-> clock + Ttl] \in Lease
        /\ [run |-> s.run, owner |-> s.lease.owner, id |-> s.lease.id,
            until |-> clock + Ttl] \in ThreadLease
  BY <1>2 DEF Claims, Lease, ThreadLease
<1>4. threadLease' \in [Threads -> ThreadLease \cup {None}]
  BY <1>3 DEF StartRun, TypeOK
<1>5. [status |-> "running", scope |-> s.scope, thread |-> s.thread, key |-> s.key,
       lease |-> IF s.lease = None THEN None
                 ELSE [owner |-> s.lease.owner, id |-> s.lease.id, until |-> clock + Ttl],
       cancel_requested |-> FALSE, events |-> <<>>] \in Run
  BY <1>3 DEF Run, RunStatus
<1>6. runs' \in [Runs -> Run \cup {None}]
  BY <1>5 DEF StartRun, TypeOK
<1>7. idempotency' \in [Scopes -> [Keys -> Runs \cup {None}]]
  BY DEF StartRun, TypeOK
<1>. QED
  BY <1>1, <1>4, <1>6, <1>7 DEF StartRun, TypeOK

\* Facts every commit action starts from: the row before it and the log after it.
LEMMA CommitRow ==
  ASSUME TypeOK, NEW c \in Commits, CommitRun(c)
  PROVE  /\ runs[c.run] \in Run
         /\ c.run \in Runs /\ c.scope \in Scopes
         /\ c.events \in Seq(Event)
         /\ runs[c.run].events \o c.events \in Seq(Event)
         /\ c.finish # None => c.finish \in RunStatus \ {"running"}
<1>1. runs[c.run] \in Run /\ c.run \in Runs /\ c.scope \in Scopes
  BY DEF Commits, CommitRequest, CommitRun, Running, Exists, TypeOK
<1>2. c.events \in Seq(OfferedEvents)
  <2>1. c.events \in UpTo(MaxBatch, OfferedEvents) /\ MaxBatch \in Nat
    BY BoundAssumption DEF Commits, CommitRequest
  <2>. QED
    BY <2>1, BatchIsSeq
<1>3. OfferedEvents \subseteq Event
  BY BoundAssumption DEF OfferedEvents, Event
<1>4. c.events \in Seq(Event)
  BY <1>2, <1>3
<1>5. runs[c.run].events \in Seq(Event)
  BY <1>1, RowType
<1>6. c.finish # None => c.finish \in RunStatus \ {"running"}
  BY BoundAssumption DEF Commits, CommitRequest
<1>. QED
  BY <1>1, <1>4, <1>5, <1>6

\* The effect and item tables keep their types.
LEMMA EffectsType ==
  ASSUME TypeOK, NEW r \in Runs, NEW us \in UpTo(MaxWrites, EffectUpdate),
         ValidEffects(r, us), ApplyEffects(r, us)
  PROVE  effects' \in [Runs -> [EffectKeys -> Effect \cup {None}]]
<1>1. us \in Seq(EffectUpdate) /\ DOMAIN us = 1..Len(us)
  BY BatchIsSeq, BoundAssumption
<1>2. ASSUME NEW k \in EffectKeys, WritesOf(us, k) # {}
      PROVE  LET u == us[CHOOSE i \in WritesOf(us, k) : TRUE]
             IN  [effects[r][k] EXCEPT !.status = u.status, !.result = u.result] \in Effect
  <2>. DEFINE i == CHOOSE i \in WritesOf(us, k) : TRUE
  <2>1. i \in DOMAIN us /\ us[i].key = k
    BY <1>2 DEF WritesOf
  <2>2. effects[r][k] # None
    BY <2>1 DEF ValidEffects
  <2>3. effects[r][k] \in Effect
    BY <2>2 DEF TypeOK
  <2>4. us[i] \in EffectUpdate
    BY <1>1, <2>1
  <2>5. us[i].status \in EffectStatus /\ us[i].result \in Payloads \cup {None}
    BY <2>4 DEF EffectUpdate, EffectStatus
  <2>. QED
    BY <2>3, <2>5 DEF Effect
<1>. QED
  BY <1>2 DEF ApplyEffects, TypeOK

LEMMA ItemsType ==
  ASSUME TypeOK, NEW r \in Runs, NEW ws \in UpTo(MaxWrites, Write(ItemKeys)),
         ApplyItems(r, ws)
  PROVE  items' \in [Runs -> [ItemKeys -> Payloads \cup {None}]]
<1>1. ws \in Seq(Write(ItemKeys)) /\ DOMAIN ws = 1..Len(ws)
  BY BatchIsSeq, BoundAssumption
<1>2. ASSUME NEW k \in ItemKeys, WritesOf(ws, k) # {}
      PROVE  ws[CHOOSE i \in WritesOf(ws, k) : TRUE].body \in Payloads
  <2>. DEFINE i == CHOOSE i \in WritesOf(ws, k) : TRUE
  <2>1. i \in DOMAIN ws
    BY <1>2 DEF WritesOf
  <2>2. ws[i] \in Write(ItemKeys)
    BY <1>1, <2>1
  <2>. QED
    BY <2>2 DEF Write
<1>. QED
  BY <1>2 DEF ApplyItems, TypeOK

LEMMA CommitType ==
  ASSUME TypeOK, NEW c \in Commits, CommitRun(c)
  PROVE  TypeOK'
<1>. DEFINE log == runs[c.run].events \o c.events
            last == IF log = <<>> THEN 0 ELSE log[Len(log)].seq
<1>1. runs[c.run] \in Run /\ c.run \in Runs /\ c.scope \in Scopes /\ log \in Seq(Event)
  BY CommitRow
<1>2. c.finish # None => c.finish \in RunStatus
  BY CommitRow
<1>3. last \in Nat
  <2>1. CASE log = <<>>
    BY <2>1
  <2>2. CASE log # <<>>
    <3>1. log[Len(log)] \in Event
      <4>. HIDE DEF log
      <4>. QED
        BY <1>1, <2>2, LastOfSeq
    <3>. QED
      BY <3>1, <2>2 DEF Event
  <2>. QED
    BY <2>1, <2>2
<1>4. runs' \in [Runs -> Run \cup {None}]
  <2>1. /\ [runs[c.run] EXCEPT !.events = log] \in Run
        /\ c.finish # None =>
             [runs[c.run] EXCEPT !.events = log, !.status = c.finish, !.lease = None] \in Run
    BY <1>1, <1>2, RowType
  <2>. QED
    BY <1>1, <2>1 DEF CommitRun, TypeOK
<1>5. checkpoints' \in [Threads -> Checkpoint \cup {None}]
  <2>1. CASE c.checkpoint = None
    BY <2>1 DEF CommitRun, TypeOK
  <2>2. CASE c.checkpoint # None
    <3>1. c.checkpoint \in CheckpointWrite
      BY <2>2 DEF Commits, CommitRequest
    <3>2. [run |-> c.checkpoint.run, seq |-> last] \in Checkpoint
      BY <1>3, <3>1 DEF CheckpointWrite, Checkpoint
    <3>3. checkpoints' = [checkpoints EXCEPT ![c.checkpoint.thread] =
                            [run |-> c.checkpoint.run, seq |-> last]]
      BY <2>2 DEF CommitRun
    <3>. QED
      BY <3>2, <3>3 DEF TypeOK
  <2>. QED
    BY <2>1, <2>2
<1>6. threadLease' \in [Threads -> ThreadLease \cup {None}]
  BY DEF CommitRun, TypeOK
<1>7. /\ entries' \in [Scopes -> [EntryKeys -> Entry \cup {None}]]
      /\ entrySeq' \in [Scopes -> Nat]
  BY EntriesType DEF CommitRun, Commits, CommitRequest
<1>8. effects' \in [Runs -> [EffectKeys -> Effect \cup {None}]]
  BY EffectsType DEF CommitRun, Commits, CommitRequest
<1>9. items' \in [Runs -> [ItemKeys -> Payloads \cup {None}]]
  BY ItemsType DEF CommitRun, Commits, CommitRequest
<1>. QED
  BY <1>4, <1>5, <1>6, <1>7, <1>8, <1>9 DEF CommitRun, TypeOK

\* last + 1 is a legal seq for the terminal event reap_stale appends.
LEMMA LastSeqType ==
  ASSUME TypeOK, NEW r \in Runs, Exists(r)
  PROVE  LastSeq(r) \in Nat
<1>1. runs[r].events \in Seq(Event)
  BY RowType DEF TypeOK, Exists
<1>2. CASE runs[r].events = <<>>
  BY <1>2 DEF LastSeq
<1>3. CASE runs[r].events # <<>>
  <2>1. runs[r].events[Len(runs[r].events)] \in Event
    BY <1>1, <1>3, LastOfSeq
  <2>. QED
    BY <1>3, <2>1 DEF LastSeq, Event
<1>. QED
  BY <1>2, <1>3

LEMMA ReapedType ==
  ASSUME TypeOK, NEW r \in Runs, Exists(r)
  PROVE  Reaped(r) \in Run
<1>1. runs[r] \in Run
  BY DEF TypeOK, Exists
<1>2. LastSeq(r) + 1 \in Nat
  BY LastSeqType
<1>3. Append(runs[r].events, [seq |-> LastSeq(r) + 1, terminal |-> TRUE]) \in Seq(Event)
  <2>1. [seq |-> LastSeq(r) + 1, terminal |-> TRUE] \in Event
    BY <1>2 DEF Event
  <2>2. runs[r].events \in Seq(Event)
    BY <1>1, RowType
  <2>. QED
    BY <2>1, <2>2, AppendType
<1>. QED
  BY <1>1, <1>3 DEF Reaped, Run, RunStatus

LEMMA FinishType ==
  ASSUME TypeOK, NEW r \in Runs, NEW sc \in Scopes, NEW e \in OfferedEvents,
         NEW o \in Outcomes, NEW ws \in UpTo(MaxWrites, Write(EntryKeys)),
         FinishRun(r, sc, e, o, ws)
  PROVE  TypeOK'
<1>1. runs[r] \in Run
  BY DEF TypeOK, FinishRun, Running, Exists
<1>2. e \in Event /\ o \in RunStatus
  BY BoundAssumption DEF OfferedEvents, Event
<1>3. Append(runs[r].events, e) \in Seq(Event)
  <2>1. runs[r].events \in Seq(Event)
    BY <1>1, RowType
  <2>. QED
    BY <1>2, <2>1, AppendType
<1>4. runs' \in [Runs -> Run \cup {None}]
  <2>1. [runs[r] EXCEPT !.status = o, !.events = Append(runs[r].events, e), !.lease = None]
          \in Run
    BY <1>1, <1>2, <1>3 DEF Run
  <2>. QED
    BY <2>1 DEF FinishRun, TypeOK
<1>5. /\ entries' \in [Scopes -> [EntryKeys -> Entry \cup {None}]]
      /\ entrySeq' \in [Scopes -> Nat]
  BY EntriesType DEF FinishRun
<1>. QED
  BY <1>4, <1>5 DEF FinishRun, TypeOK

LEMMA RecordType ==
  ASSUME TypeOK, NEW r \in Runs, NEW sc \in Scopes, NEW e \in OfferedEvents,
         RecordEvent(r, sc, e)
  PROVE  TypeOK'
<1>1. runs[r] \in Run
  BY DEF TypeOK, RecordEvent, Running, Exists
<1>2. e \in Event
  BY BoundAssumption DEF OfferedEvents, Event
<1>3. Append(runs[r].events, e) \in Seq(Event)
  <2>1. runs[r].events \in Seq(Event)
    BY <1>1, RowType
  <2>. QED
    BY <1>2, <2>1, AppendType
<1>4. runs' \in [Runs -> Run \cup {None}]
  <2>1. [runs[r] EXCEPT !.events = Append(runs[r].events, e)] \in Run
    BY <1>1, <1>3, RowType
  <2>. QED
    BY <2>1 DEF RecordEvent, TypeOK
<1>. QED
  BY <1>4 DEF RecordEvent, TypeOK, opVars

LEMMA LeaseOpType ==
  ASSUME TypeOK, NEW h \in Holds, Renew(h) \/ Release(h)
  PROVE  TypeOK'
<1>. USE DEF Holds
<1>1. runs[h.run] \in Run
  BY DEF TypeOK, Renew, Release, Running, Exists
<1>2. CASE Renew(h)
  <2>. DEFINE t == runs[h.run].thread
  <2>1. clock + Ttl \in Nat
    BY BoundAssumption DEF TypeOK
  <2>2. t \in Threads
    BY <1>1 DEF Run
  <2>3. threadLease[t] \in ThreadLease
    BY <1>2, <2>2 DEF Renew, TypeOK
  <2>4. threadLease' \in [Threads -> ThreadLease \cup {None}]
    <3>1. [threadLease[t] EXCEPT !.until = clock + Ttl] \in ThreadLease
      BY <2>1, <2>3 DEF ThreadLease
    <3>. QED
      BY <1>2, <3>1 DEF Renew, TypeOK
  <2>5. runs' \in [Runs -> Run \cup {None}]
    <3>1. runs[h.run].lease \in Lease
      BY <1>1, <1>2 DEF Renew, Leased, Run
    <3>2. [runs[h.run].lease EXCEPT !.until = clock + Ttl] \in Lease
      BY <2>1, <3>1 DEF Lease
    <3>3. [runs[h.run] EXCEPT !.lease.until = clock + Ttl] \in Run
      BY <1>1, <3>2 DEF Run
    <3>. QED
      BY <1>2, <3>3 DEF Renew, TypeOK
  <2>. QED
    BY <1>2, <2>4, <2>5 DEF Renew, TypeOK, opVars
<1>3. CASE Release(h)
  <2>1. runs' \in [Runs -> Run \cup {None}]
    BY <1>1, <1>3 DEF Release, TypeOK, Run
  <2>. QED
    BY <1>3, <2>1 DEF Release, TypeOK, opVars
<1>. QED
  BY <1>2, <1>3

LEMMA ReapType ==
  ASSUME TypeOK, NEW S \in SUBSET Runs, ReapStale(S)
  PROVE  TypeOK'
<1>1. \A r \in S : Reaped(r) \in Run
  BY ReapedType DEF ReapStale, Stale, Running
<1>2. runs' \in [Runs -> Run \cup {None}]
  BY <1>1 DEF ReapStale, TypeOK
<1>3. threadLease' \in [Threads -> ThreadLease \cup {None}]
  BY DEF ReapStale, TypeOK
<1>. QED
  BY <1>2, <1>3 DEF ReapStale, TypeOK, opVars

LEMMA EffectOpType ==
  ASSUME TypeOK, NEW r \in Runs, NEW sc \in Scopes, NEW id \in LeaseIds \cup {None},
         NEW k \in EffectKeys,
         \/ \E p \in Requests : ReserveEffect(r, sc, id, k, p)
         \/ StartEffect(r, sc, id, k)
  PROVE  TypeOK'
<1>1. CASE \E p \in Requests : ReserveEffect(r, sc, id, k, p)
  <2>1. PICK p \in Requests : ReserveEffect(r, sc, id, k, p)
    BY <1>1
  <2>2. [request |-> p, status |-> "reserved", result |-> None] \in Effect
    BY DEF Effect, EffectStatus
  <2>. QED
    BY <2>1, <2>2 DEF ReserveEffect, TypeOK, leaseVars
<1>2. CASE StartEffect(r, sc, id, k)
  <2>1. effects[r][k] \in Effect
    BY <1>2 DEF StartEffect, TypeOK
  <2>2. [effects[r][k] EXCEPT !.status = "started", !.result = None] \in Effect
    BY <2>1 DEF Effect, EffectStatus
  <2>3. effects' \in [Runs -> [EffectKeys -> Effect \cup {None}]]
    BY <1>2, <2>2 DEF StartEffect, TypeOK
  <2>. QED
    BY <1>2, <2>3 DEF StartEffect, TypeOK, leaseVars
<1>. QED
  BY <1>1, <1>2

LEMMA NextType == TypeOK /\ [Next]_vars => TypeOK'
<1>. SUFFICES ASSUME TypeOK, [Next]_vars PROVE TypeOK'
  OBVIOUS
<1>1. ASSUME NEW s \in Starts, StartRun(s) PROVE TypeOK'
  BY <1>1, StartType
<1>2. ASSUME NEW c \in Commits, CommitRun(c) PROVE TypeOK'
  BY <1>2, CommitType
<1>3. ASSUME NEW r \in Runs, NEW sc \in Scopes, NEW e \in OfferedEvents, NEW o \in Outcomes,
             NEW ws \in UpTo(MaxWrites, Write(EntryKeys)), FinishRun(r, sc, e, o, ws)
      PROVE TypeOK'
  BY <1>3, FinishType
<1>4. ASSUME NEW r \in Runs, NEW sc \in Scopes, NEW e \in OfferedEvents, RecordEvent(r, sc, e)
      PROVE TypeOK'
  BY <1>4, RecordType
<1>5. ASSUME NEW r \in Runs, NEW sc \in Scopes, MarkCancelled(r, sc) PROVE TypeOK'
  <2>1. [runs[r] EXCEPT !.cancel_requested = TRUE] \in Run
    BY <1>5, RowType DEF MarkCancelled, Exists, TypeOK
  <2>2. runs' \in [Runs -> Run \cup {None}]
    BY <1>5, <2>1 DEF MarkCancelled, TypeOK
  <2>. QED
    BY <1>5, <2>2 DEF MarkCancelled, TypeOK, opVars
<1>6. ASSUME NEW h \in Holds, Renew(h) \/ Release(h) PROVE TypeOK'
  BY <1>6, LeaseOpType
<1>7. ASSUME NEW S \in SUBSET Runs, ReapStale(S) PROVE TypeOK'
  BY <1>7, ReapType
<1>8. ASSUME NEW r \in Runs, NEW sc \in Scopes, NEW id \in LeaseIds \cup {None},
             NEW k \in EffectKeys,
             \/ \E p \in Requests : ReserveEffect(r, sc, id, k, p)
             \/ StartEffect(r, sc, id, k)
      PROVE TypeOK'
  BY <1>8, EffectOpType
<1>9. CASE Tick
  BY <1>9 DEF Tick, TypeOK, leaseVars, opVars
<1>10. CASE UNCHANGED vars
  BY <1>10 DEF TypeOK, vars, leaseVars, opVars
<1>. QED
  BY <1>1, <1>2, <1>3, <1>4, <1>5, <1>6, <1>7, <1>8, <1>9, <1>10 DEF Next

\* Every reachable state is well typed.
THEOREM TypeCorrect == Spec => []TypeOK
<1>. QED
  BY InitType, NextType, PTL DEF Spec

-----------------------------------------------------------------------------
(* One running run per thread, and the two copies of a lease agree.        *)
(* ThreadExclusive is not inductive alone: a finishing commit clears the   *)
(* lease of its thread, and only LeasesAgree tells that this lease is its  *)
(* own.                                                                    *)

\* A step that keeps every run's status, thread and lease and the thread
\* leases, and only adds to logs or other tables, keeps the invariant.
LEMMA LeaseFrame ==
  ASSUME LeaseInv, UNCHANGED threadLease,
         \A r \in Runs : Exists(r)' <=> Exists(r),
         \A r \in Runs : Exists(r) => /\ runs'[r].status = runs[r].status
                                      /\ runs'[r].thread = runs[r].thread
                                      /\ runs'[r].lease = runs[r].lease
  PROVE  ThreadExclusive' /\ LeasesAgree'
<1>1. \A r \in Runs : Running(r)' <=> Running(r)
  BY DEF Running
<1>2. ThreadExclusive'
  BY <1>1 DEF LeaseInv, ThreadExclusive, Running
<1>3. \A r \in Runs : Exists(r) => (Leased(r)' <=> Leased(r)) /\ ThreadCopy(r)' = ThreadCopy(r)
  BY DEF Leased, ThreadCopy
<1>4. LeasesAgree'
  BY <1>1, <1>3 DEF LeaseInv, LeasesAgree
<1>. QED
  BY <1>2, <1>4

LEMMA StartLease ==
  ASSUME LeaseInv, NEW s \in Starts, StartRun(s)
  PROVE  ThreadExclusive' /\ LeasesAgree'
<1>. USE DEF Starts
<1>. DEFINE lease == IF s.lease = None THEN None
                     ELSE [owner |-> s.lease.owner, id |-> s.lease.id, until |-> clock + Ttl]
            row == [status |-> "running", scope |-> s.scope, thread |-> s.thread,
                    key |-> s.key, lease |-> lease, cancel_requested |-> FALSE,
                    events |-> <<>>]
<1>1. clock + Ttl \in Nat
  BY BoundAssumption DEF LeaseInv, TypeOK
<1>2. s.lease # None => lease \in Lease
  BY <1>1 DEF Claims, Lease
<1>3. row \in Run
  BY <1>2 DEF Run, RunStatus
<1>4. ~Exists(s.run) /\ s.run \in Runs /\ s.thread \in Threads
  BY DEF StartRun
<1>5. runs'[s.run] = row /\ \A r \in Runs : r # s.run => runs'[r] = runs[r]
  BY DEF StartRun, LeaseInv, TypeOK
<1>6. Running(s.run)' /\ runs'[s.run].thread = s.thread /\ runs'[s.run].lease = lease
  <2>1. row.status = "running" /\ row.thread = s.thread /\ row.lease = lease
    OBVIOUS
  <2>2. row # None
    <3>. HIDE DEF row
    <3>. QED
      BY <1>3, NoneAssumption
  <2>. HIDE DEF row, lease
  <2>. QED
    BY <1>5, <2>1, <2>2 DEF Running, Exists
<1>7. \A r \in Runs : r # s.run =>
        /\ Exists(r)' = Exists(r) /\ Running(r)' = Running(r)
        /\ Leased(r)' = Leased(r) /\ ThreadCopy(r)' = ThreadCopy(r)
  BY <1>5 DEF Exists, Running, Leased, ThreadCopy
<1>8. \A q \in Runs : q # s.run /\ Running(q) => runs[q].thread # s.thread
  BY DEF StartRun, RunningOthers
<1>9. ThreadExclusive'
  BY <1>5, <1>6, <1>7, <1>8 DEF ThreadExclusive, LeaseInv
<1>10. threadLease[s.thread] = None
  BY <1>4, <1>8 DEF LeaseInv, LeasesAgree
<1>11. \A r \in Runs : r # s.run /\ Exists(r) /\ Leased(r) =>
         Running(r) /\ runs[r].thread \in Threads /\ runs[r].thread # s.thread
  BY <1>8, RowType DEF LeaseInv, LeasesAgree, TypeOK, Exists
<1>12. CASE s.lease = None
  <2>1. threadLease' = threadLease /\ ~Leased(s.run)'
    BY <1>6, <1>12 DEF StartRun, Leased
  <2>2. \A r \in Runs : Exists(r)' /\ Leased(r)' =>
          Running(r)' /\ threadLease'[runs'[r].thread] = ThreadCopy(r)'
    BY <1>5, <1>7, <2>1 DEF LeaseInv, LeasesAgree
  <2>3. \A t \in Threads : threadLease'[t] # None =>
          \E r \in Runs : Exists(r)' /\ Leased(r)' /\ runs'[r].thread = t
    BY <1>4, <1>5, <1>7, <2>1 DEF LeaseInv, LeasesAgree
  <2>. QED
    BY <1>9, <2>2, <2>3 DEF LeasesAgree
<1>13. CASE s.lease # None
  <2>1. /\ threadLease'[s.thread] = [run |-> s.run, owner |-> s.lease.owner,
                                     id |-> s.lease.id, until |-> clock + Ttl]
        /\ \A t \in Threads : t # s.thread => threadLease'[t] = threadLease[t]
    BY <1>4, <1>13 DEF StartRun, LeaseInv, TypeOK
  <2>2. Leased(s.run)' /\ Exists(s.run)'
    BY <1>2, <1>6, <1>13, NoneAssumption DEF Leased, Running
  <2>3. threadLease'[s.thread] = ThreadCopy(s.run)'
    BY <1>6, <1>13, <2>1 DEF ThreadCopy
  <2>4. \A r \in Runs : Exists(r)' /\ Leased(r)' =>
          Running(r)' /\ threadLease'[runs'[r].thread] = ThreadCopy(r)'
    BY <1>5, <1>6, <1>7, <1>11, <2>1, <2>3 DEF LeaseInv, LeasesAgree
  <2>5. \A t \in Threads : threadLease'[t] # None =>
          \E r \in Runs : Exists(r)' /\ Leased(r)' /\ runs'[r].thread = t
    BY <1>4, <1>5, <1>6, <1>7, <2>1, <2>2 DEF LeaseInv, LeasesAgree
  <2>. QED
    BY <1>9, <2>4, <2>5 DEF LeasesAgree
<1>. QED
  BY <1>12, <1>13

\* A step that stops the runs of S or takes their leases, and clears the thread
\* leases of exactly their threads, keeps the invariant: reap_stale, release
\* and a finishing commit or finish_run.
LEMMA StopLease ==
  ASSUME LeaseInv, NEW S \in SUBSET Runs,
         \A r \in Runs : Exists(r)' <=> Exists(r),
         \A r \in Runs \ S : Exists(r) => /\ runs'[r].status = runs[r].status
                                          /\ runs'[r].thread = runs[r].thread
                                          /\ runs'[r].lease = runs[r].lease,
         \A r \in S : /\ Running(r)
                      /\ runs'[r].thread = runs[r].thread
                      /\ runs'[r].lease = None,
         \A t \in Threads : threadLease'[t] =
           IF \E r \in S : runs[r].thread = t THEN None ELSE threadLease[t]
  PROVE  ThreadExclusive' /\ LeasesAgree'
<1>1. \A r \in Runs : Running(r)' => Running(r) /\ runs'[r].thread = runs[r].thread
  BY DEF Running
<1>2. ThreadExclusive'
  BY <1>1 DEF ThreadExclusive, LeaseInv
<1>3. \A r \in Runs : Exists(r)' /\ Leased(r)' => r \notin S /\ Exists(r) /\ Leased(r)
  BY DEF Leased
<1>4. \A r \in Runs \ S : Exists(r) =>
        /\ Leased(r)' = Leased(r) /\ Running(r)' = Running(r)
        /\ ThreadCopy(r)' = ThreadCopy(r) /\ runs'[r].thread = runs[r].thread
  BY DEF Leased, Running, ThreadCopy
<1>5. ASSUME NEW r \in Runs \ S, Exists(r), Leased(r)
      PROVE  /\ Running(r) /\ runs[r].thread \in Threads
             /\ \A q \in S : runs[q].thread # runs[r].thread
  <2>1. Running(r)
    BY <1>5 DEF LeaseInv, LeasesAgree
  <2>2. runs[r] \in Run
    BY <1>5 DEF LeaseInv, TypeOK, Exists
  <2>3. \A q \in S : Running(q) /\ q # r
    BY <1>5
  <2>. QED
    BY <2>1, <2>2, <2>3, RowType DEF LeaseInv, ThreadExclusive
<1>6. ASSUME NEW r \in Runs, Exists(r)', Leased(r)'
      PROVE  Running(r)' /\ threadLease'[runs'[r].thread] = ThreadCopy(r)'
  <2>1. r \in Runs \ S /\ Exists(r) /\ Leased(r)
    BY <1>3, <1>6
  <2>2. threadLease'[runs[r].thread] = threadLease[runs[r].thread]
    BY <1>5, <2>1
  <2>. QED
    BY <1>4, <2>1, <2>2 DEF LeaseInv, LeasesAgree
<1>7. ASSUME NEW t \in Threads, threadLease'[t] # None
      PROVE  \E r \in Runs : Exists(r)' /\ Leased(r)' /\ runs'[r].thread = t
  <2>1. threadLease[t] # None /\ \A q \in S : runs[q].thread # t
    BY <1>7
  <2>2. PICK r \in Runs : Exists(r) /\ Leased(r) /\ runs[r].thread = t
    BY <2>1 DEF LeaseInv, LeasesAgree
  <2>3. r \in Runs \ S
    BY <2>1, <2>2
  <2>. QED
    BY <1>4, <2>2, <2>3
<1>. QED
  BY <1>2, <1>6, <1>7 DEF LeasesAgree

LEMMA CommitLease ==
  ASSUME LeaseInv, NEW c \in Commits, CommitRun(c)
  PROVE  ThreadExclusive' /\ LeasesAgree'
<1>. DEFINE log == runs[c.run].events \o c.events
            row == runs[c.run]
            open == [row EXCEPT !.events = log]
            closed == [row EXCEPT !.events = log, !.status = c.finish, !.lease = None]
<1>1. /\ row \in Run /\ c.run \in Runs /\ log \in Seq(Event)
      /\ c.finish # None => c.finish \in RunStatus
  BY CommitRow DEF LeaseInv
<1>2. Running(c.run) /\ Exists(c.run)
  BY DEF CommitRun, Running
<1>3. \A r \in Runs : r # c.run => runs'[r] = runs[r]
  BY DEF CommitRun, LeaseInv, TypeOK
<1>4. CASE c.finish = None
  <2>1. runs'[c.run] = open
    BY <1>1, <1>4 DEF CommitRun, LeaseInv, TypeOK
  <2>2. open \in Run
    BY <1>1, RowType
  <2>3. open.status = row.status /\ open.thread = row.thread /\ open.lease = row.lease
    BY <1>1 DEF Run
  <2>4. open # None
    <3>. HIDE DEF open
    <3>. QED
      BY <2>2, NoneAssumption
  <2>. HIDE DEF open
  <2>5. \A r \in Runs : Exists(r)' <=> Exists(r)
    BY <1>2, <1>3, <2>1, <2>4 DEF Exists
  <2>6. UNCHANGED threadLease
    BY <1>4 DEF CommitRun
  <2>7. \A r \in Runs : Exists(r) => /\ runs'[r].status = runs[r].status
                                     /\ runs'[r].thread = runs[r].thread
                                     /\ runs'[r].lease = runs[r].lease
    BY <1>3, <2>1, <2>3
  <2>. QED
    BY <2>5, <2>6, <2>7, LeaseFrame
<1>5. CASE c.finish # None
  <2>1. runs'[c.run] = closed
    BY <1>1, <1>5 DEF CommitRun, LeaseInv, TypeOK
  <2>2. closed \in Run
    BY <1>1, <1>5, RowType
  <2>3. closed.thread = row.thread /\ closed.lease = None
    BY <1>1 DEF Run
  <2>4. closed # None
    <3>. HIDE DEF closed
    <3>. QED
      BY <2>2, NoneAssumption
  <2>. HIDE DEF closed
  <2>5. \A r \in Runs : Exists(r)' <=> Exists(r)
    BY <1>2, <1>3, <2>1, <2>4 DEF Exists
  <2>6. \A t \in Threads : threadLease'[t] =
          IF \E r \in {c.run} : runs[r].thread = t THEN None ELSE threadLease[t]
    BY <1>5 DEF CommitRun, LeaseInv, TypeOK
  <2>7. \A r \in Runs \ {c.run} : Exists(r) => /\ runs'[r].status = runs[r].status
                                               /\ runs'[r].thread = runs[r].thread
                                               /\ runs'[r].lease = runs[r].lease
    BY <1>3
  <2>8. \A r \in {c.run} : Running(r) /\ runs'[r].thread = runs[r].thread /\ runs'[r].lease = None
    BY <1>2, <2>1, <2>3
  <2>. QED
    BY <1>1, <2>5, <2>6, <2>7, <2>8, StopLease
<1>. QED
  BY <1>4, <1>5

LEMMA FinishLease ==
  ASSUME LeaseInv, NEW r \in Runs, NEW sc \in Scopes, NEW e \in OfferedEvents,
         NEW o \in Outcomes, NEW ws \in UpTo(MaxWrites, Write(EntryKeys)),
         FinishRun(r, sc, e, o, ws)
  PROVE  ThreadExclusive' /\ LeasesAgree'
<1>. DEFINE row == [runs[r] EXCEPT !.status = o, !.events = Append(runs[r].events, e),
                                   !.lease = None]
<1>1. Running(r) /\ Exists(r) /\ ~Leased(r) /\ runs[r] \in Run
  BY DEF FinishRun, Running, LeaseInv, TypeOK, Exists
<1>2. runs'[r] = row /\ \A q \in Runs : q # r => runs'[q] = runs[q]
  BY DEF FinishRun, LeaseInv, TypeOK
<1>3. row.thread = runs[r].thread /\ row.lease = None
  BY <1>1 DEF Run
<1>4. runs'[r] # None
  <2>1. o \in RunStatus
    BY BoundAssumption
  <2>2. Append(runs[r].events, e) \in Seq(Event)
    <3>1. e \in Event
      BY BoundAssumption DEF OfferedEvents, Event
    <3>2. runs[r].events \in Seq(Event)
      BY <1>1, RowType
    <3>. QED
      BY <3>1, <3>2, AppendType
  <2>3. row \in Run
    BY <1>1, <2>1, <2>2 DEF Run
  <2>. HIDE DEF row
  <2>. QED
    BY <1>2, <2>3, NoneAssumption
<1>. HIDE DEF row
<1>5. \A q \in Runs : Exists(q)' <=> Exists(q)
  BY <1>1, <1>2, <1>4 DEF Exists
<1>6. runs[r].thread \in Threads /\ threadLease[runs[r].thread] = None
  <2>1. runs[r].thread \in Threads
    BY <1>1, RowType
  <2>2. ASSUME threadLease[runs[r].thread] # None PROVE FALSE
    <3>1. PICK q \in Runs : Exists(q) /\ Leased(q) /\ runs[q].thread = runs[r].thread
      BY <2>1, <2>2 DEF LeaseInv, LeasesAgree
    <3>2. Running(q)
      BY <3>1 DEF LeaseInv, LeasesAgree
    <3>3. q = r
      BY <1>1, <3>1, <3>2 DEF LeaseInv, ThreadExclusive
    <3>. QED
      BY <1>1, <3>1, <3>3
  <2>. QED
    BY <2>1, <2>2
<1>7. \A t \in Threads : threadLease'[t] =
        IF \E q \in {r} : runs[q].thread = t THEN None ELSE threadLease[t]
  BY <1>6 DEF FinishRun
<1>8. \A q \in Runs \ {r} : Exists(q) => /\ runs'[q].status = runs[q].status
                                         /\ runs'[q].thread = runs[q].thread
                                         /\ runs'[q].lease = runs[q].lease
  BY <1>2
<1>9. \A q \in {r} : Running(q) /\ runs'[q].thread = runs[q].thread /\ runs'[q].lease = None
  BY <1>1, <1>2, <1>3
<1>. QED
  BY <1>5, <1>7, <1>8, <1>9, StopLease

LEMMA ReapLease ==
  ASSUME LeaseInv, NEW S \in SUBSET Runs, ReapStale(S)
  PROVE  ThreadExclusive' /\ LeasesAgree'
<1>1. \A r \in S : Running(r) /\ Exists(r) /\ runs[r] \in Run
  BY DEF ReapStale, Stale, Running, LeaseInv, TypeOK, Exists
<1>2. \A r \in S : runs'[r] = Reaped(r) /\ Reaped(r) # None
  BY <1>1, ReapedType, NoneAssumption DEF ReapStale, LeaseInv
<1>3. ASSUME NEW r \in S
      PROVE  Reaped(r).thread = runs[r].thread /\ Reaped(r).lease = None
  <2>. DEFINE log == Append(runs[r].events, [seq |-> LastSeq(r) + 1, terminal |-> TRUE])
  <2>1. Reaped(r) = [runs[r] EXCEPT !.status = "error", !.lease = None, !.events = log]
    BY DEF Reaped
  <2>. HIDE DEF log
  <2>. QED
    BY <1>1, <2>1 DEF Run
<1>4. \A r \in Runs \ S : runs'[r] = runs[r]
  BY DEF ReapStale
<1>5. \A r \in Runs : Exists(r)' <=> Exists(r)
  BY <1>1, <1>2, <1>4 DEF Exists
<1>6. \A t \in Threads : threadLease'[t] =
        IF \E r \in S : runs[r].thread = t THEN None ELSE threadLease[t]
  BY DEF ReapStale
<1>. QED
  BY <1>1, <1>2, <1>3, <1>4, <1>5, <1>6, StopLease

LEMMA ReleaseLease ==
  ASSUME LeaseInv, NEW h \in Holds, Release(h)
  PROVE  ThreadExclusive' /\ LeasesAgree'
<1>. DEFINE row == [runs[h.run] EXCEPT !.lease = None]
<1>1. /\ h.run \in Runs /\ Exists(h.run) /\ Leased(h.run)
      /\ runs[h.run] \in Run
  BY DEF Release, Holds, LeaseInv, TypeOK, Exists
<1>2. Running(h.run)
  BY <1>1 DEF LeaseInv, LeasesAgree
<1>3. runs'[h.run] = row /\ \A r \in Runs : r # h.run => runs'[r] = runs[r]
  BY <1>1 DEF Release, LeaseInv, TypeOK
<1>4. row \in Run /\ row.thread = runs[h.run].thread /\ row.lease = None
  BY <1>1 DEF Run
<1>. HIDE DEF row
<1>5. \A r \in Runs : Exists(r)' <=> Exists(r)
  BY <1>1, <1>3, <1>4, NoneAssumption DEF Exists
<1>6. \A t \in Threads : threadLease'[t] =
        IF \E r \in {h.run} : runs[r].thread = t THEN None ELSE threadLease[t]
  BY DEF Release, LeaseInv, TypeOK
<1>7. \A r \in Runs \ {h.run} : Exists(r) => /\ runs'[r].status = runs[r].status
                                             /\ runs'[r].thread = runs[r].thread
                                             /\ runs'[r].lease = runs[r].lease
  BY <1>3
<1>8. \A r \in {h.run} : Running(r) /\ runs'[r].thread = runs[r].thread /\ runs'[r].lease = None
  BY <1>2, <1>3, <1>4
<1>. QED
  BY <1>1, <1>5, <1>6, <1>7, <1>8, StopLease

\* Renewal moves both copies to the same instant.
LEMMA RenewLease ==
  ASSUME LeaseInv, NEW h \in Holds, Renew(h)
  PROVE  ThreadExclusive' /\ LeasesAgree'
<1>. DEFINE r0 == h.run
            t0 == runs[h.run].thread
            l0 == runs[h.run].lease
            l1 == [l0 EXCEPT !.until = clock + Ttl]
            row == [runs[r0] EXCEPT !.lease = l1]
<1>1. /\ r0 \in Runs /\ Running(r0) /\ Exists(r0) /\ Leased(r0)
      /\ runs[r0] \in Run /\ t0 \in Threads
  <2>1. r0 \in Runs /\ Running(r0) /\ Exists(r0) /\ Leased(r0)
    BY DEF Renew, Holds, Running
  <2>2. runs[r0] \in Run
    BY <2>1 DEF LeaseInv, TypeOK, Exists
  <2>. QED
    BY <2>1, <2>2, RowType
<1>2. l0 \in Lease
  BY <1>1, RowType DEF Leased
<1>3. clock + Ttl \in Nat
  BY BoundAssumption DEF LeaseInv, TypeOK
<1>4. l1 \in Lease /\ l1.owner = l0.owner /\ l1.id = l0.id /\ l1.until = clock + Ttl
  BY <1>2, <1>3 DEF Lease
<1>5. runs'[r0] = row /\ \A r \in Runs : r # r0 => runs'[r] = runs[r]
  BY <1>1 DEF Renew, LeaseInv, TypeOK
<1>6. /\ row \in Run /\ row.status = runs[r0].status /\ row.thread = t0
      /\ row.lease = l1
  <2>. HIDE DEF l1
  <2>. QED
    BY <1>1, <1>4 DEF Run
<1>. HIDE DEF row
<1>7. row # None /\ l1 # None
  BY <1>4, <1>6, NoneAssumption
<1>8. \A r \in Runs : /\ Exists(r)' <=> Exists(r)
                      /\ Running(r)' <=> Running(r)
                      /\ Exists(r) => /\ runs'[r].thread = runs[r].thread
                                      /\ Leased(r)' <=> Leased(r)
  <2>. HIDE DEF l1
  <2>. QED
    BY <1>1, <1>5, <1>6, <1>7 DEF Exists, Running, Leased
<1>9. ThreadExclusive'
  BY <1>8 DEF ThreadExclusive, LeaseInv, Running
<1>10. threadLease[t0] = ThreadCopy(r0)
  BY <1>1 DEF LeaseInv, LeasesAgree
<1>11. threadLease'[t0] = ThreadCopy(r0)'
  <2>1. threadLease'[t0] = [threadLease[t0] EXCEPT !.until = clock + Ttl]
    BY <1>1 DEF Renew, LeaseInv, TypeOK
  <2>2. threadLease'[t0] = [run |-> r0, owner |-> l0.owner, id |-> l0.id,
                            until |-> clock + Ttl]
    BY <1>10, <2>1 DEF ThreadCopy
  <2>3. runs'[r0].lease = l1
    BY <1>5, <1>6
  <2>. HIDE DEF l1
  <2>. QED
    BY <1>4, <2>2, <2>3 DEF ThreadCopy
<1>12. \A t \in Threads : t # t0 => threadLease'[t] = threadLease[t]
  BY DEF Renew, LeaseInv, TypeOK
<1>13. threadLease'[t0] # None /\ threadLease[t0] # None
  <2>1. threadLease[t0] # None
    BY DEF Renew
  <2>2. threadLease[t0] \in ThreadLease
    BY <1>1, <2>1 DEF LeaseInv, TypeOK
  <2>3. [threadLease[t0] EXCEPT !.until = clock + Ttl] \in ThreadLease
    BY <1>3, <2>2 DEF ThreadLease
  <2>4. threadLease'[t0] \in ThreadLease
    BY <1>1, <2>3 DEF Renew, LeaseInv, TypeOK
  <2>. QED
    BY <2>1, <2>4, NoneAssumption
<1>14. ASSUME NEW r \in Runs, Exists(r)', Leased(r)'
       PROVE  Running(r)' /\ threadLease'[runs'[r].thread] = ThreadCopy(r)'
  <2>1. CASE r = r0
    BY <1>1, <1>5, <1>6, <1>8, <1>11, <2>1
  <2>2. CASE r # r0
    <3>1. Exists(r) /\ Leased(r)
      BY <1>8, <1>14
    <3>2. Running(r) /\ threadLease[runs[r].thread] = ThreadCopy(r)
      BY <3>1 DEF LeaseInv, LeasesAgree
    <3>3. runs[r].thread \in Threads
      BY <3>1, RowType DEF LeaseInv, TypeOK, Exists
    <3>4. runs[r].thread # t0
      BY <1>1, <2>2, <3>2 DEF LeaseInv, ThreadExclusive
    <3>5. runs'[r] = runs[r] /\ ThreadCopy(r)' = ThreadCopy(r)
      BY <1>5, <2>2 DEF ThreadCopy
    <3>. QED
      BY <1>8, <1>12, <3>2, <3>3, <3>4, <3>5
  <2>. QED
    BY <2>1, <2>2
<1>15. ASSUME NEW t \in Threads, threadLease'[t] # None
       PROVE  \E r \in Runs : Exists(r)' /\ Leased(r)' /\ runs'[r].thread = t
  <2>1. threadLease[t] # None
    BY <1>12, <1>13, <1>15
  <2>2. PICK r \in Runs : Exists(r) /\ Leased(r) /\ runs[r].thread = t
    BY <2>1 DEF LeaseInv, LeasesAgree
  <2>. QED
    BY <1>8, <2>2
<1>. QED
  BY <1>9, <1>14, <1>15 DEF LeasesAgree

LEMMA NextLease == LeaseInv /\ [Next]_vars => LeaseInv'
<1>. SUFFICES ASSUME LeaseInv, [Next]_vars PROVE ThreadExclusive' /\ LeasesAgree'
  BY NextType DEF LeaseInv
<1>1. ASSUME NEW s \in Starts, StartRun(s) PROVE ThreadExclusive' /\ LeasesAgree'
  BY <1>1, StartLease
<1>2. ASSUME NEW c \in Commits, CommitRun(c) PROVE ThreadExclusive' /\ LeasesAgree'
  BY <1>2, CommitLease
<1>3. ASSUME NEW r \in Runs, NEW sc \in Scopes, NEW e \in OfferedEvents, NEW o \in Outcomes,
             NEW ws \in UpTo(MaxWrites, Write(EntryKeys)), FinishRun(r, sc, e, o, ws)
      PROVE  ThreadExclusive' /\ LeasesAgree'
  BY <1>3, FinishLease
<1>4. ASSUME NEW r \in Runs, NEW sc \in Scopes, NEW e \in OfferedEvents, RecordEvent(r, sc, e)
      PROVE  ThreadExclusive' /\ LeasesAgree'
  <2>. DEFINE row == [runs[r] EXCEPT !.events = Append(runs[r].events, e)]
  <2>1. Exists(r) /\ runs[r] \in Run
    BY <1>4 DEF RecordEvent, Running, LeaseInv, TypeOK, Exists
  <2>2. runs'[r] = row /\ \A q \in Runs : q # r => runs'[q] = runs[q]
    BY <1>4 DEF RecordEvent, LeaseInv, TypeOK
  <2>3. /\ row.status = runs[r].status /\ row.thread = runs[r].thread
        /\ row.lease = runs[r].lease
    BY <2>1 DEF Run
  <2>4. Exists(r)'
    <3>1. e \in Event
      BY BoundAssumption DEF OfferedEvents, Event
    <3>2. runs[r].events \in Seq(Event)
      BY <2>1, RowType
    <3>3. row \in Run
      BY <2>1, <3>1, <3>2, AppendType, RowType
    <3>. HIDE DEF row
    <3>. QED
      BY <2>2, <3>3, NoneAssumption DEF Exists
  <2>. HIDE DEF row
  <2>5. \A q \in Runs : Exists(q)' <=> Exists(q)
    BY <2>1, <2>2, <2>4 DEF Exists
  <2>6. \A q \in Runs : Exists(q) => /\ runs'[q].status = runs[q].status
                                     /\ runs'[q].thread = runs[q].thread
                                     /\ runs'[q].lease = runs[q].lease
    BY <2>2, <2>3
  <2>. QED
    BY <1>4, <2>5, <2>6, LeaseFrame DEF RecordEvent
<1>5. ASSUME NEW r \in Runs, NEW sc \in Scopes, MarkCancelled(r, sc)
      PROVE  ThreadExclusive' /\ LeasesAgree'
  <2>. DEFINE row == [runs[r] EXCEPT !.cancel_requested = TRUE]
  <2>1. Exists(r) /\ runs[r] \in Run
    BY <1>5 DEF MarkCancelled, LeaseInv, TypeOK, Exists
  <2>2. runs'[r] = row /\ \A q \in Runs : q # r => runs'[q] = runs[q]
    BY <1>5 DEF MarkCancelled, LeaseInv, TypeOK
  <2>3. /\ row.status = runs[r].status /\ row.thread = runs[r].thread
        /\ row.lease = runs[r].lease /\ row \in Run
    BY <2>1 DEF Run
  <2>. HIDE DEF row
  <2>5. \A q \in Runs : Exists(q)' <=> Exists(q)
    BY <2>1, <2>2, <2>3, NoneAssumption DEF Exists
  <2>6. \A q \in Runs : Exists(q) => /\ runs'[q].status = runs[q].status
                                     /\ runs'[q].thread = runs[q].thread
                                     /\ runs'[q].lease = runs[q].lease
    BY <2>2, <2>3
  <2>. QED
    BY <1>5, <2>5, <2>6, LeaseFrame DEF MarkCancelled
<1>6. ASSUME NEW h \in Holds, Renew(h) \/ Release(h) PROVE ThreadExclusive' /\ LeasesAgree'
  BY <1>6, RenewLease, ReleaseLease
<1>7. ASSUME NEW S \in SUBSET Runs, ReapStale(S) PROVE ThreadExclusive' /\ LeasesAgree'
  BY <1>7, ReapLease
<1>8. ASSUME UNCHANGED <<runs, threadLease>> PROVE ThreadExclusive' /\ LeasesAgree'
  BY <1>8, LeaseFrame DEF Exists
<1>9. ASSUME NEW r \in Runs, NEW sc \in Scopes, NEW id \in LeaseIds \cup {None},
             NEW k \in EffectKeys,
             \/ \E p \in Requests : ReserveEffect(r, sc, id, k, p)
             \/ StartEffect(r, sc, id, k)
      PROVE  UNCHANGED <<runs, threadLease>>
  BY <1>9 DEF ReserveEffect, StartEffect, leaseVars
<1>10. Tick \/ UNCHANGED vars => UNCHANGED <<runs, threadLease>>
  BY DEF Tick, vars, leaseVars
<1>. QED
  BY <1>1, <1>2, <1>3, <1>4, <1>5, <1>6, <1>7, <1>8, <1>9, <1>10 DEF Next

LEMMA InitLease == Init => LeaseInv
<1>. SUFFICES ASSUME Init PROVE ThreadExclusive /\ LeasesAgree
  BY InitType DEF LeaseInv
<1>1. \A r \in Runs : ~Exists(r)
  BY DEF Init, Exists
<1>2. \A t \in Threads : threadLease[t] = None
  BY DEF Init
<1>. QED
  BY <1>1, <1>2 DEF ThreadExclusive, LeasesAgree, Running

\* The lease bookkeeping of the store, through starts, commits, renewals, releases,
\* expiry and reaping: one running run per thread, and two copies of its lease that agree.
THEOREM LeaseInvariant == Spec => []LeaseInv
<1>. QED
  BY InitLease, NextLease, PTL DEF Spec

\* A thread never has two running runs: the store's one-running-run-per-thread
\* guarantee, through starts, commits, releases, expiry and reaping.
THEOREM ThreadExclusion == Spec => []ThreadExclusive
<1>1. LeaseInv => ThreadExclusive
  BY DEF LeaseInv
<1>. QED
  BY <1>1, LeaseInvariant, PTL

\* The run's copy and the thread's copy of a lease agree in every reachable state.
THEOREM LeaseAgreement == Spec => []LeasesAgree
<1>1. LeaseInv => LeasesAgree
  BY DEF LeaseInv
<1>. QED
  BY <1>1, LeaseInvariant, PTL

-----------------------------------------------------------------------------
(* What a step may never do.                                               *)

\* The part of a row that a terminal run keeps.
SameRun(r) == /\ runs'[r].status = runs[r].status
              /\ runs'[r].events = runs[r].events
              /\ runs'[r].lease = runs[r].lease

\* mark_cancelled touches one flag of one row.
LEMMA MarkSame ==
  ASSUME TypeOK, NEW q \in Runs, NEW sc \in Scopes, MarkCancelled(q, sc), NEW r \in Runs,
         Exists(r)
  PROVE  SameRun(r) /\ effects' = effects /\ items' = items
<1>1. runs[r] \in Run
  BY DEF TypeOK, Exists
<1>2. runs'[r] = runs[r] \/ runs'[r] = [runs[r] EXCEPT !.cancel_requested = TRUE]
  BY DEF MarkCancelled, TypeOK
<1>3. SameRun(r)
  BY <1>1, <1>2 DEF SameRun, Run
<1>. QED
  BY <1>3 DEF MarkCancelled, opVars

\* A row that reap_stale leaves.
LEMMA ReapedRow ==
  ASSUME TypeOK, NEW r \in Runs, Exists(r)
  PROVE  /\ Reaped(r).status = "error" /\ Reaped(r).lease = None
         /\ Len(Reaped(r).events) = Len(runs[r].events) + 1
<1>. DEFINE e == [seq |-> LastSeq(r) + 1, terminal |-> TRUE]
            log == Append(runs[r].events, e)
<1>1. Reaped(r) = [runs[r] EXCEPT !.status = "error", !.lease = None, !.events = log]
  BY DEF Reaped
<1>2. runs[r] \in Run /\ runs[r].events \in Seq(Event) /\ LastSeq(r) + 1 \in Nat
  <2>1. runs[r] \in Run
    BY DEF TypeOK, Exists
  <2>2. LastSeq(r) \in Nat
    BY LastSeqType
  <2>3. LastSeq(r) + 1 \in Nat
    BY <2>2
  <2>4. runs[r].events \in Seq(Event)
    BY <2>1, RowType
  <2>. QED
    BY <2>1, <2>3, <2>4
<1>3. e \in Event
  BY <1>2 DEF Event
<1>4. Len(log) = Len(runs[r].events) + 1
  BY <1>2, <1>3, AppendType
<1>. HIDE DEF log
<1>5. Reaped(r).status = "error" /\ Reaped(r).lease = None /\ Reaped(r).events = log
  BY <1>1, <1>2 DEF Run
<1>. QED
  BY <1>4, <1>5

\* A row is only written by operations on its own run, and but for marking and
\* releasing only while that run is running.
LEMMA TerminalStep ==
  ASSUME LeaseInv, [Next]_vars, NEW r \in Runs, Terminal(r)
  PROVE  SameRun(r)
<1>1. Exists(r) /\ ~Running(r) /\ ~Leased(r)
  BY DEF Terminal, Running, LeaseInv, LeasesAgree
<1>2. runs'[r] = runs[r] => SameRun(r)
  BY DEF SameRun
<1>3. ASSUME NEW s \in Starts, StartRun(s) PROVE SameRun(r)
  BY <1>1, <1>2, <1>3 DEF StartRun, LeaseInv, TypeOK
<1>4. ASSUME NEW c \in Commits, CommitRun(c) PROVE SameRun(r)
  BY <1>1, <1>2, <1>4 DEF CommitRun, LeaseInv, TypeOK
<1>5. ASSUME NEW q \in Runs, NEW sc \in Scopes, NEW e \in OfferedEvents, NEW o \in Outcomes,
             NEW ws \in UpTo(MaxWrites, Write(EntryKeys)), FinishRun(q, sc, e, o, ws)
      PROVE  SameRun(r)
  BY <1>1, <1>2, <1>5 DEF FinishRun, LeaseInv, TypeOK
<1>6. ASSUME NEW q \in Runs, NEW sc \in Scopes, NEW e \in OfferedEvents, RecordEvent(q, sc, e)
      PROVE  SameRun(r)
  BY <1>1, <1>2, <1>6 DEF RecordEvent, LeaseInv, TypeOK
<1>7. ASSUME NEW q \in Runs, NEW sc \in Scopes, MarkCancelled(q, sc) PROVE SameRun(r)
  BY <1>1, <1>7, MarkSame DEF LeaseInv
<1>8. ASSUME NEW h \in Holds, Renew(h) \/ Release(h) PROVE SameRun(r)
  BY <1>1, <1>2, <1>8 DEF Renew, Release, LeaseInv, TypeOK
<1>9. ASSUME NEW S \in SUBSET Runs, ReapStale(S) PROVE SameRun(r)
  BY <1>1, <1>2, <1>9 DEF ReapStale, Stale
<1>10. ASSUME NEW q \in Runs, NEW sc \in Scopes, NEW id \in LeaseIds \cup {None},
              NEW k \in EffectKeys,
              \/ \E p \in Requests : ReserveEffect(q, sc, id, k, p)
              \/ StartEffect(q, sc, id, k)
       PROVE  SameRun(r)
  BY <1>2, <1>10 DEF ReserveEffect, StartEffect, leaseVars
<1>11. Tick \/ UNCHANGED vars => SameRun(r)
  BY <1>2 DEF Tick, vars, leaseVars
<1>. QED
  BY <1>3, <1>4, <1>5, <1>6, <1>7, <1>8, <1>9, <1>10, <1>11 DEF Next

\* A terminal run keeps status, log and lease for ever: neither a late commit,
\* nor the reaper, nor a renewal changes how a run ended.
THEOREM TerminalRunsFrozen == Spec => TerminalFrozen
<1>1. LeaseInv /\ [Next]_vars => [\A r \in Runs : Terminal(r) => SameRun(r)]_vars
  BY TerminalStep
<1>. QED
  BY <1>1, LeaseInvariant, PTL DEF Spec, TerminalFrozen, SameRun

\* Only commit_run writes checkpoints, under its own guards.
LEMMA CheckpointStep ==
  ASSUME LeaseInv, [Next]_vars, NEW t \in Threads, checkpoints'[t] # checkpoints[t]
  PROVE  LET r == checkpoints'[t].run IN
           /\ Running(r) /\ runs[r].thread = t
           /\ RunningOthers(t, r) = {}
           /\ Leased(r) => ~Lapsed(runs[r].lease)
<1>1. PICK c \in Commits : CommitRun(c)
  BY DEF Next, StartRun, FinishRun, RecordEvent, MarkCancelled, Renew, Release, ReapStale,
         ReserveEffect, StartEffect, Tick, vars, leaseVars
<1>2. c.checkpoint # None
  BY <1>1 DEF CommitRun
<1>3. c.checkpoint \in CheckpointWrite /\ c.checkpoint.thread \in Threads
  BY <1>2 DEF Commits, CommitRequest, CheckpointWrite
<1>4. c.checkpoint.thread = t /\ checkpoints'[t].run = c.checkpoint.run
  BY <1>1, <1>2, <1>3 DEF CommitRun, LeaseInv, TypeOK
<1>5. /\ Running(c.run) /\ c.checkpoint.run = c.run
      /\ CheckLease(c.run, c.lease) /\ CheckThread(c.run, t, c.lease)
  BY <1>1, <1>2, <1>4 DEF CommitRun
<1>. QED
  BY <1>4, <1>5 DEF CheckLease, CheckThread

\* The fence of checkpoints: only the one running run of a thread, under a live
\* lease if it has one, changes the thread's checkpoint.
THEOREM CheckpointsFenced == Spec => CheckpointFenced
<1>1. LeaseInv /\ [Next]_vars =>
        [\A t \in Threads : checkpoints'[t] # checkpoints[t] =>
           LET r == checkpoints'[t].run IN
             /\ Running(r) /\ runs[r].thread = t
             /\ RunningOthers(t, r) = {}
             /\ Leased(r) => ~Lapsed(runs[r].lease)]_vars
  BY CheckpointStep
<1>. QED
  BY <1>1, LeaseInvariant, PTL DEF Spec, CheckpointFenced

\* What may happen to a run whose lease has lapsed.
LapsedKept(r) ==
  /\ effects'[r] = effects[r] /\ items'[r] = items[r]
  /\ runs'[r].lease \in {runs[r].lease, None}
  /\ runs'[r].events # runs[r].events =>
       runs'[r].status = "error" /\ Len(runs'[r].events) = Len(runs[r].events) + 1

LEMMA LapsedStep ==
  ASSUME LeaseInv, [Next]_vars, NEW r \in Runs, Stale(r)
  PROVE  LapsedKept(r)
<1>1. /\ Exists(r) /\ Running(r) /\ Leased(r) /\ Lapsed(runs[r].lease)
      /\ \A id : ~CheckLease(r, id)
  BY DEF Stale, Running, CheckLease
<1>2. ASSUME runs'[r] = runs[r] \/ SameRun(r), effects'[r] = effects[r], items'[r] = items[r]
      PROVE  LapsedKept(r)
  BY <1>2 DEF LapsedKept, SameRun
<1>3. ASSUME NEW s \in Starts, StartRun(s) PROVE LapsedKept(r)
  BY <1>1, <1>2, <1>3 DEF StartRun, LeaseInv, TypeOK
<1>4. ASSUME NEW c \in Commits, CommitRun(c) PROVE LapsedKept(r)
  <2>1. c.run # r
    BY <1>1, <1>4 DEF CommitRun
  <2>2. runs'[r] = runs[r]
    BY <1>4, <2>1 DEF CommitRun, LeaseInv, TypeOK
  <2>3. effects'[r] = effects[r] /\ items'[r] = items[r]
    BY <1>4, <2>1 DEF CommitRun, ApplyEffects, ApplyItems, LeaseInv, TypeOK
  <2>. QED
    BY <1>2, <2>2, <2>3
<1>5. ASSUME NEW q \in Runs, NEW sc \in Scopes, NEW e \in OfferedEvents, NEW o \in Outcomes,
             NEW ws \in UpTo(MaxWrites, Write(EntryKeys)), FinishRun(q, sc, e, o, ws)
      PROVE  LapsedKept(r)
  BY <1>1, <1>2, <1>5 DEF FinishRun, LeaseInv, TypeOK
<1>6. ASSUME NEW q \in Runs, NEW sc \in Scopes, NEW e \in OfferedEvents, RecordEvent(q, sc, e)
      PROVE  LapsedKept(r)
  BY <1>1, <1>2, <1>6 DEF RecordEvent, LeaseInv, TypeOK, opVars
<1>7. ASSUME NEW q \in Runs, NEW sc \in Scopes, MarkCancelled(q, sc) PROVE LapsedKept(r)
  BY <1>1, <1>2, <1>7, MarkSame DEF LeaseInv
<1>8. ASSUME NEW h \in Holds, Renew(h) PROVE LapsedKept(r)
  BY <1>1, <1>2, <1>8 DEF Renew, LeaseInv, TypeOK, opVars
<1>9. ASSUME NEW h \in Holds, Release(h) PROVE LapsedKept(r)
  <2>1. effects' = effects /\ items' = items
    BY <1>9 DEF Release, opVars
  <2>2. runs[r] \in Run
    BY <1>1 DEF LeaseInv, TypeOK, Exists
  <2>3. runs'[r] = runs[r] \/ runs'[r] = [runs[r] EXCEPT !.lease = None]
    BY <1>9 DEF Release, LeaseInv, TypeOK
  <2>4. runs'[r].lease \in {runs[r].lease, None} /\ runs'[r].events = runs[r].events
    BY <2>2, <2>3 DEF Run
  <2>. QED
    BY <2>1, <2>4 DEF LapsedKept
<1>10. ASSUME NEW S \in SUBSET Runs, ReapStale(S) PROVE LapsedKept(r)
  <2>1. effects' = effects /\ items' = items
    BY <1>10 DEF ReapStale, opVars
  <2>2. runs'[r] = runs[r] \/ runs'[r] = Reaped(r)
    BY <1>10 DEF ReapStale
  <2>3. CASE runs'[r] = runs[r]
    BY <1>2, <2>1, <2>3
  <2>4. CASE runs'[r] = Reaped(r)
    BY <1>1, <2>1, <2>4, ReapedRow DEF LapsedKept, LeaseInv
  <2>. QED
    BY <2>2, <2>3, <2>4
<1>11. ASSUME NEW q \in Runs, NEW sc \in Scopes, NEW id \in LeaseIds \cup {None},
              NEW k \in EffectKeys,
              \/ \E p \in Requests : ReserveEffect(q, sc, id, k, p)
              \/ StartEffect(q, sc, id, k)
       PROVE  LapsedKept(r)
  <2>1. q # r
    BY <1>1, <1>11 DEF ReserveEffect, StartEffect
  <2>2. effects'[r] = effects[r]
    BY <1>11, <2>1 DEF ReserveEffect, StartEffect, LeaseInv, TypeOK
  <2>. QED
    BY <1>2, <1>11, <2>2 DEF ReserveEffect, StartEffect, leaseVars
<1>12. Tick \/ UNCHANGED vars => LapsedKept(r)
  BY <1>2 DEF Tick, vars, leaseVars, opVars
<1>. QED
  BY <1>3, <1>4, <1>5, <1>6, <1>7, <1>8, <1>9, <1>10, <1>11, <1>12 DEF Next

\* The fence of everything else a worker writes: after its lease has lapsed a run
\* takes no effect, item or event from its owner any more; it is released, or
\* reaped with one terminal event.
THEOREM LapsedRunsFenced == Spec => LapsedFenced
<1>1. LeaseInv /\ [Next]_vars => [\A r \in Runs : Stale(r) => LapsedKept(r)]_vars
  BY LapsedStep
<1>. QED
  BY <1>1, LeaseInvariant, PTL DEF Spec, LapsedFenced, LapsedKept

-----------------------------------------------------------------------------
(* Idempotency keys.                                                       *)

\* The table points every run with a key back to that run.
KeysRecorded ==
  \A r \in Runs : Exists(r) /\ runs[r].key # None =>
    idempotency[runs[r].scope][runs[r].key] = r

\* No row appears, and none changes its key or its scope.
SameKeys ==
  /\ UNCHANGED idempotency
  /\ \A r \in Runs : Exists(r)' => /\ Exists(r)
                                   /\ runs'[r].key = runs[r].key
                                   /\ runs'[r].scope = runs[r].scope

LEMMA KeysFrame ==
  ASSUME KeysRecorded, SameKeys
  PROVE  KeysRecorded'
BY DEF KeysRecorded, SameKeys

\* A change of one row that is there.
LEMMA OneRow ==
  ASSUME TypeOK, UNCHANGED idempotency, NEW q \in Runs, Exists(q), NEW row,
         runs' = [runs EXCEPT ![q] = row],
         row.key = runs[q].key, row.scope = runs[q].scope
  PROVE  SameKeys
<1>1. runs'[q] = row /\ \A r \in Runs : r # q => runs'[r] = runs[r]
  BY DEF TypeOK
<1>. QED
  BY <1>1 DEF SameKeys, Exists

LEMMA StartKeys ==
  ASSUME TypeOK, KeysRecorded, NEW s \in Starts, StartRun(s)
  PROVE  KeysRecorded'
<1>. DEFINE row == [status |-> "running", scope |-> s.scope, thread |-> s.thread,
                    key |-> s.key,
                    lease |-> IF s.lease = None THEN None
                              ELSE [owner |-> s.lease.owner, id |-> s.lease.id,
                                    until |-> clock + Ttl],
                    cancel_requested |-> FALSE, events |-> <<>>]
<1>1. s.run \in Runs /\ s.scope \in Scopes /\ s.key \in Keys \cup {None}
  BY DEF Starts
<1>2. runs'[s.run] = row /\ \A r \in Runs : r # s.run => runs'[r] = runs[r]
  BY <1>1 DEF StartRun, TypeOK
<1>3. row.key = s.key /\ row.scope = s.scope
  OBVIOUS
<1>. HIDE DEF row
<1>4. CASE s.key = None
  <2>1. UNCHANGED idempotency
    BY <1>4 DEF StartRun
  <2>. QED
    BY <1>2, <1>3, <1>4, <2>1 DEF KeysRecorded, Exists
<1>5. CASE s.key # None
  <2>1. idempotency' = [idempotency EXCEPT ![s.scope][s.key] = s.run]
    BY <1>5 DEF StartRun
  <2>2. idempotency[s.scope][s.key] = None /\ None \notin Runs
    BY <1>5, NoneAssumption DEF StartRun, FindIdempotent
  <2>3. ASSUME NEW r \in Runs, Exists(r)', runs'[r].key # None
        PROVE  idempotency'[runs'[r].scope][runs'[r].key] = r
    <3>1. CASE r = s.run
      <4>1. idempotency'[s.scope][s.key] = s.run
        BY <1>1, <1>5, <2>1 DEF TypeOK
      <4>. QED
        BY <1>2, <1>3, <3>1, <4>1
    <3>2. CASE r # s.run
      <4>1. Exists(r) /\ runs'[r] = runs[r] /\ idempotency[runs[r].scope][runs[r].key] = r
        BY <1>2, <2>3, <3>2 DEF KeysRecorded, Exists
      <4>2. runs[r] \in Run
        BY <4>1 DEF TypeOK, Exists
      <4>3. runs[r].scope \in Scopes /\ runs[r].key \in Keys
        BY <2>3, <4>1, <4>2, RowType
      <4>4. ~(runs[r].scope = s.scope /\ runs[r].key = s.key)
        BY <2>2, <4>1
      <4>5. idempotency'[runs[r].scope][runs[r].key] = idempotency[runs[r].scope][runs[r].key]
        BY <1>1, <1>5, <2>1, <4>3, <4>4 DEF TypeOK
      <4>. QED
        BY <4>1, <4>5
    <3>. QED
      BY <3>1, <3>2
  <2>. QED
    BY <2>3 DEF KeysRecorded
<1>. QED
  BY <1>4, <1>5

LEMMA NextKeys == TypeOK /\ KeysRecorded /\ [Next]_vars => KeysRecorded'
<1>. SUFFICES ASSUME TypeOK, KeysRecorded, [Next]_vars PROVE KeysRecorded'
  OBVIOUS
<1>1. ASSUME NEW s \in Starts, StartRun(s) PROVE KeysRecorded'
  BY <1>1, StartKeys
<1>2. ASSUME NEW c \in Commits, CommitRun(c) PROVE SameKeys
  <2>. DEFINE log == runs[c.run].events \o c.events
              row == IF c.finish = None THEN [runs[c.run] EXCEPT !.events = log]
                     ELSE [runs[c.run] EXCEPT !.events = log, !.status = c.finish, !.lease = None]
  <2>1. c.run \in Runs /\ Exists(c.run) /\ runs[c.run] \in Run
    BY <1>2, CommitRow DEF CommitRun, Running
  <2>2. runs' = [runs EXCEPT ![c.run] = row] /\ UNCHANGED idempotency
    BY <1>2 DEF CommitRun
  <2>3. row.key = runs[c.run].key /\ row.scope = runs[c.run].scope
    BY <2>1 DEF Run
  <2>. HIDE DEF row
  <2>. QED
    BY <2>1, <2>2, <2>3, OneRow
<1>3. ASSUME NEW r \in Runs, NEW sc \in Scopes, NEW e \in OfferedEvents, NEW o \in Outcomes,
             NEW ws \in UpTo(MaxWrites, Write(EntryKeys)), FinishRun(r, sc, e, o, ws)
      PROVE  SameKeys
  <2>. DEFINE row == [runs[r] EXCEPT !.status = o, !.events = Append(runs[r].events, e),
                                     !.lease = None]
  <2>1. Exists(r) /\ runs[r] \in Run
    BY <1>3 DEF FinishRun, Running, TypeOK, Exists
  <2>2. runs' = [runs EXCEPT ![r] = row] /\ UNCHANGED idempotency
    BY <1>3 DEF FinishRun
  <2>3. row.key = runs[r].key /\ row.scope = runs[r].scope
    BY <2>1 DEF Run
  <2>. HIDE DEF row
  <2>. QED
    BY <2>1, <2>2, <2>3, OneRow
<1>4. ASSUME NEW r \in Runs, NEW sc \in Scopes, NEW e \in OfferedEvents, RecordEvent(r, sc, e)
      PROVE  SameKeys
  <2>. DEFINE row == [runs[r] EXCEPT !.events = Append(runs[r].events, e)]
  <2>1. Exists(r) /\ runs[r] \in Run
    BY <1>4 DEF RecordEvent, Running, TypeOK, Exists
  <2>2. runs' = [runs EXCEPT ![r] = row] /\ UNCHANGED idempotency
    BY <1>4 DEF RecordEvent
  <2>3. row.key = runs[r].key /\ row.scope = runs[r].scope
    BY <2>1 DEF Run
  <2>. HIDE DEF row
  <2>. QED
    BY <2>1, <2>2, <2>3, OneRow
<1>5. ASSUME NEW r \in Runs, NEW sc \in Scopes, MarkCancelled(r, sc) PROVE SameKeys
  <2>. DEFINE row == [runs[r] EXCEPT !.cancel_requested = TRUE]
  <2>1. Exists(r) /\ runs[r] \in Run
    BY <1>5 DEF MarkCancelled, TypeOK, Exists
  <2>2. runs' = [runs EXCEPT ![r] = row] /\ UNCHANGED idempotency
    BY <1>5 DEF MarkCancelled
  <2>3. row.key = runs[r].key /\ row.scope = runs[r].scope
    BY <2>1 DEF Run
  <2>. HIDE DEF row
  <2>. QED
    BY <2>1, <2>2, <2>3, OneRow
<1>6. ASSUME NEW h \in Holds, NEW l,
             Exists(h.run), runs' = [runs EXCEPT ![h.run] = [runs[h.run] EXCEPT !.lease = l]],
             UNCHANGED idempotency
      PROVE  SameKeys
  <2>. DEFINE row == [runs[h.run] EXCEPT !.lease = l]
  <2>1. h.run \in Runs /\ runs[h.run] \in Run
    BY <1>6 DEF Holds, TypeOK, Exists
  <2>2. row.key = runs[h.run].key /\ row.scope = runs[h.run].scope
    BY <2>1 DEF Run
  <2>3. runs' = [runs EXCEPT ![h.run] = row]
    BY <1>6
  <2>. HIDE DEF row
  <2>. QED
    BY <1>6, <2>1, <2>2, <2>3, OneRow
<1>7. ASSUME NEW h \in Holds, Renew(h) PROVE SameKeys
  BY <1>6, <1>7 DEF Renew, Running
<1>8. ASSUME NEW h \in Holds, Release(h) PROVE SameKeys
  BY <1>6, <1>8 DEF Release
<1>9. ASSUME NEW S \in SUBSET Runs, ReapStale(S) PROVE SameKeys
  <2>1. UNCHANGED idempotency /\ \A r \in Runs : runs'[r] = IF r \in S THEN Reaped(r) ELSE runs[r]
    BY <1>9 DEF ReapStale
  <2>2. ASSUME NEW r \in S
        PROVE  Exists(r) /\ Reaped(r).key = runs[r].key /\ Reaped(r).scope = runs[r].scope
    <3>. DEFINE log == Append(runs[r].events, [seq |-> LastSeq(r) + 1, terminal |-> TRUE])
    <3>1. Exists(r) /\ runs[r] \in Run
      BY <1>9 DEF ReapStale, Stale, Running, TypeOK, Exists
    <3>2. Reaped(r) = [runs[r] EXCEPT !.status = "error", !.lease = None, !.events = log]
      BY DEF Reaped
    <3>. HIDE DEF log
    <3>. QED
      BY <3>1, <3>2 DEF Run
  <2>. QED
    BY <2>1, <2>2 DEF SameKeys, Exists
<1>10. ASSUME NEW r \in Runs, NEW sc \in Scopes, NEW id \in LeaseIds \cup {None},
              NEW k \in EffectKeys,
              \/ \E p \in Requests : ReserveEffect(r, sc, id, k, p)
              \/ StartEffect(r, sc, id, k)
       PROVE  SameKeys
  BY <1>10 DEF ReserveEffect, StartEffect, leaseVars, SameKeys, Exists
<1>11. Tick \/ UNCHANGED vars => SameKeys
  BY DEF Tick, vars, leaseVars, SameKeys, Exists
<1>. QED
  BY <1>1, <1>2, <1>3, <1>4, <1>5, <1>7, <1>8, <1>9, <1>10, <1>11, KeysFrame DEF Next

\* One (scope, client key) pair starts at most one run for ever, also after that
\* run has finished or was reaped.
THEOREM KeysStartOneRun == Spec => []KeysUnique
<1>1. Init => TypeOK /\ KeysRecorded
  BY InitType DEF Init, KeysRecorded, Exists
<1>2. TypeOK /\ KeysRecorded /\ [Next]_vars => (TypeOK /\ KeysRecorded)'
  BY NextType, NextKeys
<1>3. KeysRecorded => KeysUnique
  BY DEF KeysRecorded, KeysUnique
<1>. QED
  BY <1>1, <1>2, <1>3, PTL DEF Spec
-----------------------------------------------------------------------------
(* Event logs, the checkpoints that go with them and the fence of a        *)
(* thread: RunStore keeps its logs well formed and implements ThreadFence. *)
(* Every step of the store is of one of four kinds, a start, a batch       *)
(* written to one log, a reaping, or a step that touches no log and no     *)
(* checkpoint (StepKinds); the rest is about these four.                   *)

-----------------------------------------------------------------------------
(* The natural numbers are well ordered.  Induction is not needed: the     *)
(* intervals 0..k are finite sets, and those are well founded under strict *)
(* inclusion.                                                              *)

LEMMA LeastElement ==
  ASSUME NEW T \in SUBSET Nat, T # {}
  PROVE  \E m \in T : \A k \in T : m <= k
<1>. DEFINE down == {0..k : k \in T}
<1>1. down \subseteq FiniteSubsetsOf(Nat) /\ down # {}
  <2>1. \A k \in T : IsFiniteSet(0..k)
    BY FS_Interval
  <2>2. \A k \in T : 0..k \in FiniteSubsetsOf(Nat)
    BY <2>1 DEF FiniteSubsetsOf
  <2>. QED
    BY <2>2
<1>2. IsWellFoundedOn(StrictSubsetOrdering(Nat), FiniteSubsetsOf(Nat))
  BY FS_StrictSubsetOrderingWellFounded
<1>3. PICK x \in down : \A y \in down : ~(<<y, x>> \in StrictSubsetOrdering(Nat))
  <2>. HIDE DEF down
  <2>. QED
    BY <1>1, <1>2, WFMin
<1>4. PICK m \in T : x = 0..m
  OBVIOUS
<1>5. ASSUME NEW k \in T, k < m PROVE FALSE
  <2>1. /\ 0..k \in SUBSET Nat /\ 0..m \in SUBSET Nat /\ 0..k \subseteq 0..m
        /\ m \in 0..m /\ m \notin 0..k
    BY <1>5
  <2>2. <<0..k, 0..m>> \in StrictSubsetOrdering(Nat)
    BY <2>1 DEF StrictSubsetOrdering
  <2>. QED
    BY <1>3, <1>4, <2>2
<1>. QED
  BY <1>5

\* Each seq of a batch that increases from n on is above n, the last one too.
LEMMA BatchAbove ==
  ASSUME NEW n \in Nat, NEW b \in Seq(Event),
         \A i \in DOMAIN b : b[i].seq > (IF i = 1 THEN n ELSE b[i - 1].seq)
  PROVE  \A i \in DOMAIN b : b[i].seq > n
<1>. DEFINE T == {i \in DOMAIN b : ~(b[i].seq > n)}
<1>1. \A i \in DOMAIN b : b[i].seq \in Nat /\ i \in Nat /\ i >= 1
  <2>1. \A i \in DOMAIN b : b[i] \in Event /\ i \in Nat /\ i >= 1
    OBVIOUS
  <2>. QED
    BY <2>1 DEF Event
<1>2. ASSUME T # {} PROVE FALSE
  <2>1. PICK m \in T : \A k \in T : m <= k
    BY <1>1, <1>2, LeastElement
  <2>2. m \in DOMAIN b /\ m \in Nat /\ m >= 1 /\ ~(b[m].seq > n)
    BY <1>1, <2>1
  <2>3. m # 1
    BY <2>2
  <2>4. m - 1 \in DOMAIN b
    BY <2>2, <2>3
  <2>5. b[m - 1].seq > n
    BY <2>1, <2>2, <2>4
  <2>6. b[m].seq > b[m - 1].seq
    BY <2>2, <2>3
  <2>. QED
    BY <1>1, <2>2, <2>4, <2>5, <2>6
<1>. QED
  BY <1>2

-----------------------------------------------------------------------------
(* The four kinds of steps.                                                *)

\* A run whose log, status and thread stay as they are.
Same(r) ==
  /\ Exists(r)' <=> Exists(r)
  /\ Exists(r) => /\ runs'[r].status = runs[r].status
                  /\ runs'[r].thread = runs[r].thread
                  /\ runs'[r].events = runs[r].events

Quiet == checkpoints' = checkpoints /\ \A r \in Runs : Same(r)

\* A batch goes to the log of a running run; its last event is terminal exactly
\* when the run ends.
Grows(r, b, st) ==
  /\ Running(r) /\ Exists(r)'
  /\ runs'[r].thread = runs[r].thread
  /\ runs'[r].status = st
  /\ runs'[r].events = runs[r].events \o b
  /\ Increasing(r, b)
  /\ \A i \in DOMAIN b : b[i].terminal <=> st # "running" /\ i = Len(b)
  /\ st # "running" => b # <<>>

\* One run is written, with the thread's checkpoint or without it.
Writes(r, b, st) ==
  /\ Grows(r, b, st)
  /\ \A q \in Runs \ {r} : runs'[q] = runs[q]
  /\ checkpoints' \in {checkpoints, [checkpoints EXCEPT ![runs[r].thread] =
                                       [run |-> r, seq |-> LastSeq(r)']]}

\* The reaper's event, and what it does to the runs it takes.
Expired(r) == [seq |-> LastSeq(r) + 1, terminal |-> TRUE]

Reaps(S) ==
  /\ \A r \in S : Grows(r, <<Expired(r)>>, "error")
  /\ \A r \in Runs \ S : runs'[r] = runs[r]
  /\ checkpoints' = checkpoints

\* What a single event appended to a log is as a batch.
LEMMA OneEvent ==
  ASSUME NEW log \in Seq(Event), NEW e \in Event
  PROVE  /\ Append(log, e) = log \o <<e>> /\ <<e>> \in Seq(Event)
         /\ DOMAIN <<e>> = {1} /\ Len(<<e>>) = 1 /\ <<e>>[1] = e /\ <<e>> # <<>>
OBVIOUS

LEMMA LastOfAppend ==
  ASSUME NEW log \in Seq(Event), NEW e \in Event
  PROVE  Append(log, e) # <<>> /\ Append(log, e)[Len(Append(log, e))] = e
OBVIOUS

LEMMA CommitWrites ==
  ASSUME TypeOK, NEW c \in Commits, CommitRun(c)
  PROVE  \E st \in RunStatus : Writes(c.run, c.events, st)
<1>. DEFINE r == c.run
            log == runs[r].events \o c.events
            st == IF c.finish = None THEN "running" ELSE c.finish
            row == IF c.finish = None THEN [runs[r] EXCEPT !.events = log]
                   ELSE [runs[r] EXCEPT !.events = log, !.status = c.finish, !.lease = None]
<1>1. /\ runs[r] \in Run /\ r \in Runs /\ log \in Seq(Event) /\ c.events \in Seq(Event)
      /\ c.finish # None => c.finish \in RunStatus \ {"running"}
  BY CommitRow
<1>2. Running(r) /\ runs[r].status = "running"
  BY DEF CommitRun, Running
<1>3. runs'[r] = row /\ \A q \in Runs \ {r} : runs'[q] = runs[q]
  BY <1>1 DEF CommitRun, TypeOK
<1>4. row \in Run
  <2>1. [runs[r] EXCEPT !.events = log] \in Run
    BY <1>1, RowType
  <2>2. c.finish # None =>
          [runs[r] EXCEPT !.events = log, !.status = c.finish, !.lease = None] \in Run
    BY <1>1, RowType
  <2>. QED
    BY <2>1, <2>2
<1>5. row.thread = runs[r].thread /\ row.status = st /\ row.events = log
  <2>. HIDE DEF log
  <2>. QED
    BY <1>1, <1>2 DEF Run
<1>. HIDE DEF row, log
<1>6. Exists(r)'
  BY <1>3, <1>4, NoneAssumption DEF Exists
<1>7. st \in RunStatus /\ (st # "running" <=> c.finish # None)
  BY <1>1 DEF RunStatus
<1>8. /\ Increasing(r, c.events)
      /\ c.finish # None => c.events # <<>>
      /\ \A i \in DOMAIN c.events :
           c.events[i].terminal <=> c.finish # None /\ i = Len(c.events)
  BY DEF CommitRun, ValidEvents
<1>9. checkpoints' \in {checkpoints, [checkpoints EXCEPT ![runs[r].thread] =
                                        [run |-> r, seq |-> LastSeq(r)']]}
  <2>1. CASE c.checkpoint = None
    BY <2>1 DEF CommitRun
  <2>2. CASE c.checkpoint # None
    <3>1. c.checkpoint.thread = runs[r].thread /\ c.checkpoint.run = r
      BY <2>2 DEF CommitRun, CheckThread
    <3>2. LastSeq(r)' = IF log = <<>> THEN 0 ELSE log[Len(log)].seq
      BY <1>3, <1>5 DEF LastSeq
    <3>. QED
      BY <2>2, <3>1, <3>2 DEF CommitRun, log
  <2>. QED
    BY <2>1, <2>2
<1>10. runs'[r].events = runs[r].events \o c.events
  BY <1>3, <1>5 DEF log
<1>11. runs'[r].status = st /\ runs'[r].thread = runs[r].thread
  BY <1>3, <1>5
<1>. HIDE DEF st
<1>12. /\ st # "running" => c.events # <<>>
       /\ \A i \in DOMAIN c.events :
            c.events[i].terminal <=> st # "running" /\ i = Len(c.events)
  BY <1>7, <1>8
<1>13. Writes(c.run, c.events, st)
  BY <1>2, <1>3, <1>6, <1>8, <1>9, <1>10, <1>11, <1>12 DEF Writes, Grows
<1>. QED
  BY <1>7, <1>13

LEMMA FinishWrites ==
  ASSUME TypeOK, NEW r \in Runs, NEW sc \in Scopes, NEW e \in OfferedEvents,
         NEW o \in Outcomes, NEW ws \in UpTo(MaxWrites, Write(EntryKeys)),
         FinishRun(r, sc, e, o, ws)
  PROVE  Writes(r, <<e>>, o) /\ <<e>> \in Seq(Event) /\ o \in RunStatus
<1>. DEFINE log == Append(runs[r].events, e)
            row == [runs[r] EXCEPT !.status = o, !.events = log, !.lease = None]
<1>1. runs[r] \in Run /\ Running(r) /\ runs[r].events \in Seq(Event)
  <2>1. runs[r] \in Run /\ Running(r)
    BY DEF TypeOK, FinishRun, Running, Exists
  <2>. QED
    BY <2>1, RowType
<1>2. e \in Event /\ o \in RunStatus /\ o # "running"
  BY BoundAssumption DEF OfferedEvents, Event
<1>3. runs'[r] = row /\ \A q \in Runs \ {r} : runs'[q] = runs[q]
  BY DEF FinishRun, TypeOK
<1>4. log = runs[r].events \o <<e>> /\ log \in Seq(Event)
  BY <1>1, <1>2, OneEvent, AppendType
<1>. HIDE DEF log
<1>5. row \in Run /\ row.thread = runs[r].thread /\ row.status = o /\ row.events = log
  BY <1>1, <1>2, <1>4 DEF Run
<1>. HIDE DEF row
<1>6. Exists(r)'
  BY <1>3, <1>5, NoneAssumption DEF Exists
<1>7. Increasing(r, <<e>>)
  BY <1>2, OneEvent DEF FinishRun, Increasing
<1>8. checkpoints' = checkpoints /\ e.terminal
  BY DEF FinishRun
<1>. QED
  BY <1>1, <1>2, <1>3, <1>4, <1>5, <1>6, <1>7, <1>8, OneEvent DEF Writes, Grows

LEMMA RecordWrites ==
  ASSUME TypeOK, NEW r \in Runs, NEW sc \in Scopes, NEW e \in OfferedEvents,
         RecordEvent(r, sc, e)
  PROVE  Writes(r, <<e>>, "running") /\ <<e>> \in Seq(Event) /\ "running" \in RunStatus
<1>. DEFINE log == Append(runs[r].events, e)
            row == [runs[r] EXCEPT !.events = log]
<1>1. runs[r] \in Run /\ Running(r) /\ runs[r].events \in Seq(Event)
  <2>1. runs[r] \in Run /\ Running(r)
    BY DEF TypeOK, RecordEvent, Running, Exists
  <2>. QED
    BY <2>1, RowType
<1>2. e \in Event /\ ~e.terminal
  BY BoundAssumption DEF OfferedEvents, Event, RecordEvent
<1>3. runs'[r] = row /\ \A q \in Runs \ {r} : runs'[q] = runs[q]
  BY DEF RecordEvent, TypeOK
<1>4. log = runs[r].events \o <<e>> /\ log \in Seq(Event)
  BY <1>1, <1>2, OneEvent, AppendType
<1>. HIDE DEF log
<1>5. row \in Run /\ row.thread = runs[r].thread /\ row.status = "running" /\ row.events = log
  BY <1>1, <1>4 DEF Run, Running
<1>. HIDE DEF row
<1>6. Exists(r)'
  BY <1>3, <1>5, NoneAssumption DEF Exists
<1>7. Increasing(r, <<e>>)
  BY <1>2, OneEvent DEF RecordEvent, Increasing
<1>8. checkpoints' = checkpoints
  BY DEF RecordEvent
<1>. QED
  BY <1>1, <1>2, <1>3, <1>4, <1>5, <1>6, <1>7, <1>8, OneEvent DEF Writes, Grows, RunStatus

LEMMA ReapReaps ==
  ASSUME TypeOK, NEW S \in SUBSET Runs, ReapStale(S)
  PROVE  Reaps(S)
<1>1. ASSUME NEW r \in S PROVE Grows(r, <<Expired(r)>>, "error")
  <2>. DEFINE log == Append(runs[r].events, Expired(r))
  <2>1. Running(r) /\ Exists(r) /\ runs[r] \in Run /\ runs'[r] = Reaped(r)
    BY DEF ReapStale, Stale, Running, Exists, TypeOK
  <2>2. runs[r].events \in Seq(Event) /\ LastSeq(r) \in Nat
    BY <2>1, RowType, LastSeqType
  <2>3. Expired(r) \in Event /\ Expired(r).terminal /\ Expired(r).seq > LastSeq(r)
    BY <2>2 DEF Expired, Event
  <2>4. log = runs[r].events \o <<Expired(r)>> /\ log \in Seq(Event)
    BY <2>2, <2>3, OneEvent, AppendType
  <2>5. Reaped(r) = [runs[r] EXCEPT !.status = "error", !.lease = None, !.events = log]
    BY DEF Reaped, Expired
  <2>. HIDE DEF log
  <2>6. /\ Reaped(r).status = "error" /\ Reaped(r).thread = runs[r].thread
        /\ Reaped(r).events = log
    BY <2>1, <2>5 DEF Run
  <2>7. Exists(r)'
    BY <2>1, ReapedType, NoneAssumption DEF Exists
  <2>8. Increasing(r, <<Expired(r)>>)
    BY <2>3, OneEvent DEF Increasing
  <2>. QED
    BY <2>1, <2>3, <2>4, <2>6, <2>7, <2>8, OneEvent DEF Grows
<1>. QED
  BY <1>1 DEF Reaps, ReapStale

\* Marking, renewing and releasing change neither logs nor what the fence looks at.
LEMMA UpkeepQuiet ==
  ASSUME TypeOK, NEW r \in Runs, Exists(r), checkpoints' = checkpoints,
         NEW row \in Run, runs' = [runs EXCEPT ![r] = row],
         row.status = runs[r].status, row.thread = runs[r].thread, row.events = runs[r].events
  PROVE  Quiet
<1>1. runs'[r] = row /\ \A q \in Runs \ {r} : runs'[q] = runs[q]
  BY DEF TypeOK
<1>2. row # None
  BY NoneAssumption
<1>. QED
  BY <1>1, <1>2 DEF Quiet, Same, Exists

LEMMA MarkQuiet ==
  ASSUME TypeOK, NEW r \in Runs, NEW sc \in Scopes, MarkCancelled(r, sc)
  PROVE  Quiet
<1>. DEFINE row == [runs[r] EXCEPT !.cancel_requested = TRUE]
<1>1. Exists(r) /\ runs[r] \in Run /\ checkpoints' = checkpoints
  BY DEF MarkCancelled, TypeOK, Exists
<1>2. row \in Run
  BY <1>1, RowType
<1>3. row.status = runs[r].status /\ row.thread = runs[r].thread /\ row.events = runs[r].events
  BY <1>1 DEF Run
<1>4. runs' = [runs EXCEPT ![r] = row]
  BY DEF MarkCancelled
<1>. HIDE DEF row
<1>. QED
  BY <1>1, <1>2, <1>3, <1>4, UpkeepQuiet

LEMMA ReleaseQuiet ==
  ASSUME TypeOK, NEW h \in Holds, Release(h)
  PROVE  Quiet
<1>. DEFINE r == h.run
            row == [runs[r] EXCEPT !.lease = None]
<1>1. r \in Runs /\ Exists(r) /\ runs[r] \in Run /\ checkpoints' = checkpoints
  BY DEF Holds, Release, TypeOK, Exists
<1>2. row \in Run
  BY <1>1, RowType
<1>3. row.status = runs[r].status /\ row.thread = runs[r].thread /\ row.events = runs[r].events
  BY <1>1 DEF Run
<1>4. runs' = [runs EXCEPT ![r] = row]
  BY DEF Release
<1>. HIDE DEF row
<1>. QED
  BY <1>1, <1>2, <1>3, <1>4, UpkeepQuiet

LEMMA RenewQuiet ==
  ASSUME TypeOK, NEW h \in Holds, Renew(h)
  PROVE  Quiet
<1>. DEFINE r == h.run
            l == [runs[r].lease EXCEPT !.until = clock + Ttl]
            row == [runs[r] EXCEPT !.lease = l]
<1>1. r \in Runs /\ Exists(r) /\ Leased(r) /\ runs[r] \in Run /\ checkpoints' = checkpoints
  BY DEF Holds, Renew, Running, TypeOK, Exists
<1>2. l \in Lease
  <2>1. runs[r].lease \in Lease
    BY <1>1, RowType DEF Leased
  <2>2. clock + Ttl \in Nat
    BY BoundAssumption DEF TypeOK
  <2>. QED
    BY <2>1, <2>2 DEF Lease
<1>4. runs' = [runs EXCEPT ![r] = row]
  BY DEF Renew
<1>. HIDE DEF l
<1>3. row \in Run
  BY <1>1, <1>2, RowType
<1>5. row.status = runs[r].status /\ row.thread = runs[r].thread /\ row.events = runs[r].events
  BY <1>1, <1>2 DEF Run
<1>. HIDE DEF row
<1>. QED
  BY <1>1, <1>3, <1>4, <1>5, UpkeepQuiet

\* Every step is of one of the four kinds.
LEMMA StepKinds ==
  ASSUME TypeOK, [Next]_vars
  PROVE  \/ Quiet
         \/ \E s \in Starts : StartRun(s)
         \/ \E r \in Runs, b \in Seq(Event), st \in RunStatus : Writes(r, b, st)
         \/ \E S \in SUBSET Runs : Reaps(S)
<1>1. ASSUME NEW c \in Commits, CommitRun(c)
      PROVE  \E r \in Runs, b \in Seq(Event), st \in RunStatus : Writes(r, b, st)
  <2>1. c.run \in Runs /\ c.events \in Seq(Event)
    BY <1>1, CommitRow
  <2>2. PICK st \in RunStatus : Writes(c.run, c.events, st)
    BY <1>1, CommitWrites
  <2>. QED
    BY <2>1, <2>2
<1>2. ASSUME NEW r \in Runs, NEW sc \in Scopes, NEW e \in OfferedEvents, NEW o \in Outcomes,
             NEW ws \in UpTo(MaxWrites, Write(EntryKeys)), FinishRun(r, sc, e, o, ws)
      PROVE  \E q \in Runs, b \in Seq(Event), st \in RunStatus : Writes(q, b, st)
  BY <1>2, FinishWrites
<1>3. ASSUME NEW r \in Runs, NEW sc \in Scopes, NEW e \in OfferedEvents, RecordEvent(r, sc, e)
      PROVE  \E q \in Runs, b \in Seq(Event), st \in RunStatus : Writes(q, b, st)
  BY <1>3, RecordWrites
<1>4. ASSUME NEW r \in Runs, NEW sc \in Scopes, MarkCancelled(r, sc) PROVE Quiet
  BY <1>4, MarkQuiet
<1>5. ASSUME NEW h \in Holds, Renew(h) \/ Release(h) PROVE Quiet
  BY <1>5, RenewQuiet, ReleaseQuiet
<1>6. ASSUME UNCHANGED leaseVars PROVE Quiet
  BY <1>6 DEF leaseVars, Quiet, Same, Exists
<1>7. ASSUME NEW r \in Runs, NEW sc \in Scopes, NEW id \in LeaseIds \cup {None},
             NEW k \in EffectKeys,
             \/ \E p \in Requests : ReserveEffect(r, sc, id, k, p)
             \/ StartEffect(r, sc, id, k)
      PROVE  UNCHANGED leaseVars
  BY <1>7 DEF ReserveEffect, StartEffect
<1>8. Tick \/ UNCHANGED vars => UNCHANGED leaseVars
  BY DEF Tick, vars
<1>. QED
  BY <1>1, <1>2, <1>3, <1>4, <1>5, <1>6, <1>7, <1>8, ReapReaps DEF Next

-----------------------------------------------------------------------------
(* Logs.                                                                   *)

LEMMA ConcatParts ==
  ASSUME NEW log \in Seq(Event), NEW b \in Seq(Event)
  PROVE  /\ log \o b \in Seq(Event) /\ Len(log \o b) = Len(log) + Len(b)
         /\ Len(log) \in Nat /\ Len(b) \in Nat
         /\ DOMAIN (log \o b) = 1..(Len(log) + Len(b))
         /\ DOMAIN log = 1..Len(log) /\ DOMAIN b = 1..Len(b)
         /\ \A i \in DOMAIN log : (log \o b)[i] = log[i]
         /\ \A i \in DOMAIN b : (log \o b)[Len(log) + i] = b[i]
OBVIOUS

\* The last seq never goes back, and a batch moves it.
LEMMA GrowsLast ==
  ASSUME TypeOK, NEW r \in Runs, NEW b \in Seq(Event), NEW st \in RunStatus, Grows(r, b, st)
  PROVE  /\ LastSeq(r) \in Nat /\ LastSeq(r)' \in Nat
         /\ LastSeq(r)' >= LastSeq(r)
         /\ b # <<>> => LastSeq(r)' > LastSeq(r)
<1>. DEFINE log == runs[r].events
<1>1. log \in Seq(Event) /\ LastSeq(r) \in Nat
  <2>1. Exists(r) /\ runs[r] \in Run
    BY DEF Grows, Running, Exists, TypeOK
  <2>. QED
    BY <2>1, RowType, LastSeqType
<1>2. runs'[r].events = log \o b
  BY DEF Grows
<1>3. CASE b = <<>>
  <2>1. log \o b = log
    BY <1>1, <1>3
  <2>2. LastSeq(r)' = LastSeq(r)
    BY <1>2, <2>1 DEF LastSeq
  <2>. QED
    BY <1>1, <1>3, <2>2
<1>4. CASE b # <<>>
  <2>. HIDE DEF log
  <2>1. Len(b) \in DOMAIN b /\ b[Len(b)].seq \in Nat
    <3>1. Len(b) \in DOMAIN b /\ b[Len(b)] \in Event
      BY <1>4, LastOfSeq
    <3>. QED
      BY <3>1 DEF Event
  <2>2. /\ (log \o b)[Len(log \o b)] = b[Len(b)] /\ log \o b # <<>>
    <3>1. Len(log \o b) = Len(log) + Len(b) /\ (log \o b)[Len(log) + Len(b)] = b[Len(b)]
      BY <1>1, <2>1, ConcatParts
    <3>2. Len(log \o b) > 0
      BY <1>1, <2>1, ConcatParts
    <3>. QED
      BY <3>1, <3>2
  <2>3. LastSeq(r)' = b[Len(b)].seq
    BY <1>2, <2>2 DEF LastSeq
  <2>4. b[Len(b)].seq > LastSeq(r)
    BY <1>1, <2>1, BatchAbove DEF Grows, Increasing
  <2>. QED
    BY <1>1, <2>1, <2>3, <2>4
<1>. QED
  BY <1>3, <1>4

\* The log of one run, as LogsWellFormed has it.
WellFormed(r) ==
  LET log == runs[r].events IN
    /\ \A i \in DOMAIN log :
         log[i].seq > (IF i = 1 THEN 0 ELSE log[i - 1].seq)
    /\ \A i \in DOMAIN log : log[i].terminal <=> Terminal(r) /\ i = Len(log)
    /\ Terminal(r) => log # <<>>

LEMMA GrowsWell ==
  ASSUME TypeOK, NEW r \in Runs, NEW b \in Seq(Event), NEW st \in RunStatus,
         Grows(r, b, st), WellFormed(r)
  PROVE  WellFormed(r)'
<1>. DEFINE log == runs[r].events
            n == Len(log)
<1>1. log \in Seq(Event) /\ Exists(r) /\ ~Terminal(r)
  <2>1. Exists(r) /\ runs[r] \in Run /\ ~Terminal(r)
    BY DEF Grows, Running, Exists, Terminal, TypeOK
  <2>. QED
    BY <2>1, RowType
<1>2. runs'[r].events = log \o b /\ (Terminal(r)' <=> st # "running")
  BY DEF Grows, Terminal
<1>3. LastSeq(r) = IF n = 0 THEN 0 ELSE log[n].seq
  BY <1>1 DEF LastSeq
<1>4. /\ \A i \in DOMAIN log : log[i].seq > (IF i = 1 THEN 0 ELSE log[i - 1].seq)
      /\ \A i \in DOMAIN log : ~log[i].terminal
  BY <1>1 DEF WellFormed
<1>5. /\ \A i \in DOMAIN b : b[i].seq > (IF i = 1 THEN LastSeq(r) ELSE b[i - 1].seq)
      /\ \A i \in DOMAIN b : b[i].terminal <=> st # "running" /\ i = Len(b)
      /\ st # "running" => b # <<>>
  BY DEF Grows, Increasing
<1>. HIDE DEF log
<1>6. /\ Len(log \o b) = n + Len(b) /\ n \in Nat /\ Len(b) \in Nat
      /\ DOMAIN (log \o b) = 1..(n + Len(b))
      /\ DOMAIN log = 1..n /\ DOMAIN b = 1..Len(b)
      /\ \A i \in 1..n : (log \o b)[i] = log[i]
      /\ \A i \in 1..Len(b) : (log \o b)[n + i] = b[i]
  BY <1>1, ConcatParts
<1>. HIDE DEF n
<1>7. \A i \in (n + 1)..(n + Len(b)) :
        i - n \in 1..Len(b) /\ (log \o b)[i] = b[i - n]
  <2>. TAKE i \in (n + 1)..(n + Len(b))
  <2>1. i - n \in 1..Len(b) /\ i = n + (i - n)
    BY <1>6
  <2>. QED
    BY <1>6, <2>1
<1>8. ASSUME NEW i \in 1..(n + Len(b))
      PROVE  (log \o b)[i].seq > (IF i = 1 THEN 0 ELSE (log \o b)[i - 1].seq)
  <2>1. CASE i <= n
    <3>1. i \in 1..n /\ (i # 1 => i - 1 \in 1..n)
      BY <1>6, <2>1
    <3>. QED
      BY <1>4, <1>6, <3>1
  <2>2. CASE i = n + 1
    <3>1. (log \o b)[i] = b[1] /\ 1 \in DOMAIN b
      BY <1>6, <2>2
    <3>2. b[1].seq > LastSeq(r)
      BY <1>5, <3>1
    <3>3. CASE n = 0
      BY <1>3, <2>2, <3>1, <3>2, <3>3
    <3>4. CASE n # 0
      <4>1. (log \o b)[i - 1] = log[n] /\ i # 1
        BY <1>6, <2>2, <3>4
      <4>. QED
        BY <1>3, <3>1, <3>2, <3>4, <4>1
    <3>. QED
      BY <3>3, <3>4
  <2>3. CASE i > n + 1
    <3>1. /\ i - n \in 1..Len(b) /\ i - n # 1 /\ i # 1
          /\ (log \o b)[i] = b[i - n] /\ (log \o b)[i - 1] = b[(i - n) - 1]
      <4>1. i \in (n + 1)..(n + Len(b)) /\ i - 1 \in (n + 1)..(n + Len(b))
        BY <1>6, <2>3
      <4>2. (i - 1) - n = (i - n) - 1
        BY <1>6
      <4>. QED
        BY <1>6, <1>7, <2>3, <4>1, <4>2
    <3>. QED
      BY <1>5, <1>6, <3>1
  <2>. QED
    BY <1>6, <2>1, <2>2, <2>3
<1>9. ASSUME NEW i \in 1..(n + Len(b))
      PROVE  (log \o b)[i].terminal <=> st # "running" /\ i = n + Len(b)
  <2>1. CASE i <= n
    <3>1. i \in 1..n
      BY <1>6, <2>1
    <3>2. ~(log \o b)[i].terminal
      BY <1>4, <1>6, <3>1
    <3>3. st # "running" => Len(b) > 0
      BY <1>5, <1>6
    <3>. QED
      BY <1>6, <2>1, <3>2, <3>3
  <2>2. CASE i > n
    <3>1. i - n \in 1..Len(b) /\ (log \o b)[i] = b[i - n]
      BY <1>6, <1>7, <2>2
    <3>2. i - n = Len(b) <=> i = n + Len(b)
      BY <1>6
    <3>. QED
      BY <1>5, <1>6, <3>1, <3>2
  <2>. QED
    BY <1>6, <2>1, <2>2
<1>10. st # "running" => log \o b # <<>>
  BY <1>5, <1>6
<1>. QED
  BY <1>2, <1>6, <1>8, <1>9, <1>10 DEF WellFormed

LEMMA SameWell ==
  ASSUME NEW r \in Runs, Same(r), Exists(r), WellFormed(r)
  PROVE  WellFormed(r)'
BY DEF Same, WellFormed, Terminal

\* A start writes one new row and no checkpoint.
LEMMA StartRow ==
  ASSUME TypeOK, NEW s \in Starts, StartRun(s)
  PROVE  /\ s.run \in Runs /\ s.thread \in Threads /\ ~Exists(s.run) /\ Exists(s.run)'
         /\ runs'[s.run].status = "running" /\ runs'[s.run].thread = s.thread
         /\ runs'[s.run].events = <<>>
         /\ \A q \in Runs \ {s.run} : runs'[q] = runs[q]
         /\ checkpoints' = checkpoints
<1>. DEFINE row == [status |-> "running", scope |-> s.scope, thread |-> s.thread, key |-> s.key,
        lease |-> IF s.lease = None THEN None
                  ELSE [owner |-> s.lease.owner, id |-> s.lease.id, until |-> clock + Ttl],
        cancel_requested |-> FALSE, events |-> <<>>]
<1>1. s.run \in Runs /\ s.thread \in Threads /\ ~Exists(s.run) /\ checkpoints' = checkpoints
  BY DEF Starts, StartRun
<1>2. runs'[s.run] = row /\ \A q \in Runs \ {s.run} : runs'[q] = runs[q]
  BY <1>1 DEF StartRun, TypeOK
<1>3. runs'[s.run] # None
  <2>1. TypeOK'
    BY StartType
  <2>2. row.status = "running"
    OBVIOUS
  <2>3. s.scope \in Scopes /\ s.key \in Keys \cup {None} /\ s.lease \in Claims \cup {None}
    BY DEF Starts
  <2>4. clock + Ttl \in Nat
    BY BoundAssumption DEF TypeOK
  <2>5. s.lease # None =>
          [owner |-> s.lease.owner, id |-> s.lease.id, until |-> clock + Ttl] \in Lease
    BY <2>3, <2>4 DEF Claims, Lease
  <2>6. row \in Run
    BY <1>1, <2>3, <2>5 DEF Run, RunStatus
  <2>. HIDE DEF row
  <2>. QED
    BY <1>2, <2>6, NoneAssumption
<1>. QED
  BY <1>1, <1>2, <1>3 DEF Exists

LEMMA NextWell == TypeOK /\ LogsWellFormed /\ [Next]_vars => LogsWellFormed'
<1>. SUFFICES ASSUME TypeOK, LogsWellFormed, [Next]_vars, NEW r \in Runs, Exists(r)'
              PROVE  WellFormed(r)'
  BY DEF LogsWellFormed, WellFormed
<1>1. Exists(r) => WellFormed(r)
  BY DEF LogsWellFormed, WellFormed
<1>2. ASSUME runs'[r] = runs[r] PROVE WellFormed(r)'
  <2>1. Same(r) /\ Exists(r)
    BY <1>2 DEF Same, Exists
  <2>. QED
    BY <1>1, <2>1, SameWell
<1>3. CASE Quiet
  <2>1. Same(r) /\ Exists(r)
    BY <1>3 DEF Quiet, Same
  <2>. QED
    BY <1>1, <2>1, SameWell
<1>4. ASSUME NEW s \in Starts, StartRun(s) PROVE WellFormed(r)'
  <2>1. CASE r = s.run
    <3>1. runs'[r].events = <<>> /\ runs'[r].status = "running"
      BY <1>4, <2>1, StartRow
    <3>. QED
      BY <3>1 DEF WellFormed, Terminal
  <2>2. CASE r # s.run
    BY <1>2, <1>4, <2>2, StartRow
  <2>. QED
    BY <2>1, <2>2
<1>5. ASSUME NEW q \in Runs, NEW b \in Seq(Event), NEW st \in RunStatus, Writes(q, b, st)
      PROVE  WellFormed(r)'
  <2>1. CASE r = q
    <3>1. Grows(r, b, st) /\ Exists(r)
      BY <1>5, <2>1 DEF Writes, Grows, Running
    <3>. QED
      BY <1>1, <3>1, GrowsWell
  <2>2. CASE r # q
    BY <1>2, <1>5, <2>2 DEF Writes
  <2>. QED
    BY <2>1, <2>2
<1>6. ASSUME NEW S \in SUBSET Runs, Reaps(S) PROVE WellFormed(r)'
  <2>1. CASE r \in S
    <3>1. Grows(r, <<Expired(r)>>, "error") /\ Exists(r)
      BY <1>6, <2>1 DEF Reaps, Grows, Running
    <3>2. <<Expired(r)>> \in Seq(Event) /\ "error" \in RunStatus
      <4>1. LastSeq(r) \in Nat
        BY <3>1, LastSeqType
      <4>2. Expired(r) \in Event
        BY <4>1 DEF Expired, Event
      <4>. QED
        BY <4>2 DEF RunStatus
    <3>. QED
      BY <1>1, <3>1, <3>2, GrowsWell
  <2>2. CASE r \notin S
    BY <1>2, <1>6, <2>2 DEF Reaps
  <2>. QED
    BY <2>1, <2>2
<1>. QED
  BY <1>3, <1>4, <1>5, <1>6, StepKinds

-----------------------------------------------------------------------------
(* Checkpoints.                                                            *)

\* What CheckpointsBacked says of one checkpoint.
Backed(c, t) ==
  /\ Exists(c.run)
  /\ runs[c.run].thread = t
  /\ c.seq # 0 => \E i \in DOMAIN runs[c.run].events : runs[c.run].events[i].seq = c.seq

\* A checkpoint stays backed while its run keeps its row or its log grows.
LEMMA BackedKept ==
  ASSUME TypeOK, NEW c \in Checkpoint, NEW t \in Threads, Backed(c, t),
         \/ Same(c.run)
         \/ \E b \in Seq(Event), st \in RunStatus : Grows(c.run, b, st)
  PROVE  Backed(c, t)'
<1>1. c.run \in Runs /\ Exists(c.run) /\ runs[c.run] \in Run
  BY DEF Checkpoint, Backed, Exists, TypeOK
<1>2. CASE Same(c.run)
  BY <1>1, <1>2 DEF Same, Backed
<1>3. ASSUME NEW b \in Seq(Event), NEW st \in RunStatus, Grows(c.run, b, st)
      PROVE  Backed(c, t)'
  <2>. DEFINE log == runs[c.run].events
  <2>1. log \in Seq(Event)
    BY <1>1, RowType
  <2>2. runs'[c.run].events = log \o b /\ runs'[c.run].thread = t /\ Exists(c.run)'
    BY <1>3 DEF Grows, Backed
  <2>3. c.seq # 0 => \E i \in DOMAIN log : log[i].seq = c.seq
    BY DEF Backed
  <2>. HIDE DEF log
  <2>4. \A i \in DOMAIN log : i \in DOMAIN (log \o b) /\ (log \o b)[i] = log[i]
    BY <2>1, ConcatParts
  <2>5. c.seq # 0 => \E i \in DOMAIN (log \o b) : (log \o b)[i].seq = c.seq
    BY <2>3, <2>4
  <2>. QED
    BY <2>2, <2>5 DEF Backed
<1>. QED
  BY <1>2, <1>3

\* The checkpoint a commit saves is backed by the commit's own last event.
LEMMA NewBacked ==
  ASSUME TypeOK, NEW r \in Runs, NEW b \in Seq(Event), NEW st \in RunStatus, Grows(r, b, st)
  PROVE  Backed([run |-> r, seq |-> LastSeq(r)], runs[r].thread)'
<1>. DEFINE log == runs[r].events \o b
<1>1. log \in Seq(Event)
  <2>1. runs[r] \in Run
    BY DEF Grows, Running, Exists, TypeOK
  <2>2. runs[r].events \in Seq(Event)
    BY <2>1, RowType
  <2>. QED
    BY <2>2, ConcatParts
<1>2. runs'[r].events = log /\ runs'[r].thread = runs[r].thread /\ Exists(r)'
  BY DEF Grows
<1>. HIDE DEF log
<1>3. LastSeq(r)' = IF log = <<>> THEN 0 ELSE log[Len(log)].seq
  BY <1>2 DEF LastSeq
<1>4. LastSeq(r)' # 0 => \E i \in DOMAIN log : log[i].seq = LastSeq(r)'
  <2>1. log # <<>> => Len(log) \in DOMAIN log
    BY <1>1, LastOfSeq
  <2>. QED
    BY <1>3, <2>1
<1>. QED
  BY <1>2, <1>4 DEF Backed

LEMMA NextBacked == TypeOK /\ CheckpointsBacked /\ [Next]_vars => CheckpointsBacked'
<1>. SUFFICES ASSUME TypeOK, CheckpointsBacked, [Next]_vars,
                     NEW t \in Threads, checkpoints'[t] # None
              PROVE  Backed(checkpoints[t], t)'
  BY DEF CheckpointsBacked, Backed
<1>1. ASSUME checkpoints'[t] = checkpoints[t],
             LET c == checkpoints[t] IN
               \/ Same(c.run)
               \/ \E b \in Seq(Event), st \in RunStatus : Grows(c.run, b, st)
      PROVE  Backed(checkpoints[t], t)'
  <2>1. checkpoints[t] \in Checkpoint
    BY <1>1 DEF TypeOK
  <2>2. PICK c \in Checkpoint : c = checkpoints[t]
    BY <2>1
  <2>3. Backed(c, t)
    BY <1>1, <2>2 DEF CheckpointsBacked, Backed
  <2>4. Backed(c, t)'
    BY <1>1, <2>2, <2>3, BackedKept
  <2>. QED
    BY <1>1, <2>2, <2>4 DEF Backed
<1>2. ASSUME checkpoints'[t] = checkpoints[t]
      PROVE  checkpoints[t].run \in Runs /\ Exists(checkpoints[t].run)
  BY <1>2 DEF CheckpointsBacked, TypeOK, Checkpoint
<1>3. CASE Quiet
  BY <1>1, <1>2, <1>3 DEF Quiet
<1>4. ASSUME NEW s \in Starts, StartRun(s) PROVE Backed(checkpoints[t], t)'
  <2>1. checkpoints'[t] = checkpoints[t] /\ checkpoints[t].run # s.run
    BY <1>2, <1>4, StartRow
  <2>2. Same(checkpoints[t].run)
    BY <1>2, <1>4, <2>1, StartRow DEF Same, Exists
  <2>. QED
    BY <1>1, <2>1, <2>2
<1>5. ASSUME NEW r \in Runs, NEW b \in Seq(Event), NEW st \in RunStatus, Writes(r, b, st)
      PROVE  Backed(checkpoints[t], t)'
  <2>1. CASE checkpoints'[t] = checkpoints[t]
    <3>1. CASE checkpoints[t].run = r
      BY <1>1, <1>5, <2>1, <3>1 DEF Writes
    <3>2. CASE checkpoints[t].run # r
      <4>1. Same(checkpoints[t].run)
        BY <1>2, <1>5, <2>1, <3>2 DEF Writes, Same, Exists
      <4>. QED
        BY <1>1, <2>1, <4>1
    <3>. QED
      BY <3>1, <3>2
  <2>2. CASE checkpoints'[t] # checkpoints[t]
    <3>1. t = runs[r].thread /\ checkpoints'[t] = [run |-> r, seq |-> LastSeq(r)']
      BY <1>5, <2>2 DEF Writes, TypeOK
    <3>2. Backed([run |-> r, seq |-> LastSeq(r)], runs[r].thread)'
      BY <1>5, NewBacked DEF Writes
    <3>3. runs'[r].thread = runs[r].thread
      BY <1>5 DEF Writes, Grows
    <3>. QED
      BY <3>1, <3>2, <3>3 DEF Backed
  <2>. QED
    BY <2>1, <2>2
<1>6. ASSUME NEW S \in SUBSET Runs, Reaps(S) PROVE Backed(checkpoints[t], t)'
  <2>. DEFINE r == checkpoints[t].run
  <2>1. checkpoints'[t] = checkpoints[t] /\ r \in Runs /\ Exists(r)
    BY <1>2, <1>6 DEF Reaps
  <2>2. CASE r \in S
    <3>1. Grows(r, <<Expired(r)>>, "error")
      BY <1>6, <2>2 DEF Reaps
    <3>2. LastSeq(r) \in Nat
      BY <2>1, LastSeqType
    <3>3. Expired(r) \in Event
      BY <3>2 DEF Expired, Event
    <3>4. <<Expired(r)>> \in Seq(Event) /\ "error" \in RunStatus
      BY <3>3 DEF RunStatus
    <3>. QED
      BY <1>1, <2>1, <3>1, <3>4
  <2>3. CASE r \notin S
    <3>1. Same(r)
      BY <1>6, <2>1, <2>3 DEF Reaps, Same, Exists
    <3>. QED
      BY <1>1, <2>1, <3>1
  <2>. QED
    BY <2>2, <2>3
<1>. QED
  BY <1>3, <1>4, <1>5, <1>6, StepKinds

\* Event logs are strictly increasing and end in their only terminal event, and
\* a checkpoint is never without the event it was saved with, in every reachable
\* state: commit_run, finish_run, record_event and reap_stale append to one log.
THEOREM LogsAndCheckpoints == Spec => []LogInv
<1>1. Init => LogsWellFormed /\ CheckpointsBacked
  BY DEF Init, LogsWellFormed, CheckpointsBacked, Exists
<1>2. LogsWellFormed /\ CheckpointsBacked => LogInv
  BY DEF LogInv
<1>. QED
  BY <1>1, <1>2, NextWell, NextBacked, TypeCorrect, PTL DEF Spec

-----------------------------------------------------------------------------
(* The fence: every step of the store is a step of ThreadFence.            *)

\* What ThreadFence sees of a row.
LEMMA TenureType ==
  ASSUME TypeOK, NEW r \in Runs
  PROVE  /\ Exists(r) => /\ TenureOf(r) = [thread |-> runs[r].thread, seq |-> LastSeq(r),
                                           open |-> runs[r].status = "running"]
                         /\ TenureOf(r) # None
         /\ ~Exists(r) => TenureOf(r) = None
         /\ TenureOf(r) # None /\ TenureOf(r).open <=> Running(r)
<1>1. CASE Exists(r)
  <2>. DEFINE ten == [thread |-> runs[r].thread, seq |-> LastSeq(r),
                      open |-> runs[r].status = "running"]
  <2>1. runs[r] \in Run /\ TenureOf(r) = ten
    BY <1>1 DEF TypeOK, Exists, TenureOf
  <2>2. runs[r].thread \in Threads /\ LastSeq(r) \in Nat
    BY <1>1, <2>1, RowType, LastSeqType
  <2>3. ten \in Tenure
    BY <2>2 DEF Tenure
  <2>4. ten # None /\ (ten.open <=> Running(r))
    <3>1. ten.open <=> Running(r)
      BY <1>1 DEF Running
    <3>. HIDE DEF ten
    <3>. QED
      BY <2>3, <3>1, TenureAssumption
  <2>5. TenureOf(r) # None /\ (TenureOf(r).open <=> Running(r))
    <3>. HIDE DEF ten
    <3>. QED
      BY <2>1, <2>4
  <2>. QED
    BY <1>1, <2>1, <2>5
<1>2. CASE ~Exists(r)
  BY <1>2 DEF TenureOf, Exists, Running
<1>. QED
  BY <1>1, <1>2

\* The value of a row after a step that leaves it, or leaves what the fence sees.
LEMMA TenureSame ==
  ASSUME NEW r \in Runs, Same(r) \/ runs'[r] = runs[r]
  PROVE  TenureOf(r)' = TenureOf(r)
BY DEF Same, TenureOf, Exists, LastSeq

LEMMA StartAdmits ==
  ASSUME TypeOK, TypeOK', NEW s \in Starts, StartRun(s)
  PROVE  Fence!Admit(s.run)
<1>1. /\ s.run \in Runs /\ s.thread \in Threads /\ ~Exists(s.run) /\ Exists(s.run)'
      /\ runs'[s.run].status = "running" /\ runs'[s.run].thread = s.thread
      /\ runs'[s.run].events = <<>>
      /\ \A q \in Runs \ {s.run} : runs'[q] = runs[q]
      /\ checkpoints' = checkpoints
  BY StartRow
<1>2. TenureOf(s.run) = None
  BY <1>1, TenureType
<1>3. TenureOf(s.run)' = [thread |-> s.thread, seq |-> 0, open |-> TRUE]
  BY <1>1 DEF TenureOf, Exists, LastSeq
<1>4. \A q \in Runs \ {s.run} : TenureOf(q)' = TenureOf(q)
  BY <1>1, TenureSame
<1>5. ASSUME NEW q \in Runs, TenureOf(q) # None, TenureOf(q).open
      PROVE  TenureOf(q).thread # s.thread
  <2>1. Running(q) /\ TenureOf(q).thread = runs[q].thread
    BY <1>5, TenureType DEF Running
  <2>2. q # s.run /\ RunningOthers(s.thread, s.run) = {}
    BY <1>2, <1>5 DEF StartRun
  <2>. QED
    BY <2>1, <2>2 DEF RunningOthers
<1>. QED
  BY <1>1, <1>2, <1>3, <1>4, <1>5 DEF Fence!Admit, Fence!Open

LEMMA WriteExtends ==
  ASSUME TypeOK, NEW r \in Runs, NEW b \in Seq(Event), NEW st \in RunStatus, Writes(r, b, st)
  PROVE  Fence!Extend(r)
<1>1. Grows(r, b, st) /\ Running(r) /\ Exists(r) /\ Exists(r)'
  BY DEF Writes, Grows, Running
<1>2. /\ TenureOf(r) = [thread |-> runs[r].thread, seq |-> LastSeq(r), open |-> TRUE]
      /\ TenureOf(r) # None
  BY <1>1, TenureType DEF Running
<1>3. TenureOf(r)' = [thread |-> runs[r].thread, seq |-> LastSeq(r)', open |-> st = "running"]
  BY <1>1 DEF TenureOf, Exists, Grows
<1>4. /\ LastSeq(r) \in Nat /\ LastSeq(r)' \in Nat /\ LastSeq(r)' >= LastSeq(r)
      /\ st = "running" \/ LastSeq(r)' > LastSeq(r)
  BY <1>1, GrowsLast DEF Grows
<1>5. \A q \in Runs \ {r} : TenureOf(q)' = TenureOf(q)
  BY TenureSame DEF Writes
<1>6. checkpoints' \in {checkpoints, [checkpoints EXCEPT ![runs[r].thread] =
                                        [run |-> r, seq |-> LastSeq(r)']]}
  BY DEF Writes
<1>. DEFINE ten == [q \in Runs |-> TenureOf(q)]
<1>7. /\ ten[r] = [thread |-> runs[r].thread, seq |-> LastSeq(r), open |-> TRUE]
      /\ ten[r] # None
  BY <1>2
<1>8. ten'[r] = [thread |-> runs[r].thread, seq |-> LastSeq(r)', open |-> st = "running"]
  BY <1>3
<1>9. ten' = [ten EXCEPT ![r] = ten'[r]]
  BY <1>5
<1>. HIDE DEF ten
<1>10. /\ ten[r].open /\ ten[r].thread = runs[r].thread /\ ten[r].seq = LastSeq(r)
       /\ ten'[r].thread = runs[r].thread /\ ten'[r].seq = LastSeq(r)'
       /\ ten'[r].open <=> st = "running"
       /\ ten'[r] = [thread |-> ten[r].thread, seq |-> ten'[r].seq, open |-> ten'[r].open]
  <2>1. ten[r].open /\ ten[r].thread = runs[r].thread /\ ten[r].seq = LastSeq(r)
    BY <1>7
  <2>2. /\ ten'[r].thread = runs[r].thread /\ ten'[r].seq = LastSeq(r)'
        /\ ten'[r].open = (st = "running")
    BY <1>8
  <2>. QED
    BY <1>8, <2>1, <2>2
<1>11. ten' = [ten EXCEPT ![r] = [thread |-> ten[r].thread, seq |-> ten'[r].seq,
                                  open |-> ten'[r].open]]
  BY <1>9, <1>10
<1>12. checkpoints' \in {checkpoints, [checkpoints EXCEPT ![ten[r].thread] =
                                         [run |-> r, seq |-> ten'[r].seq]]}
  BY <1>6, <1>10
<1>13. /\ ten'[r].thread = ten[r].thread /\ ten'[r].seq >= ten[r].seq
       /\ ten'[r].open \/ ten'[r].seq > ten[r].seq
  BY <1>4, <1>10
<1>. QED
  BY <1>7, <1>10, <1>11, <1>12, <1>13 DEF ten, Fence!Extend, Fence!Open

LEMMA ReapExpires ==
  ASSUME TypeOK, NEW S \in SUBSET Runs, Reaps(S)
  PROVE  Fence!Expire(S)
<1>1. ASSUME NEW r \in S
      PROVE  /\ TenureOf(r) # None /\ TenureOf(r).open
             /\ TenureOf(r)' = [thread |-> TenureOf(r).thread, seq |-> TenureOf(r).seq + 1,
                                open |-> FALSE]
  <2>1. Grows(r, <<Expired(r)>>, "error") /\ Running(r) /\ Exists(r) /\ Exists(r)'
    BY DEF Reaps, Grows, Running
  <2>2. LastSeq(r) \in Nat /\ runs[r].events \in Seq(Event)
    <3>1. runs[r] \in Run
      BY <2>1 DEF TypeOK, Exists
    <3>. QED
      BY <2>1, <3>1, LastSeqType, RowType
  <2>3. Expired(r) \in Event /\ Expired(r).seq = LastSeq(r) + 1
    BY <2>2 DEF Expired, Event
  <2>4. runs'[r].events = Append(runs[r].events, Expired(r))
    BY <2>1, <2>2, <2>3, OneEvent DEF Grows
  <2>5. LastSeq(r)' = LastSeq(r) + 1
    BY <2>2, <2>3, <2>4, LastOfAppend DEF LastSeq
  <2>6. TenureOf(r)' = [thread |-> runs[r].thread, seq |-> LastSeq(r)', open |-> FALSE]
    BY <2>1 DEF TenureOf, Exists, Grows
  <2>7. /\ TenureOf(r) = [thread |-> runs[r].thread, seq |-> LastSeq(r), open |-> TRUE]
        /\ TenureOf(r) # None
    BY <2>1, TenureType DEF Running
  <2>. QED
    BY <2>5, <2>6, <2>7
<1>2. \A r \in Runs \ S : TenureOf(r)' = TenureOf(r)
  BY TenureSame DEF Reaps
<1>3. checkpoints' = checkpoints
  BY DEF Reaps
<1>. QED
  BY <1>1, <1>2, <1>3 DEF Fence!Expire, Fence!Open

\* Starts, commits, finishes, records and reapings are the steps of ThreadFence,
\* and everything else the store does is invisible to it.
LEMMA StepFence == TypeOK /\ TypeOK' /\ [Next]_vars => [Fence!Next]_(Fence!vars)
<1>. SUFFICES ASSUME TypeOK, TypeOK', [Next]_vars PROVE [Fence!Next]_(Fence!vars)
  OBVIOUS
<1>1. CASE Quiet
  <2>1. \A r \in Runs : TenureOf(r)' = TenureOf(r)
    BY <1>1, TenureSame DEF Quiet
  <2>. QED
    BY <1>1, <2>1 DEF Quiet, Fence!vars
<1>2. ASSUME NEW s \in Starts, StartRun(s) PROVE Fence!Next
  <2>1. s.run \in Runs
    BY DEF Starts
  <2>. QED
    BY <1>2, <2>1, StartAdmits DEF Fence!Next
<1>3. ASSUME NEW r \in Runs, NEW b \in Seq(Event), NEW st \in RunStatus, Writes(r, b, st)
      PROVE  Fence!Next
  BY <1>3, WriteExtends DEF Fence!Next
<1>4. ASSUME NEW S \in SUBSET Runs, Reaps(S) PROVE Fence!Next
  BY <1>4, ReapExpires DEF Fence!Next
<1>. QED
  BY <1>1, <1>2, <1>3, <1>4, StepKinds

\* The in-memory store implements the fence of a thread for any sets of runs,
\* threads, owners and keys: whatever leases do, one open run at a time writes a
\* thread, and its checkpoint moves with its log (MemoryRunStore, README "two
\* workers cannot advance different runs against the same checkpoint thread").
THEOREM StoreImplementsFence == Spec => ImplementsFence
<1>1. Init => Fence!Init
  BY DEF Init, Fence!Init, TenureOf
<1>. QED
  BY <1>1, StepFence, TypeCorrect, PTL DEF Spec, ImplementsFence, Fence!Spec

-----------------------------------------------------------------------------
(* A live lease.                                                           *)

\* Rows are never removed, and a run stays on its thread.
LEMMA RowsStay ==
  ASSUME TypeOK, [Next]_vars, NEW r \in Runs, Exists(r)
  PROVE  Exists(r)' /\ runs'[r].thread = runs[r].thread
<1>1. runs'[r] = runs[r] => Exists(r)' /\ runs'[r].thread = runs[r].thread
  BY DEF Exists
<1>2. CASE Quiet
  BY <1>2 DEF Quiet, Same
<1>3. ASSUME NEW s \in Starts, StartRun(s) PROVE runs'[r] = runs[r]
  BY <1>3, StartRow
<1>4. ASSUME NEW q \in Runs, NEW b \in Seq(Event), NEW st \in RunStatus, Writes(q, b, st)
      PROVE  Exists(r)' /\ runs'[r].thread = runs[r].thread
  BY <1>1, <1>4 DEF Writes, Grows
<1>5. ASSUME NEW S \in SUBSET Runs, Reaps(S)
      PROVE  Exists(r)' /\ runs'[r].thread = runs[r].thread
  BY <1>1, <1>5 DEF Reaps, Grows
<1>. QED
  BY <1>1, <1>2, <1>3, <1>4, <1>5, StepKinds

\* A thread lease that is live is renewed, removed or left as it is.
LEMMA LiveThread ==
  ASSUME TypeOK, [Next]_vars, NEW t \in Threads, threadLease[t] # None, ~Lapsed(threadLease[t])
  PROVE  threadLease'[t] \in {None, threadLease[t],
                              [threadLease[t] EXCEPT !.until = clock + Ttl]}
<1>1. ASSUME NEW s \in Starts, StartRun(s) PROVE threadLease'[t] = threadLease[t]
  <2>1. CASE s.lease = None
    BY <1>1, <2>1 DEF StartRun
  <2>2. CASE s.lease # None
    <3>1. s.thread # t
      BY <1>1, <2>2 DEF StartRun
    <3>. QED
      BY <1>1, <2>2, <3>1 DEF StartRun, TypeOK
  <2>. QED
    BY <2>1, <2>2
<1>2. ASSUME NEW c \in Commits, CommitRun(c) PROVE threadLease'[t] \in {None, threadLease[t]}
  BY <1>2 DEF CommitRun, TypeOK
<1>3. ASSUME NEW h \in Holds, Renew(h)
      PROVE  threadLease'[t] \in {threadLease[t], [threadLease[t] EXCEPT !.until = clock + Ttl]}
  BY <1>3 DEF Renew, TypeOK
<1>4. ASSUME NEW h \in Holds, Release(h) PROVE threadLease'[t] \in {None, threadLease[t]}
  BY <1>4 DEF Release, TypeOK
<1>5. ASSUME NEW S \in SUBSET Runs, ReapStale(S)
      PROVE  threadLease'[t] \in {None, threadLease[t]}
  BY <1>5 DEF ReapStale
<1>6. ASSUME NEW r \in Runs, NEW sc \in Scopes, NEW e \in OfferedEvents, NEW o \in Outcomes,
             NEW ws \in UpTo(MaxWrites, Write(EntryKeys)), FinishRun(r, sc, e, o, ws)
      PROVE  threadLease' = threadLease
  BY <1>6 DEF FinishRun
<1>7. ASSUME NEW r \in Runs, NEW sc \in Scopes,
             \/ \E e \in OfferedEvents : RecordEvent(r, sc, e)
             \/ MarkCancelled(r, sc)
      PROVE  threadLease' = threadLease
  BY <1>7 DEF RecordEvent, MarkCancelled
<1>8. ASSUME NEW r \in Runs, NEW sc \in Scopes, NEW id \in LeaseIds \cup {None},
             NEW k \in EffectKeys,
             \/ \E p \in Requests : ReserveEffect(r, sc, id, k, p)
             \/ StartEffect(r, sc, id, k)
      PROVE  threadLease' = threadLease
  BY <1>8 DEF ReserveEffect, StartEffect, leaseVars
<1>9. Tick \/ UNCHANGED vars => threadLease' = threadLease
  BY DEF Tick, vars, leaseVars
<1>. QED
  BY <1>1, <1>2, <1>3, <1>4, <1>5, <1>6, <1>7, <1>8, <1>9 DEF Next

LEMMA LiveStep ==
  ASSUME LeaseInv, [Next]_vars, NEW t \in Threads,
         threadLease[t] # None, ~Lapsed(threadLease[t])
  PROVE  \/ threadLease'[t] # None /\ threadLease'[t].run = threadLease[t].run
                                   /\ threadLease'[t].id = threadLease[t].id
         \/ threadLease'[t] = None /\ runs'[threadLease[t].run].lease = None
<1>1. threadLease[t] \in ThreadLease /\ clock + Ttl \in Nat /\ TypeOK
  BY BoundAssumption DEF LeaseInv, TypeOK
<1>2. PICK r \in Runs : Exists(r) /\ Leased(r) /\ runs[r].thread = t
  BY DEF LeaseInv, LeasesAgree
<1>3. threadLease[t].run = r
  <2>1. threadLease[t] = ThreadCopy(r)
    BY <1>2 DEF LeaseInv, LeasesAgree
  <2>. QED
    BY <2>1 DEF ThreadCopy
<1>4. CASE threadLease'[t] = None
  <2>1. Exists(r)' /\ runs'[r].thread = t /\ LeaseInv'
    BY <1>1, <1>2, RowsStay, NextLease
  <2>2. ASSUME runs'[r].lease # None PROVE FALSE
    <3>1. threadLease'[t] = ThreadCopy(r)'
      BY <2>1, <2>2 DEF LeaseInv, LeasesAgree, Leased
    <3>2. runs'[r].lease \in Lease
      <4>1. runs'[r] \in Run
        BY <2>1 DEF LeaseInv, TypeOK, Exists
      <4>. QED
        BY <2>2, <4>1, RowType
    <3>3. ThreadCopy(r)' \in ThreadLease
      BY <3>2 DEF ThreadCopy, ThreadLease, Lease
    <3>. QED
      BY <1>4, <3>1, <3>3, NoneAssumption
  <2>. QED
    BY <1>3, <1>4, <2>2
<1>5. CASE threadLease'[t] # None
  <2>1. threadLease'[t] \in {threadLease[t], [threadLease[t] EXCEPT !.until = clock + Ttl]}
    BY <1>1, <1>5, LiveThread
  <2>. QED
    BY <1>1, <1>5, <2>1 DEF ThreadLease
<1>. QED
  BY <1>4, <1>5

\* A live lease is never taken over: starts, renewals by others, releases and the
\* reaper leave it with its run, or that run gives it up.
THEOREM LiveLeasesKept == Spec => LiveLeaseKept
<1>1. LeaseInv /\ [Next]_vars =>
        [\A t \in Threads : threadLease[t] # None /\ ~Lapsed(threadLease[t]) =>
           \/ threadLease'[t] # None /\ threadLease'[t].run = threadLease[t].run
                                     /\ threadLease'[t].id = threadLease[t].id
           \/ threadLease'[t] = None /\ runs'[threadLease[t].run].lease = None]_vars
  BY LiveStep
<1>. QED
  BY <1>1, LeaseInvariant, PTL DEF Spec, LiveLeaseKept

-----------------------------------------------------------------------------
(* What has been written stays written.                                    *)

\* An update names a stored effect, keeps a done one and leaves no other started.
LEMMA UpdateSettles ==
  ASSUME TypeOK, NEW r \in Runs, NEW us \in UpTo(MaxWrites, EffectUpdate),
         ValidEffects(r, us), ApplyEffects(r, us),
         NEW q \in Runs, NEW k \in EffectKeys, effects[q][k] # None
  PROVE  /\ effects'[q][k] # None
         /\ effects'[q][k].request = effects[q][k].request
         /\ effects[q][k].status = "done" => effects'[q][k] = effects[q][k]
         /\ effects[q][k].status = "unknown" => effects'[q][k].status # "started"
<1>1. effects[q][k] \in Effect
  BY DEF TypeOK
<1>2. CASE q # r \/ WritesOf(us, k) = {} \/ effects[q][k].status = "done"
  <2>1. effects'[q][k] = effects[q][k]
    BY <1>2 DEF ApplyEffects, TypeOK
  <2>. QED
    BY <1>1, <2>1
<1>3. CASE q = r /\ WritesOf(us, k) # {} /\ effects[q][k].status # "done"
  <2>. DEFINE u == us[CHOOSE i \in WritesOf(us, k) : TRUE]
              e == [effects[r][k] EXCEPT !.status = u.status, !.result = u.result]
  <2>1. u \in EffectUpdate
    <3>1. us \in Seq(EffectUpdate)
      BY BatchIsSeq, BoundAssumption
    <3>. QED
      BY <1>3, <3>1 DEF WritesOf
  <2>2. u.status \in {"done", "failed", "unknown"} /\ u.result \in Payloads \cup {None}
    BY <2>1 DEF EffectUpdate
  <2>3. effects'[q][k] = e
    BY <1>3 DEF ApplyEffects, TypeOK
  <2>. HIDE DEF u
  <2>4. e \in Effect /\ e.request = effects[r][k].request /\ e.status # "started"
    BY <1>1, <1>3, <2>2 DEF Effect, EffectStatus
  <2>. QED
    BY <1>3, <2>3, <2>4, NoneAssumption
<1>. QED
  BY <1>2, <1>3

LEMMA EffectStep ==
  ASSUME TypeOK, [Next]_vars, NEW q \in Runs, NEW k \in EffectKeys, effects[q][k] # None
  PROVE  /\ effects'[q][k] # None
         /\ effects'[q][k].request = effects[q][k].request
         /\ effects[q][k].status = "done" => effects'[q][k] = effects[q][k]
         /\ effects[q][k].status = "unknown" => effects'[q][k].status # "started"
<1>. DEFINE Settled == /\ effects'[q][k] # None
                       /\ effects'[q][k].request = effects[q][k].request
                       /\ effects[q][k].status = "done" => effects'[q][k] = effects[q][k]
                       /\ effects[q][k].status = "unknown" => effects'[q][k].status # "started"
<1>1. effects[q][k] \in Effect
  BY DEF TypeOK
<1>2. ASSUME effects'[q][k] = effects[q][k] PROVE Settled
  BY <1>2
<1>3. ASSUME NEW s \in Starts, StartRun(s) PROVE effects' = effects
  BY <1>3 DEF StartRun
<1>4. ASSUME NEW c \in Commits, CommitRun(c) PROVE Settled
  BY <1>4, UpdateSettles DEF CommitRun, Commits, CommitRequest
<1>5. ASSUME NEW r \in Runs, NEW sc \in Scopes, NEW e \in OfferedEvents,
             \/ \E o \in Outcomes, ws \in UpTo(MaxWrites, Write(EntryKeys)) :
                  FinishRun(r, sc, e, o, ws)
             \/ RecordEvent(r, sc, e)
      PROVE  effects' = effects
  BY <1>5 DEF FinishRun, RecordEvent, opVars
<1>6. ASSUME NEW r \in Runs, NEW sc \in Scopes, MarkCancelled(r, sc) PROVE effects' = effects
  BY <1>6 DEF MarkCancelled, opVars
<1>7. ASSUME NEW h \in Holds, Renew(h) \/ Release(h) PROVE effects' = effects
  BY <1>7 DEF Renew, Release, opVars
<1>8. ASSUME NEW S \in SUBSET Runs, ReapStale(S) PROVE effects' = effects
  BY <1>8 DEF ReapStale, opVars
<1>9. ASSUME NEW r \in Runs, NEW sc \in Scopes, NEW id \in LeaseIds \cup {None},
             NEW j \in EffectKeys, NEW p \in Requests, ReserveEffect(r, sc, id, j, p)
      PROVE  effects'[q][k] = effects[q][k]
  BY <1>9 DEF ReserveEffect, TypeOK
<1>10. ASSUME NEW r \in Runs, NEW sc \in Scopes, NEW id \in LeaseIds \cup {None},
              NEW j \in EffectKeys, StartEffect(r, sc, id, j)
       PROVE  Settled
  <2>1. CASE r = q /\ j = k
    <3>. DEFINE e == [effects[q][k] EXCEPT !.status = "started", !.result = None]
    <3>1. effects'[q][k] = e
      BY <1>10, <2>1 DEF StartEffect, TypeOK
    <3>2. e \in Effect /\ e.request = effects[q][k].request
      BY <1>1 DEF Effect, EffectStatus
    <3>3. effects[q][k].status # "done" /\ effects[q][k].status # "unknown"
      BY <1>10, <2>1 DEF StartEffect, IsBlocking
    <3>. QED
      BY <3>1, <3>2, <3>3, NoneAssumption
  <2>2. CASE ~(r = q /\ j = k)
    BY <1>2, <1>10, <2>2 DEF StartEffect, TypeOK
  <2>. QED
    BY <2>1, <2>2
<1>11. Tick \/ UNCHANGED vars => effects' = effects
  BY DEF Tick, vars, opVars
<1>. HIDE DEF Settled
<1>12. Settled
  BY <1>2, <1>3, <1>4, <1>5, <1>6, <1>7, <1>8, <1>9, <1>10, <1>11 DEF Next
<1>. QED
  BY <1>12 DEF Settled

\* A done effect keeps its result and an unknown one is not started again: only
\* start_effect writes "started", a commit settles, and both spare a done effect.
THEOREM EffectsStaySettled == Spec => EffectsSettle
<1>1. TypeOK /\ [Next]_vars =>
        [\A r \in Runs, k \in EffectKeys : effects[r][k] # None =>
           /\ effects'[r][k] # None
           /\ effects'[r][k].request = effects[r][k].request
           /\ effects[r][k].status = "done" => effects'[r][k] = effects[r][k]
           /\ effects[r][k].status = "unknown" => effects'[r][k].status # "started"]_vars
  BY EffectStep
<1>. QED
  BY <1>1, TypeCorrect, PTL DEF Spec, EffectsSettle

\* A batch of entries leaves every stored entry of every scope as it is.
LEMMA StoredEntries ==
  ASSUME TypeOK, NEW sc \in Scopes, NEW r \in Runs, NEW ws, ApplyEntries(sc, r, ws),
         NEW so \in Scopes, NEW k \in EntryKeys, entries[so][k] # None
  PROVE  entries'[so][k] = entries[so][k]
<1>1. so = sc => WritesOf(ws, k) \cap FreshEntries(sc, ws) = {}
  BY DEF WritesOf, FreshEntries
<1>. QED
  BY <1>1 DEF ApplyEntries, TypeOK

\* The entry table only changes by a batch of one scope.
LEMMA EntryStep ==
  ASSUME TypeOK, [Next]_vars
  PROVE  \/ UNCHANGED <<entries, entrySeq>>
         \/ \E sc \in Scopes, r \in Runs, ws \in UpTo(MaxWrites, Write(EntryKeys)) :
              ValidEntries(sc, ws) /\ ApplyEntries(sc, r, ws)
<1>1. ASSUME NEW s \in Starts, StartRun(s)
      PROVE  /\ s.scope \in Scopes /\ s.run \in Runs
             /\ s.entries \in UpTo(MaxWrites, Write(EntryKeys))
             /\ ValidEntries(s.scope, s.entries) /\ ApplyEntries(s.scope, s.run, s.entries)
  BY <1>1 DEF StartRun, Starts
<1>2. ASSUME NEW c \in Commits, CommitRun(c)
      PROVE  /\ c.scope \in Scopes /\ c.run \in Runs
             /\ c.entries \in UpTo(MaxWrites, Write(EntryKeys))
             /\ ValidEntries(c.scope, c.entries) /\ ApplyEntries(c.scope, c.run, c.entries)
  BY <1>2 DEF CommitRun, Commits, CommitRequest
<1>3. ASSUME NEW r \in Runs, NEW sc \in Scopes, NEW e \in OfferedEvents, NEW o \in Outcomes,
             NEW ws \in UpTo(MaxWrites, Write(EntryKeys)), FinishRun(r, sc, e, o, ws)
      PROVE  ValidEntries(sc, ws) /\ ApplyEntries(sc, r, ws)
  BY <1>3 DEF FinishRun
<1>4. ASSUME NEW r \in Runs, NEW sc \in Scopes,
             \/ \E e \in OfferedEvents : RecordEvent(r, sc, e)
             \/ MarkCancelled(r, sc)
      PROVE  UNCHANGED <<entries, entrySeq>>
  BY <1>4 DEF RecordEvent, MarkCancelled, opVars
<1>5. ASSUME NEW h \in Holds, Renew(h) \/ Release(h) PROVE UNCHANGED <<entries, entrySeq>>
  BY <1>5 DEF Renew, Release, opVars
<1>6. ASSUME NEW S \in SUBSET Runs, ReapStale(S) PROVE UNCHANGED <<entries, entrySeq>>
  BY <1>6 DEF ReapStale, opVars
<1>7. ASSUME NEW r \in Runs, NEW sc \in Scopes, NEW id \in LeaseIds \cup {None},
             NEW k \in EffectKeys,
             \/ \E p \in Requests : ReserveEffect(r, sc, id, k, p)
             \/ StartEffect(r, sc, id, k)
      PROVE  UNCHANGED <<entries, entrySeq>>
  BY <1>7 DEF ReserveEffect, StartEffect
<1>8. Tick \/ UNCHANGED vars => UNCHANGED <<entries, entrySeq>>
  BY DEF Tick, vars, opVars
<1>. QED
  BY <1>1, <1>2, <1>3, <1>4, <1>5, <1>6, <1>7, <1>8 DEF Next

\* Items only change by a commit, which spares every stored one.
LEMMA ItemStep ==
  ASSUME TypeOK, [Next]_vars, NEW q \in Runs, NEW k \in ItemKeys, items[q][k] # None
  PROVE  items'[q][k] = items[q][k]
<1>1. ASSUME NEW s \in Starts, StartRun(s) PROVE items' = items
  BY <1>1 DEF StartRun
<1>2. ASSUME NEW c \in Commits, CommitRun(c) PROVE items'[q][k] = items[q][k]
  BY <1>2 DEF CommitRun, ApplyItems, TypeOK
<1>3. ASSUME NEW r \in Runs, NEW sc \in Scopes, NEW e \in OfferedEvents,
             \/ \E o \in Outcomes, ws \in UpTo(MaxWrites, Write(EntryKeys)) :
                  FinishRun(r, sc, e, o, ws)
             \/ RecordEvent(r, sc, e)
      PROVE  items' = items
  BY <1>3 DEF FinishRun, RecordEvent, opVars
<1>4. ASSUME NEW r \in Runs, NEW sc \in Scopes, MarkCancelled(r, sc) PROVE items' = items
  BY <1>4 DEF MarkCancelled, opVars
<1>5. ASSUME NEW h \in Holds, Renew(h) \/ Release(h) PROVE items' = items
  BY <1>5 DEF Renew, Release, opVars
<1>6. ASSUME NEW S \in SUBSET Runs, ReapStale(S) PROVE items' = items
  BY <1>6 DEF ReapStale, opVars
<1>7. ASSUME NEW r \in Runs, NEW sc \in Scopes, NEW id \in LeaseIds \cup {None},
             NEW j \in EffectKeys,
             \/ \E p \in Requests : ReserveEffect(r, sc, id, j, p)
             \/ StartEffect(r, sc, id, j)
      PROVE  items' = items
  BY <1>7 DEF ReserveEffect, StartEffect
<1>8. Tick \/ UNCHANGED vars => items' = items
  BY DEF Tick, vars, opVars
<1>. QED
  BY <1>1, <1>2, <1>3, <1>4, <1>5, <1>6, <1>7, <1>8 DEF Next

\* No step rewrites, renumbers or removes a written item or entry.
THEOREM WritesStay == Spec => WritesPermanent
<1>1. ASSUME TypeOK, [Next]_vars
      PROVE  /\ \A r \in Runs, k \in ItemKeys : items[r][k] # None => items'[r][k] = items[r][k]
             /\ \A sc \in Scopes, k \in EntryKeys :
                  entries[sc][k] # None => entries'[sc][k] = entries[sc][k]
  BY <1>1, EntryStep, ItemStep, StoredEntries
<1>2. TypeOK /\ [Next]_vars =>
        [/\ \A r \in Runs, k \in ItemKeys : items[r][k] # None => items'[r][k] = items[r][k]
         /\ \A sc \in Scopes, k \in EntryKeys :
              entries[sc][k] # None => entries'[sc][k] = entries[sc][k]]_vars
  BY <1>1
<1>. QED
  BY <1>2, TypeCorrect, PTL DEF Spec, WritesPermanent

-----------------------------------------------------------------------------
(* Entry numbers.                                                          *)

\* The places of a finite set of positions count it off: 1, 2, ... without gap.
LEMMA PlacesCountOff ==
  ASSUME NEW n \in Nat, NEW F \in SUBSET (1..n)
  PROVE  /\ Cardinality(F) \in Nat
         /\ \A i \in F : Cardinality({j \in F : j <= i}) \in 1..Cardinality(F)
         /\ \A i, j \in F :
              Cardinality({k \in F : k <= i}) = Cardinality({k \in F : k <= j}) => i = j
         /\ \A m \in 1..Cardinality(F) : \E i \in F : Cardinality({j \in F : j <= i}) = m
<1>. DEFINE below == [i \in F |-> {j \in F : j <= i}]
            place == [i \in F |-> Cardinality(below[i])]
<1>1. IsFiniteSet(F) /\ Cardinality(F) \in Nat
  <2>1. IsFiniteSet(1..n)
    BY FS_Interval
  <2>. QED
    BY <2>1, FS_Subset, FS_CardinalityType
<1>2. ASSUME NEW i \in F
      PROVE  /\ IsFiniteSet(below[i]) /\ Cardinality(below[i]) \in 1..Cardinality(F)
             /\ below[i] \in SUBSET F
  <2>1. below[i] \in SUBSET F /\ i \in below[i]
    OBVIOUS
  <2>2. IsFiniteSet(below[i]) /\ Cardinality(below[i]) <= Cardinality(F)
    BY <1>1, <2>1, FS_Subset
  <2>3. Cardinality(below[i]) \in Nat
    BY <2>2, FS_CardinalityType
  <2>4. Cardinality(below[i]) # 0
    BY <2>1, <2>2, FS_EmptySet
  <2>. QED
    BY <1>1, <2>1, <2>2, <2>3, <2>4
<1>3. ASSUME NEW i \in F, NEW j \in F, i < j PROVE place[i] # place[j]
  <2>1. below[i] \in SUBSET below[j] /\ j \in below[j] /\ j \notin below[i]
    <3>1. \A k \in F : k \in Nat /\ (k <= i => k <= j)
      BY <1>3
    <3>2. j <= j /\ ~(j <= i)
      BY <1>3
    <3>. QED
      BY <3>1, <3>2
  <2>2. IsFiniteSet(below[j])
    BY <1>2
  <2>. HIDE DEF below
  <2>3. Cardinality(below[j]) # Cardinality(below[i])
    BY <2>1, <2>2, FS_Subset
  <2>. QED
    BY <2>3
<1>4. place \in [F -> 1..Cardinality(F)]
  BY <1>2
<1>5. \A i, j \in F : place[i] = place[j] => i = j
  <2>1. \A i, j \in F : i < j \/ j < i \/ i = j
    OBVIOUS
  <2>. HIDE DEF place
  <2>. QED
    BY <1>3, <2>1
<1>6. place \in Surjection(F, 1..Cardinality(F))
  <2>1. place \in Injection(F, 1..Cardinality(F))
    <3>. HIDE DEF place
    <3>. QED
      BY <1>4, <1>5 DEF Injection, IsInjective
  <2>2. IsFiniteSet(1..Cardinality(F)) /\ Cardinality(1..Cardinality(F)) = Cardinality(F)
    BY <1>1, FS_Interval
  <2>. HIDE DEF place
  <2>. QED
    BY <2>1, <2>2, FS_Injection
<1>7. \A m \in 1..Cardinality(F) : \E i \in F : place[i] = m
  <2>. HIDE DEF place
  <2>. QED
    BY <1>6 DEF Surjection
<1>8. \A i \in F : place[i] = Cardinality({j \in F : j <= i})
  OBVIOUS
<1>. HIDE DEF place
<1>. QED
  BY <1>1, <1>4, <1>5, <1>7, <1>8

\* The seqs of the entries of scope sc count 1, 2, ..., entrySeq[sc] off, one each.
Written(sc) == {k \in EntryKeys : entries[sc][k] # None}

Numbered(sc) ==
  /\ \A k \in Written(sc) : entries[sc][k].seq \in 1..entrySeq[sc]
  /\ \A j, k \in Written(sc) : entries[sc][j].seq = entries[sc][k].seq => j = k
  /\ \A n \in 1..entrySeq[sc] : \E k \in Written(sc) : entries[sc][k].seq = n

\* What a batch does to the scope it is written to.
LEMMA BatchNumbers ==
  ASSUME TypeOK, NEW sc \in Scopes, NEW r \in Runs,
         NEW ws \in UpTo(MaxWrites, Write(EntryKeys)),
         ValidEntries(sc, ws), ApplyEntries(sc, r, ws)
  PROVE  LET F == FreshEntries(sc, ws)
             n == entrySeq[sc]
         IN  /\ Cardinality(F) \in Nat /\ entrySeq'[sc] = n + Cardinality(F)
             /\ \A k \in Written(sc) : entries'[sc][k] = entries[sc][k]
             /\ \A i \in F : /\ ws[i].key \in EntryKeys \ Written(sc)
                             /\ entries'[sc][ws[i].key] # None
                             /\ entries'[sc][ws[i].key].seq =
                                  n + Cardinality({j \in F : j <= i})
             /\ \A k \in EntryKeys : entries'[sc][k] # None =>
                  k \in Written(sc) \/ \E i \in F : k = ws[i].key
<1>. DEFINE F == FreshEntries(sc, ws)
            n == entrySeq[sc]
<1>1. ws \in Seq(Write(EntryKeys)) /\ DOMAIN ws = 1..Len(ws) /\ Len(ws) \in Nat
  BY BatchIsSeq, BoundAssumption
<1>2. Cardinality(F) \in Nat
  BY <1>1, PlacesCountOff DEF FreshEntries
<1>3. entrySeq'[sc] = n + Cardinality(F)
  BY DEF ApplyEntries, TypeOK
<1>4. \A k \in Written(sc) : entries'[sc][k] = entries[sc][k]
  BY StoredEntries DEF Written
<1>5. ASSUME NEW i \in F
      PROVE  /\ ws[i].key \in EntryKeys \ Written(sc)
             /\ entries'[sc][ws[i].key] # None
             /\ entries'[sc][ws[i].key].seq = n + Cardinality({j \in F : j <= i})
  <2>1. i \in DOMAIN ws /\ ws[i] \in Write(EntryKeys)
    BY <1>1 DEF FreshEntries
  <2>2. ws[i].key \in EntryKeys /\ ws[i].body \in Payloads
    BY <2>1 DEF Write
  <2>3. entries[sc][ws[i].key] = None
    BY DEF FreshEntries
  <2>4. WritesOf(ws, ws[i].key) = {i}
    BY <2>1 DEF WritesOf, ValidEntries, DistinctKeys
  <2>. DEFINE k == ws[i].key
              e == [run |-> r, body |-> ws[i].body, seq |-> n + Cardinality({j \in F : j <= i})]
  <2>5. entries'[sc][k] = e
    <3>1. WritesOf(ws, k) \cap F # {}
      BY <2>4
    <3>2. (CHOOSE j \in WritesOf(ws, k) : TRUE) = i
      BY <2>4
    <3>. DEFINE c == CHOOSE j \in WritesOf(ws, k) : TRUE
    <3>3. entries'[sc][k] = IF WritesOf(ws, k) \cap F = {} THEN entries[sc][k]
                            ELSE [run |-> r, body |-> ws[c].body,
                                  seq |-> n + Cardinality({j \in F : j <= c})]
      BY <2>2 DEF ApplyEntries, TypeOK
    <3>. HIDE DEF c
    <3>. QED
      BY <3>1, <3>2, <3>3 DEF c
  <2>6. e \in Entry
    <3>1. Cardinality({j \in F : j <= i}) \in Nat
      BY ZenonT(60), <1>1, PlacesCountOff DEF FreshEntries
    <3>. QED
      BY <2>2, <3>1 DEF Entry, TypeOK
  <2>7. k \in EntryKeys \ Written(sc)
    BY <2>2, <2>3 DEF Written
  <2>8. e # None /\ e.seq = n + Cardinality({j \in F : j <= i})
    BY <2>6, NoneAssumption
  <2>. HIDE DEF e
  <2>. QED
    BY <2>5, <2>7, <2>8
<1>6. ASSUME NEW k \in EntryKeys, entries'[sc][k] # None, k \notin Written(sc)
      PROVE  \E i \in F : k = ws[i].key
  <2>1. WritesOf(ws, k) \cap F # {}
    BY <1>6 DEF ApplyEntries, TypeOK, Written
  <2>. QED
    BY <2>1 DEF WritesOf
<1>. HIDE DEF F, n
<1>7. \A i \in F : /\ ws[i].key \in EntryKeys \ Written(sc)
                  /\ entries'[sc][ws[i].key] # None
                  /\ entries'[sc][ws[i].key].seq = n + Cardinality({j \in F : j <= i})
  BY <1>5
<1>8. \A k \in EntryKeys : entries'[sc][k] # None =>
        k \in Written(sc) \/ \E i \in F : k = ws[i].key
  BY <1>6
<1>. QED
  BY <1>2, <1>3, <1>4, <1>7, <1>8, Zenon DEF F, n

LEMMA NumberedKept ==
  ASSUME TypeOK, NEW sc \in Scopes, Numbered(sc), NEW r \in Runs,
         NEW ws \in UpTo(MaxWrites, Write(EntryKeys)),
         ValidEntries(sc, ws), ApplyEntries(sc, r, ws)
  PROVE  Numbered(sc)'
<1>. DEFINE F == FreshEntries(sc, ws)
            place(i) == Cardinality({j \in F : j <= i})
            old == entrySeq[sc]
<1>1. /\ Cardinality(F) \in Nat /\ entrySeq'[sc] = old + Cardinality(F)
      /\ \A k \in Written(sc) : entries'[sc][k] = entries[sc][k]
      /\ \A i \in F : /\ ws[i].key \in EntryKeys \ Written(sc)
                      /\ entries'[sc][ws[i].key] # None
                      /\ entries'[sc][ws[i].key].seq = old + place(i)
      /\ \A k \in EntryKeys : entries'[sc][k] # None =>
           k \in Written(sc) \/ \E i \in F : k = ws[i].key
  BY BatchNumbers
<1>2. /\ \A i \in F : place(i) \in 1..Cardinality(F)
      /\ \A i, j \in F : place(i) = place(j) => i = j
      /\ \A m \in 1..Cardinality(F) : \E i \in F : place(i) = m
  <2>1. DOMAIN ws = 1..Len(ws) /\ Len(ws) \in Nat
    BY BatchIsSeq, BoundAssumption
  <2>2. F \in SUBSET (1..Len(ws))
    BY <2>1 DEF FreshEntries
  <2>. HIDE DEF F
  <2>. QED
    BY <2>1, <2>2, PlacesCountOff
<1>3. old \in Nat
  BY DEF TypeOK
<1>. HIDE DEF F, place, old
<1>4. /\ \A k \in Written(sc) : entries[sc][k].seq \in 1..old
      /\ \A j, k \in Written(sc) : entries[sc][j].seq = entries[sc][k].seq => j = k
      /\ \A n \in 1..old : \E k \in Written(sc) : entries[sc][k].seq = n
  BY DEF Numbered, old
<1>5. ASSUME NEW k \in Written(sc)'
      PROVE  \/ k \in Written(sc) /\ entries'[sc][k].seq = entries[sc][k].seq
             \/ \E i \in F : k = ws[i].key /\ entries'[sc][k].seq = old + place(i)
  BY <1>1 DEF Written
<1>6. ASSUME NEW k \in Written(sc)' PROVE entries'[sc][k].seq \in 1..entrySeq'[sc]
  BY <1>1, <1>2, <1>3, <1>4, <1>5
<1>7. ASSUME NEW j \in Written(sc)', NEW k \in Written(sc)',
             entries'[sc][j].seq = entries'[sc][k].seq
      PROVE  j = k
  <2>1. CASE j \in Written(sc) /\ k \in Written(sc)
    BY <1>1, <1>4, <1>7, <2>1
  <2>2. CASE j \notin Written(sc) /\ k \notin Written(sc)
    <3>1. PICK i \in F : j = ws[i].key /\ entries'[sc][j].seq = old + place(i)
      BY <1>5, <2>2
    <3>2. PICK m \in F : k = ws[m].key /\ entries'[sc][k].seq = old + place(m)
      BY <1>5, <2>2
    <3>3. place(i) \in Nat /\ place(m) \in Nat
      BY <1>1, <1>2
    <3>4. place(i) = place(m)
      BY <1>3, <1>7, <3>1, <3>2, <3>3
    <3>. QED
      BY <1>2, <3>1, <3>2, <3>4
  <2>3. ASSUME NEW a \in Written(sc), NEW i \in F PROVE entries[sc][a].seq # old + place(i)
    BY <1>1, <1>2, <1>3, <1>4
  <2>. QED
    BY <1>1, <1>5, <1>7, <2>1, <2>2, <2>3
<1>8. ASSUME NEW n \in 1..entrySeq'[sc] PROVE \E k \in Written(sc)' : entries'[sc][k].seq = n
  <2>1. CASE n \in 1..old
    <3>1. PICK k \in Written(sc) : entries[sc][k].seq = n
      BY <1>4, <2>1
    <3>2. k \in Written(sc)' /\ entries'[sc][k].seq = n
      BY <1>1, <3>1 DEF Written
    <3>. QED
      BY <3>2
  <2>2. CASE n - old \in 1..Cardinality(F)
    <3>1. PICK i \in F : place(i) = n - old
      BY <1>2, <2>2
    <3>2. ws[i].key \in Written(sc)' /\ entries'[sc][ws[i].key].seq = n
      BY <1>1, <1>3, <3>1 DEF Written
    <3>. QED
      BY <3>2
  <2>3. n \in 1..old \/ n - old \in 1..Cardinality(F)
    BY <1>1, <1>3
  <2>. QED
    BY <2>1, <2>2, <2>3
<1>. QED
  BY <1>6, <1>7, <1>8 DEF Numbered

LEMMA NextNumbered ==
  ASSUME TypeOK, [Next]_vars, NEW sc \in Scopes, Numbered(sc)
  PROVE  Numbered(sc)'
<1>1. CASE UNCHANGED <<entries, entrySeq>>
  BY <1>1 DEF Numbered, Written
<1>2. ASSUME NEW so \in Scopes, NEW r \in Runs, NEW ws \in UpTo(MaxWrites, Write(EntryKeys)),
             ValidEntries(so, ws), ApplyEntries(so, r, ws)
      PROVE  Numbered(sc)'
  <2>1. CASE so = sc
    BY <1>2, <2>1, NumberedKept
  <2>2. CASE so # sc
    <3>1. entries'[sc] = entries[sc] /\ entrySeq'[sc] = entrySeq[sc]
      BY <1>2, <2>2 DEF ApplyEntries, TypeOK
    <3>. QED
      BY <3>1 DEF Numbered, Written
  <2>. QED
    BY <2>1, <2>2
<1>. QED
  BY <1>1, <1>2, EntryStep

\* Entries numbered one by one are as many as the last number says.
LEMMA NumberedDense ==
  ASSUME TypeOK, NEW sc \in Scopes, Numbered(sc)
  PROVE  /\ {entries[sc][k].seq : k \in Written(sc)} = 1..entrySeq[sc]
         /\ Cardinality(Written(sc)) = entrySeq[sc]
<1>. DEFINE W == Written(sc)
            N == 1..entrySeq[sc]
            number == [k \in W |-> entries[sc][k].seq]
<1>1. entrySeq[sc] \in Nat
  BY DEF TypeOK
<1>2. {entries[sc][k].seq : k \in W} = N
  BY DEF Numbered
<1>3. number \in Bijection(W, N)
  <2>1. number \in [W -> N]
    BY DEF Numbered
  <2>2. \A j, k \in W : number[j] = number[k] => j = k
    BY DEF Numbered
  <2>3. \A n \in N : \E k \in W : number[k] = n
    BY DEF Numbered
  <2>. HIDE DEF number, W, N
  <2>. QED
    BY <2>1, <2>2, <2>3, Fun_IsBij, Fun_IsSurj
<1>4. Bijection(N, W) # {}
  <2>. HIDE DEF number, W, N
  <2>. QED
    BY <1>3, Fun_BijInverse
<1>5. IsFiniteSet(N) /\ Cardinality(N) = entrySeq[sc]
  BY SMTT(30), <1>1, FS_Interval
<1>6. Cardinality(W) = entrySeq[sc]
  <2>. HIDE DEF W, N
  <2>. QED
    BY <1>4, <1>5, FS_Bijection DEF ExistsBijection
<1>. QED
  BY <1>2, <1>6

\* The entries of every scope stay numbered without gap or repetition: a batch numbers
\* the entries its scope does not hold yet, in their order, after the last number.
THEOREM EntriesNumbered == Spec => []EntriesDense
<1>. DEFINE Inv == \A sc \in Scopes : Numbered(sc)
<1>1. Init => Inv
  BY DEF Init, Numbered, Written
<1>2. TypeOK /\ Inv /\ [Next]_vars => Inv'
  <2>. SUFFICES ASSUME TypeOK, Inv, [Next]_vars, NEW sc \in Scopes PROVE Numbered(sc)'
    OBVIOUS
  <2>. QED
    BY NextNumbered
<1>3. TypeOK /\ Inv => EntriesDense
  <2>. SUFFICES ASSUME TypeOK, Inv, NEW sc \in Scopes
                PROVE  LET written == {k \in EntryKeys : entries[sc][k] # None} IN
                         /\ {entries[sc][k].seq : k \in written} = 1..entrySeq[sc]
                         /\ Cardinality(written) = entrySeq[sc]
    BY DEF EntriesDense
  <2>. QED
    BY NumberedDense DEF Written
<1>. HIDE DEF Inv
<1>4. Spec => []Inv
  BY <1>1, <1>2, TypeCorrect, PTL DEF Spec
<1>. QED
  BY <1>3, <1>4, TypeCorrect, PTL
=============================================================================
