------------------------- MODULE SqliteStoreProofs --------------------------
(***************************************************************************)
(* SqliteStore for any connections, runs, threads, leases and calls: its     *)
(* tables keep their shape, the two copies of a lease agree, the reaper ends *)
(* only what has lapsed, and the file implements ThreadFence: a thread        *)
(* serves one run, and what has ended stays.  Nothing is assumed of the      *)
(* clock, which may be set back.                                            *)
(*                                                                         *)
(* A call that is refused, fails or only reads the clock changes no table;   *)
(* what is left is one of the kinds of steps of LeaseTables, which has what   *)
(* follows from that.                                                       *)
(***************************************************************************)
EXTENDS SqliteStore, FiniteSetTheorems, TLAPS

Tables == INSTANCE LeaseTables WITH InOrder <- TRUE

-----------------------------------------------------------------------------
(* Rows and calls.                                                          *)

LEMMA NextEntrySeq ==
  ASSUME TypeOK
  PROVE  Max(EntrySeqs \cup {0}) + 1 \in Nat
<1>. DEFINE held == {k \in EntryKeys : entries[k] # None}
            seqOf == [k \in held |-> entries[k].seq]
<1>1. IsFiniteSet(held)
  BY CallsAssumption, FS_Subset
<1>2. seqOf \in [held -> Nat]
  BY DEF TypeOK, EntryRow
<1>3. EntrySeqs = {seqOf[k] : k \in held}
  BY DEF EntrySeqs
<1>. HIDE DEF held, seqOf
<1>4. PICK m \in EntrySeqs \cup {0} : \A k \in EntrySeqs \cup {0} : m >= k
  <2>1. Tables!IsFiniteSet(held)
    BY <1>1 DEF IsFiniteSet, Tables!IsFiniteSet
  <2>2. \E m \in {seqOf[k] : k \in held} \cup {0} :
          \A k \in {seqOf[i] : i \in held} \cup {0} : m >= k
    BY ONLY <1>2, <2>1, Tables!GreatestNumber
  <2>. QED
    BY <1>3, <2>2
<1>5. EntrySeqs \cup {0} \subseteq Nat
  BY <1>2, <1>3
<1>6. Max(EntrySeqs \cup {0}) \in EntrySeqs \cup {0}
  BY <1>4 DEF Max
<1>. QED
  BY <1>5, <1>6

LEMMA RowFields ==
  ASSUME NEW row \in Row
  PROVE  /\ row.status \in {"running", "finished", "error"} /\ row.thread \in Threads
         /\ row.key \in Keys \cup {None} /\ row.lease \in Leases \cup {None}
         /\ row.until \in Nat /\ row.seq \in Nat /\ row.cancel \in BOOLEAN
         /\ row # None
BY NoneAssumption DEF Row

LEMMA RowMoves ==
  ASSUME NEW row \in Row, NEW n \in Nat
  PROVE  /\ [row EXCEPT !.seq = n] \in Row
         /\ [row EXCEPT !.cancel = TRUE] \in Row
         /\ row.status = "running" => [row EXCEPT !.until = n] \in Row
         /\ row.status = "running" => [row EXCEPT !.lease = None, !.until = 0] \in Row
         /\ \A st \in {"finished", "error"} : Ended(row, st, n) \in Row
<1>1. [row EXCEPT !.seq = n] \in Row
  BY DEF Row
<1>2. [row EXCEPT !.cancel = TRUE] \in Row
  BY DEF Row
<1>3. row.status = "running" => [row EXCEPT !.until = n] \in Row
  BY DEF Row
<1>4. row.status = "running" => [row EXCEPT !.lease = None, !.until = 0] \in Row
  BY DEF Row
<1>5. ASSUME NEW st \in {"finished", "error"} PROVE Ended(row, st, n) \in Row
  BY DEF Row, Ended
<1>. QED
  BY <1>1, <1>2, <1>3, <1>4, <1>5

LEMMA CallType ==
  ASSUME TypeOK, NEW p \in Clients, call[p] # None
  PROVE  call[p].req \in Calls /\ call[p].now \in Nat
BY CallsAssumption DEF TypeOK

LEMMA StartType ==
  ASSUME NEW s \in Calls, s.op = "start"
  PROVE  /\ s.run \in Runs /\ s.thread \in Threads /\ s.key \in Keys \cup {None}
         /\ s.lease \in Leases \cup {None} /\ s.entry \in Entry \cup {None}
BY DEF Calls

LEMMA CommitType ==
  ASSUME NEW c \in Calls, c.op = "commit"
  PROVE  /\ c.run \in Runs /\ c.lease \in Leases \cup {None} /\ c.seq \in Nat
         /\ c.finish \in BOOLEAN /\ c.saves \in BOOLEAN
         /\ c.effect \in EffectStatus \cup {None} /\ c.entry \in Entry \cup {None}
BY DEF Calls

LEMMA HolderType ==
  ASSUME NEW c \in Calls, c.op \in {"renew", "release", "reserve_effect", "start_effect"}
  PROVE  c.run \in Runs /\ c.lease \in Leases \cup {None}
BY DEF Calls

LEMMA MarkType ==
  ASSUME NEW c \in Calls, c.op = "mark_cancelled"
  PROVE  c.run \in Runs
BY DEF Calls

LEMMA EntriesType ==
  ASSUME TypeOK, NEW r \in Runs, NEW e \in Entry \cup {None}
  PROVE  WithEntry(r, e) \in [EntryKeys -> EntryRow \cup {None}]
<1>. DEFINE n == Max(EntrySeqs \cup {0}) + 1
<1>1. n \in Nat
  BY NextEntrySeq
<1>2. WithEntry(r, e) = IF e = None \/ entries[e.key] # None THEN entries
                        ELSE [entries EXCEPT ![e.key] = [run |-> r, seq |-> n, body |-> e.body]]
  BY DEF WithEntry
<1>. HIDE DEF n
<1>3. e # None => e.key \in EntryKeys /\ [run |-> r, seq |-> n, body |-> e.body] \in EntryRow
  BY <1>1 DEF Entry, EntryRow
<1>. QED
  BY <1>2, <1>3 DEF TypeOK

-----------------------------------------------------------------------------
(* Types.                                                                   *)

LEMMA EndsType ==
  ASSUME TypeOK, NEW p \in Clients, Ends(p)
  PROVE  /\ call' \in [Clients -> [req : Requests, now : 0 .. MaxClock] \cup {None}]
         /\ listed' \in [Runs -> Nat]
         /\ clock' \in 0 .. MaxClock /\ calls' \in 0 .. MaxCalls
BY DEF TypeOK, Ends

LEMMA StartTypes ==
  ASSUME TypeOK, NEW p \in Clients, StartRun(p)
  PROVE  TypeOK'
<1>. DEFINE s == call[p].req
            now == call[p].now
            until == IF s.lease = None THEN 0 ELSE now + Ttl
            row == [status |-> "running", thread |-> s.thread, key |-> s.key, lease |-> s.lease,
                    until |-> until, seq |-> 0, cancel |-> FALSE]
            held == [run |-> s.run, lease |-> s.lease, until |-> until]
<1>1. s \in Calls /\ now \in Nat /\ s.op = "start"
  BY CallType DEF StartRun, In
<1>2. /\ s.run \in Runs /\ s.thread \in Threads /\ s.key \in Keys \cup {None}
      /\ s.lease \in Leases \cup {None} /\ s.entry \in Entry \cup {None}
  BY <1>1, StartType
<1>3. until \in Nat
  BY <1>1, CallsAssumption
<1>4. /\ \/ UNCHANGED <<runs, threadLease, entries>>
         \/ /\ runs' = [runs EXCEPT ![s.run] = row]
            /\ threadLease' = IF s.lease = None THEN threadLease
                              ELSE [threadLease EXCEPT ![s.thread] = held]
            /\ entries' = WithEntry(s.run, s.entry)
      /\ UNCHANGED <<checkpoints, effects>>
  BY DEF StartRun
<1>. HIDE DEF until
<1>5. row \in Row /\ (s.lease # None => held \in ThreadLease)
  BY <1>2, <1>3 DEF Row, ThreadLease
<1>6. WithEntry(s.run, s.entry) \in [EntryKeys -> EntryRow \cup {None}]
  BY <1>2, EntriesType
<1>7. call' \in [Clients -> [req : Requests, now : 0 .. MaxClock] \cup {None}]
         /\ listed' \in [Runs -> Nat]
         /\ clock' \in 0 .. MaxClock /\ calls' \in 0 .. MaxCalls
  BY EndsType DEF StartRun
<1>. HIDE DEF s, row, held
<1>. QED
  BY <1>2, <1>4, <1>5, <1>6, <1>7 DEF TypeOK

LEMMA FreedType ==
  ASSUME TypeOK, NEW S \in SUBSET Runs
  PROVE  FreedThreads(S) \in [Threads -> ThreadLease \cup {None}]
BY DEF TypeOK, FreedThreads

LEMMA CommitTypes ==
  ASSUME TypeOK, NEW p \in Clients, CommitRun(p)
  PROVE  TypeOK'
<1>. DEFINE c == call[p].req
            seq == IF c.seq = 0 THEN runs[c.run].seq ELSE c.seq
            row == IF c.finish THEN Ended(runs[c.run], "finished", seq)
                   ELSE [runs[c.run] EXCEPT !.seq = seq]
<1>1. c \in Calls /\ c.op = "commit"
  BY CallType DEF CommitRun, In
<1>2. /\ c.run \in Runs /\ c.lease \in Leases \cup {None} /\ c.seq \in Nat
      /\ c.finish \in BOOLEAN /\ c.effect \in EffectStatus \cup {None}
      /\ c.entry \in Entry \cup {None}
  BY <1>1, CommitType
<1>3. /\ call' \in [Clients -> [req : Requests, now : 0 .. MaxClock] \cup {None}]
      /\ listed' \in [Runs -> Nat]
      /\ clock' \in 0 .. MaxClock /\ calls' \in 0 .. MaxCalls
  BY EndsType DEF CommitRun
<1>4. CASE ~(ValidCommit(c) /\ CommitAllowed(c))
  <2>1. UNCHANGED tables
    BY <1>4 DEF CommitRun
  <2>. QED
    BY <1>3, <2>1 DEF TypeOK, tables
<1>5. CASE ValidCommit(c) /\ CommitAllowed(c)
  <2>1. /\ runs' = [runs EXCEPT ![c.run] = row]
        /\ threadLease' = IF c.finish THEN FreedThreads({c.run}) ELSE threadLease
        /\ checkpoints' = SavedCheckpoint(c, seq)
        /\ effects' = IF c.effect = None THEN effects ELSE [effects EXCEPT ![c.run] = c.effect]
        /\ entries' = WithEntry(c.run, c.entry)
    BY <1>5 DEF CommitRun
  <2>2. runs[c.run] \in Row
    BY <1>2, <1>5 DEF CommitAllowed, Running, Exists, TypeOK
  <2>3. seq \in Nat /\ runs[c.run].thread \in Threads
    BY <1>2, <2>2, RowFields
  <2>. HIDE DEF seq
  <2>4. row \in Row
    BY <2>2, <2>3, RowMoves
  <2>5. SavedCheckpoint(c, seq) \in [Threads -> Checkpoint \cup {None}]
    BY <1>2, <2>3 DEF SavedCheckpoint, Checkpoint, TypeOK
  <2>6. WithEntry(c.run, c.entry) \in [EntryKeys -> EntryRow \cup {None}]
    BY <1>2, EntriesType
  <2>7. FreedThreads({c.run}) \in [Threads -> ThreadLease \cup {None}]
    BY <1>2, FreedType
  <2>. HIDE DEF row, c
  <2>. QED
    BY <1>2, <1>3, <2>1, <2>4, <2>5, <2>6, <2>7 DEF TypeOK
<1>. QED
  BY <1>4, <1>5

LEMMA EffectTypes ==
  ASSUME TypeOK, NEW p \in Clients, ReserveEffect(p) \/ StartEffect(p)
  PROVE  TypeOK'
<1>. DEFINE c == call[p].req
<1>1. c \in Calls /\ c.op \in {"reserve_effect", "start_effect"}
  BY CallType DEF ReserveEffect, StartEffect, In
<1>2. c.run \in Runs
  BY <1>1, HolderType
<1>3. /\ call' \in [Clients -> [req : Requests, now : 0 .. MaxClock] \cup {None}]
      /\ listed' \in [Runs -> Nat]
      /\ clock' \in 0 .. MaxClock /\ calls' \in 0 .. MaxCalls
  BY EndsType DEF ReserveEffect, StartEffect
<1>4. effects' \in [Runs -> EffectStatus \cup {None}]
  BY <1>2 DEF ReserveEffect, StartEffect, TypeOK, EffectStatus
<1>5. UNCHANGED <<runs, threadLease, checkpoints, entries>>
  BY DEF ReserveEffect, StartEffect
<1>. QED
  BY <1>3, <1>4, <1>5 DEF TypeOK

\* A holder of a lease has a running run with a row.
LEMMA HoldsRow ==
  ASSUME TypeOK, NEW c, c.run \in Runs, Holds(c)
  PROVE  runs[c.run] \in Row /\ runs[c.run].status = "running"
BY DEF Holds, Running, Exists, TypeOK

LEMMA LeaseTypes ==
  ASSUME TypeOK, NEW p \in Clients, Renew(p) \/ Release(p) \/ MarkCancelled(p)
  PROVE  TypeOK'
<1>. DEFINE c == call[p].req
<1>1. c \in Calls /\ c.op \in {"renew", "release", "mark_cancelled"}
  BY CallType DEF Renew, Release, MarkCancelled, In
<1>2. c.run \in Runs
  BY <1>1, HolderType, MarkType
<1>3. /\ call' \in [Clients -> [req : Requests, now : 0 .. MaxClock] \cup {None}]
      /\ listed' \in [Runs -> Nat]
      /\ clock' \in 0 .. MaxClock /\ calls' \in 0 .. MaxCalls
  BY EndsType DEF Renew, Release, MarkCancelled
<1>4. UNCHANGED <<checkpoints, effects, entries>>
  BY DEF Renew, Release, MarkCancelled
<1>5. clock + Ttl \in Nat
  BY CallsAssumption DEF TypeOK
<1>6. CASE Renew(p)
  <2>. DEFINE t == runs[c.run].thread
  <2>1. CASE UNCHANGED <<runs, threadLease>>
    BY <1>3, <1>4, <2>1 DEF TypeOK
  <2>2. CASE ~UNCHANGED <<runs, threadLease>>
    <3>1. /\ Holds(c) /\ HoldsThread(c, t)
          /\ runs' = [runs EXCEPT ![c.run].until = clock + Ttl]
          /\ threadLease' = [threadLease EXCEPT ![t].until = clock + Ttl]
      BY <1>6, <2>2 DEF Renew, RenewedThread
    <3>2. runs[c.run] \in Row /\ runs[c.run].status = "running"
      BY <1>2, <3>1, HoldsRow
    <3>3. [runs[c.run] EXCEPT !.until = clock + Ttl] \in Row
      BY <1>5, <3>2, RowMoves
    <3>4. t \in Threads
      BY <3>2, RowFields
    <3>5. threadLease[t] \in ThreadLease
      BY <3>1, <3>4 DEF HoldsThread, TypeOK
    <3>6. [threadLease[t] EXCEPT !.until = clock + Ttl] \in ThreadLease
      BY <1>5, <3>5 DEF ThreadLease
    <3>7. runs' \in [Runs -> Row \cup {None}]
      BY <1>2, <3>1, <3>3 DEF TypeOK
    <3>8. threadLease' \in [Threads -> ThreadLease \cup {None}]
      BY <3>1, <3>4, <3>6 DEF TypeOK
    <3>. QED
      BY <1>3, <1>4, <3>7, <3>8 DEF TypeOK
  <2>. QED
    BY <2>1, <2>2
<1>7. CASE Release(p)
  <2>1. runs' \in [Runs -> Row \cup {None}]
    <3>1. CASE Holds(c)
      <4>1. [runs[c.run] EXCEPT !.lease = None, !.until = 0] \in Row
        BY <1>2, <3>1, HoldsRow, RowMoves
      <4>2. runs' = [runs EXCEPT ![c.run] = [runs[c.run] EXCEPT !.lease = None, !.until = 0]]
        BY <1>2, <1>7, <3>1 DEF Release, TypeOK
      <4>. QED
        BY <1>2, <4>1, <4>2 DEF TypeOK
    <3>2. CASE ~Holds(c)
      BY <1>7, <3>2 DEF Release, TypeOK
    <3>. QED
      BY <3>1, <3>2
  <2>2. threadLease' \in [Threads -> ThreadLease \cup {None}]
    BY <1>7 DEF Release, TypeOK
  <2>. QED
    BY <1>3, <1>4, <2>1, <2>2 DEF TypeOK
<1>8. CASE MarkCancelled(p)
  <2>1. runs' = (IF Exists(c.run) THEN [runs EXCEPT ![c.run].cancel = TRUE] ELSE runs)
        /\ UNCHANGED threadLease
    BY <1>8 DEF MarkCancelled
  <2>2. Exists(c.run) => runs[c.run] \in Row /\ [runs[c.run] EXCEPT !.cancel = TRUE] \in Row
    BY <1>2, RowMoves DEF TypeOK, Exists
  <2>3. runs' \in [Runs -> Row \cup {None}]
    BY <1>2, <2>1, <2>2 DEF TypeOK
  <2>. QED
    BY <1>3, <1>4, <2>1, <2>3 DEF TypeOK
<1>. QED
  BY <1>6, <1>7, <1>8

LEMMA ListTypes ==
  ASSUME TypeOK, NEW S \in SUBSET Runs, List(S)
  PROVE  TypeOK'
<1>1. ASSUME NEW r \in S PROVE NextSeq(r) \in Nat
  <2>1. runs[r] \in Row
    BY DEF List, Lapsed, Running, Exists, TypeOK
  <2>. QED
    BY <2>1, RowFields DEF NextSeq
<1>2. listed' \in [Runs -> Nat]
  BY <1>1 DEF List
<1>. QED
  BY <1>2 DEF List, TypeOK, tables

LEMMA ReapTypes ==
  ASSUME TypeOK, ReapStale
  PROVE  TypeOK'
<1>. DEFINE stale == {r \in Runs : listed[r] # 0 /\ StillStale(r)}
<1>1. ASSUME NEW r \in stale PROVE Ended(runs[r], "error", listed[r]) \in Row
  <2>1. runs[r] \in Row /\ listed[r] \in Nat
    BY DEF StillStale, Lapsed, Running, Exists, TypeOK
  <2>. QED
    BY <2>1, RowMoves
<1>2. FreedThreads(stale) \in [Threads -> ThreadLease \cup {None}]
  BY FreedType
<1>3. runs' \in [Runs -> Row \cup {None}] /\ threadLease' \in [Threads -> ThreadLease \cup {None}]
  <2>1. CASE UNCHANGED <<runs, threadLease>>
    BY <2>1 DEF TypeOK
  <2>2. CASE ~UNCHANGED <<runs, threadLease>>
    <3>1. /\ runs' = [r \in Runs |->
                        IF r \in stale THEN Ended(runs[r], "error", listed[r]) ELSE runs[r]]
          /\ threadLease' = FreedThreads(stale)
      BY <2>2 DEF ReapStale
    <3>. HIDE DEF stale
    <3>. QED
      BY <1>1, <1>2, <3>1 DEF TypeOK
  <2>. QED
    BY <2>1, <2>2
<1>4. listed' \in [Runs -> Nat]
  BY DEF ReapStale
<1>5. UNCHANGED <<checkpoints, effects, entries, call, clock, calls>>
  BY DEF ReapStale
<1>. QED
  BY <1>3, <1>4, <1>5 DEF TypeOK

LEMMA CallTypes ==
  ASSUME TypeOK, NEW p \in Clients, NEW req \in Requests, Call(p, req)
  PROVE  TypeOK'
<1>. DEFINE now == IF req.op = "start" THEN clock ELSE 0
<1>1. now \in 0 .. MaxClock /\ calls + 1 \in 0 .. MaxCalls
  BY CallsAssumption DEF TypeOK, Call
<1>2. call' = [call EXCEPT ![p] = [req |-> req, now |-> now]] /\ calls' = calls + 1
      /\ UNCHANGED <<tables, listed, clock>>
  BY DEF Call
<1>. HIDE DEF now
<1>. QED
  BY <1>1, <1>2 DEF TypeOK, tables

LEMMA NextTypes == TypeOK /\ [Next]_vars => TypeOK'
<1>. SUFFICES ASSUME TypeOK, [Next]_vars PROVE TypeOK'
  OBVIOUS
<1>1. ASSUME NEW p \in Clients, NEW req \in Requests, Call(p, req) PROVE TypeOK'
  BY <1>1, CallTypes
<1>2. ASSUME NEW p \in Clients, Perform(p) PROVE TypeOK'
  BY <1>2, StartTypes, CommitTypes, EffectTypes, LeaseTypes DEF Perform
<1>3. ASSUME NEW p \in Clients, Fail(p) PROVE TypeOK'
  <2>1. Ends(p) /\ UNCHANGED tables
    BY <1>3 DEF Fail
  <2>. QED
    BY <2>1, EndsType DEF TypeOK, tables
<1>4. ASSUME NEW S \in SUBSET Runs, List(S) PROVE TypeOK'
  BY <1>4, ListTypes
<1>5. CASE ReapStale
  BY <1>5, ReapTypes
<1>6. CASE ReaperFails
  BY <1>6 DEF ReaperFails, TypeOK, tables
<1>7. CASE SetClock
  BY <1>7 DEF SetClock, TypeOK, tables
<1>8. CASE UNCHANGED vars
  BY <1>8 DEF vars, TypeOK, tables
<1>. QED
  BY <1>1, <1>2, <1>3, <1>4, <1>5, <1>6, <1>7, <1>8 DEF Next

\* The tables keep their shape for any requests and any movement of the clock: start_run,
\* commit_run and the other calls write rows of the schema.
THEOREM TypeCorrect == Spec => []TypeOK
<1>1. Init => TypeOK
  BY CallsAssumption DEF Init, TypeOK
<1>. QED
  BY <1>1, NextTypes, PTL DEF Spec

-----------------------------------------------------------------------------
(* The kinds of steps, as LeaseTables has them.                              *)

LEMMA StartKind ==
  ASSUME TypeOK, NEW p \in Clients, StartRun(p)
  PROVE  Tables!Untouched \/ \E r \in Runs, t \in Threads : Tables!Begins(r, t)
<1>. DEFINE s == call[p].req
            until == IF s.lease = None THEN 0 ELSE call[p].now + Ttl
            row == [status |-> "running", thread |-> s.thread, key |-> s.key, lease |-> s.lease,
                    until |-> until, seq |-> 0, cancel |-> FALSE]
            held == [run |-> s.run, lease |-> s.lease, until |-> until]
<1>1. s \in Calls /\ s.op = "start" /\ call[p].now \in Nat
  BY CallType DEF StartRun, In
<1>2. /\ s.run \in Runs /\ s.thread \in Threads /\ s.key \in Keys \cup {None}
      /\ s.lease \in Leases \cup {None}
  BY <1>1, StartType
<1>3. until \in Nat
  BY <1>1, CallsAssumption
<1>4. checkpoints' = checkpoints
  BY DEF StartRun
<1>5. CASE StartRefused(s) \/ ClaimRefused(s, call[p].now)
  <2>1. runs' = runs /\ threadLease' = threadLease
    BY <1>5 DEF StartRun
  <2>. QED
    BY <1>4, <2>1 DEF Tables!Untouched, Tables!Quiet, Tables!Same, Tables!SameLease
<1>6. CASE ~(StartRefused(s) \/ ClaimRefused(s, call[p].now))
  <2>1. /\ runs' = [runs EXCEPT ![s.run] = row]
        /\ threadLease' = IF s.lease = None THEN threadLease
                          ELSE [threadLease EXCEPT ![s.thread] = held]
    BY <1>6 DEF StartRun
  <2>2. runs[s.run] = None /\ RunningOthers(s.thread, s.run) = {}
    BY <1>6 DEF StartRefused, Exists
  <2>. HIDE DEF until
  <2>3. row \in Row /\ (s.lease # None => held \in ThreadLease)
    BY <1>2, <1>3 DEF Row, ThreadLease
  <2>4. row # None /\ (s.lease # None => held # None)
    <3>. HIDE DEF row, held
    <3>. QED
      BY <2>3, NoneAssumption
  <2>5. /\ row.status = "running" /\ row.thread = s.thread /\ row.seq = 0
        /\ row.lease = s.lease /\ row.until = until
        /\ held.run = s.run /\ held.lease = s.lease /\ held.until = until
    OBVIOUS
  <2>. HIDE DEF row, held, s
  <2>6. runs'[s.run] = row /\ \A q \in Runs \ {s.run} : runs'[q] = runs[q]
    BY <1>2, <2>1 DEF TypeOK
  <2>7. /\ s.lease = None => threadLease' = threadLease
        /\ s.lease # None => threadLease'[s.thread] = held
        /\ \A x \in Threads \ {s.thread} : threadLease'[x] = threadLease[x]
    BY <1>2, <2>1 DEF TypeOK
  <2>8. Tables!Begins(s.run, s.thread)
    BY <1>4, <2>2, <2>4, <2>5, <2>6, <2>7
    DEF Tables!Begins, Tables!RunningOthers, Tables!Running, RunningOthers, Running, Exists
  <2>. QED
    BY <1>2, <2>8
<1>. QED
  BY <1>5, <1>6

LEMMA CommitKind ==
  ASSUME TypeOK, NEW p \in Clients, CommitRun(p)
  PROVE  Tables!Untouched \/ \E r \in Runs : Tables!Writes(r) /\ runs'[r].status # "error"
<1>. DEFINE c == call[p].req
            seq == IF c.seq = 0 THEN runs[c.run].seq ELSE c.seq
            row == IF c.finish THEN Ended(runs[c.run], "finished", seq)
                   ELSE [runs[c.run] EXCEPT !.seq = seq]
<1>1. c \in Calls /\ c.op = "commit"
  BY CallType DEF CommitRun, In
<1>2. c.run \in Runs /\ c.seq \in Nat /\ c.finish \in BOOLEAN
  BY <1>1, CommitType
<1>3. CASE ~(ValidCommit(c) /\ CommitAllowed(c))
  <2>1. UNCHANGED tables
    BY <1>3 DEF CommitRun
  <2>. QED
    BY <2>1 DEF tables, Tables!Untouched, Tables!Quiet, Tables!Same, Tables!SameLease
<1>4. CASE ValidCommit(c) /\ CommitAllowed(c)
  <2>1. /\ runs' = [runs EXCEPT ![c.run] = row]
        /\ threadLease' = IF c.finish THEN FreedThreads({c.run}) ELSE threadLease
        /\ checkpoints' = SavedCheckpoint(c, seq)
    BY <1>4 DEF CommitRun
  <2>2. runs[c.run] \in Row /\ Running(c.run) /\ runs[c.run].status = "running"
    BY <1>2, <1>4 DEF CommitAllowed, Running, Exists, TypeOK
  <2>3. /\ seq \in Nat /\ runs[c.run].seq \in Nat /\ seq >= runs[c.run].seq
        /\ c.finish => seq > runs[c.run].seq
    <3>1. runs[c.run].seq \in Nat
      BY <2>2, RowFields
    <3>2. c.seq > 0 => c.seq > runs[c.run].seq
      BY <1>4 DEF CommitAllowed
    <3>3. c.finish => c.seq > 0
      BY <1>4 DEF ValidCommit
    <3>. QED
      BY <1>2, <3>1, <3>2, <3>3
  <2>4. checkpoints' \in {checkpoints, [checkpoints EXCEPT ![runs[c.run].thread] =
                                          [run |-> c.run, seq |-> seq]]}
    BY <2>1 DEF SavedCheckpoint
  <2>. HIDE DEF seq
  <2>5. row \in Row
    BY <2>2, <2>3, RowMoves
  <2>6. /\ row.thread = runs[c.run].thread /\ row.seq = seq
        /\ c.finish => row.status = "finished"
        /\ ~c.finish => /\ row.status = "running"
                        /\ row.lease = runs[c.run].lease /\ row.until = runs[c.run].until
    BY <2>2 DEF Row, Ended
  <2>. HIDE DEF row, c
  <2>7. row # None
    BY <2>5, NoneAssumption
  <2>8. runs'[c.run] = row /\ \A q \in Runs \ {c.run} : runs'[q] = runs[q]
    BY <1>2, <2>1 DEF TypeOK
  <2>9. Tables!Writes(c.run)
    BY <1>2, <2>1, <2>2, <2>3, <2>4, <2>6, <2>7, <2>8
    DEF Tables!Writes, Tables!SameLease, Tables!FreedThreads, Tables!Running, FreedThreads,
        Running, Exists
  <2>10. runs'[c.run].status # "error"
    BY <1>2, <2>6, <2>8
  <2>. QED
    BY <1>2, <2>9, <2>10
<1>. QED
  BY <1>3, <1>4

LEMMA ReapKind ==
  ASSUME TypeOK, ReapStale
  PROVE  Tables!Untouched \/ \E S \in SUBSET Runs : Tables!Reaps(S) /\ \A r \in S : Lapsed(r)
<1>. DEFINE stale == {r \in Runs : listed[r] # 0 /\ StillStale(r)}
<1>1. checkpoints' = checkpoints
  BY DEF ReapStale
<1>2. CASE \A r \in stale : listed[r] = runs[r].seq + 1
  <2>1. /\ runs' = [r \in Runs |->
                      IF r \in stale THEN Ended(runs[r], "error", listed[r]) ELSE runs[r]]
        /\ threadLease' = FreedThreads(stale)
    BY <1>2 DEF ReapStale
  <2>2. ASSUME NEW r \in stale
        PROVE  /\ Lapsed(r) /\ runs'[r] # None /\ runs'[r].status = "error"
               /\ runs'[r].thread = runs[r].thread /\ runs'[r].seq = runs[r].seq + 1
    <3>. DEFINE row == Ended(runs[r], "error", listed[r])
    <3>1. Lapsed(r) /\ runs[r] \in Row /\ listed[r] \in Nat
      BY DEF StillStale, Lapsed, Running, Exists, TypeOK
    <3>2. row \in Row
      BY <3>1, RowMoves
    <3>3. row.status = "error" /\ row.thread = runs[r].thread /\ row.seq = listed[r]
      BY <3>1 DEF Row, Ended
    <3>4. runs'[r] = row /\ listed[r] = runs[r].seq + 1
      BY <1>2, <2>1
    <3>. HIDE DEF row
    <3>5. row # None
      BY <3>2, NoneAssumption
    <3>. QED
      BY <3>1, <3>3, <3>4, <3>5
  <2>3. \A r \in Runs \ stale : runs'[r] = runs[r]
    BY <2>1
  <2>4. stale \in SUBSET Runs
    OBVIOUS
  <2>. HIDE DEF stale
  <2>5. Tables!Reaps(stale)
    BY <1>1, <2>1, <2>2, <2>3
    DEF Tables!Reaps, Tables!FreedThreads, Tables!Running, FreedThreads, Lapsed, Running, Exists
  <2>. QED
    BY <2>2, <2>4, <2>5
<1>3. CASE ~(\A r \in stale : listed[r] = runs[r].seq + 1)
  <2>1. runs' = runs /\ threadLease' = threadLease
    BY <1>3 DEF ReapStale
  <2>. QED
    BY <1>1, <2>1 DEF Tables!Untouched, Tables!Quiet, Tables!Same, Tables!SameLease
<1>. QED
  BY <1>2, <1>3

LEMMA MarkKind ==
  ASSUME TypeOK, NEW p \in Clients, MarkCancelled(p)
  PROVE  Tables!Untouched
<1>. DEFINE r == call[p].req.run
            row == [runs[r] EXCEPT !.cancel = TRUE]
<1>1. r \in Runs /\ threadLease' = threadLease /\ checkpoints' = checkpoints
  <2>1. call[p].req \in Calls /\ call[p].req.op = "mark_cancelled"
    BY CallType DEF MarkCancelled, In
  <2>. QED
    BY <2>1, MarkType DEF MarkCancelled
<1>2. runs' = IF Exists(r) THEN [runs EXCEPT ![r] = row] ELSE runs
  BY DEF MarkCancelled
<1>3. CASE ~Exists(r)
  BY <1>1, <1>2, <1>3 DEF Tables!Untouched, Tables!Quiet, Tables!Same, Tables!SameLease
<1>4. CASE Exists(r)
  <2>1. runs[r] \in Row /\ runs[r] # None
    BY <1>1, <1>4 DEF TypeOK, Exists
  <2>2. row \in Row
    BY <2>1, RowMoves
  <2>3. /\ row.status = runs[r].status /\ row.thread = runs[r].thread /\ row.seq = runs[r].seq
        /\ row.lease = runs[r].lease /\ row.until = runs[r].until
    BY <2>1 DEF Row
  <2>. HIDE DEF row, r
  <2>4. runs'[r] = row /\ (\A q \in Runs \ {r} : runs'[q] = runs[q]) /\ row # None
    BY <1>1, <1>2, <1>4, <2>2, NoneAssumption DEF TypeOK
  <2>. QED
    BY <1>1, <2>1, <2>3, <2>4 DEF Tables!Untouched, Tables!Quiet, Tables!Same, Tables!SameLease
<1>. QED
  BY <1>3, <1>4

LEMMA RenewKind ==
  ASSUME TypeOK, NEW p \in Clients, Renew(p)
  PROVE  Tables!Untouched \/ \E r \in Runs, t \in Threads : Tables!Renews(r, t)
<1>. DEFINE c == call[p].req
            r == c.run
            t == runs[r].thread
            u == clock + Ttl
            row == [runs[r] EXCEPT !.until = u]
            held == [threadLease[t] EXCEPT !.until = u]
<1>1. r \in Runs /\ checkpoints' = checkpoints /\ u \in Nat
  <2>1. call[p].req \in Calls /\ call[p].req.op = "renew"
    BY CallType DEF Renew, In
  <2>2. r \in Runs
    BY <2>1, HolderType
  <2>. QED
    BY <2>2, CallsAssumption DEF Renew, TypeOK
<1>2. CASE runs' = runs /\ threadLease' = threadLease
  BY <1>1, <1>2 DEF Tables!Untouched, Tables!Quiet, Tables!Same, Tables!SameLease
<1>3. CASE ~(runs' = runs /\ threadLease' = threadLease)
  <2>1. /\ Holds(c) /\ HoldsThread(c, t)
        /\ runs' = [runs EXCEPT ![r] = row]
        /\ threadLease' = [threadLease EXCEPT ![t] = held]
    BY <1>3 DEF Renew, RenewedThread
  <2>2. runs[r] \in Row /\ runs[r] # None /\ runs[r].status = "running"
    BY <1>1, <2>1, HoldsRow, NoneAssumption
  <2>3. t \in Threads
    BY <2>2, RowFields
  <2>4. threadLease[t] \in ThreadLease /\ threadLease[t] # None /\ threadLease[t].run = r
    BY <2>1, <2>3 DEF HoldsThread, TypeOK
  <2>. HIDE DEF u
  <2>5. row \in Row /\ held \in ThreadLease
    <3>1. row \in Row
      BY <1>1, <2>2, RowMoves
    <3>2. held \in ThreadLease
      BY <1>1, <2>4 DEF ThreadLease
    <3>. QED
      BY <3>1, <3>2
  <2>6. /\ row.status = runs[r].status /\ row.thread = runs[r].thread /\ row.seq = runs[r].seq
        /\ row.lease = runs[r].lease /\ row.until = u
        /\ held.run = threadLease[t].run /\ held.lease = threadLease[t].lease /\ held.until = u
    <3>1. /\ row.status = runs[r].status /\ row.thread = runs[r].thread
          /\ row.seq = runs[r].seq /\ row.lease = runs[r].lease /\ row.until = u
      BY <2>2 DEF Row
    <3>2. held.run = threadLease[t].run /\ held.lease = threadLease[t].lease /\ held.until = u
      BY <2>4 DEF ThreadLease
    <3>. QED
      BY <3>1, <3>2
  <2>. HIDE DEF row, held
  <2>7. row # None /\ held # None
    BY <2>5, NoneAssumption
  <2>. HIDE DEF t, r
  <2>8. runs'[r] = row /\ \A q \in Runs \ {r} : runs'[q] = runs[q]
    BY <1>1, <2>1 DEF TypeOK
  <2>9. threadLease'[t] = held /\ \A x \in Threads \ {t} : threadLease'[x] = threadLease[x]
    BY <2>1, <2>3 DEF TypeOK
  <2>10. Tables!Quiet
    BY <1>1, <2>2, <2>6, <2>7, <2>8 DEF Tables!Quiet, Tables!Same
  <2>11. Tables!Renews(r, t)
    BY <2>2, <2>4, <2>6, <2>7, <2>8, <2>9, <2>10 DEF Tables!Renews
  <2>. QED
    BY <1>1, <2>3, <2>11
<1>. QED
  BY <1>2, <1>3

LEMMA ReleaseKind ==
  ASSUME TypeOK, NEW p \in Clients, Release(p)
  PROVE  \E r \in Runs, l \in Leases \cup {None} : Tables!Releases(r, l)
<1>. DEFINE c == call[p].req
            row == [runs[c.run] EXCEPT !.lease = None, !.until = 0]
<1>1. c.run \in Runs /\ c.lease \in Leases \cup {None} /\ checkpoints' = checkpoints
  <2>1. c \in Calls /\ c.op = "release"
    BY CallType DEF Release, In
  <2>. QED
    BY <2>1, HolderType DEF Release
<1>2. threadLease' = [t \in Threads |-> IF HoldsThread(c, t) THEN None ELSE threadLease[t]]
  BY DEF Release
<1>3. CASE ~Holds(c)
  <2>1. runs' = runs
    BY <1>3 DEF Release
  <2>. QED
    BY <1>1, <1>2, <1>3, <2>1
    DEF Tables!Releases, Tables!HoldsRun, Tables!HoldsThread, Tables!Running, Holds,
        HoldsThread, Running, Exists, Tables!Quiet, Tables!Same
<1>4. CASE Holds(c)
  <2>1. runs' = [runs EXCEPT ![c.run].lease = None, ![c.run].until = 0]
    BY <1>4 DEF Release
  <2>2. runs' = [runs EXCEPT ![c.run] = row]
    BY <1>1, <2>1 DEF TypeOK
  <2>3. runs[c.run] \in Row /\ runs[c.run].status = "running" /\ runs[c.run] # None
    BY <1>1, <1>4, HoldsRow, NoneAssumption
  <2>4. row \in Row
    BY <2>3, RowMoves
  <2>5. /\ row.status = runs[c.run].status /\ row.thread = runs[c.run].thread
        /\ row.seq = runs[c.run].seq /\ row.lease = None
    BY <2>3 DEF Row
  <2>. HIDE DEF row, c
  <2>6. runs'[c.run] = row /\ (\A q \in Runs \ {c.run} : runs'[q] = runs[q]) /\ row # None
    BY <1>1, <2>2, <2>4, NoneAssumption DEF TypeOK
  <2>7. Tables!Quiet
    BY <1>1, <2>3, <2>5, <2>6 DEF Tables!Quiet, Tables!Same
  <2>8. Tables!Releases(c.run, c.lease)
    BY <1>2, <1>4, <2>5, <2>6, <2>7
      DEF Tables!Releases, Tables!HoldsRun, Tables!HoldsThread, Tables!Running, Holds,
        HoldsThread, Running, Exists
  <2>. QED
    BY <1>1, <2>8 DEF c
<1>. QED
  BY <1>3, <1>4 DEF c

\* Every step is of one of the six kinds.
LEMMA StepKinds ==
  ASSUME TypeOK, [Next]_vars
  PROVE  Tables!Step(Leases \cup {None})
<1>. DEFINE L == Leases \cup {None}
<1>1. ASSUME Tables!Untouched PROVE Tables!Step(L)
  BY <1>1 DEF Tables!Step
<1>2. runs' = runs /\ threadLease' = threadLease /\ checkpoints' = checkpoints => Tables!Step(L)
  BY DEF Tables!Step, Tables!Untouched, Tables!Quiet, Tables!Same, Tables!SameLease
<1>3. ASSUME NEW p \in Clients, Perform(p) PROVE Tables!Step(L)
  <2>1. CASE StartRun(p)
    BY <2>1, StartKind DEF Tables!Step
  <2>2. CASE CommitRun(p)
    BY <2>2, CommitKind DEF Tables!Step
  <2>3. CASE ReserveEffect(p) \/ StartEffect(p)
    BY <1>2, <2>3 DEF ReserveEffect, StartEffect
  <2>4. CASE MarkCancelled(p)
    BY <2>4, MarkKind DEF Tables!Step
  <2>5. CASE Renew(p)
    BY <2>5, RenewKind DEF Tables!Step
  <2>6. CASE Release(p)
    BY <2>6, ReleaseKind DEF Tables!Step
  <2>. QED
    BY <1>3, <2>1, <2>2, <2>3, <2>4, <2>5, <2>6 DEF Perform
<1>4. CASE ReapStale
  BY <1>4, ReapKind DEF Tables!Step
<1>5. ASSUME NEW p \in Clients, Fail(p) \/ \E req \in Requests : Call(p, req) PROVE Tables!Step(L)
  BY <1>2, <1>5 DEF Fail, Call, tables
<1>6. ASSUME ReaperFails \/ SetClock \/ (\E S \in SUBSET Runs : List(S)) \/ UNCHANGED vars
      PROVE  Tables!Step(L)
  BY <1>2, <1>6 DEF ReaperFails, SetClock, List, vars, tables
<1>. QED
  BY <1>3, <1>4, <1>5, <1>6 DEF Next

-----------------------------------------------------------------------------
(* The two copies of a lease.                                               *)

LEMMA ShapedTables ==
  ASSUME TypeOK
  PROVE  Tables!Shaped
<1>1. \A r \in Runs : runs[r] # None => runs[r].thread \in Threads /\ runs[r].seq \in Nat
  <2>1. \A r \in Runs : runs[r] # None => runs[r] \in Row
    BY DEF TypeOK
  <2>. QED
    BY <2>1, RowFields
<1>2. \A t \in Threads : threadLease[t] # None => threadLease[t].run \in Runs
  BY DEF TypeOK, ThreadLease
<1>. QED
  BY <1>1, <1>2, TenureAssumption DEF Tables!Shaped, Tables!Tenure, Tenure

LEMMA AgreeIsLeases ==
  ASSUME TypeOK
  PROVE  LeasesAgree /\ LeasesEqual <=> \A t \in Threads : Tables!Agree(t)
<1>1. \A t \in Threads : threadLease[t] # None => threadLease[t].run \in Runs
  BY DEF TypeOK, ThreadLease
<1>. QED
  BY <1>1 DEF LeasesAgree, LeasesEqual, Tables!Agree, Tables!OnThread, Tables!Names,
              Tables!Running, Running, Exists

LEMMA NextAgree == LeaseInv /\ [Next]_vars => LeaseInv'
<1>. SUFFICES ASSUME LeaseInv, [Next]_vars PROVE LeaseInv'
  OBVIOUS
<1>1. TypeOK /\ TypeOK' /\ \A t \in Threads : Tables!Agree(t)
  BY NextTypes, AgreeIsLeases DEF LeaseInv
<1>2. \A t \in Threads : Tables!Agree(t)'
  BY <1>1, ShapedTables, StepKinds, Tables!StepAgrees
<1>3. (LeasesAgree /\ LeasesEqual)'
  <2>1. \A t \in Threads : threadLease'[t] # None => threadLease'[t].run \in Runs
    BY <1>1 DEF TypeOK, ThreadLease
  <2>. QED
    BY <1>2, <2>1 DEF LeasesAgree, LeasesEqual, Tables!Agree, Tables!OnThread, Tables!Names,
                      Tables!Running, Running, Exists
<1>. QED
  BY <1>1, <1>3 DEF LeaseInv

\* The lease on a run's row and the one on its thread's row are the same in every reachable
\* state, for any connections and any movement of the clock: start, renew, release, commit and
\* reap_stale write both or neither (claim_thread_tx, delete_thread_tx, SqliteLease).
THEOREM LeaseInvariant == Spec => []LeaseInv
<1>1. Init => LeasesAgree /\ LeasesEqual
  BY DEF Init, LeasesAgree, LeasesEqual, Running, Exists
<1>2. Init => LeaseInv
  <2>1. Init => TypeOK
    BY CallsAssumption DEF Init, TypeOK
  <2>. QED
    BY <1>1, <2>1 DEF LeaseInv
<1>. QED
  BY <1>2, NextAgree, PTL DEF Spec

-----------------------------------------------------------------------------
(* The reaper.                                                              *)

LEMMA ReapStep ==
  ASSUME TypeOK, [Next]_vars, NEW r \in Runs, Running(r), runs'[r].status = "error"
  PROVE  runs[r].lease # None /\ runs[r].until <= clock /\ runs'[r].seq = runs[r].seq + 1
<1>1. runs[r] # None /\ runs[r].status = "running" /\ runs'[r] # runs[r]
  BY DEF Running, Exists
<1>2. ~Tables!Quiet
  BY <1>1 DEF Tables!Quiet, Tables!Same
<1>3. ReapStale
  <2>1. ASSUME NEW p \in Clients PROVE ~Perform(p)
    <3>1. ~StartRun(p)
      BY <1>1, <1>2, StartKind DEF Tables!Untouched, Tables!Begins
    <3>2. ~CommitRun(p)
      BY <1>1, <1>2, CommitKind DEF Tables!Untouched, Tables!Writes
    <3>3. ~(MarkCancelled(p) \/ Renew(p) \/ Release(p))
      BY <1>2, MarkKind, RenewKind, ReleaseKind
      DEF Tables!Untouched, Tables!Renews, Tables!Releases
    <3>4. ~(ReserveEffect(p) \/ StartEffect(p))
      BY <1>1 DEF ReserveEffect, StartEffect
    <3>. QED
      BY <3>1, <3>2, <3>3, <3>4 DEF Perform
  <2>. QED
    BY <1>1, <2>1 DEF Next, Call, Fail, List, ReaperFails, SetClock, vars, tables
<1>4. PICK S \in SUBSET Runs : Tables!Reaps(S) /\ \A q \in S : Lapsed(q)
  BY <1>2, <1>3, ReapKind DEF Tables!Untouched
<1>5. r \in S
  BY <1>1, <1>4 DEF Tables!Reaps
<1>. QED
  BY <1>4, <1>5 DEF Tables!Reaps, Lapsed

\* What the reaper ends is lapsed as it ends it, though it was listed in an earlier
\* transaction (reap_stale looks at each run again).
THEOREM ReapsOnlyLapsed == Spec => ReapedLapsed
<1>1. TypeOK /\ [Next]_vars =>
        [\A r \in Runs : Running(r) /\ runs'[r].status = "error" =>
           /\ runs[r].lease # None /\ runs[r].until <= clock
           /\ runs'[r].seq = runs[r].seq + 1]_vars
  BY ReapStep
<1>. QED
  BY <1>1, TypeCorrect, PTL DEF Spec, ReapedLapsed

-----------------------------------------------------------------------------
(* The fence.                                                               *)

\* The tables seen through LeaseTables are the tables seen here.
LEMMA StepFence == TypeOK /\ [Next]_vars => [Fence!Next]_(Fence!vars)
<1>. SUFFICES ASSUME TypeOK, [Next]_vars PROVE [Fence!Next]_(Fence!vars)
  OBVIOUS
<1>1. [Tables!Fence!Next]_(Tables!Fence!vars)
  BY ShapedTables, StepKinds, Tables!StepFence
<1>. QED
  BY <1>1
  DEF Fence!Next, Fence!Admit, Fence!Extend, Fence!Expire, Fence!Open, Fence!vars, TenureOf,
      Tables!Fence!Next, Tables!Fence!Admit, Tables!Fence!Extend, Tables!Fence!Expire,
      Tables!Fence!Open, Tables!Fence!vars, Tables!TenureOf

\* One file under any number of connections implements the fence of a thread, with the wall
\* clock moving either way, calls failing and the reaper working in two transactions.
THEOREM StoreImplementsFence == Spec => ImplementsFence
<1>1. Init => Fence!Init
  BY DEF Init, Fence!Init, TenureOf
<1>. QED
  BY <1>1, StepFence, TypeCorrect, PTL DEF Spec, ImplementsFence, Fence!Spec

\* A thread has one running run at most, and its checkpoint is of a run of the thread and of
\* an event that is in that run's log (running_thread_tx, the save of commit_run).
THEOREM ThreadsServeOneRun == Spec => [](Tables!OneRunning /\ Tables!CheckpointsFit)
<1>1. Init => Tables!OneRunning /\ Tables!CheckpointsFit
  BY DEF Init, Tables!OneRunning, Tables!Running, Tables!CheckpointsFit
<1>2. TypeOK /\ Tables!OneRunning /\ Tables!CheckpointsFit /\ [Next]_vars
        => (Tables!OneRunning /\ Tables!CheckpointsFit)'
  BY StepKinds, ShapedTables, Tables!StepOneRunning, Tables!StepCheckpointsFit DEF TypeOK
<1>. QED
  BY <1>1, <1>2, TypeCorrect, PTL DEF Spec

\* A run that has ended keeps its end, its thread and its log, and a checkpoint is only saved
\* by the thread's running run, as of its last event, also by a reaper or a commit that comes
\* late.
THEOREM EndedStayEnded == Spec => [][Tables!EndedKept /\ Tables!RunningSaves]_vars
<1>1. TypeOK /\ [Next]_vars => Tables!EndedKept /\ Tables!RunningSaves
  BY StepKinds, ShapedTables, Tables!StepEndedKept, Tables!StepRunningSaves DEF TypeOK
<1>. QED
  BY <1>1, TypeCorrect, PTL DEF Spec

=============================================================================
