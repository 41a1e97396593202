---------------------------- MODULE PgStoreProofs ---------------------------
(***************************************************************************)
(* PgStore for any clients, runs, threads, leases and calls: its tables keep *)
(* their shape, the two copies of a lease agree, entries are numbered        *)
(* without a gap, one caller at most is told to perform an effect, every     *)
(* call commits by checks that still hold, somebody can always go on unless   *)
(* the pool is starved, an event that ends a run is the last of its log       *)
(* unless a reaper takes a number left out, and the committed tables          *)
(* implement ThreadFence.                                                   *)
(*                                                                         *)
(* A call acts in the end on what it saw at an earlier statement.  TxInv     *)
(* and FoundInv say what of it still holds and why: a locked row changes     *)
(* under nobody but who has locked it, an inserted row keeps its run, its     *)
(* thread and its key free.  With TxInv every commit is one of the kinds of   *)
(* steps of LeaseTables.                                                    *)
(***************************************************************************)
EXTENDS PgStore, FiniteSetTheorems, TLAPS

Tables == INSTANCE LeaseTables WITH InOrder <- FALSE

-----------------------------------------------------------------------------
(* What a call still knows when it acts on it.                              *)

\* Which calls are where, what they have locked and which entry they number.
PcFits(p) ==
  tx[p] # None =>
    /\ tx[p].pc \in {"session", "lookup", "insert", "share", "again"} => In(p, "start")
    /\ tx[p].pc = "row" => ~In(p, "start") /\ ~In(p, "reap_stale")
    /\ tx[p].pc = "rows" => In(p, "reap_stale")
    /\ tx[p].pc = "mark" => In(p, "mark_cancelled")
    /\ tx[p].pc = "entries" => (In(p, "start") \/ In(p, "commit")) /\ tx[p].req.entry # None
    /\ tx[p].seq # 0 =>
         tx[p].pc = "commit" /\ (In(p, "start") \/ In(p, "commit")) /\ tx[p].req.entry # None
    /\ tx[p].locked # {} => tx[p].pc \in {"entries", "commit"} /\ ~In(p, "start")

\* A call for a run finds it: runs are never deleted.
RunFits(p) ==
  tx[p] # None /\ ~In(p, "start") /\ ~In(p, "reap_stale") => Exists(tx[p].req.run)

\* What a transaction found as it locked a row is still so.
HasLease(p) == Holds(p, tx[p].req.run)

CommitFits(p) ==
  In(p, "commit") /\ tx[p].pc \in {"entries", "commit"} =>
    /\ tx[p].locked = {tx[p].req.run} /\ Running(tx[p].req.run) /\ ValidCommit(tx[p].req)
    /\ tx[p].req.seq > 0 => tx[p].req.seq > runs[tx[p].req.run].seq

LeaseFits(p) ==
  /\ In(p, "renew") /\ At(p, "commit") => tx[p].locked = {tx[p].req.run} /\ HasLease(p)
  /\ In(p, "release") /\ At(p, "commit") =>
       tx[p].locked = IF HasLease(p) THEN {tx[p].req.run} ELSE {}

ReapFits(p) ==
  /\ In(p, "reap_stale") /\ At(p, "commit") =>
       \A r \in tx[p].locked : Running(r) /\ tx[p].next[r] # 0
  /\ tx[p] # None => \A r \in Runs :
       tx[p].next[r] # 0 => Exists(r) /\ tx[p].next[r] <= runs[r].seq + 1

\* The row a start has inserted keeps its run and its thread free for it.
InsertFits(p) ==
  Inserted(p) => /\ ~Exists(tx[p].req.run)
                 /\ \A r \in Runs : Running(r) => runs[r].thread # tx[p].req.thread

Fits(p) ==
  PcFits(p) /\ RunFits(p) /\ CommitFits(p) /\ LeaseFits(p) /\ ReapFits(p) /\ InsertFits(p)

\* Two transactions do not hold the same row, nor insert the same run or thread.
Apart(p, q) ==
  /\ tx[p] # None /\ tx[q] # None => tx[p].locked \cap tx[q].locked = {}
  /\ Inserted(p) /\ Inserted(q) =>
       tx[p].req.run # tx[q].req.run /\ tx[p].req.thread # tx[q].req.thread

TxInv ==
  /\ \A p \in Clients : Fits(p)
  /\ \A p, q \in Clients : p # q => Apart(p, q)


\* Who has the session row for update numbers its entry next, and alone.
EntryFits(p) ==
  tx[p] # None /\ tx[p].seq # 0 =>
    /\ entries[tx[p].req.entry.key] = None
    /\ tx[p].seq = Max(EntrySeqs \cup {0}) + 1

EffectsFit ==
  \A r \in Runs : /\ told[r] <= 1
                  /\ effects[r] \in {None, "reserved", "failed"} => told[r] = 0

-----------------------------------------------------------------------------
(* Rows, calls and transactions.                                            *)

LEMMA NextEntrySeq ==
  ASSUME TypeOK
  PROVE  Max(EntrySeqs \cup {0}) + 1 \in Nat
<1>. DEFINE held == {k \in EntryKeys : entries[k] # None}
            seqOf == [k \in held |-> entries[k].seq]
<1>1. IsFiniteSet(held)
  BY CallsAssumption, FS_Subset
<1>2. seqOf \in [held -> Nat]
  BY DEF TypeOK, EntryRow
<1>3. EntrySeqs = {seqOf[k] : k \in held}
  BY DEF EntrySeqs
<1>. HIDE DEF held, seqOf
<1>4. PICK m \in EntrySeqs \cup {0} : \A k \in EntrySeqs \cup {0} : m >= k
  <2>1. Tables!IsFiniteSet(held)
    BY <1>1 DEF IsFiniteSet, Tables!IsFiniteSet
  <2>2. \E m \in {seqOf[k] : k \in held} \cup {0} :
          \A k \in {seqOf[i] : i \in held} \cup {0} : m >= k
    BY ONLY <1>2, <2>1, Tables!GreatestNumber
  <2>. QED
    BY <1>3, <2>2
<1>5. EntrySeqs \cup {0} \subseteq Nat
  BY <1>2, <1>3
<1>6. Max(EntrySeqs \cup {0}) \in EntrySeqs \cup {0}
  BY <1>4 DEF Max
<1>. QED
  BY <1>5, <1>6

LEMMA RowFields ==
  ASSUME NEW row \in Row
  PROVE  /\ row.status \in {"running", "ended"} /\ row.thread \in Threads
         /\ row.key \in Keys \cup {None} /\ row.lease \in Leases \cup {None}
         /\ row.until \in Nat /\ row.seq \in Nat /\ row.cancel \in BOOLEAN
         /\ row.gaps \in SUBSET Nat /\ row # None
BY NoneAssumption DEF Row

\* What a further event changes of a row: it is the last, or it takes a number left out.
LEMMA EventMoves ==
  ASSUME NEW row \in Row, NEW n \in Nat
  PROVE  /\ WithEvent(row, n) \in Row
         /\ WithEvent(row, n).seq = IF n > row.seq THEN n ELSE row.seq
         /\ n <= row.seq => WithEvent(row, n).gaps = row.gaps \ {n}
         /\ WithEvent(row, n).status = row.status /\ WithEvent(row, n).thread = row.thread
         /\ WithEvent(row, n).key = row.key /\ WithEvent(row, n).lease = row.lease
         /\ WithEvent(row, n).until = row.until
<1>1. row.seq \in Nat
  BY RowFields
<1>2. /\ WithEvent(row, n).seq = IF n > row.seq THEN n ELSE row.seq
      /\ n <= row.seq => WithEvent(row, n).gaps = row.gaps \ {n}
      /\ WithEvent(row, n).status = row.status /\ WithEvent(row, n).thread = row.thread
      /\ WithEvent(row, n).key = row.key /\ WithEvent(row, n).lease = row.lease
      /\ WithEvent(row, n).until = row.until
  BY <1>1 DEF WithEvent, Row
<1>3. n > row.seq => row.seq + 1 .. n - 1 \subseteq Nat
  BY <1>1
<1>4. WithEvent(row, n) \in Row
  <2>1. CASE n > row.seq
    <3>. DEFINE G == row.gaps \cup (row.seq + 1 .. n - 1)
    <3>1. G \in SUBSET Nat
      BY <1>3, <2>1, RowFields
    <3>2. WithEvent(row, n) = [row EXCEPT !.seq = n, !.gaps = G]
      BY <2>1 DEF WithEvent
    <3>. HIDE DEF G
    <3>. QED
      BY <3>1, <3>2 DEF Row
  <2>2. CASE ~(n > row.seq)
    <3>. DEFINE G == row.gaps \ {n}
    <3>1. G \in SUBSET Nat
      BY RowFields
    <3>2. WithEvent(row, n) = [row EXCEPT !.gaps = G]
      BY <2>2 DEF WithEvent
    <3>. HIDE DEF G
    <3>. QED
      BY <3>1, <3>2 DEF Row
  <2>. QED
    BY <2>1, <2>2
<1>. QED
  BY <1>2, <1>4

LEMMA EndMoves ==
  ASSUME NEW row \in Row, NEW n \in Nat
  PROVE  /\ Ended(row, n) \in Row
         /\ Ended(row, n).seq = IF n > row.seq THEN n ELSE row.seq
         /\ n <= row.seq => Ended(row, n).gaps = row.gaps \ {n}
         /\ Ended(row, n).status = "ended" /\ Ended(row, n).thread = row.thread
         /\ Ended(row, n).key = row.key
<1>. DEFINE w == WithEvent(row, n)
<1>1. /\ w \in Row /\ w.seq = (IF n > row.seq THEN n ELSE row.seq)
      /\ n <= row.seq => w.gaps = row.gaps \ {n}
      /\ w.thread = row.thread /\ w.key = row.key
  BY EventMoves
<1>2. Ended(row, n) = [w EXCEPT !.status = "ended", !.lease = None, !.until = 0]
  BY DEF Ended
<1>. HIDE DEF w
<1>3. Ended(row, n) \in Row
  BY <1>1, <1>2 DEF Row
<1>. QED
  BY <1>1, <1>2, <1>3 DEF Row

LEMMA RowMoves ==
  ASSUME NEW row \in Row, NEW n \in Nat
  PROVE  /\ [row EXCEPT !.cancel = TRUE] \in Row
         /\ row.status = "running" => [row EXCEPT !.until = n] \in Row
         /\ row.status = "running" => [row EXCEPT !.lease = None, !.until = 0] \in Row
<1>1. [row EXCEPT !.cancel = TRUE] \in Row
  BY DEF Row
<1>2. row.status = "running" => [row EXCEPT !.until = n] \in Row
  BY DEF Row
<1>3. row.status = "running" => [row EXCEPT !.lease = None, !.until = 0] \in Row
  BY DEF Row
<1>. QED
  BY <1>1, <1>2, <1>3

LEMMA StartType ==
  ASSUME NEW s \in Calls, s.op = "start"
  PROVE  /\ s.run \in Runs /\ s.thread \in Threads /\ s.key \in Keys \cup {None}
         /\ s.lease \in Leases \cup {None} /\ s.entry \in Entry \cup {None}
BY DEF Calls

LEMMA CommitType ==
  ASSUME NEW c \in Calls, c.op = "commit"
  PROVE  /\ c.run \in Runs /\ c.lease \in Leases \cup {None} /\ c.seq \in Nat
         /\ c.finish \in BOOLEAN /\ c.saves \in BOOLEAN
         /\ c.effect \in EffectStatus \cup {None} /\ c.entry \in Entry \cup {None}
BY DEF Calls

LEMMA HolderType ==
  ASSUME NEW c \in Calls, c.op \in {"renew", "release", "reserve_effect", "start_effect"}
  PROVE  c.run \in Runs /\ c.lease \in Leases \cup {None}
BY DEF Calls

LEMMA MarkType ==
  ASSUME NEW c \in Calls, c.op = "mark_cancelled"
  PROVE  c.run \in Runs
BY DEF Calls

LEMMA OpType ==
  ASSUME NEW c \in Calls
  PROVE  c.op \in {"start", "commit", "renew", "release", "reserve_effect", "start_effect",
                   "mark_cancelled", "reap_stale"}
BY DEF Calls

\* Every call but the reaper's is for a run.
LEMMA RunType ==
  ASSUME NEW c \in Calls, c.op # "reap_stale"
  PROVE  c.run \in Runs
BY StartType, CommitType, HolderType, MarkType, OpType

LEMMA TxType ==
  ASSUME TypeOK, NEW p \in Clients, tx[p] # None
  PROVE  /\ tx[p] \in Tx /\ tx[p].req \in Calls /\ tx[p].req \in Requests /\ tx[p].now \in Nat
         /\ tx[p].locked \in SUBSET Runs /\ tx[p].seq \in Nat /\ tx[p].next \in [Runs -> Nat]
BY CallsAssumption DEF TypeOK, Tx

Pcs == {"session", "lookup", "begin", "insert", "share", "row", "rows", "entries", "commit",
        "again", "mark"}

LEMMA TxMoves ==
  ASSUME NEW x \in Tx, NEW pc \in Pcs
  PROVE  /\ [x EXCEPT !.pc = pc] \in Tx
         /\ \A n \in Nat : [x EXCEPT !.pc = pc, !.now = n] \in Tx
         /\ \A n \in Nat : [x EXCEPT !.pc = pc, !.seq = n] \in Tx
         /\ \A S \in SUBSET Runs : [x EXCEPT !.pc = pc, !.locked = S] \in Tx
         /\ \A n \in Nat, f \in [Runs -> Nat] :
              [x EXCEPT !.pc = pc, !.now = n, !.next = f] \in Tx
BY DEF Tx, Pcs

-----------------------------------------------------------------------------
(* Steps that only look: no table changes, and what the call sees it may     *)
(* rely on.                                                                 *)

Kept(p) ==
  /\ UNCHANGED <<tables, told>> /\ clock' \in 0 .. MaxClock /\ calls' \in 0 .. MaxCalls
  /\ tx' \in [Clients -> Tx \cup {None}]
  /\ \A q \in Clients \ {p} : tx'[q] = tx[q]
  /\ Fits(p)' /\ \A q \in Clients \ {p} : Apart(p, q)'
  /\ EntryFits(p)' /\ \A q \in Clients \ {p} : ~(UpdatesSession(p)' /\ UpdatesSession(q)')

\* A call that has locked and inserted nothing.
LEMMA Resting ==
  ASSUME NEW p \in Clients, UNCHANGED <<tables, told>>,
         clock' \in 0 .. MaxClock, calls' \in 0 .. MaxCalls,
         tx' \in [Clients -> Tx \cup {None}], \A q \in Clients \ {p} : tx'[q] = tx[q],
         tx'[p] # None =>
           /\ tx'[p].locked = {} /\ tx'[p].seq = 0
           /\ tx'[p].pc \notin {"share", "entries", "commit"}
           /\ PcFits(p)' /\ RunFits(p)'
           /\ \A r \in Runs : tx'[p].next[r] # 0 => Exists(r) /\ tx'[p].next[r] <= runs[r].seq + 1
  PROVE  Kept(p)
<1>1. PcFits(p)' /\ RunFits(p)'
  BY DEF PcFits, RunFits
<1>2. CommitFits(p)' /\ LeaseFits(p)' /\ InsertFits(p)'
  BY DEF CommitFits, LeaseFits, InsertFits, In, At, Inserted
<1>3. ReapFits(p)'
  BY DEF ReapFits, In, At, Exists, tables
<1>4. \A q \in Clients \ {p} : Apart(p, q)'
  BY DEF Apart, Inserted, In
<1>5. EntryFits(p)' /\ ~UpdatesSession(p)'
  BY DEF EntryFits, UpdatesSession, In
<1>. QED
  BY <1>1, <1>2, <1>3, <1>4, <1>5 DEF Kept, Fits

LEMMA Answered ==
  ASSUME TypeOK, NEW p \in Clients, Answer(p), Unwritten
  PROVE  Kept(p)
<1>1. /\ tx' \in [Clients -> Tx \cup {None}] /\ tx'[p] = None
      /\ \A q \in Clients \ {p} : tx'[q] = tx[q]
  BY DEF Answer, TypeOK
<1>2. /\ UNCHANGED <<tables, told>> /\ clock' \in 0 .. MaxClock /\ calls' \in 0 .. MaxCalls
  BY DEF Unwritten, TypeOK
<1>. QED
  BY <1>1, <1>2, Resting

\* To a place where nothing is locked or inserted yet.
LEMMA Moves ==
  ASSUME TypeOK, TxInv, NEW p \in Clients, NEW pc \in {"lookup", "begin", "again", "row", "insert"},
         Unwritten, tx[p] # None, tx[p].pc \in {"session", "lookup", "begin", "insert"},
         NEW n \in Nat,
         tx' = [tx EXCEPT ![p] = [tx[p] EXCEPT !.pc = pc, !.now = n]],
         pc \in {"lookup", "again", "insert"} => In(p, "start"),
         pc = "row" => ~In(p, "start") /\ ~In(p, "reap_stale")
  PROVE  Kept(p)
<1>. DEFINE x == [tx[p] EXCEPT !.pc = pc, !.now = n]
<1>1. tx[p] \in Tx /\ x \in Tx
  BY TxType, TxMoves DEF Pcs
<1>2. /\ x.req = tx[p].req /\ x.pc = pc /\ x.locked = tx[p].locked /\ x.seq = tx[p].seq
      /\ x.next = tx[p].next
  BY <1>1 DEF Tx
<1>. HIDE DEF x
<1>3. /\ tx' \in [Clients -> Tx \cup {None}] /\ tx'[p] = x
      /\ \A q \in Clients \ {p} : tx'[q] = tx[q]
  BY <1>1 DEF TypeOK, x
<1>4. x # None
  BY <1>1, NoneAssumption
<1>5. Fits(p)
  BY DEF TxInv
<1>6. x.locked = {} /\ x.seq = 0
  BY <1>2, <1>5 DEF Fits, PcFits
<1>7. PcFits(p)'
  BY ZenonT(60), <1>2, <1>3, <1>4, <1>6 DEF PcFits, In
<1>8. RunFits(p)'
  BY <1>2, <1>3, <1>4, <1>5 DEF Fits, RunFits, In, Exists, Unwritten, tables
<1>9. \A r \in Runs : x.next[r] # 0 => Exists(r) /\ x.next[r] <= runs[r].seq + 1
  BY <1>2, <1>5 DEF Fits, ReapFits
<1>10. /\ UNCHANGED <<tables, told>> /\ clock' \in 0 .. MaxClock /\ calls' \in 0 .. MaxCalls
  BY DEF Unwritten, TypeOK
<1>. QED
  BY <1>2, <1>3, <1>6, <1>7, <1>8, <1>9, <1>10, Resting

\* Goto leaves the time alone.
LEMMA GotoMoves ==
  ASSUME TypeOK, NEW p \in Clients, tx[p] # None, NEW pc, Goto(p, pc)
  PROVE  tx' = [tx EXCEPT ![p] = [tx[p] EXCEPT !.pc = pc, !.now = tx[p].now]]
<1>1. [tx[p] EXCEPT !.pc = pc] = [tx[p] EXCEPT !.pc = pc, !.now = tx[p].now]
  BY TxType DEF Tx
<1>2. tx' = [tx EXCEPT ![p] = [tx[p] EXCEPT !.pc = pc]]
  BY DEF Goto, TypeOK
<1>. QED
  BY <1>1, <1>2

LEMMA LooksAround ==
  ASSUME TypeOK, TxInv, NEW p \in Clients,
         EnsureSession(p) \/ LookUp(p) \/ BeginStart(p) \/ Begin(p) \/ LookAgain(p)
         \/ DeadlockAbort(p) \/ Abort(p)
  PROVE  Kept(p)
<1>1. Fits(p)
  BY DEF TxInv
<1>2. CASE EnsureSession(p)
  <2>1. tx[p] # None /\ tx[p].pc = "session" /\ Goto(p, "lookup") /\ Unwritten
    BY <1>2 DEF EnsureSession, At
  <2>2. In(p, "start") /\ tx[p].now \in Nat
    BY <1>1, <2>1, TxType DEF Fits, PcFits
  <2>. QED
    BY <2>1, <2>2, GotoMoves, Moves
<1>3. CASE LookUp(p)
  <2>1. tx[p] # None /\ tx[p].pc = "lookup" /\ Unwritten
    BY <1>3 DEF LookUp, At
  <2>2. CASE Answer(p)
    BY <2>1, <2>2, Answered
  <2>3. CASE Goto(p, "begin")
    BY <2>1, <2>3, GotoMoves, Moves, TxType
  <2>. QED
    BY <1>3, <2>2, <2>3 DEF LookUp
<1>4. CASE BeginStart(p)
  <2>1. tx[p] # None /\ tx[p].pc = "begin" /\ In(p, "start") /\ Unwritten
    BY <1>4 DEF BeginStart, At
  <2>2. CASE Answer(p)
    BY <2>1, <2>2, Answered
  <2>3. CASE tx' = [tx EXCEPT ![p].pc = "insert", ![p].now = clock]
    <3>1. tx' = [tx EXCEPT ![p] = [tx[p] EXCEPT !.pc = "insert", !.now = clock]]
      BY <2>3 DEF TypeOK
    <3>2. clock \in Nat
      BY CallsAssumption DEF TypeOK
    <3>. QED
      BY <2>1, <3>1, <3>2, Moves
  <2>. QED
    BY <1>4, <2>2, <2>3 DEF BeginStart
<1>5. CASE Begin(p)
  <2>1. tx[p] # None /\ tx[p].pc = "begin" /\ ~In(p, "start") /\ ~In(p, "reap_stale") /\ Unwritten
    BY <1>5 DEF Begin, At
  <2>2. tx' = [tx EXCEPT ![p] = [tx[p] EXCEPT !.pc = "row", !.now = clock]]
    BY <1>5 DEF Begin, TypeOK
  <2>3. clock \in Nat
    BY CallsAssumption DEF TypeOK
  <2>. QED
    BY <2>1, <2>2, <2>3, Moves
<1>6. CASE LookAgain(p) \/ DeadlockAbort(p) \/ Abort(p)
  BY <1>6, Answered DEF LookAgain, DeadlockAbort, Abort
<1>. QED
  BY <1>2, <1>3, <1>4, <1>5, <1>6

\* To a place where the call has locked the rows S, or has inserted its own.
LEMMA Holding ==
  ASSUME TypeOK, TxInv, NEW p \in Clients, NEW pc \in {"share", "entries", "commit"},
         NEW S \in SUBSET Runs, NEW n \in Nat, Unwritten, tx[p] # None,
         tx' = [tx EXCEPT ![p] = [tx[p] EXCEPT !.pc = pc, !.locked = S, !.seq = n]],
         pc = "share" => In(p, "start"),
         pc = "entries" => (In(p, "start") \/ In(p, "commit")) /\ tx[p].req.entry # None,
         n # 0 => /\ pc = "commit" /\ (In(p, "start") \/ In(p, "commit"))
                  /\ tx[p].req.entry # None /\ entries[tx[p].req.entry.key] = None
                  /\ n = Max(EntrySeqs \cup {0}) + 1,
         S # {} => pc # "share" /\ ~In(p, "start"),
         \A q \in Clients \ {p} : tx[q] # None => S \cap tx[q].locked = {},
         In(p, "start") =>
           /\ ~Exists(tx[p].req.run)
           /\ \A r \in Runs : Running(r) => runs[r].thread # tx[p].req.thread
           /\ \A q \in Clients \ {p} : Inserted(q) =>
                tx[p].req.run # tx[q].req.run /\ tx[p].req.thread # tx[q].req.thread,
         In(p, "commit") =>
           /\ S = {tx[p].req.run} /\ Running(tx[p].req.run) /\ ValidCommit(tx[p].req)
           /\ tx[p].req.seq > 0 => tx[p].req.seq > runs[tx[p].req.run].seq,
         In(p, "renew") => S = {tx[p].req.run} /\ HasLease(p),
         In(p, "release") => S = IF HasLease(p) THEN {tx[p].req.run} ELSE {},
         In(p, "reap_stale") => \A r \in S : Running(r) /\ tx[p].next[r] # 0,
         (In(p, "start") \/ In(p, "commit")) /\ pc = "commit" /\ tx[p].req.entry # None =>
           \A q \in Clients \ {p} : ~UpdatesSession(q)
  PROVE  Kept(p)
<1>. DEFINE x == [tx[p] EXCEPT !.pc = pc, !.locked = S, !.seq = n]
<1>1. tx[p] \in Tx /\ x \in Tx
  BY TxType DEF Tx
<1>2. /\ x.req = tx[p].req /\ x.pc = pc /\ x.locked = S /\ x.seq = n
      /\ x.next = tx[p].next
  BY <1>1 DEF Tx
<1>. HIDE DEF x
<1>3. /\ tx' \in [Clients -> Tx \cup {None}] /\ tx'[p] = x
      /\ \A q \in Clients \ {p} : tx'[q] = tx[q]
  BY <1>1 DEF TypeOK, x
<1>4. x # None
  BY <1>1, NoneAssumption
<1>5. Fits(p) /\ UNCHANGED tables
  BY DEF TxInv, Unwritten
<1>6. /\ In(p, "start")' <=> In(p, "start")
      /\ In(p, "commit")' <=> In(p, "commit")
      /\ In(p, "renew")' <=> In(p, "renew")
      /\ In(p, "release")' <=> In(p, "release")
      /\ In(p, "reap_stale")' <=> In(p, "reap_stale")
      /\ In(p, "mark_cancelled")' <=> In(p, "mark_cancelled")
  BY <1>2, <1>3, <1>4 DEF In
<1>7. PcFits(p)'
  BY <1>2, <1>3, <1>6 DEF PcFits
<1>8. RunFits(p)'
  BY <1>2, <1>3, <1>5, <1>6 DEF Fits, RunFits, Exists, tables
<1>9. CommitFits(p)'
  BY <1>2, <1>3, <1>5, <1>6 DEF CommitFits, Running, Exists, tables, ValidCommit
<1>10. HasLease(p)' <=> HasLease(p)
  BY <1>2, <1>3, <1>5 DEF HasLease, Holds, Running, Exists, tables
<1>11. LeaseFits(p)'
  BY <1>2, <1>3, <1>6, <1>10 DEF LeaseFits, At
<1>12. ReapFits(p)'
  BY <1>2, <1>3, <1>4, <1>5, <1>6 DEF At, Fits, ReapFits, Running, Exists, tables
<1>13. InsertFits(p)'
  BY <1>2, <1>3, <1>5, <1>6 DEF InsertFits, Inserted, Running, Exists, tables
<1>14. ASSUME NEW q \in Clients \ {p} PROVE Apart(p, q)'
  <2>1. tx'[q] = tx[q] /\ (Inserted(q)' <=> Inserted(q)) /\ (Inserted(p)' => In(p, "start"))
    BY <1>3, <1>6 DEF Inserted, In
  <2>. QED
    BY <1>2, <1>3, <2>1 DEF Apart
<1>15. EntryFits(p)'
  BY <1>2, <1>3, <1>5 DEF EntryFits, EntrySeqs, tables
<1>16. UpdatesSession(p)' => \A q \in Clients \ {p} : ~UpdatesSession(q)'
  <2>1. \A q \in Clients \ {p} : UpdatesSession(q)' <=> UpdatesSession(q)
    BY <1>3 DEF UpdatesSession, In
  <2>. QED
    BY <1>2, <1>3, <1>6, <2>1 DEF UpdatesSession
<1>17. /\ UNCHANGED <<tables, told>> /\ clock' \in 0 .. MaxClock /\ calls' \in 0 .. MaxCalls
  BY DEF Unwritten, TypeOK
<1>. QED
  BY <1>3, <1>7, <1>8, <1>9, <1>11, <1>12, <1>13, <1>14, <1>15, <1>16, <1>17 DEF Kept, Fits

\* A transaction that keeps what it has locked and numbered.
LEMMA GotoHolds ==
  ASSUME TypeOK, NEW p \in Clients, tx[p] # None, NEW pc, Goto(p, pc)
  PROVE  tx' = [tx EXCEPT ![p] = [tx[p] EXCEPT !.pc = pc, !.locked = tx[p].locked,
                                               !.seq = tx[p].seq]]
<1>1. [tx[p] EXCEPT !.pc = pc] = [tx[p] EXCEPT !.pc = pc, !.locked = tx[p].locked,
                                               !.seq = tx[p].seq]
  BY TxType DEF Tx
<1>2. tx' = [tx EXCEPT ![p] = [tx[p] EXCEPT !.pc = pc]]
  BY DEF Goto, TypeOK
<1>. QED
  BY <1>1, <1>2

LEMMA InsertHolds ==
  ASSUME TypeOK, TxInv, NEW p \in Clients, Insert(p)
  PROVE  Kept(p)
<1>1. tx[p] # None /\ tx[p].pc = "insert" /\ Unwritten /\ IndexFree(p)
  BY DEF Insert, At
<1>2. In(p, "start") /\ tx[p].locked = {} /\ tx[p].seq = 0
  BY <1>1 DEF TxInv, Fits, PcFits
<1>3. CASE UniqueViolation(tx[p].req)
  <2>1. Goto(p, "again")
    BY <1>3 DEF Insert
  <2>2. tx[p].now \in Nat
    BY <1>1, TxType
  <2>. QED
    BY <1>1, <1>2, <2>1, <2>2, GotoMoves, Moves
<1>4. CASE ~UniqueViolation(tx[p].req)
  <2>1. Goto(p, "share")
    BY <1>4 DEF Insert
  <2>2. /\ ~Exists(tx[p].req.run)
        /\ \A r \in Runs : Running(r) => runs[r].thread # tx[p].req.thread
    BY <1>4 DEF UniqueViolation, RunningOthers, Running
  <2>3. \A q \in Clients \ {p} : Inserted(q) =>
          tx[p].req.run # tx[q].req.run /\ tx[p].req.thread # tx[q].req.thread
    BY <1>1 DEF IndexFree
  <2>4. ~In(p, "commit") /\ ~In(p, "renew") /\ ~In(p, "release") /\ ~In(p, "reap_stale")
    BY <1>2 DEF In
  <2>5. tx' = [tx EXCEPT ![p] = [tx[p] EXCEPT !.pc = "share", !.locked = tx[p].locked,
                                               !.seq = tx[p].seq]]
    BY <1>1, <2>1, GotoHolds
  <2>6. tx[p].locked \in SUBSET Runs /\ tx[p].seq \in Nat
    BY <1>1, TxType
  <2>. QED
    BY <1>1, <1>2, <2>2, <2>3, <2>4, <2>5, <2>6, Holding
<1>. QED
  BY <1>3, <1>4

\* What a start knows of its inserted row.
LEMMA InsertedFits ==
  ASSUME TxInv, NEW p \in Clients, Inserted(p)
  PROVE  /\ In(p, "start") /\ tx[p].locked = {}
         /\ ~Exists(tx[p].req.run)
         /\ \A r \in Runs : Running(r) => runs[r].thread # tx[p].req.thread
         /\ \A q \in Clients \ {p} : Inserted(q) =>
              tx[p].req.run # tx[q].req.run /\ tx[p].req.thread # tx[q].req.thread
<1>1. Fits(p) /\ In(p, "start") /\ tx[p] # None
  BY DEF TxInv, Inserted, In
<1>2. \A q \in Clients \ {p} : Apart(p, q)
  BY DEF TxInv
<1>. QED
  BY <1>1, <1>2 DEF Fits, PcFits, InsertFits, Apart

LEMMA ClaimHolds ==
  ASSUME TypeOK, TxInv, NEW p \in Clients, Claim(p)
  PROVE  Kept(p)
<1>1. tx[p] # None /\ tx[p].pc = "share" /\ Unwritten
  BY DEF Claim, At
<1>2. In(p, "start") /\ tx[p].seq = 0
  BY <1>1 DEF TxInv, Fits, PcFits
<1>3. Inserted(p)
  BY <1>1, <1>2 DEF Inserted
<1>4. CASE Answer(p)
  BY <1>1, <1>4, Answered
<1>5. CASE ~Answer(p)
  <2>. DEFINE pc == IF tx[p].req.entry = None THEN "commit" ELSE "entries"
  <2>1. Goto(p, pc)
    BY <1>5 DEF Claim
  <2>2. ~In(p, "commit") /\ ~In(p, "renew") /\ ~In(p, "release") /\ ~In(p, "reap_stale")
    BY <1>2 DEF In
  <2>3. tx' = [tx EXCEPT ![p] = [tx[p] EXCEPT !.pc = pc, !.locked = tx[p].locked,
                                               !.seq = tx[p].seq]]
    BY <1>1, <2>1, GotoHolds
  <2>4. pc \in {"entries", "commit"} /\ (pc = "commit" <=> tx[p].req.entry = None)
    OBVIOUS
  <2>5. tx[p].locked = {} /\ tx[p].locked \in SUBSET Runs /\ tx[p].seq \in Nat
    BY <1>1, <1>3, InsertedFits, TxType
  <2>. HIDE DEF pc
  <2>. QED
    BY <1>1, <1>2, <1>3, <2>2, <2>3, <2>4, <2>5, InsertedFits, Holding
<1>. QED
  BY <1>4, <1>5

LEMMA LockHolds ==
  ASSUME TypeOK, NEW p \in Clients, tx[p] # None, NEW pc, NEW S, Lock(p, pc, S)
  PROVE  tx' = [tx EXCEPT ![p] = [tx[p] EXCEPT !.pc = pc, !.locked = S, !.seq = tx[p].seq]]
<1>1. [tx[p] EXCEPT !.pc = pc, !.locked = S]
        = [tx[p] EXCEPT !.pc = pc, !.locked = S, !.seq = tx[p].seq]
  BY TxType DEF Tx
<1>2. tx' = [tx EXCEPT ![p] = [tx[p] EXCEPT !.pc = pc, !.locked = S]]
  BY DEF TypeOK, Lock
<1>. QED
  BY <1>1, <1>2

LEMMA SessionHolds ==
  ASSUME TypeOK, TxInv, NEW p \in Clients, LockSession(p)
  PROVE  Kept(p)
<1>1. tx[p] # None /\ tx[p].pc = "entries" /\ Unwritten /\ SessionFree(p)
  BY DEF LockSession, At
<1>2. (In(p, "start") \/ In(p, "commit")) /\ tx[p].req.entry # None /\ Fits(p)
  BY <1>1 DEF TxInv, Fits, PcFits
<1>3. CASE Answer(p)
  BY <1>1, <1>3, Answered
<1>4. CASE ~Answer(p)
  <2>. DEFINE n == EntrySeq(tx[p].req.entry)
  <2>1. tx' = [tx EXCEPT ![p].pc = "commit", ![p].seq = n]
    BY <1>4 DEF LockSession
  <2>2. n \in Nat
    BY NextEntrySeq DEF EntrySeq
  <2>3. n # 0 => entries[tx[p].req.entry.key] = None /\ n = Max(EntrySeqs \cup {0}) + 1
    BY DEF EntrySeq
  <2>. HIDE DEF n
  <2>4. tx' = [tx EXCEPT ![p] = [tx[p] EXCEPT !.pc = "commit", !.locked = tx[p].locked, !.seq = n]]
    <3>1. [tx[p] EXCEPT !.pc = "commit", !.seq = n]
            = [tx[p] EXCEPT !.pc = "commit", !.locked = tx[p].locked, !.seq = n]
      BY <1>1, TxType DEF Tx
    <3>2. tx' = [tx EXCEPT ![p] = [tx[p] EXCEPT !.pc = "commit", !.seq = n]]
      BY <2>1 DEF TypeOK
    <3>. QED
      BY <3>1, <3>2
  <2>5. ~In(p, "renew") /\ ~In(p, "release") /\ ~In(p, "reap_stale")
    BY <1>2 DEF In
  <2>6. tx[p].locked \in SUBSET Runs
    BY <1>1, TxType
  <2>7. \A q \in Clients \ {p} : tx[q] # None => tx[p].locked \cap tx[q].locked = {}
    BY <1>1 DEF TxInv, Apart
  <2>8. In(p, "start") => Inserted(p)
    BY <1>1 DEF Inserted
  <2>9. In(p, "commit") =>
          /\ tx[p].locked = {tx[p].req.run} /\ Running(tx[p].req.run) /\ ValidCommit(tx[p].req)
          /\ tx[p].req.seq > 0 => tx[p].req.seq > runs[tx[p].req.run].seq
    BY <1>1, <1>2 DEF Fits, CommitFits
  <2>10. \A q \in Clients \ {p} : ~UpdatesSession(q)
    BY <1>1 DEF SessionFree
  <2>11. tx[p].locked # {} => ~In(p, "start")
    BY <1>1, <1>2 DEF Fits, PcFits
  <2>. QED
    BY <1>1, <1>2, <2>2, <2>3, <2>4, <2>5, <2>6, <2>7, <2>8, <2>9, <2>10, <2>11,
       InsertedFits, Holding
<1>. QED
  BY <1>3, <1>4

LEMMA CommitHolds ==
  ASSUME TypeOK, TxInv, NEW p \in Clients, LockForCommit(p)
  PROVE  Kept(p)
<1>. DEFINE c == tx[p].req
            pc == IF c.entry = None THEN "commit" ELSE "entries"
<1>1. tx[p] # None /\ tx[p].pc = "row" /\ In(p, "commit") /\ Unwritten /\ RowFree(p, c.run)
  BY DEF LockForCommit, At
<1>2. c.run \in Runs /\ tx[p].seq = 0
  <2>1. c \in Calls /\ c.op = "commit" /\ tx[p].seq = 0
    BY <1>1, TxType DEF In, TxInv, Fits, PcFits
  <2>. QED
    BY <2>1, CommitType
<1>3. CASE Answer(p)
  BY <1>1, <1>3, Answered
<1>4. CASE ~Answer(p)
  <2>1. ValidCommit(c) /\ CommitAllowed(p, c.run)
        /\ Lock(p, pc, {c.run})
    BY <1>4 DEF LockForCommit
  <2>2. Running(c.run) /\ (c.seq > 0 => c.seq > runs[c.run].seq)
    BY <2>1 DEF CommitAllowed
  <2>3. pc \in {"commit", "entries"} /\ (pc = "commit" <=> c.entry = None)
    OBVIOUS
  <2>4. ~In(p, "start") /\ ~In(p, "renew") /\ ~In(p, "release") /\ ~In(p, "reap_stale")
    BY <1>1 DEF In
  <2>. HIDE DEF pc, c
  <2>5. tx' = [tx EXCEPT ![p] = [tx[p] EXCEPT !.pc = pc, !.locked = {c.run}, !.seq = tx[p].seq]]
    BY ZenonT(60), <1>1, <2>1, LockHolds
  <2>6. {c.run} \in SUBSET Runs /\ tx[p].seq \in Nat
    BY <1>2
  <2>7. \A q \in Clients \ {p} : tx[q] # None => {c.run} \cap tx[q].locked = {}
    BY <1>1 DEF RowFree, Locks
  <2>. QED
    BY <1>1, <1>2, <2>1, <2>2, <2>3, <2>4, <2>5, <2>6, <2>7, Holding DEF c
<1>. QED
  BY <1>3, <1>4

\* The calls with a lease and the effects.
LEMMA LeaseHolds ==
  ASSUME TypeOK, TxInv, NEW p \in Clients,
         LockForEffect(p) \/ LockForRenew(p) \/ LockForRelease(p)
  PROVE  Kept(p)
<1>. DEFINE c == tx[p].req
<1>1. tx[p] # None /\ tx[p].pc = "row" /\ Unwritten /\ RowFree(p, c.run)
      /\ (In(p, "reserve_effect") \/ In(p, "start_effect") \/ In(p, "renew") \/ In(p, "release"))
  BY DEF LockForEffect, LockForRenew, LockForRelease, At, IsEffect
<1>2. c.run \in Runs /\ tx[p].seq = 0
  <2>1. /\ c \in Calls /\ tx[p].seq = 0
        /\ c.op \in {"renew", "release", "reserve_effect", "start_effect"}
    BY <1>1, TxType DEF In, TxInv, Fits, PcFits
  <2>. QED
    BY <2>1, HolderType
<1>3. ~In(p, "start") /\ ~In(p, "commit") /\ ~In(p, "reap_stale")
  BY <1>1 DEF In
<1>4. CASE Answer(p)
  BY <1>1, <1>4, Answered
<1>5. CASE ~Answer(p)
  <2>. DEFINE S == IF In(p, "release") /\ ~HasLease(p) THEN {} ELSE {c.run}
  <2>1. Lock(p, "commit", S)
    <3>1. CASE LockForEffect(p)
      BY <1>5, <3>1 DEF LockForEffect, IsEffect, In
    <3>2. CASE LockForRenew(p)
      BY <1>5, <3>2 DEF LockForRenew, In
    <3>3. CASE LockForRelease(p)
      BY <1>5, <3>3 DEF LockForRelease, HasLease
    <3>. QED
      BY <3>1, <3>2, <3>3
  <2>2. In(p, "renew") => S = {c.run} /\ HasLease(p)
    <3>1. In(p, "renew") => LockForRenew(p)
      BY DEF LockForEffect, LockForRelease, IsEffect, In
    <3>. QED
      BY <1>5, <3>1 DEF LockForRenew, HasLease, In
  <2>3. In(p, "release") => S = IF HasLease(p) THEN {c.run} ELSE {}
    OBVIOUS
  <2>4. S \in SUBSET Runs /\ S \subseteq {c.run}
    BY <1>2
  <2>. HIDE DEF S
  <2>5. tx' = [tx EXCEPT ![p] = [tx[p] EXCEPT !.pc = "commit", !.locked = S, !.seq = tx[p].seq]]
    BY <1>1, <2>1, LockHolds
  <2>6. \A q \in Clients \ {p} : tx[q] # None => S \cap tx[q].locked = {}
    BY <1>1, <2>4 DEF RowFree, Locks
  <2>7. tx[p].seq \in Nat
    BY <1>2
  <2>. QED
    BY <1>1, <1>2, <1>3, <2>2, <2>3, <2>4, <2>5, <2>6, <2>7, Holding
<1>. QED
  BY <1>4, <1>5

LEMMA ReapHolds ==
  ASSUME TypeOK, TxInv, NEW p \in Clients, NEW S \in SUBSET Runs, LockForReap(p, S)
  PROVE  Kept(p)
<1>1. tx[p] # None /\ tx[p].pc = "rows" /\ Unwritten /\ S \subseteq Reapable(p)
      /\ Lock(p, "commit", S)
  BY DEF LockForReap, Oldest, At
<1>2. In(p, "reap_stale") /\ tx[p].seq = 0
  BY <1>1 DEF TxInv, Fits, PcFits
<1>3. ~In(p, "start") /\ ~In(p, "commit") /\ ~In(p, "renew") /\ ~In(p, "release")
  BY <1>2 DEF In
<1>4. tx' = [tx EXCEPT ![p] = [tx[p] EXCEPT !.pc = "commit", !.locked = S, !.seq = tx[p].seq]]
  BY <1>1, LockHolds
<1>5. \A r \in S : Running(r) /\ tx[p].next[r] # 0
  BY <1>1 DEF Reapable, Lapsed
<1>6. \A q \in Clients \ {p} : tx[q] # None => S \cap tx[q].locked = {}
  BY <1>1 DEF Reapable, RowFree, Locks
<1>7. tx[p].seq \in Nat
  BY <1>2
<1>. QED
  BY <1>1, <1>2, <1>3, <1>4, <1>5, <1>6, <1>7, Holding

LEMMA SnapshotKept ==
  ASSUME TypeOK, TxInv, NEW p \in Clients, BeginReap(p)
  PROVE  Kept(p)
<1>. DEFINE next == [r \in Runs |-> IF Lapsed(r, clock) THEN runs[r].seq + 1 ELSE 0]
            x == [tx[p] EXCEPT !.pc = "rows", !.now = clock, !.next = next]
<1>1. tx[p] # None /\ tx[p].pc = "begin" /\ In(p, "reap_stale") /\ Unwritten
  BY DEF BeginReap, At
<1>2. tx[p].locked = {} /\ tx[p].seq = 0
  BY <1>1 DEF TxInv, Fits, PcFits
<1>3. next \in [Runs -> Nat]
      /\ \A r \in Runs : next[r] # 0 => Exists(r) /\ next[r] <= runs[r].seq + 1
  <2>1. \A r \in Runs : Lapsed(r, clock) => Exists(r) /\ runs[r].seq \in Nat
    BY RowFields DEF Lapsed, Running, Exists, TypeOK
  <2>. QED
    BY <2>1
<1>. HIDE DEF next
<1>4. tx[p] \in Tx /\ clock \in Nat
  BY <1>1, TxType, CallsAssumption DEF TypeOK
<1>5. x \in Tx
  BY <1>3, <1>4, TxMoves DEF Pcs
<1>6. x.req = tx[p].req /\ x.pc = "rows" /\ x.locked = {} /\ x.seq = 0 /\ x.next = next
  BY <1>2, <1>4 DEF Tx
<1>7. tx' = [tx EXCEPT ![p] = x]
  BY DEF BeginReap, TypeOK, next
<1>. HIDE DEF x
<1>8. /\ tx' \in [Clients -> Tx \cup {None}] /\ tx'[p] = x
      /\ \A q \in Clients \ {p} : tx'[q] = tx[q]
  BY <1>5, <1>7 DEF TypeOK
<1>9. PcFits(p)' /\ RunFits(p)'
  BY <1>1, <1>6, <1>8 DEF PcFits, RunFits, In
<1>10. /\ UNCHANGED <<tables, told>> /\ clock' \in 0 .. MaxClock /\ calls' \in 0 .. MaxCalls
  BY <1>1 DEF Unwritten, TypeOK
<1>. QED
  BY <1>3, <1>6, <1>8, <1>9, <1>10, Resting

LEMMA CallKept ==
  ASSUME TypeOK, NEW p \in Clients, NEW req \in Requests, Call(p, req)
  PROVE  Kept(p)
<1>. DEFINE x == [req |-> req, pc |-> FirstPc(req), now |-> 0, locked |-> {}, seq |-> 0,
                  next |-> [r \in Runs |-> 0]]
<1>1. FirstPc(req) \in {"session", "mark", "begin"}
      /\ (FirstPc(req) = "session" => req.op = "start")
      /\ (FirstPc(req) = "mark" => req.op = "mark_cancelled")
  BY DEF FirstPc
<1>2. x \in Tx
  BY <1>1 DEF Tx
<1>3. /\ x.req = req /\ x.pc = FirstPc(req) /\ x.locked = {} /\ x.seq = 0
      /\ x.next = [r \in Runs |-> 0]
  OBVIOUS
<1>4. tx' = [tx EXCEPT ![p] = x]
  BY DEF Call
<1>. HIDE DEF x
<1>5. /\ tx' \in [Clients -> Tx \cup {None}] /\ tx'[p] = x
      /\ \A q \in Clients \ {p} : tx'[q] = tx[q]
  BY <1>2, <1>4 DEF TypeOK
<1>6. /\ UNCHANGED <<tables, told>> /\ clock' \in 0 .. MaxClock /\ calls' \in 0 .. MaxCalls
  BY CallsAssumption DEF Call, TypeOK
<1>7. PcFits(p)'
  BY <1>1, <1>3, <1>5 DEF PcFits, In
<1>8. RunFits(p)'
  <2>1. req.op \notin {"start", "reap_stale"} => Exists(req.run)
    BY DEF Call, Callable
  <2>2. UNCHANGED tables
    BY <1>6
  <2>. QED
    BY <1>3, <1>5, <2>1, <2>2 DEF RunFits, In, Exists, tables
<1>. QED
  BY <1>1, <1>3, <1>5, <1>6, <1>7, <1>8, Resting

-----------------------------------------------------------------------------
(* Steps that commit: of which kind each is, given what the call has locked  *)
(* or inserted.                                                             *)

\* Where a reaper's events go.
Closes(p) ==
  /\ In(p, "reap_stale") /\ At(p, "commit")
  /\ \A r \in tx[p].locked :
       \/ runs'[r].seq = runs[r].seq + 1
       \/ /\ runs'[r].seq = runs[r].seq
          /\ \E n \in runs[r].gaps : runs'[r].gaps = runs[r].gaps \ {n}

StepBy(p) ==
  \/ Tables!Untouched
  \/ Inserted(p) /\ Tables!Begins(tx[p].req.run, tx[p].req.thread)
  \/ \E r \in tx[p].locked : Tables!Writes(r)
  \/ Tables!Reaps(tx[p].locked) /\ Closes(p)
  \/ \E r \in tx[p].locked, t \in Threads : Tables!Renews(r, t)
  \/ \E r \in Runs, l \in Leases \cup {None} :
       Tables!Releases(r, l) /\ (Tables!HoldsRun(r, l) => r \in tx[p].locked)

\* Entries change under the session row's lock only.
EntriesMove(p) ==
  entries' = entries \/ (UpdatesSession(p) /\ tx[p].seq # 0 /\ entries' = WithEntry(p))

Written(p) ==
  /\ TypeOK' /\ tx'[p] = None /\ \A q \in Clients \ {p} : tx'[q] = tx[q]
  /\ StepBy(p) /\ EntriesMove(p)

LEMMA CommitsTx ==
  ASSUME TypeOK, NEW p \in Clients, Commits(p)
  PROVE  /\ tx' \in [Clients -> Tx \cup {None}] /\ tx'[p] = None
         /\ \A q \in Clients \ {p} : tx'[q] = tx[q]
         /\ clock' \in 0 .. MaxClock /\ calls' \in 0 .. MaxCalls
BY DEF TypeOK, Commits, Answer

LEMMA WithEntryFits ==
  ASSUME TypeOK, TxInv, NEW p \in Clients, tx[p] # None, tx[p].pc = "commit",
         In(p, "start") \/ In(p, "commit")
  PROVE  /\ WithEntry(p) \in [EntryKeys -> EntryRow \cup {None}]
         /\ entries' = WithEntry(p) => EntriesMove(p)
<1>. DEFINE e == tx[p].req.entry
            row == [run |-> tx[p].req.run, seq |-> tx[p].seq, body |-> e.body]
<1>1. tx[p].req.run \in Runs /\ e \in Entry \cup {None} /\ tx[p].seq \in Nat
  <2>1. tx[p].req \in Calls /\ tx[p].req.op \in {"start", "commit"} /\ tx[p].seq \in Nat
    BY TxType DEF In
  <2>. QED
    BY <2>1, StartType, CommitType
<1>2. tx[p].seq # 0 => e # None
  BY DEF TxInv, Fits, PcFits
<1>3. WithEntry(p) = IF tx[p].seq = 0 THEN entries ELSE [entries EXCEPT ![e.key] = row]
  BY DEF WithEntry
<1>4. tx[p].seq # 0 => e.key \in EntryKeys /\ row \in EntryRow
  BY <1>1, <1>2 DEF Entry, EntryRow
<1>. HIDE DEF row
<1>5. WithEntry(p) \in [EntryKeys -> EntryRow \cup {None}]
  BY <1>3, <1>4 DEF TypeOK
<1>6. tx[p].seq # 0 => UpdatesSession(p)
  BY <1>2 DEF UpdatesSession
<1>. QED
  BY <1>3, <1>5, <1>6 DEF EntriesMove

LEMMA StartWrites ==
  ASSUME TypeOK, TxInv, NEW p \in Clients, CommitStart(p)
  PROVE  Written(p)
<1>. DEFINE s == tx[p].req
            until == IF s.lease = None THEN 0 ELSE tx[p].now + Ttl
            row == [status |-> "running", thread |-> s.thread, key |-> s.key, lease |-> s.lease,
                    until |-> until, seq |-> 0, gaps |-> {}, cancel |-> FALSE]
            held == [run |-> s.run, lease |-> s.lease, until |-> until]
<1>1. tx[p] # None /\ tx[p].pc = "commit" /\ In(p, "start") /\ Inserted(p)
  BY DEF CommitStart, At, Inserted
<1>2. /\ s.run \in Runs /\ s.thread \in Threads /\ s.key \in Keys \cup {None}
      /\ s.lease \in Leases \cup {None} /\ until \in Nat
  <2>1. s \in Calls /\ s.op = "start" /\ tx[p].now \in Nat
    BY <1>1, TxType DEF In
  <2>. QED
    BY <2>1, StartType, CallsAssumption
<1>3. /\ runs' = [runs EXCEPT ![s.run] = row]
      /\ threadLease' = IF s.lease = None THEN threadLease
                        ELSE [threadLease EXCEPT ![s.thread] = held]
      /\ entries' = WithEntry(p) /\ Commits(p)
      /\ UNCHANGED <<checkpoints, effects, told>>
  BY DEF CommitStart, ClaimedThread
<1>4. runs[s.run] = None /\ RunningOthers(s.thread, s.run) = {}
  BY <1>1, InsertedFits DEF Exists, RunningOthers
<1>. HIDE DEF until
<1>5. row \in Row /\ (s.lease # None => held \in ThreadLease)
  BY <1>2 DEF Row, ThreadLease
<1>6. row # None /\ (s.lease # None => held # None)
  <2>. HIDE DEF row, held
  <2>. QED
    BY <1>5, NoneAssumption
<1>7. /\ row.status = "running" /\ row.thread = s.thread /\ row.seq = 0
      /\ row.lease = s.lease /\ row.until = until
      /\ held.run = s.run /\ held.lease = s.lease /\ held.until = until
  OBVIOUS
<1>. HIDE DEF row, held
<1>8. TypeOK'
  BY <1>1, <1>2, <1>3, <1>5, CommitsTx, WithEntryFits DEF TypeOK
<1>9. runs'[s.run] = row /\ \A q \in Runs \ {s.run} : runs'[q] = runs[q]
  BY <1>2, <1>3 DEF TypeOK
<1>10. /\ s.lease = None => threadLease' = threadLease
       /\ s.lease # None => threadLease'[s.thread] = held
       /\ \A x \in Threads \ {s.thread} : threadLease'[x] = threadLease[x]
  BY <1>2, <1>3 DEF TypeOK
<1>11. Tables!Begins(s.run, s.thread)
  BY <1>3, <1>4, <1>6, <1>7, <1>9, <1>10
  DEF Tables!Begins, Tables!RunningOthers, Tables!Running, RunningOthers, Running, Exists
<1>. QED
  BY <1>1, <1>3, <1>8, <1>11, CommitsTx, WithEntryFits DEF Written, StepBy

LEMMA FreedType ==
  ASSUME TypeOK, NEW S \in SUBSET Runs
  PROVE  FreedThreads(S) \in [Threads -> ThreadLease \cup {None}]
BY DEF TypeOK, FreedThreads

LEMMA CommitWrites ==
  ASSUME TypeOK, TxInv, NEW p \in Clients, CommitRun(p)
  PROVE  Written(p)
<1>. DEFINE c == tx[p].req
            seq == IF c.seq = 0 THEN runs[c.run].seq ELSE c.seq
            row == IF c.finish THEN Ended(runs[c.run], seq)
                   ELSE IF c.seq = 0 THEN runs[c.run] ELSE WithEvent(runs[c.run], seq)
<1>1. tx[p] # None /\ tx[p].pc = "commit" /\ In(p, "commit")
  BY DEF CommitRun, At
<1>2. /\ c.run \in Runs /\ c.seq \in Nat /\ c.finish \in BOOLEAN /\ c.saves \in BOOLEAN
      /\ c.effect \in EffectStatus \cup {None}
  <2>1. c \in Calls /\ c.op = "commit"
    BY <1>1, TxType DEF In
  <2>. QED
    BY <2>1, CommitType
<1>3. /\ tx[p].locked = {c.run} /\ Running(c.run) /\ (c.finish => c.seq > 0)
      /\ c.seq > 0 => c.seq > runs[c.run].seq
  BY <1>1 DEF TxInv, Fits, CommitFits, ValidCommit
<1>4. /\ runs' = [runs EXCEPT ![c.run] = row]
      /\ threadLease' = IF c.finish THEN FreedThreads({c.run}) ELSE threadLease
      /\ checkpoints' = SavedCheckpoint(c, seq)
      /\ effects' = IF c.effect = None THEN effects ELSE [effects EXCEPT ![c.run] = c.effect]
      /\ told' = IF c.effect = None THEN told ELSE [told EXCEPT ![c.run] = 0]
      /\ entries' = WithEntry(p) /\ Commits(p)
  BY DEF CommitRun
<1>5. runs[c.run] \in Row /\ runs[c.run].status = "running"
  BY <1>2, <1>3 DEF Running, Exists, TypeOK
<1>6. /\ seq \in Nat /\ runs[c.run].seq \in Nat /\ seq >= runs[c.run].seq
      /\ c.finish \/ c.seq # 0 => seq > runs[c.run].seq
      /\ c.seq = 0 => seq = runs[c.run].seq
  <2>1. runs[c.run].seq \in Nat
    BY <1>5, RowFields
  <2>. QED
    BY <1>2, <1>3, <2>1
<1>7. /\ SavedCheckpoint(c, seq) \in [Threads -> Checkpoint \cup {None}]
      /\ SavedCheckpoint(c, seq) \in {checkpoints, [checkpoints EXCEPT ![runs[c.run].thread] =
                                                      [run |-> c.run, seq |-> seq]]}
  <2>1. runs[c.run].thread \in Threads
    BY <1>5, RowFields
  <2>. QED
    BY <1>2, <1>6, <2>1 DEF SavedCheckpoint, Checkpoint, TypeOK
<1>. HIDE DEF seq
<1>8. row \in Row
  BY <1>5, <1>6, EventMoves, EndMoves
<1>9. /\ row.thread = runs[c.run].thread /\ row.seq = seq
      /\ c.finish => row.status = "ended"
      /\ ~c.finish => /\ row.status = "running"
                      /\ row.lease = runs[c.run].lease /\ row.until = runs[c.run].until
  BY <1>5, <1>6, EventMoves, EndMoves
<1>. HIDE DEF row, c
<1>10. row # None
  BY <1>8, NoneAssumption
<1>11. FreedThreads({c.run}) \in [Threads -> ThreadLease \cup {None}]
  BY <1>2, FreedType
<1>12. TypeOK'
  BY <1>1, <1>2, <1>4, <1>7, <1>8, <1>11, CommitsTx, WithEntryFits DEF TypeOK
<1>13. runs'[c.run] = row /\ \A q \in Runs \ {c.run} : runs'[q] = runs[q]
  BY <1>2, <1>4 DEF TypeOK
<1>14. checkpoints' \in {checkpoints, [checkpoints EXCEPT ![runs[c.run].thread] =
                                         [run |-> c.run, seq |-> runs'[c.run].seq]]}
  BY <1>4, <1>7, <1>9, <1>13
<1>15. Tables!Writes(c.run)
  BY <1>2, <1>3, <1>4, <1>6, <1>9, <1>10, <1>13, <1>14
  DEF Tables!Writes, Tables!SameLease, Tables!FreedThreads, Tables!Running, FreedThreads,
      Running, Exists
<1>. QED
  BY <1>1, <1>3, <1>4, <1>12, <1>15, CommitsTx, WithEntryFits DEF Written, StepBy

\* Only effects change.
LEMMA EffectWrites ==
  ASSUME TypeOK, NEW p \in Clients, ReserveEffect(p) \/ StartEffect(p)
  PROVE  Written(p)
<1>. DEFINE r == tx[p].req.run
<1>1. r \in Runs
  <2>1. tx[p] # None /\ (In(p, "reserve_effect") \/ In(p, "start_effect"))
    BY DEF ReserveEffect, StartEffect, At
  <2>2. tx[p].req \in Calls /\ tx[p].req.op \in {"reserve_effect", "start_effect"}
    BY <2>1, TxType DEF In
  <2>. QED
    BY <2>2, HolderType
<1>2. UNCHANGED <<runs, threadLease, checkpoints, entries>> /\ Commits(p)
  BY DEF ReserveEffect, StartEffect
<1>3. effects' \in [Runs -> EffectStatus \cup {None}] /\ told' \in [Runs -> Nat]
  <2>1. CASE ReserveEffect(p)
    BY <1>1, <2>1 DEF ReserveEffect, TypeOK, EffectStatus
  <2>2. CASE StartEffect(p)
    BY <1>1, <2>2 DEF StartEffect, TypeOK, EffectStatus
  <2>. QED
    BY <2>1, <2>2
<1>4. TypeOK'
  BY <1>2, <1>3, CommitsTx DEF TypeOK
<1>5. Tables!Untouched
  BY <1>2 DEF Tables!Untouched, Tables!Quiet, Tables!Same, Tables!SameLease
<1>. QED
  BY <1>2, <1>4, <1>5, CommitsTx DEF Written, StepBy, EntriesMove

LEMMA MarkWrites ==
  ASSUME TypeOK, TxInv, NEW p \in Clients, MarkCancelled(p)
  PROVE  Written(p)
<1>. DEFINE r == tx[p].req.run
            row == [runs[r] EXCEPT !.cancel = TRUE]
<1>1. UNCHANGED <<threadLease, checkpoints, effects, entries, told>> /\ Commits(p)
  BY DEF MarkCancelled
<1>2. r \in Runs
  <2>1. In(p, "mark_cancelled")
    BY DEF MarkCancelled, At, TxInv, Fits, PcFits
  <2>2. tx[p].req \in Calls /\ tx[p].req.op = "mark_cancelled"
    BY <2>1, TxType DEF In
  <2>. QED
    BY <2>2, MarkType
<1>3. CASE ~Exists(r)
  <2>1. runs' = runs
    BY <1>3 DEF MarkCancelled
  <2>2. TypeOK'
    BY <1>1, <2>1, CommitsTx DEF TypeOK
  <2>3. Tables!Untouched
    BY <1>1, <2>1 DEF Tables!Untouched, Tables!Quiet, Tables!Same, Tables!SameLease
  <2>. QED
    BY <1>1, <2>2, <2>3, CommitsTx DEF Written, StepBy, EntriesMove
<1>4. CASE Exists(r)
  <2>1. runs' = [runs EXCEPT ![r] = row]
    BY <1>4 DEF MarkCancelled, TypeOK
  <2>2. runs[r] \in Row
    BY <1>2, <1>4 DEF Exists, TypeOK
  <2>3. row \in Row
    BY <2>2, RowMoves
  <2>4. /\ row.status = runs[r].status /\ row.thread = runs[r].thread /\ row.seq = runs[r].seq
        /\ row.lease = runs[r].lease /\ row.until = runs[r].until
    BY <2>2 DEF Row
  <2>. HIDE DEF row, r
  <2>5. row # None
    BY <2>3, NoneAssumption
  <2>6. runs'[r] = row /\ \A q \in Runs \ {r} : runs'[q] = runs[q]
    BY <1>2, <2>1 DEF TypeOK
  <2>7. TypeOK'
    BY <1>1, <1>2, <2>1, <2>3, CommitsTx DEF TypeOK
  <2>8. Tables!Untouched
    BY <1>1, <1>4, <2>4, <2>5, <2>6
    DEF Tables!Untouched, Tables!Quiet, Tables!Same, Tables!SameLease, Exists
  <2>. QED
    BY <1>1, <2>7, <2>8, CommitsTx DEF Written, StepBy, EntriesMove
<1>. QED
  BY <1>3, <1>4

LEMMA RenewWrites ==
  ASSUME TypeOK, TxInv, NEW p \in Clients, Renew(p)
  PROVE  Written(p)
<1>. DEFINE r == tx[p].req.run
            t == runs[r].thread
            until == tx[p].now + Ttl
            row == [runs[r] EXCEPT !.until = until]
            held == [threadLease[t] EXCEPT !.until = until]
<1>1. tx[p] # None /\ tx[p].pc = "commit" /\ In(p, "renew")
      /\ UNCHANGED <<checkpoints, effects, entries, told>> /\ Commits(p)
  BY DEF Renew, At
<1>2. r \in Runs /\ until \in Nat
  <2>1. tx[p].req \in Calls /\ tx[p].req.op = "renew" /\ tx[p].now \in Nat
    BY <1>1, TxType DEF In
  <2>. QED
    BY <2>1, HolderType, CallsAssumption
<1>3. r \in tx[p].locked /\ Holds(p, r)
  BY <1>1 DEF TxInv, Fits, LeaseFits, HasLease, At
<1>4. CASE UNCHANGED <<runs, threadLease>>
  <2>1. TypeOK'
    BY <1>1, <1>4, CommitsTx DEF TypeOK
  <2>2. Tables!Untouched
    BY <1>1, <1>4 DEF Tables!Untouched, Tables!Quiet, Tables!Same, Tables!SameLease
  <2>. QED
    BY <1>1, <2>1, <2>2, CommitsTx DEF Written, StepBy, EntriesMove
<1>5. CASE ~(UNCHANGED <<runs, threadLease>>)
  <2>1. /\ HoldsThread(p, t)
        /\ runs' = [runs EXCEPT ![r].until = until]
        /\ threadLease' = [threadLease EXCEPT ![t].until = until]
    BY <1>5 DEF Renew
  <2>2. runs[r] \in Row /\ runs[r].status = "running" /\ runs[r] # None
    BY <1>2, <1>3 DEF Holds, Running, Exists, TypeOK
  <2>3. t \in Threads /\ row \in Row
    BY <1>2, <2>2, RowFields, RowMoves
  <2>4. threadLease[t] \in ThreadLease /\ threadLease[t] # None /\ threadLease[t].run = r
    BY <2>1, <2>3 DEF HoldsThread, TypeOK
  <2>5. held \in ThreadLease
    BY <1>2, <2>4 DEF ThreadLease
  <2>6. /\ row.status = runs[r].status /\ row.thread = runs[r].thread /\ row.seq = runs[r].seq
        /\ row.lease = runs[r].lease /\ row.until = until
    BY <2>2 DEF Row
  <2>7. held.run = r /\ held.lease = threadLease[t].lease /\ held.until = until
    BY <2>4 DEF ThreadLease
  <2>8. runs' = [runs EXCEPT ![r] = row] /\ threadLease' = [threadLease EXCEPT ![t] = held]
    BY <2>1 DEF TypeOK
  <2>. HIDE DEF row, held, r, t, until
  <2>9. row # None /\ held # None
    BY <2>3, <2>5, NoneAssumption
  <2>10. /\ runs'[r] = row /\ \A q \in Runs \ {r} : runs'[q] = runs[q]
         /\ threadLease'[t] = held /\ \A x \in Threads \ {t} : threadLease'[x] = threadLease[x]
    BY <1>2, <2>3, <2>8 DEF TypeOK
  <2>11. TypeOK'
    BY <1>1, <1>2, <2>3, <2>5, <2>8, CommitsTx DEF TypeOK
  <2>12. Tables!Quiet
    BY <1>1, <1>2, <2>2, <2>6, <2>9, <2>10 DEF Tables!Quiet, Tables!Same
  <2>13. Tables!Renews(r, t)
    BY <2>2, <2>4, <2>6, <2>7, <2>9, <2>10, <2>12 DEF Tables!Renews
  <2>. QED
    BY <1>1, <1>3, <2>3, <2>11, <2>13, CommitsTx DEF Written, StepBy, EntriesMove
<1>. QED
  BY <1>4, <1>5

LEMMA ReleaseWrites ==
  ASSUME TypeOK, TxInv, NEW p \in Clients, Release(p)
  PROVE  Written(p)
<1>. DEFINE c == tx[p].req
            row == [runs[c.run] EXCEPT !.lease = None, !.until = 0]
<1>1. tx[p] # None /\ tx[p].pc = "commit" /\ In(p, "release")
      /\ UNCHANGED <<checkpoints, effects, entries, told>> /\ Commits(p)
      /\ threadLease' = [t \in Threads |-> IF HoldsThread(p, t) THEN None ELSE threadLease[t]]
  BY DEF Release, At
<1>2. c.run \in Runs /\ c.lease \in Leases \cup {None}
  <2>1. c \in Calls /\ c.op = "release"
    BY <1>1, TxType DEF In
  <2>. QED
    BY <2>1, HolderType
<1>3. tx[p].locked = IF Holds(p, c.run) THEN {c.run} ELSE {}
  BY <1>1 DEF TxInv, Fits, LeaseFits, HasLease, At
<1>4. threadLease' \in [Threads -> ThreadLease \cup {None}]
  BY <1>1 DEF TypeOK
<1>5. CASE ~Holds(p, c.run)
  <2>1. runs' = runs
    BY <1>3, <1>5 DEF Release
  <2>2. TypeOK'
    BY <1>1, <1>4, <2>1, CommitsTx DEF TypeOK
  <2>3. Tables!Releases(c.run, c.lease) /\ ~Tables!HoldsRun(c.run, c.lease)
    BY <1>1, <1>5, <2>1
    DEF Tables!Releases, Tables!HoldsRun, Tables!HoldsThread, Tables!Running, Holds,
        HoldsThread, Running, Exists, Tables!Quiet, Tables!Same
  <2>. QED
    BY <1>1, <1>2, <2>2, <2>3, CommitsTx DEF Written, StepBy, EntriesMove
<1>6. CASE Holds(p, c.run)
  <2>1. runs' = [runs EXCEPT ![c.run].lease = None, ![c.run].until = 0]
    BY <1>3, <1>6 DEF Release
  <2>2. runs' = [runs EXCEPT ![c.run] = row]
    BY <1>2, <2>1 DEF TypeOK
  <2>3. runs[c.run] \in Row /\ runs[c.run].status = "running" /\ runs[c.run] # None
    BY <1>2, <1>6 DEF Holds, Running, Exists, TypeOK
  <2>4. row \in Row
    BY <2>3, RowMoves
  <2>5. /\ row.status = runs[c.run].status /\ row.thread = runs[c.run].thread
        /\ row.seq = runs[c.run].seq /\ row.lease = None
    BY <2>3 DEF Row
  <2>. HIDE DEF row
  <2>6. row # None
    BY <2>4, NoneAssumption
  <2>7. runs'[c.run] = row /\ \A q \in Runs \ {c.run} : runs'[q] = runs[q]
    BY <1>2, <2>2 DEF TypeOK
  <2>8. TypeOK'
    BY <1>1, <1>2, <1>4, <2>2, <2>4, CommitsTx DEF TypeOK
  <2>9. Tables!Quiet
    BY <1>1, <2>3, <2>5, <2>6, <2>7 DEF Tables!Quiet, Tables!Same
  <2>10. Tables!Releases(c.run, c.lease)
    BY <1>1, <1>6, <2>5, <2>7, <2>9
    DEF Tables!Releases, Tables!HoldsRun, Tables!HoldsThread, Tables!Running, Holds,
        HoldsThread, Running, Exists
  <2>. QED
    BY <1>1, <1>2, <1>3, <1>6, <2>8, <2>10, CommitsTx DEF Written, StepBy, EntriesMove
<1>. QED
  BY <1>5, <1>6

LEMMA ReapWrites ==
  ASSUME TypeOK, TxInv, NEW p \in Clients, ReapStale(p)
  PROVE  Written(p)
<1>. DEFINE S == tx[p].locked
            next == tx[p].next
<1>1. tx[p] # None /\ tx[p].pc = "commit" /\ In(p, "reap_stale") /\ At(p, "commit")
      /\ UNCHANGED <<checkpoints, effects, entries, told>> /\ Commits(p)
  BY DEF ReapStale, At
<1>2. S \in SUBSET Runs /\ next \in [Runs -> Nat]
  BY <1>1, TxType
<1>3. CASE SeqTaken(p)
  <2>1. UNCHANGED <<runs, threadLease>>
    BY <1>3 DEF ReapStale
  <2>2. TypeOK'
    BY <1>1, <2>1, CommitsTx DEF TypeOK
  <2>3. Tables!Untouched
    BY <1>1, <2>1 DEF Tables!Untouched, Tables!Quiet, Tables!Same, Tables!SameLease
  <2>. QED
    BY <1>1, <2>2, <2>3, CommitsTx DEF Written, StepBy, EntriesMove
<1>4. CASE ~SeqTaken(p)
  <2>1. /\ runs' = [r \in Runs |-> IF r \in S THEN Ended(runs[r], next[r]) ELSE runs[r]]
        /\ threadLease' = FreedThreads(S)
    BY <1>4 DEF ReapStale
  <2>2. ASSUME NEW r \in S
        PROVE  /\ Running(r) /\ runs[r] \in Row /\ next[r] \in Nat
               /\ next[r] = runs[r].seq + 1 \/ (next[r] <= runs[r].seq /\ next[r] \in runs[r].gaps)
    <3>1. Running(r) /\ next[r] # 0
      BY <1>1 DEF TxInv, Fits, ReapFits
    <3>2. runs[r] \in Row /\ r \in Runs
      BY <1>2, <3>1 DEF Running, Exists, TypeOK
    <3>3. next[r] <= runs[r].seq + 1
      BY <1>1, <3>1, <3>2 DEF TxInv, Fits, ReapFits
    <3>4. next[r] <= runs[r].seq => next[r] \in runs[r].gaps
      BY <1>4 DEF SeqTaken
    <3>5. runs[r].seq \in Nat /\ next[r] \in Nat
      BY <1>2, <3>2, RowFields
    <3>. QED
      BY <3>1, <3>2, <3>3, <3>4, <3>5
  <2>3. ASSUME NEW r \in S
        PROVE  /\ runs'[r] \in Row /\ runs'[r] # None /\ runs'[r].status # "running"
               /\ runs'[r].thread = runs[r].thread
               /\ \/ runs'[r].seq = runs[r].seq + 1
                  \/ /\ runs'[r].seq = runs[r].seq
                     /\ \E n \in runs[r].gaps : runs'[r].gaps = runs[r].gaps \ {n}
    <3>. DEFINE row == Ended(runs[r], next[r])
    <3>1. /\ row \in Row /\ row.status = "ended" /\ row.thread = runs[r].thread
          /\ row.seq = IF next[r] > runs[r].seq THEN next[r] ELSE runs[r].seq
          /\ next[r] <= runs[r].seq => row.gaps = runs[r].gaps \ {next[r]}
      BY SMTT(30), <2>2, EndMoves
    <3>2. runs[r].seq \in Nat
      BY <2>2, RowFields
    <3>3. runs'[r] = row
      BY <1>2, <2>1
    <3>. HIDE DEF row
    <3>4. row # None
      BY <3>1, NoneAssumption
    <3>. QED
      BY <2>2, <3>1, <3>2, <3>3, <3>4
  <2>4. \A r \in Runs \ S : runs'[r] = runs[r]
    BY <2>1
  <2>5. runs' \in [Runs -> Row \cup {None}]
    <3>1. \A r \in Runs : runs'[r] \in Row \cup {None}
      BY <2>3, <2>4 DEF TypeOK
    <3>2. runs' = [r \in Runs |-> runs'[r]]
      BY <2>1
    <3>. QED
      BY <3>1, <3>2
  <2>6. threadLease' \in [Threads -> ThreadLease \cup {None}]
    BY <1>2, <2>1, FreedType
  <2>7. TypeOK'
    BY <1>1, <2>5, <2>6, CommitsTx DEF TypeOK
  <2>8. \A r \in S : Tables!Running(r)
    BY <2>2 DEF Running, Exists, Tables!Running
  <2>9. threadLease' = Tables!FreedThreads(S)
    BY <2>1 DEF FreedThreads, Tables!FreedThreads
  <2>10. Closes(p)
    BY <1>1, <2>3 DEF Closes
  <2>. HIDE DEF S, next
  <2>11. Tables!Reaps(S)
    BY <1>1, <2>3, <2>4, <2>8, <2>9 DEF Tables!Reaps
  <2>. QED
    BY <1>1, <2>7, <2>10, <2>11, CommitsTx DEF Written, StepBy, EntriesMove, S
<1>. QED
  BY <1>3, <1>4

-----------------------------------------------------------------------------
(* What others see of a step.                                               *)

RowsMove(p) ==
  \A r \in Runs :
    /\ runs[r] # None =>
         /\ runs'[r] # None /\ runs'[r].thread = runs[r].thread /\ runs'[r].seq >= runs[r].seq
         /\ runs'[r].status = "running" =>
              runs[r].status = "running" /\ runs'[r].lease \in {runs[r].lease, None}
         /\ ~Locks(p, r) =>
              /\ runs'[r].status = runs[r].status /\ runs'[r].seq = runs[r].seq
              /\ runs'[r].lease = runs[r].lease
    /\ runs[r] = None /\ runs'[r] # None =>
         Inserted(p) /\ r = tx[p].req.run /\ runs'[r].thread = tx[p].req.thread

LEMMA StepMoves ==
  ASSUME TypeOK, NEW p \in Clients, tx[p] # None, StepBy(p)
  PROVE  RowsMove(p)
<1>. SUFFICES ASSUME NEW r \in Runs
              PROVE  /\ runs[r] # None =>
                          /\ runs'[r] # None /\ runs'[r].thread = runs[r].thread
                          /\ runs'[r].seq >= runs[r].seq
                          /\ runs'[r].status = "running" =>
                               /\ runs[r].status = "running"
                               /\ runs'[r].lease \in {runs[r].lease, None}
                          /\ ~Locks(p, r) =>
                               /\ runs'[r].status = runs[r].status /\ runs'[r].seq = runs[r].seq
                               /\ runs'[r].lease = runs[r].lease
                     /\ runs[r] = None /\ runs'[r] # None =>
                          /\ Inserted(p) /\ r = tx[p].req.run
                          /\ runs'[r].thread = tx[p].req.thread
  BY DEF RowsMove
<1>1. runs[r] # None => runs[r].seq \in Nat
  BY RowFields DEF TypeOK
<1>2. CASE runs'[r] = runs[r]
  BY <1>1, <1>2
<1>3. CASE Tables!Untouched
  BY <1>1, <1>3 DEF Tables!Untouched, Tables!Quiet, Tables!Same, Tables!SameLease
<1>4. CASE Inserted(p) /\ Tables!Begins(tx[p].req.run, tx[p].req.thread)
  BY <1>2, <1>4 DEF Tables!Begins
<1>5. ASSUME NEW q \in tx[p].locked, Tables!Writes(q), q = r PROVE runs[r] # None
        /\ runs'[r] # None /\ runs'[r].thread = runs[r].thread /\ runs'[r].seq >= runs[r].seq
        /\ runs[r].status = "running"
        /\ (runs'[r].status = "running" => runs'[r].lease = runs[r].lease)
  BY <1>5 DEF Tables!Writes, Tables!SameLease, Tables!Running
<1>6. ASSUME Tables!Reaps(tx[p].locked), r \in tx[p].locked PROVE runs[r] # None
        /\ runs'[r] # None /\ runs'[r].thread = runs[r].thread /\ runs'[r].seq >= runs[r].seq
        /\ runs'[r].status # "running"
  BY <1>1, <1>6 DEF Tables!Reaps, Tables!Running
<1>7. ASSUME NEW q \in tx[p].locked, NEW t \in Threads, Tables!Renews(q, t), q = r
      PROVE  /\ runs[r] # None /\ runs'[r] # None /\ runs'[r].thread = runs[r].thread
             /\ runs'[r].seq = runs[r].seq /\ runs'[r].status = runs[r].status
             /\ runs'[r].lease = runs[r].lease
  BY <1>7 DEF Tables!Renews, Tables!Quiet, Tables!Same
<1>8. ASSUME NEW l \in Leases \cup {None}, Tables!Releases(r, l), Tables!HoldsRun(r, l)
      PROVE  /\ runs[r] # None /\ runs'[r] # None /\ runs'[r].thread = runs[r].thread
             /\ runs'[r].seq = runs[r].seq /\ runs'[r].status = runs[r].status
             /\ runs'[r].lease = None
  BY <1>8 DEF Tables!Releases, Tables!HoldsRun, Tables!Running, Tables!Quiet, Tables!Same
<1>9. CASE \E q \in tx[p].locked : Tables!Writes(q)
  BY <1>2, <1>5, <1>9 DEF Tables!Writes, Locks
<1>10. CASE Tables!Reaps(tx[p].locked) /\ Closes(p)
  BY <1>2, <1>6, <1>10 DEF Tables!Reaps, Locks
<1>11. CASE \E q \in tx[p].locked, t \in Threads : Tables!Renews(q, t)
  BY <1>1, <1>2, <1>7, <1>11 DEF Tables!Renews, Locks
<1>12. CASE \E q \in Runs, l \in Leases \cup {None} :
              Tables!Releases(q, l) /\ (Tables!HoldsRun(q, l) => q \in tx[p].locked)
  BY <1>1, <1>2, <1>8, <1>12 DEF Tables!Releases, Locks
<1>. QED
  BY <1>3, <1>4, <1>9, <1>10, <1>11, <1>12 DEF StepBy

\* A call in the middle of its statements still knows what it knew.
LEMMA Bystander ==
  ASSUME TypeOK, TypeOK', TxInv, NEW p \in Clients, RowsMove(p),
         NEW q \in Clients \ {p}, tx'[q] = tx[q]
  PROVE  Fits(q)'
<1>. SUFFICES ASSUME tx[q] # None PROVE Fits(q)'
  BY DEF Fits, PcFits, RunFits, CommitFits, LeaseFits, ReapFits, InsertFits, Inserted, In, At
<1>1. Fits(q) /\ Apart(p, q)
  BY DEF TxInv
<1>2. tx[q].req \in Calls /\ tx[q].locked \in SUBSET Runs /\ tx[q].next \in [Runs -> Nat]
  BY TxType
<1>3. \A r \in tx[q].locked : ~Locks(p, r)
  BY <1>1 DEF Apart, Locks
<1>4. \A r \in Runs : runs[r] # None => runs[r].seq \in Nat /\ runs'[r].seq \in Nat
  <2>1. \A r \in Runs : runs[r] # None => runs[r] \in Row /\ runs'[r] \in Row
    BY DEF TypeOK, RowsMove
  <2>. QED
    BY <2>1, RowFields
<1>5. PcFits(q)'
  BY <1>1 DEF Fits, PcFits, In
<1>6. ~In(q, "reap_stale") => tx[q].req.run \in Runs
  BY <1>2, RunType DEF In
<1>7. RunFits(q)'
  BY <1>1, <1>6 DEF Fits, RunFits, RowsMove, Exists, In
<1>8. ASSUME NEW r \in tx[q].locked, Running(r)
      PROVE  Running(r)' /\ runs'[r].seq = runs[r].seq /\ runs'[r].lease = runs[r].lease
  BY <1>2, <1>3, <1>8 DEF RowsMove, Running, Exists
<1>9. CommitFits(q)'
  BY <1>1, <1>8 DEF Fits, CommitFits, In, ValidCommit
<1>10. ASSUME In(q, "renew") \/ In(q, "release"), At(q, "commit")
       PROVE  HasLease(q)' <=> HasLease(q)
  <2>. DEFINE r == tx[q].req.run
  <2>1. r \in Runs /\ runs[r] # None
    BY <1>1, <1>6, <1>10 DEF Fits, RunFits, In, Exists
  <2>2. CASE HasLease(q)
    <3>1. r \in tx[q].locked /\ Running(r)
      BY <1>1, <1>10, <2>2 DEF Fits, LeaseFits, HasLease, Holds
    <3>. QED
      BY <1>8, <2>2, <3>1 DEF HasLease, Holds
  <2>3. CASE ~HasLease(q)
    <3>1. runs'[r].status = "running" =>
            runs[r].status = "running" /\ runs'[r].lease \in {runs[r].lease, None}
      BY <2>1 DEF RowsMove
    <3>. QED
      BY <2>1, <2>3, <3>1 DEF HasLease, Holds, Running, Exists
  <2>. QED
    BY <2>2, <2>3
<1>11. LeaseFits(q)'
  BY <1>1, <1>10 DEF Fits, LeaseFits, In, At
<1>12. ReapFits(q)'
  <2>1. In(q, "reap_stale")' /\ At(q, "commit")' =>
          \A r \in tx'[q].locked : Running(r)' /\ tx'[q].next[r] # 0
    BY <1>1, <1>8 DEF Fits, ReapFits, In, At
  <2>2. ASSUME NEW r \in Runs, tx[q].next[r] # 0
        PROVE  Exists(r)' /\ tx[q].next[r] <= runs'[r].seq + 1
    <3>1. runs[r] # None /\ tx[q].next[r] <= runs[r].seq + 1
      BY <1>1, <2>2 DEF Fits, ReapFits, Exists
    <3>2. runs'[r] # None /\ runs'[r].seq >= runs[r].seq
      BY <3>1 DEF RowsMove
    <3>. QED
      BY <1>2, <1>4, <3>1, <3>2 DEF Exists
  <2>. QED
    BY <2>1, <2>2 DEF ReapFits
<1>13. InsertFits(q)'
  <2>. SUFFICES ASSUME Inserted(q)
                PROVE  /\ ~Exists(tx[q].req.run)'
                       /\ \A r \in Runs : Running(r)' => runs'[r].thread # tx[q].req.thread
    BY DEF InsertFits, Inserted, In
  <2>1. /\ tx[q].req.run \in Runs /\ ~Exists(tx[q].req.run)
        /\ \A r \in Runs : Running(r) => runs[r].thread # tx[q].req.thread
    BY <1>1, <1>6 DEF Fits, InsertFits, Inserted, In
  <2>2. Inserted(p) => tx[p].req.run # tx[q].req.run /\ tx[p].req.thread # tx[q].req.thread
    BY <1>1 DEF Apart
  <2>3. ~Exists(tx[q].req.run)'
    BY <2>1, <2>2 DEF RowsMove, Exists
  <2>4. ASSUME NEW r \in Runs, Running(r)' PROVE runs'[r].thread # tx[q].req.thread
    <3>1. CASE runs[r] # None
      BY <2>1, <2>4, <3>1 DEF RowsMove, Running, Exists
    <3>2. CASE runs[r] = None
      BY <2>2, <2>4, <3>2 DEF RowsMove, Running, Exists
    <3>. QED
      BY <3>1, <3>2
  <2>. QED
    BY <2>3, <2>4
<1>. QED
  BY <1>5, <1>7, <1>9, <1>11, <1>12, <1>13 DEF Fits

-----------------------------------------------------------------------------
(* The inductive invariant.                                                 *)

StepOk ==
  \/ \E p \in Clients : Kept(p)
  \/ \E p \in Clients : tx[p] # None /\ Written(p)
  \/ UNCHANGED <<tables, tx, told>> /\ clock' \in 0 .. MaxClock /\ calls' \in 0 .. MaxCalls

LEMMA ClientSteps ==
  ASSUME TypeOK, TxInv, NEW p \in Clients, ClientStep(p)
  PROVE  Kept(p) \/ (tx[p] # None /\ Written(p))
<1>1. CASE EnsureSession(p) \/ LookUp(p) \/ BeginStart(p) \/ Begin(p) \/ LookAgain(p)
           \/ DeadlockAbort(p)
  BY <1>1, LooksAround
<1>2. CASE Insert(p) \/ Claim(p) \/ LockSession(p) \/ LockForCommit(p)
  BY <1>2, InsertHolds, ClaimHolds, SessionHolds, CommitHolds
<1>3. CASE LockForEffect(p) \/ LockForRenew(p) \/ LockForRelease(p)
  BY <1>3, LeaseHolds
<1>4. CASE BeginReap(p) \/ \E S \in SUBSET Runs : LockForReap(p, S)
  BY <1>4, SnapshotKept, ReapHolds
<1>5. CASE CommitStart(p) \/ CommitRun(p)
  BY <1>5, StartWrites, CommitWrites DEF CommitStart, CommitRun, At
<1>6. CASE ReserveEffect(p) \/ StartEffect(p) \/ MarkCancelled(p)
  BY <1>6, EffectWrites, MarkWrites DEF ReserveEffect, StartEffect, MarkCancelled, At
<1>7. CASE Renew(p) \/ Release(p) \/ ReapStale(p)
  BY <1>7, RenewWrites, ReleaseWrites, ReapWrites DEF Renew, Release, ReapStale, At
<1>. QED
  BY <1>1, <1>2, <1>3, <1>4, <1>5, <1>6, <1>7 DEF ClientStep

LEMMA NextSteps ==
  ASSUME TypeOK, TxInv, [Next]_vars
  PROVE  StepOk
<1>1. ASSUME NEW p \in Clients, NEW req \in Requests, Call(p, req) PROVE StepOk
  BY <1>1, CallKept DEF StepOk
<1>2. ASSUME NEW p \in Clients, ClientStep(p) PROVE StepOk
  BY <1>2, ClientSteps DEF StepOk
<1>3. ASSUME NEW p \in Clients, Abort(p) PROVE StepOk
  BY <1>3, LooksAround DEF StepOk
<1>4. CASE Tick
  <2>1. clock' \in 0 .. MaxClock
    BY <1>4, CallsAssumption DEF Tick, TypeOK
  <2>. QED
    BY <1>4, <2>1 DEF Tick, StepOk, TypeOK
<1>5. CASE UNCHANGED vars
  BY <1>5 DEF vars, StepOk, TypeOK
<1>. QED
  BY <1>1, <1>2, <1>3, <1>4, <1>5 DEF Next

LEMMA StepTypes ==
  ASSUME TypeOK, StepOk
  PROVE  TypeOK'
<1>1. CASE \E p \in Clients : Kept(p)
  BY <1>1 DEF Kept, TypeOK, tables
<1>2. CASE \E p \in Clients : Written(p)
  BY <1>2 DEF Written
<1>3. CASE UNCHANGED <<tables, tx, told>> /\ clock' \in 0 .. MaxClock /\ calls' \in 0 .. MaxCalls
  BY <1>3 DEF TypeOK, tables
<1>. QED
  BY <1>1, <1>2, <1>3 DEF StepOk

LEMMA StepTx ==
  ASSUME TypeOK, TxInv, StepOk
  PROVE  TxInv'
<1>1. TypeOK'
  BY StepTypes
<1>2. ASSUME NEW p \in Clients, Kept(p) PROVE TxInv'
  <2>1. RowsMove(p)
    <3>1. runs' = runs
      BY <1>2 DEF Kept, tables
    <3>2. \A r \in Runs : runs[r] # None => runs[r].seq \in Nat
      BY RowFields DEF TypeOK
    <3>. QED
      BY <3>1, <3>2 DEF RowsMove
  <2>2. \A q \in Clients \ {p} : Fits(q)'
    BY <1>1, <1>2, <2>1, Bystander DEF Kept
  <2>3. ASSUME NEW a \in Clients, NEW b \in Clients, a # b PROVE Apart(a, b)'
    <3>1. CASE a = p
      BY <1>2, <2>3, <3>1 DEF Kept
    <3>2. CASE b = p
      <4>1. Apart(p, a)'
        BY <1>2, <2>3, <3>2 DEF Kept
      <4>. QED
        BY <3>2, <4>1 DEF Apart
    <3>3. CASE a # p /\ b # p
      <4>1. tx'[a] = tx[a] /\ tx'[b] = tx[b]
        BY <1>2, <3>3 DEF Kept
      <4>2. Apart(a, b)
        BY <2>3 DEF TxInv
      <4>. QED
        BY <4>1, <4>2 DEF Apart, Inserted, In
    <3>. QED
      BY <3>1, <3>2, <3>3
  <2>4. Fits(p)'
    BY <1>2 DEF Kept
  <2>. QED
    BY <2>2, <2>3, <2>4 DEF TxInv
<1>3. ASSUME NEW p \in Clients, tx[p] # None, Written(p) PROVE TxInv'
  <2>1. RowsMove(p)
    BY <1>3, StepMoves DEF Written
  <2>2. \A q \in Clients \ {p} : Fits(q)'
    BY <1>1, <1>3, <2>1, Bystander DEF Written
  <2>3. tx'[p] = None /\ \A q \in Clients \ {p} : tx'[q] = tx[q]
    BY <1>3 DEF Written
  <2>4. Fits(p)'
    BY <2>3 DEF Fits, PcFits, RunFits, CommitFits, LeaseFits, ReapFits, InsertFits, Inserted,
                In, At
  <2>5. ASSUME NEW a \in Clients, NEW b \in Clients, a # b PROVE Apart(a, b)'
    <3>1. CASE a = p \/ b = p
      BY <2>3, <3>1 DEF Apart, Inserted, In
    <3>2. CASE a # p /\ b # p
      <4>1. tx'[a] = tx[a] /\ tx'[b] = tx[b]
        BY <2>3, <3>2
      <4>2. Apart(a, b)
        BY <2>5 DEF TxInv
      <4>. QED
        BY <4>1, <4>2 DEF Apart, Inserted, In
    <3>. QED
      BY <3>1, <3>2
  <2>. QED
    BY <2>2, <2>4, <2>5 DEF TxInv
<1>4. CASE UNCHANGED <<tables, tx, told>>
  <2>1. ASSUME NEW p \in Clients PROVE Fits(p)'
    <3>1. Fits(p)
      BY DEF TxInv
    <3>. QED
      BY <1>4, <3>1 DEF Fits, PcFits, RunFits, CommitFits, LeaseFits, ReapFits, InsertFits, Inserted,
                        In, At, HasLease, Holds, Running, Exists, ValidCommit, tables
  <2>2. ASSUME NEW p \in Clients, NEW q \in Clients, p # q PROVE Apart(p, q)'
    BY <1>4, <2>2 DEF TxInv, Apart, Inserted, In
  <2>. QED
    BY <2>1, <2>2 DEF TxInv
<1>. QED
  BY <1>2, <1>3, <1>4 DEF StepOk

LEMMA InitTx == Init => TypeOK /\ TxInv
<1>. SUFFICES ASSUME Init PROVE TypeOK /\ TxInv
  OBVIOUS
<1>1. TypeOK
  BY CallsAssumption DEF Init, TypeOK
<1>2. \A p \in Clients : tx[p] = None
  BY DEF Init
<1>3. TxInv
  BY <1>2 DEF TxInv, Fits, PcFits, RunFits, CommitFits, LeaseFits, ReapFits, InsertFits, Inserted,
              In, At, Apart
<1>. QED
  BY <1>1, <1>3

LEMMA NextTx == TypeOK /\ TxInv /\ [Next]_vars => (TypeOK /\ TxInv)'
BY NextSteps, StepTypes, StepTx

LEMMA TxInvariant == Spec => [](TypeOK /\ TxInv)
BY InitTx, NextTx, PTL DEF Spec

\* Tables and transactions keep their shape, for any calls of any clients: what start_run,
\* commit_run and the other calls write is a row of the schema.
THEOREM TypeCorrect == Spec => []TypeOK
BY TxInvariant, PTL

-----------------------------------------------------------------------------
(* The two copies of a lease and the fence, by LeaseTables.                  *)

LEMMA StepKinds ==
  ASSUME TypeOK, StepOk
  PROVE  Tables!Step(Leases \cup {None})
<1>1. runs' = runs /\ threadLease' = threadLease /\ checkpoints' = checkpoints
        => Tables!Step(Leases \cup {None})
  BY DEF Tables!Step, Tables!Untouched, Tables!Quiet, Tables!Same, Tables!SameLease
<1>2. CASE \E p \in Clients : Kept(p)
  BY <1>1, <1>2 DEF Kept, tables
<1>3. ASSUME NEW p \in Clients, tx[p] # None, StepBy(p) PROVE Tables!Step(Leases \cup {None})
  <2>1. tx[p].locked \in SUBSET Runs
    BY <1>3, TxType
  <2>2. Inserted(p) => tx[p].req.run \in Runs /\ tx[p].req.thread \in Threads
    <3>1. tx[p].req \in Calls
      BY <1>3, TxType
    <3>. QED
      BY <3>1, StartType DEF Inserted, In
  <2>. QED
    BY <1>3, <2>1, <2>2 DEF StepBy, Tables!Step
<1>4. CASE \E p \in Clients : tx[p] # None /\ Written(p)
  BY <1>3, <1>4 DEF Written
<1>. QED
  BY <1>1, <1>2, <1>4 DEF StepOk, tables

LEMMA ShapedTables ==
  ASSUME TypeOK
  PROVE  Tables!Shaped
<1>1. \A r \in Runs : runs[r] # None => runs[r].thread \in Threads /\ runs[r].seq \in Nat
  <2>1. \A r \in Runs : runs[r] # None => runs[r] \in Row
    BY DEF TypeOK
  <2>. QED
    BY <2>1, RowFields
<1>2. \A t \in Threads : threadLease[t] # None => threadLease[t].run \in Runs
  BY DEF TypeOK, ThreadLease
<1>. QED
  BY <1>1, <1>2, TenureAssumption DEF Tables!Shaped, Tables!Tenure, Tenure

LEMMA AgreeIsLeases ==
  ASSUME TypeOK
  PROVE  LeasesAgree /\ LeasesEqual <=> \A t \in Threads : Tables!Agree(t)
<1>1. \A t \in Threads : threadLease[t] # None => threadLease[t].run \in Runs
  BY DEF TypeOK, ThreadLease
<1>. QED
  BY <1>1 DEF LeasesAgree, LeasesEqual, Tables!Agree, Tables!OnThread, Tables!Names,
              Tables!Running, Running, Exists

LEMMA NextAgree == LeaseInv /\ TxInv /\ [Next]_vars => LeaseInv'
<1>. SUFFICES ASSUME LeaseInv, TxInv, [Next]_vars PROVE LeaseInv'
  OBVIOUS
<1>1. TypeOK /\ TypeOK' /\ StepOk /\ \A t \in Threads : Tables!Agree(t)
  BY NextSteps, StepTypes, AgreeIsLeases DEF LeaseInv
<1>2. \A t \in Threads : Tables!Agree(t)'
  BY <1>1, ShapedTables, StepKinds, Tables!StepAgrees
<1>3. (LeasesAgree /\ LeasesEqual)'
  <2>1. \A t \in Threads : threadLease'[t] # None => threadLease'[t].run \in Runs
    BY <1>1 DEF TypeOK, ThreadLease
  <2>. QED
    BY <1>2, <2>1 DEF LeasesAgree, LeasesEqual, Tables!Agree, Tables!OnThread, Tables!Names,
                      Tables!Running, Running, Exists
<1>. QED
  BY <1>1, <1>3 DEF LeaseInv

\* The lease on a run's row and the one on its thread's row are the same in every reachable
\* state, however the statements of starts, commits, renewals, releases and reapers
\* interleave and wherever a transaction is rolled back (claim_thread_tx, delete_thread_tx).
THEOREM LeaseInvariant == Spec => []LeaseInv
<1>1. Init => LeasesAgree /\ LeasesEqual
  BY DEF Init, LeasesAgree, LeasesEqual, Running, Exists
<1>2. Init => LeaseInv
  BY <1>1, InitTx DEF LeaseInv
<1>. QED
  BY <1>2, NextAgree, TxInvariant, PTL DEF Spec

LEMMA StepFence == TypeOK /\ TxInv /\ [Next]_vars => [Fence!Next]_(Fence!vars)
<1>. SUFFICES ASSUME TypeOK, TxInv, [Next]_vars PROVE [Fence!Next]_(Fence!vars)
  OBVIOUS
<1>1. [Tables!Fence!Next]_(Tables!Fence!vars)
  BY NextSteps, ShapedTables, StepKinds, Tables!StepFence
<1>. QED
  BY <1>1
  DEF Fence!Next, Fence!Admit, Fence!Extend, Fence!Expire, Fence!Open, Fence!vars, TenureOf,
      Tables!Fence!Next, Tables!Fence!Admit, Tables!Fence!Extend, Tables!Fence!Expire,
      Tables!Fence!Open, Tables!Fence!vars, Tables!TenureOf

\* The database implements the fence of a thread under READ COMMITTED: row locks and unique
\* indexes make up for what a statement saw and another transaction has changed since.
THEOREM StoreImplementsFence == Spec => ImplementsFence
<1>1. Init => Fence!Init
  BY DEF Init, Fence!Init, TenureOf
<1>. QED
  BY <1>1, StepFence, TxInvariant, PTL DEF Spec, ImplementsFence, Fence!Spec

-----------------------------------------------------------------------------
(* Entries and effects.                                                     *)

\* An entry numbered one past the greatest leaves no gap.
LEMMA EntryAdds ==
  ASSUME TypeOK, TxInv, NEW p \in Clients, UpdatesSession(p), tx[p] # None, tx[p].seq # 0,
         EntriesDense, EntryFits(p), entries' = WithEntry(p)
  PROVE  EntriesDense'
<1>. DEFINE e == tx[p].req.entry
            row == [run |-> tx[p].req.run, seq |-> tx[p].seq, body |-> e.body]
            K == {k \in EntryKeys : entries[k] # None}
            n == Cardinality(K)
<1>1. e \in Entry
  <2>1. tx[p].req \in Calls /\ tx[p].req.op \in {"start", "commit"} /\ e # None
    BY TxType DEF UpdatesSession, In
  <2>. QED
    BY <2>1, StartType, CommitType
<1>2. e.key \in EntryKeys /\ e.key \notin K
  BY <1>1 DEF Entry, EntryFits
<1>3. entries' = [entries EXCEPT ![e.key] = row]
  BY DEF WithEntry
<1>4. IsFiniteSet(K) /\ n \in Nat
  BY CallsAssumption, FS_Subset, FS_CardinalityType
<1>5. EntrySeqs = 1 .. n
  BY DEF EntriesDense
<1>6. tx[p].seq = n + 1
  <2>1. EntrySeqs \cup {0} = 0 .. n
    <3>. HIDE DEF n
    <3>. QED
      BY <1>4, <1>5
  <2>2. Max(0 .. n) = n
    <3>. HIDE DEF n
    <3>. QED
      BY <1>4 DEF Max
  <2>. QED
    BY <2>1, <2>2 DEF EntryFits
<1>7. row # None /\ row.seq = n + 1
  <2>1. row \in EntryRow
    <3>1. tx[p].req.run \in Runs
      <4>1. tx[p].req \in Calls /\ tx[p].req.op # "reap_stale"
        BY TxType DEF UpdatesSession, In
      <4>. QED
        BY <4>1, RunType
    <3>. QED
      BY <1>1, <3>1, TxType DEF Entry, EntryRow
  <2>. HIDE DEF n
  <2>2. row.seq = n + 1
    BY <1>6
  <2>. QED
    <3>. HIDE DEF row
    <3>. QED
      BY <2>1, <2>2, NoneAssumption
<1>. HIDE DEF row, n
<1>8. {k \in EntryKeys : entries'[k] # None} = K \cup {e.key}
  BY <1>2, <1>3, <1>7 DEF TypeOK
<1>9. EntrySeqs' = 1 .. (n + 1)
  <2>1. EntrySeqs' = {entries'[k].seq : k \in K \cup {e.key}}
    BY <1>8 DEF EntrySeqs
  <2>2. /\ \A k \in K : entries'[k].seq = entries[k].seq
        /\ entries'[e.key].seq = n + 1
    BY <1>2, <1>3, <1>7 DEF TypeOK
  <2>3. EntrySeqs' = EntrySeqs \cup {n + 1}
    <3>1. EntrySeqs = {entries[k].seq : k \in K}
      BY DEF EntrySeqs
    <3>. HIDE DEF K
    <3>. QED
      BY <2>1, <2>2, <3>1
  <2>. QED
    BY <1>4, <1>5, <2>3
<1>10. Cardinality(K \cup {e.key}) = n + 1
  BY <1>2, <1>4, FS_AddElement DEF n
<1>11. Cardinality(1 .. (n + 1)) = n + 1
  BY <1>4, FS_Interval
<1>. QED
  BY <1>8, <1>9, <1>10, <1>11 DEF EntriesDense

SessionInv ==
  /\ \A p \in Clients : EntryFits(p)
  /\ \A p, q \in Clients : p # q => ~(UpdatesSession(p) /\ UpdatesSession(q))
  /\ EntriesDense

LEMMA StepSession ==
  ASSUME TypeOK, TxInv, SessionInv, StepOk
  PROVE  SessionInv'
<1>1. ASSUME entries' = entries PROVE EntriesDense' /\ EntrySeqs' = EntrySeqs
  BY <1>1 DEF SessionInv, EntriesDense, EntrySeqs
<1>2. ASSUME NEW q \in Clients, tx'[q] = tx[q]
      PROVE  /\ UpdatesSession(q)' <=> UpdatesSession(q)
             /\ entries' = entries => EntryFits(q)'
  BY <1>1, <1>2 DEF SessionInv, EntryFits, UpdatesSession, In
<1>3. ASSUME NEW p \in Clients, Kept(p) PROVE SessionInv'
  <2>1. entries' = entries /\ \A q \in Clients \ {p} : tx'[q] = tx[q]
    BY <1>3 DEF Kept, tables
  <2>2. EntryFits(p)' /\ \A q \in Clients \ {p} : ~(UpdatesSession(p)' /\ UpdatesSession(q)')
    BY <1>3 DEF Kept
  <2>3. \A q \in Clients : EntryFits(q)'
    BY <1>2, <2>1, <2>2
  <2>4. ASSUME NEW a \in Clients, NEW b \in Clients, a # b
        PROVE  ~(UpdatesSession(a)' /\ UpdatesSession(b)')
    BY <1>2, <2>1, <2>2, <2>4 DEF SessionInv
  <2>. QED
    BY <1>1, <2>1, <2>3, <2>4 DEF SessionInv
<1>4. ASSUME NEW p \in Clients, tx[p] # None, Written(p) PROVE SessionInv'
  <2>1. EntriesMove(p) /\ tx'[p] = None /\ \A q \in Clients \ {p} : tx'[q] = tx[q]
    BY <1>4 DEF Written
  <2>2. EntryFits(p)' /\ ~UpdatesSession(p)'
    BY <2>1 DEF EntryFits, UpdatesSession, In
  <2>3. ASSUME NEW q \in Clients \ {p} PROVE EntryFits(q)'
    <3>1. CASE entries' = entries
      BY <1>2, <2>1, <3>1
    <3>2. CASE UpdatesSession(p)
      <4>1. ~UpdatesSession(q)
        BY <3>2 DEF SessionInv
      <4>2. tx[q] # None => tx[q].seq = 0
        BY <4>1 DEF TxInv, Fits, PcFits, UpdatesSession
      <4>. QED
        BY <2>1, <4>2 DEF EntryFits
    <3>. QED
      BY <2>1, <3>1, <3>2 DEF EntriesMove
  <2>4. ASSUME NEW a \in Clients, NEW b \in Clients, a # b
        PROVE  ~(UpdatesSession(a)' /\ UpdatesSession(b)')
    BY <1>2, <2>1, <2>2, <2>4 DEF SessionInv
  <2>5. EntriesDense'
    BY <1>1, <1>4, <2>1, EntryAdds DEF EntriesMove, SessionInv
  <2>. QED
    BY <2>2, <2>3, <2>4, <2>5 DEF SessionInv
<1>5. CASE UNCHANGED <<tables, tx, told>>
  BY <1>1, <1>2, <1>5 DEF SessionInv, tables
<1>. QED
  BY <1>3, <1>4, <1>5 DEF StepOk

\* Whoever is told to start an effect starts it in the same statement.
LEMMA StepEffects ==
  ASSUME TypeOK, EffectsFit, [Next]_vars
  PROVE  EffectsFit'
<1>1. CASE UNCHANGED <<effects, told>>
  BY <1>1 DEF EffectsFit
<1>2. ASSUME NEW p \in Clients, CommitRun(p) PROVE EffectsFit'
  BY <1>2 DEF CommitRun, EffectsFit, TypeOK
<1>3. ASSUME NEW p \in Clients, ReserveEffect(p) PROVE EffectsFit'
  BY <1>3 DEF ReserveEffect, EffectsFit, TypeOK
<1>4. ASSUME NEW p \in Clients, StartEffect(p) PROVE EffectsFit'
  <2>. DEFINE r == tx[p].req.run
  <2>1. CASE UNCHANGED <<effects, told>>
    BY <2>1 DEF EffectsFit
  <2>2. CASE /\ Startable(r) /\ effects' = [effects EXCEPT ![r] = "started"]
             /\ told' \in {told, [told EXCEPT ![r] = told[r] + 1]}
    <3>1. "started" \notin {None, "reserved", "failed"}
      BY NoneAssumption DEF EffectStatus
    <3>2. \A q \in Runs : told[q] \in Nat
      BY DEF TypeOK
    <3>3. ASSUME NEW q \in Runs
          PROVE  told'[q] <= 1 /\ (effects'[q] \in {None, "reserved", "failed"} => told'[q] = 0)
      <4>1. CASE q = r
        BY <2>2, <3>1, <3>2, <4>1 DEF Startable, EffectsFit, TypeOK
      <4>2. CASE q # r
        BY <2>2, <4>2 DEF EffectsFit, TypeOK
      <4>. QED
        BY <4>1, <4>2
    <3>. QED
      BY <3>3 DEF EffectsFit
  <2>. QED
    BY <1>4, <2>1, <2>2 DEF StartEffect
<1>5. ASSUME NEW p \in Clients,
             ClientStep(p), ~CommitRun(p), ~ReserveEffect(p), ~StartEffect(p)
      PROVE  UNCHANGED <<effects, told>>
  BY <1>5
  DEF ClientStep, EnsureSession, LookUp, BeginStart, Insert, Claim, LockSession, CommitStart,
      LookAgain, Begin, LockForCommit, LockForEffect, MarkCancelled, LockForRenew, Renew,
      LockForRelease, Release, BeginReap, LockForReap, ReapStale, DeadlockAbort, Unwritten, tables
<1>6. ASSUME NEW p \in Clients, Abort(p) \/ \E req \in Requests : Call(p, req)
      PROVE  UNCHANGED <<effects, told>>
  BY <1>6 DEF Abort, Call, Unwritten, tables
<1>7. Tick \/ UNCHANGED vars => UNCHANGED <<effects, told>>
  BY DEF Tick, vars, tables
<1>. QED
  BY <1>1, <1>2, <1>3, <1>4, <1>5, <1>6, <1>7 DEF Next

-----------------------------------------------------------------------------
(* Check and act.                                                           *)
(*                                                                         *)
(* A call writes by what it found at an earlier statement.  A row it has     *)
(* locked, a key it has inserted and the entries it numbers by stay as they  *)
(* were found until it commits; Found says what that comes to.              *)

StartFound(p) == Inserted(p) => ~KeyUsed(tx[p].req.key)

CommitFound(p) ==
  In(p, "commit") /\ tx[p].pc \in {"entries", "commit"} =>
    LeaseHeld(p, tx[p].req.run) /\ ~EffectRefused(tx[p].req.run, tx[p].req.effect)

EffectFound(p) ==
  IsEffect(p) /\ At(p, "commit") =>
    /\ tx[p].locked = {tx[p].req.run}
    /\ Running(tx[p].req.run) /\ LeaseHeld(p, tx[p].req.run)

RenewFound(p) == In(p, "renew") /\ At(p, "commit") => runs[tx[p].req.run].until > tx[p].now

ReapFound(p) ==
  In(p, "reap_stale") /\ At(p, "commit") => \A r \in tx[p].locked : Lapsed(r, tx[p].now)

EntryFound(p) ==
  UpdatesSession(p) =>
    ~EntryConflict(tx[p].req.entry) /\ tx[p].seq = EntrySeq(tx[p].req.entry)

Found(p) ==
  StartFound(p) /\ CommitFound(p) /\ EffectFound(p) /\ RenewFound(p) /\ ReapFound(p) /\ EntryFound(p)

KeysApart(p, q) ==
  Inserted(p) /\ Inserted(q) => tx[p].req.key = None \/ tx[p].req.key # tx[q].req.key

FoundInv ==
  /\ \A p \in Clients : Found(p)
  /\ \A p, q \in Clients : p # q => KeysApart(p, q)

\* p knows what it has to, and nobody else inserts its key.
Knows(p) == Found(p)' /\ \A q \in Clients \ {p} : KeysApart(p, q)'

LEMMA Elsewhere ==
  ASSUME NEW p \in Clients, tx'[p] = None \/ tx'[p].pc \notin {"share", "entries", "commit"}
  PROVE  Knows(p)
BY DEF Knows, Found, StartFound, CommitFound, EffectFound, RenewFound, ReapFound, EntryFound,
       KeysApart, Inserted, UpdatesSession, In, At

LEMMA InsertKnows ==
  ASSUME TypeOK, TxInv, NEW p \in Clients, Insert(p)
  PROVE  Knows(p)
<1>1. tx[p] # None /\ tx[p].pc = "insert" /\ IndexFree(p) /\ runs' = runs
  BY DEF Insert, At, Unwritten, tables
<1>2. In(p, "start") /\ tx[p] \in Tx
  BY <1>1, TxType DEF TxInv, Fits, PcFits
<1>3. \A q \in Clients \ {p} : tx'[q] = tx[q]
  BY DEF Insert, Goto, TypeOK
<1>4. CASE UniqueViolation(tx[p].req)
  <2>1. tx'[p].pc = "again"
    BY <1>2, <1>4 DEF Insert, Goto, TypeOK, Tx
  <2>. QED
    BY <2>1, Elsewhere
<1>5. CASE ~UniqueViolation(tx[p].req)
  <2>1. tx'[p].pc = "share" /\ tx'[p].req = tx[p].req
    BY <1>2, <1>5 DEF Insert, Goto, TypeOK, Tx
  <2>2. ~KeyUsed(tx[p].req.key)
    BY <1>5 DEF UniqueViolation
  <2>3. Found(p)'
    BY <1>1, <1>2, <2>1, <2>2
    DEF Found, StartFound, CommitFound, EffectFound, RenewFound, ReapFound, EntryFound,
        UpdatesSession, IsEffect, In, At, KeyUsed, Exists
  <2>4. ASSUME NEW q \in Clients \ {p}, Inserted(q)'
        PROVE  tx[p].req.key = None \/ tx[p].req.key # tx'[q].req.key
    <3>1. Inserted(q) /\ tx'[q] = tx[q]
      BY <1>3, <2>4 DEF Inserted, In
    <3>. QED
      BY <1>1, <3>1 DEF IndexFree
  <2>. QED
    BY <2>1, <2>3, <2>4 DEF Knows, KeysApart
<1>. QED
  BY <1>4, <1>5

\* A start that goes on with its inserted row.
LEMMA InsertedKnows ==
  ASSUME TypeOK, TxInv, FoundInv, NEW p \in Clients, Inserted(p), UNCHANGED tables,
         \A q \in Clients \ {p} : tx'[q] = tx[q],
         tx'[p] # None, tx'[p].req = tx[p].req,
         UpdatesSession(p)' =>
           ~EntryConflict(tx[p].req.entry) /\ tx'[p].seq = EntrySeq(tx[p].req.entry)
  PROVE  Knows(p)
<1>1. In(p, "start") /\ ~KeyUsed(tx[p].req.key)
  BY DEF FoundInv, Found, StartFound, Inserted
<1>2. StartFound(p)' /\ EntryFound(p)'
  BY <1>1 DEF StartFound, EntryFound, EntryConflict, EntrySeq, EntrySeqs, KeyUsed, Exists, tables
<1>3. CommitFound(p)' /\ EffectFound(p)' /\ RenewFound(p)' /\ ReapFound(p)'
  BY <1>1 DEF CommitFound, EffectFound, RenewFound, ReapFound, IsEffect, In
<1>4. \A q \in Clients \ {p} : KeysApart(p, q)'
  BY DEF FoundInv, KeysApart, Inserted, In
<1>. QED
  BY <1>2, <1>3, <1>4 DEF Knows, Found

LEMMA ClaimKnows ==
  ASSUME TypeOK, TxInv, FoundInv, NEW p \in Clients, Claim(p)
  PROVE  Knows(p)
<1>1. tx[p] # None /\ tx[p].pc = "share" /\ tx[p] \in Tx /\ UNCHANGED tables
  BY TxType DEF Claim, At, Unwritten
<1>2. In(p, "start") /\ Inserted(p)
  BY <1>1 DEF TxInv, Fits, PcFits, Inserted
<1>3. CASE Answer(p)
  BY <1>3, Elsewhere DEF Answer, TypeOK
<1>4. CASE ~Answer(p)
  <2>1. Goto(p, IF tx[p].req.entry = None THEN "commit" ELSE "entries")
    BY <1>4 DEF Claim
  <2>2. /\ tx'[p] # None /\ tx'[p].req = tx[p].req
        /\ tx'[p].pc = "commit" => tx[p].req.entry = None
        /\ \A q \in Clients \ {p} : tx'[q] = tx[q]
    <3>. DEFINE pc == IF tx[p].req.entry = None THEN "commit" ELSE "entries"
                x == [tx[p] EXCEPT !.pc = pc]
    <3>1. x \in Tx /\ x.req = tx[p].req /\ x.pc = pc
      BY <1>1 DEF Tx
    <3>2. tx' = [tx EXCEPT ![p] = x]
      BY <2>1 DEF Goto, TypeOK
    <3>. HIDE DEF x
    <3>. QED
      BY <3>1, <3>2, NoneAssumption DEF TypeOK
  <2>3. ~UpdatesSession(p)'
    BY <2>2 DEF UpdatesSession
  <2>. QED
    BY <1>1, <1>2, <2>2, <2>3, InsertedKnows
<1>. QED
  BY <1>3, <1>4

LEMMA SessionKnows ==
  ASSUME TypeOK, TxInv, FoundInv, NEW p \in Clients, LockSession(p)
  PROVE  Knows(p)
<1>. DEFINE e == tx[p].req.entry
            n == EntrySeq(e)
<1>1. tx[p] # None /\ tx[p].pc = "entries" /\ tx[p] \in Tx /\ UNCHANGED tables
  BY TxType DEF LockSession, At, Unwritten
<1>2. In(p, "start") \/ In(p, "commit")
  BY <1>1 DEF TxInv, Fits, PcFits
<1>3. CASE Answer(p)
  BY <1>3, Elsewhere DEF Answer, TypeOK
<1>4. CASE ~Answer(p)
  <2>1. ~EntryConflict(e) /\ tx' = [tx EXCEPT ![p].pc = "commit", ![p].seq = n]
    BY <1>4 DEF LockSession
  <2>2. n \in Nat
    BY NextEntrySeq DEF EntrySeq
  <2>. HIDE DEF n
  <2>3. /\ tx'[p] # None /\ tx'[p].req = tx[p].req /\ tx'[p].now = tx[p].now
        /\ tx'[p].pc = "commit" /\ tx'[p].seq = n
        /\ \A q \in Clients \ {p} : tx'[q] = tx[q]
    <3>. DEFINE x == [tx[p] EXCEPT !.pc = "commit", !.seq = n]
    <3>1. x \in Tx /\ x.req = tx[p].req /\ x.pc = "commit" /\ x.seq = n /\ x.now = tx[p].now
      BY <1>1, <2>2 DEF Tx
    <3>2. tx' = [tx EXCEPT ![p] = x]
      BY <2>1 DEF TypeOK
    <3>. HIDE DEF x
    <3>. QED
      BY <3>1, <3>2, NoneAssumption DEF TypeOK
  <2>4. CASE In(p, "start")
    <3>1. Inserted(p)
      BY <1>1, <2>4 DEF Inserted
    <3>. QED
      BY <1>1, <2>1, <2>3, <3>1, InsertedKnows DEF n
  <2>5. CASE In(p, "commit")
    <3>1. CommitFound(p)'
      <4>1. LeaseHeld(p, tx[p].req.run) /\ ~EffectRefused(tx[p].req.run, tx[p].req.effect)
        BY <1>1, <2>5 DEF FoundInv, Found, CommitFound
      <4>. QED
        BY <1>1, <2>3, <4>1 DEF CommitFound, LeaseHeld, EffectRefused, tables
    <3>2. EntryFound(p)'
      BY <1>1, <2>1, <2>3 DEF n, EntryFound, EntryConflict, EntrySeq, EntrySeqs, tables
    <3>3. /\ StartFound(p)' /\ EffectFound(p)' /\ RenewFound(p)' /\ ReapFound(p)'
          /\ \A q \in Clients \ {p} : KeysApart(p, q)'
      BY <2>3, <2>5
      DEF StartFound, EffectFound, RenewFound, ReapFound, KeysApart, Inserted, IsEffect, In
    <3>. QED
      BY <3>1, <3>2, <3>3 DEF Knows, Found
  <2>. QED
    BY <1>2, <2>4, <2>5
<1>. QED
  BY <1>3, <1>4

\* What a transaction knows of the rows it has just locked.
LEMMA LockKnows ==
  ASSUME TypeOK, TxInv, NEW p \in Clients, tx[p] # None, UNCHANGED tables, ~In(p, "start"),
         NEW pc \in Pcs, NEW S \in SUBSET Runs, Lock(p, pc, S),
         In(p, "commit") =>
           /\ pc = "commit" => tx[p].req.entry = None
           /\ LeaseHeld(p, tx[p].req.run) /\ ~EffectRefused(tx[p].req.run, tx[p].req.effect),
         IsEffect(p) =>
           S = {tx[p].req.run} /\ Running(tx[p].req.run) /\ LeaseHeld(p, tx[p].req.run),
         In(p, "renew") => runs[tx[p].req.run].until > tx[p].now,
         In(p, "reap_stale") => \A r \in S : Lapsed(r, tx[p].now)
  PROVE  Knows(p)
<1>. DEFINE x == [tx[p] EXCEPT !.pc = pc, !.locked = S]
<1>1. /\ x \in Tx /\ x.req = tx[p].req /\ x.now = tx[p].now /\ x.pc = pc /\ x.locked = S
  BY TxType DEF Tx, Pcs
<1>2. tx' = [tx EXCEPT ![p] = x]
  BY DEF Lock, TypeOK
<1>. HIDE DEF x
<1>3. tx'[p] = x /\ x # None
  BY <1>1, <1>2, NoneAssumption DEF TypeOK
<1>4. StartFound(p)' /\ \A q \in Clients \ {p} : KeysApart(p, q)'
  BY <1>1, <1>3 DEF StartFound, KeysApart, Inserted, In
<1>5. CommitFound(p)'
  BY <1>1, <1>3 DEF CommitFound, LeaseHeld, EffectRefused, In, tables
<1>6. EffectFound(p)'
  BY <1>1, <1>3 DEF EffectFound, IsEffect, LeaseHeld, Running, Exists, In, tables
<1>7. RenewFound(p)'
  BY <1>1, <1>3 DEF RenewFound, In, tables
<1>8. ReapFound(p)'
  BY <1>1, <1>3 DEF ReapFound, Lapsed, Running, Exists, In, tables
<1>9. EntryFound(p)'
  BY <1>1, <1>3 DEF EntryFound, UpdatesSession, In
<1>. QED
  BY <1>4, <1>5, <1>6, <1>7, <1>8, <1>9 DEF Knows, Found

LEMMA LocksKnow ==
  ASSUME TypeOK, TxInv, NEW p \in Clients,
         \/ LockForCommit(p) \/ LockForEffect(p) \/ LockForRenew(p) \/ LockForRelease(p)
         \/ \E S \in SUBSET Runs : LockForReap(p, S)
  PROVE  Knows(p)
<1>1. tx[p] # None /\ UNCHANGED tables
  BY DEF LockForCommit, LockForEffect, LockForRenew, LockForRelease, LockForReap, At, Unwritten
<1>2. CASE Answer(p)
  BY <1>2, Elsewhere DEF Answer, TypeOK
<1>3. ~In(p, "reap_stale") => tx[p].req.run \in Runs
  BY <1>1, TxType, RunType DEF In
<1>pc. "commit" \in Pcs
  BY DEF Pcs
<1>4. CASE LockForCommit(p) /\ ~Answer(p)
  <2>1. /\ In(p, "commit") /\ CommitAllowed(p, tx[p].req.run)
        /\ Lock(p, IF tx[p].req.entry = None THEN "commit" ELSE "entries", {tx[p].req.run})
    BY <1>4 DEF LockForCommit
  <2>2. LeaseHeld(p, tx[p].req.run) /\ ~EffectRefused(tx[p].req.run, tx[p].req.effect)
    BY <2>1 DEF CommitAllowed
  <2>3. ~In(p, "start") /\ ~IsEffect(p) /\ ~In(p, "renew") /\ ~In(p, "reap_stale")
    BY <2>1 DEF IsEffect, In
  <2>4. PICK pc \in {"commit", "entries"} :
          Lock(p, pc, {tx[p].req.run}) /\ (pc = "commit" => tx[p].req.entry = None)
    BY <2>1
  <2>5. pc \in Pcs /\ {tx[p].req.run} \in SUBSET Runs
    BY <1>3, <2>3 DEF Pcs
  <2>. QED
    BY <1>1, <2>2, <2>3, <2>4, <2>5, LockKnows
<1>5. CASE LockForEffect(p) /\ ~Answer(p)
  <2>1. /\ IsEffect(p) /\ Running(tx[p].req.run) /\ LeaseHeld(p, tx[p].req.run)
        /\ Lock(p, "commit", {tx[p].req.run})
    BY <1>5 DEF LockForEffect
  <2>2. ~In(p, "start") /\ ~In(p, "commit") /\ ~In(p, "renew") /\ ~In(p, "reap_stale")
    BY <2>1 DEF IsEffect, In
  <2>3. {tx[p].req.run} \in SUBSET Runs
    BY <1>3, <2>2
  <2>. QED
    BY <1>1, <1>pc, <2>1, <2>2, <2>3, LockKnows
<1>6. CASE LockForRenew(p) /\ ~Answer(p)
  <2>1. /\ In(p, "renew") /\ runs[tx[p].req.run].until > tx[p].now
        /\ Lock(p, "commit", {tx[p].req.run})
    BY <1>6 DEF LockForRenew
  <2>2. ~In(p, "start") /\ ~In(p, "commit") /\ ~IsEffect(p) /\ ~In(p, "reap_stale")
    BY <2>1 DEF IsEffect, In
  <2>3. {tx[p].req.run} \in SUBSET Runs
    BY <1>3, <2>2
  <2>. QED
    BY <1>1, <1>pc, <2>1, <2>2, <2>3, LockKnows
<1>7. CASE LockForRelease(p)
  <2>. DEFINE S == IF Holds(p, tx[p].req.run) THEN {tx[p].req.run} ELSE {}
  <2>1. In(p, "release") /\ Lock(p, "commit", S)
    BY <1>7 DEF LockForRelease
  <2>2. S \in SUBSET Runs
    BY <1>3, <2>1 DEF In
  <2>. HIDE DEF S
  <2>3. ~In(p, "start") /\ ~In(p, "commit") /\ ~IsEffect(p) /\ ~In(p, "renew") /\ ~In(p, "reap_stale")
    BY <2>1 DEF IsEffect, In
  <2>. QED
    BY <1>1, <1>pc, <2>1, <2>2, <2>3, LockKnows
<1>8. ASSUME NEW S \in SUBSET Runs, LockForReap(p, S) PROVE Knows(p)
  <2>1. In(p, "reap_stale") /\ Lock(p, "commit", S) /\ \A r \in S : Lapsed(r, tx[p].now)
    BY <1>8 DEF LockForReap, Oldest, Reapable, At, TxInv, Fits, PcFits
  <2>2. ~In(p, "start") /\ ~In(p, "commit") /\ ~IsEffect(p) /\ ~In(p, "renew")
    BY <2>1 DEF IsEffect, In
  <2>. QED
    BY <1>1, <1>pc, <1>8, <2>1, <2>2, LockKnows
<1>. QED
  BY <1>2, <1>4, <1>5, <1>6, <1>7, <1>8

LEMMA ClientKnows ==
  ASSUME TypeOK, TxInv, FoundInv, NEW p \in Clients, ClientStep(p)
  PROVE  Knows(p)
<1>1. CASE Answer(p) \/ Commits(p)
  BY <1>1, Elsewhere DEF Answer, Commits, TypeOK
<1>2. ASSUME NEW pc \in Pcs \ {"share", "entries", "commit"}, tx'[p].pc = pc PROVE Knows(p)
  BY <1>2, Elsewhere
<1>3. CASE EnsureSession(p) \/ LookUp(p) \/ BeginStart(p) \/ Begin(p) \/ BeginReap(p)
  <2>1. tx[p] \in Tx
    BY <1>3, TxType DEF EnsureSession, LookUp, BeginStart, Begin, BeginReap, At
  <2>2. Answer(p) \/ \E pc \in {"lookup", "begin", "insert", "row", "rows"} : tx'[p].pc = pc
    BY <1>3, <2>1 DEF EnsureSession, LookUp, BeginStart, Begin, BeginReap, Goto, Tx, TypeOK
  <2>. QED
    BY <1>1, <1>2, <2>2 DEF Pcs
<1>4. CASE Insert(p) \/ Claim(p) \/ LockSession(p)
  BY <1>4, InsertKnows, ClaimKnows, SessionKnows
<1>5. CASE \/ LockForCommit(p) \/ LockForEffect(p) \/ LockForRenew(p) \/ LockForRelease(p)
           \/ \E S \in SUBSET Runs : LockForReap(p, S)
  BY <1>5, LocksKnow
<1>6. CASE LookAgain(p) \/ DeadlockAbort(p) \/ CommitStart(p) \/ CommitRun(p)
           \/ ReserveEffect(p) \/ StartEffect(p) \/ MarkCancelled(p) \/ Renew(p) \/ Release(p)
           \/ ReapStale(p)
  BY <1>1, <1>6
  DEF LookAgain, DeadlockAbort, CommitStart, CommitRun, ReserveEffect, StartEffect, MarkCancelled,
      Renew, Release, ReapStale
<1>. QED
  BY <1>3, <1>4, <1>5, <1>6 DEF ClientStep

\* A row is nobody's but of who has locked it: others find it as it was, but for the mark of
\* a cancellation.  A new row is the inserted one.
RowsStay(p) ==
  \A r \in Runs :
    /\ runs[r] # None => runs'[r] # None /\ runs'[r].key = runs[r].key
    /\ runs[r] # None /\ ~Locks(p, r) =>
         /\ runs'[r].status = runs[r].status
         /\ runs'[r].lease = runs[r].lease /\ runs'[r].until = runs[r].until
    /\ ~Locks(p, r) => effects'[r] = effects[r]
    /\ runs[r] = None /\ runs'[r] # None =>
         Inserted(p) /\ r = tx[p].req.run /\ runs'[r].key = tx[p].req.key

LEMMA RowKeeps ==
  ASSUME NEW row \in Row, NEW n
  PROVE  /\ [row EXCEPT !.until = n].key = row.key
         /\ [row EXCEPT !.lease = None, !.until = 0].key = row.key
         /\ [row EXCEPT !.cancel = TRUE].key = row.key
         /\ [row EXCEPT !.cancel = TRUE].status = row.status
         /\ [row EXCEPT !.cancel = TRUE].lease = row.lease
         /\ [row EXCEPT !.cancel = TRUE].until = row.until
BY DEF Row

LEMMA UntouchedStays ==
  ASSUME NEW p \in Clients, runs' = runs, \A r \in Runs : ~Locks(p, r) => effects'[r] = effects[r]
  PROVE  RowsStay(p)
BY DEF RowsStay

\* One row that p has locked gets a new state with its key.
LEMMA LockedStays ==
  ASSUME TypeOK, NEW p \in Clients, NEW r \in Runs, Locks(p, r), Exists(r), NEW row \in Row,
         row.key = runs[r].key, runs' = [runs EXCEPT ![r] = row],
         \A q \in Runs \ {r} : effects'[q] = effects[q]
  PROVE  RowsStay(p)
<1>1. row # None
  BY NoneAssumption
<1>. QED
  BY <1>1 DEF RowsStay, Exists, TypeOK

LEMMA StartStays ==
  ASSUME TypeOK, TxInv, NEW p \in Clients, CommitStart(p)
  PROVE  RowsStay(p)
<1>. DEFINE s == tx[p].req
            row == [status |-> "running", thread |-> s.thread, key |-> s.key, lease |-> s.lease,
                    until |-> IF s.lease = None THEN 0 ELSE tx[p].now + Ttl,
                    seq |-> 0, gaps |-> {}, cancel |-> FALSE]
<1>1. tx[p] # None /\ Inserted(p)
  BY DEF CommitStart, At, Inserted
<1>2. s.run \in Runs
  <2>1. s \in Calls /\ s.op = "start"
    BY <1>1, TxType DEF Inserted, In
  <2>. QED
    BY <2>1, StartType
<1>3. runs' = [runs EXCEPT ![s.run] = row] /\ effects' = effects
  BY DEF CommitStart
<1>4. ~Exists(s.run)
  BY <1>1, InsertedFits
<1>5. row.key = s.key
  OBVIOUS
<1>. HIDE DEF row, s
<1>6. runs'[s.run] = row /\ \A q \in Runs \ {s.run} : runs'[q] = runs[q]
  BY <1>2, <1>3 DEF TypeOK
<1>. QED
  BY <1>1, <1>2, <1>3, <1>4, <1>5, <1>6 DEF RowsStay, Exists, s

LEMMA CommitStays ==
  ASSUME TypeOK, TxInv, NEW p \in Clients, CommitRun(p)
  PROVE  RowsStay(p)
<1>. DEFINE c == tx[p].req
            seq == IF c.seq = 0 THEN runs[c.run].seq ELSE c.seq
            row == IF c.finish THEN Ended(runs[c.run], seq)
                   ELSE IF c.seq = 0 THEN runs[c.run] ELSE WithEvent(runs[c.run], seq)
<1>1. tx[p] # None /\ tx[p].pc = "commit" /\ In(p, "commit")
  BY DEF CommitRun, At
<1>2. c.run \in Runs /\ c.seq \in Nat
  <2>1. c \in Calls /\ c.op = "commit"
    BY <1>1, TxType DEF In
  <2>. QED
    BY <2>1, CommitType
<1>3. tx[p].locked = {c.run} /\ Running(c.run)
  BY <1>1 DEF TxInv, Fits, CommitFits
<1>4. /\ runs' = [runs EXCEPT ![c.run] = row]
      /\ effects' = IF c.effect = None THEN effects ELSE [effects EXCEPT ![c.run] = c.effect]
  BY DEF CommitRun
<1>5. runs[c.run] \in Row
  BY <1>2, <1>3 DEF Running, Exists, TypeOK
<1>6. seq \in Nat
  BY <1>2, <1>5, RowFields
<1>. HIDE DEF seq
<1>7. row \in Row /\ row.key = runs[c.run].key
  BY <1>5, <1>6, EventMoves, EndMoves
<1>. HIDE DEF row
<1>8. \A q \in Runs \ {c.run} : effects'[q] = effects[q]
  BY <1>4
<1>. QED
  BY <1>1, <1>2, <1>3, <1>4, <1>7, <1>8, LockedStays DEF Running, Locks

LEMMA EffectStays ==
  ASSUME TypeOK, TxInv, FoundInv, NEW p \in Clients, ReserveEffect(p) \/ StartEffect(p)
  PROVE  RowsStay(p)
<1>1. tx[p] # None /\ tx[p].locked = {tx[p].req.run}
  BY DEF ReserveEffect, StartEffect, At, FoundInv, Found, EffectFound, IsEffect
<1>2. runs' = runs /\ \A q \in Runs \ {tx[p].req.run} : effects'[q] = effects[q]
  BY DEF ReserveEffect, StartEffect, TypeOK
<1>. QED
  BY <1>1, <1>2, UntouchedStays DEF Locks

LEMMA MarkStays ==
  ASSUME TypeOK, TxInv, NEW p \in Clients, MarkCancelled(p)
  PROVE  RowsStay(p)
<1>. DEFINE r == tx[p].req.run
            row == [runs[r] EXCEPT !.cancel = TRUE]
<1>1. effects' = effects
  BY DEF MarkCancelled
<1>2. r \in Runs
  <2>1. tx[p].req \in Calls /\ tx[p].req.op = "mark_cancelled"
    BY TxType DEF MarkCancelled, At, TxInv, Fits, PcFits, In
  <2>. QED
    BY <2>1, MarkType
<1>3. CASE ~Exists(r)
  <2>1. runs' = runs
    BY <1>3 DEF MarkCancelled
  <2>. QED
    BY <1>1, <2>1, UntouchedStays
<1>4. CASE Exists(r)
  <2>1. runs' = [runs EXCEPT ![r] = row]
    BY <1>4 DEF MarkCancelled, TypeOK
  <2>2. runs[r] \in Row
    BY <1>2, <1>4 DEF Exists, TypeOK
  <2>3. row \in Row /\ row.key = runs[r].key /\ row.status = runs[r].status
        /\ row.lease = runs[r].lease /\ row.until = runs[r].until
    BY <2>2, RowMoves, RowKeeps
  <2>. HIDE DEF row, r
  <2>4. runs'[r] = row /\ row # None /\ \A q \in Runs \ {r} : runs'[q] = runs[q]
    BY <1>2, <2>1, <2>3, NoneAssumption DEF TypeOK
  <2>. QED
    BY <1>1, <1>4, <2>3, <2>4 DEF RowsStay, Exists
<1>. QED
  BY <1>3, <1>4

LEMMA LeaseStays ==
  ASSUME TypeOK, TxInv, NEW p \in Clients, Renew(p) \/ Release(p)
  PROVE  RowsStay(p)
<1>. DEFINE r == tx[p].req.run
<1>1. tx[p] # None /\ tx[p].pc = "commit" /\ effects' = effects
      /\ (In(p, "renew") \/ In(p, "release"))
  BY DEF Renew, Release, At
<1>2. r \in Runs /\ tx[p].now + Ttl \in Nat
  <2>1. tx[p].req \in Calls /\ tx[p].req.op \in {"renew", "release"} /\ tx[p].now \in Nat
    BY <1>1, TxType DEF In
  <2>. QED
    BY <2>1, HolderType, CallsAssumption
<1>3. CASE runs' = runs
  BY <1>1, <1>3, UntouchedStays
<1>4. CASE runs' # runs
  <2>1. r \in tx[p].locked /\ Holds(p, r)
    <3>1. /\ In(p, "renew") => tx[p].locked = {r} /\ Holds(p, r)
          /\ In(p, "release") => tx[p].locked = IF Holds(p, r) THEN {r} ELSE {}
      BY <1>1 DEF TxInv, Fits, LeaseFits, HasLease, At
    <3>2. In(p, "release") => Release(p)
      BY DEF Renew, In
    <3>3. Release(p) => r \in tx[p].locked
      BY <1>4 DEF Release
    <3>. QED
      BY <1>1, <3>1, <3>2, <3>3
  <2>2. runs[r] \in Row /\ runs[r].status = "running"
    BY <1>2, <2>1 DEF Holds, Running, Exists, TypeOK
  <2>3. \/ runs' = [runs EXCEPT ![r] = [runs[r] EXCEPT !.until = tx[p].now + Ttl]]
        \/ runs' = [runs EXCEPT ![r] = [runs[r] EXCEPT !.lease = None, !.until = 0]]
    BY <1>2, <1>4 DEF Renew, Release, TypeOK
  <2>4. ASSUME NEW row \in Row, row.key = runs[r].key, runs' = [runs EXCEPT ![r] = row]
        PROVE  RowsStay(p)
    BY <1>1, <1>2, <2>1, <2>4, LockedStays DEF Holds, Running, Locks
  <2>. DEFINE until == tx[p].now + Ttl
              renewed == [runs[r] EXCEPT !.until = until]
              freed == [runs[r] EXCEPT !.lease = None, !.until = 0]
  <2>5. until \in Nat
    BY <1>2
  <2>. HIDE DEF until
  <2>6. /\ renewed \in Row /\ renewed.key = runs[r].key
        /\ freed \in Row /\ freed.key = runs[r].key
    BY <2>2, <2>5, RowMoves, RowKeeps
  <2>7. runs' = [runs EXCEPT ![r] = renewed] \/ runs' = [runs EXCEPT ![r] = freed]
    BY <2>3 DEF until
  <2>. HIDE DEF renewed, freed
  <2>. QED
    BY <2>4, <2>6, <2>7
<1>. QED
  BY <1>3, <1>4

LEMMA ReapStays ==
  ASSUME TypeOK, TxInv, NEW p \in Clients, ReapStale(p)
  PROVE  RowsStay(p)
<1>. DEFINE S == tx[p].locked
            next == tx[p].next
<1>1. tx[p] # None /\ In(p, "reap_stale") /\ At(p, "commit") /\ effects' = effects
  BY DEF ReapStale, At
<1>2. S \in SUBSET Runs /\ next \in [Runs -> Nat]
  BY <1>1, TxType
<1>3. CASE SeqTaken(p)
  BY <1>1, <1>3, UntouchedStays DEF ReapStale
<1>4. CASE ~SeqTaken(p)
  <2>1. runs' = [r \in Runs |-> IF r \in S THEN Ended(runs[r], next[r]) ELSE runs[r]]
    BY <1>4 DEF ReapStale
  <2>2. ASSUME NEW r \in S
        PROVE  runs'[r] # None /\ runs'[r].key = runs[r].key /\ runs[r] # None
    <3>1. runs[r] \in Row /\ runs[r] # None /\ r \in Runs
      BY <1>1, <1>2 DEF TxInv, Fits, ReapFits, Running, Exists, TypeOK
    <3>2. next[r] \in Nat
      BY <1>2, <3>1
    <3>3. Ended(runs[r], next[r]) \in Row /\ Ended(runs[r], next[r]).key = runs[r].key
      BY <3>1, <3>2, EndMoves
    <3>. QED
      BY <2>1, <3>1, <3>3, NoneAssumption
  <2>3. \A r \in Runs \ S : runs'[r] = runs[r]
    BY <2>1
  <2>. QED
    BY <1>1, <2>2, <2>3 DEF RowsStay, Locks
<1>. QED
  BY <1>3, <1>4

LEMMA ClientStays ==
  ASSUME TypeOK, TxInv, FoundInv, NEW p \in Clients, ClientStep(p)
  PROVE  RowsStay(p)
<1>1. CASE UNCHANGED tables
  BY <1>1, UntouchedStays DEF tables
<1>2. CASE CommitStart(p) \/ CommitRun(p) \/ ReserveEffect(p) \/ StartEffect(p) \/ MarkCancelled(p)
           \/ Renew(p) \/ Release(p) \/ ReapStale(p)
  BY <1>2, StartStays, CommitStays, EffectStays, MarkStays, LeaseStays, ReapStays
<1>. QED
  BY <1>1, <1>2
  DEF ClientStep, EnsureSession, LookUp, BeginStart, Insert, Claim, LockSession, LookAgain, Begin,
      LockForCommit, LockForEffect, LockForRenew, LockForRelease, BeginReap, LockForReap,
      DeadlockAbort, Unwritten

\* Whoever is in the middle of its statements still knows what it knew.
LEMMA OthersKnow ==
  ASSUME TypeOK, TxInv, FoundInv, NEW p \in Clients, RowsStay(p),
         NEW q \in Clients \ {p}, tx'[q] = tx[q],
         UpdatesSession(q) => entries' = entries
  PROVE  Found(q)'
<1>. SUFFICES ASSUME tx[q] # None PROVE Found(q)'
  BY DEF Found, StartFound, CommitFound, EffectFound, RenewFound, ReapFound, EntryFound, Inserted,
         UpdatesSession, IsEffect, In, At
<1>1. Found(q) /\ Fits(q) /\ Apart(p, q) /\ KeysApart(p, q)
  BY DEF TxInv, FoundInv
<1>2. tx[q].req \in Calls /\ tx[q].locked \in SUBSET Runs
  BY TxType
<1>3. ASSUME NEW r \in tx[q].locked, runs[r] # None
      PROVE  /\ r \in Runs /\ runs'[r] # None /\ runs'[r].status = runs[r].status
             /\ runs'[r].lease = runs[r].lease /\ runs'[r].until = runs[r].until
             /\ effects'[r] = effects[r]
  <2>1. ~Locks(p, r)
    BY <1>1 DEF Apart, Locks
  <2>. QED
    BY <1>2, <1>3, <2>1 DEF RowsStay
<1>4. StartFound(q)'
  <2>1. ASSUME Inserted(q), KeyUsed(tx[q].req.key)' PROVE FALSE
    <3>. DEFINE k == tx[q].req.key
    <3>1. PICK r \in Runs : runs'[r] # None /\ runs'[r].key = k
      BY <2>1 DEF KeyUsed, Exists
    <3>2. k # None /\ ~KeyUsed(k)
      BY <1>1, <2>1 DEF KeyUsed, Found, StartFound
    <3>3. CASE runs[r] # None
      BY <3>1, <3>2, <3>3 DEF RowsStay, KeyUsed, Exists
    <3>4. CASE runs[r] = None
      BY <1>1, <2>1, <3>1, <3>2, <3>4 DEF RowsStay, KeysApart
    <3>. QED
      BY <3>3, <3>4
  <2>. QED
    BY <2>1 DEF StartFound, Inserted, In
<1>5. CommitFound(q)'
  <2>1. ASSUME In(q, "commit"), tx[q].pc \in {"entries", "commit"}
        PROVE  LeaseHeld(q, tx[q].req.run)' /\ ~EffectRefused(tx[q].req.run, tx[q].req.effect)'
    <3>1. tx[q].req.run \in tx[q].locked /\ runs[tx[q].req.run] # None
      BY <1>1, <2>1 DEF Fits, CommitFits, Running, Exists
    <3>2. LeaseHeld(q, tx[q].req.run) /\ ~EffectRefused(tx[q].req.run, tx[q].req.effect)
      BY <1>1, <2>1 DEF Found, CommitFound
    <3>. QED
      BY <1>3, <3>1, <3>2 DEF LeaseHeld, EffectRefused
  <2>. QED
    BY <2>1 DEF CommitFound, In
<1>6. EffectFound(q)'
  <2>1. ASSUME IsEffect(q), At(q, "commit")
        PROVE  /\ tx'[q].locked = {tx'[q].req.run}
               /\ Running(tx[q].req.run)' /\ LeaseHeld(q, tx[q].req.run)'
    <3>1. /\ tx[q].locked = {tx[q].req.run}
          /\ Running(tx[q].req.run) /\ LeaseHeld(q, tx[q].req.run)
      BY <1>1, <2>1 DEF Found, EffectFound
    <3>. QED
      BY <1>3, <3>1 DEF LeaseHeld, Running, Exists
  <2>. QED
    BY <2>1 DEF EffectFound, IsEffect, In, At
<1>7. RenewFound(q)'
  <2>1. ASSUME In(q, "renew"), At(q, "commit") PROVE runs'[tx[q].req.run].until > tx[q].now
    <3>1. tx[q].req.run \in tx[q].locked /\ runs[tx[q].req.run] # None
      BY <1>1, <2>1 DEF Fits, LeaseFits, HasLease, Holds, Running, Exists
    <3>2. runs[tx[q].req.run].until > tx[q].now
      BY <1>1, <2>1 DEF Found, RenewFound
    <3>. QED
      BY <1>3, <3>1, <3>2
  <2>. QED
    BY <2>1 DEF RenewFound, In, At
<1>8. ReapFound(q)'
  <2>1. ASSUME In(q, "reap_stale"), At(q, "commit"), NEW r \in tx[q].locked
        PROVE  Lapsed(r, tx[q].now)'
    <3>1. Lapsed(r, tx[q].now)
      BY <1>1, <2>1 DEF Found, ReapFound
    <3>. QED
      BY <1>3, <3>1 DEF Lapsed, Running, Exists
  <2>. QED
    BY <2>1 DEF ReapFound, In, At
<1>9. EntryFound(q)'
  BY <1>1 DEF Found, EntryFound, UpdatesSession, EntryConflict, EntrySeq, EntrySeqs, In
<1>. QED
  BY <1>4, <1>5, <1>6, <1>7, <1>8, <1>9 DEF Found

\* What a step has to leave for everybody to know what it has found.
LEMMA AllKnow ==
  ASSUME TypeOK, TxInv, SessionInv, FoundInv, NEW p \in Clients, Knows(p), RowsStay(p),
         \A q \in Clients \ {p} : tx'[q] = tx[q],
         entries' = entries \/ UpdatesSession(p)
  PROVE  FoundInv'
<1>1. \A q \in Clients \ {p} : Found(q)'
  BY OthersKnow DEF SessionInv
<1>2. ASSUME NEW a \in Clients, NEW b \in Clients, a # b PROVE KeysApart(a, b)'
  <2>1. CASE a = p
    BY <1>2, <2>1 DEF Knows
  <2>2. CASE b = p
    <3>1. KeysApart(p, a)'
      BY <1>2, <2>2 DEF Knows
    <3>. QED
      BY <2>2, <3>1 DEF KeysApart
  <2>3. CASE a # p /\ b # p
    <3>1. tx'[a] = tx[a] /\ tx'[b] = tx[b] /\ KeysApart(a, b)
      BY <1>2, <2>3 DEF FoundInv
    <3>. QED
      BY <3>1 DEF KeysApart, Inserted, In
  <2>. QED
    BY <2>1, <2>2, <2>3
<1>. QED
  BY <1>1, <1>2 DEF Knows, FoundInv

\* The row a start commits has the key it found unused.
LEMMA KeysStay ==
  ASSUME FoundInv, KeysUnique, NEW p \in Clients, RowsStay(p)
  PROVE  KeysUnique'
<1>. SUFFICES ASSUME NEW q \in Runs, NEW r \in Runs, runs'[q] # None, runs'[r] # None,
                     runs'[q].key # None, runs'[q].key = runs'[r].key, q # r
              PROVE  FALSE
  BY DEF KeysUnique, Exists
<1>1. CASE runs[q] # None /\ runs[r] # None
  BY <1>1 DEF RowsStay, KeysUnique, Exists
<1>2. CASE runs[q] = None /\ runs[r] = None
  BY <1>2 DEF RowsStay
<1>3. ASSUME NEW a \in Runs, NEW b \in Runs, runs[a] = None, runs[b] # None, runs'[a] # None,
             runs'[b].key # None, runs'[a].key = runs'[b].key
      PROVE  FALSE
  BY <1>3 DEF RowsStay, FoundInv, Found, StartFound, KeyUsed, Exists
<1>. QED
  BY <1>1, <1>2, <1>3

LEMMA NextKnows ==
  ASSUME TypeOK, TxInv, SessionInv, FoundInv, KeysUnique, [Next]_vars
  PROVE  (FoundInv /\ KeysUnique)'
<1>1. ASSUME NEW p \in Clients, ClientStep(p) PROVE (FoundInv /\ KeysUnique)'
  <2>1. Knows(p) /\ RowsStay(p)
    BY <1>1, ClientKnows, ClientStays
  <2>2. /\ \A q \in Clients \ {p} : tx'[q] = tx[q]
        /\ entries' = entries \/ UpdatesSession(p)
    BY <1>1, ClientSteps DEF Kept, Written, EntriesMove, tables
  <2>. QED
    BY <2>1, <2>2, AllKnow, KeysStay
<1>2. ASSUME NEW p \in Clients, Abort(p) \/ \E req \in Requests : Call(p, req)
      PROVE (FoundInv /\ KeysUnique)'
  <2>1. UNCHANGED tables /\ \A q \in Clients \ {p} : tx'[q] = tx[q]
    BY <1>2 DEF Abort, Call, Answer, Unwritten, TypeOK
  <2>2. Knows(p)
    <3>1. CASE Abort(p)
      BY <3>1, Elsewhere DEF Abort, Answer, TypeOK
    <3>2. ASSUME NEW req \in Requests, Call(p, req) PROVE Knows(p)
      <4>1. tx'[p].pc = FirstPc(req)
        BY <3>2 DEF Call, TypeOK
      <4>. QED
        BY <4>1, Elsewhere DEF FirstPc
    <3>. QED
      BY <1>2, <3>1, <3>2
  <2>3. RowsStay(p)
    BY <2>1, UntouchedStays DEF tables
  <2>. QED
    BY <2>1, <2>2, <2>3, AllKnow, KeysStay DEF tables
<1>3. CASE UNCHANGED <<tables, tx>>
  <2>1. ASSUME NEW p \in Clients PROVE Found(p)'
    <3>1. Found(p)
      BY DEF FoundInv
    <3>2. (StartFound(p) /\ CommitFound(p) /\ EffectFound(p))'
      BY <1>3, <3>1 DEF Found, StartFound, CommitFound, EffectFound, KeyUsed, LeaseHeld, EffectRefused,
                        Inserted, IsEffect, Running, Exists, In, At, tables
    <3>3. (RenewFound(p) /\ ReapFound(p) /\ EntryFound(p))'
      BY <1>3, <3>1 DEF Found, RenewFound, ReapFound, EntryFound, Lapsed, EntryConflict, EntrySeq,
                        EntrySeqs, UpdatesSession, Running, Exists, In, At, tables
    <3>. QED
      BY <3>2, <3>3 DEF Found
  <2>2. ASSUME NEW p \in Clients, NEW q \in Clients, p # q PROVE KeysApart(p, q)'
    BY <1>3, <2>2 DEF FoundInv, KeysApart, Inserted, In
  <2>3. KeysUnique'
    BY <1>3 DEF KeysUnique, Exists, tables
  <2>. QED
    BY <2>1, <2>2, <2>3 DEF FoundInv
<1>. QED
  BY <1>1, <1>2, <1>3 DEF Next, Tick, vars

-----------------------------------------------------------------------------
(* What the invariants of calls come to.                                    *)

AllInv == LeaseInv /\ TxInv /\ SessionInv /\ FoundInv /\ KeysUnique /\ Tables!OneRunning

LEMMA InitAll == Init => AllInv /\ EffectsFit
<1>. SUFFICES ASSUME Init PROVE AllInv /\ EffectsFit
  OBVIOUS
<1>1. LeaseInv /\ TxInv
  BY InitTx DEF Init, LeaseInv, LeasesAgree, LeasesEqual, Running, Exists
<1>2. SessionInv
  <2>1. EntrySeqs = {} /\ {k \in EntryKeys : entries[k] # None} = {}
    BY DEF Init, EntrySeqs
  <2>2. EntriesDense
    BY <2>1, FS_EmptySet DEF EntriesDense
  <2>3. \A p \in Clients : EntryFits(p) /\ ~UpdatesSession(p)
    BY DEF Init, EntryFits, UpdatesSession, In
  <2>. QED
    BY <2>2, <2>3 DEF SessionInv
<1>3. FoundInv
  <2>1. \A p \in Clients : tx[p] = None
    BY DEF Init
  <2>. QED
    BY <2>1 DEF FoundInv, Found, StartFound, CommitFound, EffectFound, RenewFound, ReapFound,
                EntryFound, KeysApart, Inserted, UpdatesSession, IsEffect, In, At
<1>4. KeysUnique /\ Tables!OneRunning
  BY DEF Init, KeysUnique, Exists, Tables!OneRunning, Tables!Running
<1>5. EffectsFit
  BY DEF Init, EffectsFit
<1>. QED
  BY <1>1, <1>2, <1>3, <1>4, <1>5 DEF AllInv

LEMMA NextAll == AllInv /\ [Next]_vars => AllInv'
<1>. SUFFICES ASSUME AllInv, [Next]_vars PROVE AllInv'
  OBVIOUS
<1>1. TypeOK /\ StepOk
  BY NextSteps DEF AllInv, LeaseInv
<1>2. LeaseInv' /\ TxInv' /\ SessionInv'
  BY <1>1, NextAgree, StepTx, StepSession DEF AllInv
<1>3. FoundInv' /\ KeysUnique'
  BY <1>1, NextKnows DEF AllInv
<1>4. Tables!OneRunning'
  BY <1>1, StepKinds, Tables!StepOneRunning DEF AllInv
<1>. QED
  BY <1>2, <1>3, <1>4 DEF AllInv

\* Entries are numbered without a gap, an effect that is not settled has been given to one
\* caller at most and a key has started one run, for any number of racing clients:
\* apply_entries_tx numbers under the lock of the session row, start_effect_tx decides under
\* the lock of the run's row, and the unique index makes the second of two inserts wait.
THEOREM OperationsInvariant == Spec => []OpsInv
<1>1. Init => AllInv /\ EffectsFit
  BY InitAll
<1>2. AllInv /\ EffectsFit /\ [Next]_vars => (AllInv /\ EffectsFit)'
  BY NextAll, StepEffects DEF AllInv, LeaseInv
<1>3. AllInv /\ EffectsFit => OpsInv
  BY DEF AllInv, SessionInv, EffectsFit, OpsInv, EffectToldOnce
<1>. QED
  BY <1>1, <1>2, <1>3, PTL DEF Spec

\* The thread of a run whose lease the commit holds is held by that lease as well.
LEMMA HoldsTheThread ==
  ASSUME LeaseInv, Tables!OneRunning, NEW p \in Clients, NEW r \in Runs,
         Running(r), LeaseHeld(p, r)
  PROVE  ThreadHeld(p, r)
<1>. DEFINE t == runs[r].thread
<1>1. t \in Threads
  BY RowFields DEF Running, Exists, LeaseInv, TypeOK
<1>2. threadLease[t] # None => threadLease[t].run \in Runs
  BY <1>1 DEF LeaseInv, TypeOK, ThreadLease
<1>3. \A q \in Runs : Running(q) /\ runs[q].thread = t => q = r
  BY DEF Tables!OneRunning, Tables!Running, Running, Exists
<1>4. RunningOthers(t, r) = {}
  BY <1>3 DEF RunningOthers
<1>5. CASE runs[r].lease = None
  <2>1. threadLease[t] = None
    BY <1>1, <1>2, <1>3, <1>5 DEF LeaseInv, LeasesAgree
  <2>. QED
    BY <1>4, <1>5, <2>1 DEF ThreadHeld
<1>6. CASE runs[r].lease # None
  <2>1. threadLease[t] # None /\ threadLease[t].run = r
    BY <1>1, <1>6 DEF LeaseInv, LeasesAgree
  <2>2. threadLease[t].lease = runs[r].lease /\ threadLease[t].until = runs[r].until
    BY <1>1, <2>1 DEF LeaseInv, LeasesEqual
  <2>3. tx[p].req.lease = runs[r].lease /\ runs[r].until > tx[p].now
    BY <1>6 DEF LeaseHeld
  <2>. QED
    BY <1>4, <1>6, <2>1, <2>2, <2>3 DEF ThreadHeld
<1>. QED
  BY <1>5, <1>6

\* Nobody else has claimed the thread of an inserted run.
LEMMA ThreadFree ==
  ASSUME LeaseInv, TxInv, NEW p \in Clients, Inserted(p)
  PROVE  threadLease[tx[p].req.thread] = None
<1>. DEFINE t == tx[p].req.thread
<1>1. t \in Threads
  <2>1. tx[p].req \in Calls /\ tx[p].req.op = "start"
    BY TxType DEF LeaseInv, Inserted, In
  <2>. QED
    BY <2>1, StartType
<1>2. \A r \in Runs : Running(r) => runs[r].thread # t
  BY InsertedFits
<1>3. threadLease[t] # None => threadLease[t].run \in Runs
  BY <1>1 DEF LeaseInv, TypeOK, ThreadLease
<1>. QED
  BY <1>1, <1>2, <1>3 DEF LeaseInv, LeasesAgree

\* Every call writes by checks that still hold as it commits, for any calls of any number of
\* clients: what a statement found is under a lock the call keeps (SELECT ... FOR UPDATE, the
\* row it has inserted, the session row), or follows from what the tables keep to.
THEOREM ChecksStillHold == Spec => []ChecksHold
<1>1. Init => AllInv
  BY InitAll
<1>2. AllInv => ChecksHold
  <2>. SUFFICES ASSUME AllInv, NEW p \in Clients, At(p, "commit")
                PROVE  LET c == tx[p].req
                           r == tx[p].req.run IN
                         /\ In(p, "start") => ~UniqueViolation(c) /\ ~ClaimRefused(p)
                         /\ In(p, "commit") => CommitAllowed(p, r)
                         /\ UpdatesSession(p) =>
                              ~EntryConflict(c.entry) /\ tx[p].seq = EntrySeq(c.entry)
                         /\ IsEffect(p) => Running(r) /\ LeaseHeld(p, r)
                         /\ In(p, "renew") => Holds(p, r) /\ runs[r].until > tx[p].now
                         /\ In(p, "release") => (r \in tx[p].locked <=> Holds(p, r))
                         /\ In(p, "reap_stale") => \A q \in tx[p].locked : Lapsed(q, tx[p].now)
    BY DEF ChecksHold
  <2>. DEFINE c == tx[p].req
              r == tx[p].req.run
  <2>1. tx[p] # None /\ tx[p].pc = "commit" /\ Fits(p) /\ Found(p)
    BY DEF AllInv, TxInv, FoundInv, At
  <2>2. In(p, "start") => ~UniqueViolation(c) /\ ~ClaimRefused(p)
    <3>. SUFFICES ASSUME In(p, "start") PROVE ~UniqueViolation(c) /\ ~ClaimRefused(p)
      OBVIOUS
    <3>1. Inserted(p)
      BY <2>1 DEF Inserted
    <3>2. ~Exists(r) /\ RunningOthers(c.thread, r) = {}
      BY <3>1, InsertedFits DEF AllInv, RunningOthers
    <3>3. ~KeyUsed(c.key)
      BY <2>1, <3>1 DEF Found, StartFound
    <3>4. threadLease[c.thread] = None
      BY <3>1, ThreadFree DEF AllInv
    <3>. QED
      BY <3>2, <3>3, <3>4 DEF UniqueViolation, ClaimRefused
  <2>3. In(p, "commit") => CommitAllowed(p, r)
    <3>. SUFFICES ASSUME In(p, "commit") PROVE CommitAllowed(p, r)
      OBVIOUS
    <3>1. Running(r) /\ (c.seq > 0 => c.seq > runs[r].seq)
      BY <2>1 DEF Fits, CommitFits
    <3>2. LeaseHeld(p, r) /\ ~EffectRefused(r, c.effect)
      BY <2>1 DEF Found, CommitFound
    <3>3. r \in Runs
      <4>1. c \in Calls /\ c.op = "commit"
        BY <2>1, TxType DEF AllInv, LeaseInv, In
      <4>. QED
        BY <4>1, CommitType
    <3>4. ThreadHeld(p, r)
      BY <3>1, <3>2, <3>3, HoldsTheThread DEF AllInv
    <3>. QED
      BY <3>1, <3>2, <3>4 DEF CommitAllowed
  <2>4. UpdatesSession(p) => ~EntryConflict(c.entry) /\ tx[p].seq = EntrySeq(c.entry)
    BY <2>1 DEF Found, EntryFound
  <2>5. IsEffect(p) => Running(r) /\ LeaseHeld(p, r)
    BY <2>1 DEF Found, EffectFound
  <2>6. In(p, "renew") => Holds(p, r) /\ runs[r].until > tx[p].now
    BY <2>1 DEF Fits, LeaseFits, HasLease, Found, RenewFound
  <2>7. In(p, "release") => (r \in tx[p].locked <=> Holds(p, r))
    BY <2>1 DEF Fits, LeaseFits, HasLease
  <2>8. In(p, "reap_stale") => \A q \in tx[p].locked : Lapsed(q, tx[p].now)
    BY <2>1 DEF Found, ReapFound
  <2>. QED
    BY <2>2, <2>3, <2>4, <2>5, <2>6, <2>7, <2>8
<1>. QED
  BY <1>1, <1>2, NextAll, PTL DEF Spec

\* A thread has one running run at most, and its checkpoint is of a run of the thread and of
\* an event that is in that run's log (the partial unique index, commit_run with its save).
THEOREM ThreadsServeOneRun == Spec => [](Tables!OneRunning /\ Tables!CheckpointsFit)
<1>1. Init => TypeOK /\ TxInv /\ Tables!OneRunning /\ Tables!CheckpointsFit
  BY InitTx DEF Init, Tables!OneRunning, Tables!Running, Tables!CheckpointsFit
<1>2. TypeOK /\ TxInv /\ Tables!OneRunning /\ Tables!CheckpointsFit /\ [Next]_vars
        => (Tables!OneRunning /\ Tables!CheckpointsFit)'
  BY NextSteps, StepKinds, ShapedTables, Tables!StepOneRunning, Tables!StepCheckpointsFit
  DEF TypeOK
<1>. QED
  BY <1>1, <1>2, TxInvariant, PTL DEF Spec

\* A run that has ended keeps its end, its thread and its log, and a checkpoint is only saved
\* by the thread's running run, as of its last event: a late commit, or one that raced the
\* reaper, changes neither.
THEOREM EndedStayEnded == Spec => [][Tables!EndedKept /\ Tables!RunningSaves]_vars
<1>1. TypeOK /\ TxInv /\ [Next]_vars => Tables!EndedKept /\ Tables!RunningSaves
  BY NextSteps, StepKinds, ShapedTables, Tables!StepEndedKept, Tables!StepRunningSaves
  DEF TypeOK
<1>. QED
  BY <1>1, TxInvariant, PTL DEF Spec

\* A transaction began in the past.
BegunBefore == \A p \in Clients : tx[p] # None => tx[p].now <= clock

LEMMA NowKept ==
  ASSUME NEW x \in Tx, NEW pc, NEW n
  PROVE  /\ [x EXCEPT !.pc = pc].now = x.now
         /\ [x EXCEPT !.pc = pc, !.now = n].now = n
         /\ [x EXCEPT !.pc = pc, !.seq = n].now = x.now
         /\ \A S : [x EXCEPT !.pc = pc, !.locked = S].now = x.now
         /\ \A f : [x EXCEPT !.pc = pc, !.now = n, !.next = f].now = n
BY DEF Tx

LEMMA NextBegun == TypeOK /\ BegunBefore /\ [Next]_vars => BegunBefore'
<1>. SUFFICES ASSUME TypeOK, BegunBefore, [Next]_vars, NEW q \in Clients, tx'[q] # None
              PROVE  tx'[q].now <= clock'
  BY DEF BegunBefore
<1>1. clock \in Nat
  BY CallsAssumption DEF TypeOK
<1>2. tx[q] # None => tx[q].now \in Nat /\ tx[q].now <= clock
  BY TxType DEF BegunBefore
<1>3. CASE Tick \/ UNCHANGED vars
  BY <1>1, <1>2, <1>3 DEF Tick, vars
<1>4. ASSUME NEW p \in Clients, NEW req \in Requests, Call(p, req) PROVE tx'[q].now <= clock'
  <2>1. tx' = [tx EXCEPT ![p] = [req |-> req, pc |-> FirstPc(req), now |-> 0, locked |-> {},
                                 seq |-> 0, next |-> [r \in Runs |-> 0]]] /\ clock' = clock
    BY <1>4 DEF Call
  <2>2. CASE q = p
    <3>. DEFINE x == [req |-> req, pc |-> FirstPc(req), now |-> 0, locked |-> {},
                      seq |-> 0, next |-> [r \in Runs |-> 0]]
    <3>1. tx'[q] = x /\ x.now = 0
      BY <2>1, <2>2 DEF TypeOK
    <3>. QED
      BY <1>1, <2>1, <3>1
  <2>3. CASE q # p
    BY <1>2, <2>1, <2>3 DEF TypeOK
  <2>. QED
    BY <2>2, <2>3
<1>5. ASSUME NEW p \in Clients, ClientStep(p) \/ Abort(p) PROVE tx'[q].now <= clock'
  <2>1. clock' = clock
    BY <1>5 DEF ClientStep, Abort, EnsureSession, LookUp, BeginStart, Insert, Claim, LockSession,
                CommitStart, LookAgain, Begin, LockForCommit, CommitRun, LockForEffect,
                ReserveEffect, StartEffect, MarkCancelled, LockForRenew, Renew, LockForRelease,
                Release, BeginReap, LockForReap, ReapStale, DeadlockAbort, Unwritten, Commits
  <2>. DEFINE Past(x) == tx' = [tx EXCEPT ![p] = x]
                         /\ (x # None => tx[p] # None /\ x.now \in {tx[p].now, clock})
  <2>2. \E x : Past(x)
    <3>1. CASE Answer(p)
      BY <3>1 DEF Answer
    <3>2. ASSUME tx[p] # None, NEW pc
          PROVE  /\ [tx[p] EXCEPT !.pc = pc].now = tx[p].now
                 /\ [tx[p] EXCEPT !.pc = pc, !.now = clock].now = clock
                 /\ \A n : [tx[p] EXCEPT !.pc = pc, !.seq = n].now = tx[p].now
                 /\ \A S : [tx[p] EXCEPT !.pc = pc, !.locked = S].now = tx[p].now
                 /\ \A f : [tx[p] EXCEPT !.pc = pc, !.now = clock, !.next = f].now = clock
      <4>1. tx[p] \in Tx
        BY <3>2, TxType
      <4>. QED
        BY <4>1, NowKept
    <3>3. CASE BeginStart(p) \/ Begin(p) \/ BeginReap(p)
      <4>1. tx[p] # None
        BY <3>3 DEF BeginStart, Begin, BeginReap, At
      <4>2. ASSUME NEW pc, tx' = [tx EXCEPT ![p].pc = pc, ![p].now = clock]
            PROVE  Past([tx[p] EXCEPT !.pc = pc, !.now = clock])
        <5>1. tx' = [tx EXCEPT ![p] = [tx[p] EXCEPT !.pc = pc, !.now = clock]]
          BY <4>2 DEF TypeOK
        <5>. QED
          BY <3>2, <4>1, <5>1
      <4>3. CASE BeginReap(p)
        <5>1. PICK f : tx' = [tx EXCEPT ![p] = [tx[p] EXCEPT !.pc = "rows", !.now = clock, !.next = f]]
          BY <4>3 DEF BeginReap, TypeOK
        <5>2. Past([tx[p] EXCEPT !.pc = "rows", !.now = clock, !.next = f])
          BY <3>2, <4>1, <5>1
        <5>. QED
          BY <5>2
      <4>. QED
        BY <3>1, <3>3, <4>2, <4>3 DEF BeginStart, Begin
    <3>4. CASE EnsureSession(p) \/ LookUp(p) \/ Insert(p) \/ Claim(p) \/ LookAgain(p)
               \/ LockSession(p) \/ DeadlockAbort(p) \/ Abort(p)
      <4>1. tx[p] # None
        BY <3>4 DEF EnsureSession, LookUp, Insert, Claim, LookAgain, LockSession, DeadlockAbort,
                    Abort, HasConnection, At
      <4>2. ASSUME NEW pc, Goto(p, pc) PROVE Past([tx[p] EXCEPT !.pc = pc])
        <5>1. tx' = [tx EXCEPT ![p] = [tx[p] EXCEPT !.pc = pc]]
          BY <4>2 DEF Goto, TypeOK
        <5>. QED
          BY <3>2, <4>1, <5>1
      <4>3. ASSUME NEW n, tx' = [tx EXCEPT ![p].pc = "commit", ![p].seq = n]
            PROVE  Past([tx[p] EXCEPT !.pc = "commit", !.seq = n])
        <5>1. tx' = [tx EXCEPT ![p] = [tx[p] EXCEPT !.pc = "commit", !.seq = n]]
          BY <4>3 DEF TypeOK
        <5>. QED
          BY <3>2, <4>1, <5>1
      <4>4. \/ Answer(p)
            \/ \E pc : Goto(p, pc)
            \/ \E n : tx' = [tx EXCEPT ![p].pc = "commit", ![p].seq = n]
        BY <3>4 DEF EnsureSession, LookUp, Insert, Claim, LookAgain, LockSession, DeadlockAbort,
                    Abort
      <4>. QED
        BY <3>1, <4>2, <4>3, <4>4
    <3>5. CASE LockForCommit(p) \/ LockForEffect(p) \/ LockForRenew(p) \/ LockForRelease(p)
               \/ \E S \in SUBSET Runs : LockForReap(p, S)
      <4>1. tx[p] # None
        BY <3>5 DEF LockForCommit, LockForEffect, LockForRenew, LockForRelease, LockForReap, At
      <4>2. ASSUME NEW pc, NEW S, Lock(p, pc, S)
            PROVE  Past([tx[p] EXCEPT !.pc = pc, !.locked = S])
        <5>1. tx' = [tx EXCEPT ![p] = [tx[p] EXCEPT !.pc = pc, !.locked = S]]
          BY <4>2 DEF Lock, TypeOK
        <5>. QED
          BY <3>2, <4>1, <5>1
      <4>3. Answer(p) \/ \E pc, S : Lock(p, pc, S)
        BY <3>5 DEF LockForCommit, LockForEffect, LockForRenew, LockForRelease, LockForReap
      <4>. QED
        BY <3>1, <4>2, <4>3
    <3>6. CASE CommitStart(p) \/ CommitRun(p) \/ ReserveEffect(p) \/ StartEffect(p)
               \/ MarkCancelled(p) \/ Renew(p) \/ Release(p) \/ ReapStale(p)
      BY <3>1, <3>6 DEF CommitStart, CommitRun, ReserveEffect, StartEffect, MarkCancelled, Renew,
                        Release, ReapStale, Commits
    <3>. QED
      BY <1>5, <3>3, <3>4, <3>5, <3>6 DEF ClientStep
  <2>3. PICK x : Past(x)
    BY <2>2
  <2>4. CASE q = p
    BY <1>1, <1>2, <2>1, <2>3, <2>4 DEF TypeOK
  <2>5. CASE q # p
    BY <1>2, <2>1, <2>3, <2>5 DEF TypeOK
  <2>. QED
    BY <2>4, <2>5
<1>. QED
  BY <1>3, <1>4, <1>5 DEF Next

\* An event ends a run as the last of its log, or it is a reaper's: then the run's lease has
\* lapsed and the event has a number a commit has left out since the reaper's snapshot.
THEOREM LogsEnd == Spec => EndsLog
<1>1. Init => AllInv /\ BegunBefore
  BY InitAll DEF Init, BegunBefore
<1>2. AllInv /\ BegunBefore /\ [Next]_vars => (AllInv /\ BegunBefore)'
  BY NextAll, NextBegun DEF AllInv, LeaseInv
<1>3. ASSUME AllInv, BegunBefore, [Next]_vars, NEW r \in Runs, Running(r), ~Running(r)'
      PROVE  \/ runs'[r].seq > runs[r].seq
             \/ /\ Lapsed(r, clock)
                /\ \E n \in runs[r].gaps : runs'[r].gaps = runs[r].gaps \ {n}
  <2>1. TypeOK /\ TxInv /\ FoundInv /\ StepOk
    BY <1>3, NextSteps DEF AllInv, LeaseInv
  <2>2. runs[r] # None /\ runs[r].status = "running" /\ runs[r].seq \in Nat
    BY <1>3, <2>1, RowFields DEF Running, Exists, TypeOK
  <2>3. ~Tables!Same(r) /\ runs'[r] # runs[r]
    BY <1>3, <2>2 DEF Tables!Same, Running, Exists
  <2>4. PICK p \in Clients : tx[p] # None /\ StepBy(p)
    BY <2>1, <2>3 DEF StepOk, Kept, Written, tables
  <2>5. CASE \E q \in tx[p].locked : Tables!Writes(q)
    <3>1. Tables!Writes(r)
      BY <2>3, <2>5 DEF Tables!Writes
    <3>. QED
      BY <1>3, <3>1 DEF Tables!Writes, Running, Exists
  <2>6. CASE Tables!Reaps(tx[p].locked) /\ Closes(p)
    <3>1. r \in tx[p].locked
      BY <2>3, <2>6 DEF Tables!Reaps
    <3>2. Lapsed(r, tx[p].now)
      BY <2>1, <2>6, <3>1 DEF Closes, FoundInv, Found, ReapFound
    <3>3. tx[p].now \in Nat /\ tx[p].now <= clock /\ clock \in Nat /\ runs[r].until \in Nat
      BY <1>3, <2>1, <2>2, <2>4, TxType, RowFields, CallsAssumption DEF BegunBefore, TypeOK
    <3>4. Lapsed(r, clock)
      BY <3>2, <3>3 DEF Lapsed
    <3>. QED
      BY <2>2, <2>6, <3>1, <3>4 DEF Closes
  <2>7. ~Tables!Untouched
    BY <2>3 DEF Tables!Untouched, Tables!Quiet
  <2>8. ASSUME NEW q \in Runs, NEW t \in Threads PROVE ~Tables!Begins(q, t) /\ ~Tables!Renews(q, t)
    BY <2>2, <2>3 DEF Tables!Begins, Tables!Renews, Tables!Quiet
  <2>9. ASSUME NEW q \in Runs, NEW l PROVE ~Tables!Releases(q, l)
    BY <2>3 DEF Tables!Releases, Tables!Quiet
  <2>10. tx[p].locked \in SUBSET Runs
    BY <2>1, <2>4, TxType
  <2>11. Inserted(p) => tx[p].req.run \in Runs /\ tx[p].req.thread \in Threads
    <3>1. tx[p].req \in Calls
      BY <2>1, <2>4, TxType
    <3>. QED
      BY <3>1, StartType DEF Inserted, In
  <2>. QED
    BY <2>4, <2>5, <2>6, <2>7, <2>8, <2>9, <2>10, <2>11 DEF StepBy
<1>4. AllInv /\ BegunBefore /\ [Next]_vars =>
        [\A r \in Runs : Running(r) /\ ~Running(r)' =>
           \/ runs'[r].seq > runs[r].seq
           \/ /\ Lapsed(r, clock)
              /\ \E n \in runs[r].gaps : runs'[r].gaps = runs[r].gaps \ {n}]_vars
  BY <1>3
<1>. QED
  BY <1>1, <1>2, <1>4, PTL DEF Spec, EndsLog

-----------------------------------------------------------------------------
(* Who waits for whom.                                                      *)
(*                                                                         *)
(* A transaction that holds a row is numbering entries or about to commit;   *)
(* one that has the session row for itself is about to commit, and that      *)
(* waits for nothing.  So what a transaction waits for leads to a call that  *)
(* can go on, unless it looks again and waits for a connection.              *)

FiniteRows == IsFiniteSet({r \in Runs : Exists(r)})

\* The LIMIT rows that come first in ORDER BY age, or all of them: a least set that is closed
\* under being older and large enough.
LEMMA OldestFew ==
  ASSUME NEW R, IsFiniteSet(R), NEW age \in [R -> Nat], NEW n \in Nat
  PROVE  \E S \in SUBSET R : /\ Cardinality(S) <= n
                             /\ Cardinality(S) = n \/ S = R
                             /\ \A r \in S, q \in R \ S : age[r] <= age[q]
<1>. DEFINE Old(S) == \A r \in S, q \in R \ S : age[r] <= age[q]
            Enough == {S \in SUBSET R : Old(S) /\ Cardinality(S) >= n}
<1>1. CASE Cardinality(R) < n
  <2>1. Cardinality(R) \in Nat
    BY FS_CardinalityType
  <2>2. Old(R) /\ Cardinality(R) <= n
    BY <1>1, <2>1
  <2>. QED
    BY <2>2
<1>2. CASE ~(Cardinality(R) < n)
  <2>1. Cardinality(R) \in Nat
    BY FS_CardinalityType
  <2>2. R \in Enough
    BY <1>2, <2>1
  <2>3. Enough \subseteq FiniteSubsetsOf(R)
    BY FS_Subset DEF FiniteSubsetsOf
  <2>4. IsWellFoundedOn(StrictSubsetOrdering(R), FiniteSubsetsOf(R))
    BY FS_StrictSubsetOrderingWellFounded
  <2>5. PICK U \in Enough : \A V \in Enough : ~(<<V, U>> \in StrictSubsetOrdering(R))
    <3>. HIDE DEF Enough
    <3>. QED
      BY <2>2, <2>3, <2>4, WFMin
  <2>6. U \in SUBSET R /\ Old(U) /\ Cardinality(U) >= n
    BY <2>5
  <2>7. IsFiniteSet(U) /\ Cardinality(U) \in Nat
    BY <2>6, FS_Subset, FS_CardinalityType
  <2>8. ASSUME Cardinality(U) > n PROVE FALSE
    <3>1. U # {}
      BY <2>7, <2>8, FS_EmptySet
    <3>2. PICK x \in U : \A y \in U : age[y] <= age[x]
      <4>. DEFINE ages == {age[y] : y \in U}
                  f == [y \in U |-> age[y]]
      <4>1. f \in Surjection(U, ages)
        BY DEF Surjection
      <4>2. IsFiniteSet(ages)
        BY <2>7, <4>1, FS_Surjection
      <4>3. ages \in SUBSET Nat /\ ages # {}
        BY <2>6, <3>1
      <4>. HIDE DEF ages, f
      <4>4. Tables!IsFiniteSet(ages)
        BY <4>2 DEF IsFiniteSet, Tables!IsFiniteSet
      <4>5. PICK m \in ages : \A k \in ages : m >= k
        BY <4>3, <4>4, Tables!Greatest
      <4>6. PICK x \in U : m = age[x]
        BY <4>5 DEF ages
      <4>7. \A y \in U : age[y] \in ages /\ age[y] \in Nat
        BY <2>6 DEF ages
      <4>. QED
        BY <4>5, <4>6, <4>7
    <3>3. Old(U \ {x})
      <4>. SUFFICES ASSUME NEW r \in U \ {x}, NEW q \in R \ (U \ {x})
                    PROVE  age[r] <= age[q]
        OBVIOUS
      <4>1. CASE q = x
        BY <3>2, <4>1
      <4>2. CASE q # x
        BY <2>6, <4>2
      <4>. QED
        BY <4>1, <4>2
    <3>4. Cardinality(U \ {x}) = Cardinality(U) - 1
      BY <2>7, FS_RemoveElement
    <3>5. U \ {x} \in Enough
      BY <2>6, <2>7, <2>8, <3>3, <3>4
    <3>6. <<U \ {x}, U>> \in StrictSubsetOrdering(R)
      BY <2>6 DEF StrictSubsetOrdering
    <3>. QED
      BY <2>5, <3>5, <3>6
  <2>9. Cardinality(U) = n
    BY <2>6, <2>7, <2>8
  <2>. QED
    BY <2>6, <2>9
<1>. QED
  BY <1>1, <1>2

\* A reaper that has its snapshot never waits: it passes over what others have locked.
LEMMA ReaperGoes ==
  ASSUME TypeOK, FiniteRows, NEW p \in Clients, At(p, "rows")
  PROVE  Ready(p)
<1>. DEFINE R == Reapable(p)
            age == [r \in R |-> runs[r].until]
<1>1. R \in SUBSET {r \in Runs : Exists(r)}
  BY DEF Reapable, Lapsed, Running
<1>2. IsFiniteSet(R)
  BY <1>1, FS_Subset DEF FiniteRows
<1>3. age \in [R -> Nat]
  BY <1>1, RowFields DEF TypeOK, Exists
<1>4. ReapLimit \in Nat
  BY CallsAssumption
<1>5. \E S \in SUBSET R : /\ Cardinality(S) <= ReapLimit
                          /\ Cardinality(S) = ReapLimit \/ S = R
                          /\ \A r \in S, q \in R \ S : age[r] <= age[q]
  <2>. HIDE DEF R, age
  <2>. QED
    BY <1>2, <1>3, <1>4, OldestFew
<1>6. \E S \in SUBSET Runs : Oldest(p, S)
  BY <1>1, <1>5 DEF Oldest
<1>. QED
  BY <1>6 DEF Ready

LEMMA CommitGoes ==
  ASSUME NEW p \in Clients, At(p, "commit")
  PROVE  Ready(p)
BY DEF Ready

\* Whoever has the session row for update is about to commit.  Starts that share it and want
\* it for themselves are a deadlock, and the detector lets one of them go.
LEMMA EntriesGo ==
  ASSUME NEW p \in Clients, At(p, "entries")
  PROVE  \E q \in Clients : Ready(q)
<1>1. CASE \E q \in Clients : At(q, "commit")
  BY <1>1, CommitGoes
<1>2. CASE ~\E q \in Clients : At(q, "commit")
  <2>1. \A q \in Clients : ~UpdatesSession(q)
    BY <1>2 DEF UpdatesSession, At, In
  <2>2. \A q \in Clients : SharesSession(q) => At(q, "entries")
    BY <1>2 DEF SharesSession, At, In
  <2>3. CASE \E q \in Clients : Deadlocked(q) /\ At(q, "entries")
    BY <2>3 DEF Ready
  <2>4. CASE ~\E q \in Clients : Deadlocked(q) /\ At(q, "entries")
    <3>1. \A a, b \in Clients : SharesSession(a) /\ SharesSession(b) => a = b
      BY <2>2, <2>4 DEF Deadlocked
    <3>2. PICK q \in Clients : At(q, "entries") /\ \A b \in Clients \ {q} : ~SharesSession(b)
      BY <2>2, <3>1
    <3>3. SessionFree(q)
      BY <2>1, <3>2 DEF SessionFree
    <3>. QED
      BY <3>2, <3>3 DEF Ready
  <2>. QED
    BY <2>3, <2>4
<1>. QED
  BY <1>1, <1>2

\* A row is held by a transaction that numbers its entry or commits.
LEMMA HolderGoes ==
  ASSUME TypeOK, TxInv, NEW q \in Clients, NEW r, Locks(q, r)
  PROVE  \E s \in Clients : Ready(s)
<1>1. At(q, "entries") \/ At(q, "commit")
  BY DEF TxInv, Fits, PcFits, Locks, At
<1>. QED
  BY <1>1, CommitGoes, EntriesGo

LEMMA SharerGoes ==
  ASSUME NEW p \in Clients, At(p, "share")
  PROVE  \E q \in Clients : Ready(q)
<1>1. CASE SessionOpen(p)
  BY <1>1 DEF Ready
<1>2. CASE ~SessionOpen(p)
  <2>1. \E q \in Clients : At(q, "commit")
    BY <1>2 DEF SessionOpen, UpdatesSession, At, In
  <2>. QED
    BY <2>1, CommitGoes
<1>. QED
  BY <1>1, <1>2

\* What waits for no connection leads to a call that can go on.
LEMMA TransactionGoes ==
  ASSUME TypeOK, TxInv, FiniteRows, NEW p \in Clients, tx[p] # None,
         tx[p].pc \in {"insert", "share", "row", "rows", "entries", "commit"}
  PROVE  \E q \in Clients : Ready(q)
<1>1. CASE At(p, "insert")
  <2>1. CASE IndexFree(p)
    BY <1>1, <2>1 DEF Ready
  <2>2. CASE ~IndexFree(p)
    <3>1. PICK q \in Clients : Inserted(q)
      BY <2>2 DEF IndexFree
    <3>2. At(q, "share") \/ At(q, "entries") \/ At(q, "commit")
      BY <3>1 DEF Inserted, In, At
    <3>. QED
      BY <3>2, SharerGoes, EntriesGo, CommitGoes
  <2>. QED
    BY <2>1, <2>2
<1>2. CASE At(p, "row")
  <2>1. CASE RowFree(p, tx[p].req.run)
    BY <1>2, <2>1 DEF Ready
  <2>2. CASE ~RowFree(p, tx[p].req.run)
    BY <2>2, HolderGoes DEF RowFree
  <2>. QED
    BY <2>1, <2>2
<1>3. CASE At(p, "share") \/ At(p, "rows") \/ At(p, "entries") \/ At(p, "commit")
  BY <1>3, SharerGoes, ReaperGoes, EntriesGo, CommitGoes
<1>. QED
  BY <1>1, <1>2, <1>3 DEF At

LEMMA SomebodyGoes ==
  ASSUME TypeOK, TxInv, FiniteRows, NEW p \in Clients, tx[p] # None
  PROVE  (\E q \in Clients : Ready(q)) \/ PoolStarved
<1>1. ASSUME NEW q \in Clients, HasConnection(q), ~At(q, "again")
      PROVE  \E s \in Clients : Ready(s)
  BY <1>1, TransactionGoes DEF HasConnection, At
<1>2. CASE ~FreeConnection
  BY <1>1, <1>2 DEF PoolStarved
<1>3. CASE FreeConnection /\ HasConnection(p)
  BY <1>1, <1>3 DEF Ready
<1>4. CASE FreeConnection /\ ~HasConnection(p)
  <2>1. tx[p].pc \in {"session", "lookup", "begin", "mark"}
    BY <1>4, TxType DEF HasConnection, Tx
  <2>2. CASE At(p, "lookup") \/ At(p, "begin")
    BY <1>4, <2>2 DEF Ready
  <2>3. CASE At(p, "session")
    <3>1. SessionOpen(p) \/ \E q \in Clients : At(q, "commit")
      BY DEF SessionOpen, UpdatesSession, At, In
    <3>. QED
      BY <1>4, <2>3, <3>1, CommitGoes DEF Ready
  <2>4. CASE At(p, "mark")
    <3>1. RowFree(p, tx[p].req.run) \/ \E q \in Clients : Locks(q, tx[p].req.run)
      BY DEF RowFree
    <3>. QED
      BY <1>4, <2>4, <3>1, HolderGoes DEF Ready
  <2>. QED
    BY <2>1, <2>2, <2>3, <2>4 DEF At
<1>. QED
  BY <1>2, <1>3, <1>4

\* A step adds one row at most.
LEMMA NextRows == TypeOK /\ TxInv /\ FiniteRows /\ [Next]_vars => FiniteRows'
<1>. SUFFICES ASSUME TypeOK, TxInv, FiniteRows, [Next]_vars PROVE FiniteRows'
  OBVIOUS
<1>. DEFINE S == {r \in Runs : Exists(r)}
<1>1. CASE runs' = runs
  BY <1>1 DEF FiniteRows, Exists
<1>2. ASSUME NEW p \in Clients, tx[p] # None, Written(p) PROVE FiniteRows'
  <2>1. RowsMove(p)
    BY <1>2, StepMoves DEF Written
  <2>2. {r \in Runs : Exists(r)}' \in SUBSET (S \cup {tx[p].req.run})
    BY <2>1 DEF RowsMove, Exists
  <2>3. IsFiniteSet(S \cup {tx[p].req.run})
    BY FS_AddElement DEF FiniteRows
  <2>. QED
    BY <2>2, <2>3, FS_Subset DEF FiniteRows
<1>3. StepOk
  BY NextSteps
<1>. QED
  BY <1>1, <1>2, <1>3 DEF StepOk, Kept, tables

LEMMA RowsInvariant == Spec => [](TypeOK /\ TxInv /\ FiniteRows)
<1>1. Init => FiniteRows
  <2>. SUFFICES ASSUME Init PROVE FiniteRows
    OBVIOUS
  <2>1. {r \in Runs : Exists(r)} = {}
    BY DEF Init, Exists
  <2>. QED
    BY <2>1, FS_EmptySet DEF FiniteRows
<1>. QED
  BY <1>1, NextRows, TxInvariant, PTL DEF Spec

\* Whatever the calls, however many, and whatever the size of the pool, they get stuck in one
\* way only: starts that lost a race hold every connection of the pool and each waits for
\* another one (pool.get() in start_run's second lookup).  Row locks, unique indexes and the
\* session row never stop everybody.
THEOREM OnlyThePoolStarves == Spec => []OnlyPoolStalls
<1>1. TypeOK /\ TxInv /\ FiniteRows => OnlyPoolStalls
  BY SomebodyGoes DEF OnlyPoolStalls
<1>. QED
  BY <1>1, RowsInvariant, PTL
=============================================================================
