------------------------------ MODULE PgStore -------------------------------
(***************************************************************************)
(* PgStore: the run store on PostgreSQL.  Each call is the sequence of its   *)
(* SQL statements under READ COMMITTED, so calls of several workers          *)
(* interleave between statements and meet at row locks, unique indexes and   *)
(* the connection pool.                                                     *)
(*                                                                         *)
(* The variables are the committed tables.  What a transaction has written   *)
(* but not committed is visible to nobody, so a model transaction keeps the   *)
(* rows it has locked and applies its writes when it commits; the UPDATEs     *)
(* that follow a lock on the same row are part of that step.  now() is the    *)
(* time the transaction began, however long it has waited since.  The model   *)
(* has one (scope, session); a run of another scope is one more way for a     *)
(* run_id to be taken, which requests with the same run_id cover.             *)
(***************************************************************************)
EXTENDS Integers, FiniteSets, FiniteSetsExt

CONSTANTS
  Clients,    \* concurrent callers, of any number of processes
  Requests,   \* the calls they make
  Runs, Threads, Keys, Leases, EntryKeys,
  Payloads,   \* bodies of entries, told apart by equality
  Ttl, ReapLimit, PoolSize,
  None,
  MaxClock,   \* bounds: the clock, the calls made and the entries written
  MaxCalls

VARIABLES
  runs,         \* typemach_runs: run -> its row, or None
  threadLease,  \* typemach_thread_leases: thread -> its row, or None
  checkpoints,  \* typemach_checkpoints: thread -> its row, or None
  effects,      \* typemach_effects: run -> the status of its one effect, or None
  entries,      \* typemach_entries of the session: key -> its row, or None
  tx,           \* client -> the call it is in, or None
  told,         \* history: run -> callers told since the last settlement to perform the effect
  clock,
  calls

tables == <<runs, threadLease, checkpoints, effects, entries>>
vars == <<tables, tx, told, clock, calls>>

-----------------------------------------------------------------------------
(* Rows and calls.                                                          *)

Entry == [key : EntryKeys, body : Payloads]
EntryRow == [run : Runs, seq : Nat, body : Payloads]

\* A row of typemach_runs with the run's part of typemach_run_events: the last seq and the
\* numbers below it no event has.  A row that has ended holds no lease.
Row ==
  [status : {"running"}, thread : Threads, key : Keys \cup {None}, lease : Leases \cup {None},
   until : Nat, seq : Nat, gaps : SUBSET Nat, cancel : BOOLEAN]
  \cup [status : {"ended"}, thread : Threads, key : Keys \cup {None}, lease : {None},
        until : {0}, seq : Nat, gaps : SUBSET Nat, cancel : BOOLEAN]
ThreadLease == [run : Runs, lease : Leases, until : Nat]
Checkpoint == [run : Runs, seq : Nat]
EffectStatus == {"reserved", "started", "done", "failed", "unknown"}

\* A lease stands for the pair of owner and lease id.
Calls ==
  [op : {"start"}, run : Runs, thread : Threads, key : Keys \cup {None},
   lease : Leases \cup {None}, entry : Entry \cup {None}]
  \cup [op : {"commit"}, run : Runs, lease : Leases \cup {None}, seq : Nat,
        finish : BOOLEAN, saves : BOOLEAN, effect : EffectStatus \cup {None},
        entry : Entry \cup {None}]
  \cup [op : {"renew", "release", "reserve_effect", "start_effect"}, run : Runs,
        lease : Leases \cup {None}]
  \cup [op : {"mark_cancelled"}, run : Runs]
  \cup [op : {"reap_stale"}]

CommitCall(r, l, seq, finish, saves, effect, e) ==
  [op |-> "commit", run |-> r, lease |-> l, seq |-> seq, finish |-> finish, saves |-> saves,
   effect |-> effect, entry |-> e]

\* finish_run and record_event: one event, by whoever, without a lease.
FinishCall(r, seq, e) == CommitCall(r, None, seq, TRUE, FALSE, None, e)
RecordCall(r, seq) == CommitCall(r, None, seq, FALSE, FALSE, None, None)

\* A client in a call: the transaction's begin, the rows it has locked, the number its entry
\* gets (0 for none) and the reaper's snapshot of next seqs (0 for a run it did not see).
Tx == [req : Requests, now : Nat, locked : SUBSET Runs, seq : Nat, next : [Runs -> Nat],
       pc : {"session", "lookup", "begin", "insert", "share", "row", "rows", "entries",
             "commit", "again", "mark"}]

ASSUME CallsAssumption ==
  /\ Requests \subseteq Calls /\ IsFiniteSet(EntryKeys)
  /\ {Ttl, ReapLimit, PoolSize, MaxClock, MaxCalls} \subseteq Nat

ASSUME NoneAssumption ==
  /\ None \notin Runs \cup Threads \cup Keys \cup Leases \cup Entry \cup EffectStatus
  /\ None \notin Row \cup ThreadLease \cup EntryRow \cup Tx

Exists(r) == runs[r] # None
Running(r) == Exists(r) /\ runs[r].status = "running"

\* running_thread_tx
RunningOthers(t, r) == {q \in Runs \ {r} : Running(q) /\ runs[q].thread = t}

KeyUsed(k) == k # None /\ \E r \in Runs : Exists(r) /\ runs[r].key = k

-----------------------------------------------------------------------------
(* Locks and connections.                                                   *)

In(p, op) == tx[p] # None /\ tx[p].req.op = op
At(p, pc) == tx[p] # None /\ tx[p].pc = pc

\* Mutant: a start keeps the client of its lookups while it asks for the transaction's.
HasConnection_Lookups(p) ==
  /\ tx[p] # None
  /\ tx[p].pc \in {"insert", "share", "row", "rows", "entries", "commit", "again"}
       \cup IF In(p, "start") THEN {"begin"} ELSE {}

\* A transaction is open, or a start holds its client while it looks again.
HasConnection(p) ==
  tx[p] # None /\ tx[p].pc \in {"insert", "share", "row", "rows", "entries", "commit", "again"}

\* pool.get() waits without a timeout until a connection comes back.
FreeConnection == Cardinality({p \in Clients : HasConnection(p)}) < PoolSize

\* The transaction p holds row r of typemach_runs: SELECT ... FOR UPDATE or an UPDATE.
Locks(p, r) == tx[p] # None /\ r \in tx[p].locked

\* Mutant: rows are read without FOR UPDATE.
RowFree_NoLock(p, r) == TRUE

RowFree(p, r) == \A q \in Clients \ {p} : ~Locks(q, r)

\* p has inserted a row it has not committed.
Inserted(p) == In(p, "start") /\ tx[p].pc \in {"share", "entries", "commit"}

\* No uncommitted row of another transaction meets p's at a unique index; otherwise the
\* INSERT waits for that transaction.
IndexFree(p) ==
  LET s == tx[p].req IN
    \A q \in Clients \ {p} : Inserted(q) =>
      LET o == tx[q].req IN
        o.run # s.run /\ o.thread # s.thread /\ (o.key = None \/ o.key # s.key)

\* run_id, running-thread and idempotency indexes against committed rows.
UniqueViolation(s) ==
  Exists(s.run) \/ RunningOthers(s.thread, s.run) # {} \/ KeyUsed(s.key)

\* The session row: a foreign key check holds it FOR KEY SHARE, apply_entries FOR UPDATE.
SharesSession(p) == In(p, "start") /\ tx[p].pc \in {"entries", "commit"}
UpdatesSession(p) ==
  /\ In(p, "start") \/ In(p, "commit")
  /\ tx[p].pc = "commit" /\ tx[p].req.entry # None

SessionOpen(p) == \A q \in Clients \ {p} : ~UpdatesSession(q)

\* Mutant: the session row is not locked FOR UPDATE.
SessionFree_NoLock(p) == TRUE

SessionFree(p) == \A q \in Clients \ {p} : ~UpdatesSession(q) /\ ~SharesSession(q)

-----------------------------------------------------------------------------
(* Entries and effects.                                                     *)

\* check_entries_tx
EntryConflict(e) == e # None /\ entries[e.key] # None /\ entries[e.key].body # e.body

EntrySeqs == {entries[k].seq : k \in {k \in EntryKeys : entries[k] # None}}

\* apply_entries_tx: MAX(seq) + 1 for a new key; a key the session holds is left alone, 0
EntrySeq(e) == IF entries[e.key] = None THEN Max(EntrySeqs \cup {0}) + 1 ELSE 0

WithEntry(p) ==
  LET e == tx[p].req.entry IN
    IF tx[p].seq = 0 THEN entries
    ELSE [entries EXCEPT ![e.key] = [run |-> tx[p].req.run, seq |-> tx[p].seq, body |-> e.body]]

\* validate_effect_updates_tx: done stays done
EffectRefused(r, to) ==
  \/ to \in {"reserved", "started"}
  \/ to # None /\ effects[r] = None
  \/ to # None /\ effects[r] = "done" /\ to # "done"

-----------------------------------------------------------------------------
Init ==
  /\ runs = [r \in Runs |-> None]
  /\ threadLease = [t \in Threads |-> None]
  /\ checkpoints = [t \in Threads |-> None]
  /\ effects = [r \in Runs |-> None]
  /\ entries = [k \in EntryKeys |-> None]
  /\ tx = [p \in Clients |-> None]
  /\ told = [r \in Runs |-> 0]
  /\ clock = 0 /\ calls = 0

\* Where a call goes first: a start looks around before its transaction.
FirstPc(req) ==
  CASE req.op = "start" -> "session"
    [] req.op = "mark_cancelled" -> "mark"
    [] OTHER -> "begin"

\* Nobody acts for a run or with its lease before it has been started.
Callable(req) == req.op \notin {"start", "reap_stale"} => Exists(req.run)

Call(p, req) ==
  /\ tx[p] = None /\ calls < MaxCalls /\ Callable(req)
  /\ calls' = calls + 1
  /\ tx' = [tx EXCEPT ![p] = [req |-> req, pc |-> FirstPc(req), now |-> 0,
                              locked |-> {}, seq |-> 0, next |-> [r \in Runs |-> 0]]]
  /\ UNCHANGED <<tables, told, clock>>

Goto(p, pc) == tx' = [tx EXCEPT ![p].pc = pc]
Lock(p, pc, S) == tx' = [tx EXCEPT ![p].pc = pc, ![p].locked = S]
Answer(p) == tx' = [tx EXCEPT ![p] = None]
Unwritten == UNCHANGED <<tables, told, clock, calls>>

\* COMMIT: the answer may be lost, which the caller cannot tell from a failed call.
Commits(p) == Answer(p) /\ UNCHANGED <<clock, calls>>

-----------------------------------------------------------------------------
(* start_run.                                                               *)

\* ensure_session: an upsert on its own, which waits for a FOR UPDATE on the session row.
EnsureSession(p) ==
  /\ At(p, "session") /\ FreeConnection /\ SessionOpen(p)
  /\ Goto(p, "lookup") /\ Unwritten

\* lookup_run, then find_idempotent_run: Existing, or StartConflict by check_start.
LookUp(p) ==
  /\ At(p, "lookup") /\ FreeConnection
  /\ IF Exists(tx[p].req.run) \/ KeyUsed(tx[p].req.key)
       THEN Answer(p)
       ELSE Goto(p, "begin")
  /\ Unwritten

\* The transaction of a start; a thread that is busy by now is answered at once.
BeginStart(p) ==
  /\ At(p, "begin") /\ In(p, "start") /\ FreeConnection
  /\ IF RunningOthers(tx[p].req.thread, tx[p].req.run) # {}
       THEN Answer(p)
       ELSE tx' = [tx EXCEPT ![p].pc = "insert", ![p].now = clock]
  /\ Unwritten

\* The INSERT waits for a row in flight, and finds a committed one in its way.
Insert(p) ==
  /\ At(p, "insert") /\ IndexFree(p)
  /\ Goto(p, IF UniqueViolation(tx[p].req) THEN "again" ELSE "share")
  /\ Unwritten

\* claim_thread_tx takes the place of a lease that lapsed before the transaction began.
ClaimRefused(p) ==
  LET held == threadLease[tx[p].req.thread] IN
    tx[p].req.lease # None /\ held # None /\ held.until > tx[p].now

\* The foreign key check on the session row, and the claim of the thread.
Claim(p) ==
  /\ At(p, "share") /\ SessionOpen(p)
  /\ IF ClaimRefused(p) THEN Answer(p)
     ELSE Goto(p, IF tx[p].req.entry = None THEN "commit" ELSE "entries")
  /\ Unwritten

\* apply_entries_tx, of a start or a commit: the session row FOR UPDATE, then what the
\* session holds; a conflict rolls everything back.
LockSession(p) ==
  LET e == tx[p].req.entry IN
    /\ At(p, "entries") /\ SessionFree(p)
    /\ IF EntryConflict(e) THEN Answer(p)
       ELSE tx' = [tx EXCEPT ![p].pc = "commit", ![p].seq = EntrySeq(e)]
    /\ Unwritten

ClaimedThread(s, until) ==
  IF s.lease = None THEN threadLease
  ELSE [threadLease EXCEPT ![s.thread] = [run |-> s.run, lease |-> s.lease, until |-> until]]

CommitStart(p) ==
  LET s == tx[p].req
      until == IF s.lease = None THEN 0 ELSE tx[p].now + Ttl IN
    /\ At(p, "commit") /\ In(p, "start")
    /\ runs' = [runs EXCEPT ![s.run] =
         [status |-> "running", thread |-> s.thread, key |-> s.key, lease |-> s.lease,
          until |-> until, seq |-> 0, gaps |-> {}, cancel |-> FALSE]]
    /\ threadLease' = ClaimedThread(s, until)
    /\ entries' = WithEntry(p)
    /\ Commits(p) /\ UNCHANGED <<checkpoints, effects, told>>

\* After a unique violation the start looks up the run, the key and the thread once more:
\* on other connections, while it still holds its own.
LookAgain(p) ==
  /\ At(p, "again") /\ FreeConnection
  /\ Answer(p) /\ Unwritten

-----------------------------------------------------------------------------
(* commit_run, finish_run and record_event.                                 *)

Begin(p) ==
  /\ At(p, "begin") /\ ~In(p, "start") /\ ~In(p, "reap_stale") /\ FreeConnection
  /\ tx' = [tx EXCEPT ![p].pc = "row", ![p].now = clock]
  /\ Unwritten

\* check_pg_lease, and the same check of check_op_run_tx
LeaseHeld(p, r) ==
  runs[r].lease # None =>
    tx[p].req.lease = runs[r].lease /\ runs[r].until > tx[p].now

\* check_thread_tx, when the commit carries a checkpoint
ThreadHeld(p, r) ==
  LET held == threadLease[runs[r].thread] IN
    /\ RunningOthers(runs[r].thread, r) = {}
    /\ IF runs[r].lease = None
         THEN held # None => held.until <= tx[p].now
         ELSE held # None /\ held.run = r /\ held.lease = tx[p].req.lease
              /\ held.until > tx[p].now

\* validate_commit: seq 0 is a commit without events, which ends nothing.
ValidCommit(c) == c.finish => c.seq > 0

\* What commit_run requires of the locked row.
CommitAllowed(p, r) ==
  LET c == tx[p].req IN
    /\ Running(r) /\ LeaseHeld(p, r)
    /\ c.saves => ThreadHeld(p, r)
    /\ c.seq > 0 => c.seq > runs[r].seq
    /\ ~EffectRefused(r, c.effect)

\* SELECT ... FOR UPDATE of the run, and every refusal: Skipped, AlreadyFinished,
\* LeaseLost, ThreadBusy, InvalidRunEvent, EffectConflict.
LockForCommit(p) ==
  LET r == tx[p].req.run IN
    /\ At(p, "row") /\ In(p, "commit") /\ RowFree(p, r)
    /\ IF ValidCommit(tx[p].req) /\ CommitAllowed(p, r)
         THEN Lock(p, IF tx[p].req.entry = None THEN "commit" ELSE "entries", {r})
         ELSE Answer(p)
    /\ Unwritten

\* Mutant: the row of the thread outlives the run.
FreedThreads_Kept(S) == threadLease

\* delete_thread_tx
FreedThreads(S) ==
  [t \in Threads |-> IF threadLease[t] # None /\ threadLease[t].run \in S
                     THEN None ELSE threadLease[t]]

\* insert_event_tx: an event above the last one may leave numbers out, one below takes such
\* a number.
WithEvent(row, n) ==
  IF n > row.seq THEN [row EXCEPT !.seq = n, !.gaps = @ \cup (row.seq + 1 .. n - 1)]
  ELSE [row EXCEPT !.gaps = @ \ {n}]

Ended(row, n) == [WithEvent(row, n) EXCEPT !.status = "ended", !.lease = None, !.until = 0]

\* save_checkpoint: the row of the thread is replaced
SavedCheckpoint(c, seq) ==
  IF c.saves THEN [checkpoints EXCEPT ![runs[c.run].thread] = [run |-> c.run, seq |-> seq]]
  ELSE checkpoints

CommitRun(p) ==
  LET c == tx[p].req
      r == c.run
      seq == IF c.seq = 0 THEN runs[r].seq ELSE c.seq IN
    /\ At(p, "commit") /\ In(p, "commit")
    /\ runs' = [runs EXCEPT ![r] = IF c.finish THEN Ended(@, seq)
                                   ELSE IF c.seq = 0 THEN @ ELSE WithEvent(@, seq)]
    /\ threadLease' = IF c.finish THEN FreedThreads({r}) ELSE threadLease
    /\ checkpoints' = SavedCheckpoint(c, seq)
    /\ effects' = IF c.effect = None THEN effects ELSE [effects EXCEPT ![r] = c.effect]
    /\ told' = IF c.effect = None THEN told ELSE [told EXCEPT ![r] = 0]
    /\ entries' = WithEntry(p)
    /\ Commits(p)

-----------------------------------------------------------------------------
(* reserve_effect and start_effect.                                         *)

IsEffect(p) == In(p, "reserve_effect") \/ In(p, "start_effect")

\* Mutant: the run is read without FOR UPDATE.
LockForEffect_Plain(p) ==
  LET r == tx[p].req.run IN
    /\ At(p, "row") /\ IsEffect(p)
    /\ IF Running(r) /\ LeaseHeld(p, r) THEN Goto(p, "commit") ELSE Answer(p)
    /\ Unwritten

\* check_op_run_tx
LockForEffect(p) ==
  LET r == tx[p].req.run IN
    /\ At(p, "row") /\ IsEffect(p) /\ RowFree(p, r)
    /\ IF Running(r) /\ LeaseHeld(p, r)
         THEN Lock(p, "commit", {r})
         ELSE Answer(p)
    /\ Unwritten

\* reserve_effect_tx: an effect that exists is answered as it is
ReserveEffect(p) ==
  LET r == tx[p].req.run IN
    /\ At(p, "commit") /\ In(p, "reserve_effect")
    /\ effects' = IF effects[r] = None THEN [effects EXCEPT ![r] = "reserved"] ELSE effects
    /\ Commits(p) /\ UNCHANGED <<runs, threadLease, checkpoints, entries, told>>

\* start_effect_tx: nobody is told to start what is started, unknown or done; the answer
\* that tells may be lost.
Startable(r) == effects[r] \in {"reserved", "failed"}

StartEffect(p) ==
  LET r == tx[p].req.run IN
    /\ At(p, "commit") /\ In(p, "start_effect")
    /\ IF Startable(r)
         THEN /\ effects' = [effects EXCEPT ![r] = "started"]
              /\ told' \in {told, [told EXCEPT ![r] = @ + 1]}
         ELSE UNCHANGED <<effects, told>>
    /\ Commits(p) /\ UNCHANGED <<runs, threadLease, checkpoints, entries>>

-----------------------------------------------------------------------------
(* mark_cancelled and the leases.                                           *)

\* One UPDATE on its own; it also marks a run that has ended.
MarkCancelled(p) ==
  LET r == tx[p].req.run IN
    /\ At(p, "mark") /\ FreeConnection /\ RowFree(p, r)
    /\ runs' = IF Exists(r) THEN [runs EXCEPT ![r].cancel = TRUE] ELSE runs
    /\ Commits(p) /\ UNCHANGED <<threadLease, checkpoints, effects, entries, told>>

Holds(p, r) == Running(r) /\ runs[r].lease # None /\ runs[r].lease = tx[p].req.lease
HoldsThread(p, t) ==
  /\ threadLease[t] # None
  /\ threadLease[t].run = tx[p].req.run /\ threadLease[t].lease = tx[p].req.lease

\* The UPDATE of the run that renew begins with: it waits for the row and looks again.
LockForRenew(p) ==
  LET r == tx[p].req.run IN
    /\ At(p, "row") /\ In(p, "renew") /\ RowFree(p, r)
    /\ IF Holds(p, r) /\ runs[r].until > tx[p].now
         THEN Lock(p, "commit", {r})
         ELSE Answer(p)
    /\ Unwritten

\* Both rows or none, until the time the transaction began plus the ttl.
Renew(p) ==
  LET r == tx[p].req.run
      t == runs[r].thread IN
    /\ At(p, "commit") /\ In(p, "renew")
    /\ IF HoldsThread(p, t) /\ threadLease[t].until > tx[p].now
         THEN /\ runs' = [runs EXCEPT ![r].until = tx[p].now + Ttl]
              /\ threadLease' = [threadLease EXCEPT ![t].until = tx[p].now + Ttl]
         ELSE UNCHANGED <<runs, threadLease>>
    /\ Commits(p) /\ UNCHANGED <<checkpoints, effects, entries, told>>

LockForRelease(p) ==
  LET r == tx[p].req.run IN
    /\ At(p, "row") /\ In(p, "release") /\ RowFree(p, r)
    /\ Lock(p, "commit", IF Holds(p, r) THEN {r} ELSE {})
    /\ Unwritten

\* The run goes on without a lease; the thread's row goes.
Release(p) ==
  LET r == tx[p].req.run IN
    /\ At(p, "commit") /\ In(p, "release")
    /\ runs' = IF r \in tx[p].locked THEN [runs EXCEPT ![r].lease = None, ![r].until = 0] ELSE runs
    /\ threadLease' = [t \in Threads |-> IF HoldsThread(p, t) THEN None ELSE threadLease[t]]
    /\ Commits(p) /\ UNCHANGED <<checkpoints, effects, entries, told>>

-----------------------------------------------------------------------------
(* reap_stale.                                                              *)

Lapsed(r, now) == Running(r) /\ runs[r].lease # None /\ runs[r].until <= now

\* The statement's snapshot: who had lapsed, and the next seq of each by that snapshot.
BeginReap(p) ==
  /\ At(p, "begin") /\ In(p, "reap_stale") /\ FreeConnection
  /\ tx' = [tx EXCEPT ![p].pc = "rows", ![p].now = clock,
              ![p].next = [r \in Runs |-> IF Lapsed(r, clock) THEN runs[r].seq + 1 ELSE 0]]
  /\ Unwritten

\* FOR UPDATE SKIP LOCKED: rows locked by others are passed over, the others are read
\* again as they are now, and still have to be lapsed; the oldest come first.
Reapable(p) ==
  {r \in Runs : tx[p].next[r] # 0 /\ RowFree(p, r) /\ Lapsed(r, tx[p].now)}

Oldest(p, S) ==
  /\ S \subseteq Reapable(p)
  /\ Cardinality(S) = ReapLimit \/ S = Reapable(p)
  /\ \A r \in S, q \in Reapable(p) \ S : runs[r].until <= runs[q].until
  /\ Cardinality(S) <= ReapLimit

LockForReap(p, S) ==
  /\ At(p, "rows") /\ Oldest(p, S)
  /\ Lock(p, "commit", S) /\ Unwritten

\* Mutant: the events have no key, or the reaper's overwrite what is there.
SeqTaken_NoKey(p) == FALSE

\* The key (run_id, seq) of the event table: if a run has used its seq since the snapshot the
\* whole batch is rolled back; if it has passed it, the reaper's event goes below the last.
SeqTaken(p) ==
  \E r \in tx[p].locked : tx[p].next[r] <= runs[r].seq /\ tx[p].next[r] \notin runs[r].gaps

ReapStale(p) ==
  /\ At(p, "commit") /\ In(p, "reap_stale")
  /\ IF SeqTaken(p) THEN UNCHANGED <<runs, threadLease>>
     ELSE /\ runs' = [r \in Runs |-> IF r \in tx[p].locked THEN Ended(runs[r], tx[p].next[r])
                                     ELSE runs[r]]
          /\ threadLease' = FreedThreads(tx[p].locked)
  /\ Commits(p) /\ UNCHANGED <<checkpoints, effects, entries, told>>

-----------------------------------------------------------------------------
\* Two starts share the session row and both want it for themselves: the deadlock detector
\* fails one of them.
Deadlocked(p) ==
  SharesSession(p) /\ \E q \in Clients \ {p} : At(q, "entries") /\ SharesSession(q)

DeadlockAbort(p) == At(p, "entries") /\ Deadlocked(p) /\ Answer(p) /\ Unwritten

\* The connection breaks, the process dies, a statement fails: everything is rolled back.
Abort(p) == HasConnection(p) /\ Answer(p) /\ Unwritten

Tick ==
  /\ clock < MaxClock /\ clock' = clock + 1
  /\ UNCHANGED <<tables, tx, told, calls>>

ClientStep(p) ==
  \/ EnsureSession(p) \/ LookUp(p) \/ BeginStart(p) \/ Insert(p) \/ Claim(p)
  \/ LockSession(p) \/ CommitStart(p) \/ LookAgain(p)
  \/ Begin(p) \/ LockForCommit(p) \/ CommitRun(p)
  \/ LockForEffect(p) \/ ReserveEffect(p) \/ StartEffect(p)
  \/ MarkCancelled(p) \/ LockForRenew(p) \/ Renew(p) \/ LockForRelease(p) \/ Release(p)
  \/ BeginReap(p) \/ (\E S \in SUBSET Runs : LockForReap(p, S)) \/ ReapStale(p)
  \/ DeadlockAbort(p)

Next ==
  \/ \E p \in Clients, req \in Requests : Call(p, req)
  \/ \E p \in Clients : ClientStep(p) \/ Abort(p)
  \/ Tick

Spec == Init /\ [][Next]_vars

-----------------------------------------------------------------------------
(* Properties.                                                              *)

\* Tables, transactions and counters keep their shape.
TypeOK ==
  /\ runs \in [Runs -> Row \cup {None}]
  /\ threadLease \in [Threads -> ThreadLease \cup {None}]
  /\ checkpoints \in [Threads -> Checkpoint \cup {None}]
  /\ effects \in [Runs -> EffectStatus \cup {None}]
  /\ entries \in [EntryKeys -> EntryRow \cup {None}]
  /\ tx \in [Clients -> Tx \cup {None}]
  /\ told \in [Runs -> Nat] /\ clock \in 0..MaxClock /\ calls \in 0..MaxCalls

\* The row of a thread in typemach_thread_leases and the lease of the running run on that
\* thread are the same lease with the same expiry, or neither is there: every call that
\* changes one changes both in its transaction, whatever it waited for.
LeasesAgree ==
  \A t \in Threads, r \in Runs :
    (Running(r) /\ runs[r].thread = t /\ runs[r].lease # None)
      <=> (threadLease[t] # None /\ threadLease[t].run = r)
LeasesEqual ==
  \A t \in Threads : threadLease[t] # None =>
    LET r == threadLease[t].run IN
      runs[r] # None /\ runs[r].lease = threadLease[t].lease /\ runs[r].until = threadLease[t].until
LeaseInv == TypeOK /\ LeasesAgree /\ LeasesEqual

\* Entries of one session written by racing starts and commits are numbered 1, 2, ...
\* without a gap or a repetition (apply_entries_tx under the session row's lock).
EntriesDense ==
  /\ EntrySeqs = 1 .. Cardinality(EntrySeqs)
  /\ Cardinality(EntrySeqs) = Cardinality({k \in EntryKeys : entries[k] # None})

\* Of callers that race to start an effect, at most one is told to perform it before it is
\* settled (start_effect_tx under the run row's lock).
EffectToldOnce == \A r \in Runs : told[r] <= 1

\* An idempotency key starts one run, also when starts with it race (KeyUsed by LookUp and
\* by the unique index).
KeysUnique ==
  \A q, r \in Runs :
    Exists(q) /\ Exists(r) /\ runs[q].key # None /\ runs[q].key = runs[r].key => q = r

\* What the operations of a run leave: numbers, effects and keys.
OpsInv == EntriesDense /\ EffectToldOnce /\ KeysUnique

\* What a call found, at one statement or another, is still so as it commits, though others
\* have committed in between: check and write of every call are as good as one step.
ChecksHold ==
  \A p \in Clients : At(p, "commit") =>
    LET c == tx[p].req
        r == tx[p].req.run IN
      /\ In(p, "start") => ~UniqueViolation(c) /\ ~ClaimRefused(p)
      /\ In(p, "commit") => CommitAllowed(p, r)
      /\ UpdatesSession(p) => ~EntryConflict(c.entry) /\ tx[p].seq = EntrySeq(c.entry)
      /\ IsEffect(p) => Running(r) /\ LeaseHeld(p, r)
      /\ In(p, "renew") => Holds(p, r) /\ runs[r].until > tx[p].now
      /\ In(p, "release") => (r \in tx[p].locked <=> Holds(p, r))
      /\ In(p, "reap_stale") => \A q \in tx[p].locked : Lapsed(q, tx[p].now)

\* The lock, the index or the connection p waits for is there: what its next statement needs.
Ready(p) ==
  \/ At(p, "session") /\ FreeConnection /\ SessionOpen(p)
  \/ (At(p, "lookup") \/ At(p, "begin") \/ At(p, "again")) /\ FreeConnection
  \/ At(p, "mark") /\ FreeConnection /\ RowFree(p, tx[p].req.run)
  \/ At(p, "insert") /\ IndexFree(p)
  \/ At(p, "share") /\ SessionOpen(p)
  \/ At(p, "entries") /\ (SessionFree(p) \/ Deadlocked(p))
  \/ At(p, "row") /\ RowFree(p, tx[p].req.run)
  \/ At(p, "rows") /\ \E S \in SUBSET Runs : Oldest(p, S)
  \/ At(p, "commit")

\* Every connection is kept by a start that lost a race and asks the pool for another.
PoolStarved == ~FreeConnection /\ \A p \in Clients : HasConnection(p) => At(p, "again")

\* As long as some call is unanswered, some call can take its next step, but for one case:
\* starts that lost a race hold all connections of the pool while each asks it for another
\* (LookAgain).  Row locks, unique indexes and the session row never leave everybody waiting.
OnlyPoolStalls ==
  (\E p \in Clients : tx[p] # None) => (\E p \in Clients : Ready(p)) \/ PoolStarved

\* The event that ends a run is the last of its log, but for one case: a reaper whose snapshot
\* is older than a commit that left numbers out takes such a number, and the run it ends so
\* has lapsed.  It never takes the place of an event.
EndsLog ==
  [][\A r \in Runs : Running(r) /\ ~Running(r)' =>
       \/ runs'[r].seq > runs[r].seq
       \/ /\ Lapsed(r, clock)
          /\ \E n \in runs[r].gaps : runs'[r].gaps = runs[r].gaps \ {n}]_vars

Tenure == [thread : Threads, seq : Nat, open : BOOLEAN]

ASSUME TenureAssumption == None \notin Tenure

TenureOf(r) ==
  IF runs[r] = None THEN None
  ELSE [thread |-> runs[r].thread, seq |-> runs[r].seq, open |-> runs[r].status = "running"]

Fence == INSTANCE ThreadFence WITH
  InOrder <- FALSE,
  tenure <- [r \in Runs |-> TenureOf(r)],
  note <- checkpoints

\* The committed tables behave as ThreadFence: one running run on a thread, and only that
\* run, until it ends, extends its log and saves the thread's checkpoint with it, however
\* the statements of starts, commits and reapers interleave.  The event of a reaper need not
\* be the last (EndsLog).
ImplementsFence == Fence!Spec
=============================================================================
