------------------------------ MODULE RunStore ------------------------------
(***************************************************************************)
(* The durable run store: runs, run leases, thread leases, checkpoints,    *)
(* event logs, idempotency keys, effects, items and entries.  Every        *)
(* operation of MemoryRunStore holds one mutex from its first read to its  *)
(* last write, so it is one action here; an operation that answers with an *)
(* error or with "existing"/"skipped" changes nothing and is no step.  It  *)
(* may read Instant::now() more than once; here it reads the clock once.   *)
(*                                                                         *)
(* A scope stands for the pair (scope, session): the code rejects either   *)
(* mismatch before it looks at anything else.  A run's thread stands for   *)
(* the whole immutable request signature (thread, agent kind, model, ...). *)
(* The JSON of a checkpoint is abstracted to the seq of the last event it  *)
(* was committed with.                                                     *)
(***************************************************************************)
EXTENDS Naturals, Sequences, FiniteSets

CONSTANTS
  Runs,       \* run ids
  Threads,    \* checkpoint threads
  Scopes,     \* (scope, session) pairs
  Keys,       \* client_run_key values, the durable idempotency keys
  Workers,    \* worker ids, the owners of leases
  LeaseIds,   \* lease tokens
  EffectKeys, ItemKeys, EntryKeys,
  Requests,   \* JSON requests of effects
  Payloads,   \* JSON results of effects, bodies of items and entries, told apart by equality
  Outcomes,   \* terminal statuses a worker or a caller finishes a run with
  Ttl,        \* lease time to live, in clock ticks
  ReapLimit,  \* the limit given to reap_stale
  None        \* the absent value of every Option

CONSTANTS     \* bounds of the model, none of them in the code
  MaxSeq,     \* largest event seq offered to the store
  MaxBatch,   \* most events in one commit
  MaxWrites,  \* most effect updates, items and entries in one commit, together
  MaxClock

VARIABLES
  runs,        \* RunId -> run row, or None
  threadLease, \* ThreadId -> thread lease row, or None
  checkpoints, \* ThreadId -> checkpoint record, or None
  idempotency, \* (scope, client key) -> RunId, or None
  effects, items, entries,
  entrySeq,    \* scope -> last entry seq
  clock        \* Instant::now()

leaseVars == <<runs, threadLease, checkpoints, idempotency>>
opVars    == <<effects, items, entries, entrySeq>>
vars      == <<leaseVars, opVars, clock>>

-----------------------------------------------------------------------------
(* Rows and requests.                                                      *)

RunStatus    == {"running", "completed", "interrupted", "cancelled", "error"}
EffectStatus == {"reserved", "started", "done", "failed", "unknown"}

Event       == [seq : Nat, terminal : BOOLEAN]
Lease       == [owner : Workers, id : LeaseIds, until : Nat]
ThreadLease == [run : Runs, owner : Workers, id : LeaseIds, until : Nat]
Checkpoint  == [run : Runs, seq : Nat]
Effect      == [request : Requests, status : EffectStatus, result : Payloads \cup {None}]
Entry       == [run : Runs, seq : Nat, body : Payloads]
Write(K)    == [key : K, body : Payloads]

Run == [status : RunStatus, scope : Scopes, thread : Threads, key : Keys \cup {None},
        lease : Lease \cup {None}, cancel_requested : BOOLEAN, events : Seq(Event)]

EffectUpdate == [key : EffectKeys, status : {"done"}, result : Payloads]
                  \cup [key : EffectKeys, status : {"failed", "unknown"}, result : {None}]

UpTo(n, S) == UNION {[1..k -> S] : k \in 0..n}

OfferedEvents == [seq : 0..MaxSeq, terminal : BOOLEAN]
Claims        == [owner : Workers, id : LeaseIds]
Holds         == [run : Runs, owner : Workers, id : LeaseIds]

Starts == [run : Runs, scope : Scopes, thread : Threads, key : Keys \cup {None},
           lease : Claims \cup {None}, entries : UpTo(MaxWrites, Write(EntryKeys))]

CheckpointWrite == [thread : Threads, run : Runs]

CommitRequest ==
  [run : Runs, scope : Scopes, lease : LeaseIds \cup {None},
   checkpoint : CheckpointWrite \cup {None},
   events : UpTo(MaxBatch, OfferedEvents),
   effects : UpTo(MaxWrites, EffectUpdate),
   items : UpTo(MaxWrites, Write(ItemKeys)),
   entries : UpTo(MaxWrites, Write(EntryKeys)),
   finish : Outcomes \cup {None}]

ASSUME NoneAssumption ==
  /\ None \notin Runs \cup Keys \cup LeaseIds \cup Payloads \cup Outcomes
  /\ None \notin Run \cup Lease \cup ThreadLease \cup Checkpoint
  /\ None \notin Claims \cup CheckpointWrite \cup Effect \cup Entry

ASSUME BoundAssumption ==
  /\ Outcomes \subseteq RunStatus \ {"running"}
  /\ Ttl \in Nat /\ ReapLimit \in Nat
  /\ MaxSeq \in Nat /\ MaxBatch \in Nat /\ MaxWrites \in Nat /\ MaxClock \in Nat

-----------------------------------------------------------------------------
(* What the handlers read.                                                 *)

Exists(r)   == runs[r] # None

Running(r)  == Exists(r) /\ runs[r].status = "running"
Terminal(r) == Exists(r) /\ runs[r].status # "running"
Leased(r)   == runs[r].lease # None
Lapsed(l)   == l.until <= clock

LastSeq(r) == LET log == runs[r].events IN IF log = <<>> THEN 0 ELSE log[Len(log)].seq

\* Mutant: only runs that hold a lease make a thread busy.
RunningOthers_LeasedOnly(t, r) ==
  {q \in Runs \ {r} : Running(q) /\ Leased(q) /\ runs[q].thread = t}

\* running_memory_thread: another running run of thread t.
RunningOthers(t, r) == {q \in Runs \ {r} : Running(q) /\ runs[q].thread = t}

\* Mutant: the token is compared, its expiry is not.
CheckLease_NoExpiry(r, id) == Leased(r) => runs[r].lease.id = id

\* check_memory_lease: an unleased run accepts every token.
CheckLease(r, id) ==
  Leased(r) => runs[r].lease.id = id /\ ~Lapsed(runs[r].lease)

\* Mutant: only the thread's lease row is looked at.
CheckThread_LeaseOnly(r, t, id) ==
  threadLease[t] # None => threadLease[t].id = id /\ ~Lapsed(threadLease[t])

\* check_memory_thread: the thread belongs to the run and nobody else is on it.
CheckThread(r, t, id) ==
  /\ t = runs[r].thread
  /\ RunningOthers(t, r) = {}
  /\ IF Leased(r)
       THEN /\ threadLease[t] # None
            /\ threadLease[t].run = r
            /\ threadLease[t].owner = runs[r].lease.owner
            /\ threadLease[t].id = runs[r].lease.id
            /\ threadLease[t].id = id
            /\ ~Lapsed(threadLease[t])
       ELSE threadLease[t] # None => Lapsed(threadLease[t])

\* Mutant: a repeated seq passes.
Increasing_NonStrict(r, batch) ==
  \A i \in DOMAIN batch :
    batch[i].seq >= (IF i = 1 THEN LastSeq(r) ELSE batch[i - 1].seq)

\* validate_event_sequence
Increasing(r, batch) ==
  \A i \in DOMAIN batch :
    batch[i].seq > (IF i = 1 THEN LastSeq(r) ELSE batch[i - 1].seq)

\* validate_commit_events: a terminal event is the last one of a finishing commit.
ValidEvents(batch, finish) ==
  /\ finish # None => batch # <<>>
  /\ \A i \in DOMAIN batch :
       /\ batch[i].seq > 0
       /\ batch[i].terminal <=> finish # None /\ i = Len(batch)

\* The requests validate_commit lets through; it sees no state.
Commits == {c \in CommitRequest :
  /\ Len(c.effects) + Len(c.items) + Len(c.entries) <= MaxWrites
  /\ ValidEvents(c.events, c.finish)}

-----------------------------------------------------------------------------
(* Effects, items and entries.                                             *)

DistinctKeys(ws) == \A i, j \in DOMAIN ws : ws[i].key = ws[j].key => i = j
WritesOf(ws, k)  == {i \in DOMAIN ws : ws[i].key = k}

\* validate_effect_updates
ValidEffects(r, us) ==
  /\ DistinctKeys(us)
  /\ \A i \in DOMAIN us :
       LET e == effects[r][us[i].key] IN
         /\ e # None
         /\ e.status = "done" => us[i].status = "done" /\ us[i].result = e.result

\* apply_effect_updates
ApplyEffects(r, us) ==
  effects' = [effects EXCEPT ![r] = [k \in EffectKeys |->
    IF WritesOf(us, k) = {} \/ effects[r][k].status = "done"
      THEN effects[r][k]
      ELSE LET u == us[CHOOSE i \in WritesOf(us, k) : TRUE]
           IN  [effects[r][k] EXCEPT !.status = u.status, !.result = u.result]]]

\* validate_items
ValidItems(r, ws) ==
  /\ DistinctKeys(ws)
  /\ \A i \in DOMAIN ws : items[r][ws[i].key] \in {None, ws[i].body}

\* apply_items
ApplyItems(r, ws) ==
  items' = [items EXCEPT ![r] = [k \in ItemKeys |->
    IF WritesOf(ws, k) = {} \/ items[r][k] # None
      THEN items[r][k]
      ELSE ws[CHOOSE i \in WritesOf(ws, k) : TRUE].body]]

\* validate_entries
ValidEntries(sc, ws) ==
  /\ DistinctKeys(ws)
  /\ \A i \in DOMAIN ws : LET e == entries[sc][ws[i].key] IN
       e # None => e.body = ws[i].body

\* Mutant: a retried entry takes a new seq.
FreshEntries_All(sc, ws) == DOMAIN ws

\* The entries of a batch the scope does not hold yet; only they take a seq.
FreshEntries(sc, ws) == {i \in DOMAIN ws : entries[sc][ws[i].key] = None}

\* Mutant: an entry written again takes the next seq and the run that repeats it.
ApplyEntries_Rewrites(sc, r, ws) ==
  /\ entries' = [entries EXCEPT ![sc] = [k \in EntryKeys |->
       IF WritesOf(ws, k) = {}
         THEN entries[sc][k]
         ELSE LET i == CHOOSE i \in WritesOf(ws, k) : TRUE IN
              [run |-> r, body |-> ws[i].body,
               seq |-> entrySeq[sc] + Cardinality({j \in FreshEntries(sc, ws) : j <= i})]]]
  /\ entrySeq' = [entrySeq EXCEPT ![sc] = @ + Cardinality(FreshEntries(sc, ws))]

\* apply_entries
ApplyEntries(sc, r, ws) ==
  /\ entries' = [entries EXCEPT ![sc] = [k \in EntryKeys |->
       IF WritesOf(ws, k) \cap FreshEntries(sc, ws) = {}
         THEN entries[sc][k]
         ELSE LET i == CHOOSE i \in WritesOf(ws, k) : TRUE IN
              [run |-> r, body |-> ws[i].body,
               seq |-> entrySeq[sc] + Cardinality({j \in FreshEntries(sc, ws) : j <= i})]]]
  /\ entrySeq' = [entrySeq EXCEPT ![sc] = @ + Cardinality(FreshEntries(sc, ws))]

-----------------------------------------------------------------------------
Init ==
  /\ runs = [r \in Runs |-> None]
  /\ threadLease = [t \in Threads |-> None]
  /\ checkpoints = [t \in Threads |-> None]
  /\ idempotency = [sc \in Scopes |-> [k \in Keys |-> None]]
  /\ effects = [r \in Runs |-> [k \in EffectKeys |-> None]]
  /\ items = [r \in Runs |-> [k \in ItemKeys |-> None]]
  /\ entries = [sc \in Scopes |-> [k \in EntryKeys |-> None]]
  /\ entrySeq = [sc \in Scopes |-> 0]
  /\ clock = 0

\* Mutant: only a running run occupies its key.
FindIdempotent_RunningOnly(sc, k) ==
  IF k # None /\ idempotency[sc][k] # None /\ Running(idempotency[sc][k])
    THEN idempotency[sc][k] ELSE None

\* find_idempotent: the run that already carries the key.
FindIdempotent(sc, k) == IF k = None THEN None ELSE idempotency[sc][k]

\* start_run.  A known run id or a used key answers Existing or StartConflict.
StartRun(s) ==
  /\ ~Exists(s.run)
  /\ FindIdempotent(s.scope, s.key) = None
  /\ ValidEntries(s.scope, s.entries)
  /\ RunningOthers(s.thread, s.run) = {}
  /\ IF s.lease = None
       THEN UNCHANGED threadLease
       ELSE /\ threadLease[s.thread] # None => Lapsed(threadLease[s.thread])
            /\ threadLease' = [threadLease EXCEPT ![s.thread] =
                 [run |-> s.run, owner |-> s.lease.owner, id |-> s.lease.id,
                  until |-> clock + Ttl]]
  /\ idempotency' = IF s.key = None THEN idempotency
                    ELSE [idempotency EXCEPT ![s.scope][s.key] = s.run]
  /\ runs' = [runs EXCEPT ![s.run] =
       [status |-> "running", scope |-> s.scope, thread |-> s.thread, key |-> s.key,
        lease |-> IF s.lease = None THEN None
                  ELSE [owner |-> s.lease.owner, id |-> s.lease.id, until |-> clock + Ttl],
        cancel_requested |-> FALSE, events |-> <<>>]]
  /\ ApplyEntries(s.scope, s.run, s.entries)
  /\ UNCHANGED <<checkpoints, effects, items, clock>>

\* commit_run: checkpoint, events, effects, items, entries and terminal
\* state of one step, all of them or none.
CommitRun(c) ==
  /\ ~(c.events = <<>> /\ c.effects = <<>> /\ c.items = <<>> /\ c.entries = <<>>)
  /\ ValidEvents(c.events, c.finish)
  /\ Running(c.run)
  /\ runs[c.run].scope = c.scope
  /\ CheckLease(c.run, c.lease)
  /\ c.checkpoint # None =>
       CheckThread(c.run, c.checkpoint.thread, c.lease) /\ c.checkpoint.run = c.run
  /\ Increasing(c.run, c.events)
  /\ ValidEffects(c.run, c.effects)
  /\ ValidItems(c.run, c.items)
  /\ ValidEntries(c.scope, c.entries)
  /\ LET log == runs[c.run].events \o c.events IN
       /\ checkpoints' =
            IF c.checkpoint = None THEN checkpoints
            ELSE [checkpoints EXCEPT ![c.checkpoint.thread] =
                   [run |-> c.checkpoint.run,
                    seq |-> IF log = <<>> THEN 0 ELSE log[Len(log)].seq]]
       /\ runs' = [runs EXCEPT ![c.run] =
            IF c.finish = None THEN [@ EXCEPT !.events = log]
            ELSE [@ EXCEPT !.events = log, !.status = c.finish, !.lease = None]]
  /\ ApplyEffects(c.run, c.effects)
  /\ ApplyItems(c.run, c.items)
  /\ ApplyEntries(c.scope, c.run, c.entries)
  /\ threadLease' = IF c.finish = None THEN threadLease
                    ELSE [threadLease EXCEPT ![runs[c.run].thread] = None]
  /\ UNCHANGED <<idempotency, clock>>

\* finish_run, the non-transactional path; only for an unleased run.
FinishRun(r, scope, event, status, ws) ==
  /\ event.terminal
  /\ Running(r)
  /\ runs[r].scope = scope
  /\ ~Leased(r)
  /\ ValidEntries(scope, ws)
  /\ event.seq > LastSeq(r)
  /\ runs' = [runs EXCEPT ![r] = [@ EXCEPT
       !.status = status, !.events = Append(runs[r].events, event), !.lease = None]]
  /\ ApplyEntries(scope, r, ws)
  /\ UNCHANGED <<threadLease, checkpoints, idempotency, effects, items, clock>>

\* record_event, the non-transactional path; only for an unleased run.
RecordEvent(r, scope, event) ==
  /\ ~event.terminal
  /\ Running(r)
  /\ runs[r].scope = scope
  /\ ~Leased(r)
  /\ event.seq > LastSeq(r)
  /\ runs' = [runs EXCEPT ![r].events = Append(@, event)]
  /\ UNCHANGED <<threadLease, checkpoints, idempotency, opVars, clock>>

\* mark_cancelled has no status check: it also marks a finished run.
MarkCancelled(r, scope) ==
  /\ Exists(r)
  /\ runs[r].scope = scope
  /\ runs' = [runs EXCEPT ![r].cancel_requested = TRUE]
  /\ UNCHANGED <<threadLease, checkpoints, idempotency, opVars, clock>>

-----------------------------------------------------------------------------
(* RunLease.                                                               *)

\* renew: both leases must still be the caller's and unexpired.
Renew(h) ==
  LET r == h.run
      t == runs[r].thread
  IN /\ Running(r)
     /\ Leased(r)
     /\ runs[r].lease.owner = h.owner /\ runs[r].lease.id = h.id
     /\ ~Lapsed(runs[r].lease)
     /\ threadLease[t] # None
     /\ threadLease[t].run = r
     /\ threadLease[t].owner = h.owner /\ threadLease[t].id = h.id
     /\ ~Lapsed(threadLease[t])
     /\ threadLease' = [threadLease EXCEPT ![t].until = clock + Ttl]
     /\ runs' = [runs EXCEPT ![r].lease.until = clock + Ttl]
     /\ UNCHANGED <<checkpoints, idempotency, opVars, clock>>

\* release: the run goes on running, unleased; expiry is not checked.
Release(h) ==
  /\ Exists(h.run)
  /\ Leased(h.run)
  /\ runs[h.run].lease.owner = h.owner /\ runs[h.run].lease.id = h.id
  /\ threadLease' = [threadLease EXCEPT ![runs[h.run].thread] = None]
  /\ runs' = [runs EXCEPT ![h.run].lease = None]
  /\ UNCHANGED <<checkpoints, idempotency, opVars, clock>>

Stale(r) == Running(r) /\ Leased(r) /\ Lapsed(runs[r].lease)

\* Mutant: the reaped row keeps its lease.
Reaped_KeepsLease(r) == [runs[r] EXCEPT
  !.status = "error",
  !.events = Append(@, [seq |-> LastSeq(r) + 1, terminal |-> TRUE])]

\* The row reap_stale leaves: the next seq is a terminal event.
Reaped(r) == [runs[r] EXCEPT
  !.status = "error", !.lease = None,
  !.events = Append(@, [seq |-> LastSeq(r) + 1, terminal |-> TRUE])]

\* reap_stale walks the runs in hash order and stops after limit of them.
ReapStale(S) ==
  /\ S # {}
  /\ \A r \in S : Stale(r)
  /\ \/ Cardinality(S) = ReapLimit
     \/ Cardinality(S) < ReapLimit /\ \A r \in Runs : Stale(r) => r \in S
  /\ runs' = [r \in Runs |-> IF r \in S THEN Reaped(r) ELSE runs[r]]
  /\ threadLease' = [t \in Threads |->
       IF \E r \in S : runs[r].thread = t THEN None ELSE threadLease[t]]
  /\ UNCHANGED <<checkpoints, idempotency, opVars, clock>>

-----------------------------------------------------------------------------
(* Effects outside a commit.                                               *)

\* reserve_effect of a new key; a known key is answered or refused unchanged.
ReserveEffect(r, scope, id, k, request) ==
  /\ Running(r)
  /\ runs[r].scope = scope
  /\ CheckLease(r, id)
  /\ effects[r][k] = None
  /\ effects' = [effects EXCEPT ![r][k] =
       [request |-> request, status |-> "reserved", result |-> None]]
  /\ UNCHANGED <<leaseVars, items, entries, entrySeq, clock>>

\* Mutant: an effect of unknown outcome may be started again.
IsBlocking_StartedOnly(status) == status = "started"

IsBlocking(status) == status \in {"started", "unknown"}

\* start_effect: EffectPending while blocking, the stored result when done.
StartEffect(r, scope, id, k) ==
  /\ Running(r)
  /\ runs[r].scope = scope
  /\ CheckLease(r, id)
  /\ effects[r][k] # None
  /\ ~IsBlocking(effects[r][k].status)
  /\ effects[r][k].status # "done"
  /\ effects' = [effects EXCEPT ![r][k] = [@ EXCEPT !.status = "started", !.result = None]]
  /\ UNCHANGED <<leaseVars, items, entries, entrySeq, clock>>

Tick ==
  /\ clock < MaxClock
  /\ clock' = clock + 1
  /\ UNCHANGED <<leaseVars, opVars>>

-----------------------------------------------------------------------------
Next ==
  \/ \E s \in Starts : StartRun(s)
  \/ \E c \in Commits : CommitRun(c)
  \/ \E r \in Runs, sc \in Scopes, e \in OfferedEvents, o \in Outcomes,
        ws \in UpTo(MaxWrites, Write(EntryKeys)) : FinishRun(r, sc, e, o, ws)
  \/ \E r \in Runs, sc \in Scopes, e \in OfferedEvents : RecordEvent(r, sc, e)
  \/ \E r \in Runs, sc \in Scopes : MarkCancelled(r, sc)
  \/ \E h \in Holds : Renew(h) \/ Release(h)
  \/ \E S \in SUBSET Runs : ReapStale(S)
  \/ \E r \in Runs, sc \in Scopes, id \in LeaseIds \cup {None}, k \in EffectKeys :
       \/ \E p \in Requests : ReserveEffect(r, sc, id, k, p)
       \/ StartEffect(r, sc, id, k)
  \/ Tick

Spec == Init /\ [][Next]_vars

-----------------------------------------------------------------------------
(* Safety.                                                                 *)

TypeOK ==
  /\ runs \in [Runs -> Run \cup {None}]
  /\ threadLease \in [Threads -> ThreadLease \cup {None}]
  /\ checkpoints \in [Threads -> Checkpoint \cup {None}]
  /\ idempotency \in [Scopes -> [Keys -> Runs \cup {None}]]
  /\ effects \in [Runs -> [EffectKeys -> Effect \cup {None}]]
  /\ items \in [Runs -> [ItemKeys -> Payloads \cup {None}]]
  /\ entries \in [Scopes -> [EntryKeys -> Entry \cup {None}]]
  /\ entrySeq \in [Scopes -> Nat]
  /\ clock \in Nat

\* A thread never has two running runs, leased or not, however leases expire,
\* are released, reaped and claimed again (start_run's busy check).
ThreadExclusive ==
  \A q, r \in Runs :
    Running(q) /\ Running(r) /\ runs[q].thread = runs[r].thread => q = r

\* The thread lease row that goes with the lease of run r.
ThreadCopy(r) == LET l == runs[r].lease IN
  [run |-> r, owner |-> l.owner, id |-> l.id, until |-> l.until]

\* The two copies of a lease never drift apart: the row of a thread lease is
\* there exactly while a running run of that thread holds that same lease to
\* the same instant.  start_run, renew, release, commit_run and reap_stale each
\* write both copies.
LeasesAgree ==
  /\ \A r \in Runs : Exists(r) /\ Leased(r) =>
       Running(r) /\ threadLease[runs[r].thread] = ThreadCopy(r)
  /\ \A t \in Threads : threadLease[t] # None =>
       \E r \in Runs : Exists(r) /\ Leased(r) /\ runs[r].thread = t

\* The inductive invariant behind both: neither is kept by every step without the
\* other (a start looks at lease rows and running runs, a reaper at leases only).
LeaseInv == TypeOK /\ ThreadExclusive /\ LeasesAgree

\* An event log has strictly increasing positive seqs, and a run is terminal
\* exactly when its log ends in its only terminal event: finish, commit and
\* reap never append after one another's terminal event.
LogsWellFormed ==
  \A r \in Runs : Exists(r) =>
    LET log == runs[r].events IN
      /\ \A i \in DOMAIN log :
           log[i].seq > (IF i = 1 THEN 0 ELSE log[i - 1].seq)
      /\ \A i \in DOMAIN log : log[i].terminal <=> Terminal(r) /\ i = Len(log)
      /\ Terminal(r) => log # <<>>

\* A checkpoint is never seen without the event it was committed with, and it
\* belongs to a run of that very thread (commit_run is all or nothing).
CheckpointsBacked ==
  \A t \in Threads : checkpoints[t] # None =>
    LET r == checkpoints[t].run IN
      /\ Exists(r)
      /\ runs[r].thread = t
      /\ checkpoints[t].seq # 0 =>
           \E i \in DOMAIN runs[r].events : runs[r].events[i].seq = checkpoints[t].seq

\* Log and checkpoints together: how a log may grow, and what a checkpoint saved
\* with it points to.
LogInv == LogsWellFormed /\ CheckpointsBacked

\* One (scope, key) pair starts one run, whatever run ids the retries carry.
KeysUnique ==
  \A q, r \in Runs :
    /\ Exists(q) /\ Exists(r) /\ runs[q].key # None
    /\ runs[q].key = runs[r].key /\ runs[q].scope = runs[r].scope
    => q = r

\* The entries of a scope are numbered 1, 2, ..., entrySeq without gap or
\* repetition, although several runs, starts and retries write them.
EntriesDense ==
  \A sc \in Scopes :
    LET written == {k \in EntryKeys : entries[sc][k] # None} IN
      /\ {entries[sc][k].seq : k \in written} = 1..entrySeq[sc]
      /\ Cardinality(written) = entrySeq[sc]

-----------------------------------------------------------------------------
(* What a step may never do.                                               *)

\* Once terminal, a run keeps its status and its log for ever.
TerminalFrozen ==
  [][\A r \in Runs : Terminal(r) =>
       /\ runs'[r].status = runs[r].status
       /\ runs'[r].events = runs[r].events
       /\ runs'[r].lease = runs[r].lease]_vars

\* The fence: a checkpoint only changes by its thread's one running run, while
\* that run's lease, if it has one, is live.
CheckpointFenced ==
  [][\A t \in Threads : checkpoints'[t] # checkpoints[t] =>
       LET r == checkpoints'[t].run IN
         /\ Running(r) /\ runs[r].thread = t
         /\ RunningOthers(t, r) = {}
         /\ Leased(r) => ~Lapsed(runs[r].lease)]_vars

\* The fence for everything else a worker writes: once its lease has lapsed a
\* run only changes by being released or reaped; events, effects and items of
\* the old owner no longer get in, and the lease is not revived.
LapsedFenced ==
  [][\A r \in Runs : Stale(r) =>
       /\ effects'[r] = effects[r] /\ items'[r] = items[r]
       /\ runs'[r].lease \in {runs[r].lease, None}
       /\ runs'[r].events # runs[r].events =>
            runs'[r].status = "error" /\ Len(runs'[r].events) = Len(runs[r].events) + 1]_vars

\* A live lease cannot be taken over: while it lasts nobody else starts on the
\* thread, and only its own run's terminal commit or release takes it away.
LiveLeaseKept ==
  [][\A t \in Threads : threadLease[t] # None /\ ~Lapsed(threadLease[t]) =>
       \/ threadLease'[t] # None /\ threadLease'[t].run = threadLease[t].run
                                 /\ threadLease'[t].id = threadLease[t].id
       \/ threadLease'[t] = None /\ runs'[threadLease[t].run].lease = None]_vars

\* A done effect keeps its result; one whose outcome is unknown is never
\* started again before a commit has settled it.
EffectsSettle ==
  [][\A r \in Runs, k \in EffectKeys : effects[r][k] # None =>
       /\ effects'[r][k] # None
       /\ effects'[r][k].request = effects[r][k].request
       /\ effects[r][k].status = "done" => effects'[r][k] = effects[r][k]
       /\ effects[r][k].status = "unknown" => effects'[r][k].status # "started"]_vars

\* A written item or entry is never rewritten, renumbered or removed.
WritesPermanent ==
  [][/\ \A r \in Runs, k \in ItemKeys : items[r][k] # None => items'[r][k] = items[r][k]
     /\ \A sc \in Scopes, k \in EntryKeys :
          entries[sc][k] # None => entries'[sc][k] = entries[sc][k]]_vars

-----------------------------------------------------------------------------
(* What the store promises, without leases and clocks.                     *)

Tenure == [thread : Threads, seq : Nat, open : BOOLEAN]

ASSUME TenureAssumption == None \notin Tenure

TenureOf(r) ==
  IF runs[r] = None THEN None
  ELSE [thread |-> runs[r].thread, seq |-> LastSeq(r), open |-> runs[r].status = "running"]

Fence == INSTANCE ThreadFence WITH
  InOrder <- TRUE,
  tenure <- [r \in Runs |-> TenureOf(r)],
  note <- checkpoints

\* Whatever leases expire, are renewed, released, reaped and claimed again, the
\* store keeps the fence of every thread: one open run at a time, which alone
\* extends its log and saves the thread's checkpoint together with it.
ImplementsFence == Fence!Spec
=============================================================================
