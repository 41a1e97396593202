# typemach in TLA+

typemach runs typed state machines ("agents"): a machine is a set of steps, a
run executes them one after the other, and a checkpoint per *thread* lets a
later run, or the same run after a crash, go on where the last one stopped.
This directory models the parts of the crate in which concurrency, failure and
ordering decide whether that works: the three run stores with their leases, the
runner, the run lifecycle, the runtime that couples them, and the agent machine
whose transcript has to survive all of it.

| files | what they are |
|---|---|
| `RunStore`, `PgStore`, `SqliteStore`, `TxRuntime`, `Lifecycle`, `Runner`, `Agent` | one specification per component |
| `ThreadFence` | the abstract specification every store implements |
| `MC<Component>`, `*.cfg` | small instances for TLC |
| `RunStoreProofs`, `PgStoreProofs`, `SqliteStoreProofs`, `TxRuntimeProofs`, `LifecycleProofs`, `RunnerProofs`, `AgentProofs` | proofs for TLAPS |
| `LeaseTables` | lemmas the two SQL stores share |

`PROJECT.json` lists components, runs, mutants, hazards, theorems and, for every
definition, the lines of the source it stands for.

    tlc -config PgRaces.cfg MCPgStore
    tlapm PgStoreProofs.tla

## 1. Inventory

| part (`src/`) | state it keeps | operations | talks to |
|---|---|---|---|
| `machine.rs` | none: a trait | `transition`, `new_state`, `apply_resume_input`, `resume_action` | called by the runner |
| `runner.rs`, `run.rs` | `active_runs`, `cancelled_runs`, `thread_locks`; per run a `RunCancel` (flag + `Notify`) | `invoke`, `stream`, `cancel_run` | the machine; a `CheckpointSaver`; a bounded event channel |
| `checkpoint.rs` | one record per thread | `load`, `save` | called by the runner |
| `registry.rs` | the runs an instance owns: seq counter, live senders, handle | `try_insert`, `remove`, `next_seq`, `rewind_seq`, `subscribe`, `publish` | called by the lifecycle |
| `lifecycle.rs` | per-run event locks | `start_run`, `append`, `finish`, `finish_detached`, `commit`, `request_cancel`, `subscribe` | registry, store |
| `runtime.rs` | bridge task of each run | `stream`, `invoke`, `cancel`, `subscribe` | runner, lifecycle |
| `runtime/tx.rs`, `runtime/tx/op.rs` | `TxSaver` (queues of records), lease renewer, operation buffer, held final step | the same, plus `reap` | runner, lifecycle, store |
| `store.rs`, `op.rs`, `store/memory*` | runs, run leases, thread leases, events, checkpoints, idempotency keys, effects, items, entries, behind one mutex | `start_run`, `commit_run`, `finish_run`, `record_event`, `renew`, `release`, `reap_stale`, effects | called by all of the above |
| `sqlite*` | the same in the tables of one file; a thread per connection | the same, each in a `BEGIN IMMEDIATE` transaction; `reap_stale` in two | the wall clock, other connections and processes |
| `pg*` | the same in tables; a connection pool | the same, each as a sequence of statements under READ COMMITTED | row locks, unique indexes, the session row, the deadlock detector |
| `typemach-agent/src/lib.rs` | `AgentState`: transcript, pending tool uses, pending question, budgets | `model_step`, `dispatch_tools`, questions and answers, repair of dangling tool uses | a machine of the runner; a model; a tool registry |
| `typemach-agent/src/context.rs` | none | `prompt_window`, `build_compacted_window`, `maybe_archive_tool_result` | called by the agent |
| `typemach-agent/src/deepseek*.rs`, `sandbox.rs` | a connection, a child process | decode a provider's stream; start a sandbox | network, operating system |
| `testkit*` | | conformance tests of a store | every store |

How they interact: `TxRuntime::stream` starts the run in store and registry,
spawns a lease renewer, a runner task and a bridge task. The runner pushes
events into a bounded raw channel and checkpoints into `TxSaver`; the bridge
takes each event, pairs a finished step with its checkpoint, commits both with
the operations the step pushed, and only then forwards the event to the
consumer's channel. Several processes share the store; each reaps the runs
whose lease has lapsed.

What is hard, and what would make each part correct:

* **store** - leases expire between any two calls, clients retry starts,
  commits and effects. Correct if a thread has one running run, a lapsed owner
  writes nothing, a live owner keeps its thread, logs end once, retries change
  nothing.
* **SQLite store** - calls do not interleave, but time is a wall clock that may
  be set back, a start reads it before it waits for the write lock, and the
  reaper lists in one transaction what it ends in another. Correct if it is
  still the same fence, and if the reaper neither ends a run that has been
  renewed nor leaves a lapsed one for ever.
* **Postgres store** - no call is atomic against another before its commit:
  calls meet at row locks, unique indexes and the session row, `now()` is as old
  as the transaction, a lookup uses another connection than the transaction.
  Correct if it is still the same fence, if numbering stays dense, an effect is
  handed out once, and nobody waits for ever.
* **TxRuntime** - two tasks, two queues, a renewer and a consumer, each of
  which may stop at any point, and a next run that starts on the thread before
  the tasks of the last have ended. Correct if nothing is shown that is not
  stored, no checkpoint is lost or overwritten by a stale one, everything ends.
* **lifecycle** - store, registry and lock map are three pieces of state that
  are read and changed one after the other across awaits. Correct if operations
  on a run exclude each other, followers get the log exactly, slots are given
  back.
* **runner** - three maps behind three mutexes and a flag with a notification.
  Correct if a cancellation is never lost and threads are served one at a time.
* **agent** - runs fail between any two steps, answers come late or to the wrong
  question, and the transcript is compacted in between. Correct if every prompt
  pairs tool uses with results, the way providers demand, an answer reaches its
  question, and a lost dispatch does not silently call a tool again.

`PROJECT.json`, "hazards", lists the places in the code where these bite.

## 2. Plan

Done, in this order: (1) `RunStore` and its first proofs, because everything
else relies on it; (2) `TxRuntime`; (3) `Lifecycle`; (4) `Runner`; (5)
`ThreadFence`, what a store promises, and `RunStore` shown to implement it; (6)
`SqliteStore` and (7) `PgStore` against the same promise; (8) `Agent` with its
prompt window; (9) proofs about the stores, the runner, the lifecycle, the
runtime and the agent: every safety property the runs check, the absence of
rings of waiting calls among them; only liveness is left to TLC.

Left:

* `Runtime`, the bridge without leases: what it calls is in `Lifecycle`, what it
  shares with `TxRuntime` is there.
* The composition of `PgStore` with `Lifecycle`. `PgStore` may lose an answer
  after COMMIT, and in `commit_with` that leaves the seq counter behind the log.

No module meant for proofs declares a RECURSIVE operator; constants carry named
assumptions in the module that declares them.

## 3. The modules

### ThreadFence

What the runtime needs of a store, without leases, clocks, transactions or
locks. A thread has at most one open run (`Admit`); only the open run extends
its log and saves the thread's checkpoint, in one step (`Extend`); a reaper
closes open runs with one more event each (`Expire`); a closed run is never
written again. `InOrder` says whether the reaper's event always comes last: it
does in two stores, and need not in the third. Three stores map their tables to its two variables: `tenure`,
where a run is and what its last event was, and `note`, the checkpoint and the
event it was saved with.

### RunStore (`store/memory*`, `store.rs`, `op.rs`)

Each operation of `MemoryRunStore` holds one mutex from first read to last
write, so each is one action: `StartRun`, `CommitRun`, `FinishRun`,
`RecordEvent`, `MarkCancelled`, `Renew`, `Release`, `ReapStale`,
`ReserveEffect`, `StartEffect`, and `Tick` for `Instant::now()`. A call the
code answers with an error, `Existing` or `Skipped` changes nothing and is no
step. Rows are records; a scope stands for the pair (scope, session); the JSON
of a checkpoint is reduced to the seq of the event it was committed with, so
that "which write is this" can be asked. Effects are asked for with a request
(`Requests`); results and bodies are `Payloads`.

### SqliteStore (`sqlite*`)

Every call is one `BEGIN IMMEDIATE` transaction and so one action, but a call is
made (`Call`) before it is performed: a start takes its reading of the clock
with it, since `start_run` computes `now` before the connection's thread gets
the write lock. `reap_stale` is two actions, `List`, which also builds the
events, and `ReapStale`, which looks again and fails as a whole if one listed
run has written meanwhile. `SetClock` moves the wall clock in both directions;
`Fail` and `ReaperFails` are SQLITE_BUSY, I/O errors and dying processes.

### PgStore (`pg*`)

A call is the sequence of its SQL statements. The variables are the committed
tables; `tx` says where each client is: its statement (`pc`), when its
transaction began, the rows it has locked, the entry number it read, the
reaper's snapshot. Writes appear when the transaction commits. What other
transactions can see of an uncommitted one is modelled where it matters:
`RowFree` (row locks), `IndexFree` (an INSERT waits for a conflicting row in
flight), `SessionFree` and `SessionOpen` (FOR UPDATE and FOR KEY SHARE on the
session row), `FreeConnection` (the pool). `DeadlockAbort` is the detector,
`Abort` a broken connection, `LockForReap` is FOR UPDATE SKIP LOCKED with the
re-check of a row that has changed since the snapshot.

The events of a run are its last seq and the numbers below it that no event has
(`gaps`): a commit may leave numbers out. The reaper numbers its event by its
snapshot, which may be older than the row it then locks. The only thing that
refuses it is the primary key (run_id, seq): `SeqTaken` is that there is an event
with this number. If a commit has used a higher one, the reaper's event goes
below it (`WithEvent`), and the run is over with a last event that is not the
terminal one.

### TxRuntime (`runtime/tx*`, with the parts of runner, lifecycle and registry it drives)

One checkpoint thread, several runs and instances. For each run a runner task
(`rpc`: open, lock, load, step, transition, save, finish, terminal) and a bridge
task (`bpc`: receive, select, take, commit, send, the final commit, the error
and cancel paths, clear), the raw channel between them (capacity `Room`), the
saver queue of the instance, the operation buffer, the held final step, and a
consumer that may leave. The store is reduced to what commits depend on; that a
thread has at most one running run and that the two copies of a lease agree is
what `RunStoreProofs` proves of `RunStore`, and is used here as a fact.

Time is a lease that is live, then lapsed: a successful renewal changes nothing,
a missed one is `Lapse`. `select!` picks any ready branch. `Faults` says which
failures an instance of the model allows: a lapsing lease, a dropped consumer, a
cancellation, a failing transition, a crash, a refused restore; `Exposed` says
which runs they may strike. Signals take the
path of heartbeats and are not modelled apart. The operations a step pushes are
the numbers of the steps that push. `LogGrammar` says of the step events of a
log that each has the rank among them that is its turn: the start of step `n` is
number `2n - 1`, its end number `2n`.

### Lifecycle (`lifecycle.rs`, `registry.rs`)

Tasks of several instances make calls, each a sequence of the steps between its
awaits: for `append`, `finish` and `commit` they are taking the lock from the
map, locking it, writing to the store, publishing event by event, leaving the
registry and unlocking, and dropping the lock from the map. A lock has an
identity, because the map may hold a new one while a task still has the old
one; `References` is `Arc::strong_count`. The reference a call holds is dropped
with its check of the count, which makes removals a little more frequent than
in the code, where the last of two simultaneous callers may see the other's
reference still there. `subscribe` is lookup, attach, list; a client that is
given a page subscribes again at its cursor, possibly at another instance, and
`got` collects everything it has received. `After` is what `list_events` returns
from a cursor on: logs are in seq order, so it is the log without as many events
as have a seq up to the cursor (`Past`). What an operation reads under the
lock before its one write belongs to that write: only holders of the lock use
the counter, and that a run exists or is over never changes back.

### Runner (`runner.rs`, `run.rs`, `checkpoint.rs`)

Invocations (`invoke` or `stream`) of runs on threads, and calls of
`cancel_run`. Registering is three steps, unregistering two, `cancel_run` four,
because they touch `active_runs`, `cancelled_runs` and the control one after the
other. Waiting for a cancellation is arming the `Notified`, looking at the flag,
going to sleep; `notify_waiters` reaches whoever has armed. `RestoreOrStart` is
the decision table of `restore_or_start`: which step an invocation begins with,
given command, record and run. A transition may return anything or hang for
ever; time-outs and machine errors are one outcome, since both return `Err`.

### Agent (`typemach-agent/src/lib.rs`, `context.rs`, `types.rs`)

One thread, its checkpoint and the run on it. `PrepareTurn`, `ModelStep` and the
turns of the loop in `dispatch_tools` (`AskUser`, `ConsumeAnswer`,
`TerminalTool`, `EmitArtifact`, `CallTool`, `DenyTool`, `OutOfToolCalls`,
`ToolsDone`) are the actions; the runner around them saves after a transition
and at an interrupt, so that `Fail` and `FailAfterCall` lose whatever the
transition did. `Start` and `Resume` are `restore_or_start` with `Fresh`,
`repair_dangling_tool_uses` and `apply_resume_input`: a start with the run id of
a checkpoint that was not interrupted goes on at the step saved there, any other
at `PrepareTurn`, and a resume may come without an answer (`skipped` remembers
the questions it went on from). A message is who wrote it,
which tool uses it contains, which use it answers and how large it is. The model
may answer anything: any tool uses with text or without, truncated or final.
`PromptWindow`, `Omitted` and `KeepCount` say which messages
`prompt_window` leaves out by what its loops end with, and `Repaired` appends
a result for each use without one, in their order.

## 4. What the runs check

Every run is exhaustive for its instance.

| run | instance | shows |
|---|---|---|
| store_leases | 2 runs, 2 threads, 1 key, 1 worker, 2 leases, clock to 2, batches of 2, no operations | `LeaseInv`: one running run a thread, both copies of a lease the same; `LogInv`: logs grow, end once and back the checkpoints; `KeysUnique`; the fences `LapsedFenced` and `LiveLeaseKept`; `ImplementsFence` |
| store_rest | 2 runs in one scope, 1 effect, 1 item, 2 entries, 2 bodies, batches of 2, no leases | `EntriesDense`, `EffectsSettle`, `WritesPermanent`, under batches repeated in part and keys written again with another body |
| pg_races | 3 clients with 4 calls out of 15 on 2 connections, 2 runs, 2 threads, 1 key, 2 leases, 2 entries, clock to 3 | `LeaseInv`; `OpsInv`: dense numbers, an effect handed out once, a key that starts one run; `ChecksHold`: what a call found is still so as it commits; `OnlyPoolStalls`: some call can go on, by what each waits for (`Ready`), unless starts that lost a race have starved the pool; `EndsLog`: where the event that ends a run stands; `ImplementsFence` |
| sqlite_upkeep | 2 connections with 4 calls out of 14 and a reaper of one run at a time, 2 runs, 2 threads, 1 key, the clock between 0 and 3 in both directions, fair | `LeaseInv`; `ReapedLapsed`: the reaper ends only what is lapsed as it ends it; `LapsedReaped`; `ImplementsFence` |
| tx_one_run | 1 run of 2 steps and a heartbeat, every fault, fair | `LogInv` (types and `LogGrammar`), `ToldConsistent`, `OpsCommitted`; `RunsEnd`, `TasksEnd` |
| tx_handover | 2 runs, 2 instances, lapses and crashes | `CommitBeforeForward`, `CheckpointCoversLog`, `NoLostUpdate` |
| tx_stop_requests | 2 runs on a thread with hanging transitions; one of them is cancelled, loses its lease or its consumer | `StopRequestsWork` |
| life_follow | 2 instances, 2 runs, one with a lease, 3 tasks with 4 calls: starts, appends, commits, final commits, detached finishes and subscriptions, lapse, reaper | `EventLockInv` (types and `EventLockExclusive`), `TailsFaithful`, `SeqAhead` |
| life_calls | 2 instances of one slot, 2 runs with one key, 2 tasks with 4 calls, fair | `CallsReturn`, `SlotsFreed` |
| runner_streams | 2 streams of 2 runs, or of one, on a thread, 1 canceller, hanging transitions, fair | `MarkerInv`, `Continues`; `CancelEnds` |
| agent_runs | 3 runs on a thread, resumed with or without an answer, 3 tool uses of 4 tools, at most 2 in a turn, budgets of 2, a prompt that compacts at 4 messages | `PromptPaired`, `AnswerHeard`, `CallsRepeatOnlyAfterResume` |

Bounds. The bounds (`MaxSeq`, `MaxBatch`, `MaxWrites`, `MaxClock` in `RunStore`;
`MaxClock`, `MaxCalls` of all clients in the SQL stores; `MaxBeats`, `MaxSteps` and `Room` in
`TxRuntime`; `MaxCalls` of all tasks in `Lifecycle`; `LastStep`, `MaxSteps` in `Runner`;
`MaxUses`, `MaxPerTurn`, `MaxRuns` in `Agent`) are the smallest at which the
interesting case happens: two runs meet on one thread and the first is over,
lapsed or crashed while its tasks still work; a lease has time to lapse, to be
renewed and to be reaped; a log has an event, a second one and a terminal one;
a follower gets a page, another page and a tail; a marker can be set before,
between and after the two looks of a registration, with a second invocation of
the run in the way. With four calls, a store sees a start, what its owner does,
a rival start and a reaper, in every order; a client may be in the middle of one
call during all of another. Three runs of an agent are an interrupted one, a
failed resume and the one that shows what was left. Two of each actor reach all
of these; a third only queues behind the second, except for the event lock and
the pool, where the third party is what makes the race, and there are three.
Three clients on two connections is the least with which a pool runs dry, and
`ReapLimit = 1` with two runs the least at which the limit of a reaper binds.
`MaxWrites = 2` is a batch that repeats one write and adds another. In
`tx_stop_requests` the faults strike one run (`Exposed`), and the other is before
it on the thread or behind it, waiting for the thread lock. `life_follow` spends
its four calls in every way on two instances; a client that gets a page and then
a tail while a peer ends the run would need a fifth, and that case is left to the
theorem. `runner_streams` has streams only:
an `invoke` differs in that it does not listen while it waits for the thread.
Every property of every run has a mutant in `PROJECT.json`: a plausible bug in
the code under which the same instance finds a counterexample.

Symmetry is used in safety runs only, over sets whose members are exchangeable.
The final states of a finite instance are self-loops named as such, or deadlock
is not checked: in `pg_races` and `agent_runs` a behaviour may use up its calls
and runs, and `OnlyPoolStalls` says more for the one; in `life_calls` the
liveness property does.

Fairness. `TxRuntime!FairSpec`: tasks are scheduled (weak fairness of the runner
and of the bridge, whose sends complete because a consumer that has not left
reads), the thread lock is tokio's FIFO mutex (strong fairness of taking it), a
lease whose renewer has stopped lapses, the reaper runs. `HangingSpec` takes
away the fairness of transitions. `Lifecycle!FairSpec` and `Runner!FairSpec` are
scheduling and fair mutexes, and in `Runner` the polling of the branches of a
`select!`; nothing is assumed of transitions. `SqliteStore!FairSpec`: a reaper
runs again and again (weak fairness of `List`), and gets to its second
transaction infinitely often if it has listed something infinitely often
(strong fairness of `ReapStale`): it may die or find the file busy in between,
but not every time. Nothing is assumed of clients or the clock.

Refinement. `ImplementsFence` is the same abstract specification in three runs
and three proofs: `ThreadFence` with `tenure` read off the run table and `note`
the checkpoint table.

## 5. Where code and documents part

One run ends in a counterexample; `PROJECT.json`, "findings", quotes the sentence
it contradicts.

| run | what happens |
|---|---|
| tx_leftover_record | A run that fails leaves its record in `TxSaver`; the next run of the thread on that instance takes it for its own, and its commit is refused (`runtime/tx.rs:672`). |

The modules state more such sentences, which TLC refutes as quickly. They have
no run of their own; to see a counterexample, make the definition the only
INVARIANT of the `.cfg` given, without its PROPERTIES.

| definition | in | with | what happens |
|---|---|---|---|
| `CompletedIsStored` | `TxRuntime` | `TxLeftoverRecord.cfg` | The last commit of a reaped run is answered `AlreadyFinished`, and the consumer is told `Completed` although the store says error (`runtime/tx.rs:568`). |
| `SlotReleased` | `TxRuntime` | `TxLeftoverRecord.cfg` | A run whose last commit is refused keeps its slot in the registry (`runtime/tx.rs:701`). |
| `CheckpointMatchesLog` | `TxRuntime` | `TxLeftoverRecord.cfg`, `Faults = {"drop"}`, `Room = 2`, `MaxSteps = 2` | `clear` at the end of a cancelled run comes after the commit that freed the thread and removes the next run's record; from then on events are committed with the record of the following step (`runtime/tx.rs:669`). |
| `RemoteSubscribeFails` | `Lifecycle` | `LifeCalls.cfg`, `Kinds = {"start", "subscribe"}` | While a losing start waits for the store, a subscription at that peer is answered `Active` (`lifecycle.rs:603`). |
| `NotOwnerIsElsewhere` | `Lifecycle` | `LifeCalls.cfg`, `Kinds = {"start", "commitFinish", "subscribe"}`, `Instances = {i1}` | A subscription that races with the end of a run is told by its owner that another worker owns it (`lifecycle.rs:625`). |
| `MarkerCleared` | `Runner` | `RunnerStreams.cfg` | A `cancel_run` after the run has left leaves its marker for ever (`runner.rs:85`); `TxRuntime::cancel` of a finished run always does. |

Four properties carry an exception in their statement. Each exception is
something the code does, and occurs in the run that checks the property; without
it TLC refutes the property at once.

| property | the exception |
|---|---|
| `PromptPaired` (agent_runs) | `skipped`: a `Resume` without `human_input` goes on to the model over the open question (`lib.rs:286`), although the comment at `lib.rs:586` says that providers reject "tool calls whose results never arrived", and only a start closes them. |
| `OnlyPoolStalls` (pg_races) | `PoolStarved`: two starts that lost a race to a third each keep their connection and ask the pool of two for another; `pool.get()` has no time-out (`pg.rs:455`). |
| `EndsLog` (pg_races) | A reaper's snapshot is older than a commit that left a number out; the reaper's terminal event takes that number, below an event that is already there (`pg/lease.rs:133`). The same function refuses a callback's event with "reap requires the next terminal event", and a commit below the last seq is refused with "event seq must increase monotonically". The other two stores keep this order. |
| `TailsFaithful` (life_follow) | `Heard`: whoever has attached to the entry of a start that is going to lose, at a peer of the owner, hears nothing of what the owner publishes, and `OwnLog`: what is appended through such an entry the owner's tails do not hear (`lifecycle.rs:215`). It is the entry of `RemoteSubscribeFails`. |

One more is visible in `PgStore` without a property: a start that meets a unique
violation and finds nobody when it looks again (`LookAgain`: the winner has
ended meanwhile) answers with the database's error rather than `ThreadBusy` (`pg.rs:483`), although
a second try would succeed.

## 6. What is proved

All for any sets of runs, threads, instances, clients, leases, entries and any
bounds. The assumptions are those the modules declare: `NoneAssumption` and
`TenureAssumption` (the absent value is none of the present ones),
`BoundAssumption`, `CallsAssumption` and `ConstantsAssumption` (the types of
constants and bounds; finitely many entry keys in the SQL stores, finitely many
runs and tasks in `Lifecycle`).

**`RunStoreProofs`.** `TypeCorrect`, `LeaseInvariant`, `TerminalRunsFrozen`,
`CheckpointsFenced`, `LapsedRunsFenced`, `KeysStartOneRun`. They rest on
`LeaseInv`: types, one running run a thread, and agreement of the two copies of
a lease. No part is inductive by itself: a start checks the thread's lease and
the thread's running runs, and takes over a thread lease that has lapsed; that
it does not leave a running run with a lease the thread no longer has follows
only because no other run of the thread runs. Operations are grouped by what
they do to leases: those that leave them alone (`LeaseFrame`), `StartRun`, those
that end runs, and those that move the expiry. `KeysUnique` needs that the
idempotency table points every run with a key back to that run, since a start
looks at the table, never at the runs.

`LogsAndCheckpoints` (logs grow and nothing follows the terminal event; a
checkpoint was saved with an event that is in its run's log), `LiveLeasesKept`,
and `StoreImplementsFence`: every operation of the in-memory store is a step of
`ThreadFence` or none. A commit appends a batch of events, so the log invariant
needs that a batch is ordered within itself and above the log; where an
induction over the batch would be needed the proof takes the least offending
index instead.

`EffectsStaySettled`, `WritesStay` and `EntriesNumbered` are about what a commit
writes beside its events. The third, that the entries of a session are numbered
without a gap although writes with the same key count once, is again a question
about a batch: a write that is new has as number how many distinct new keys come
up to it, so that dropping repetitions leaves an interval. The proof counts with
cardinalities of sets of first occurrences, no induction over the batch.

**`LeaseTables`.** The two SQL stores have the same tables and
different interleavings. `LeaseTables` names six kinds of steps of those tables
and proves once that each kind keeps the copies of a lease the same
(`StepAgrees`) and is a step of `ThreadFence` (`StepFence`). What the fence is
for is proved there too and holds of both stores: `ThreadsServeOneRun`, a thread
has one running run at most and its checkpoint is of a run of that thread and of
an event that run's log has; `EndedStayEnded`, a run that has ended keeps its
log, its status and its thread, and a checkpoint changes only together with the
log of the thread's running run. The module also proves that
a finite non-empty set of numbers has a greatest element, through the
well-foundedness of inclusion on finite sets: entry numbers are `Max + 1`.

**`SqliteStoreProofs`.** `TypeCorrect`, `LeaseInvariant`, `ReapsOnlyLapsed`,
`StoreImplementsFence`. Nothing is assumed of the clock: that it may be set back
and that a start brings an old reading matter to who may write, not to whether
the tables agree.

**`PgStoreProofs`.** `TypeCorrect`, `LeaseInvariant`, `OperationsInvariant`,
`StoreImplementsFence`. A commit writes what was true when its row was locked,
so the proofs need `TxInv`, what a transaction may still rely on: `Fits`, that
what it found as it locked a row is still so (the run of a commit runs and its
last event is below the commit's, the lease to renew is held, no reaped run has
ended) and that a row it has inserted keeps the run and the thread free for it;
and `Apart`, that no two transactions hold one row or insert one run or thread.
The session row plays the same part for entry numbers, and a run's row for
effects: whoever has been told to perform one moved it out of the states in which
another could be told.

`ChecksStillHold` is what all of this is for. A call of this store looks at one
statement and writes at a later one, while others commit: `ChecksHold` says of
every call that is about to commit that its conditions would be answered the
same way now. `TxInv` knows it of the runs a call has locked. `FoundInv` adds the
rest: a start that has inserted its row still has its thread and its key to
itself (`KeysApart`: no two transactions in flight insert one key), an operation
on entries that holds the session row knows the last number, an effect and a
renewal know the lease of the row they have locked. A lock says that nobody else
changes the row; that the *thread's* row, which most calls do not lock, cannot
have turned against them follows from the agreement of the two tables
(`LeaseInv`), so the one cannot be proved without the other. `KeysUnique` falls
out of it, and with it the whole of `OpsInv`.

`StoreImplementsFence` is the fence without `InOrder`, since a reaper's event may
go below the last of the log. `LogsEnd` (`EndsLog`) says how far that goes: only
where a reaper ends a lapsed run, only into a number that a commit left out, and
never in the place of an event. What the reaper read in its snapshot is worth
nothing by the time it writes; the key of the event table is all there is.

`OnlyThePoolStarves` is about waiting. `Ready` is, statement by statement, what a
call waits for. A transaction that holds a row is numbering entries or about to
commit, one that has the session row for itself is about to commit, and a commit
waits for nothing, so a chain of waiting calls ends after two links: at one that
can go on, at the pair of entries writers the deadlock detector breaks up, or at
the pool. For any number of clients and connections, the one way to get stuck is
section 5's, that every connection is kept by a start that lost a race and asks
for another to look again. Nothing in the code excludes that one.

**`RunnerProofs`.** `TypeCorrect`, `CancellationsHeard` (`MarkerInv`: from the
moment `cancel_run` has left its marker, the registered invocation either has
its flag set or will see the marker in what it still has to do), `StepsContinue`.

**`LifecycleProofs`.** `EventLocksExclude`: two operations on one run are never
between lock and unlock at the same time, although the lock map forgets locks
and makes new ones. The invariant is that the lock a task waits for or holds is
still the one in the map: whoever removes it has counted the references to it
and found no other.

`LocksComeBack` is the safety half of `CallsReturn`: a caller that waits at
`lock()` waits for a free lock or for another caller's operation on the same run,
which is past `lock()` and waits for no lock. It needs that two runs of an
instance never have one lock (`LocksApart`: a new one is nobody's) and that a
lock that is held is held by a task still inside (`HeldInside`), which is to say
that every path out of an operation, also those of its failures, drops the guard.

`TypesHold` rests on `TypeInv`: which operation is at which place and what it has
there (`Shape`), that senders belong to subscribers, that the log of a run that
is over has an event to answer with.

`CounterAhead` is `SeqAhead`: a failed operation may leave the counter of a
running run ahead of its log or wind it back, but never behind. A counter can be
behind only if somebody else writes to the log, so the proof follows who may:
`StoreInv` says who owns a run, that a lease goes with the end, and that an
operation that tells its registry "over" is right; `SlotInv` that a start under
way has the only entry for its run there, that the owner of a running run has an
entry for it, and that no start there is about to take it away. The property is
about logs that their owner wrote (`OwnLog`: a terminal event may be the reaper's
or a peer's). That is no assumption on instances or leases but on the log itself,
and the code breaks it in one way, which TLC shows: a peer whose start is going to
lose holds an entry too, and an `append` at that peer goes through it to a run
that nobody's lease protects. From then on the owner's counter is behind.

`FollowersGetTheLog` is `TailsFaithful`. The event a client misses is one that
is neither in the page it listed, nor in its buffer, nor still to be published,
so the invariant accounts for every event at all times. `LogInv`: logs ascend,
and a terminal event is the last event of a run that is over. `Pending`: what an
operation has in hand between the store and the registry is what the log ends
with (or ended with before the reaper added its event), and as long as an event
before the last is among it nobody takes the run's entry away. `Senders` and
`Looking`: who listens, and from which place in `subscribe`. `Follows`: the
buffer of whoever listens is a window of the log; there is no gap between it and
what the client has got; the event after it is the next an operation will
publish; if none has any in hand the window reaches the end of the log, but for
the reaper's event. `Got`: what the client was given is the log from where it
began up to its cursor. An event that was listed and is published too is dropped
by its seq, which the proof counts with `UpTo`, the number of events of a log up to a
seq. All this is said of an instance all events but the last come from (`Ours`,
the owner of a run whose log is `OwnLog`), for any number of instances: the last
may be the reaper's, or that of a `finish_detached` at a peer, which publishes one
terminal event and that is the log's last (`Detachers`). What a client has got is
followed through every kind of subscription (`Got`), since it may get pages at a
peer and then a tail at the owner. `Heard` says for whom it is right: for whoever
reads pages, and for whoever has the tail of the owner's entry. It cannot be said
of the others, and TLC shows why: a client attaches, through the entry of a start
that is going to lose, at a peer of the owner; the owner finishes the run with two
events; a finish at the peer is answered with the terminal event of the run and
publishes that one alone, and the client is given the last event without the one
before it. It is the entry of a losing start again (section 5).

**`TxRuntimeProofs`.** Seven theorems, every safety property of the runtime, each
with the part of the invariant it needs. `TaskInv` (`TypeCorrect`) ties what a
task has in hand to where it is. `NothingForwardedUncommitted`: `ForwardInv`
says that the progress a consumer has seen is, rank by rank, the progress in the
log, all of it before the bridge commits and all but the event in hand between
commit and send. `ToldWhatIsStored`: until its bridge has done its last commit
only the reaper can end a run. `RestartRepeatsNothing` and `CheckpointsNotLost`
are about records on their way from a runner through the saver to the store:
`RecordInv` says that of the records of one run the stored one is the oldest,
the one its bridge holds comes next, and those of the queue follow in order, and
that all of them are behind what the runner saves next; `BaseInv`, that a run
that may still store something finds the checkpoint it began with, or its own;
`CoversInv`, that the stored one covers the finished steps of the log. It is
here that two runs meet: the first may be over while its tasks still work.
`LogsWellFormed`: `FlowInv` says that what the bridge has in hand and what is in
the channel continue the log in turn, up to what the runner has just sent;
`EndInv`, what the last two events of a log are. `OperationsCommittedOnce`: the
operations committed and those that wait are disjoint, and together are exactly
those of the steps up to the final step that is on its way.

**`AgentProofs`.** Four theorems, every safety property of the agent, over what
each step does to a state, which is worked out once (`TurnDoes`,
`ModelStepDoes`, `StartDoes`, `ResumeDoes`). `TypeCorrect` needs that the state
in the checkpoint keeps the budgets too. `CallsNotRepeated`: `CallsInv` says
that no use stands in the queue twice, nor in it and as the open question, and
that a use in the queue of a run has not been called unless a checkpoint it was
pending in has been resumed. `AnswersHeard`: `AnswerInv` says that until the
answer is a result of the transcript the answered question is next in the queue
and the answer at hand.

`PromptsPaired` is about whole transcripts. `TranscriptInv`: no use is asked for
twice, a result is the only one of its use and stands among the results right
behind its message (`InOrder`), and a use without a result is one that is still to
be done, of the queue in `dispatch_tools`, of the open question and the queue in a
checkpoint that can be resumed, nothing before a request (`Owes`), with nothing but
results behind its message as yet (`Due`). So the synthetic results a repair adds
at the end fall where they belong (`RepairSettles`). A window starts at the front
or at a message that is no result, so it cuts no message off from its results
(`WindowPaired`). The model states `Repaired` without recursion, by counting the
uses without a result off in the order of their places; that such a count reaches
every number up to their cardinality is `RankExists`. A resume without an answer
leaves the question open, and the model is asked again all the same. Every part of
the invariant therefore excepts the questions in `skipped`: they may have no
result, or have it wherever the transcript ended at the next repair, and the proof
shows that no other use is drawn into that (section 5).

Only model-checked: liveness (`CallsReturn`, `SlotsFreed`, `CancelEnds`,
`RunsEnd`, `TasksEnd`, `StopRequestsWork`, `LapsedReaped`), which is out of the
prover's reach. For the first of them `LocksComeBack` leaves to fairness only that
whoever can go on does.

## 7. What is not modelled

* `Runtime` without a transactional store (see the plan).
* In the SQL stores: items, the read-only listings, the creation and migration
  of the schema, more than one session, more than one effect a run or entry a
  write; `RunStore` has the items and the batches.
* The DeepSeek client and the sandbox: a parser of network input and a child
  process. The agent's model is any model.
* The store conformance kit, which is test code, and the example.
* Text, JSON, artifacts, usage and logging; `MemorySaver` beyond one record per
  thread; calls the lifecycle rejects as malformed; what a custom
  `resume_action` jumps to; more than one thread in `TxRuntime`; a lost
  acknowledgement together with the lifecycle that waits for it.
