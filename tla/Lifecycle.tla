----------------------------- MODULE Lifecycle -----------------------------
(***************************************************************************)
(* RunLifecycle: the operations by which the tasks of several instances    *)
(* start, append to, finish, commit to and follow runs, each at the grain  *)
(* of its await points.                                                    *)
(*                                                                         *)
(* An instance has a RunRegistry (seq counter and live senders of the runs *)
(* it owns) and a map of per-run event locks.  A lock is an Arc<Mutex>:    *)
(* it has an identity, is created on demand and is removed from the map    *)
(* once the run is over and nobody else refers to it.  The store is shared *)
(* and answers atomically; the reaper ends leased runs behind everybody's  *)
(* back.  What an operation reads under the event lock before its one write *)
(* (does the run exist, its terminal event, its registry counter) is part  *)
(* of that write: only holders of the lock use the counter, and a run that *)
(* exists or is over stays so.                                             *)
(***************************************************************************)
EXTENDS Integers, Sequences, FiniteSets, SequencesExt

CONSTANTS
  Runs,
  Instances,
  Tasks,         \* concurrent callers
  Capacity,      \* max_in_flight
  ReplayLimit,   \* REPLAY_LIMIT
  Leased,        \* the runs that are started with a lease
  SameKey,       \* TRUE: every run carries the same client_run_key
  None

CONSTANTS        \* bounds of the model
  Kinds,         \* the operations callers use, a subset of AllKinds
  MaxCalls       \* most calls of all tasks together

AllKinds == {"start", "append", "finish", "detach", "commit", "commitFinish",
             "subscribe", "cancel"}
Call     == [kind : AllKinds, at : Instances, run : Runs]
\* Enough for a fresh one whenever a lock is created.
LockIds  == 0..(Cardinality(Tasks) + Cardinality(Runs))

ASSUME ConstantsAssumption ==
  /\ IsFiniteSet(Runs) /\ IsFiniteSet(Tasks)
  /\ Leased \subseteq Runs /\ Kinds \subseteq AllKinds /\ SameKey \in BOOLEAN
  /\ Capacity \in Nat /\ ReplayLimit \in Nat \ {0}
  /\ MaxCalls \in Nat
  /\ None \notin Runs \cup Instances \cup Tasks \cup LockIds \cup Call

VARIABLES
  \* the store
  status,   \* run -> "absent", "running" or "over"
  lease,    \* run -> "none", "live" or "lapsed"
  log,      \* run -> its events, in seq order
  marked,   \* run -> cancel_requested
  owner,    \* run -> the instance that created it (the lease's owner), or None
  \* the registry and the lock map of an instance
  registry, \* instance -> run -> entry, or None
  lockMap,  \* instance -> run -> lock id, or None
  holder,   \* instance -> lock id -> the task that holds it, or None
  \* the tasks
  pc,
  call,     \* the operation a task executes, or None
  lockRef,  \* the lock a task refers to, or None
  answer,   \* what the store answered it, or None
  calls,    \* how many calls all of them have made
  sub       \* what it subscribed to, or None

storeVars == <<status, lease, log, marked, owner>>
taskVars  == <<pc, call, lockRef, answer, calls>>
vars == <<storeVars, registry, lockMap, holder, taskVars, sub>>

-----------------------------------------------------------------------------
\* by: the instance whose operation wrote the event, or None for the reaper.
Event == [seq : Nat, terminal : BOOLEAN, by : Instances \cup {None}]
Entry == [seq : Nat, published : BOOLEAN, cancelled : BOOLEAN, senders : SUBSET Tasks]

\* What an operation made of its call, and the events it has yet to publish.
Answers == [kind : {"recorded", "finished", "skipped", "error", "gone", "kept", "listed"},
            events : Seq(Event)]

\* What a client has got, over one subscription or several: start is the cursor
\* it began with and cursor the one it has reached; state is the last answer.
Subscription == [at : Instances, run : Runs, start : Nat, cursor : Nat,
                 state : {"attaching", "listing", "Active", "Replay", "Inactive", "NotOwner"},
                 buffer : Seq(Event), got : Seq(Event)]

ASSUME NoneAssumption == None \notin Entry \cup Answers \cup Subscription

Over(r)    == status[r] = "over"
LastSeq(r) == IF log[r] = <<>> THEN 0 ELSE Last(log[r]).seq
Reg(t)     == registry[call[t].at][call[t].run]
Is(t, kinds) == call[t].kind \in kinds

Init ==
  /\ status = [r \in Runs |-> "absent"]
  /\ lease = [r \in Runs |-> "none"]
  /\ log = [r \in Runs |-> <<>>]
  /\ marked = [r \in Runs |-> FALSE]
  /\ owner = [r \in Runs |-> None]
  /\ registry = [i \in Instances |-> [r \in Runs |-> None]]
  /\ lockMap = [i \in Instances |-> [r \in Runs |-> None]]
  /\ holder = [i \in Instances |-> [l \in LockIds |-> None]]
  /\ pc = [t \in Tasks |-> "idle"]
  /\ call = [t \in Tasks |-> None]
  /\ lockRef = [t \in Tasks |-> None]
  /\ answer = [t \in Tasks |-> None]
  /\ calls = 0
  /\ sub = [t \in Tasks |-> None]

Goto(t, label) == pc' = [pc EXCEPT ![t] = label]

\* The call returns; its references are dropped.
Returns(t) ==
  /\ Goto(t, "idle")
  /\ call' = [call EXCEPT ![t] = None]
  /\ lockRef' = [lockRef EXCEPT ![t] = None]
  /\ answer' = [answer EXCEPT ![t] = None]
  /\ UNCHANGED calls

FirstStep(kind) == CASE kind = "start" -> "lookup"
                     [] kind = "subscribe" -> "look"
                     [] kind = "cancel" -> "find"
                     [] OTHER -> "getLock"

Begin(t, c) ==
  /\ pc[t] = "idle"
  /\ calls < MaxCalls
  /\ c.kind \in Kinds
  /\ c.kind = "subscribe" /\ sub[t] # None => sub[t].state = "Replay" /\ sub[t].run = c.run
  /\ call' = [call EXCEPT ![t] = c]
  /\ calls' = calls + 1
  /\ Goto(t, FirstStep(c.kind))
  /\ UNCHANGED <<storeVars, registry, lockMap, holder, lockRef, answer, sub>>

-----------------------------------------------------------------------------
(* start_run                                                               *)

Slots(i) == {r \in Runs : registry[i][r] # None}
Blocked(r) == \E q \in Runs : status[q] # "absent" /\ (q = r \/ SameKey)

\* lookup_run and find_idempotent_run: Existing is answered, or try_insert is
\* next.
LookupStart(t) ==
  /\ pc[t] = "lookup"
  /\ IF Blocked(call[t].run) THEN Returns(t)
     ELSE Goto(t, "insert") /\ UNCHANGED <<call, lockRef, answer, calls>>
  /\ UNCHANGED <<storeVars, registry, lockMap, holder, sub>>

\* try_insert: Full and a second entry are refused, AlreadyActive is answered.
InsertRun(t) ==
  /\ pc[t] = "insert"
  /\ LET i == call[t].at
         r == call[t].run
     IN IF registry[i][r] # None \/ Cardinality(Slots(i)) >= Capacity
          THEN Returns(t) /\ UNCHANGED registry
          ELSE /\ registry' = [registry EXCEPT ![i][r] =
                    [seq |-> 0, published |-> FALSE, cancelled |-> FALSE, senders |-> {}]]
               /\ Goto(t, "create")
               /\ UNCHANGED <<call, lockRef, answer, calls>>
  /\ UNCHANGED <<storeVars, lockMap, holder, sub>>

\* Mutant: a lost race leaves the slot taken.
CreateRun_KeepsSlot(t) ==
  /\ pc[t] = "create"
  /\ LET r == call[t].run
     IN IF Blocked(r) THEN UNCHANGED <<status, lease, owner>>
          ELSE /\ status' = [status EXCEPT ![r] = "running"]
               /\ lease' = [lease EXCEPT ![r] = IF r \in Leased THEN "live" ELSE "none"]
               /\ owner' = [owner EXCEPT ![r] = call[t].at]
  /\ Returns(t)
  /\ UNCHANGED <<log, marked, registry, lockMap, holder, sub>>

\* The store creates the run, or another start was faster and the slot goes.
CreateRun(t) ==
  /\ pc[t] = "create"
  /\ LET i == call[t].at
         r == call[t].run
     IN IF Blocked(r)
          THEN /\ registry' = [registry EXCEPT ![i][r] = None]
               /\ UNCHANGED <<status, lease, owner>>
          ELSE /\ status' = [status EXCEPT ![r] = "running"]
               /\ lease' = [lease EXCEPT ![r] = IF r \in Leased THEN "live" ELSE "none"]
               /\ owner' = [owner EXCEPT ![r] = i]
               /\ UNCHANGED registry
  /\ Returns(t)
  /\ UNCHANGED <<log, marked, lockMap, holder, sub>>

-----------------------------------------------------------------------------
(* append_with, finish_with, finish_detached_with and commit_with          *)

InUse(i) == {lockMap[i][r] : r \in Runs} \cup
            {lockRef[t] : t \in {u \in Tasks : call[u] # None /\ call[u].at = i}}

\* event_lock: the lock of the map, or a new one.
GetLock(t) ==
  /\ pc[t] = "getLock"
  /\ LET i == call[t].at
         r == call[t].run
         l == IF lockMap[i][r] # None THEN lockMap[i][r]
              ELSE CHOOSE x \in LockIds : x \notin InUse(i)
     IN /\ lockMap' = [lockMap EXCEPT ![i][r] = l]
        /\ lockRef' = [lockRef EXCEPT ![t] = l]
  /\ Goto(t, "acquire")
  /\ UNCHANGED <<storeVars, registry, holder, call, answer, calls, sub>>

Acquire(t) ==
  /\ pc[t] = "acquire"
  /\ holder[call[t].at][lockRef[t]] = None
  /\ holder' = [holder EXCEPT ![call[t].at][lockRef[t]] = t]
  /\ Goto(t, IF Is(t, {"detach"}) THEN "list" ELSE "write")
  /\ UNCHANGED <<storeVars, registry, lockMap, call, lockRef, answer, calls, sub>>

Answer(kind, events) == [kind |-> kind, events |-> events]
NewEvent(t, seq, terminal) == [seq |-> seq, terminal |-> terminal, by |-> call[t].at]

\* What the operation offers the store: its events, numbered from seq on.
Offer(t, seq) ==
  CASE Is(t, {"append", "commit"}) -> <<NewEvent(t, seq, FALSE)>>
    [] Is(t, {"finish", "detach"}) -> <<NewEvent(t, seq, TRUE)>>
    [] Is(t, {"commitFinish"}) -> <<NewEvent(t, seq, FALSE), NewEvent(t, seq + 1, TRUE)>>

Finishes(t) == Is(t, {"finish", "detach", "commitFinish"})

\* Only a commit shows a lease, and only the instance that started the run has it.
Admitted(t) ==
  LET r == call[t].run
      shown == r \in Leased /\ Is(t, {"commit", "commitFinish"}) /\ call[t].at = owner[r]
  IN lease[r] = (IF shown THEN "live" ELSE "none")

\* record_event, finish_run and commit_run of the store (see RunStore).
StoreAnswer(t, offer) ==
  LET r == call[t].run IN
  CASE Over(r) -> IF Finishes(t) THEN Answer("finished", <<Last(log[r])>>)
                                 ELSE Answer("skipped", <<>>)
    [] ~Over(r) /\ ~Admitted(t) -> Answer("error", <<>>)
    [] ~Over(r) /\ Head(offer).seq <= LastSeq(r) -> Answer("error", <<>>)
    [] OTHER -> Answer(IF Finishes(t) THEN "finished" ELSE "recorded", offer)

Stores(t, offer, a) ==
  LET r == call[t].run IN
  IF ~Over(r) /\ a.kind # "error"
    THEN /\ log' = [log EXCEPT ![r] = @ \o offer]
         /\ status' = [status EXCEPT ![r] = IF Finishes(t) THEN "over" ELSE @]
         /\ lease' = [lease EXCEPT ![r] = IF Finishes(t) THEN "none" ELSE @]
    ELSE UNCHANGED <<log, status, lease>>

\* Mutant: a failed commit forgets all it has counted.
Write_Forgets(t) ==
  /\ pc[t] = "write"
  /\ IF Reg(t) = None \/ status[call[t].run] = "absent"
       THEN /\ answer' = [answer EXCEPT ![t] = Answer(IF Reg(t) = None THEN "gone" ELSE "kept", <<>>)]
            /\ UNCHANGED <<registry, log, status, lease>>
       ELSE LET offer == Offer(t, Reg(t).seq + 1)
                a == StoreAnswer(t, offer)
            IN /\ answer' = [answer EXCEPT ![t] = a]
               /\ Stores(t, offer, a)
               /\ registry' = [registry EXCEPT ![call[t].at][call[t].run].seq =
                    IF a.kind = "error" THEN 0 ELSE @ + Len(offer)]
  /\ Goto(t, "publish")
  /\ UNCHANGED <<marked, owner, lockMap, holder, call, lockRef, calls, sub>>

\* next_seq, the store's write, and on a failed commit rewind_seqs; a failed
\* append or finish leaves its seq taken.
Write(t) ==
  /\ pc[t] = "write"
  /\ IF Reg(t) = None \/ status[call[t].run] = "absent"
       THEN /\ answer' = [answer EXCEPT ![t] = Answer(IF Reg(t) = None THEN "gone" ELSE "kept", <<>>)]
            /\ UNCHANGED <<registry, log, status, lease>>
       ELSE LET offer == Offer(t, Reg(t).seq + 1)
                a == StoreAnswer(t, offer)
                rewinds == a.kind = "error" /\ Is(t, {"commit", "commitFinish"})
            IN /\ answer' = [answer EXCEPT ![t] = a]
               /\ Stores(t, offer, a)
               /\ registry' = [registry EXCEPT ![call[t].at][call[t].run].seq =
                    IF rewinds THEN @ ELSE @ + Len(offer)]
  /\ Goto(t, "publish")
  /\ UNCHANGED <<marked, owner, lockMap, holder, call, lockRef, calls, sub>>

\* finish_detached_with reads the last stored seq of a run nobody has here ...
ListForDetach(t) ==
  /\ pc[t] = "list"
  /\ answer' = [answer EXCEPT ![t] =
       CASE Reg(t) # None -> Answer("kept", <<>>)
         [] Reg(t) = None /\ status[call[t].run] # "running" -> Answer("gone", <<>>)
         [] OTHER -> Answer("listed", Offer(t, LastSeq(call[t].run) + 1))]
  /\ Goto(t, IF answer'[t].kind = "listed" THEN "detach" ELSE "publish")
  /\ UNCHANGED <<storeVars, registry, lockMap, holder, call, lockRef, calls, sub>>

\* ... and finishes it with the next one.
Detach(t) ==
  /\ pc[t] = "detach"
  /\ LET offer == answer[t].events
         a == StoreAnswer(t, offer)
     IN /\ Stores(t, offer, a)
        /\ answer' = [answer EXCEPT ![t] =
             IF a.kind = "error" THEN Answer("kept", <<>>) ELSE Answer("gone", <<>>)]
  /\ Goto(t, "publish")
  /\ UNCHANGED <<marked, owner, registry, lockMap, holder, call, lockRef, calls, sub>>

\* publish, publish_terminal: one event, to the senders there are at this
\* moment, and nothing after a terminal event.
Publish(t) ==
  /\ pc[t] = "publish"
  /\ answer[t].events # <<>>
  /\ LET e == Head(answer[t].events)
         live == Reg(t) # None /\ ~Reg(t).published
     IN /\ sub' = [u \in Tasks |->
             IF live /\ u \in Reg(t).senders THEN [sub[u] EXCEPT !.buffer = Append(@, e)]
                                             ELSE sub[u]]
        /\ registry' = IF ~live THEN registry
             ELSE [registry EXCEPT ![call[t].at][call[t].run].published = e.terminal]
  /\ answer' = [answer EXCEPT ![t].events = Tail(@)]
  /\ UNCHANGED <<storeVars, lockMap, holder, pc, call, lockRef, calls>>

\* Mutant: an operation that fails keeps its guard.
Release_KeepsGuard(t) ==
  /\ pc[t] = "publish"
  /\ answer[t].events = <<>>
  /\ registry' = IF answer[t].kind \in {"finished", "skipped"}
                   THEN [registry EXCEPT ![call[t].at][call[t].run] = None] ELSE registry
  /\ holder' = IF answer[t].kind \in {"kept", "error"} THEN holder
                 ELSE [holder EXCEPT ![call[t].at][lockRef[t]] = None]
  /\ IF answer[t].kind \in {"finished", "skipped", "gone"}
       THEN Goto(t, "dropLock") /\ UNCHANGED <<call, lockRef, answer, calls>>
       ELSE Returns(t)
  /\ UNCHANGED <<storeVars, lockMap, sub>>

\* A run found to be over leaves the registry; the guard drops.  Only then, and
\* only if the run is not active here, the lock may leave the map.
Release(t) ==
  /\ pc[t] = "publish"
  /\ answer[t].events = <<>>
  /\ registry' = IF answer[t].kind \in {"finished", "skipped"}
                   THEN [registry EXCEPT ![call[t].at][call[t].run] = None] ELSE registry
  /\ holder' = [holder EXCEPT ![call[t].at][lockRef[t]] = None]
  /\ IF answer[t].kind \in {"finished", "skipped", "gone"}
       THEN Goto(t, "dropLock") /\ UNCHANGED <<call, lockRef, answer, calls>>
       ELSE Returns(t)
  /\ UNCHANGED <<storeVars, lockMap, sub>>

References(i, r, l) ==
  (IF lockMap[i][r] = l THEN 1 ELSE 0)
    + Cardinality({t \in Tasks : call[t] # None /\ call[t].at = i /\ lockRef[t] = l})

\* Mutant: the lock leaves the map whoever else waits for it.
DropLock_Always(t) ==
  /\ pc[t] = "dropLock"
  /\ lockMap' = [lockMap EXCEPT ![call[t].at][call[t].run] =
                   IF @ = lockRef[t] THEN None ELSE @]
  /\ Returns(t)
  /\ UNCHANGED <<storeVars, registry, holder, sub>>

\* remove_event_lock: only if the map still has this very lock and nobody but
\* the map and the caller refers to it.
DropLock(t) ==
  /\ pc[t] = "dropLock"
  /\ LET i == call[t].at
         r == call[t].run
     IN lockMap' = IF lockMap[i][r] = lockRef[t] /\ References(i, r, lockRef[t]) <= 2
                     THEN [lockMap EXCEPT ![i][r] = None] ELSE lockMap
  /\ Returns(t)
  /\ UNCHANGED <<storeVars, registry, holder, sub>>

-----------------------------------------------------------------------------
(* subscribe and RunTail                                                   *)

\* lookup_run, or Missing.  A client that was given a page goes on at its cursor.
Look(t, from) ==
  /\ pc[t] = "look"
  /\ LET i == call[t].at
         r == call[t].run
         state == IF Over(r) THEN "listing" ELSE "attaching"
     IN IF status[r] = "absent" THEN Returns(t) /\ UNCHANGED sub
        ELSE /\ sub' = [sub EXCEPT ![t] =
                  IF @ # None THEN [@ EXCEPT !.at = i, !.state = state]
                  ELSE [at |-> i, run |-> r, start |-> from, cursor |-> from,
                        state |-> state, buffer |-> <<>>, got |-> <<>>]]
             /\ Goto(t, IF Over(r) THEN "page" ELSE "attach")
             /\ UNCHANGED <<call, lockRef, answer, calls>>
  /\ UNCHANGED <<storeVars, registry, lockMap, holder>>

\* RunRegistry::subscribe
Attach(t) ==
  /\ pc[t] = "attach"
  /\ IF Reg(t) # None /\ ~Reg(t).published
       THEN /\ registry' = [registry EXCEPT ![call[t].at][call[t].run].senders = @ \cup {t}]
            /\ Goto(t, "page")
            /\ UNCHANGED <<sub, call, lockRef, answer, calls>>
       ELSE /\ sub' = [sub EXCEPT ![t].state = "NotOwner"]
            /\ Returns(t)
            /\ UNCHANGED registry
  /\ UNCHANGED <<storeVars, lockMap, holder>>

\* How many events of the run have a seq up to n.
Past(r, n) == Cardinality({i \in DOMAIN log[r] : log[r][i].seq <= n})

\* The events with a greater seq; the log is in seq order, they are its rest.
After(r, from) == SubSeq(log[r], Past(r, from) + 1, Len(log[r]))

\* list_events.  If there is more than a page the receiver is dropped and with
\* it, at the next publish, its sender.
ListPage(t) ==
  /\ pc[t] = "page"
  /\ LET s == sub[t]
         rest == After(s.run, s.cursor)
         full == Len(rest) > ReplayLimit
         page == IF full THEN SubSeq(rest, 1, ReplayLimit) ELSE rest
         state == CASE full -> "Replay"
                    [] ~full /\ s.state = "attaching" -> "Active"
                    [] OTHER -> "Inactive"
     IN /\ sub' = [sub EXCEPT ![t] = [s EXCEPT
             !.got = @ \o page,
             !.cursor = IF page = <<>> THEN @ ELSE Last(page).seq,
             !.buffer = IF full THEN <<>> ELSE @,
             !.state = state]]
        /\ registry' = IF full /\ Reg(t) # None
             THEN [registry EXCEPT ![s.at][s.run].senders = @ \ {t}] ELSE registry
  /\ Returns(t)
  /\ UNCHANGED <<storeVars, lockMap, holder>>

\* Mutant: what the replay had is handed out again.
TailNext_Unfiltered(t) ==
  /\ sub[t] # None /\ sub[t].state = "Active"
  /\ sub[t].buffer # <<>>
  /\ sub' = [sub EXCEPT ![t] = [@ EXCEPT !.buffer = Tail(@), !.got = Append(@, Head(sub[t].buffer)),
                                        !.cursor = Head(sub[t].buffer).seq]]
  /\ UNCHANGED <<storeVars, registry, lockMap, holder, taskVars>>

\* RunTail::next_event skips what the replay had already.
TailNext(t) ==
  /\ sub[t] # None /\ sub[t].state = "Active"
  /\ sub[t].buffer # <<>>
  /\ LET s == sub[t]
         e == Head(s.buffer)
     IN sub' = [sub EXCEPT ![t] =
          IF e.seq <= s.cursor
            THEN [s EXCEPT !.buffer = Tail(@)]
            ELSE [s EXCEPT !.buffer = Tail(@), !.got = Append(@, e), !.cursor = e.seq]]
  /\ UNCHANGED <<storeVars, registry, lockMap, holder, taskVars>>

-----------------------------------------------------------------------------
(* request_cancel                                                          *)

\* RunNotFound, and nothing to do for a run that is over.
FindCancelled(t) ==
  /\ pc[t] = "find"
  /\ IF status[call[t].run] # "running" THEN Returns(t)
     ELSE Goto(t, "request") /\ UNCHANGED <<call, lockRef, answer, calls>>
  /\ UNCHANGED <<storeVars, registry, lockMap, holder, sub>>

\* NotOwner where it is not registered.
RequestCancel(t) ==
  /\ pc[t] = "request"
  /\ IF Reg(t) = None
       THEN Returns(t) /\ UNCHANGED registry
       ELSE /\ registry' = [registry EXCEPT ![call[t].at][call[t].run].cancelled = TRUE]
            /\ Goto(t, "mark")
            /\ UNCHANGED <<call, lockRef, answer, calls>>
  /\ UNCHANGED <<storeVars, lockMap, holder, sub>>

MarkCancelled(t) ==
  /\ pc[t] = "mark"
  /\ marked' = [marked EXCEPT ![call[t].run] = TRUE]
  /\ Returns(t)
  /\ UNCHANGED <<status, lease, log, owner, registry, lockMap, holder, sub>>

-----------------------------------------------------------------------------
(* Leases                                                                  *)

Lapse(r) ==
  /\ lease[r] = "live"
  /\ lease' = [lease EXCEPT ![r] = "lapsed"]
  /\ UNCHANGED <<status, log, marked, owner, registry, lockMap, holder, taskVars, sub>>

Reap(r) ==
  /\ lease[r] = "lapsed"
  /\ status' = [status EXCEPT ![r] = "over"]
  /\ lease' = [lease EXCEPT ![r] = "none"]
  /\ log' = [log EXCEPT ![r] = Append(@, [seq |-> LastSeq(r) + 1, terminal |-> TRUE, by |-> None])]
  /\ UNCHANGED <<marked, owner, registry, lockMap, holder, taskVars, sub>>

-----------------------------------------------------------------------------
Step(t) ==
  \/ LookupStart(t) \/ InsertRun(t) \/ CreateRun(t)
  \/ GetLock(t) \/ Acquire(t) \/ Write(t) \/ ListForDetach(t) \/ Detach(t)
  \/ Publish(t) \/ Release(t) \/ DropLock(t)
  \/ \E from \in {0, 1} : Look(t, from)
  \/ Attach(t) \/ ListPage(t) \/ TailNext(t)
  \/ FindCancelled(t) \/ RequestCancel(t) \/ MarkCancelled(t)

\* Every call has returned and no more are made.
Quiet ==
  /\ \A t \in Tasks : pc[t] = "idle"
  /\ UNCHANGED vars

Next ==
  \/ \E t \in Tasks : \/ \E c \in Call : Begin(t, c)
                      \/ Step(t)
  \/ \E r \in Runs : Lapse(r) \/ Reap(r)
  \/ Quiet

Spec == Init /\ [][Next]_vars

\* The scheduler runs every call; the event lock is a fair mutex.
FairSpec == Spec /\ \A t \in Tasks : WF_vars(Step(t)) /\ SF_vars(Acquire(t))

-----------------------------------------------------------------------------
(* Safety.                                                                 *)

\* Store, registry, locks, tasks and subscriptions keep their shape.
TypeOK ==
  /\ status \in [Runs -> {"absent", "running", "over"}]
  /\ lease \in [Runs -> {"none", "live", "lapsed"}]
  /\ log \in [Runs -> Seq(Event)]
  /\ marked \in [Runs -> BOOLEAN]
  /\ owner \in [Runs -> Instances \cup {None}]
  /\ registry \in [Instances -> [Runs -> Entry \cup {None}]]
  /\ lockMap \in [Instances -> [Runs -> LockIds \cup {None}]]
  /\ holder \in [Instances -> [LockIds -> Tasks \cup {None}]]
  /\ pc \in [Tasks -> {"idle", "lookup", "insert", "create", "getLock", "acquire", "write",
                       "list", "detach", "publish", "dropLock", "look", "attach", "page",
                       "find", "request", "mark"}]
  /\ call \in [Tasks -> Call \cup {None}]
  /\ lockRef \in [Tasks -> LockIds \cup {None}]
  /\ answer \in [Tasks -> Answers \cup {None}]
  /\ calls \in 0..MaxCalls
  /\ sub \in [Tasks -> Subscription \cup {None}]

\* The operations under way on a run at an instance that are past lock().
Guarded(i, r) ==
  {t \in Tasks : pc[t] \in {"write", "list", "detach", "publish"}
                  /\ call[t].at = i /\ call[t].run = r}

\* The lock of a run excludes, although it is created on demand and removed from
\* the map while others may be about to take it: two operations of an instance
\* are never both between lock() and unlock, not even under two locks.
EventLockExclusive ==
  \A i \in Instances, r \in Runs : Cardinality(Guarded(i, r)) <= 1
EventLockInv == TypeOK /\ EventLockExclusive

\* The log holds what its owner wrote: at most the terminal event is somebody
\* else's, the reaper's or that of a finish_detached_with of a peer.
OwnLog(r) == \A k \in DOMAIN log[r] : ~log[r][k].terminal => log[r][k].by = owner[r]

\* Whose following is faithful: everybody who only reads pages, and whoever has
\* the tail of the owner's entry, the one entry all events but the last go
\* through.  (While a start of a run that exists is about to fail, its instance
\* has an entry for the run too: who attaches to that one hears nothing, and what
\* is appended through it the owner's tails do not hear.)
Heard(t) ==
  /\ sub[t] # None
  /\ sub[t].state = "Active" => sub[t].at = owner[sub[t].run] /\ OwnLog(sub[t].run)

\* What a follower was given, in pages and from the tail together, is the log
\* from its cursor on, without a gap, a repetition or a swap, whatever was
\* recorded or published between its subscribing and its listing.
TailExact ==
  \A t \in Tasks : Heard(t) => IsPrefix(sub[t].got, After(sub[t].run, sub[t].start))

Attached(t) ==
  LET e == registry[sub[t].at][sub[t].run] IN e # None /\ t \in e.senders

Drained(t) == sub[t] # None /\ sub[t].state = "Active" /\ ~Attached(t) /\ sub[t].buffer = <<>>

\* A tail that has ended was complete, or the run was ended by somebody else
\* (the reaper, or finish_detached_with of a peer) while it was followed.
TailEndsComplete ==
  \A t \in Tasks : Heard(t) /\ Drained(t) =>
    \/ sub[t].got = After(sub[t].run, sub[t].start)
    \/ Over(sub[t].run) /\ Last(log[sub[t].run]).by # sub[t].at

\* What a follower gets, to the last event.
TailsFaithful == TailExact /\ TailEndsComplete

\* The counter of the owner's entry is never behind the log of a running run, so
\* its next event is not refused, although failed operations leave it ahead or
\* wind it back.
SeqAhead ==
  \A i \in Instances, r \in Runs :
    status[r] = "running" /\ registry[i][r] # None /\ owner[r] = i /\ OwnLog(r) =>
      registry[i][r].seq >= LastSeq(r)

-----------------------------------------------------------------------------
(* Liveness.                                                               *)

\* Every call returns: nobody waits for a lock that is never released.
CallsReturn == \A t \in Tasks : pc[t] # "idle" ~> pc[t] = "idle"

\* A slot is given back: the one a start took before the store told it that another
\* start was faster, and the one of a run its owner has ended.
SlotsFreed ==
  \A r \in Runs, i \in Instances :
    /\ registry[i][r] # None ~> registry[i][r] = None \/ owner[r] = i
    /\ Over(r) /\ owner[r] = i /\ Last(log[r]).by = i ~> registry[i][r] = None

-----------------------------------------------------------------------------
(* What the documents say and the code does not do; TLC finds a               *)
(* counterexample to each (README, section 5).                                *)

\* error.rs, NotOwner: "run is owned by another worker".  A subscription that
\* looks the run up before it ends and attaches afterwards is told so by the
\* very instance that owned it.
NotOwnerIsElsewhere ==
  \A t \in Tasks : sub[t] # None /\ sub[t].state = "NotOwner" => owner[sub[t].run] # sub[t].at

\* lifecycle_subscribe_quick_fails_remote_running_run, "remote live subscribe must
\* fail": only the owner answers Active.  A peer answers it too while a start
\* that is going to lose holds an entry for the run there.
RemoteSubscribeFails ==
  \A t \in Tasks : sub[t] # None /\ sub[t].state = "Active" => owner[sub[t].run] = sub[t].at
=============================================================================
