------------------------------- MODULE Agent --------------------------------
(***************************************************************************)
(* AgentMachine on one thread: what a run makes of the transcript the       *)
(* thread's checkpoint holds, what it sends to the model, and which tools   *)
(* it runs, when runs fail between any two steps, questions are answered    *)
(* wrongly or abandoned, and the transcript outgrows the prompt.            *)
(*                                                                         *)
(* The Runner saves the state after every transition and at an interrupt;   *)
(* a transition that fails leaves the thread at the save before it.  A      *)
(* message is a record of what pairing and the prompt size depend on: who    *)
(* wrote it, which tools it asks for, which use it answers and how large     *)
(* it is.  Text, usage, artifacts and signals have no other effect.          *)
(***************************************************************************)
EXTENDS Integers, Sequences, FiniteSets, SequencesExt, FiniteSetsExt

CONSTANTS
  Tools,            \* names a model may ask for
  TerminalTools,    \* those that end the run: by annotation or by name
  MaxModelTurns,    \* AgentBudget
  MaxToolCalls,
  CompactAt,        \* ContextPolicy, in the units of message sizes
  MaxInput,
  RecentMessages,
  MaxResultSize,
  ResultSizes,      \* sizes of what a registry returns
  NoUse             \* no tool use: an empty pending_human or human_input

CONSTANTS           \* bounds
  MaxUses,          \* tool uses in the whole behaviour; ids are 1..MaxUses
  MaxPerTurn,       \* tool uses in one response
  MaxRuns           \* starts and resumes

Ids == 1..MaxUses
Use == [id : Ids, tool : Tools]

ASSUME ConstantsAssumption ==
  /\ TerminalTools \subseteq Tools \ {"ask_user"}
  /\ {MaxModelTurns, MaxToolCalls, CompactAt, MaxInput, RecentMessages,
      MaxResultSize, MaxUses, MaxPerTurn, MaxRuns} \subseteq Nat
  /\ ResultSizes \subseteq Nat \ {0} /\ NoUse \notin Ids \cup Use

VARIABLES
  ckpt,      \* the thread's checkpoint: whether it is interrupted, its AgentState and next_step
             \* ("idle" for none); or NoCkpt
  step,      \* the AgentStep of the run, or "idle"
  state,     \* its AgentState
  prompt,    \* the messages of the last ModelRequest
  uses,      \* every tool use a model asked for, in the order of their ids
  called,    \* history: id -> how often the registry was called for it
  answered,  \* history: the use the human answered at the Resume of this run, or NoUse
  resumed,   \* history: ids that were pending in a checkpoint a run resumed
  skipped,   \* history: ids of questions a Resume went on from without an answer
  runs       \* starts and resumes so far

vars == <<ckpt, step, state, prompt, uses, called, answered, resumed, skipped, runs>>

NoCkpt == [interrupted |-> FALSE, state |-> NoUse, next |-> "idle"]

\* AgentMessage
Text(n) == [role |-> n, uses |-> <<>>, of |-> NoUse, kind |-> "text", size |-> 1]
Assistant(us) == [role |-> "assistant", uses |-> us, of |-> NoUse, kind |-> "uses", size |-> 1]
Result(id, kind, size) == [role |-> "tool", uses |-> <<>>, of |-> id, kind |-> kind, size |-> size]
Digest(omitted) == [role |-> "digest", uses |-> <<>>, of |-> NoUse, kind |-> "digest", size |-> 1]

\* AgentState::fresh
EmptyState == [messages |-> <<>>, pending |-> <<>>, pendingHuman |-> NoUse, humanInput |-> NoUse,
               turns |-> 0, calls |-> 0, digest |-> 0]

-----------------------------------------------------------------------------
(* The prompt window.                                                       *)

\* estimate_messages
Estimate(ms) == FoldLeft(LAMBDA n, m : n + m.size, 0, ms)

\* unsafe_window_start: the message answers a tool use, so its use has to be kept too
UnsafeStart(m) == m.role = "tool"

\* a mutation of Omitted: the window starts exactly `keep` messages from the end
OmitsExactly(ms, keep) == Len(ms) - keep

\* build_compacted_window: how many messages are left out when the last `keep` must stay
Omitted(ms, keep) ==
  Max({n \in 0 .. (Len(ms) - keep) : n = 0 \/ ~UnsafeStart(ms[n + 1])})

CompactedWindow(ms, keep) ==
  <<Digest(Omitted(ms, keep))>> \o SubSeq(ms, Omitted(ms, keep) + 1, Len(ms))

Compacts(ms) == Estimate(ms) >= CompactAt /\ Len(ms) > RecentMessages

\* the shrink loop of prompt_window: the first keep_count from above that fits, or 1
KeepCount(ms) ==
  Max({k \in 1 .. Min({Max({RecentMessages, 1}), Len(ms)}) :
         k = 1 \/ Estimate(CompactedWindow(ms, k)) <= MaxInput})

PromptWindow(ms) == IF Compacts(ms) THEN CompactedWindow(ms, KeepCount(ms)) ELSE ms

\* what the state's digest says was left out
DigestOf(ms, old) == IF Compacts(ms) THEN Omitted(ms, KeepCount(ms)) ELSE old

\* maybe_archive_tool_result
ArchivedSize(size) == IF size <= MaxResultSize THEN size ELSE 1

-----------------------------------------------------------------------------
(* The transcript a run starts with.                                        *)

\* a use of a transcript is known by its message and its place in the message
Places(ms) == UNION {{i} \X DOMAIN ms[i].uses : i \in DOMAIN ms}
UseAt(ms, p) == ms[p[1]].uses[p[2]]
ResultedIn(ms) == {ms[i].of : i \in {j \in DOMAIN ms : ms[j].role = "tool"}}
Dangling(ms) == {p \in Places(ms) : UseAt(ms, p).id \notin ResultedIn(ms)}
UpTo(P, p) == {q \in P : q[1] < p[1] \/ (q[1] = p[1] /\ q[2] <= p[2])}

\* repair_dangling_tool_uses: an error result for every use without one, at the end, in order
Repaired(ms) ==
  LET D == Dangling(ms)
      Nth(k) == CHOOSE p \in D : Cardinality(UpTo(D, p)) = k
  IN  ms \o [k \in 1..Cardinality(D) |-> Result(UseAt(ms, Nth(k)).id, "interrupted", 1)]

\* a mutation of Fresh: a run over an inherited transcript goes on with its pending tools
GoesOn(previous, input) ==
  [previous EXCEPT !.messages = Append(@, Text("user")), !.humanInput = input]

Fresh(previous, input) ==
  [EmptyState EXCEPT !.messages = Repaired(previous.messages) \o <<Text("user")>>,
                     !.digest = previous.digest,
                     !.humanInput = input]

\* a mutation of ApplyResumeInput: the answered question queues behind the tools left
QuestionLast(s, input) ==
  IF input # NoUse /\ s.pendingHuman # NoUse
  THEN [s EXCEPT !.humanInput = input, !.pendingHuman = NoUse,
                 !.pending = Append(@, s.pendingHuman)]
  ELSE [s EXCEPT !.humanInput = input]

\* apply_resume_input: the question the run stopped at is taken up first, if it is answered
ApplyResumeInput(s, input) ==
  IF input # NoUse /\ s.pendingHuman # NoUse
  THEN [s EXCEPT !.humanInput = input, !.pendingHuman = NoUse,
                 !.pending = <<s.pendingHuman>> \o @]
  ELSE [s EXCEPT !.humanInput = input]

-----------------------------------------------------------------------------
(* The Runner around the machine.                                           *)

\* save_running, with or without a next step
Saved(s, next) == ckpt' = [interrupted |-> FALSE, state |-> s, next |-> next]

Advance(s, next) ==
  /\ Saved(s, next) /\ step' = next /\ state' = s

Complete(s) == Advance(s, "idle")

Interrupt(s) ==
  /\ ckpt' = [interrupted |-> TRUE, state |-> s, next |-> "idle"]
  /\ step' = "idle" /\ state' = s

Init ==
  /\ ckpt = NoCkpt /\ step = "idle" /\ state = EmptyState /\ prompt = <<>>
  /\ uses = <<>> /\ called = [i \in Ids |-> 0] /\ answered = NoUse
  /\ resumed = {} /\ skipped = {} /\ runs = 0

Begin ==
  /\ step = "idle" /\ runs < MaxRuns
  /\ runs' = runs + 1
  /\ UNCHANGED <<ckpt, prompt, uses, called>>

\* A Start takes the transcript of whatever the thread holds; it may carry an answer too.
\* One with the run_id of the checkpoint goes on at its next_step, with a state as fresh.
Start(input) ==
  /\ Begin
  /\ state' = Fresh(IF ckpt = NoCkpt THEN EmptyState ELSE ckpt.state, input)
  /\ step' \in {"PrepareTurn"} \cup ({ckpt.next} \ {"idle"})
  /\ answered' = NoUse
  /\ UNCHANGED <<resumed, skipped>>

\* The answer may name any use, and only the pending question's own is right; or there is
\* none, and the run goes on with the question left open.
Resume(input) ==
  /\ Begin
  /\ ckpt # NoCkpt /\ ckpt.interrupted
  /\ state' = ApplyResumeInput(ckpt.state, input)
  /\ step' = "DispatchTools"
  /\ answered' = IF ckpt.state.pendingHuman # NoUse /\ ckpt.state.pendingHuman.id = input
                 THEN input ELSE NoUse
  /\ resumed' = resumed \cup {u.id : u \in ToSet(ckpt.state.pending)}
  /\ skipped' = IF input = NoUse THEN skipped \cup {ckpt.state.pendingHuman.id} ELSE skipped

\* A transition, an emit or a save fails, a deadline passes, the process dies: the
\* run is over and the thread stays at its last save.
Fail ==
  /\ step # "idle"
  /\ step' = "idle" /\ state' = EmptyState
  /\ UNCHANGED <<ckpt, prompt, uses, called, answered, resumed, skipped, runs>>

-----------------------------------------------------------------------------
(* The steps of the machine.                                                *)

PrepareTurn ==
  /\ step = "PrepareTurn"
  /\ Advance(state, "ModelStep")
  /\ UNCHANGED <<prompt, uses, called, answered, resumed, skipped, runs>>

OutOfTurns ==
  /\ step = "ModelStep" /\ state.turns >= MaxModelTurns
  /\ Complete(state)
  /\ UNCHANGED <<prompt, uses, called, answered, resumed, skipped, runs>>

\* The request goes out with the turn counted and the digest replaced.
Requested ==
  [state EXCEPT !.turns = @ + 1, !.digest = DigestOf(state.messages, @)]

\* assistant_content becomes a message unless it is empty
WithContent(s, hasText, us) ==
  IF hasText \/ us # <<>> THEN [s EXCEPT !.messages = Append(@, Assistant(us))] ELSE s

\* What model_step makes of a response: tool uses queue up behind those pending, a
\* truncated response drops them all, a final text ends the run with them undone.
Respond(hasText, us, truncated, final) ==
  LET queued == [Requested EXCEPT !.pending = @ \o us]
  IN  CASE truncated -> Complete(WithContent([queued EXCEPT !.pending = <<>>], hasText, <<>>))
        [] ~truncated /\ final -> Complete(WithContent(queued, hasText, us))
        [] OTHER -> LET s == WithContent(queued, hasText, us)
                    IN  IF s.pending = <<>> THEN Complete(s) ELSE Advance(s, "DispatchTools")

ModelStep(names, hasText, truncated, final) ==
  LET us == [i \in DOMAIN names |-> [id |-> Len(uses) + i, tool |-> names[i]]]
  IN  /\ step = "ModelStep" /\ state.turns < MaxModelTurns
      /\ Len(uses) + Len(names) <= MaxUses
      /\ prompt' = PromptWindow(state.messages)
      /\ uses' = uses \o us
      /\ Respond(hasText, us, truncated, final)
      /\ UNCHANGED <<called, answered, resumed, skipped, runs>>

\* The loop of dispatch_tools ends when nothing is pending.
ToolsDone ==
  /\ step = "DispatchTools" /\ state.pending = <<>>
  /\ Advance(state, "ModelStep")
  /\ UNCHANGED <<prompt, uses, called, answered, resumed, skipped, runs>>

Popped == [state EXCEPT !.pending = Tail(@)]
Current == Head(state.pending)

\* A turn of the loop for the use in front; the transition goes on, nothing is saved.
Dispatching ==
  /\ step = "DispatchTools" /\ state.pending # <<>>
  /\ UNCHANGED <<prompt, uses, answered, resumed, skipped, runs>>

Continue(s) == state' = s /\ UNCHANGED <<ckpt, step>>
NoCall == UNCHANGED called
WithResult(s, kind, size) ==
  [s EXCEPT !.messages = Append(@, Result(Current.id, kind, size))]

\* a mutation of InBudget: off by one
BudgetInclusive == state.calls <= MaxToolCalls

InBudget == state.calls < MaxToolCalls

OutOfToolCalls == Dispatching /\ ~InBudget /\ Complete(Popped) /\ NoCall

AskUser ==
  /\ Dispatching /\ InBudget /\ Current.tool = "ask_user" /\ NoCall
  /\ state.humanInput = NoUse
  /\ Interrupt([Popped EXCEPT !.pendingHuman = Current])

\* consume_human_answer; an answer to another question is spent on this one as an error
ConsumeAnswer ==
  /\ Dispatching /\ InBudget /\ Current.tool = "ask_user" /\ NoCall
  /\ state.humanInput # NoUse
  /\ LET s == [Popped EXCEPT !.humanInput = NoUse, !.pendingHuman = NoUse]
     IN  IF state.humanInput = Current.id
         THEN Continue(WithResult([s EXCEPT !.calls = @ + 1], "answer", 1))
         ELSE Continue(WithResult(s, "wrong_answer", 1))

\* A terminal tool of the registry is the end itself: no call, no result.
TerminalTool ==
  /\ Dispatching /\ InBudget /\ Current.tool \in TerminalTools \ {"emit_artifact"} /\ NoCall
  /\ Complete(Popped)

\* After the result of an artifact that is terminal the run ends, otherwise the loop goes on.
EmitArtifact ==
  /\ Dispatching /\ InBudget /\ Current.tool = "emit_artifact" /\ NoCall
  /\ LET s == WithResult([Popped EXCEPT !.calls = @ + 1], "result", 1)
     IN  IF Current.tool \in TerminalTools THEN Complete(s) ELSE Continue(s)

RegistryTool == Current.tool \notin TerminalTools \cup {"ask_user", "emit_artifact"}

\* An allowed call; the registry's error is a result like any other.
CallTool(size) ==
  /\ Dispatching /\ InBudget /\ RegistryTool
  /\ called' = [called EXCEPT ![Current.id] = @ + 1]
  /\ Continue(WithResult([Popped EXCEPT !.calls = @ + 1], "result", ArchivedSize(size)))

DenyTool ==
  /\ Dispatching /\ InBudget /\ RegistryTool /\ NoCall
  /\ Continue(WithResult([Popped EXCEPT !.calls = @ + 1], "denied", 1))

\* The process dies, or the signal after it fails, when the registry has been called.
FailAfterCall ==
  /\ Dispatching /\ InBudget /\ RegistryTool
  /\ called' = [called EXCEPT ![Current.id] = @ + 1]
  /\ step' = "idle" /\ state' = EmptyState /\ UNCHANGED ckpt

MachineStep ==
  \/ PrepareTurn
  \/ OutOfTurns
  \/ \E n \in 0..MaxPerTurn : \E names \in [1..n -> Tools], hasText, truncated, final \in BOOLEAN :
       ModelStep(names, hasText, truncated, final)
  \/ ToolsDone
  \/ OutOfToolCalls
  \/ AskUser
  \/ ConsumeAnswer
  \/ TerminalTool
  \/ EmitArtifact
  \/ \E size \in ResultSizes : CallTool(size)
  \/ DenyTool

Answers == {NoUse} \cup {u.id : u \in {v \in ToSet(uses) : v.tool = "ask_user"}}

Next ==
  \/ MachineStep
  \/ \E input \in Answers : Start(input) \/ Resume(input)
  \/ Fail
  \/ FailAfterCall

Spec == Init /\ [][Next]_vars

-----------------------------------------------------------------------------
(* Properties.                                                              *)

Message == [role : {"user", "assistant", "tool", "digest"}, uses : Seq(Use), of : Ids \cup {NoUse},
            kind : {"text", "uses", "digest", "result", "denied", "answer", "wrong_answer", "interrupted"},
            size : Nat]
AgentState == [messages : Seq(Message), pending : Seq(Use), pendingHuman : Use \cup {NoUse},
               humanInput : Ids \cup {NoUse}, turns : Nat, calls : Nat, digest : Nat]

\* Every variable keeps its shape; the counters of a state stay inside its budget.
TypeOK ==
  /\ ckpt = NoCkpt \/ ckpt \in [interrupted : BOOLEAN, state : AgentState,
                               next : {"idle", "ModelStep", "DispatchTools"}]
  /\ step \in {"idle", "PrepareTurn", "ModelStep", "DispatchTools"}
  /\ state \in AgentState
  /\ state.turns <= MaxModelTurns /\ state.calls <= MaxToolCalls
  /\ prompt \in Seq(Message) /\ uses \in Seq(Use)
  /\ called \in [Ids -> Nat] /\ answered \in Ids \cup {NoUse}
  /\ resumed \subseteq Ids /\ skipped \subseteq Ids /\ runs \in 0..MaxRuns

IdsOf(us) == {us[i].id : i \in DOMAIN us}

\* The results that stand right behind message i, however many.
Block(ms, i) ==
  {k \in DOMAIN ms : k > i /\ \A j \in (i + 1) .. k : ms[j].role = "tool"}

\* No prompt shows the model a tool use without its one result behind the message that asked
\* for it, or a result anywhere else, whatever failed, was abandoned or was compacted away
\* before (repair_dangling_tool_uses, build_compacted_window).  The exception is a question
\* that a Resume without an answer went on from (apply_resume_input): it stays open in that
\* run's prompts, and the next start gives it a result where the transcript ends by then.
PromptPaired ==
  \A i \in DOMAIN prompt :
    /\ \A id \in IdsOf(prompt[i].uses) \ skipped : \E k \in Block(prompt, i) : prompt[k].of = id
    /\ prompt[i].role = "tool" =>
         /\ \A k \in DOMAIN prompt : prompt[k].role = "tool" /\ prompt[k].of = prompt[i].of => k = i
         /\ \/ prompt[i].of \in skipped
            \/ \E j \in DOMAIN prompt : /\ i \in Block(prompt, j)
                                       /\ prompt[i].of \in IdsOf(prompt[j].uses)

\* A run resumed with the answer to the pending question saves nothing, neither a step, an
\* end nor the next question, whose transcript lacks that answer as the question's result:
\* no other use spends it first, unless no tool call is left in the budget
\* (apply_resume_input, consume_human_answer).
HoldsAnswer(ms) == \E i \in DOMAIN ms : ms[i].of = answered /\ ms[i].kind = "answer"
AnswerHeard ==
  [][answered # NoUse /\ ckpt' # ckpt =>
       HoldsAnswer(ckpt'.state.messages) \/ state.calls >= MaxToolCalls]_vars

\* The registry is called again for a use it was already called for only when the use
\* was pending in a checkpoint a Resume picked up: a failed dispatch of a resumed run
\* can be resumed once more, and every other loss ends in a synthetic error result.
CallsRepeatOnlyAfterResume ==
  [][\A i \in Ids : called'[i] > called[i] /\ called[i] > 0 => i \in resumed]_vars
=============================================================================
