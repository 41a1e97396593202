----------------------------- MODULE AgentProofs ----------------------------
(***************************************************************************)
(* Proofs about Agent, for tools, budgets and window sizes of every kind    *)
(* and for runs of every number.                                            *)
(*                                                                         *)
(*   TypeCorrect       Spec => []TypeOK                                     *)
(*   CallsNotRepeated  Spec => CallsRepeatOnlyAfterResume                   *)
(*   AnswersHeard      Spec => AnswerHeard                                  *)
(*   PromptsPaired     Spec => []PromptPaired                               *)
(*                                                                         *)
(* First the numbers and shapes the model is built from, then what each     *)
(* step does to a state (TurnDoes, ModelStepDoes, StartDoes, ResumeDoes),   *)
(* on which the invariants rest: TypeInv, CallsInv, AnswerInv and           *)
(* TranscriptInv.                                                           *)
(***************************************************************************)
EXTENDS Agent, FiniteSetTheorems, SequenceTheorems, WellFoundedInduction, TLAPS

-----------------------------------------------------------------------------
(* Numbers.                                                                *)

\* The natural numbers are well ordered, by the inclusion of the intervals 0..k.
LEMMA LeastNumber ==
  ASSUME NEW T \in SUBSET Nat, T # {}
  PROVE  \E m \in T : \A k \in T : m <= k
<1>. DEFINE Down == {0..k : k \in T}
<1>1. Down \subseteq FiniteSubsetsOf(Nat) /\ Down # {}
  <2>1. \A k \in T : IsFiniteSet(0..k)
    BY FS_Interval
  <2>2. \A k \in T : 0..k \in FiniteSubsetsOf(Nat)
    BY <2>1 DEF FiniteSubsetsOf
  <2>. QED
    BY <2>2
<1>2. PICK x \in Down : \A y \in Down : ~(<<y, x>> \in StrictSubsetOrdering(Nat))
  <2>1. IsWellFoundedOn(StrictSubsetOrdering(Nat), FiniteSubsetsOf(Nat))
    BY FS_StrictSubsetOrderingWellFounded
  <2>. HIDE DEF Down
  <2>. QED
    BY <1>1, <2>1, WFMin
<1>3. PICK m \in T : x = 0..m
  OBVIOUS
<1>4. ASSUME NEW k \in T, k < m PROVE FALSE
  <2>1. 0..k \in SUBSET Nat /\ 0..m \in SUBSET Nat /\ 0..k \subseteq 0..m /\ m \in 0..m /\ m \notin 0..k
    BY <1>4
  <2>2. <<0..k, 0..m>> \in StrictSubsetOrdering(Nat)
    BY <2>1 DEF StrictSubsetOrdering
  <2>. QED
    BY <1>2, <1>3, <2>2
<1>. QED
  BY <1>4

\* A bounded set of numbers has a greatest: the least of its upper bounds.
LEMMA GreatestBounded ==
  ASSUME NEW n \in Nat, NEW S \in SUBSET (0..n), S # {}
  PROVE  Max(S) \in S
<1>. DEFINE Bounds == {b \in Nat : \A k \in S : b >= k}
<1>1. n \in Bounds
  OBVIOUS
<1>2. PICK m \in Bounds : \A b \in Bounds : m <= b
  <2>. HIDE DEF Bounds
  <2>1. Bounds \in SUBSET Nat /\ Bounds # {}
    BY <1>1 DEF Bounds
  <2>. QED
    BY <2>1, LeastNumber
<1>3. m \in S
  <2>1. SUFFICES ASSUME m \notin S PROVE FALSE
    OBVIOUS
  <2>2. PICK k \in S : TRUE
    OBVIOUS
  <2>3. m - 1 \in Bounds
    BY <1>2, <2>1, <2>2
  <2>. QED
    BY <1>2, <2>3
<1>4. \A k \in S : m >= k
  BY <1>2
<1>. QED
  BY <1>3, <1>4 DEF Max

-----------------------------------------------------------------------------
(* The shapes of messages and states.                                      *)

Messages == Seq(Message)

LEMMA MessageTypes ==
  /\ Text("user") \in Message
  /\ \A us \in Seq(Use) : Assistant(us) \in Message
  /\ \A n : Digest(n) \in Message
  /\ \A id \in Ids, size \in Nat :
       \A kind \in {"result", "denied", "answer", "wrong_answer", "interrupted"} :
         Result(id, kind, size) \in Message
<1>1. <<>> \in Seq(Use)
  OBVIOUS
<1>. QED
  BY <1>1 DEF Text, Assistant, Digest, Result, Message

\* What each message is to the ones around it.
LEMMA MessageParts ==
  /\ Text("user").role = "user" /\ Text("user").uses = <<>>
  /\ \A us : Assistant(us).role = "assistant" /\ Assistant(us).uses = us
  /\ \A n : Digest(n).role = "digest" /\ Digest(n).uses = <<>>
  /\ \A id, kind, size : /\ Result(id, kind, size).role = "tool"
                         /\ Result(id, kind, size).uses = <<>>
                         /\ Result(id, kind, size).of = id
                         /\ Result(id, kind, size).kind = kind
BY DEF Text, Assistant, Digest, Result

LEMMA MessageFields ==
  ASSUME NEW m \in Message
  PROVE  m.uses \in Seq(Use) /\ m.of \in Ids \cup {NoUse} /\ m.size \in Nat
BY DEF Message

LEMMA StateFields ==
  ASSUME NEW s \in AgentState
  PROVE  /\ s.messages \in Messages /\ s.pending \in Seq(Use)
         /\ s.pendingHuman \in Use \cup {NoUse} /\ s.humanInput \in Ids \cup {NoUse}
         /\ s.turns \in Nat /\ s.calls \in Nat /\ s.digest \in Nat
BY DEF AgentState, Messages

LEMMA EmptyStateType == EmptyState \in AgentState
<1>1. <<>> \in Seq(Use) /\ <<>> \in Messages
  BY DEF Messages
<1>. QED
  BY <1>1 DEF EmptyState, AgentState, Messages

-----------------------------------------------------------------------------
(* The uses without a result can be counted off.                           *)

LEMMA UpToOrdered ==
  ASSUME NEW P \in SUBSET (Nat \X Nat), NEW p \in P, NEW q \in P, p # q
  PROVE  \/ UpTo(P, p) \subseteq UpTo(P, q) /\ q \notin UpTo(P, p)
         \/ UpTo(P, q) \subseteq UpTo(P, p) /\ p \notin UpTo(P, q)
<1>1. \A x \in P : x[1] \in Nat /\ x[2] \in Nat /\ x = <<x[1], x[2]>>
  OBVIOUS
<1>2. p[1] # q[1] \/ p[2] # q[2]
  BY <1>1
<1>3. CASE p[1] < q[1] \/ (p[1] = q[1] /\ p[2] < q[2])
  BY <1>1, <1>3 DEF UpTo
<1>4. CASE q[1] < p[1] \/ (p[1] = q[1] /\ q[2] < p[2])
  BY <1>1, <1>4 DEF UpTo
<1>. QED
  BY <1>1, <1>2, <1>3, <1>4

LEMMA UpwardsOfOne ==
  ASSUME NEW n \in Nat
  PROVE  IsFiniteSet(1..n) /\ Cardinality(1..n) = n
BY FS_Interval

LEMMA RankExists ==
  ASSUME NEW P \in SUBSET (Nat \X Nat), IsFiniteSet(P), NEW k \in 1..Cardinality(P)
  PROVE  \E p \in P : Cardinality(UpTo(P, p)) = k
<1>. DEFINE N == Cardinality(P)
            rank == [p \in P |-> Cardinality(UpTo(P, p))]
<1>1. N \in Nat
  BY FS_CardinalityType
<1>2. ASSUME NEW p \in P
      PROVE  /\ IsFiniteSet(UpTo(P, p)) /\ Cardinality(UpTo(P, p)) \in 1..N
             /\ p \in UpTo(P, p)
  <2>1. p \in UpTo(P, p) /\ UpTo(P, p) \in SUBSET P
    BY DEF UpTo
  <2>2. IsFiniteSet(UpTo(P, p)) /\ Cardinality(UpTo(P, p)) <= N
    BY <2>1, FS_Subset
  <2>3. Cardinality(UpTo(P, p)) \in Nat /\ Cardinality(UpTo(P, p)) # 0
    BY <2>1, <2>2, FS_CardinalityType, FS_EmptySet
  <2>. QED
    BY <1>1, <2>1, <2>2, <2>3
<1>3. ASSUME NEW p \in P, NEW q \in P, UpTo(P, p) \subseteq UpTo(P, q), q \notin UpTo(P, p)
      PROVE  Cardinality(UpTo(P, p)) # Cardinality(UpTo(P, q))
  <2>1. UpTo(P, p) # UpTo(P, q) /\ UpTo(P, p) \in SUBSET UpTo(P, q)
    BY <1>2, <1>3
  <2>. QED
    BY <1>2, <2>1, FS_Subset
<1>4. ASSUME NEW p \in P, NEW q \in P, p # q
      PROVE  Cardinality(UpTo(P, p)) # Cardinality(UpTo(P, q))
  BY <1>3, <1>4, UpToOrdered
<1>5. rank \in Injection(P, 1..N)
  <2>1. rank \in [P -> 1..N]
    BY <1>2
  <2>2. \A p, q \in P : rank[p] = rank[q] => p = q
    BY <1>4
  <2>. QED
    BY <2>1, <2>2 DEF Injection, IsInjective
<1>6. IsFiniteSet(1..N) /\ Cardinality(1..N) = N
  BY <1>1, UpwardsOfOne
<1>7. rank \in Surjection(P, 1..N)
  BY <1>5, <1>6, FS_Injection
<1>8. PICK p \in P : rank[p] = k
  BY <1>7 DEF Surjection
<1>. QED
  BY <1>8

LEMMA DanglingType ==
  ASSUME NEW ms \in Messages
  PROVE  /\ IsFiniteSet(Dangling(ms)) /\ Dangling(ms) \in SUBSET (Nat \X Nat)
         /\ \A p \in Dangling(ms) : p[1] \in DOMAIN ms /\ p[2] \in DOMAIN ms[p[1]].uses
                                    /\ UseAt(ms, p) \in Use
<1>1. DOMAIN ms = 1..Len(ms) /\ Len(ms) \in Nat
  BY DEF Messages
<1>2. \A i \in DOMAIN ms : ms[i].uses \in Seq(Use)
  BY MessageFields DEF Messages
<1>. DEFINE Of == [i \in 1..Len(ms) |-> {i} \X DOMAIN ms[i].uses]
            S == {Of[i] : i \in 1..Len(ms)}
<1>3. IsFiniteSet(S)
  <2>1. Of \in Surjection(1..Len(ms), S)
    BY DEF Surjection
  <2>2. IsFiniteSet(1..Len(ms))
    BY <1>1, UpwardsOfOne
  <2>. HIDE DEF Of, S
  <2>. QED
    BY <2>1, <2>2, FS_Surjection
<1>4. \A T \in S : IsFiniteSet(T)
  <2>1. ASSUME NEW i \in 1..Len(ms) PROVE IsFiniteSet(Of[i])
    <3>1. IsFiniteSet({i})
      BY FS_Singleton
    <3>2. ms[i].uses \in Seq(Use)
      BY <1>1, <1>2
    <3>4. Len(ms[i].uses) \in Nat /\ DOMAIN ms[i].uses = 1..Len(ms[i].uses)
      BY <3>2
    <3>3. IsFiniteSet({i} \X DOMAIN ms[i].uses)
      BY <3>1, <3>4, UpwardsOfOne, FS_Product
    <3>. QED
      BY <3>3
  <2>. HIDE DEF Of
  <2>. QED
    BY <2>1
<1>5. Places(ms) = UNION S
  BY <1>1 DEF Places
<1>6. IsFiniteSet(Places(ms))
  <2>. HIDE DEF S
  <2>. QED
    BY <1>3, <1>4, <1>5, FS_UNION
<1>7. \A p \in Places(ms) : p[1] \in DOMAIN ms /\ p[2] \in DOMAIN ms[p[1]].uses
                            /\ p = <<p[1], p[2]>>
  BY DEF Places
<1>8. ASSUME NEW p \in Places(ms) PROVE p \in Nat \X Nat /\ UseAt(ms, p) \in Use
  <2>1. p[1] \in DOMAIN ms /\ p[2] \in DOMAIN ms[p[1]].uses /\ p = <<p[1], p[2]>>
    BY <1>7
  <2>2. ms[p[1]].uses \in Seq(Use)
    BY <1>2, <2>1
  <2>3. p[1] \in Nat
    BY <1>1, <2>1
  <2>4. p[2] \in Nat /\ ms[p[1]].uses[p[2]] \in Use
    BY <2>1, <2>2
  <2>. QED
    BY <2>1, <2>3, <2>4 DEF UseAt
<1>9. Dangling(ms) \in SUBSET Places(ms)
  BY DEF Dangling
<1>10. IsFiniteSet(Dangling(ms))
  BY <1>6, <1>9, FS_Subset
<1>. QED
  BY <1>7, <1>8, <1>9, <1>10

\* What a repair adds to a transcript.
Synthetic(ms) ==
  [k \in 1..Cardinality(Dangling(ms)) |->
     Result(UseAt(ms, CHOOSE p \in Dangling(ms) :
                        Cardinality(UpTo(Dangling(ms), p)) = k).id, "interrupted", 1)]

LEMMA RepairedIs == ASSUME NEW ms PROVE Repaired(ms) = ms \o Synthetic(ms)
BY DEF Repaired, Synthetic

LEMMA SyntheticType ==
  ASSUME NEW ms \in Messages
  PROVE  Synthetic(ms) \in Messages
<1>1. Cardinality(Dangling(ms)) \in Nat
  BY DanglingType, FS_CardinalityType
<1>2. ASSUME NEW k \in 1..Cardinality(Dangling(ms)) PROVE Synthetic(ms)[k] \in Message
  <2>1. \E p \in Dangling(ms) : Cardinality(UpTo(Dangling(ms), p)) = k
    BY DanglingType, RankExists
  <2>. DEFINE p == CHOOSE p \in Dangling(ms) : Cardinality(UpTo(Dangling(ms), p)) = k
  <2>2. p \in Dangling(ms)
    BY <2>1
  <2>3. Synthetic(ms)[k] = Result(UseAt(ms, p).id, "interrupted", 1)
    BY DEF Synthetic
  <2>. HIDE DEF p
  <2>4. UseAt(ms, p) \in Use
    BY <2>2, DanglingType
  <2>5. UseAt(ms, p).id \in Ids
    BY <2>4 DEF Use
  <2>. QED
    BY <2>3, <2>5, MessageTypes
<1>3. DOMAIN Synthetic(ms) = 1..Cardinality(Dangling(ms))
  BY DEF Synthetic
<1>4. Synthetic(ms) \in [1..Cardinality(Dangling(ms)) -> Message]
  BY <1>2, <1>3 DEF Synthetic
<1>. QED
  BY <1>1, <1>4 DEF Messages

LEMMA RepairedType ==
  ASSUME NEW ms \in Messages
  PROVE  Repaired(ms) \in Messages
<1>1. ms \in Seq(Message) /\ Synthetic(ms) \in Seq(Message)
  BY SyntheticType DEF Messages
<1>2. ms \o Synthetic(ms) \in Seq(Message)
  BY <1>1
<1>. QED
  BY <1>2, RepairedIs DEF Messages

-----------------------------------------------------------------------------
(* The prompt.                                                             *)

LEMMA OmittedType ==
  ASSUME NEW ms \in Messages, NEW keep \in 1..Len(ms)
  PROVE  /\ Omitted(ms, keep) \in 0..(Len(ms) - keep)
         /\ Omitted(ms, keep) = 0 \/ ms[Omitted(ms, keep) + 1].role # "tool"
<1>. DEFINE S == {n \in 0 .. (Len(ms) - keep) : n = 0 \/ ~UnsafeStart(ms[n + 1])}
<1>1. Len(ms) - keep \in Nat
  BY DEF Messages
<1>2. S \in SUBSET (0..(Len(ms) - keep)) /\ S # {}
  <2>1. 0 \in S
    BY <1>1
  <2>. QED
    BY <2>1
<1>3. Omitted(ms, keep) = Max(S)
  BY DEF Omitted
<1>. HIDE DEF S
<1>4. Max(S) \in S
  BY <1>1, <1>2, GreatestBounded
<1>. QED
  BY <1>3, <1>4 DEF S, UnsafeStart

LEMMA KeepCountType ==
  ASSUME NEW ms \in Messages, Compacts(ms)
  PROVE  KeepCount(ms) \in 1..Len(ms)
<1>. DEFINE recent == Max({RecentMessages, 1})
            top == Min({recent, Len(ms)})
            S == {k \in 1 .. top : k = 1 \/ Estimate(CompactedWindow(ms, k)) <= MaxInput}
<1>1. RecentMessages \in Nat
  BY ConstantsAssumption
<1>2. Len(ms) \in Nat /\ Len(ms) >= 1
  BY <1>1 DEF Compacts, Messages
<1>3. recent \in Nat /\ recent >= 1
  <2>1. \A x, y \in Nat : Max({x, y}) = IF x >= y THEN x ELSE y
    BY DEF Max
  <2>. QED
    BY <1>1, <2>1
<1>4. top \in 1..Len(ms)
  <2>1. \A x, y \in Nat : Min({x, y}) = IF x <= y THEN x ELSE y
    BY DEF Min
  <2>. HIDE DEF recent
  <2>. QED
    BY <1>2, <1>3, <2>1
<1>5. S \in SUBSET (0..Len(ms)) /\ 1 \in S
  BY <1>2, <1>4
<1>6. KeepCount(ms) = Max(S)
  BY DEF KeepCount
<1>7. \A k \in S : k \in 1..top
  OBVIOUS
<1>. HIDE DEF S, top
<1>8. Max(S) \in S
  BY <1>2, <1>5, GreatestBounded
<1>. QED
  BY <1>2, <1>4, <1>6, <1>7, <1>8

\* A prompt is the transcript, or a digest and what follows a place after which no
\* result stands.
LEMMA PromptIs ==
  ASSUME NEW ms \in Messages
  PROVE  /\ \A old \in Nat : DigestOf(ms, old) \in Nat
         /\ \/ PromptWindow(ms) = ms
            \/ \E n \in 0..(Len(ms) - 1) : \E d :
                 /\ n = 0 \/ ms[n + 1].role # "tool"
                 /\ PromptWindow(ms) = <<Digest(d)>> \o SubSeq(ms, n + 1, Len(ms))
<1>1. CASE ~Compacts(ms)
  BY <1>1 DEF DigestOf, PromptWindow
<1>2. CASE Compacts(ms)
  <2>. DEFINE keep == KeepCount(ms)
              n == Omitted(ms, keep)
  <2>1. keep \in 1..Len(ms)
    BY <1>2, KeepCountType
  <2>2. n \in 0..(Len(ms) - keep) /\ (n = 0 \/ ms[n + 1].role # "tool")
    BY <2>1, OmittedType
  <2>3. /\ \A old : DigestOf(ms, old) = n
        /\ PromptWindow(ms) = <<Digest(n)>> \o SubSeq(ms, n + 1, Len(ms))
    BY <1>2 DEF DigestOf, PromptWindow, CompactedWindow
  <2>4. Len(ms) \in Nat
    BY DEF Messages
  <2>. HIDE DEF keep, n
  <2>5. n \in 0..(Len(ms) - 1) /\ n \in Nat
    BY <2>1, <2>2, <2>4
  <2>. QED
    BY <2>2, <2>3, <2>5
<1>. QED
  BY <1>1, <1>2

LEMMA PromptType ==
  ASSUME NEW ms \in Messages
  PROVE  PromptWindow(ms) \in Messages
<1>1. CASE PromptWindow(ms) = ms
  BY <1>1
<1>2. ASSUME NEW n \in 0..(Len(ms) - 1), NEW d,
             PromptWindow(ms) = <<Digest(d)>> \o SubSeq(ms, n + 1, Len(ms))
      PROVE  PromptWindow(ms) \in Messages
  <2>1. Digest(d) \in Message
    BY MessageTypes
  <2>2. SubSeq(ms, n + 1, Len(ms)) \in Seq(Message) /\ <<Digest(d)>> \in Seq(Message)
    BY <2>1 DEF Messages
  <2>. QED
    BY <1>2, <2>2 DEF Messages
<1>. QED
  BY <1>1, <1>2, PromptIs

-----------------------------------------------------------------------------
(* What the steps do to the state of the machine.                          *)

\* A state inside its budget.
Typed(s) == s \in AgentState /\ s.turns <= MaxModelTurns /\ s.calls <= MaxToolCalls

TypeInv ==
  /\ TypeOK
  /\ ckpt # NoCkpt => Typed(ckpt.state) /\ (ckpt.interrupted => ckpt.state.pendingHuman \in Use)

\* s is the state but for its messages and the queue.
Keeps(s) == s.pendingHuman = state.pendingHuman /\ s.humanInput = state.humanInput

\* s has one more message, the result of the use in front.
Gives(s, kind) ==
  \E size \in Nat : s.messages = Append(state.messages, Result(Current.id, kind, size))

LEMMA Budgets ==
  /\ MaxModelTurns \in Nat /\ MaxToolCalls \in Nat /\ MaxResultSize \in Nat
  /\ MaxUses \in Nat /\ MaxRuns \in Nat /\ MaxPerTurn \in Nat
  /\ NoUse \notin Ids /\ NoUse \notin Use
BY ConstantsAssumption

LEMMA UnitSize == 1 \in Nat
OBVIOUS

LEMMA EmptyStateFits == Typed(EmptyState)
BY EmptyStateType, Budgets DEF Typed, EmptyState

LEMMA Updates ==
  ASSUME NEW s \in AgentState
  PROVE  /\ \A m \in Messages : [s EXCEPT !.messages = m] \in AgentState
         /\ \A q \in Seq(Use) : [s EXCEPT !.pending = q] \in AgentState
         /\ \A h \in Use \cup {NoUse} : [s EXCEPT !.pendingHuman = h] \in AgentState
         /\ \A h \in Ids \cup {NoUse} : [s EXCEPT !.humanInput = h] \in AgentState
         /\ \A n \in Nat : [s EXCEPT !.turns = n] \in AgentState
         /\ \A n \in Nat : [s EXCEPT !.calls = n] \in AgentState
         /\ \A n \in Nat : [s EXCEPT !.digest = n] \in AgentState
BY DEF AgentState, Messages

LEMMA CurrentType ==
  ASSUME state \in AgentState, state.pending # <<>>
  PROVE  /\ Current \in Use /\ Current.id \in Ids /\ Current = state.pending[1]
         /\ Tail(state.pending) \in Seq(Use)
         /\ Len(Tail(state.pending)) = Len(state.pending) - 1
         /\ Len(state.pending) \in Nat /\ Len(state.pending) >= 1
         /\ \A k \in 1..Len(Tail(state.pending)) :
              k + 1 \in 1..Len(state.pending) /\ Tail(state.pending)[k] = state.pending[k + 1]
<1>1. state.pending \in Seq(Use)
  BY StateFields
<1>2. Len(state.pending) >= 1 /\ Current = state.pending[1] /\ Current \in Use
  BY <1>1 DEF Current
<1>. QED
  BY <1>1, <1>2 DEF Use

LEMMA PoppedFields ==
  ASSUME Typed(state), state.pending # <<>>
  PROVE  /\ Typed(Popped) /\ Keeps(Popped)
         /\ Popped.messages = state.messages /\ Popped.pending = Tail(state.pending)
         /\ Popped.calls = state.calls
<1>1. state \in AgentState /\ Tail(state.pending) \in Seq(Use)
  BY CurrentType DEF Typed
<1>2. Popped \in AgentState
  BY <1>1, Updates DEF Popped
<1>. QED
  BY <1>1, <1>2 DEF Popped, Typed, Keeps, AgentState

LEMMA ResultFields ==
  ASSUME NEW s, Typed(s), state \in AgentState, state.pending # <<>>, NEW size \in Nat,
         NEW kind \in {"result", "denied", "answer", "wrong_answer", "interrupted"}
  PROVE  LET w == WithResult(s, kind, size)
         IN  /\ Typed(w) /\ w.pending = s.pending
             /\ w.pendingHuman = s.pendingHuman /\ w.humanInput = s.humanInput
             /\ w.messages = Append(s.messages, Result(Current.id, kind, size))
<1>. DEFINE ms == Append(s.messages, Result(Current.id, kind, size))
<1>1. Result(Current.id, kind, size) \in Message
  BY CurrentType, MessageTypes
<1>2. s \in AgentState /\ s.messages \in Messages
  BY StateFields DEF Typed
<1>3. ms \in Messages
  BY <1>1, <1>2 DEF Messages
<1>4. WithResult(s, kind, size) = [s EXCEPT !.messages = ms]
  BY DEF WithResult
<1>. HIDE DEF ms
<1>5. [s EXCEPT !.messages = ms] \in AgentState
  BY <1>2, <1>3, Updates
<1>. QED
  BY <1>2, <1>4, <1>5 DEF Typed, AgentState, ms

LEMMA CountedFields ==
  ASSUME NEW s, Typed(s), s.calls = state.calls, InBudget
  PROVE  LET w == [s EXCEPT !.calls = @ + 1]
         IN  /\ Typed(w) /\ w.pending = s.pending /\ w.messages = s.messages
             /\ w.pendingHuman = s.pendingHuman /\ w.humanInput = s.humanInput
<1>1. s \in AgentState /\ s.calls \in Nat /\ s.calls + 1 <= MaxToolCalls /\ s.turns <= MaxModelTurns
  BY StateFields, Budgets DEF Typed, InBudget
<1>2. [s EXCEPT !.calls = s.calls + 1] \in AgentState
  BY <1>1, Updates
<1>. QED
  BY <1>1, <1>2 DEF Typed, AgentState

-----------------------------------------------------------------------------
(* A use in front is taken off the queue: silently, as the question the    *)
(* human is asked, or with a result.                                       *)

Drops == state'.messages = state.messages /\ state'.pending = Tail(state.pending)
Takes(kind) == Gives(state', kind) /\ state'.pending = Tail(state.pending)

LEMMA OutOfToolCallsDoes ==
  ASSUME TypeInv, OutOfToolCalls
  PROVE  Typed(state') /\ Drops /\ Keeps(state') /\ ckpt' = [interrupted |-> FALSE, state |-> state', next |-> step']
         /\ step' = "idle" /\ called' = called
BY PoppedFields DEF OutOfToolCalls, Dispatching, Complete, Advance, Saved, NoCall, Drops, TypeInv,
   TypeOK, Typed, Keeps

LEMMA TerminalToolDoes ==
  ASSUME TypeInv, TerminalTool
  PROVE  Typed(state') /\ Drops /\ Keeps(state') /\ ckpt' = [interrupted |-> FALSE, state |-> state', next |-> step']
         /\ step' = "idle" /\ called' = called
BY PoppedFields DEF TerminalTool, Dispatching, Complete, Advance, Saved, NoCall, Drops, TypeInv,
   TypeOK, Typed, Keeps

LEMMA AskUserDoes ==
  ASSUME TypeInv, AskUser
  PROVE  /\ Typed(state') /\ Drops /\ state'.pendingHuman = Current
         /\ state'.humanInput = state.humanInput /\ state.humanInput = NoUse
         /\ Current.tool = "ask_user"
         /\ ckpt' = [interrupted |-> TRUE, state |-> state', next |-> step']
         /\ step' = "idle" /\ called' = called
<1>1. Typed(state) /\ state.pending # <<>>
  BY DEF AskUser, Dispatching, TypeInv, TypeOK, Typed
<1>2. Typed(Popped) /\ Popped.messages = state.messages /\ Popped.pending = Tail(state.pending)
      /\ Popped.humanInput = state.humanInput /\ Popped \in AgentState
  BY <1>1, PoppedFields DEF Keeps, Typed
<1>. DEFINE s == [Popped EXCEPT !.pendingHuman = Current]
<1>3. s \in AgentState
  BY <1>1, <1>2, CurrentType, Updates DEF Typed
<1>4. Typed(s) /\ s.messages = state.messages /\ s.pending = Tail(state.pending)
      /\ s.humanInput = state.humanInput /\ s.pendingHuman = Current
  BY <1>2, <1>3 DEF Typed, AgentState
<1>5. state' = s /\ ckpt' = [interrupted |-> TRUE, state |-> s, next |-> step'] /\ step' = "idle"
      /\ called' = called /\ Current.tool = "ask_user" /\ state.humanInput = NoUse
  BY DEF AskUser, Interrupt, NoCall
<1>. QED
  BY <1>4, <1>5 DEF Drops

LEMMA EmitArtifactDoes ==
  ASSUME TypeInv, EmitArtifact
  PROVE  /\ Typed(state') /\ Takes("result") /\ Keeps(state') /\ called' = called
         /\ \/ ckpt' = [interrupted |-> FALSE, state |-> state', next |-> step'] /\ step' = "idle"
            \/ ckpt' = ckpt /\ step' = step
<1>1. Typed(state) /\ state.pending # <<>> /\ InBudget
  BY DEF EmitArtifact, Dispatching, TypeInv, TypeOK, Typed
<1>2. Typed(Popped) /\ Popped.messages = state.messages /\ Popped.pending = Tail(state.pending)
      /\ Keeps(Popped) /\ Popped.calls = state.calls /\ state \in AgentState
  BY <1>1, PoppedFields DEF Typed
<1>. DEFINE c == [Popped EXCEPT !.calls = @ + 1]
            s == WithResult(c, "result", 1)
<1>3. Typed(c) /\ c.pending = Popped.pending /\ c.messages = Popped.messages /\ Keeps(c)
  BY <1>1, <1>2, CountedFields DEF Keeps
<1>. HIDE DEF c
<1>4. Typed(s) /\ s.pending = c.pending /\ s.pendingHuman = c.pendingHuman
      /\ s.humanInput = c.humanInput
      /\ s.messages = Append(c.messages, Result(Current.id, "result", 1))
  BY <1>1, <1>2, <1>3, UnitSize, ResultFields
<1>5. /\ state' = s /\ called' = called
      /\ \/ ckpt' = [interrupted |-> FALSE, state |-> s, next |-> step'] /\ step' = "idle"
         \/ ckpt' = ckpt /\ step' = step
  BY DEF EmitArtifact, Complete, Advance, Saved, Continue, NoCall, c
<1>. HIDE DEF s
<1>. QED
  BY <1>2, <1>3, <1>4, <1>5 DEF Takes, Gives, Keeps

LEMMA CallToolDoes ==
  ASSUME TypeInv, NEW size \in ResultSizes, CallTool(size)
  PROVE  /\ Typed(state') /\ Takes("result") /\ Keeps(state')
         /\ called' = [called EXCEPT ![Current.id] = @ + 1]
         /\ ckpt' = ckpt /\ step' = step /\ Current.tool # "ask_user"
<1>1. Typed(state) /\ state.pending # <<>> /\ InBudget
  BY DEF CallTool, Dispatching, TypeInv, TypeOK, Typed
<1>2. Typed(Popped) /\ Popped.messages = state.messages /\ Popped.pending = Tail(state.pending)
      /\ Keeps(Popped) /\ Popped.calls = state.calls /\ state \in AgentState
  BY <1>1, PoppedFields DEF Typed
<1>. DEFINE c == [Popped EXCEPT !.calls = @ + 1]
            s == WithResult(c, "result", ArchivedSize(size))
<1>3. Typed(c) /\ c.pending = Popped.pending /\ c.messages = Popped.messages /\ Keeps(c)
  BY <1>1, <1>2, CountedFields DEF Keeps
<1>. HIDE DEF c
<1>4. ArchivedSize(size) \in Nat
  BY ConstantsAssumption DEF ArchivedSize
<1>5. Typed(s) /\ s.pending = c.pending /\ s.pendingHuman = c.pendingHuman
      /\ s.humanInput = c.humanInput
      /\ s.messages = Append(c.messages, Result(Current.id, "result", ArchivedSize(size)))
  BY <1>1, <1>2, <1>3, <1>4, ResultFields
<1>6. /\ state' = s /\ called' = [called EXCEPT ![Current.id] = @ + 1]
      /\ ckpt' = ckpt /\ step' = step /\ Current.tool # "ask_user"
  BY DEF CallTool, Continue, RegistryTool, c
<1>. HIDE DEF s
<1>. QED
  BY <1>2, <1>3, <1>4, <1>5, <1>6 DEF Takes, Gives, Keeps

LEMMA DenyToolDoes ==
  ASSUME TypeInv, DenyTool
  PROVE  /\ Typed(state') /\ Takes("denied") /\ Keeps(state') /\ called' = called
         /\ ckpt' = ckpt /\ step' = step
<1>1. Typed(state) /\ state.pending # <<>> /\ InBudget
  BY DEF DenyTool, Dispatching, TypeInv, TypeOK, Typed
<1>2. Typed(Popped) /\ Popped.messages = state.messages /\ Popped.pending = Tail(state.pending)
      /\ Keeps(Popped) /\ Popped.calls = state.calls /\ state \in AgentState
  BY <1>1, PoppedFields DEF Typed
<1>. DEFINE c == [Popped EXCEPT !.calls = @ + 1]
            s == WithResult(c, "denied", 1)
<1>3. Typed(c) /\ c.pending = Popped.pending /\ c.messages = Popped.messages /\ Keeps(c)
  BY <1>1, <1>2, CountedFields DEF Keeps
<1>. HIDE DEF c
<1>4. Typed(s) /\ s.pending = c.pending /\ s.pendingHuman = c.pendingHuman
      /\ s.humanInput = c.humanInput
      /\ s.messages = Append(c.messages, Result(Current.id, "denied", 1))
  BY <1>1, <1>2, <1>3, UnitSize, ResultFields
<1>5. state' = s /\ called' = called /\ ckpt' = ckpt /\ step' = step
  BY DEF DenyTool, Continue, NoCall, c
<1>. HIDE DEF s
<1>. QED
  BY <1>2, <1>3, <1>4, <1>5 DEF Takes, Gives, Keeps

LEMMA ConsumeAnswerDoes ==
  ASSUME TypeInv, ConsumeAnswer
  PROVE  /\ Typed(state') /\ state'.pendingHuman = NoUse /\ state'.humanInput = NoUse
         /\ IF state.humanInput = Current.id THEN Takes("answer") ELSE Takes("wrong_answer")
         /\ called' = called /\ ckpt' = ckpt /\ step' = step
<1>1. Typed(state) /\ state.pending # <<>> /\ InBudget
  BY DEF ConsumeAnswer, Dispatching, TypeInv, TypeOK, Typed
<1>2. Typed(Popped) /\ Popped.messages = state.messages /\ Popped.pending = Tail(state.pending)
      /\ Popped.calls = state.calls /\ state \in AgentState /\ Popped \in AgentState
  BY <1>1, PoppedFields DEF Typed
<1>. DEFINE h == [Popped EXCEPT !.humanInput = NoUse]
            e == [Popped EXCEPT !.humanInput = NoUse, !.pendingHuman = NoUse]
<1>3. h \in AgentState /\ e = [h EXCEPT !.pendingHuman = NoUse]
  BY <1>2, Updates
<1>4. e \in AgentState
  <2>. HIDE DEF h, e
  <2>. QED
    BY <1>3, Updates
<1>5. Typed(e) /\ e.pending = Popped.pending /\ e.messages = Popped.messages
      /\ e.humanInput = NoUse /\ e.pendingHuman = NoUse /\ e.calls = state.calls
  BY <1>2, <1>4 DEF Typed, AgentState
<1>6. /\ called' = called /\ ckpt' = ckpt /\ step' = step
      /\ state' = IF state.humanInput = Current.id
                  THEN WithResult([e EXCEPT !.calls = @ + 1], "answer", 1)
                  ELSE WithResult(e, "wrong_answer", 1)
  BY DEF ConsumeAnswer, Continue, NoCall
<1>. HIDE DEF e
<1>7. CASE state.humanInput = Current.id
  <2>. DEFINE c == [e EXCEPT !.calls = @ + 1]
              s == WithResult(c, "answer", 1)
  <2>1. Typed(c) /\ c.pending = e.pending /\ c.messages = e.messages
        /\ c.humanInput = NoUse /\ c.pendingHuman = NoUse
    BY <1>1, <1>5, CountedFields
  <2>2. state' = s
    BY <1>6, <1>7
  <2>. HIDE DEF c
  <2>3. Typed(s) /\ s.pending = c.pending /\ s.pendingHuman = c.pendingHuman
        /\ s.humanInput = c.humanInput
        /\ s.messages = Append(c.messages, Result(Current.id, "answer", 1))
    BY <1>1, <1>2, <2>1, UnitSize, ResultFields
  <2>. HIDE DEF s
  <2>. QED
    BY <1>2, <1>5, <1>6, <1>7, <2>1, <2>2, <2>3 DEF Takes, Gives
<1>8. CASE state.humanInput # Current.id
  <2>. DEFINE s == WithResult(e, "wrong_answer", 1)
  <2>1. state' = s
    BY <1>6, <1>8
  <2>2. Typed(s) /\ s.pending = e.pending /\ s.pendingHuman = e.pendingHuman
        /\ s.humanInput = e.humanInput
        /\ s.messages = Append(e.messages, Result(Current.id, "wrong_answer", 1))
    BY <1>1, <1>2, <1>5, UnitSize, ResultFields
  <2>. HIDE DEF s
  <2>. QED
    BY <1>2, <1>5, <1>6, <1>8, <2>1, <2>2 DEF Takes, Gives
<1>. QED
  BY <1>7, <1>8

-----------------------------------------------------------------------------
(* The model answers, and runs start and resume.                           *)

\* The tool uses of a response.
UsesNamed(names) == [i \in DOMAIN names |-> [id |-> Len(uses) + i, tool |-> names[i]]]

LEMMA NamedUses ==
  ASSUME uses \in Seq(Use), NEW n \in Nat, NEW names \in [1..n -> Tools],
         Len(uses) + Len(names) <= MaxUses
  PROVE  /\ UsesNamed(names) \in Seq(Use) /\ Len(UsesNamed(names)) = n
         /\ \A k \in 1..n : UsesNamed(names)[k].id = Len(uses) + k
         /\ Len(uses) + n <= MaxUses
<1>1. names \in Seq(Tools) /\ Len(names) = n /\ DOMAIN names = 1..n
  OBVIOUS
<1>2. Len(uses) \in Nat /\ MaxUses \in Nat
  BY Budgets
<1>3. ASSUME NEW k \in 1..n
      PROVE  UsesNamed(names)[k] \in Use /\ UsesNamed(names)[k].id = Len(uses) + k
  <2>1. UsesNamed(names)[k] = [id |-> Len(uses) + k, tool |-> names[k]]
    BY <1>1 DEF UsesNamed
  <2>2. Len(uses) + k \in Ids /\ names[k] \in Tools
    BY <1>1, <1>2 DEF Ids
  <2>. QED
    BY <2>1, <2>2 DEF Use
<1>4. UsesNamed(names) \in [1..n -> Use]
  BY <1>1, <1>3 DEF UsesNamed
<1>. QED
  BY <1>1, <1>3, <1>4

\* What is queued and what a response adds to the transcript.
Cut == state'.pending = <<>> /\ step' = "idle"
       /\ \/ state'.messages = state.messages
          \/ state'.messages = Append(state.messages, Assistant(<<>>))
Queued(us) ==
  /\ state'.pending = state.pending \o us /\ step' \in {"idle", "DispatchTools"}
  /\ \/ us = <<>> /\ state'.messages = state.messages
     \/ state'.messages = Append(state.messages, Assistant(us))

LEMMA ContentFields ==
  ASSUME NEW s, Typed(s), NEW us \in Seq(Use), NEW hasText \in BOOLEAN
  PROVE  LET w == WithContent(s, hasText, us)
         IN  /\ Typed(w) /\ w.pending = s.pending
             /\ w.pendingHuman = s.pendingHuman /\ w.humanInput = s.humanInput
             /\ \/ us = <<>> /\ w.messages = s.messages
                \/ w.messages = Append(s.messages, Assistant(us))
<1>. DEFINE ms == Append(s.messages, Assistant(us))
<1>1. s \in AgentState /\ s.messages \in Messages
  BY StateFields DEF Typed
<1>2. Assistant(us) \in Message
  BY MessageTypes
<1>3. ms \in Messages
  BY <1>1, <1>2 DEF Messages
<1>4. WithContent(s, hasText, us) = IF hasText \/ us # <<>> THEN [s EXCEPT !.messages = ms] ELSE s
  BY DEF WithContent
<1>. HIDE DEF ms
<1>5. [s EXCEPT !.messages = ms] \in AgentState
  BY <1>1, <1>3, Updates
<1>6. CASE hasText \/ us # <<>>
  BY <1>1, <1>4, <1>5, <1>6 DEF Typed, AgentState, ms
<1>7. CASE ~(hasText \/ us # <<>>)
  BY <1>4, <1>7
<1>. QED
  BY <1>6, <1>7

LEMMA RequestedFields ==
  ASSUME Typed(state), state.turns < MaxModelTurns
  PROVE  /\ Typed(Requested) /\ Keeps(Requested)
         /\ Requested.messages = state.messages /\ Requested.pending = state.pending
<1>. DEFINE d == DigestOf(state.messages, state.digest)
            t == [state EXCEPT !.turns = state.turns + 1]
<1>1. state \in AgentState /\ state.messages \in Messages /\ state.digest \in Nat
      /\ state.turns \in Nat /\ state.turns + 1 <= MaxModelTurns
  BY StateFields, Budgets DEF Typed
<1>2. d \in Nat /\ t \in AgentState
  BY <1>1, PromptIs, Updates
<1>3. Requested = [t EXCEPT !.digest = d]
  BY <1>1 DEF Requested, AgentState
<1>. HIDE DEF d
<1>4. Requested \in AgentState
  <2>. HIDE DEF t
  <2>. QED
    BY <1>2, <1>3, Updates
<1>. QED
  BY <1>1, <1>3, <1>4 DEF Typed, AgentState, Keeps

LEMMA ModelStepDoes ==
  ASSUME TypeInv, NEW n \in Nat, NEW names \in [1..n -> Tools],
         NEW hasText \in BOOLEAN, NEW truncated \in BOOLEAN, NEW final \in BOOLEAN,
         ModelStep(names, hasText, truncated, final)
  PROVE  /\ Typed(state') /\ Keeps(state') /\ (Cut \/ Queued(UsesNamed(names)))
         /\ ckpt' = [interrupted |-> FALSE, state |-> state', next |-> step']
         /\ uses' = uses \o UsesNamed(names) /\ Len(uses) + Len(names) <= MaxUses
         /\ prompt' = PromptWindow(state.messages)
<1>. DEFINE us == UsesNamed(names)
<1>1. Typed(state) /\ state.turns < MaxModelTurns /\ uses \in Seq(Use)
      /\ Len(uses) + Len(names) <= MaxUses
  BY DEF ModelStep, TypeInv, TypeOK, Typed
<1>2. us \in Seq(Use)
  BY <1>1, NamedUses
<1>3. uses' = uses \o us /\ prompt' = PromptWindow(state.messages)
      /\ Respond(hasText, us, truncated, final)
  BY DEF ModelStep, UsesNamed
<1>. HIDE DEF us
<1>4. Typed(Requested) /\ Keeps(Requested) /\ Requested \in AgentState
      /\ Requested.messages = state.messages /\ Requested.pending = state.pending
  BY <1>1, RequestedFields DEF Typed
<1>. DEFINE queued == [Requested EXCEPT !.pending = @ \o us]
            cut == [queued EXCEPT !.pending = <<>>]
<1>5. state.pending \o us \in Seq(Use) /\ <<>> \in Seq(Use)
  BY <1>1, <1>2, StateFields DEF Typed
<1>6. /\ queued = [Requested EXCEPT !.pending = state.pending \o us]
      /\ cut = [Requested EXCEPT !.pending = <<>>]
  BY <1>4 DEF AgentState
<1>7. /\ queued \in AgentState /\ cut \in AgentState
  BY <1>4, <1>5, <1>6, Updates
<1>8. /\ Typed(queued) /\ Keeps(queued) /\ queued.messages = state.messages
      /\ queued.pending = state.pending \o us
  BY <1>4, <1>6, <1>7 DEF Typed, Keeps, AgentState
<1>9. /\ Typed(cut) /\ Keeps(cut) /\ cut.messages = state.messages
      /\ cut.pending = <<>>
  BY <1>4, <1>6, <1>7 DEF Typed, Keeps, AgentState
<1>. HIDE DEF queued
<1>10. CASE truncated
  <2>. DEFINE w == WithContent(cut, hasText, <<>>)
  <2>1. Complete(w)
    BY <1>3, <1>10 DEF Respond, queued
  <2>. HIDE DEF cut
  <2>2. /\ Typed(w) /\ w.pending = cut.pending
        /\ w.pendingHuman = cut.pendingHuman /\ w.humanInput = cut.humanInput
        /\ (w.messages = cut.messages \/ w.messages = Append(cut.messages, Assistant(<<>>)))
    BY <1>5, <1>9, ContentFields
  <2>. HIDE DEF w
  <2>. QED
    BY <1>1, <1>3, <1>9, <2>1, <2>2 DEF Complete, Advance, Saved, Cut, Keeps, us
<1>11. CASE ~truncated
  <2>. DEFINE w == WithContent(queued, hasText, us)
  <2>1. /\ state' = w /\ step' \in {"idle", "DispatchTools"}
        /\ ckpt' = [interrupted |-> FALSE, state |-> w, next |-> step']
    BY <1>3, <1>11 DEF Respond, queued, Complete, Advance, Saved
  <2>2. /\ Typed(w) /\ w.pending = queued.pending
        /\ w.pendingHuman = queued.pendingHuman /\ w.humanInput = queued.humanInput
        /\ \/ us = <<>> /\ w.messages = queued.messages
           \/ w.messages = Append(queued.messages, Assistant(us))
    BY <1>2, <1>8, ContentFields
  <2>. HIDE DEF w
  <2>. QED
    BY <1>1, <1>3, <1>8, <2>1, <2>2 DEF Queued, Keeps, us
<1>. QED
  BY <1>10, <1>11

LEMMA AnswersType == ASSUME TypeInv PROVE Answers \subseteq Ids \cup {NoUse}
<1>1. \A u \in ToSet(uses) : u \in Use
  BY DEF ToSet, TypeInv, TypeOK
<1>. QED
  BY <1>1 DEF Answers, Use

\* The transcript a start finds.
Inherited == IF ckpt = NoCkpt THEN <<>> ELSE ckpt.state.messages

LEMMA StartDoes ==
  ASSUME TypeInv, NEW input \in Answers, Start(input)
  PROVE  /\ Typed(state') /\ Inherited \in Messages
         /\ state'.messages = Repaired(Inherited) \o <<Text("user")>>
         /\ state'.pending = <<>> /\ state'.pendingHuman = NoUse /\ state'.humanInput = input
         /\ step' \in {"PrepareTurn", "ModelStep", "DispatchTools"}
         /\ answered' = NoUse /\ runs' \in 0..MaxRuns
         /\ UNCHANGED <<ckpt, prompt, uses, called, resumed, skipped>>
<1>. DEFINE previous == IF ckpt = NoCkpt THEN EmptyState ELSE ckpt.state
            ms == Repaired(previous.messages) \o <<Text("user")>>
<1>1. Typed(previous) /\ previous.messages = Inherited
  BY EmptyStateFits DEF TypeInv, Inherited, EmptyState
<1>2. previous.messages \in Messages /\ previous.digest \in Nat
  BY <1>1, StateFields DEF Typed
<1>3. ms \in Messages
  <2>1. Repaired(previous.messages) \in Seq(Message) /\ <<Text("user")>> \in Seq(Message)
    BY <1>2, RepairedType, MessageTypes DEF Messages
  <2>. QED
    BY <2>1 DEF Messages
<1>14. step' \in {"PrepareTurn", "ModelStep", "DispatchTools"}
  BY DEF Start, TypeInv, TypeOK, NoCkpt
<1>4. state' = Fresh(previous, input) /\ answered' = NoUse
      /\ runs < MaxRuns /\ runs' = runs + 1 /\ UNCHANGED <<ckpt, prompt, uses, called, resumed, skipped>>
  BY DEF Start, Begin
<1>5. input \in Ids \cup {NoUse}
  BY AnswersType
<1>. HIDE DEF previous, ms
<1>. DEFINE m == [EmptyState EXCEPT !.messages = ms]
            d == [m EXCEPT !.digest = previous.digest]
            h == [d EXCEPT !.humanInput = input]
<1>6. m \in AgentState
  BY <1>3, EmptyStateType, Updates
<1>10. d \in AgentState
  <2>. HIDE DEF m
  <2>. QED
    BY <1>2, <1>6, Updates
<1>11. h \in AgentState
  <2>. HIDE DEF d
  <2>. QED
    BY <1>5, <1>10, Updates
<1>12. h.messages = ms /\ h.pending = <<>> /\ h.pendingHuman = NoUse
       /\ h.humanInput = input /\ h.turns = 0 /\ h.calls = 0
  BY <1>11 DEF AgentState, EmptyState
<1>13. state' = h
  BY <1>4 DEF Fresh, ms
<1>. HIDE DEF h
<1>7. state'.messages = ms /\ state'.pending = <<>> /\ state'.pendingHuman = NoUse
      /\ state'.humanInput = input /\ state'.turns = 0 /\ state'.calls = 0
  BY <1>12, <1>13
<1>8. state' \in AgentState
  BY <1>11, <1>13
<1>9. runs' \in 0..MaxRuns
  BY <1>4, Budgets DEF TypeInv, TypeOK
<1>. QED
  BY <1>1, <1>2, <1>4, <1>7, <1>8, <1>9, <1>14, Budgets DEF Typed, ms

LEMMA ResumeDoes ==
  ASSUME TypeInv, NEW input \in Answers, Resume(input)
  PROVE  LET s == ckpt.state
         IN  /\ ckpt # NoCkpt /\ ckpt.interrupted /\ Typed(s) /\ Typed(state')
             /\ state'.messages = s.messages /\ state'.humanInput = input
             /\ IF input # NoUse /\ s.pendingHuman # NoUse
                THEN state'.pending = <<s.pendingHuman>> \o s.pending /\ state'.pendingHuman = NoUse
                ELSE state'.pending = s.pending /\ state'.pendingHuman = s.pendingHuman
             /\ step' = "DispatchTools" /\ runs' \in 0..MaxRuns
             /\ resumed' = resumed \cup {u.id : u \in ToSet(s.pending)}
             /\ answered' = IF s.pendingHuman # NoUse /\ s.pendingHuman.id = input
                            THEN input ELSE NoUse
             /\ skipped' = IF input = NoUse THEN skipped \cup {s.pendingHuman.id} ELSE skipped
             /\ UNCHANGED <<ckpt, prompt, uses, called>>
<1>. DEFINE s == ckpt.state
            h == [s EXCEPT !.humanInput = input]
            q == [h EXCEPT !.pendingHuman = NoUse]
            a == [q EXCEPT !.pending = <<s.pendingHuman>> \o s.pending]
<1>1. /\ ckpt # NoCkpt /\ ckpt.interrupted /\ state' = ApplyResumeInput(s, input)
      /\ step' = "DispatchTools" /\ runs < MaxRuns /\ runs' = runs + 1
      /\ resumed' = resumed \cup {u.id : u \in ToSet(s.pending)}
      /\ answered' = IF s.pendingHuman # NoUse /\ s.pendingHuman.id = input THEN input ELSE NoUse
      /\ skipped' = IF input = NoUse THEN skipped \cup {s.pendingHuman.id} ELSE skipped
      /\ UNCHANGED <<ckpt, prompt, uses, called>>
  BY DEF Resume, Begin
<1>2. Typed(s) /\ s \in AgentState
  BY <1>1 DEF TypeInv, Typed
<1>3. runs' \in 0..MaxRuns
  BY <1>1, Budgets DEF TypeInv, TypeOK
<1>4. input \in Ids \cup {NoUse}
  BY AnswersType
<1>5. h \in AgentState
  BY <1>2, <1>4, Updates
<1>. HIDE DEF s
<1>6. CASE input # NoUse /\ s.pendingHuman # NoUse
  <2>1. s.pendingHuman \in Use /\ s.pending \in Seq(Use)
    BY <1>2, <1>6, StateFields
  <2>2. <<s.pendingHuman>> \o s.pending \in Seq(Use)
    BY <2>1
  <2>3. q \in AgentState
    <3>. HIDE DEF h
    <3>. QED
      BY <1>5, Updates
  <2>4. a \in AgentState
    <3>. HIDE DEF q
    <3>. QED
      BY <2>2, <2>3, Updates
  <2>5. state' = a
    BY <1>1, <1>2, <1>6 DEF ApplyResumeInput, AgentState
  <2>6. /\ a.messages = s.messages /\ a.pending = <<s.pendingHuman>> \o s.pending
        /\ a.pendingHuman = NoUse /\ a.humanInput = input /\ a.turns = s.turns /\ a.calls = s.calls
    BY <1>2, <2>4 DEF AgentState
  <2>. HIDE DEF a
  <2>7. Typed(state')
    BY <1>2, <2>4, <2>5, <2>6 DEF Typed
  <2>. QED
    BY <1>1, <1>2, <1>3, <1>6, <2>5, <2>6, <2>7 DEF s
<1>7. CASE ~(input # NoUse /\ s.pendingHuman # NoUse)
  <2>1. state' = h
    BY <1>1, <1>7 DEF ApplyResumeInput
  <2>2. /\ h.messages = s.messages /\ h.pending = s.pending /\ h.humanInput = input
        /\ h.pendingHuman = s.pendingHuman /\ h.turns = s.turns /\ h.calls = s.calls
    BY <1>2, <1>5 DEF AgentState
  <2>. HIDE DEF h
  <2>3. Typed(state')
    BY <1>2, <1>5, <2>1, <2>2 DEF Typed
  <2>. QED
    BY <1>1, <1>2, <1>3, <1>7, <2>1, <2>2, <2>3 DEF s
<1>. QED
  BY <1>6, <1>7

-----------------------------------------------------------------------------
(* Types.                                                                  *)

\* What a step leaves or makes of everything but the registry's calls.
TypesKept ==
  /\ \/ ckpt' = ckpt
     \/ /\ \E b \in BOOLEAN : /\ ckpt' = [interrupted |-> b, state |-> state', next |-> step']
                              /\ b => state'.pendingHuman \in Use
        /\ step' # "PrepareTurn"
  /\ step' \in {"idle", "PrepareTurn", "ModelStep", "DispatchTools"}
  /\ Typed(state')
  /\ prompt' \in Messages /\ uses' \in Seq(Use)
  /\ answered' \in Ids \cup {NoUse} /\ resumed' \subseteq Ids /\ skipped' \subseteq Ids
  /\ runs' \in 0..MaxRuns

LEMMA KeptTypes ==
  ASSUME TypeInv, TypesKept, called' \in [Ids -> Nat]
  PROVE  TypeInv'
<1>1. CASE ckpt' = ckpt
  <2>1. ckpt' = NoCkpt \/ ckpt' \in [interrupted : BOOLEAN, state : AgentState,
                                     next : {"idle", "ModelStep", "DispatchTools"}]
    BY <1>1 DEF TypeInv, TypeOK
  <2>2. ckpt' # NoCkpt => Typed(ckpt'.state) /\ (ckpt'.interrupted => ckpt'.state.pendingHuman \in Use)
    BY <1>1 DEF TypeInv
  <2>. QED
    BY <2>1, <2>2 DEF TypesKept, TypeInv, TypeOK, Typed, Messages
<1>2. ASSUME NEW b \in BOOLEAN, ckpt' = [interrupted |-> b, state |-> state', next |-> step'],
             b => state'.pendingHuman \in Use, step' # "PrepareTurn"
      PROVE  TypeInv'
  BY <1>2 DEF TypesKept, TypeInv, TypeOK, Typed, Messages
<1>. QED
  BY <1>1, <1>2 DEF TypesKept

LEMMA CalledType ==
  ASSUME TypeInv, state.pending # <<>>
  PROVE  [called EXCEPT ![Current.id] = @ + 1] \in [Ids -> Nat]
<1>1. Current.id \in Ids /\ called \in [Ids -> Nat]
  BY CurrentType DEF TypeInv, TypeOK
<1>. QED
  BY <1>1

LEMMA StillTypes ==
  ASSUME TypeInv
  PROVE  /\ Typed(state) /\ prompt \in Messages /\ uses \in Seq(Use) /\ called \in [Ids -> Nat]
         /\ answered \in Ids \cup {NoUse} /\ resumed \subseteq Ids /\ skipped \subseteq Ids
         /\ runs \in 0..MaxRuns
BY DEF TypeInv, TypeOK, Typed, Messages

\* The turns of the loop in dispatch_tools.
Turn == \/ OutOfToolCalls \/ AskUser \/ ConsumeAnswer \/ TerminalTool \/ EmitArtifact
        \/ (\E size \in ResultSizes : CallTool(size)) \/ DenyTool

LEMMA TurnLeaves ==
  ASSUME Turn
  PROVE  /\ step = "DispatchTools" /\ state.pending # <<>>
         /\ UNCHANGED <<prompt, uses, answered, resumed, skipped, runs>>
BY DEF Turn, OutOfToolCalls, AskUser, ConsumeAnswer, TerminalTool, EmitArtifact, CallTool, DenyTool,
   Dispatching

\* A turn of the loop takes the use in front off the queue.  What it makes of it: nothing
\* more, the question that is waited for, an answer, or another result.
TurnDoes ==
  /\ Typed(state') /\ state'.pending = Tail(state.pending)
  /\ \/ Drops /\ Keeps(state') /\ step' = "idle"
        /\ ckpt' = [interrupted |-> FALSE, state |-> state', next |-> step']
     \/ Drops /\ state'.pendingHuman = Current /\ state'.humanInput = NoUse
        /\ state.humanInput = NoUse /\ Current.tool = "ask_user" /\ step' = "idle"
        /\ ckpt' = [interrupted |-> TRUE, state |-> state', next |-> step']
     \/ state'.pendingHuman = NoUse /\ state'.humanInput = NoUse /\ ckpt' = ckpt /\ step' = step
        /\ (IF state.humanInput = Current.id THEN Gives(state', "answer")
            ELSE Gives(state', "wrong_answer"))
     \/ Keeps(state') /\ (Gives(state', "result") \/ Gives(state', "denied"))
        /\ Current.tool # "ask_user"
        /\ \/ ckpt' = [interrupted |-> FALSE, state |-> state', next |-> step'] /\ step' = "idle"
           \/ ckpt' = ckpt /\ step' = step
  /\ \/ called' = called
     \/ called' = [called EXCEPT ![Current.id] = @ + 1] /\ Current.tool # "ask_user"

LEMMA Turns ==
  ASSUME TypeInv, Turn
  PROVE  TurnDoes
<1>1. CASE OutOfToolCalls
  BY <1>1, OutOfToolCallsDoes DEF TurnDoes, Drops
<1>2. CASE AskUser
  BY <1>2, AskUserDoes DEF TurnDoes, Drops
<1>3. CASE ConsumeAnswer
  BY <1>3, ConsumeAnswerDoes DEF TurnDoes, Takes
<1>4. CASE TerminalTool
  BY <1>4, TerminalToolDoes DEF TurnDoes, Drops
<1>5. CASE EmitArtifact
  <2>1. Current.tool # "ask_user"
    BY <1>5 DEF EmitArtifact
  <2>. QED
    BY <1>5, <2>1, EmitArtifactDoes DEF TurnDoes, Takes
<1>6. ASSUME NEW size \in ResultSizes, CallTool(size) PROVE TurnDoes
  BY <1>6, CallToolDoes DEF TurnDoes, Takes
<1>7. CASE DenyTool
  <2>1. Current.tool # "ask_user"
    BY <1>7 DEF DenyTool, RegistryTool
  <2>. QED
    BY <1>7, <2>1, DenyToolDoes DEF TurnDoes, Takes
<1>. QED
  BY <1>1, <1>2, <1>3, <1>4, <1>5, <1>6, <1>7 DEF Turn

\* The steps that end a run at its last save.
Dies == state' = EmptyState /\ step' = "idle" /\ UNCHANGED <<ckpt, prompt, uses, answered, resumed, skipped, runs>>

LEMMA FailDoes == ASSUME Fail PROVE Dies /\ called' = called
BY DEF Fail, Dies

LEMMA FailAfterCallDoes ==
  ASSUME FailAfterCall
  PROVE  /\ Dies /\ state.pending # <<>> /\ Current.tool # "ask_user"
         /\ called' = [called EXCEPT ![Current.id] = @ + 1]
BY DEF FailAfterCall, Dispatching, RegistryTool, Dies

\* The transitions that only save: the next step, or the end.
Quiet ==
  /\ \/ PrepareTurn \/ OutOfTurns \/ ToolsDone
  /\ state' = state /\ ckpt' = [interrupted |-> FALSE, state |-> state, next |-> step']
  /\ step' \in {"idle", "ModelStep"} /\ UNCHANGED <<prompt, uses, called, answered, resumed, skipped, runs>>

LEMMA QuietDoes == ASSUME PrepareTurn \/ OutOfTurns \/ ToolsDone PROVE Quiet
<1>1. state' = state /\ ckpt' = [interrupted |-> FALSE, state |-> state, next |-> step'] /\ step' \in {"idle", "ModelStep"}
  BY DEF PrepareTurn, OutOfTurns, ToolsDone, Complete, Advance, Saved
<1>2. UNCHANGED <<prompt, uses, called, answered, resumed, skipped, runs>>
  BY DEF PrepareTurn, OutOfTurns, ToolsDone
<1>. QED
  BY <1>1, <1>2 DEF Quiet

ModelSteps ==
  \E n \in 0..MaxPerTurn : \E names \in [1..n -> Tools], hasText, truncated, final \in BOOLEAN :
    ModelStep(names, hasText, truncated, final)

LEMMA StepCases ==
  ASSUME Next
  PROVE  \/ Quiet \/ ModelSteps \/ Turn \/ Fail \/ FailAfterCall
         \/ \E input \in Answers : Start(input) \/ Resume(input)
<1>1. CASE MachineStep
  BY <1>1, QuietDoes DEF MachineStep, ModelSteps, Turn
<1>. QED
  BY <1>1 DEF Next

LEMMA TypeStep ==
  ASSUME TypeInv, Next
  PROVE  TypeInv'
<1>1. CASE Quiet
  BY <1>1, StillTypes, KeptTypes DEF Quiet, TypesKept
<1>2. ASSUME NEW n \in 0..MaxPerTurn, NEW names \in [1..n -> Tools], NEW hasText \in BOOLEAN,
             NEW truncated \in BOOLEAN, NEW final \in BOOLEAN,
             ModelStep(names, hasText, truncated, final)
      PROVE  TypeInv'
  <2>1. n \in Nat
    BY Budgets
  <2>2. /\ Typed(state') /\ (Cut \/ Queued(UsesNamed(names)))
        /\ ckpt' = [interrupted |-> FALSE, state |-> state', next |-> step']
        /\ uses' = uses \o UsesNamed(names) /\ Len(uses) + Len(names) <= MaxUses
        /\ prompt' = PromptWindow(state.messages)
    BY <1>2, <2>1, ModelStepDoes
  <2>3. UNCHANGED <<called, answered, resumed, skipped, runs>>
    BY <1>2 DEF ModelStep
  <2>4. uses' \in Seq(Use)
    <3>1. uses \in Seq(Use) /\ UsesNamed(names) \in Seq(Use)
      BY <2>1, <2>2, NamedUses, StillTypes
    <3>. QED
      BY <2>2, <3>1
  <2>5. prompt' \in Messages
    BY <2>2, PromptType, StateFields, StillTypes DEF Typed
  <2>6. step' \in {"idle", "ModelStep", "DispatchTools"}
    BY <2>2 DEF Cut, Queued
  <2>7. TypesKept
    BY <2>2, <2>3, <2>4, <2>5, <2>6, StillTypes DEF TypesKept
  <2>. QED
    BY <2>3, <2>7, KeptTypes, StillTypes
<1>3. CASE Turn
  <2>1. TurnDoes /\ state.pending # <<>> /\ step = "DispatchTools"
        /\ UNCHANGED <<prompt, uses, answered, resumed, skipped, runs>>
    BY <1>3, Turns, TurnLeaves
  <2>4. Current \in Use
    BY <2>1, CurrentType, StillTypes DEF Typed
  <2>2. TypesKept
    BY <2>1, <2>4, StillTypes DEF TurnDoes, TypesKept
  <2>3. called' \in [Ids -> Nat]
    BY <2>1, CalledType, StillTypes DEF TurnDoes
  <2>. QED
    BY <2>2, <2>3, KeptTypes
<1>4. CASE Fail
  BY <1>4, FailDoes, EmptyStateFits, StillTypes, KeptTypes DEF Dies, TypesKept
<1>5. CASE FailAfterCall
  <2>1. Dies /\ called' \in [Ids -> Nat]
    BY <1>5, FailAfterCallDoes, CalledType
  <2>. QED
    BY <2>1, EmptyStateFits, StillTypes, KeptTypes DEF Dies, TypesKept
<1>6. ASSUME NEW input \in Answers, Start(input) PROVE TypeInv'
  <2>1. TypesKept /\ called' = called
    BY <1>6, StartDoes, StillTypes DEF TypesKept
  <2>. QED
    BY <2>1, StillTypes, KeptTypes
<1>7. ASSUME NEW input \in Answers, Resume(input) PROVE TypeInv'
  <2>1. /\ Typed(ckpt.state) /\ Typed(state') /\ step' = "DispatchTools" /\ runs' \in 0..MaxRuns
        /\ skipped' \in {skipped, skipped \cup {ckpt.state.pendingHuman.id}}
        /\ resumed' = resumed \cup {u.id : u \in ToSet(ckpt.state.pending)}
        /\ answered' \in {input, NoUse} /\ UNCHANGED <<ckpt, prompt, uses, called>>
        /\ ckpt.state.pendingHuman \in Use
    BY <1>7, ResumeDoes DEF TypeInv
  <2>2. resumed' \subseteq Ids
    <3>1. \A u \in ToSet(ckpt.state.pending) : u \in Use
      BY <2>1, StateFields DEF ToSet, Typed
    <3>. QED
      BY <2>1, <3>1, StillTypes DEF Use
  <2>4. ckpt.state.pendingHuman.id \in Ids
    BY <2>1 DEF Use
  <2>3. TypesKept
    BY <2>1, <2>2, <2>4, AnswersType, StillTypes DEF TypesKept
  <2>. QED
    BY <2>1, <2>3, StillTypes, KeptTypes
<1>. QED
  BY <1>1, <1>2, <1>3, <1>4, <1>5, <1>6, <1>7, StepCases DEF ModelSteps

LEMMA TypeStart == Init => TypeInv
<1>. SUFFICES ASSUME Init PROVE TypeInv
  OBVIOUS
<1>1. Typed(state) /\ state \in AgentState
  BY EmptyStateFits DEF Init, Typed
<1>2. prompt \in Seq(Message) /\ uses \in Seq(Use) /\ called \in [Ids -> Nat]
      /\ answered \in Ids \cup {NoUse} /\ resumed \subseteq Ids /\ skipped \subseteq Ids
      /\ runs \in 0..MaxRuns
      /\ ckpt = NoCkpt /\ step = "idle"
  BY Budgets DEF Init
<1>. QED
  BY <1>1, <1>2 DEF TypeInv, TypeOK, Typed

LEMMA TypeInvariant == Spec => []TypeInv
<1>1. TypeInv /\ [Next]_vars => TypeInv'
  <2>. SUFFICES ASSUME TypeInv, [Next]_vars PROVE TypeInv'
    OBVIOUS
  <2>1. CASE UNCHANGED vars
    BY <2>1 DEF vars, TypeInv, TypeOK, Typed
  <2>. QED
    BY <2>1, TypeStep
<1>. QED
  BY <1>1, TypeStart, PTL DEF Spec

\* The transcript, the queue and every other part of a state keep their shape, and a run
\* its budgets of model turns and tool calls, whatever the model answers, whatever fails
\* and however often the thread is resumed.
THEOREM TypeCorrect == Spec => []TypeOK
<1>1. TypeInv => TypeOK
  BY DEF TypeInv
<1>. QED
  BY <1>1, TypeInvariant, PTL

-----------------------------------------------------------------------------
(* Calls of the registry.                                                  *)

\* No use stands in the queue twice, and the question that is waited for not at all; all
\* of them have been asked for.
Queue(s, n) ==
  /\ \A k, l \in DOMAIN s.pending : s.pending[k].id = s.pending[l].id => k = l
  /\ \A k \in DOMAIN s.pending : s.pending[k].id <= n
  /\ s.pendingHuman # NoUse =>
       /\ s.pendingHuman.tool = "ask_user" /\ s.pendingHuman.id <= n
       /\ \A k \in DOMAIN s.pending : s.pending[k].id # s.pendingHuman.id

\* A use in the queue was not called, or was in the queue of a checkpoint that was resumed.
Uncalled(s) ==
  \A k \in DOMAIN s.pending : LET u == s.pending[k] IN
    u.tool # "ask_user" /\ called[u.id] > 0 => u.id \in resumed

CallsInv ==
  /\ \A i \in Ids : called[i] > 0 => i <= Len(uses)
  /\ Queue(state, Len(uses)) /\ Uncalled(state)
  /\ ckpt # NoCkpt => Queue(ckpt.state, Len(uses))

LEMMA QueueIds ==
  ASSUME NEW q \in Seq(Use)
  PROVE  /\ Len(q) \in Nat /\ DOMAIN q = 1..Len(q)
         /\ \A k \in 1..Len(q) : q[k] \in Use /\ q[k].id \in Ids /\ q[k].id \in Nat
<1>1. Len(q) \in Nat /\ DOMAIN q = 1..Len(q) /\ \A k \in 1..Len(q) : q[k] \in Use
  OBVIOUS
<1>2. \A u \in Use : u.id \in Ids /\ u.id \in Nat
  BY DEF Use, Ids
<1>. QED
  BY <1>1, <1>2

LEMMA QueueGrows ==
  ASSUME NEW s \in AgentState, NEW n \in Nat, NEW m \in Nat, n <= m, Queue(s, n)
  PROVE  Queue(s, m)
<1>1. \A k \in DOMAIN s.pending : s.pending[k].id \in Nat
  BY StateFields, QueueIds
<1>2. s.pendingHuman # NoUse => s.pendingHuman.id \in Nat
  BY StateFields DEF Use, Ids
<1>. QED
  BY <1>1, <1>2 DEF Queue

LEMMA EmptyQueue ==
  ASSUME NEW s, NEW n, s.pending = <<>>, s.pendingHuman = NoUse
  PROVE  Queue(s, n)
BY DEF Queue

\* A turn takes the use in front away.
LEMMA QueueShrinks ==
  ASSUME state \in AgentState, state.pending # <<>>, NEW s \in AgentState, NEW n \in Nat,
         Queue(state, n), s.pending = Tail(state.pending),
         \/ s.pendingHuman = state.pendingHuman \/ s.pendingHuman = NoUse
         \/ s.pendingHuman = Current /\ Current.tool = "ask_user"
  PROVE  Queue(s, n)
<1>. DEFINE q == state.pending
<1>1. /\ q \in Seq(Use) /\ Current = q[1] /\ 1 \in DOMAIN q
      /\ \A k \in DOMAIN s.pending : k + 1 \in DOMAIN q /\ s.pending[k] = q[k + 1] /\ k \in Nat
                                     /\ k >= 1
  BY StateFields, CurrentType
<1>2. \A k, l \in DOMAIN s.pending : s.pending[k].id = s.pending[l].id => k = l
  BY <1>1 DEF Queue
<1>3. \A k \in DOMAIN s.pending : s.pending[k].id <= n /\ s.pending[k].id # Current.id
  BY <1>1 DEF Queue
<1>4. CASE s.pendingHuman = Current /\ Current.tool = "ask_user"
  BY <1>1, <1>2, <1>3, <1>4 DEF Queue
<1>5. CASE s.pendingHuman = NoUse
  BY <1>2, <1>3, <1>5 DEF Queue
<1>6. CASE s.pendingHuman = state.pendingHuman
  BY <1>1, <1>2, <1>3, <1>6 DEF Queue
<1>. QED
  BY <1>4, <1>5, <1>6

\* A response adds uses that are new.
LEMMA QueueAppends ==
  ASSUME state \in AgentState, NEW s \in AgentState, NEW n \in Nat, NEW us \in Seq(Use),
         Queue(state, n), s.pending = state.pending \o us, s.pendingHuman = state.pendingHuman,
         \A k \in 1..Len(us) : us[k].id = n + k
  PROVE  Queue(s, n + Len(us))
<1>. DEFINE q == state.pending
            p == q \o us
<1>1. q \in Seq(Use) /\ Len(q) \in Nat /\ DOMAIN q = 1..Len(q) /\ Len(us) \in Nat
  BY StateFields
<1>2. DOMAIN p = 1..(Len(q) + Len(us))
      /\ \A k \in 1..(Len(q) + Len(us)) : p[k] = IF k <= Len(q) THEN q[k] ELSE us[k - Len(q)]
  BY <1>1
<1>3. \A k \in 1..Len(q) : q[k].id \in Nat /\ q[k].id <= n
  BY <1>1, QueueIds DEF Queue
<1>4. \A k \in DOMAIN p :
        IF k <= Len(q) THEN k \in DOMAIN q /\ p[k] = q[k] /\ p[k].id <= n /\ p[k].id \in Nat
        ELSE p[k].id = n + (k - Len(q)) /\ k - Len(q) \in 1..Len(us)
  <2>1. SUFFICES ASSUME NEW k \in DOMAIN p
                 PROVE  IF k <= Len(q) THEN k \in DOMAIN q /\ p[k] = q[k] /\ p[k].id <= n /\ p[k].id \in Nat
                        ELSE p[k].id = n + (k - Len(q)) /\ k - Len(q) \in 1..Len(us)
    OBVIOUS
  <2>2. k \in 1..(Len(q) + Len(us)) /\ p[k] = IF k <= Len(q) THEN q[k] ELSE us[k - Len(q)]
    BY <1>2
  <2>. HIDE DEF p
  <2>3. CASE k <= Len(q)
    <3>1. k \in 1..Len(q)
      BY <1>1, <2>2, <2>3
    <3>. QED
      BY <1>1, <1>3, <2>2, <2>3, <3>1
  <2>4. CASE ~(k <= Len(q))
    <3>1. k - Len(q) \in 1..Len(us)
      BY <1>1, <2>2, <2>4
    <3>. QED
      BY <2>2, <2>4, <3>1
  <2>. QED
    BY <2>3, <2>4
<1>. HIDE DEF p
<1>5. \A k, l \in DOMAIN p : p[k].id = p[l].id => k = l
  <2>1. SUFFICES ASSUME NEW k \in DOMAIN p, NEW l \in DOMAIN p, p[k].id = p[l].id PROVE k = l
    OBVIOUS
  <2>2. k \in Nat /\ l \in Nat
    BY <1>1, <1>2
  <2>3. CASE k <= Len(q) /\ l <= Len(q)
    BY <1>4, <2>1, <2>3 DEF Queue
  <2>4. CASE ~(k <= Len(q) /\ l <= Len(q))
    <3>1. \A j \in DOMAIN p : IF j <= Len(q) THEN p[j].id \in Nat /\ p[j].id <= n
                              ELSE p[j].id = n + (j - Len(q)) /\ j - Len(q) >= 1
      BY <1>1, <1>2, <1>4
    <3>. QED
      BY <1>1, <2>1, <2>2, <2>4, <3>1
  <2>. QED
    BY <2>3, <2>4
<1>6. \A k \in DOMAIN p : p[k].id <= n + Len(us)
  <2>1. ASSUME NEW k \in DOMAIN p PROVE p[k].id <= n + Len(us)
    <3>1. CASE k <= Len(q)
      BY <1>1, <1>4, <3>1
    <3>2. CASE ~(k <= Len(q))
      BY <1>1, <1>2, <1>4, <3>2
    <3>. QED
      BY <3>1, <3>2
  <2>. QED
    BY <2>1
<1>7. s.pendingHuman # NoUse =>
        /\ s.pendingHuman.tool = "ask_user" /\ s.pendingHuman.id <= n + Len(us)
        /\ \A k \in DOMAIN p : p[k].id # s.pendingHuman.id
  <2>1. SUFFICES ASSUME s.pendingHuman # NoUse
                 PROVE  /\ s.pendingHuman.tool = "ask_user" /\ s.pendingHuman.id <= n + Len(us)
                        /\ \A k \in DOMAIN p : p[k].id # s.pendingHuman.id
    OBVIOUS
  <2>2. s.pendingHuman.id \in Nat /\ s.pendingHuman.tool = "ask_user" /\ s.pendingHuman.id <= n
        /\ \A k \in DOMAIN q : q[k].id # s.pendingHuman.id
    BY <2>1, StateFields DEF Queue, Use, Ids
  <2>3. ASSUME NEW k \in DOMAIN p PROVE p[k].id # s.pendingHuman.id
    <3>1. CASE k <= Len(q)
      BY <1>1, <1>4, <2>2, <3>1
    <3>2. CASE ~(k <= Len(q))
      <4>1. p[k].id > n
        BY <1>1, <1>2, <1>4, <3>2
      <4>. QED
        BY <1>1, <2>2, <4>1
    <3>. QED
      BY <3>1, <3>2
  <2>. QED
    BY <1>1, <2>2, <2>3
<1>8. s.pending = p
  BY DEF p
<1>. QED
  BY <1>5, <1>6, <1>7, <1>8 DEF Queue

\* A resumed run takes the question up first.
LEMMA QueuePrepends ==
  ASSUME NEW c \in AgentState, NEW s \in AgentState, NEW n \in Nat, Queue(c, n),
         c.pendingHuman # NoUse, s.pending = <<c.pendingHuman>> \o c.pending, s.pendingHuman = NoUse
  PROVE  Queue(s, n)
<1>. DEFINE q == c.pending
            p == <<c.pendingHuman>> \o q
<1>1. q \in Seq(Use) /\ Len(q) \in Nat /\ DOMAIN q = 1..Len(q) /\ c.pendingHuman \in Use
  BY StateFields
<1>2. DOMAIN p = 1..(Len(q) + 1)
      /\ \A k \in 1..(Len(q) + 1) : p[k] = IF k = 1 THEN c.pendingHuman ELSE q[k - 1]
  BY <1>1
<1>3. \A k \in DOMAIN p : k \in Nat /\ k >= 1 /\ (k # 1 => k - 1 \in DOMAIN q)
  BY <1>1, <1>2
<1>. HIDE DEF p
<1>4. /\ \A k, l \in DOMAIN q : q[k].id = q[l].id => k = l
      /\ \A k \in DOMAIN q : q[k].id # c.pendingHuman.id
  BY DEF Queue
<1>5. p[1] = c.pendingHuman /\ \A k \in DOMAIN p : k # 1 => p[k] = q[k - 1]
  BY <1>2
<1>6. ASSUME NEW k \in DOMAIN p, NEW l \in DOMAIN p, p[k].id = p[l].id PROVE k = l
  <2>1. CASE k = 1 /\ l = 1
    BY <2>1
  <2>2. CASE k = 1 /\ l # 1
    BY <1>3, <1>4, <1>5, <1>6, <2>2
  <2>3. CASE k # 1 /\ l = 1
    BY <1>3, <1>4, <1>5, <1>6, <2>3
  <2>4. CASE k # 1 /\ l # 1
    <3>1. k - 1 = l - 1
      BY <1>3, <1>4, <1>5, <1>6, <2>4
    <3>2. k \in Nat /\ l \in Nat
      BY <1>3
    <3>. QED
      BY <3>1, <3>2
  <2>. QED
    BY <2>1, <2>2, <2>3, <2>4
<1>7. \A k \in DOMAIN p : p[k].id <= n
  BY <1>2, <1>3 DEF Queue
<1>8. s.pending = p
  BY DEF p
<1>. QED
  BY <1>6, <1>7, <1>8 DEF Queue

\* Whatever a step does to the queue, the uses in it are those that were there, or new.
LEMMA CallsSame ==
  ASSUME CallsInv, TypeInv, Typed(state'), called' = called, uses' = uses, resumed' = resumed,
         Queue(state', Len(uses)), Uncalled(state)',
         ckpt' = ckpt \/ \E b : ckpt' = [interrupted |-> b, state |-> state', next |-> step']
  PROVE  CallsInv'
BY DEF CallsInv

LEMMA CallsTurn ==
  ASSUME CallsInv, TypeInv, Turn
  PROVE  CallsInv'
<1>1. /\ TurnDoes /\ state.pending # <<>> /\ uses' = uses /\ resumed' = resumed
      /\ state \in AgentState /\ state' \in AgentState
  BY Turns, TurnLeaves, StillTypes DEF TurnDoes, Typed
<1>2. Len(uses) \in Nat
  BY StillTypes
<1>3. Queue(state', Len(uses))
  <2>1. \/ state'.pendingHuman = state.pendingHuman \/ state'.pendingHuman = NoUse
        \/ state'.pendingHuman = Current /\ Current.tool = "ask_user"
    BY <1>1 DEF TurnDoes, Keeps
  <2>2. state'.pending = Tail(state.pending)
    BY <1>1 DEF TurnDoes
  <2>. QED
    BY <1>1, <1>2, <2>1, <2>2, QueueShrinks DEF CallsInv
<1>4. /\ Current = state.pending[1] /\ Current.id \in Ids /\ 1 \in DOMAIN state.pending
      /\ \A k \in DOMAIN state'.pending :
           /\ k + 1 \in DOMAIN state.pending /\ state'.pending[k] = state.pending[k + 1] /\ k + 1 # 1
  <2>1. state'.pending = Tail(state.pending) /\ state.pending \in Seq(Use)
    BY <1>1, StateFields DEF TurnDoes
  <2>. QED
    BY <1>1, <2>1, CurrentType
<1>5. \A i \in Ids : called'[i] = called[i] \/ (i = Current.id /\ called'[i] = called[i] + 1)
  BY <1>1, StillTypes DEF TurnDoes
<1>6. \A k \in DOMAIN state'.pending : state'.pending[k].id # Current.id
                                      /\ state'.pending[k].id \in Ids
  <2>1. \A k \in DOMAIN state.pending : state.pending[k] \in Use
    BY <1>1, StateFields
  <2>. QED
    BY <1>4, <2>1 DEF CallsInv, Queue, Use
<1>7. Uncalled(state)'
  BY <1>1, <1>4, <1>5, <1>6 DEF CallsInv, Uncalled
<1>8. \A i \in Ids : called'[i] > 0 => i <= Len(uses)
  BY <1>4, <1>5 DEF CallsInv, Queue
<1>9. ckpt' # NoCkpt => Queue(ckpt'.state, Len(uses))
  <2>1. ckpt' = ckpt \/ ckpt'.state = state'
    BY <1>1 DEF TurnDoes
  <2>. QED
    BY <1>3, <2>1 DEF CallsInv
<1>. QED
  BY <1>1, <1>3, <1>7, <1>8, <1>9 DEF CallsInv

LEMMA CallsStep ==
  ASSUME CallsInv, TypeInv, Next
  PROVE  CallsInv'
<1>1. Len(uses) \in Nat /\ state \in AgentState /\ called \in [Ids -> Nat]
  BY StillTypes DEF Typed
<1>2. CASE Quiet
  BY <1>2 DEF Quiet, CallsInv, Uncalled
<1>3. ASSUME NEW n \in 0..MaxPerTurn, NEW names \in [1..n -> Tools], NEW hasText \in BOOLEAN,
             NEW truncated \in BOOLEAN, NEW final \in BOOLEAN,
             ModelStep(names, hasText, truncated, final)
      PROVE  CallsInv'
  <2>. DEFINE us == UsesNamed(names)
  <2>1. n \in Nat
    BY Budgets
  <2>2. /\ Typed(state') /\ Keeps(state') /\ (Cut \/ Queued(us))
        /\ ckpt' = [interrupted |-> FALSE, state |-> state', next |-> step'] /\ uses' = uses \o us
        /\ Len(uses) + Len(names) <= MaxUses /\ called' = called /\ resumed' = resumed
    BY <1>3, <2>1, ModelStepDoes DEF ModelStep
  <2>3. us \in Seq(Use) /\ Len(us) = n /\ \A k \in 1..n : us[k].id = Len(uses) + k
    BY <2>1, <2>2, NamedUses, StillTypes
  <2>. HIDE DEF us
  <2>4. Len(uses') = Len(uses) + Len(us) /\ Len(uses') \in Nat /\ Len(uses) <= Len(uses')
    <3>1. uses \in Seq(Use)
      BY StillTypes
    <3>2. Len(uses \o us) = Len(uses) + Len(us) /\ Len(us) \in Nat /\ Len(uses) \in Nat
      <4>1. us \in Seq(Use)
        BY <2>3
      <4>. QED
        BY <3>1, <4>1
    <3>. QED
      BY <2>2, <3>2
  <2>5. state' \in AgentState
    BY <2>2 DEF Typed
  <2>6. CASE Cut
    <3>1. state'.pending = <<>> /\ state'.pendingHuman = state.pendingHuman
      BY <2>2, <2>6 DEF Cut, Keeps
    <3>2. Queue(state', Len(uses'))
      <4>1. DOMAIN state'.pending = {}
        BY <3>1
      <4>2. Queue(state, Len(uses'))
        BY <1>1, <2>4, QueueGrows DEF CallsInv
      <4>. QED
        BY <3>1, <4>1, <4>2 DEF Queue
    <3>3. Uncalled(state)'
      BY <3>1 DEF Uncalled
    <3>4. \A i \in Ids : called'[i] > 0 => i <= Len(uses')
      BY <1>1, <2>2, <2>4 DEF CallsInv, Ids
    <3>. QED
      BY <2>2, <3>2, <3>3, <3>4 DEF CallsInv
  <2>7. CASE Queued(us)
    <3>1. state'.pending = state.pending \o us /\ state'.pendingHuman = state.pendingHuman
      BY <2>2, <2>7 DEF Queued, Keeps
    <3>2. Queue(state', Len(uses'))
      BY <1>1, <2>3, <2>4, <2>5, <3>1, QueueAppends DEF CallsInv
    <3>3. Uncalled(state)'
      <4>1. state.pending \in Seq(Use) /\ Len(state.pending) \in Nat /\ Len(us) \in Nat
        BY <1>1, <2>3, StateFields
      <4>2. ASSUME NEW k \in DOMAIN state'.pending
            PROVE  \/ k \in DOMAIN state.pending /\ state'.pending[k] = state.pending[k]
                   \/ state'.pending[k].id > Len(uses) /\ state'.pending[k].id \in Ids
        <5>1. CASE k <= Len(state.pending)
          BY <3>1, <4>1, <5>1, <2>3
        <5>2. CASE k > Len(state.pending)
          <6>1. k - Len(state.pending) \in 1..n /\ state'.pending[k] = us[k - Len(state.pending)]
            BY <3>1, <4>1, <5>2, <2>3
          <6>2. us[k - Len(state.pending)] \in Use
            BY <6>1, <2>3
          <6>. QED
            BY <1>1, <6>1, <6>2, <2>3 DEF Use
        <5>3. k \in Nat
          BY <3>1, <4>1, <2>3
        <5>. QED
          BY <4>1, <5>1, <5>2, <5>3
      <4>3. ASSUME NEW i \in Ids, i > Len(uses) PROVE ~(called'[i] > 0)
        BY <1>1, <2>2, <4>3 DEF CallsInv, Ids
      <4>. QED
        BY <2>2, <4>2, <4>3 DEF Uncalled, CallsInv
    <3>4. \A i \in Ids : called'[i] > 0 => i <= Len(uses')
      BY <1>1, <2>2, <2>4 DEF CallsInv, Ids
    <3>. QED
      BY <2>2, <3>2, <3>3, <3>4 DEF CallsInv
  <2>. QED
    BY <2>2, <2>6, <2>7
<1>4. CASE Turn
  BY <1>4, CallsTurn
<1>5. ASSUME Dies, \A i \in Ids : called'[i] > 0 => i <= Len(uses) PROVE CallsInv'
  <2>1. state'.pending = <<>> /\ state'.pendingHuman = NoUse
    BY <1>5 DEF Dies, EmptyState
  <2>2. Queue(state', Len(uses)) /\ Uncalled(state)'
    BY <2>1, EmptyQueue DEF Uncalled
  <2>. QED
    BY <1>5, <2>2 DEF Dies, CallsInv
<1>6. CASE Fail
  BY <1>5, <1>6, FailDoes DEF CallsInv
<1>7. CASE FailAfterCall
  <2>1. Dies /\ state.pending # <<>> /\ called' = [called EXCEPT ![Current.id] = @ + 1]
    BY <1>7, FailAfterCallDoes
  <2>2. Current = state.pending[1] /\ 1 \in DOMAIN state.pending
    BY <1>1, <2>1, CurrentType, StateFields
  <2>3. \A i \in Ids : called'[i] > 0 => called[i] > 0 \/ i = Current.id
    BY <1>1, <2>1
  <2>. QED
    BY <1>5, <2>1, <2>2, <2>3 DEF CallsInv, Queue
<1>8. ASSUME NEW input \in Answers, Start(input) PROVE CallsInv'
  <2>1. state'.pending = <<>> /\ state'.pendingHuman = NoUse /\ UNCHANGED <<ckpt, uses, called, resumed, skipped>>
    BY <1>8, StartDoes
  <2>2. Queue(state', Len(uses)) /\ Uncalled(state)'
    BY <2>1, EmptyQueue DEF Uncalled
  <2>. QED
    BY <2>1, <2>2 DEF CallsInv
<1>9. ASSUME NEW input \in Answers, Resume(input) PROVE CallsInv'
  <2>. DEFINE s == ckpt.state
  <2>1. /\ ckpt # NoCkpt /\ Typed(s) /\ Typed(state') /\ UNCHANGED <<ckpt, uses, called>>
        /\ IF input # NoUse /\ s.pendingHuman # NoUse
           THEN state'.pending = <<s.pendingHuman>> \o s.pending /\ state'.pendingHuman = NoUse
           ELSE state'.pending = s.pending /\ state'.pendingHuman = s.pendingHuman
        /\ resumed' = resumed \cup {u.id : u \in ToSet(s.pending)}
    BY <1>9, ResumeDoes
  <2>2. s \in AgentState /\ state' \in AgentState /\ s.pending \in Seq(Use)
    BY <2>1, StateFields DEF Typed
  <2>3. Queue(s, Len(uses))
    BY <2>1 DEF CallsInv
  <2>4. \A k \in DOMAIN s.pending : s.pending[k].id \in resumed'
    BY <2>1 DEF ToSet
  <2>5. Queue(state', Len(uses)) /\ Uncalled(state)'
    <3>1. CASE input # NoUse /\ s.pendingHuman # NoUse
      <4>1. state'.pending = <<s.pendingHuman>> \o s.pending /\ state'.pendingHuman = NoUse
        BY <2>1, <3>1
      <4>2. s.pendingHuman.tool = "ask_user"
        BY <2>3, <3>1 DEF Queue
      <4>3. Queue(state', Len(uses))
        <5>. HIDE DEF s
        <5>. QED
          BY <1>1, <2>2, <2>3, <3>1, <4>1, QueuePrepends
      <4>4. ASSUME NEW k \in DOMAIN state'.pending
            PROVE  state'.pending[k] = s.pendingHuman
                   \/ \E l \in DOMAIN s.pending : state'.pending[k] = s.pending[l]
        <5>1. s.pendingHuman \in Use
          BY <2>2, <3>1, StateFields
        <5>2. k \in 1..(Len(s.pending) + 1)
              /\ state'.pending[k] = IF k = 1 THEN s.pendingHuman ELSE s.pending[k - 1]
          BY <2>2, <4>1, <5>1
        <5>3. k # 1 => k - 1 \in DOMAIN s.pending
          BY <2>2, <5>2
        <5>. QED
          BY <5>2, <5>3
      <4>5. Uncalled(state)'
        <5>. HIDE DEF s
        <5>. QED
          BY <2>4, <4>2, <4>4 DEF Uncalled
      <4>. QED
        BY <4>3, <4>5
    <3>2. CASE ~(input # NoUse /\ s.pendingHuman # NoUse)
      <4>1. state'.pending = s.pending /\ state'.pendingHuman = s.pendingHuman
        BY <2>1, <3>2
      <4>. HIDE DEF s
      <4>. QED
        BY <2>3, <2>4, <4>1 DEF Queue, Uncalled
    <3>. QED
      BY <3>1, <3>2
  <2>. HIDE DEF s
  <2>. QED
    BY <2>1, <2>3, <2>5 DEF CallsInv, s
<1>. QED
  BY <1>2, <1>3, <1>4, <1>6, <1>7, <1>8, <1>9, StepCases DEF ModelSteps

LEMMA CallsStart == Init => CallsInv
<1>. SUFFICES ASSUME Init PROVE CallsInv
  OBVIOUS
<1>1. /\ state.pending = <<>> /\ state.pendingHuman = NoUse /\ called = [i \in Ids |-> 0]
      /\ ckpt = NoCkpt
  BY DEF Init, EmptyState
<1>2. Queue(state, Len(uses)) /\ Uncalled(state)
  BY <1>1, EmptyQueue DEF Uncalled
<1>. QED
  BY <1>1, <1>2 DEF CallsInv

LEMMA CallsInvariant == Spec => [](TypeInv /\ CallsInv)
<1>1. TypeInv /\ CallsInv /\ [Next]_vars => CallsInv'
  <2>. SUFFICES ASSUME TypeInv, CallsInv, [Next]_vars PROVE CallsInv'
    OBVIOUS
  <2>1. CASE UNCHANGED vars
    BY <2>1 DEF vars, CallsInv, Uncalled
  <2>. QED
    BY <2>1, CallsStep
<1>. QED
  BY <1>1, CallsStart, TypeInvariant, PTL DEF Spec

\* A tool that has been called is called again only for a use that was pending where a
\* Resume picked the thread up: after a start nothing of an earlier run is called again.
THEOREM CallsNotRepeated == Spec => CallsRepeatOnlyAfterResume
<1>1. TypeInv /\ CallsInv /\ [Next]_vars =>
        [\A i \in Ids : called'[i] > called[i] /\ called[i] > 0 => i \in resumed]_vars
  <2>. SUFFICES ASSUME TypeInv, CallsInv, Next, NEW i \in Ids, called'[i] > called[i], called[i] > 0
                PROVE  i \in resumed
    OBVIOUS
  <2>1. called \in [Ids -> Nat] /\ state \in AgentState
    BY StillTypes DEF Typed
  <2>2. called' # called
    BY <2>1
  <2>3. state.pending # <<>> /\ Current.tool # "ask_user"
        /\ called' = [called EXCEPT ![Current.id] = @ + 1]
    <3>1. ~Quiet
      BY <2>2 DEF Quiet
    <3>2. ~ModelSteps
      BY <2>2 DEF ModelSteps, ModelStep
    <3>3. ~Fail
      BY <2>2, FailDoes
    <3>4. ASSUME NEW input \in Answers, Start(input) \/ Resume(input) PROVE FALSE
      BY <2>2, <3>4 DEF Start, Resume, Begin
    <3>5. CASE Turn
      BY <2>2, <3>5, Turns, TurnLeaves DEF TurnDoes
    <3>6. CASE FailAfterCall
      BY <3>6, FailAfterCallDoes
    <3>. QED
      BY <3>1, <3>2, <3>3, <3>4, <3>5, <3>6, StepCases
  <2>4. i = Current.id
    BY <2>1, <2>3
  <2>5. Current = state.pending[1] /\ 1 \in DOMAIN state.pending
    BY <2>1, <2>3, CurrentType, StateFields
  <2>. QED
    BY <2>3, <2>4, <2>5 DEF CallsInv, Uncalled
<1>. QED
  BY <1>1, CallsInvariant, PTL DEF Spec, CallsRepeatOnlyAfterResume

-----------------------------------------------------------------------------
(* Answers.                                                                *)

\* While the answered question is not yet a result it is the next use in the queue, and the
\* answer is at hand.
AnswerNext ==
  /\ step = "DispatchTools" /\ state.pending # <<>> /\ state.humanInput = answered
  /\ Current.id = answered /\ Current.tool = "ask_user"

AnswerInv ==
  answered # NoUse /\ step # "idle" => HoldsAnswer(state.messages) \/ AnswerNext

LEMMA HoldsMore ==
  ASSUME NEW ms \in Messages, NEW m \in Message,
         HoldsAnswer(ms) \/ (m.of = answered /\ m.kind = "answer")
  PROVE  HoldsAnswer(Append(ms, m))
<1>1. /\ Len(ms) \in Nat /\ DOMAIN ms = 1..Len(ms) /\ DOMAIN Append(ms, m) = 1..(Len(ms) + 1)
      /\ \A i \in 1..Len(ms) : i \in 1..(Len(ms) + 1) /\ Append(ms, m)[i] = ms[i]
      /\ Len(ms) + 1 \in 1..(Len(ms) + 1) /\ Append(ms, m)[Len(ms) + 1] = m
  BY DEF Messages
<1>2. CASE HoldsAnswer(ms)
  <2>1. PICK i \in DOMAIN ms : ms[i].of = answered /\ ms[i].kind = "answer"
    BY <1>2 DEF HoldsAnswer
  <2>2. i \in DOMAIN Append(ms, m) /\ Append(ms, m)[i] = ms[i]
    BY <1>1, <2>1
  <2>. QED
    BY <2>1, <2>2 DEF HoldsAnswer
<1>3. CASE m.of = answered /\ m.kind = "answer"
  <2>1. Len(ms) + 1 \in DOMAIN Append(ms, m) /\ Append(ms, m)[Len(ms) + 1] = m
    BY <1>1
  <2>. QED
    BY <1>3, <2>1 DEF HoldsAnswer
<1>. QED
  BY <1>2, <1>3

LEMMA HoldsGiven ==
  ASSUME state \in AgentState, state.pending # <<>>,
         NEW kind \in {"result", "denied", "answer", "wrong_answer"}, Gives(state', kind),
         HoldsAnswer(state.messages) \/ (Current.id = answered /\ kind = "answer")
  PROVE  HoldsAnswer(state'.messages)
<1>1. PICK size \in Nat : state'.messages = Append(state.messages, Result(Current.id, kind, size))
  BY DEF Gives
<1>2. Result(Current.id, kind, size) \in Message
  BY CurrentType, MessageTypes
<1>3. Result(Current.id, kind, size).of = Current.id /\ Result(Current.id, kind, size).kind = kind
  BY DEF Result
<1>4. state.messages \in Messages
  BY StateFields
<1>5. HoldsAnswer(Append(state.messages, Result(Current.id, kind, size)))
  BY <1>2, <1>3, <1>4, HoldsMore
<1>. QED
  BY <1>1, <1>5

\* What a run resumed with its answer does: it saves no transcript without it unless the
\* calls are spent, and goes on only with it or towards it.
Heard ==
  answered # NoUse /\ step # "idle" =>
    /\ ckpt' # ckpt => HoldsAnswer(ckpt'.state.messages) \/ state.calls >= MaxToolCalls
    /\ step' # "idle" => HoldsAnswer(state'.messages)

LEMMA TurnHeard ==
  ASSUME TypeInv, AnswerInv, Turn
  PROVE  Heard
<1>. SUFFICES ASSUME answered # NoUse, step # "idle"
              PROVE  /\ ckpt' # ckpt => HoldsAnswer(ckpt'.state.messages) \/ state.calls >= MaxToolCalls
                     /\ step' # "idle" => HoldsAnswer(state'.messages)
  BY DEF Heard
<1>1. state \in AgentState /\ state.pending # <<>>
  BY StillTypes, TurnLeaves DEF Typed
<1>2. ASSUME Current.tool # "ask_user" \/ state.humanInput = NoUse PROVE HoldsAnswer(state.messages)
  BY <1>2 DEF AnswerInv, AnswerNext
<1>3. CASE OutOfToolCalls
  <2>1. state.calls >= MaxToolCalls
    <3>1. ~(state.calls < MaxToolCalls) /\ state.calls \in Nat /\ MaxToolCalls \in Nat
      BY <1>1, <1>3, StateFields, Budgets DEF OutOfToolCalls, InBudget
    <3>. QED
      BY <3>1
  <2>. QED
    BY <1>3, <2>1, OutOfToolCallsDoes
<1>4. CASE TerminalTool
  <2>1. Current.tool # "ask_user"
    BY <1>4, ConstantsAssumption DEF TerminalTool
  <2>2. HoldsAnswer(state.messages) /\ state'.messages = state.messages
        /\ ckpt' = [interrupted |-> FALSE, state |-> state', next |-> step']
    BY <1>2, <1>4, <2>1, TerminalToolDoes DEF Drops
  <2>. QED
    BY <2>2
<1>5. CASE AskUser
  <2>1. state'.messages = state.messages /\ ckpt' = [interrupted |-> TRUE, state |-> state', next |-> step']
        /\ state.humanInput = NoUse
    BY <1>5, AskUserDoes DEF Drops
  <2>. QED
    BY <1>2, <2>1
<1>6. CASE ConsumeAnswer
  <2>1. ckpt' = ckpt /\ IF state.humanInput = Current.id THEN Gives(state', "answer")
                        ELSE Gives(state', "wrong_answer")
    BY <1>6, ConsumeAnswerDoes DEF Takes
  <2>2. CASE HoldsAnswer(state.messages)
    BY <1>1, <2>1, <2>2, HoldsGiven
  <2>3. CASE ~HoldsAnswer(state.messages)
    <3>1. state.humanInput = answered /\ Current.id = answered
      BY <2>3 DEF AnswerInv, AnswerNext
    <3>2. Gives(state', "answer")
      BY <2>1, <3>1
    <3>. QED
      BY <1>1, <2>1, <3>1, <3>2, HoldsGiven
  <2>. QED
    BY <2>2, <2>3
<1>7. CASE EmitArtifact
  <2>1. Current.tool # "ask_user"
    BY <1>7 DEF EmitArtifact
  <2>2. /\ Gives(state', "result")
        /\ \/ ckpt' = [interrupted |-> FALSE, state |-> state', next |-> step'] /\ step' = "idle"
           \/ ckpt' = ckpt /\ step' = step
    BY <1>7, EmitArtifactDoes DEF Takes
  <2>3. HoldsAnswer(state'.messages)
    BY <1>1, <1>2, <2>1, <2>2, HoldsGiven
  <2>. QED
    BY <2>2, <2>3
<1>8. ASSUME NEW size \in ResultSizes, CallTool(size)
      PROVE  ckpt' = ckpt /\ HoldsAnswer(state'.messages)
  <2>1. Current.tool # "ask_user" /\ Gives(state', "result") /\ ckpt' = ckpt
    BY <1>8, CallToolDoes DEF Takes
  <2>. QED
    BY <1>1, <1>2, <2>1, HoldsGiven
<1>9. CASE DenyTool
  <2>1. Current.tool # "ask_user" /\ Gives(state', "denied") /\ ckpt' = ckpt
    BY <1>9, DenyToolDoes DEF Takes, DenyTool, RegistryTool
  <2>2. HoldsAnswer(state'.messages)
    BY <1>1, <1>2, <2>1, HoldsGiven
  <2>. QED
    BY <2>1, <2>2
<1>. QED
  BY <1>3, <1>4, <1>5, <1>6, <1>7, <1>8, <1>9 DEF Turn

LEMMA ModelHeard ==
  ASSUME TypeInv, AnswerInv, ModelSteps
  PROVE  Heard
<1>. SUFFICES ASSUME answered # NoUse
              PROVE  /\ ckpt' # ckpt => HoldsAnswer(ckpt'.state.messages) \/ state.calls >= MaxToolCalls
                     /\ step' # "idle" => HoldsAnswer(state'.messages)
  BY DEF Heard
<1>8. PICK n \in 0..MaxPerTurn : \E names \in [1..n -> Tools], hasText, truncated, final \in BOOLEAN :
        ModelStep(names, hasText, truncated, final)
  BY DEF ModelSteps
<1>1. PICK names \in [1..n -> Tools], hasText \in BOOLEAN, truncated \in BOOLEAN,
           final \in BOOLEAN : ModelStep(names, hasText, truncated, final)
  BY <1>8
<1>. DEFINE us == UsesNamed(names)
<1>2. n \in Nat
  BY Budgets
<1>3. /\ Cut \/ Queued(us)
      /\ ckpt' = [interrupted |-> FALSE, state |-> state', next |-> step'] /\ Len(uses) + Len(names) <= MaxUses
  BY <1>1, <1>2, ModelStepDoes
<1>4. us \in Seq(Use)
  BY <1>2, <1>3, NamedUses, StillTypes
<1>5. HoldsAnswer(state.messages)
  BY <1>1 DEF AnswerInv, AnswerNext, ModelStep
<1>6. state.messages \in Messages
  BY StillTypes, StateFields DEF Typed
<1>. HIDE DEF us
<1>7. HoldsAnswer(state'.messages)
  <2>1. \A vs \in Seq(Use) : HoldsAnswer(Append(state.messages, Assistant(vs)))
    BY <1>5, <1>6, MessageTypes, HoldsMore
  <2>2. <<>> \in Seq(Use)
    OBVIOUS
  <2>. QED
    BY <1>3, <1>4, <1>5, <2>1, <2>2 DEF Cut, Queued
<1>. QED
  BY <1>3, <1>7

LEMMA StepHeard ==
  ASSUME TypeInv, CallsInv, AnswerInv, Next
  PROVE  Heard /\ (step = "idle" => ckpt' = ckpt) /\ AnswerInv'
<1>1. ASSUME Heard, step # "idle", answered' = answered
      PROVE  Heard /\ (step = "idle" => ckpt' = ckpt) /\ AnswerInv'
  BY <1>1 DEF Heard, AnswerInv, HoldsAnswer
<1>2. CASE Quiet
  <2>1. answered # NoUse => HoldsAnswer(state.messages)
    BY <1>2 DEF AnswerInv, AnswerNext, Quiet, PrepareTurn, OutOfTurns, ToolsDone
  <2>2. step # "idle" /\ answered' = answered
    BY <1>2 DEF Quiet, PrepareTurn, OutOfTurns, ToolsDone
  <2>3. Heard
    BY <1>2, <2>1 DEF Heard, Quiet
  <2>. QED
    BY <1>1, <2>2, <2>3
<1>3. CASE ModelSteps
  <2>1. step # "idle" /\ answered' = answered
    BY <1>3 DEF ModelSteps, ModelStep
  <2>. QED
    BY <1>1, <1>3, <2>1, ModelHeard
<1>4. CASE Turn
  BY <1>1, <1>4, TurnHeard, TurnLeaves
<1>5. CASE Fail \/ FailAfterCall
  <2>1. Dies
    BY <1>5, FailDoes, FailAfterCallDoes
  <2>. QED
    BY <2>1 DEF Dies, Heard, AnswerInv
<1>6. ASSUME NEW input \in Answers, Start(input)
      PROVE  Heard /\ (step = "idle" => ckpt' = ckpt) /\ AnswerInv'
  <2>1. answered' = NoUse /\ ckpt' = ckpt /\ step = "idle"
    BY <1>6, StartDoes DEF Start, Begin
  <2>. QED
    BY <2>1 DEF Heard, AnswerInv
<1>7. ASSUME NEW input \in Answers, Resume(input)
      PROVE  Heard /\ (step = "idle" => ckpt' = ckpt) /\ AnswerInv'
  <2>. DEFINE s == ckpt.state
  <2>1. /\ ckpt # NoCkpt /\ Typed(s) /\ ckpt' = ckpt /\ step' = "DispatchTools"
        /\ state'.humanInput = input
        /\ IF input # NoUse /\ s.pendingHuman # NoUse
           THEN state'.pending = <<s.pendingHuman>> \o s.pending /\ state'.pendingHuman = NoUse
           ELSE state'.pending = s.pending /\ state'.pendingHuman = s.pendingHuman
        /\ answered' = IF s.pendingHuman # NoUse /\ s.pendingHuman.id = input THEN input ELSE NoUse
    BY <1>7, ResumeDoes
  <2>2. step = "idle"
    BY <1>7 DEF Resume, Begin
  <2>3. ASSUME answered' # NoUse PROVE AnswerNext'
    <3>1. s.pendingHuman # NoUse /\ s.pendingHuman.id = input /\ input # NoUse /\ answered' = input
      BY <2>1, <2>3
    <3>2. s.pendingHuman.tool = "ask_user"
      BY <2>1, <3>1 DEF CallsInv, Queue
    <3>3. s.pending \in Seq(Use) /\ s.pendingHuman \in Use
      BY <2>1, <3>1, StateFields DEF Typed
    <3>4. state'.pending = <<s.pendingHuman>> \o s.pending
      BY <2>1, <3>1
    <3>. HIDE DEF s
    <3>5. state'.pending # <<>> /\ Head(state'.pending) = s.pendingHuman
      BY <3>3, <3>4
    <3>. QED
      BY <2>1, <3>1, <3>2, <3>5 DEF AnswerNext, Current
  <2>. QED
    BY <2>1, <2>2, <2>3 DEF Heard, AnswerInv
<1>. QED
  BY <1>2, <1>3, <1>4, <1>5, <1>6, <1>7, StepCases

\* A run that was resumed with the answer to the question it stopped at saves nothing
\* without that answer as the question's result, unless its tool calls are spent: whatever
\* else is in the queue, the answered question is dispatched first.
THEOREM AnswersHeard == Spec => AnswerHeard
<1>1. Init => AnswerInv
  BY DEF Init, AnswerInv
<1>2. TypeInv /\ CallsInv /\ AnswerInv /\ [Next]_vars => AnswerInv'
  <2>. SUFFICES ASSUME TypeInv, CallsInv, AnswerInv, [Next]_vars PROVE AnswerInv'
    OBVIOUS
  <2>1. CASE UNCHANGED vars
    BY <2>1 DEF vars, AnswerInv, AnswerNext, HoldsAnswer, Current
  <2>. QED
    BY <2>1, StepHeard
<1>3. TypeInv /\ CallsInv /\ AnswerInv /\ [Next]_vars =>
        [answered # NoUse /\ ckpt' # ckpt =>
           HoldsAnswer(ckpt'.state.messages) \/ state.calls >= MaxToolCalls]_vars
  BY StepHeard DEF Heard
<1>. QED
  BY <1>1, <1>2, <1>3, CallsInvariant, PTL DEF Spec, AnswerHeard

-----------------------------------------------------------------------------
(* Transcripts.                                                            *)

Has(ms, i, id) == \E k \in Block(ms, i) : ms[k].of = id

\* Use `id` of message i has no result, and there is still room for it: nothing but results
\* stands behind the message.
Due(ms, i, id) ==
  /\ id \notin ResultedIn(ms)
  /\ \A j \in DOMAIN ms : j > i => ms[j].role = "tool"

\* Each use is asked for once, and is one of the first n.
UsesOnce(ms, n) ==
  \A i \in DOMAIN ms : \A k \in DOMAIN ms[i].uses :
    /\ ms[i].uses[k].id \in 1..n
    /\ \A j \in DOMAIN ms : \A l \in DOMAIN ms[j].uses :
         ms[i].uses[k].id = ms[j].uses[l].id => i = j /\ k = l

\* A result asks for nothing, is the only one of its use, and stands behind it.
ResultPlaced(ms, K, i) ==
  /\ \A k \in DOMAIN ms : ms[k].role = "tool" /\ ms[k].of = ms[i].of => k = i
  /\ \/ ms[i].of \in K
     \/ \E j \in DOMAIN ms : i \in Block(ms, j) /\ ms[i].of \in IdsOf(ms[j].uses)
ResultsPlaced(ms, K, n) ==
  \A i \in DOMAIN ms : ms[i].role = "tool" =>
    ms[i].uses = <<>> /\ ms[i].of \in 1..n /\ ResultPlaced(ms, K, i)

\* Every use but those of K has its result or can still be given it.
UsesMet(ms, K) ==
  \A i \in DOMAIN ms : \A id \in IdsOf(ms[i].uses) \ K : Has(ms, i, id) \/ Due(ms, i, id)

InOrder(ms, K, n) == UsesOnce(ms, n) /\ ResultsPlaced(ms, K, n) /\ UsesMet(ms, K)

\* The uses of S can be given their results, and but for K the others have them.
Owes(ms, K, S) ==
  /\ \A i \in DOMAIN ms : \A id \in IdsOf(ms[i].uses) \ K : Has(ms, i, id) \/ id \in S
  /\ \A id \in S : \E i \in DOMAIN ms : id \in IdsOf(ms[i].uses) /\ Due(ms, i, id)
Settled(ms, K) == Owes(ms, K, {})

LEMMA Lengths ==
  ASSUME NEW ms \in Messages
  PROVE  /\ Len(ms) \in Nat /\ DOMAIN ms = 1..Len(ms)
         /\ \A i \in DOMAIN ms : i \in Nat /\ ms[i] \in Message /\ ms[i].uses \in Seq(Use)
BY MessageFields DEF Messages

\* w is ms with more messages behind it.
Extends(w, ms) ==
  /\ w \in Messages /\ ms \in Messages
  /\ \A i \in DOMAIN ms : i \in DOMAIN w /\ w[i] = ms[i] /\ i \in Nat
  /\ \A i \in DOMAIN w \ DOMAIN ms : i \in Nat /\ i > Len(ms) /\ \A j \in DOMAIN ms : j < i

LEMMA AppendExtends ==
  ASSUME NEW ms \in Messages, NEW m \in Message
  PROVE  LET w == Append(ms, m)
         IN  /\ Extends(w, ms) /\ DOMAIN w \ DOMAIN ms = {Len(ms) + 1} /\ w[Len(ms) + 1] = m
             /\ Len(ms) + 1 \in DOMAIN w /\ w = ms \o <<m>>
BY DEF Messages, Extends

LEMMA ConcatenationExtends ==
  ASSUME NEW ms \in Messages, NEW ns \in Messages
  PROVE  LET w == ms \o ns
         IN  /\ Extends(w, ms)
             /\ \A i \in DOMAIN w \ DOMAIN ms : i - Len(ms) \in DOMAIN ns /\ w[i] = ns[i - Len(ms)]
             /\ \A k \in DOMAIN ns : Len(ms) + k \in DOMAIN w \ DOMAIN ms /\ w[Len(ms) + k] = ns[k]
                                     /\ k \in Nat
<1>. DEFINE w == ms \o ns
<1>1. ms \in Seq(Message) /\ ns \in Seq(Message) /\ Len(ms) \in Nat /\ Len(ns) \in Nat
  BY DEF Messages
<1>2. /\ w \in Seq(Message) /\ DOMAIN w = 1..(Len(ms) + Len(ns))
      /\ DOMAIN ms = 1..Len(ms) /\ DOMAIN ns = 1..Len(ns)
      /\ \A i \in 1..(Len(ms) + Len(ns)) : w[i] = IF i <= Len(ms) THEN ms[i] ELSE ns[i - Len(ms)]
  BY <1>1
<1>. HIDE DEF w
<1>3. Extends(w, ms)
  BY <1>1, <1>2 DEF Extends, Messages
<1>4. \A i \in DOMAIN w \ DOMAIN ms : i - Len(ms) \in DOMAIN ns /\ w[i] = ns[i - Len(ms)]
  BY <1>1, <1>2
<1>5. \A k \in DOMAIN ns : Len(ms) + k \in DOMAIN w \ DOMAIN ms /\ w[Len(ms) + k] = ns[k] /\ k \in Nat
  <2>1. SUFFICES ASSUME NEW k \in DOMAIN ns
                 PROVE  Len(ms) + k \in DOMAIN w \ DOMAIN ms /\ w[Len(ms) + k] = ns[k] /\ k \in Nat
    OBVIOUS
  <2>2. k \in Nat /\ k >= 1 /\ k <= Len(ns) /\ (Len(ms) + k) - Len(ms) = k
    BY <1>1, <1>2
  <2>. QED
    BY <1>1, <1>2, <2>2
<1>. QED
  BY <1>3, <1>4, <1>5 DEF w

\* What more messages leave as it was.
LEMMA BlocksStay ==
  ASSUME NEW w, NEW ms, Extends(w, ms)
  PROVE  /\ \A i \in DOMAIN ms : Block(ms, i) \subseteq Block(w, i)
         /\ \A i \in DOMAIN ms : \A id : Has(ms, i, id) => Has(w, i, id)
<1>1. ASSUME NEW i \in DOMAIN ms, NEW k \in Block(ms, i) PROVE k \in Block(w, i) /\ w[k] = ms[k]
  <2>1. DOMAIN ms = 1..Len(ms) /\ Len(ms) \in Nat
    BY Lengths DEF Extends
  <2>2. k \in DOMAIN ms /\ k > i /\ \A j \in (i + 1)..k : ms[j].role = "tool" /\ j \in DOMAIN ms
    BY <2>1 DEF Block
  <2>. QED
    BY <2>2 DEF Block, Extends
<1>. QED
  BY <1>1 DEF Has

\* Results of the uses in T, behind a transcript that can be given them.
AddsResults(w, ms, K, n, T) ==
  /\ Extends(w, ms)
  /\ \A i \in DOMAIN w \ DOMAIN ms : w[i].role = "tool" /\ w[i].uses = <<>> /\ w[i].of \in T
  /\ \A i, j \in DOMAIN w \ DOMAIN ms : w[i].of = w[j].of => i = j
  /\ \A id \in T : /\ id \in 1..n /\ id \notin ResultedIn(ms)
                   /\ \E i \in DOMAIN w \ DOMAIN ms : w[i].of = id
                   /\ id \in K \/ \E i \in DOMAIN ms : id \in IdsOf(ms[i].uses) /\ Due(ms, i, id)

LEMMA ResultsAdded ==
  ASSUME NEW w, NEW ms, NEW K, NEW n \in Nat, NEW T, AddsResults(w, ms, K, n, T),
         InOrder(ms, K, n)
  PROVE  /\ InOrder(w, K, n)
         /\ \A S : Owes(ms, K, S) => Owes(w, K, S \ T)
         /\ ResultedIn(w) = ResultedIn(ms) \cup T
<1>. DEFINE New == DOMAIN w \ DOMAIN ms
<1>1. /\ \A i \in DOMAIN ms : i \in DOMAIN w /\ w[i] = ms[i] /\ i \in Nat
      /\ \A i \in New : i \in Nat /\ i > Len(ms) /\ \A j \in DOMAIN ms : j < i
      /\ \A i \in New : w[i].role = "tool" /\ w[i].uses = <<>> /\ w[i].of \in T
      /\ \A i, j \in New : w[i].of = w[j].of => i = j
      /\ \A id \in T : id \in 1..n /\ id \notin ResultedIn(ms) /\ \E i \in New : w[i].of = id
  BY DEF AddsResults, Extends
<1>2. \A i \in New : IdsOf(w[i].uses) = {} /\ DOMAIN w[i].uses = {}
  BY <1>1 DEF IdsOf
<1>3. ResultedIn(w) = ResultedIn(ms) \cup T
  <2>1. \A i \in DOMAIN w : w[i].role = "tool" => w[i].of \in ResultedIn(ms) \cup T
    BY <1>1 DEF ResultedIn
  <2>2. \A id \in T : id \in ResultedIn(w)
    BY <1>1 DEF ResultedIn
  <2>3. \A id \in ResultedIn(ms) : id \in ResultedIn(w)
    BY <1>1 DEF ResultedIn
  <2>. QED
    BY <2>1, <2>2, <2>3 DEF ResultedIn
<1>4. /\ \A i \in DOMAIN ms : Block(ms, i) \subseteq Block(w, i)
      /\ \A i \in DOMAIN ms : \A id : Has(ms, i, id) => Has(w, i, id)
  BY BlocksStay DEF AddsResults
<1>5. ASSUME NEW i \in DOMAIN ms, NEW id, Due(ms, i, id), id \notin T PROVE Due(w, i, id)
  BY <1>1, <1>3, <1>5 DEF Due
<1>6. ASSUME NEW i \in DOMAIN ms, NEW id, Due(ms, i, id), NEW k \in New PROVE k \in Block(w, i)
  <2>1. \A j \in DOMAIN w : j > i => w[j].role = "tool"
    BY <1>1, <1>6 DEF Due
  <2>2. k \in DOMAIN w /\ k > i /\ i \in Nat /\ i >= 1
    <3>1. ms \in Messages
      BY DEF AddsResults, Extends
    <3>. QED
      BY <1>1, <3>1, Lengths
  <2>3. \A j \in (i + 1)..k : j \in DOMAIN w
    <3>1. w \in Messages
      BY DEF AddsResults, Extends
    <3>. QED
      BY <2>2, <3>1, Lengths
  <2>. QED
    BY <2>1, <2>2, <2>3 DEF Block
<1>7. ASSUME NEW i \in DOMAIN ms, NEW id \in T, Due(ms, i, id) PROVE Has(w, i, id)
  BY <1>1, <1>6, <1>7 DEF Has
<1>8. UsesOnce(w, n)
  BY <1>1, <1>2 DEF InOrder, UsesOnce
<1>9. ASSUME NEW i \in DOMAIN w, w[i].role = "tool"
      PROVE  w[i].uses = <<>> /\ w[i].of \in 1..n /\ ResultPlaced(w, K, i)
  <2>1. CASE i \in DOMAIN ms
    <3>1. w[i] = ms[i] /\ ms[i].role = "tool" /\ ms[i].uses = <<>> /\ ms[i].of \in 1..n
          /\ ResultPlaced(ms, K, i)
      BY <1>1, <1>9, <2>1 DEF InOrder, ResultsPlaced
    <3>2. ms[i].of \in ResultedIn(ms)
      BY <2>1, <3>1 DEF ResultedIn
    <3>3. \A k \in DOMAIN w : w[k].role = "tool" /\ w[k].of = w[i].of => k = i
      BY <1>1, <3>1, <3>2 DEF ResultPlaced
    <3>4. w[i].of \in K \/ \E j \in DOMAIN w : i \in Block(w, j) /\ w[i].of \in IdsOf(w[j].uses)
      <4>1. CASE ms[i].of \in K
        BY <3>1, <4>1
      <4>2. ASSUME NEW j \in DOMAIN ms, i \in Block(ms, j), ms[i].of \in IdsOf(ms[j].uses)
            PROVE  j \in DOMAIN w /\ i \in Block(w, j) /\ w[i].of \in IdsOf(w[j].uses)
        BY <1>1, <1>4, <3>1, <4>2
      <4>. QED
        BY <3>1, <4>1, <4>2 DEF ResultPlaced
    <3>. QED
      BY <3>1, <3>3, <3>4 DEF ResultPlaced
  <2>2. CASE i \in New
    <3>1. w[i].uses = <<>> /\ w[i].of \in T /\ w[i].of \in 1..n /\ w[i].of \notin ResultedIn(ms)
      BY <1>1, <2>2
    <3>2. \A k \in DOMAIN w : w[k].role = "tool" /\ w[k].of = w[i].of => k = i
      <4>1. ASSUME NEW k \in DOMAIN ms, w[k].role = "tool", w[k].of = w[i].of PROVE FALSE
        BY <1>1, <3>1, <4>1 DEF ResultedIn
      <4>. QED
        BY <1>1, <2>2, <4>1
    <3>3. w[i].of \in K \/ \E j \in DOMAIN w : i \in Block(w, j) /\ w[i].of \in IdsOf(w[j].uses)
      <4>1. w[i].of \in K \/ \E j \in DOMAIN ms : w[i].of \in IdsOf(ms[j].uses) /\ Due(ms, j, w[i].of)
        BY <3>1 DEF AddsResults
      <4>2. ASSUME NEW j \in DOMAIN ms, w[i].of \in IdsOf(ms[j].uses), Due(ms, j, w[i].of)
            PROVE  j \in DOMAIN w /\ i \in Block(w, j) /\ w[i].of \in IdsOf(w[j].uses)
        BY <1>1, <1>6, <2>2, <4>2
      <4>. QED
        BY <4>1, <4>2
    <3>. QED
      BY <3>1, <3>2, <3>3 DEF ResultPlaced
  <2>. QED
    BY <2>1, <2>2
<1>10. UsesMet(w, K)
  <2>1. ASSUME NEW i \in DOMAIN ms, NEW id \in IdsOf(ms[i].uses) \ K
        PROVE  Has(w, i, id) \/ Due(w, i, id)
    BY <1>4, <1>5, <1>7 DEF InOrder, UsesMet
  <2>. QED
    BY <1>1, <1>2, <2>1 DEF UsesMet
<1>11. ASSUME NEW S, Owes(ms, K, S) PROVE Owes(w, K, S \ T)
  <2>1. ASSUME NEW i \in DOMAIN ms, NEW id \in IdsOf(ms[i].uses) \ K
        PROVE  Has(w, i, id) \/ id \in S \ T
    <3>1. Has(ms, i, id) \/ Due(ms, i, id)
      BY DEF InOrder, UsesMet
    <3>2. Has(ms, i, id) \/ id \in S
      BY <1>11 DEF Owes
    <3>. QED
      BY <1>4, <1>7, <3>1, <3>2
  <2>2. ASSUME NEW id \in S \ T
        PROVE  \E i \in DOMAIN w : id \in IdsOf(w[i].uses) /\ Due(w, i, id)
    <3>1. PICK i \in DOMAIN ms : id \in IdsOf(ms[i].uses) /\ Due(ms, i, id)
      BY <1>11 DEF Owes
    <3>. QED
      BY <1>1, <1>5, <3>1
  <2>3. \A i \in DOMAIN w : \A id \in IdsOf(w[i].uses) \ K : Has(w, i, id) \/ id \in S \ T
    BY <1>1, <1>2, <2>1
  <2>. QED
    BY <2>2, <2>3 DEF Owes
<1>. QED
  BY <1>3, <1>8, <1>9, <1>10, <1>11 DEF InOrder, ResultsPlaced

\* A message that is no result, behind a transcript in which nothing is owed; its uses are new.
LEMMA MessageAdded ==
  ASSUME NEW ms \in Messages, NEW m \in Message, NEW K, NEW n \in Nat,
         m.role # "tool", InOrder(ms, K, n), Settled(ms, K),
         \A k \in 1..Len(m.uses) : m.uses[k].id = n + k
  PROVE  LET w == Append(ms, m)
         IN  InOrder(w, K, n + Len(m.uses)) /\ Owes(w, K, IdsOf(m.uses))
<1>. DEFINE w == Append(ms, m)
            z == Len(ms) + 1
            N == n + Len(m.uses)
<1>1. /\ Extends(w, ms) /\ DOMAIN w \ DOMAIN ms = {z} /\ w[z] = m /\ z \in DOMAIN w
  BY AppendExtends
<1>2. /\ \A i \in DOMAIN ms : i \in DOMAIN w /\ w[i] = ms[i] /\ i < z /\ i \in Nat
      /\ z \in Nat /\ w \in Messages /\ \A i \in DOMAIN w : i \in DOMAIN ms \/ i = z
  BY <1>1 DEF Extends
<1>3. Len(m.uses) \in Nat /\ DOMAIN m.uses = 1..Len(m.uses) /\ N \in Nat /\ n <= N
  <2>1. m.uses \in Seq(Use)
    BY MessageFields
  <2>. QED
    BY <2>1
<1>. HIDE DEF w, z, N
<1>4. /\ \A i \in DOMAIN ms : Block(ms, i) \subseteq Block(w, i)
      /\ \A i \in DOMAIN ms : \A id : Has(ms, i, id) => Has(w, i, id)
  BY <1>1, BlocksStay
<1>5. ResultedIn(w) = ResultedIn(ms) /\ \A id \in ResultedIn(w) : id <= n
  <2>1. ResultedIn(w) = ResultedIn(ms)
    BY <1>1, <1>2 DEF ResultedIn
  <2>2. \A id \in ResultedIn(ms) : id \in 1..n
    BY DEF ResultedIn, InOrder, ResultsPlaced
  <2>. QED
    BY <2>1, <2>2
<1>6. \A k \in DOMAIN m.uses : m.uses[k].id \in 1..N /\ m.uses[k].id > n /\ m.uses[k].id = n + k
  BY <1>3 DEF N
<1>7. ASSUME NEW i \in DOMAIN ms, NEW k \in DOMAIN ms[i].uses
      PROVE  ms[i].uses[k].id \in 1..n /\ ms[i].uses[k].id \in 1..N
  BY <1>3 DEF InOrder, UsesOnce
<1>8. UsesOnce(w, N)
  <2>1. ASSUME NEW i \in DOMAIN w, NEW k \in DOMAIN w[i].uses
        PROVE  w[i].uses[k].id \in 1..N
    BY <1>1, <1>2, <1>6, <1>7
  <2>2. ASSUME NEW i \in DOMAIN w, NEW k \in DOMAIN w[i].uses,
               NEW j \in DOMAIN w, NEW l \in DOMAIN w[j].uses,
               w[i].uses[k].id = w[j].uses[l].id
        PROVE  i = j /\ k = l
    <3>1. CASE i \in DOMAIN ms /\ j \in DOMAIN ms
      BY <1>2, <2>2, <3>1 DEF InOrder, UsesOnce
    <3>2. CASE i = z /\ j = z
      <4>1. k \in 1..Len(m.uses) /\ l \in 1..Len(m.uses) /\ n + k = n + l
        BY <1>1, <1>3, <1>6, <2>2, <3>2
      <4>. QED
        BY <1>3, <3>2, <4>1
    <3>3. CASE i \in DOMAIN ms /\ j = z
      <4>1. ms[i].uses[k].id \in 1..n /\ m.uses[l].id > n /\ ms[i].uses[k].id = m.uses[l].id
        BY <1>1, <1>2, <1>6, <1>7, <2>2, <3>3
      <4>. QED
        BY <4>1
    <3>4. CASE i = z /\ j \in DOMAIN ms
      <4>1. ms[j].uses[l].id \in 1..n /\ m.uses[k].id > n /\ ms[j].uses[l].id = m.uses[k].id
        BY <1>1, <1>2, <1>6, <1>7, <2>2, <3>4
      <4>. QED
        BY <4>1
    <3>. QED
      BY <1>2, <3>1, <3>2, <3>3, <3>4
  <2>. QED
    BY <2>1, <2>2 DEF UsesOnce
<1>9. ASSUME NEW i \in DOMAIN w, w[i].role = "tool"
      PROVE  w[i].uses = <<>> /\ w[i].of \in 1..N /\ ResultPlaced(w, K, i)
  <2>1. i \in DOMAIN ms /\ w[i] = ms[i]
    BY <1>1, <1>2, <1>9
  <2>2. ms[i].role = "tool" /\ ms[i].uses = <<>> /\ ms[i].of \in 1..n /\ ResultPlaced(ms, K, i)
    BY <1>9, <2>1 DEF InOrder, ResultsPlaced
  <2>3. \A k \in DOMAIN w : w[k].role = "tool" /\ w[k].of = w[i].of => k = i
    BY <1>1, <1>2, <2>1, <2>2 DEF ResultPlaced
  <2>4. w[i].of \in K \/ \E j \in DOMAIN w : i \in Block(w, j) /\ w[i].of \in IdsOf(w[j].uses)
    <3>1. ASSUME NEW j \in DOMAIN ms, i \in Block(ms, j), ms[i].of \in IdsOf(ms[j].uses)
          PROVE  j \in DOMAIN w /\ i \in Block(w, j) /\ w[i].of \in IdsOf(w[j].uses)
      BY <1>2, <1>4, <2>1, <3>1
    <3>. QED
      BY <2>1, <2>2, <3>1 DEF ResultPlaced
  <2>5. w[i].of \in 1..N
    BY <1>3, <2>1, <2>2
  <2>. QED
    BY <2>1, <2>2, <2>3, <2>4, <2>5 DEF ResultPlaced
<1>10. ASSUME NEW i \in DOMAIN ms, NEW id \in IdsOf(ms[i].uses) \ K PROVE Has(w, i, id)
  BY <1>4 DEF Settled, Owes
<1>11. ASSUME NEW id \in IdsOf(m.uses) PROVE Due(w, z, id)
  <2>1. id \notin ResultedIn(w)
    <3>1. id > n /\ id \in Nat
      BY <1>6 DEF IdsOf
    <3>2. id \in ResultedIn(w) => id <= n
      BY <1>5
    <3>. QED
      BY <3>1, <3>2
  <2>2. \A j \in DOMAIN w : ~(j > z)
    BY <1>2
  <2>. QED
    BY <2>1, <2>2 DEF Due
<1>12. \A i \in DOMAIN w : \A id \in IdsOf(w[i].uses) \ K :
          Has(w, i, id) \/ (Due(w, i, id) /\ id \in IdsOf(m.uses))
  BY <1>1, <1>2, <1>10, <1>11
<1>13. UsesMet(w, K) /\ Owes(w, K, IdsOf(m.uses))
  <2>1. \A id \in IdsOf(m.uses) : z \in DOMAIN w /\ id \in IdsOf(w[z].uses) /\ Due(w, z, id)
    BY <1>1, <1>11
  <2>. QED
    BY <1>12, <2>1 DEF UsesMet, Owes
<1>14. ResultsPlaced(w, K, N)
  BY <1>9 DEF ResultsPlaced
<1>15. InOrder(w, K, N)
  BY <1>8, <1>13, <1>14 DEF InOrder
<1>. QED
  BY <1>13, <1>15 DEF w, N

\* A transcript stays in order when more uses are asked for elsewhere or more are skipped.
LEMMA OrderGrows ==
  ASSUME NEW ms \in Messages, NEW K, NEW J, K \subseteq J, NEW n \in Nat, NEW o \in Nat, n <= o,
         InOrder(ms, K, n)
  PROVE  InOrder(ms, J, o) /\ \A S : Owes(ms, K, S) => Owes(ms, J, S)
<1>1. \A id \in 1..n : id \in 1..o
  OBVIOUS
<1>2. UsesOnce(ms, o)
  BY <1>1 DEF InOrder, UsesOnce
<1>3. ResultsPlaced(ms, J, o)
  BY <1>1 DEF InOrder, ResultsPlaced, ResultPlaced
<1>4. UsesMet(ms, J)
  BY DEF InOrder, UsesMet
<1>. QED
  BY <1>2, <1>3, <1>4 DEF InOrder, Owes

LEMMA NoTranscript == \A K, n : InOrder(<<>>, K, n)
BY DEF InOrder, UsesOnce, ResultsPlaced, UsesMet

-----------------------------------------------------------------------------
(* The repair gives every use that lacks its result one.                   *)

DanglingIds(ms) == {UseAt(ms, p).id : p \in Dangling(ms)}

\* The use the k-th result of a repair is for.
Counted(ms, k) == CHOOSE p \in Dangling(ms) : Cardinality(UpTo(Dangling(ms), p)) = k

LEMMA CountedOff ==
  ASSUME NEW ms \in Messages
  PROVE  LET D == Dangling(ms)
             C == 1..Cardinality(D)
         IN  /\ \A k \in C : Counted(ms, k) \in D
             /\ \A k, l \in C : Counted(ms, k) = Counted(ms, l) => k = l
             /\ \A p \in D : \E k \in C : Counted(ms, k) = p
<1>. DEFINE D == Dangling(ms)
            C == 1..Cardinality(D)
            rank(p) == Cardinality(UpTo(D, p))
<1>1. IsFiniteSet(D) /\ D \in SUBSET (Nat \X Nat)
  BY DanglingType
<1>2. \A k \in C : Counted(ms, k) \in D /\ rank(Counted(ms, k)) = k
  <2>1. \A k \in C : \E p \in D : rank(p) = k
    <3>. HIDE DEF D
    <3>. QED
      BY <1>1, RankExists
  <2>. QED
    BY <2>1 DEF Counted
<1>. HIDE DEF D
<1>3. ASSUME NEW p \in D
      PROVE  IsFiniteSet(UpTo(D, p)) /\ rank(p) \in C /\ p \in UpTo(D, p)
  <2>1. p \in UpTo(D, p) /\ UpTo(D, p) \in SUBSET D
    <3>1. p[1] \in Nat /\ p[2] \in Nat
      BY <1>1
    <3>. QED
      BY <3>1 DEF UpTo
  <2>2. IsFiniteSet(UpTo(D, p)) /\ Cardinality(UpTo(D, p)) <= Cardinality(D)
    BY <1>1, <2>1, FS_Subset
  <2>3. /\ Cardinality(UpTo(D, p)) \in Nat /\ Cardinality(UpTo(D, p)) # 0
        /\ Cardinality(D) \in Nat
    BY <1>1, <2>1, <2>2, FS_CardinalityType, FS_EmptySet
  <2>. QED
    BY <2>1, <2>2, <2>3
<1>4. ASSUME NEW p \in D, NEW q \in D, UpTo(D, p) \subseteq UpTo(D, q), q \notin UpTo(D, p)
      PROVE  rank(p) # rank(q)
  <2>1. UpTo(D, p) # UpTo(D, q) /\ UpTo(D, p) \in SUBSET UpTo(D, q)
    BY <1>3, <1>4
  <2>. QED
    BY <1>3, <2>1, FS_Subset
<1>5. ASSUME NEW p \in D, NEW q \in D, rank(p) = rank(q) PROVE p = q
  BY <1>1, <1>4, <1>5, UpToOrdered
<1>6. ASSUME NEW p \in D PROVE \E k \in C : Counted(ms, k) = p
  <2>1. rank(p) \in C
    BY <1>3
  <2>2. Counted(ms, rank(p)) \in D /\ rank(Counted(ms, rank(p))) = rank(p)
    BY <1>2, <2>1
  <2>3. Counted(ms, rank(p)) = p
    <3>. DEFINE q == Counted(ms, rank(p))
    <3>. HIDE DEF q
    <3>1. q \in D /\ rank(q) = rank(p)
      BY <2>2 DEF q
    <3>2. q = p
      BY <1>5, <3>1
    <3>. QED
      BY <3>2 DEF q
  <2>. QED
    BY <2>1, <2>3
<1>7. \A k, l \in C : Counted(ms, k) = Counted(ms, l) => k = l
  <2>1. ASSUME NEW k \in C, NEW l \in C, Counted(ms, k) = Counted(ms, l) PROVE k = l
    <3>1. rank(Counted(ms, k)) = k /\ rank(Counted(ms, l)) = l
      BY <1>2
    <3>. QED
      BY <2>1, <3>1
  <2>. QED
    BY <2>1
<1>. QED
  BY <1>2, <1>6, <1>7 DEF D

LEMMA SyntheticIs ==
  ASSUME NEW ms \in Messages
  PROVE  LET C == 1..Cardinality(Dangling(ms))
         IN  /\ DOMAIN Synthetic(ms) = C
             /\ \A k \in C : /\ Synthetic(ms)[k].role = "tool" /\ Synthetic(ms)[k].uses = <<>>
                             /\ Synthetic(ms)[k].of = UseAt(ms, Counted(ms, k)).id
<1>1. DOMAIN Synthetic(ms) = 1..Cardinality(Dangling(ms))
  BY DEF Synthetic
<1>2. \A k \in 1..Cardinality(Dangling(ms)) :
        Synthetic(ms)[k] = Result(UseAt(ms, Counted(ms, k)).id, "interrupted", 1)
  BY DEF Synthetic, Counted
<1>. QED
  BY <1>1, <1>2, MessageParts

LEMMA DanglingUse ==
  ASSUME NEW ms \in Messages, NEW K, NEW n \in Nat, InOrder(ms, K, n), NEW p \in Dangling(ms)
  PROVE  LET id == UseAt(ms, p).id
         IN  /\ p[1] \in DOMAIN ms /\ p[2] \in DOMAIN ms[p[1]].uses /\ p = <<p[1], p[2]>>
             /\ id \in 1..n /\ id \notin ResultedIn(ms) /\ id \in IdsOf(ms[p[1]].uses)
             /\ id \in K \/ Due(ms, p[1], id)
<1>. DEFINE id == UseAt(ms, p).id
<1>1. /\ p[1] \in DOMAIN ms /\ p[2] \in DOMAIN ms[p[1]].uses /\ p = <<p[1], p[2]>>
      /\ id \notin ResultedIn(ms)
  BY DEF Dangling, Places
<1>2. id \in 1..n /\ id \in IdsOf(ms[p[1]].uses)
  BY <1>1 DEF InOrder, UsesOnce, UseAt, IdsOf
<1>3. ~Has(ms, p[1], id)
  <2>1. ASSUME NEW k \in Block(ms, p[1]), ms[k].of = id PROVE id \in ResultedIn(ms)
    <3>1. ms[k].role = "tool" /\ k \in DOMAIN ms
      <4>1. k \in DOMAIN ms /\ k \in Nat /\ p[1] \in Nat /\ k > p[1]
        BY <1>1, Lengths DEF Block
      <4>2. k \in (p[1] + 1)..k
        BY <4>1
      <4>. QED
        BY <4>1, <4>2 DEF Block
    <3>. QED
      BY <2>1, <3>1 DEF ResultedIn
  <2>. QED
    BY <1>1, <2>1 DEF Has
<1>4. id \in K \/ Due(ms, p[1], id)
  BY <1>1, <1>2, <1>3 DEF InOrder, UsesMet
<1>. QED
  BY <1>1, <1>2, <1>4

LEMMA RepairAdds ==
  ASSUME NEW ms \in Messages, NEW K, NEW n \in Nat, InOrder(ms, K, n)
  PROVE  AddsResults(Repaired(ms), ms, K, n, DanglingIds(ms))
<1>. DEFINE ns == Synthetic(ms)
            w == ms \o ns
            New == DOMAIN w \ DOMAIN ms
            T == DanglingIds(ms)
            C == 1..Cardinality(Dangling(ms))
            id(k) == UseAt(ms, Counted(ms, k)).id
<1>1. Repaired(ms) = w
  BY RepairedIs
<1>2. /\ Extends(w, ms)
      /\ \A i \in New : i - Len(ms) \in DOMAIN ns /\ w[i] = ns[i - Len(ms)]
      /\ \A k \in DOMAIN ns : Len(ms) + k \in New /\ w[Len(ms) + k] = ns[k] /\ k \in Nat
  BY SyntheticType, ConcatenationExtends
<1>3. DOMAIN ns = C /\ \A k \in C : ns[k].role = "tool" /\ ns[k].uses = <<>> /\ ns[k].of = id(k)
  BY SyntheticIs
<1>4. /\ \A k \in C : Counted(ms, k) \in Dangling(ms)
      /\ \A k, l \in C : Counted(ms, k) = Counted(ms, l) => k = l
      /\ \A p \in Dangling(ms) : \E k \in C : Counted(ms, k) = p
  BY CountedOff
<1>5. Len(ms) \in Nat /\ \A i \in New : i \in Nat
  BY <1>2, Lengths DEF Extends
<1>. HIDE DEF w, ns, C, New
<1>6. \A i \in New : w[i].role = "tool" /\ w[i].uses = <<>> /\ w[i].of \in T
  BY <1>2, <1>3, <1>4 DEF DanglingIds
<1>7. ASSUME NEW i \in New, NEW j \in New, w[i].of = w[j].of PROVE i = j
  <2>. DEFINE k == i - Len(ms)
              l == j - Len(ms)
              p == Counted(ms, k)
              q == Counted(ms, l)
  <2>1. k \in C /\ l \in C /\ w[i].of = id(k) /\ w[j].of = id(l)
    BY <1>2, <1>3
  <2>2. p \in Dangling(ms) /\ q \in Dangling(ms) /\ UseAt(ms, p).id = UseAt(ms, q).id
    BY <1>4, <1>7, <2>1
  <2>. HIDE DEF p, q
  <2>3. p = q
    <3>1. /\ p[1] \in DOMAIN ms /\ p[2] \in DOMAIN ms[p[1]].uses /\ p = <<p[1], p[2]>>
          /\ q[1] \in DOMAIN ms /\ q[2] \in DOMAIN ms[q[1]].uses /\ q = <<q[1], q[2]>>
      BY <2>2, DanglingUse
    <3>2. ms[p[1]].uses[p[2]].id = ms[q[1]].uses[q[2]].id
      BY <2>2 DEF UseAt
    <3>3. p[1] = q[1] /\ p[2] = q[2]
      BY <3>1, <3>2 DEF InOrder, UsesOnce
    <3>. QED
      BY <3>1, <3>3
  <2>4. k = l
    BY <1>4, <2>1, <2>3 DEF p, q
  <2>. QED
    BY <1>5, <2>4
<1>8. ASSUME NEW p \in Dangling(ms)
      PROVE  LET x == UseAt(ms, p).id
             IN  /\ x \in 1..n /\ x \notin ResultedIn(ms)
                 /\ \E i \in New : w[i].of = x
                 /\ x \in K \/ \E i \in DOMAIN ms : x \in IdsOf(ms[i].uses) /\ Due(ms, i, x)
  <2>1. PICK k \in C : Counted(ms, k) = p
    BY <1>4
  <2>2. Len(ms) + k \in New /\ w[Len(ms) + k].of = UseAt(ms, p).id
    BY <1>2, <1>3, <2>1
  <2>. QED
    BY <2>2, DanglingUse
<1>9. \A x \in T : /\ x \in 1..n /\ x \notin ResultedIn(ms)
                   /\ \E i \in New : w[i].of = x
                   /\ x \in K \/ \E i \in DOMAIN ms : x \in IdsOf(ms[i].uses) /\ Due(ms, i, x)
  BY <1>8 DEF DanglingIds
<1>. QED
  BY <1>1, <1>2, <1>6, <1>7, <1>9 DEF AddsResults, New

LEMMA RepairSettles ==
  ASSUME NEW ms \in Messages, NEW K, NEW n \in Nat, InOrder(ms, K, n)
  PROVE  InOrder(Repaired(ms), K, n) /\ Settled(Repaired(ms), K)
<1>. DEFINE w == Repaired(ms)
            T == DanglingIds(ms)
<1>1. AddsResults(w, ms, K, n, T)
  BY RepairAdds
<1>. HIDE DEF w, T
<1>2. InOrder(w, K, n) /\ ResultedIn(w) = ResultedIn(ms) \cup T
  BY <1>1, ResultsAdded
<1>3. ASSUME NEW i \in DOMAIN w, NEW id \in IdsOf(w[i].uses) \ K PROVE Has(w, i, id)
  <2>1. Has(w, i, id) \/ Due(w, i, id)
    BY <1>2 DEF InOrder, UsesMet
  <2>2. ASSUME Due(w, i, id) PROVE FALSE
    <3>1. id \notin ResultedIn(ms) /\ id \notin T
      BY <1>2, <2>2 DEF Due
    <3>2. i \in DOMAIN ms /\ w[i] = ms[i]
      <4>1. i \notin DOMAIN ms => IdsOf(w[i].uses) = {}
        BY <1>1 DEF AddsResults, IdsOf
      <4>. QED
        BY <1>1, <4>1 DEF AddsResults, Extends
    <3>3. PICK k \in DOMAIN ms[i].uses : id = ms[i].uses[k].id
      BY <3>2 DEF IdsOf
    <3>4. <<i, k>> \in Places(ms)
      BY <3>2 DEF Places
    <3>5. <<i, k>> \in Dangling(ms) /\ UseAt(ms, <<i, k>>).id = id
      BY <3>1, <3>3, <3>4 DEF Dangling, UseAt
    <3>. QED
      BY <3>1, <3>5 DEF T, DanglingIds
  <2>. QED
    BY <2>1, <2>2
<1>4. Settled(w, K)
  BY <1>3 DEF Settled, Owes
<1>. QED
  BY <1>2, <1>4 DEF w

-----------------------------------------------------------------------------
(* Prompts.                                                                *)

\* PromptPaired, of any messages and any skipped questions.
Paired(ms, K) ==
  \A i \in DOMAIN ms :
    /\ \A id \in IdsOf(ms[i].uses) \ K : Has(ms, i, id)
    /\ ms[i].role = "tool" => ResultPlaced(ms, K, i)

LEMMA PairedIs == PromptPaired <=> Paired(prompt, skipped)
BY DEF PromptPaired, Paired, Has, ResultPlaced

LEMMA WindowPaired ==
  ASSUME NEW ms \in Messages, NEW K, Paired(ms, K), NEW n \in 0..(Len(ms) - 1), NEW d,
         n = 0 \/ ms[n + 1].role # "tool"
  PROVE  Paired(<<Digest(d)>> \o SubSeq(ms, n + 1, Len(ms)), K)
<1>. DEFINE w == <<Digest(d)>> \o SubSeq(ms, n + 1, Len(ms))
            D == DOMAIN w \ {1}
            e == n - 1
<1>1. Len(ms) \in Nat /\ DOMAIN ms = 1..Len(ms) /\ n \in Nat /\ n + 1 <= Len(ms) /\ e \in Int
  BY Lengths
<1>2. /\ DOMAIN w = 1..(Len(ms) - n + 1) /\ w[1] = Digest(d)
      /\ \A i \in 2..(Len(ms) - n + 1) : w[i] = ms[i + e]
  BY <1>1 DEF Messages
<1>. HIDE DEF w
<1>3. w[1].role = "digest" /\ w[1].uses = <<>>
  BY <1>2, MessageParts
<1>4. \A i \in D : i \in Nat /\ i >= 2 /\ i + e \in DOMAIN ms /\ i + e >= n + 1 /\ w[i] = ms[i + e]
  BY <1>1, <1>2
<1>5. \A i \in DOMAIN ms : i >= n + 1 => i - e \in D /\ w[i - e] = ms[i] /\ i \in Nat
  <2>1. SUFFICES ASSUME NEW i \in DOMAIN ms, i >= n + 1
                 PROVE  i - e \in D /\ w[i - e] = ms[i] /\ i \in Nat
    OBVIOUS
  <2>2. i - e \in 2..(Len(ms) - n + 1) /\ (i - e) + e = i
    BY <1>1, <2>1
  <2>. QED
    BY <1>1, <1>2, <2>1, <2>2
<1>. HIDE DEF e, D
<1>6. ASSUME NEW i \in D, NEW k \in Block(ms, i + e)
      PROVE  k - e \in Block(w, i) /\ w[k - e] = ms[k]
  <2>1. k \in DOMAIN ms /\ k > i + e /\ \A j \in (i + e + 1)..k : ms[j].role = "tool"
    BY DEF Block
  <2>2. k >= n + 1 /\ k \in Nat
    BY <1>1, <1>4, <2>1
  <2>3. k - e \in D /\ w[k - e] = ms[k] /\ k - e > i
    BY <1>1, <1>4, <1>5, <2>1, <2>2
  <2>4. ASSUME NEW j \in (i + 1)..(k - e) PROVE w[j].role = "tool"
    <3>1. j + e \in (i + e + 1)..k
      BY <1>1, <1>4, <2>2
    <3>2. j \in D
      BY <1>1, <1>2, <1>4, <2>2, <2>3 DEF D
    <3>. QED
      BY <1>4, <2>1, <3>1, <3>2
  <2>. QED
    BY <2>3, <2>4 DEF Block, D
<1>7. ASSUME NEW i \in DOMAIN w, NEW id \in IdsOf(w[i].uses) \ K PROVE Has(w, i, id)
  <2>1. i \in D
    BY <1>3 DEF D, IdsOf
  <2>2. PICK k \in Block(ms, i + e) : ms[k].of = id
    BY <1>4, <2>1 DEF Paired, Has
  <2>. QED
    BY <1>6, <2>1, <2>2 DEF Has
<1>8. ASSUME NEW i \in DOMAIN w, w[i].role = "tool" PROVE ResultPlaced(w, K, i)
  <2>1. i \in D /\ i + e \in DOMAIN ms /\ w[i] = ms[i + e] /\ i + e >= n + 1 /\ i + e \in Nat
    BY <1>1, <1>3, <1>4, <1>8 DEF D
  <2>2. ResultPlaced(ms, K, i + e)
    BY <1>8, <2>1 DEF Paired
  <2>3. ASSUME NEW k \in DOMAIN w, w[k].role = "tool", w[k].of = w[i].of PROVE k = i
    <3>1. k \in D
      BY <1>3, <2>3 DEF D
    <3>2. k + e = i + e
      BY <1>4, <2>1, <2>2, <2>3, <3>1 DEF ResultPlaced
    <3>. QED
      BY <1>1, <1>4, <2>1, <3>1, <3>2
  <2>4. ASSUME NEW j \in DOMAIN ms, i + e \in Block(ms, j), ms[i + e].of \in IdsOf(ms[j].uses)
        PROVE  \E l \in DOMAIN w : i \in Block(w, l) /\ w[i].of \in IdsOf(w[l].uses)
    <3>1. j \in Nat /\ i + e > j /\ \A x \in (j + 1)..(i + e) : ms[x].role = "tool"
      BY <1>1, <2>4 DEF Block
    <3>2. j >= n + 1
      <4>1. ASSUME j <= n PROVE FALSE
        <5>1. n # 0
          BY <1>1, <4>1
        <5>2. n + 1 \in (j + 1)..(i + e)
          BY <1>1, <2>1, <3>1, <4>1
        <5>. QED
          BY <3>1, <5>1, <5>2
      <4>. QED
        BY <1>1, <3>1, <4>1
    <3>3. j - e \in D /\ w[j - e] = ms[j] /\ (j - e) + e = j /\ (i + e) - e = i
      BY <1>1, <1>4, <1>5, <2>1, <3>1, <3>2
    <3>4. (i + e) - e \in Block(w, j - e)
      BY <1>6, <2>4, <3>3
    <3>. QED
      BY <2>1, <2>4, <3>3, <3>4 DEF D
  <2>5. w[i].of \in K \/ \E l \in DOMAIN w : i \in Block(w, l) /\ w[i].of \in IdsOf(w[l].uses)
    BY <2>1, <2>2, <2>4 DEF ResultPlaced
  <2>. QED
    BY <2>3, <2>5 DEF ResultPlaced
<1>. QED
  BY <1>7, <1>8 DEF Paired, w

LEMMA PromptIsPaired ==
  ASSUME NEW ms \in Messages, NEW K, NEW n, InOrder(ms, K, n), Settled(ms, K)
  PROVE  Paired(PromptWindow(ms), K)
<1>1. Paired(ms, K)
  BY DEF Paired, Settled, Owes, InOrder, ResultsPlaced
<1>. QED
  BY <1>1, PromptIs, WindowPaired

-----------------------------------------------------------------------------
(* The invariant.                                                          *)

\* Between the steps a transcript is in order.  Before a request nothing is owed; in the
\* loop of dispatch_tools what is owed is the queue, and where a run stopped at a question
\* the question too.
TranscriptInv ==
  /\ InOrder(state.messages, skipped, Len(uses))
  /\ step \in {"PrepareTurn", "ModelStep"} => state.pending = <<>> /\ Settled(state.messages, skipped)
  /\ step = "DispatchTools" => Owes(state.messages, skipped, IdsOf(state.pending))
  /\ ckpt # NoCkpt =>
       /\ InOrder(ckpt.state.messages, skipped, Len(uses))
       /\ ckpt.interrupted =>
            Owes(ckpt.state.messages, skipped,
                 {ckpt.state.pendingHuman.id} \cup IdsOf(ckpt.state.pending))
  /\ PromptPaired

LEMMA NoIds == IdsOf(<<>>) = {}
BY DEF IdsOf

LEMMA IdsInFront ==
  ASSUME NEW q \in Seq(Use), NEW u \in Use
  PROVE  IdsOf(<<u>> \o q) = {u.id} \cup IdsOf(q)
<1>. DEFINE p == <<u>> \o q
<1>1. /\ Len(q) \in Nat /\ DOMAIN q = 1..Len(q) /\ DOMAIN p = 1..(Len(q) + 1) /\ p[1] = u
      /\ \A k \in 1..Len(q) : k \in Nat /\ k + 1 \in 1..(Len(q) + 1) /\ p[k + 1] = q[k]
  OBVIOUS
<1>. HIDE DEF p
<1>2. \A k \in DOMAIN p : p[k] = u \/ \E l \in DOMAIN q : p[k] = q[l]
  <2>1. ASSUME NEW k \in DOMAIN p, k # 1 PROVE k - 1 \in DOMAIN q /\ p[k] = q[k - 1]
    <3>1. k - 1 \in 1..Len(q) /\ (k - 1) + 1 = k
      BY <1>1, <2>1
    <3>. QED
      BY <1>1, <3>1
  <2>. QED
    BY <1>1, <2>1
<1>3. 1 \in DOMAIN p /\ \A l \in DOMAIN q : l + 1 \in DOMAIN p /\ p[l + 1] = q[l]
  BY <1>1
<1>4. IdsOf(p) = {u.id} \cup IdsOf(q)
  <2>1. \A k \in DOMAIN p : p[k].id \in {u.id} \cup IdsOf(q)
    BY <1>2 DEF IdsOf
  <2>2. u.id \in IdsOf(p) /\ \A l \in DOMAIN q : q[l].id \in IdsOf(p)
    BY <1>1, <1>3 DEF IdsOf
  <2>. QED
    BY <2>1, <2>2 DEF IdsOf
<1>. QED
  BY <1>4 DEF p

\* A turn takes one use off a queue in which each stands once.
LEMMA IdsBehind ==
  ASSUME state \in AgentState, state.pending # <<>>, NEW n, Queue(state, n)
  PROVE  /\ IdsOf(Tail(state.pending)) = IdsOf(state.pending) \ {Current.id}
         /\ {Current.id} \cup IdsOf(Tail(state.pending)) = IdsOf(state.pending)
         /\ Current.id \in IdsOf(state.pending)
<1>. DEFINE q == state.pending
            t == Tail(q)
<1>1. /\ q \in Seq(Use) /\ Current = q[1] /\ 1 \in DOMAIN q
      /\ \A k \in DOMAIN t : k + 1 \in DOMAIN q /\ t[k] = q[k + 1] /\ k + 1 # 1
      /\ \A k \in DOMAIN q : k # 1 => k - 1 \in DOMAIN t /\ t[k - 1] = q[k]
  BY StateFields, CurrentType
<1>2. \A k, l \in DOMAIN q : q[k].id = q[l].id => k = l
  BY DEF Queue
<1>. HIDE DEF q, t
<1>3. \A id : id \in IdsOf(t) <=> id \in IdsOf(q) /\ id # Current.id
  <2>1. ASSUME NEW k \in DOMAIN t PROVE t[k].id \in IdsOf(q) /\ t[k].id # Current.id
    BY <1>1, <1>2 DEF IdsOf
  <2>2. ASSUME NEW k \in DOMAIN q, q[k].id # Current.id PROVE q[k].id \in IdsOf(t)
    BY <1>1, <2>2 DEF IdsOf
  <2>. QED
    BY <2>1, <2>2 DEF IdsOf
<1>4. Current.id \in IdsOf(q)
  BY <1>1 DEF IdsOf
<1>. QED
  BY <1>3, <1>4 DEF q, t

LEMMA SamePrompt ==
  ASSUME PromptPaired, prompt' = prompt, skipped \subseteq skipped'
  PROVE  PromptPaired'
<1>1. Paired(prompt, skipped')
  BY PairedIs DEF Paired, ResultPlaced
<1>2. PromptPaired' <=> Paired(prompt', skipped')
  BY DEF PromptPaired, Paired, Has, ResultPlaced
<1>. QED
  BY <1>1, <1>2

\* A result of the use in front.
LEMMA ResultGiven ==
  ASSUME state \in AgentState, state.pending # <<>>, NEW K, NEW n \in Nat, Queue(state, n),
         InOrder(state.messages, K, n), Owes(state.messages, K, IdsOf(state.pending)),
         NEW kind \in {"result", "denied", "answer", "wrong_answer", "interrupted"},
         Gives(state', kind), state'.pending = Tail(state.pending)
  PROVE  InOrder(state'.messages, K, n) /\ Owes(state'.messages, K, IdsOf(state'.pending))
<1>. DEFINE ms == state.messages
            T == {Current.id}
<1>1. PICK size \in Nat : state'.messages = Append(ms, Result(Current.id, kind, size))
  BY DEF Gives
<1>. DEFINE m == Result(Current.id, kind, size)
            w == Append(ms, m)
            z == Len(ms) + 1
<1>2. m \in Message /\ m.role = "tool" /\ m.uses = <<>> /\ m.of = Current.id
  BY CurrentType, MessageTypes, MessageParts
<1>3. ms \in Messages
  BY StateFields
<1>4. Extends(w, ms) /\ DOMAIN w \ DOMAIN ms = {z} /\ w[z] = m
  BY <1>2, <1>3, AppendExtends
<1>. HIDE DEF m, w, ms, z
<1>5. PICK i \in DOMAIN ms : Current.id \in IdsOf(ms[i].uses) /\ Due(ms, i, Current.id)
  BY IdsBehind DEF Owes, ms
<1>6. Current.id \in 1..n
  BY <1>5 DEF InOrder, UsesOnce, IdsOf, ms
<1>7. AddsResults(w, ms, K, n, T)
  BY <1>2, <1>4, <1>5, <1>6 DEF AddsResults, Due
<1>8. InOrder(w, K, n) /\ Owes(w, K, IdsOf(state.pending) \ T)
  BY <1>7, ResultsAdded DEF ms
<1>. QED
  BY <1>1, <1>8, IdsBehind DEF w, m

LEMMA TranscriptTurn ==
  ASSUME TranscriptInv, TypeInv, CallsInv, Turn
  PROVE  TranscriptInv'
<1>1. /\ TurnDoes /\ state.pending # <<>> /\ step = "DispatchTools"
      /\ uses' = uses /\ prompt' = prompt /\ skipped' = skipped
      /\ state \in AgentState /\ Len(uses) \in Nat
  BY Turns, TurnLeaves, StillTypes DEF Typed
<1>2. /\ Owes(state.messages, skipped, IdsOf(state.pending))
      /\ InOrder(state.messages, skipped, Len(uses)) /\ Queue(state, Len(uses))
  BY <1>1 DEF TranscriptInv, CallsInv
<1>3. PromptPaired'
  BY <1>1, SamePrompt DEF TranscriptInv
<1>4. state'.pending = Tail(state.pending)
  BY <1>1 DEF TurnDoes
<1>5. CASE Drops /\ step' = "idle" /\ ckpt' = [interrupted |-> FALSE, state |-> state', next |-> step']
  BY <1>1, <1>2, <1>3, <1>5 DEF TranscriptInv, Drops
<1>6. CASE Drops /\ state'.pendingHuman = Current /\ step' = "idle"
           /\ ckpt' = [interrupted |-> TRUE, state |-> state', next |-> step']
  <2>1. {Current.id} \cup IdsOf(state'.pending) = IdsOf(state.pending)
    BY <1>1, <1>2, <1>4, IdsBehind
  <2>. QED
    BY <1>1, <1>2, <1>3, <1>6, <2>1 DEF TranscriptInv, Drops
<1>7. ASSUME NEW kind \in {"result", "denied", "answer", "wrong_answer", "interrupted"},
             Gives(state', kind),
             \/ ckpt' = [interrupted |-> FALSE, state |-> state', next |-> step'] /\ step' = "idle"
             \/ ckpt' = ckpt /\ step' = step
      PROVE  TranscriptInv'
  <2>1. InOrder(state'.messages, skipped, Len(uses))
        /\ Owes(state'.messages, skipped, IdsOf(state'.pending))
    BY <1>1, <1>2, <1>4, <1>7, ResultGiven
  <2>2. step' \notin {"PrepareTurn", "ModelStep"}
    BY <1>1, <1>7
  <2>3. ckpt' = ckpt \/ (ckpt'.state = state' /\ ~ckpt'.interrupted)
    BY <1>7
  <2>. QED
    BY <1>1, <1>3, <2>1, <2>2, <2>3 DEF TranscriptInv
<1>. QED
  BY <1>1, <1>5, <1>6, <1>7 DEF TurnDoes

LEMMA TranscriptModelStep ==
  ASSUME TranscriptInv, TypeInv, NEW n \in 0..MaxPerTurn, NEW names \in [1..n -> Tools],
         NEW hasText \in BOOLEAN, NEW truncated \in BOOLEAN, NEW final \in BOOLEAN,
         ModelStep(names, hasText, truncated, final)
  PROVE  TranscriptInv'
<1>. DEFINE us == UsesNamed(names)
            ms == state.messages
            N == Len(uses)
            K == skipped
<1>1. n \in Nat
  BY Budgets
<1>2. /\ Typed(state') /\ (Cut \/ Queued(us)) /\ skipped' = K
      /\ ckpt' = [interrupted |-> FALSE, state |-> state', next |-> step'] /\ uses' = uses \o us
      /\ Len(uses) + Len(names) <= MaxUses /\ prompt' = PromptWindow(ms) /\ step = "ModelStep"
  BY <1>1, ModelStepDoes DEF ModelStep
<1>3. us \in Seq(Use) /\ Len(us) = n /\ \A k \in 1..n : us[k].id = N + k
  BY <1>1, <1>2, NamedUses, StillTypes
<1>4. uses \in Seq(Use) /\ ms \in Messages /\ N \in Nat
  BY StillTypes, StateFields DEF Typed
<1>. HIDE DEF us
<1>5. Len(uses') = N + Len(us) /\ Len(uses') \in Nat /\ N <= Len(uses')
  <2>1. Len(uses \o us) = N + Len(us) /\ Len(us) \in Nat
    <3>1. us \in Seq(Use) /\ uses \in Seq(Use)
      BY <1>3, <1>4
    <3>. QED
      BY <3>1
  <2>. HIDE DEF N
  <2>. QED
    BY <1>2, <1>4, <2>1
<1>6. InOrder(ms, K, N) /\ Settled(ms, K) /\ state.pending = <<>>
  BY <1>2 DEF TranscriptInv
<1>7. PromptPaired'
  <2>1. Paired(prompt', skipped')
    BY <1>2, <1>4, <1>6, PromptIsPaired
  <2>. QED
    BY <2>1 DEF PromptPaired, Paired, Has, ResultPlaced
<1>. HIDE DEF N, K
<1>8. InOrder(ms, K, Len(uses')) /\ Settled(ms, K)
  BY <1>4, <1>5, <1>6, OrderGrows
<1>9. ASSUME NEW vs \in Seq(Use), vs = <<>> \/ vs = us
      PROVE  LET w == Append(ms, Assistant(vs))
             IN  InOrder(w, K, Len(uses')) /\ Owes(w, K, IdsOf(vs))
  <2>. DEFINE m == Assistant(vs)
              w == Append(ms, m)
  <2>1. m \in Message /\ m.role # "tool" /\ m.uses = vs
    BY MessageTypes, MessageParts
  <2>2. \A k \in 1..Len(m.uses) : m.uses[k].id = N + k
    <3>1. CASE vs = <<>>
      <4>1. Len(m.uses) = 0
        BY <2>1, <3>1
      <4>. QED
        BY <4>1
    <3>2. CASE vs = us
      BY <1>3, <2>1, <3>2
    <3>. QED
      BY <1>9, <3>1, <3>2
  <2>3. N + Len(m.uses) \in Nat /\ N + Len(m.uses) <= Len(uses')
    <3>1. CASE vs = <<>>
      <4>1. Len(m.uses) = 0
        BY <2>1, <3>1
      <4>. QED
        BY <1>4, <1>5, <4>1
    <3>2. CASE vs = us
      BY <1>5, <2>1, <3>2
    <3>. QED
      BY <1>9, <3>1, <3>2
  <2>. HIDE DEF m
  <2>4. InOrder(w, K, N + Len(m.uses)) /\ Owes(w, K, IdsOf(m.uses))
    BY <1>4, <1>6, <2>1, <2>2, MessageAdded
  <2>5. w \in Messages
    BY <1>4, <2>1 DEF Messages
  <2>. HIDE DEF w
  <2>6. InOrder(w, K, Len(uses'))
    BY <1>5, <2>3, <2>4, <2>5, OrderGrows
  <2>. QED
    BY <2>1, <2>4, <2>6 DEF w, m
<1>10. /\ InOrder(state'.messages, K, Len(uses'))
       /\ step' \notin {"PrepareTurn", "ModelStep"}
       /\ step' = "DispatchTools" => Owes(state'.messages, K, IdsOf(state'.pending))
  <2>1. CASE Cut
    <3>1. <<>> \in Seq(Use)
      OBVIOUS
    <3>2. InOrder(Append(ms, Assistant(<<>>)), K, Len(uses'))
      BY <1>9, <3>1
    <3>. QED
      BY <1>8, <2>1, <3>2 DEF Cut
  <2>2. CASE Queued(us)
    <3>1. state'.pending = us /\ step' \in {"idle", "DispatchTools"}
      <4>1. state'.pending = <<>> \o us /\ step' \in {"idle", "DispatchTools"}
        BY <1>6, <2>2 DEF Queued
      <4>2. <<>> \o us = us
        BY <1>3
      <4>. QED
        BY <4>1, <4>2
    <3>2. CASE us = <<>> /\ state'.messages = ms
      BY <1>8, <3>1, <3>2, NoIds DEF Settled
    <3>3. CASE state'.messages = Append(ms, Assistant(us))
      BY <1>3, <1>9, <3>1, <3>3
    <3>. QED
      BY <2>2, <3>2, <3>3 DEF Queued
  <2>. QED
    BY <1>2, <2>1, <2>2
<1>. QED
  BY <1>2, <1>7, <1>10 DEF TranscriptInv

LEMMA TranscriptStart ==
  ASSUME TranscriptInv, TypeInv, NEW input \in Answers, Start(input)
  PROVE  TranscriptInv'
<1>1. /\ Typed(state') /\ Inherited \in Messages
      /\ state'.messages = Repaired(Inherited) \o <<Text("user")>>
      /\ state'.pending = <<>> /\ UNCHANGED <<ckpt, prompt, uses, skipped>>
  BY StartDoes
<1>2. Len(uses) \in Nat
  BY StillTypes
<1>3. InOrder(Inherited, skipped, Len(uses))
  BY NoTranscript DEF Inherited, TranscriptInv
<1>. DEFINE R == Repaired(Inherited)
            m == Text("user")
            w == Append(R, m)
<1>4. R \in Messages /\ InOrder(R, skipped, Len(uses)) /\ Settled(R, skipped)
  BY <1>1, <1>2, <1>3, RepairSettles, RepairedType
<1>. HIDE DEF R
<1>5. m \in Message /\ m.role # "tool" /\ m.uses = <<>> /\ Len(m.uses) = 0
  BY MessageTypes, MessageParts
<1>. HIDE DEF m
<1>6. InOrder(w, skipped, Len(uses) + Len(m.uses)) /\ Owes(w, skipped, IdsOf(m.uses))
  <2>1. \A k \in 1..Len(m.uses) : m.uses[k].id = Len(uses) + k
    BY <1>5
  <2>. QED
    BY <1>2, <1>4, <1>5, <2>1, MessageAdded
<1>7. state'.messages = w
  BY <1>1, <1>4, <1>5, AppendExtends DEF R, m
<1>. HIDE DEF w
<1>8. InOrder(state'.messages, skipped, Len(uses)) /\ Settled(state'.messages, skipped)
      /\ Owes(state'.messages, skipped, IdsOf(state'.pending))
  <2>1. Len(uses) + Len(m.uses) = Len(uses) /\ IdsOf(m.uses) = {} /\ IdsOf(state'.pending) = {}
    BY <1>1, <1>2, <1>5, NoIds
  <2>. QED
    BY <1>6, <1>7, <2>1 DEF Settled
<1>9. PromptPaired'
  BY <1>1, SamePrompt DEF TranscriptInv
<1>. QED
  BY <1>1, <1>8, <1>9 DEF TranscriptInv

\* A Resume without an answer leaves its question to the uses that may lack a result.
LEMMA TranscriptResume ==
  ASSUME TranscriptInv, TypeInv, NEW input \in Answers, Resume(input)
  PROVE  TranscriptInv'
<1>. DEFINE s == ckpt.state
            K == skipped
            J == skipped'
            q == s.pendingHuman
<1>1. /\ ckpt # NoCkpt /\ ckpt.interrupted /\ state'.messages = s.messages /\ Typed(s)
      /\ IF input # NoUse /\ q # NoUse THEN state'.pending = <<q>> \o s.pending
                                       ELSE state'.pending = s.pending
      /\ J = IF input = NoUse THEN K \cup {q.id} ELSE K
      /\ step' = "DispatchTools" /\ UNCHANGED <<ckpt, prompt, uses>>
  BY ResumeDoes
<1>2. /\ InOrder(s.messages, K, Len(uses)) /\ Owes(s.messages, K, {q.id} \cup IdsOf(s.pending))
      /\ q \in Use /\ q # NoUse
  BY <1>1, Budgets DEF TranscriptInv, TypeInv
<1>3. s.messages \in Messages /\ s.pending \in Seq(Use) /\ Len(uses) \in Nat /\ K \subseteq J
  BY <1>1, StateFields, StillTypes DEF Typed
<1>. HIDE DEF s, K, J, q
<1>4. InOrder(s.messages, J, Len(uses)) /\ Owes(s.messages, J, {q.id} \cup IdsOf(s.pending))
  BY <1>2, <1>3, OrderGrows
<1>5. Owes(state'.messages, J, IdsOf(state'.pending))
  <2>1. CASE input # NoUse
    BY <1>1, <1>2, <1>3, <1>4, <2>1, IdsInFront
  <2>2. CASE input = NoUse
    BY <1>1, <1>4, <2>2 DEF Owes
  <2>. QED
    BY <2>1, <2>2
<1>6. PromptPaired'
  BY <1>1, <1>3, SamePrompt DEF TranscriptInv, K, J
<1>7. /\ InOrder(state'.messages, skipped', Len(uses'))
      /\ step' \notin {"PrepareTurn", "ModelStep"}
      /\ Owes(state'.messages, skipped', IdsOf(state'.pending))
  BY <1>1, <1>4, <1>5 DEF J
<1>8. /\ InOrder(ckpt'.state.messages, skipped', Len(uses'))
      /\ Owes(ckpt'.state.messages, skipped', {ckpt'.state.pendingHuman.id} \cup IdsOf(ckpt'.state.pending))
  BY <1>1, <1>4 DEF J, s, q
<1>. QED
  BY <1>6, <1>7, <1>8 DEF TranscriptInv

LEMMA TranscriptStep ==
  ASSUME TranscriptInv, TypeInv, CallsInv, Next
  PROVE  TranscriptInv'
<1>1. CASE Quiet
  <2>1. /\ state' = state /\ ckpt' = [interrupted |-> FALSE, state |-> state, next |-> step']
        /\ step' \in {"idle", "ModelStep"} /\ prompt' = prompt /\ uses' = uses /\ skipped' = skipped
    BY <1>1 DEF Quiet
  <2>2. step' = "ModelStep" => state.pending = <<>> /\ Settled(state.messages, skipped)
    <3>1. CASE PrepareTurn
      BY <3>1 DEF PrepareTurn, TranscriptInv
    <3>2. CASE OutOfTurns
      BY <3>2 DEF OutOfTurns, TranscriptInv
    <3>3. CASE ToolsDone
      BY <3>3, NoIds DEF ToolsDone, TranscriptInv, Settled
    <3>. QED
      BY <1>1, <3>1, <3>2, <3>3 DEF Quiet
  <2>3. PromptPaired'
    BY <2>1, SamePrompt DEF TranscriptInv
  <2>. QED
    BY <2>1, <2>2, <2>3 DEF TranscriptInv
<1>2. CASE ModelSteps
  BY <1>2, TranscriptModelStep DEF ModelSteps
<1>3. CASE Fail \/ FailAfterCall
  <2>1. state' = EmptyState /\ step' = "idle" /\ UNCHANGED <<ckpt, prompt, uses, skipped>>
    BY <1>3, FailDoes, FailAfterCallDoes DEF Dies
  <2>2. state'.messages = <<>>
    BY <2>1 DEF EmptyState
  <2>3. InOrder(state'.messages, skipped', Len(uses'))
    BY <2>2, NoTranscript
  <2>4. PromptPaired'
    BY <2>1, SamePrompt DEF TranscriptInv
  <2>. QED
    BY <2>1, <2>3, <2>4 DEF TranscriptInv
<1>. QED
  BY <1>1, <1>2, <1>3, StepCases, TranscriptTurn, TranscriptStart, TranscriptResume

LEMMA TranscriptInit == Init => TranscriptInv
<1>. SUFFICES ASSUME Init PROVE TranscriptInv
  OBVIOUS
<1>1. state.messages = <<>> /\ step = "idle" /\ ckpt = NoCkpt /\ prompt = <<>>
  BY DEF Init, EmptyState
<1>2. PromptPaired
  BY <1>1 DEF PromptPaired
<1>. QED
  BY <1>1, <1>2, NoTranscript DEF TranscriptInv

\* No request shows the model a tool use without its one result behind the message that
\* asked for it, or a result anywhere else, for transcripts, queues and windows of every
\* size: a run that failed, was cut off or was abandoned at a question leaves uses without
\* one, and the repair at the next start gives it to them where the model looks for it
\* (repair_dangling_tool_uses, dispatch_tools, build_compacted_window).  The one exception
\* is a question that a Resume without an answer went on from: the code leaves it open, and
\* every other use is paired all the same.
THEOREM PromptsPaired == Spec => []PromptPaired
<1>1. TypeInv /\ CallsInv /\ TranscriptInv /\ [Next]_vars => TranscriptInv'
  <2>. SUFFICES ASSUME TypeInv, CallsInv, TranscriptInv, [Next]_vars PROVE TranscriptInv'
    OBVIOUS
  <2>1. CASE UNCHANGED vars
    <3>1. PromptPaired'
      BY <2>1, SamePrompt DEF vars, TranscriptInv
    <3>. QED
      BY <2>1, <3>1 DEF vars, TranscriptInv
  <2>. QED
    BY <2>1, TranscriptStep
<1>2. TranscriptInv => PromptPaired
  BY DEF TranscriptInv
<1>. QED
  BY <1>1, <1>2, CallsInvariant, TranscriptInit, PTL DEF Spec
=============================================================================
