---------------------------- MODULE EngineProofs ----------------------------
(***************************************************************************)
(* The state machine, the engine and the session store, for every value of *)
(* their constants.                                                        *)
(*                                                                         *)
(* The machine: its type invariant, that validate_runtime_data never       *)
(* rejects a candidate, and that the transcript and the open batch agree,  *)
(* from which it follows that every tool call is answered whenever a model *)
(* may see it.  SystemMessages is a recursive function; what it returns is *)
(* shown by least counterexample (Least), since the induction theorems of  *)
(* the library take an operator as a parameter.                            *)
(*                                                                         *)
(* The engine: each of its steps is a step of the machine or changes       *)
(* nothing the machine sees, so what is shown of the machine holds of the  *)
(* engine; and the action queue and the action in flight always belong to  *)
(* the current run and to the state.                                       *)
(*                                                                         *)
(* The store, which keeps the messages of the engine and shares no state   *)
(* with it: it implements a durable log, for any number of sessions, any   *)
(* records and logs of any length, as long as a crash does not keep a      *)
(* record and lose its newline, and no write is short.                     *)
(***************************************************************************)
EXTENDS Engine, Store, TLAPS, WellFoundedInduction, FiniteSetTheorems

-----------------------------------------------------------------------------
(* A set of naturals that is not empty has a least element.                *)
LEMMA Least ==
  ASSUME NEW T, T \subseteq Nat, T # {}
  PROVE \E x \in T : \A y \in T : x <= y
<1>1. \E x \in T : \A y \in T : ~ (<<y, x>> \in OpToRel(<, Nat))
  BY NatLessThanWellFounded, WFMin
<1>2. PICK x \in T : \A y \in T : ~ (<<y, x>> \in OpToRel(<, Nat)) BY <1>1
<1>3. ASSUME NEW y \in T PROVE x <= y
  <2>1. <<y, x>> \in Nat \X Nat OBVIOUS
  <2>2. ~ (y < x)  BY <1>2, <2>1 DEF OpToRel
  <2> QED BY <2>2
<1> QED BY <1>3

(* g is what system_messages has kept after each of the first n messages.  *)
KeptTo(msgs, n, g) ==
  g = [i \in 0..n |-> IF i = 0 THEN <<>>
        ELSE IF msgs[i].role = "system" THEN Append(g[i - 1], msgs[i]) ELSE g[i - 1]]

(* SystemMessages is well defined: that function exists.                   *)
LEMMA KeptExists ==
  ASSUME NEW msgs \in Seq(Message), NEW n \in Nat
  PROVE \E g : KeptTo(msgs, n, g)
<1> DEFINE Bad == {k \in Nat : ~ \E g : KeptTo(msgs, k, g)}
<1> SUFFICES ASSUME Bad # {} PROVE FALSE
  OBVIOUS
<1>1. PICK k \in Bad : \A y \in Bad : k <= y
  <2> Bad \subseteq Nat OBVIOUS
  <2> QED BY Least
<1>2. k # 0
  <2> DEFINE z == [i \in 0..0 |-> <<>>]
  <2>1. KeptTo(msgs, 0, z) BY DEF KeptTo
  <2> QED BY <2>1
<1>3. k - 1 \in Nat /\ k - 1 \notin Bad BY <1>1, <1>2
<1>4. PICK g : KeptTo(msgs, k - 1, g) BY <1>3
<1> DEFINE h == [i \in 0..k |-> IF i < k THEN g[i]
                   ELSE IF msgs[i].role = "system" THEN Append(g[i - 1], msgs[i]) ELSE g[i - 1]]
<1>5. KeptTo(msgs, k, h)
  <2> DEFINE r == [i \in 0..k |-> IF i = 0 THEN <<>>
        ELSE IF msgs[i].role = "system" THEN Append(h[i - 1], msgs[i]) ELSE h[i - 1]]
  <2>1. ASSUME NEW i \in 0..k PROVE h[i] = r[i]
    <3>1. CASE i = 0 
      <4>1. h[i] = g[i] BY <3>1, <1>2
      <4>2. g[i] = <<>> BY <3>1, <1>4, <1>3 DEF KeptTo
      <4> QED BY <4>1, <4>2, <3>1
    <3>2. CASE i # 0 /\ i < k
      <4>1. h[i] = g[i] /\ h[i-1] = g[i-1] BY <3>2, <1>3
      <4>2. i \in 0..(k-1) BY <3>2, <1>3
      <4>3. g[i] = IF msgs[i].role = "system" THEN Append(g[i - 1], msgs[i]) ELSE g[i - 1] 
         BY <3>2, <4>2, <1>4 DEF KeptTo
      <4> QED BY <4>1, <4>3, <3>2
    <3>3. CASE i = k 
      <4>1. h[i-1] = g[i-1] BY <3>3, <1>2
      <4> QED BY <4>1, <3>3, <1>2
    <3> QED BY <3>1, <3>2, <3>3
  <2>2. h = r BY <2>1, Zenon
  <2> QED BY <2>2 DEF KeptTo
<1> QED BY <1>5, <1>1

(* system_messages keeps messages, and only system ones.                   *)
LEMMA SystemMessagesOnly ==
  ASSUME NEW msgs \in Seq(Message)
  PROVE  /\ SystemMessages(msgs) \in Seq(Message)
         /\ \A j \in DOMAIN SystemMessages(msgs) : SystemMessages(msgs)[j].role = "system"
<1> DEFINE n == Len(msgs)
           K == CHOOSE g : KeptTo(msgs, n, g)
<1>0. n \in Nat OBVIOUS
<1>1. KeptTo(msgs, n, K) BY KeptExists, <1>0
<1>2. SystemMessages(msgs) = K[n] BY DEF SystemMessages, KeptTo
<1> HIDE DEF K
<1> DEFINE Ok(s) == s \in Seq(Message) /\ \A j \in DOMAIN s : s[j].role = "system"
           Bad == {k \in 0..n : ~ Ok(K[k])}
<1>3. Bad = {}
  <2> SUFFICES ASSUME Bad # {} PROVE FALSE OBVIOUS
  <2>1. PICK k \in Bad : \A y \in Bad : k <= y
    <3> Bad \subseteq Nat BY <1>0
    <3> QED BY Least
  <2>2. k # 0 BY <1>1 DEF KeptTo
  <2>3. k - 1 \in 0..n /\ k - 1 \notin Bad BY <2>1, <2>2
  <2>4. Ok(K[k-1]) BY <2>3
  <2>5. K[k] = IF msgs[k].role = "system" THEN Append(K[k - 1], msgs[k]) ELSE K[k - 1]
    BY <1>1, <2>2 DEF KeptTo
  <2>6. Ok(K[k]) BY <2>4, <2>5, <2>2
  <2> QED BY <2>6
<1> QED BY <1>2, <1>3, <1>0

-----------------------------------------------------------------------------
(* Type correctness.                                                       *)

(* What the handlers append is a message.                                  *)
LEMMA MessageTypes ==
  /\ UserMessage \in Message
  /\ \A calls \in Seq(ToolCall), o \in Outcomes : AssistantMessage(calls, o) \in Message
  /\ \A call \in ToolCall, o \in Outcomes : ToolMessage(call, o) \in Message
<1>1. UserMessage \in Message
  BY DEF UserMessage, Message, Roles, Outcomes
<1>2. ASSUME NEW calls \in Seq(ToolCall), NEW o \in Outcomes PROVE AssistantMessage(calls, o) \in Message
  BY DEF AssistantMessage, Message, Roles
<1>3. ASSUME NEW call \in ToolCall, NEW o \in Outcomes PROVE ToolMessage(call, o) \in Message
  BY DEF ToolMessage, Message, Roles
<1> QED BY <1>1, <1>2, <1>3

(* What is left of the batch is a sequence of calls, and how long it is.   *)
LEMMA RemainingType ==
  ASSUME TypeOK
  PROVE  /\ Remaining \in Seq(ToolCall)
         /\ batch = NoBatch => Remaining = <<>>
         /\ batch # NoBatch =>
              /\ Len(Remaining) = Len(batch.calls) - batch.index
              /\ \A j \in 1..Len(Remaining) : Remaining[j] = batch.calls[batch.index + j]
<1>1. CASE HasNext
  <2>1. batch.calls \in Seq(ToolCall) /\ batch.index \in Nat /\ batch.index < Len(batch.calls)
    BY <1>1 DEF TypeOK, HasNext, Batch
  <2>2. Remaining = SubSeq(batch.calls, batch.index + 1, Len(batch.calls))
    BY <1>1 DEF Remaining
  <2>3. Remaining \in Seq(ToolCall) /\ Len(Remaining) = Len(batch.calls) - batch.index
    BY <2>1, <2>2
  <2>4. \A j \in 1..Len(Remaining) : Remaining[j] = batch.calls[batch.index + j]
    BY <2>1, <2>2, SMTT(30)
  <2> QED BY <1>1, <2>3, <2>4 DEF HasNext
<1>2. CASE ~HasNext
  <2>1. Remaining = <<>> BY <1>2 DEF Remaining
  <2>2. batch # NoBatch => batch.index = Len(batch.calls)
    BY <1>2 DEF TypeOK, HasNext, Batch
  <2> QED BY <2>1, <2>2
<1> QED BY <1>1, <1>2

(* The answers to what is outstanding are messages.                        *)
LEMMA OutstandingType ==
  ASSUME TypeOK
  PROVE  OutstandingToolResults \in Seq(Message)
<1>1. Remaining \in Seq(ToolCall) BY RemainingType
<1>2. [j \in 1..Len(Remaining) |-> ToolMessage(Remaining[j], "skipped")] \in Seq(Message)
  BY <1>1, MessageTypes DEF Outcomes
<1>3. (IF pending # NoCall THEN <<ToolMessage(pending, "skipped")>> ELSE <<>>) \in Seq(Message)
  BY MessageTypes DEF TypeOK, Outcomes
<1>4. (IF current # NoCall THEN <<ToolMessage(current, "aborted")>> ELSE <<>>) \in Seq(Message)
  BY MessageTypes DEF TypeOK, Outcomes
<1> QED BY <1>2, <1>3, <1>4 DEF OutstandingToolResults

(* What the handlers return is a plan.                                     *)
LEMMA PlanTypes ==
  /\ ScheduleNothing => plan' \in Plan
  /\ ClearQueue => plan' \in Plan
  /\ \A kind \in {"CallModel", "CheckToolQueue"} : Schedule(kind, NoCall) => plan' \in Plan
  /\ \A kind \in {"RunTool", "AwaitApproval"}, call \in ToolCall :
       Schedule(kind, call) => plan' \in Plan
<1>1. \A c \in BOOLEAN : [clear |-> c, action |-> NoAction] \in Plan
  BY DEF Plan
<1>2. ASSUME NEW kind \in {"CallModel", "CheckToolQueue"}, Schedule(kind, NoCall) PROVE plan' \in Plan
  <2>1. [kind |-> kind, call |-> NoCall] \in Action BY DEF Action
  <2>2. plan' = [clear |-> FALSE, action |-> [kind |-> kind, call |-> NoCall]] BY <1>2 DEF Schedule
  <2> QED BY <2>1, <2>2 DEF Plan
<1>3. ASSUME NEW kind \in {"RunTool", "AwaitApproval"}, NEW call \in ToolCall, Schedule(kind, call)
      PROVE plan' \in Plan
  <2>1. [kind |-> kind, call |-> call] \in Action BY DEF Action
  <2>2. plan' = [clear |-> FALSE, action |-> [kind |-> kind, call |-> call]] BY <1>3 DEF Schedule
  <2> QED BY <2>1, <2>2 DEF Plan
<1> QED BY <1>1, <1>2, <1>3 DEF ScheduleNothing, ClearQueue

(* A step keeps every type, and the batch index inside the batch.          *)
LEMMA TypeStep == TypeOK /\ [MachineNext]_mvars => TypeOK'
<1> SUFFICES ASSUME TypeOK, [MachineNext]_mvars PROVE TypeOK'
  OBVIOUS
<1> DEFINE Keeps == /\ messages' \in Seq(Message)
                    /\ plan' \in Plan
<1>0. messages \in Seq(Message) BY DEF TypeOK
<1>1. CASE EngineReady
  BY <1>1, PlanTypes DEF EngineReady, TypeOK, States
<1>2. CASE UserMessageSubmitted
  <2>1. Keeps BY <1>0, <1>2, MessageTypes, PlanTypes DEF UserMessageSubmitted
  <2> QED BY <1>2, <2>1 DEF UserMessageSubmitted, TypeOK, States
<1>3. CASE AssistantMessageReceived
  <2>1. AssistantMessage(<<>>, "said") \in Message
    <3>1. <<>> \in Seq(ToolCall) OBVIOUS
    <3> QED BY <3>1, MessageTypes DEF Outcomes
  <2>2. Keeps BY <1>0, <1>3, <2>1, PlanTypes DEF AssistantMessageReceived
  <2> QED BY <1>3, <2>2 DEF AssistantMessageReceived, TypeOK, States
<1>4. ASSUME NEW calls \in Batches, ToolBatchReceived(calls) PROVE TypeOK'
  <2>1. calls \in Seq(ToolCall) BY InputAssumption
  <2>2. batch' \in Batch /\ batch'.index <= Len(batch'.calls)
    BY <1>4, <2>1 DEF ToolBatchReceived, Batch
  <2>3. AssistantMessage(calls, "said") \in Message
    <3>1. "said" \in Outcomes BY DEF Outcomes
    <3> QED BY <2>1, <3>1, MessageTypes
  <2>4. Keeps BY <1>0, <1>4, <2>3, PlanTypes DEF ToolBatchReceived
  <2> QED BY <1>4, <2>2, <2>4 DEF ToolBatchReceived, TypeOK, States
<1>5. ASSUME NEW call \in ToolCall, CallEvent(call) PROVE TypeOK'
  <2>a. HasNext => /\ batch # NoBatch
                   /\ [batch EXCEPT !.index = @ + 1] \in Batch
                   /\ batch.index + 1 <= Len(batch.calls)
    BY DEF TypeOK, HasNext, Batch
  <2>b. \A o \in {"denied", "result"} : ToolMessage(call, o) \in Message
    BY MessageTypes DEF Outcomes
  <2>1. CASE ApprovalGranted(call)
    BY <2>1, PlanTypes DEF ApprovalGranted, TypeOK, States
  <2>2. CASE ApprovalDenied(call)
    <3>1. Keeps BY <1>0, <2>2, <2>b, PlanTypes DEF ApprovalDenied
    <3> QED BY <2>2, <3>1 DEF ApprovalDenied, TypeOK, States
  <2>3. CASE ToolResultReceived(call)
    <3>1. Keeps BY <1>0, <2>3, <2>b, PlanTypes DEF ToolResultReceived
    <3> QED BY <2>3, <3>1 DEF ToolResultReceived, TypeOK, States
  <2>4. CASE ToolCallNeedsApproval(call) \/ ToolCallReadyToRun(call)
    <3>1. Keeps BY <1>0, <2>4, PlanTypes DEF ToolCallNeedsApproval, ToolCallReadyToRun
    <3>2. batch' \in Batch /\ batch'.index <= Len(batch'.calls)
      BY <2>a, <2>4 DEF ToolCallNeedsApproval, ToolCallReadyToRun, AdvanceBatch, Batch
    <3> QED BY <2>4, <3>1, <3>2 DEF ToolCallNeedsApproval, ToolCallReadyToRun, TypeOK, States
  <2>5. CASE ToolCallDenied(call)
    <3>1. Keeps BY <1>0, <2>5, <2>b, PlanTypes DEF ToolCallDenied
    <3>2. batch' \in Batch /\ batch'.index <= Len(batch'.calls)
      BY <2>a, <2>5 DEF ToolCallDenied, AdvanceBatch, Batch
    <3> QED BY <2>5, <3>1, <3>2 DEF ToolCallDenied, TypeOK, States
  <2> QED BY <1>5, <2>1, <2>2, <2>3, <2>4, <2>5 DEF CallEvent
<1>6. CASE ToolBatchFinished
  BY <1>6, PlanTypes DEF ToolBatchFinished, TypeOK, States
<1>7. CASE ErrorOccurred \/ CancelRequested
  <2>1. Flushed \in Seq(Message)
    <3>1. <<>> \in Seq(ToolCall) OBVIOUS
    <3>2. AssistantMessage(<<>>, "interrupted") \in Message
      BY <3>1, MessageTypes DEF Outcomes
    <3> QED BY <3>2 DEF Flushed
  <2>2. Abandon BY <1>7 DEF ErrorOccurred, CancelRequested
  <2>3. Keeps BY <1>0, <2>1, <2>2, OutstandingType, PlanTypes DEF Abandon
  <2> QED BY <2>2, <2>3 DEF Abandon, TypeOK, States
<1>8. CASE ResetRequested
  BY <1>0, <1>8, SystemMessagesOnly, PlanTypes DEF ResetRequested, TypeOK, States
<1>9. CASE RecordStreamChunk
  BY <1>9, PlanTypes DEF RecordStreamChunk, TypeOK
<1>10. ASSUME NEW msgs \in Transcripts, ReplaceMessages(msgs) PROVE TypeOK'
  BY <1>10, InputAssumption, PlanTypes DEF ReplaceMessages, TypeOK, States
<1>11. CASE UNCHANGED mvars
  BY <1>11 DEF mvars, TypeOK
<1> QED
  BY <1>1, <1>2, <1>3, <1>4, <1>5, <1>6, <1>7, <1>8, <1>9, <1>10, <1>11 DEF MachineNext

(* The machine starts with every variable in its type.                     *)
LEMMA TypeStart == MachineInit => TypeOK
<1>1. MachineInit => plan \in Plan BY DEF MachineInit, Plan
<1> QED BY <1>1, InputAssumption DEF MachineInit, TypeOK, States

(* Every variable keeps its type, and the batch index never passes the end. *)
THEOREM TypeCorrect == MachineSpec => []TypeOK
BY TypeStart, TypeStep, PTL DEF MachineSpec

-----------------------------------------------------------------------------
(* same_tool_call is an equivalence: it is reflexive,                      *)
LEMMA SameReflexive == \A c \in ToolCall : SameToolCall(c, c)
BY DEF SameToolCall

(* symmetric,                                                              *)
LEMMA SameSymmetric == \A c, d \in ToolCall : SameToolCall(c, d) => SameToolCall(d, c)
BY DEF SameToolCall

(* and transitive.                                                         *)
LEMMA SameTransitive ==
  \A c, d, e \in ToolCall : SameToolCall(c, d) /\ SameToolCall(d, e) => SameToolCall(c, e)
BY DEF SameToolCall

(* A step keeps the slots in agreement with the state and the batch.       *)
LEMMA ValidStep == TypeOK /\ ValidRuntimeData /\ [MachineNext]_mvars => ValidRuntimeData'
<1> SUFFICES ASSUME TypeOK, ValidRuntimeData, [MachineNext]_mvars PROVE ValidRuntimeData'
  OBVIOUS
<1>1. CASE EngineReady
  BY <1>1 DEF EngineReady, ValidRuntimeData
<1>2. CASE UserMessageSubmitted
  BY <1>2 DEF UserMessageSubmitted, ValidRuntimeData
<1>3. CASE AssistantMessageReceived
  BY <1>3 DEF AssistantMessageReceived, ValidRuntimeData
<1>4. ASSUME NEW calls \in Batches, ToolBatchReceived(calls) PROVE ValidRuntimeData'
  <2>1. batch' \in Batch
    BY <1>4, InputAssumption DEF ToolBatchReceived, Batch
  <2>2. batch' # NoBatch BY <2>1, CallAssumption
  <2> QED BY <1>4, <2>2 DEF ToolBatchReceived, ValidRuntimeData
<1>5. ASSUME NEW call \in ToolCall, CallEvent(call) PROVE ValidRuntimeData'
  <2>0. call # NoCall BY CallAssumption
  <2>1. CASE ApprovalGranted(call)
    <3>1. PreviousCallMatches(pending) /\ pending \in ToolCall /\ SameToolCall(call, pending)
      BY <2>1 DEF ApprovalGranted, ValidRuntimeData, TypeOK
    <3>2. batch.calls[batch.index] \in ToolCall
      BY <3>1 DEF PreviousCallMatches, TypeOK, Batch
    <3>3. SameToolCall(batch.calls[batch.index], call)
      BY <3>1, <3>2, SameSymmetric, SameTransitive DEF PreviousCallMatches
    <3>4. PreviousCallMatches(current)'
      BY <2>0, <2>1, <3>1, <3>3 DEF ApprovalGranted, PreviousCallMatches
    <3> QED BY <2>0, <2>1, <3>4 DEF ApprovalGranted, ValidRuntimeData
  <2>2. CASE ApprovalDenied(call)
    BY <2>2 DEF ApprovalDenied, ValidRuntimeData
  <2>3. CASE ToolResultReceived(call)
    BY <2>3 DEF ToolResultReceived, ValidRuntimeData
  <2>4. CASE HasNext /\ SameToolCall(call, NextCall) /\ AdvanceBatch
    <3>1. /\ batch \in Batch /\ batch # NoBatch
          /\ batch' = [batch EXCEPT !.index = batch.index + 1]
          /\ batch.index \in Nat /\ batch.index + 1 \in 1..Len(batch.calls)
      BY <2>4 DEF HasNext, AdvanceBatch, TypeOK, Batch
    <3>2. /\ batch' \in Batch /\ batch' # NoBatch
          /\ batch'.calls = batch.calls /\ batch'.index = batch.index + 1
      BY <3>1, CallAssumption DEF Batch
    <3>3. SameToolCall(batch'.calls[batch'.index], call)
      <4>1. NextCall = batch.calls[batch.index + 1] /\ NextCall \in ToolCall
        BY <3>1 DEF NextCall, Batch
      <4> QED BY <2>4, <3>2, <4>1, SameSymmetric
    <3>4. ASSUME pending' = call PROVE PreviousCallMatches(pending)'
      BY <2>0, <3>1, <3>2, <3>3, <3>4 DEF PreviousCallMatches
    <3>5. ASSUME current' = call PROVE PreviousCallMatches(current)'
      BY <2>0, <3>1, <3>2, <3>3, <3>5 DEF PreviousCallMatches
    <3>6. CASE ToolCallNeedsApproval(call)
      BY <2>0, <3>2, <3>4, <3>6 DEF ToolCallNeedsApproval, ValidRuntimeData
    <3>7. CASE ToolCallReadyToRun(call)
      BY <2>0, <3>2, <3>5, <3>7 DEF ToolCallReadyToRun, ValidRuntimeData
    <3>8. CASE ToolCallDenied(call)
      BY <3>2, <3>8 DEF ToolCallDenied, ValidRuntimeData
    <3> QED
      BY <1>5, <2>1, <2>2, <2>3, <3>6, <3>7, <3>8 DEF CallEvent
  <2> QED
    BY <1>5, <2>1, <2>2, <2>3, <2>4
    DEF CallEvent, ToolCallNeedsApproval, ToolCallReadyToRun, ToolCallDenied
<1>6. CASE ToolBatchFinished
  BY <1>6 DEF ToolBatchFinished, ValidRuntimeData
<1>7. CASE ErrorOccurred \/ CancelRequested
  BY <1>7 DEF ErrorOccurred, CancelRequested, Abandon, ValidRuntimeData
<1>8. CASE ResetRequested
  BY <1>8 DEF ResetRequested, ValidRuntimeData
<1>9. CASE RecordStreamChunk
  BY <1>9 DEF RecordStreamChunk, ValidRuntimeData
<1>10. ASSUME NEW msgs \in Transcripts, ReplaceMessages(msgs) PROVE ValidRuntimeData'
  BY <1>10 DEF ReplaceMessages, ValidRuntimeData
<1>11. CASE UNCHANGED mvars
  BY <1>11 DEF mvars, ValidRuntimeData, PreviousCallMatches
<1> QED
  BY <1>1, <1>2, <1>3, <1>4, <1>5, <1>6, <1>7, <1>8, <1>9, <1>10, <1>11 DEF MachineNext

(* No committed state is one validate_runtime_data would have rejected.    *)
THEOREM ValidAlways == MachineSpec => []ValidRuntimeData
<1>1. MachineInit => ValidRuntimeData
  BY DEF MachineInit, ValidRuntimeData
<1> QED BY <1>1, TypeCorrect, ValidStep, PTL DEF MachineSpec

-----------------------------------------------------------------------------
(* The transcript.                                                         *)

(* What follows a transcript takes no answer away.                         *)
LEMMA AnswersExtend ==
  ASSUME NEW msgs \in Seq(Message), NEW t \in Seq(Message),
         NEW k \in DOMAIN msgs, NEW n \in Nat, Answers(msgs, k, n)
  PROVE  Answers(msgs \o t, k, n)
<1> SUFFICES ASSUME NEW j \in 1..n
             PROVE  /\ k + j \in DOMAIN (msgs \o t)
                    /\ (msgs \o t)[k + j].role = "tool"
                    /\ SameToolCall((msgs \o t)[k + j].call, (msgs \o t)[k].calls[j])
  BY DEF Answers
<1>1. /\ k + j \in DOMAIN msgs
      /\ msgs[k + j].role = "tool"
      /\ SameToolCall(msgs[k + j].call, msgs[k].calls[j])
  BY DEF Answers
<1>2. (msgs \o t)[k + j] = msgs[k + j] /\ (msgs \o t)[k] = msgs[k] /\ k + j \in DOMAIN (msgs \o t)
  BY <1>1
<1> QED BY <1>1, <1>2

(* A message that answers nothing leaves no answer unaccounted for.        *)
LEMMA StrayExtend ==
  ASSUME NEW msgs \in Seq(Message), NEW t \in Seq(Message), NoStrayAnswers(msgs),
         \A m \in DOMAIN t : t[m].role = "tool" =>
           \E k \in DOMAIN msgs : Len(msgs) + m - k <= Len(msgs[k].calls)
  PROVE  NoStrayAnswers(msgs \o t)
<1> SUFFICES ASSUME NEW m \in DOMAIN (msgs \o t), (msgs \o t)[m].role = "tool"
             PROVE  \E k \in 1..(m - 1) : m - k <= Len((msgs \o t)[k].calls)
  BY DEF NoStrayAnswers
<1>1. CASE m \in DOMAIN msgs
  <2>1. msgs[m].role = "tool" BY <1>1
  <2>2. PICK k \in 1..(m - 1) : m - k <= Len(msgs[k].calls)
    BY <1>1, <2>1 DEF NoStrayAnswers
  <2>3. (msgs \o t)[k] = msgs[k] BY <1>1
  <2> QED BY <2>2, <2>3
<1>2. CASE m \notin DOMAIN msgs
  <2>1. m - Len(msgs) \in DOMAIN t /\ (msgs \o t)[m] = t[m - Len(msgs)]
    BY <1>2
  <2>2. PICK k \in DOMAIN msgs : Len(msgs) + (m - Len(msgs)) - k <= Len(msgs[k].calls)
    BY <2>1
  <2>3. k \in 1..(m - 1) /\ (msgs \o t)[k] = msgs[k] BY <1>2
  <2> QED BY <2>2, <2>3
<1> QED BY <1>1, <1>2

(* How far the open batch is answered.                                     *)
LEMMA AnsweredRange ==
  ASSUME TypeOK, ValidRuntimeData, batch # NoBatch
  PROVE  /\ batch \in Batch
         /\ AnsweredCalls \in Nat
         /\ AnsweredCalls <= Len(batch.calls)
         /\ pending # NoCall \/ current # NoCall => batch.index = AnsweredCalls + 1
         /\ pending = NoCall /\ current = NoCall => batch.index = AnsweredCalls
  BY DEF TypeOK, ValidRuntimeData, PreviousCallMatches, AnsweredCalls, Batch

(* With no batch open the invariant says the transcript is well answered.  *)
LEMMA ClosedBatch ==
  /\ batch = NoBatch => (TranscriptMatchesBatch <=> WellAnswered(messages))
  /\ batch' = NoBatch => (TranscriptMatchesBatch' <=> WellAnswered(messages'))
  BY DEF TranscriptMatchesBatch, BatchAnchored, CallsAnswered, WellAnswered

(* A message without calls that answers nothing keeps a transcript whole.  *)
LEMMA AppendPlain ==
  ASSUME NEW msgs \in Seq(Message), NEW x \in Message, WellAnswered(msgs),
         x.role # "tool", x.calls = <<>>
  PROVE  WellAnswered(Append(msgs, x))
<1> DEFINE t == <<x>>
           all == msgs \o t
<1>0. t \in Seq(Message) /\ all = Append(msgs, x) OBVIOUS
<1>1. NoStrayAnswers(all)
  <2>1. \A m \in DOMAIN t : t[m].role # "tool" OBVIOUS
  <2>2. NoStrayAnswers(msgs) BY DEF WellAnswered
  <2> HIDE DEF t
  <2> QED BY <1>0, <2>1, <2>2, StrayExtend
<1>2. ASSUME NEW k \in DOMAIN all PROVE Answers(all, k, Len(all[k].calls))
  <2>1. CASE k \in DOMAIN msgs
    <3>1. all[k] = msgs[k] /\ Len(msgs[k].calls) \in Nat BY <2>1 DEF Message
    <3>2. Answers(msgs, k, Len(msgs[k].calls)) BY <2>1 DEF WellAnswered
    <3> HIDE DEF t
    <3> QED BY <1>0, <2>1, <3>1, <3>2, AnswersExtend
  <2>2. CASE k \notin DOMAIN msgs
    <3>1. all[k] = x BY <2>2
    <3> QED BY <3>1 DEF Answers
  <2> QED BY <2>1, <2>2
<1> QED BY <1>0, <1>1, <1>2 DEF WellAnswered

(* A step that moves neither the transcript nor what is answered.          *)
LEMMA TranscriptUnmoved ==
  ASSUME TranscriptMatchesBatch, messages' = messages,
         batch' = NoBatch <=> batch = NoBatch,
         batch # NoBatch => batch'.calls = batch.calls /\ AnsweredCalls' = AnsweredCalls
  PROVE  TranscriptMatchesBatch'
<1>1. batch # NoBatch => BatchAt' = BatchAt BY DEF BatchAt
<1> QED BY <1>1 DEF TranscriptMatchesBatch, BatchAnchored, CallsAnswered

(* The model's reply opens a batch none of whose calls is answered yet.    *)
LEMMA TranscriptOpened ==
  ASSUME TypeOK, ValidRuntimeData, TranscriptMatchesBatch,
         NEW calls \in Seq(ToolCall), ToolBatchReceived(calls)
  PROVE  TranscriptMatchesBatch'
<1> DEFINE x == AssistantMessage(calls, "said")
           t == <<x>>
           n == Len(messages)
<1>0. /\ messages \in Seq(Message) /\ n \in Nat
      /\ batch = NoBatch /\ pending = NoCall /\ current = NoCall
  BY DEF TypeOK, ValidRuntimeData, ToolBatchReceived
<1>1. x \in Message /\ x.calls = calls /\ x.role # "tool"
  <2>1. "said" \in Outcomes BY DEF Outcomes
  <2>2. x \in Message BY <2>1, MessageTypes
  <2> QED BY <2>2 DEF AssistantMessage
<1>2. WellAnswered(messages) BY <1>0, ClosedBatch
<1>3. /\ batch' = [calls |-> calls, index |-> 0]
      /\ pending' = NoCall /\ current' = NoCall
      /\ messages' = Append(messages, x)
  BY <1>0 DEF ToolBatchReceived
<1> HIDE DEF x
<1>4. t \in Seq(Message) /\ messages' = messages \o t /\ Len(messages') = n + 1
  <2>1. t \in Seq(Message) BY <1>1
  <2>2. messages' = messages \o t
    <3>1. Append(messages, x) = messages \o <<x>> BY <1>0
    <3> QED BY <1>3, <3>1
  <2>3. Len(messages') = n + 1 BY <1>0, <1>1, <1>3
  <2> QED BY <2>1, <2>2, <2>3
<1>5. AnsweredCalls' = 0 /\ BatchAt' = n + 1
  <2>1. AnsweredCalls' = 0 BY <1>3 DEF AnsweredCalls
  <2> QED BY <1>0, <1>4, <2>1 DEF BatchAt
<1>6. n + 1 \in DOMAIN messages' /\ messages'[n + 1] = x
  BY <1>0, <1>1, <1>3
<1>7. BatchAnchored'
  BY <1>1, <1>3, <1>5, <1>6 DEF BatchAnchored
<1>8. NoStrayAnswers(messages')
  <2>1. \A m \in DOMAIN t : t[m].role # "tool" BY <1>1
  <2>2. NoStrayAnswers(messages) BY <1>2 DEF WellAnswered
  <2> HIDE DEF t
  <2> QED BY <1>0, <1>4, <2>1, <2>2, StrayExtend
<1>9. CallsAnswered'
  <2> SUFFICES ASSUME NEW k \in DOMAIN messages'
               PROVE  Answers(messages', k, IF batch' # NoBatch /\ k = BatchAt'
                                              THEN AnsweredCalls' ELSE Len(messages'[k].calls))
    BY DEF CallsAnswered
  <2>1. CASE k = n + 1
    <3>1. batch' \in Batch BY <1>3 DEF Batch
    <3>2. batch' # NoBatch BY <3>1, CallAssumption
    <3> QED BY <1>5, <2>1, <3>2 DEF Answers
  <2>2. CASE k # n + 1
    <3>1. k \in DOMAIN messages /\ messages'[k] = messages[k] BY <1>0, <1>3, <2>2, <1>1
    <3>2. Answers(messages, k, Len(messages[k].calls)) /\ Len(messages[k].calls) \in Nat
      BY <1>0, <1>2, <3>1 DEF WellAnswered, Message
    <3> HIDE DEF t
    <3>3. Answers(messages', k, Len(messages[k].calls))
      BY <1>0, <1>4, <3>1, <3>2, AnswersExtend
    <3> QED BY <1>5, <2>2, <3>1, <3>3
  <2> QED BY <2>1, <2>2
<1> QED BY <1>7, <1>8, <1>9 DEF TranscriptMatchesBatch

(* The next call of the batch gets its answer.                             *)
LEMMA TranscriptAnswered ==
  ASSUME TypeOK, ValidRuntimeData, TranscriptMatchesBatch, batch # NoBatch,
         NEW call \in ToolCall, NEW o \in Outcomes,
         messages' = Append(messages, ToolMessage(call, o)),
         AnsweredCalls < Len(batch.calls),
         SameToolCall(call, batch.calls[AnsweredCalls + 1]),
         batch' # NoBatch, batch'.calls = batch.calls,
         AnsweredCalls' = AnsweredCalls + 1
  PROVE  TranscriptMatchesBatch'
<1> DEFINE x == ToolMessage(call, o)
           t == <<x>>
           n == Len(messages)
           a == AnsweredCalls
           q == BatchAt
<1>0. messages \in Seq(Message) /\ n \in Nat /\ a \in Nat
  BY AnsweredRange DEF TypeOK
<1>1. x \in Message /\ x.role = "tool" /\ x.calls = <<>> /\ x.call = call
  <2>1. x \in Message BY MessageTypes
  <2> QED BY <2>1 DEF ToolMessage
<1>2. messages' = Append(messages, x) OBVIOUS
<1>3. q = n - a /\ q \in DOMAIN messages /\ messages[q].calls = batch.calls
  BY DEF TranscriptMatchesBatch, BatchAnchored, BatchAt
<1> HIDE DEF x
<1>4. /\ t \in Seq(Message) /\ messages' = messages \o t /\ Len(messages') = n + 1
      /\ messages'[n + 1] = x
      /\ \A k \in DOMAIN messages : k \in DOMAIN messages' /\ messages'[k] = messages[k]
  BY <1>0, <1>1, <1>2
<1> HIDE DEF t
<1>5. BatchAt' = q BY <1>0, <1>3, <1>4 DEF BatchAt
<1>6. BatchAnchored'
  BY <1>3, <1>4, <1>5 DEF BatchAnchored
<1>7. NoStrayAnswers(messages')
  <2>1. n + 1 - q <= Len(messages[q].calls) BY <1>0, <1>3
  <2>2. \A m \in DOMAIN t : m = 1 BY DEF t
  <2>3. \A m \in DOMAIN t : \E k \in DOMAIN messages : n + m - k <= Len(messages[k].calls)
    BY <1>3, <2>1, <2>2
  <2> QED BY <1>0, <1>4, <2>3, StrayExtend DEF TranscriptMatchesBatch
<1>8. CallsAnswered'
  <2> SUFFICES ASSUME NEW k \in DOMAIN messages'
               PROVE  Answers(messages', k, IF k = q THEN a + 1 ELSE Len(messages'[k].calls))
    BY <1>5 DEF CallsAnswered
  <2>1. CASE k = q
    <3>1. Answers(messages, q, a) BY <1>3 DEF TranscriptMatchesBatch, CallsAnswered
    <3>2. Answers(messages', q, a) BY <1>0, <1>3, <1>4, <3>1, AnswersExtend
    <3>3. /\ q + (a + 1) = n + 1 /\ n + 1 \in DOMAIN messages'
          /\ messages'[q].calls = batch.calls
      BY <1>0, <1>3, <1>4
    <3>4. SameToolCall(messages'[q + (a + 1)].call, messages'[q].calls[a + 1])
      BY <1>1, <1>4, <3>3
    <3>5. ASSUME NEW j \in 1..(a + 1)
          PROVE  /\ q + j \in DOMAIN messages'
                 /\ messages'[q + j].role = "tool"
                 /\ SameToolCall(messages'[q + j].call, messages'[q].calls[j])
      <4>1. CASE j = a + 1 BY <1>1, <1>4, <3>3, <3>4, <4>1
      <4>2. CASE j \in 1..a BY <3>2, <4>2 DEF Answers
      <4>3. j = a + 1 \/ j \in 1..a BY <1>0
      <4> QED BY <4>1, <4>2, <4>3
    <3> QED BY <2>1, <3>5 DEF Answers
  <2>2. CASE k \in DOMAIN messages /\ k # q
    <3>1. Answers(messages, k, Len(messages[k].calls)) /\ Len(messages[k].calls) \in Nat
      BY <1>0, <2>2 DEF TranscriptMatchesBatch, CallsAnswered, Message
    <3> QED BY <1>0, <1>4, <2>2, <3>1, AnswersExtend
  <2>3. CASE k = n + 1 /\ k # q
    BY <1>1, <1>4, <2>3 DEF Answers
  <2> QED BY <1>0, <1>4, <2>1, <2>2, <2>3
<1> QED BY <1>6, <1>7, <1>8 DEF TranscriptMatchesBatch

(* A batch all of whose calls are answered leaves an answered transcript.  *)
LEMMA TranscriptComplete ==
  ASSUME TypeOK, ValidRuntimeData, TranscriptMatchesBatch,
         batch # NoBatch => AnsweredCalls = Len(batch.calls)
  PROVE  WellAnswered(messages)
  BY DEF TranscriptMatchesBatch, BatchAnchored, CallsAnswered, WellAnswered

(* outstanding_tool_results answers what is left of the batch: the pending *)
(* or running call first, then the rest, one message per call.             *)
LEMMA OutstandingAnswers ==
  ASSUME TypeOK, ValidRuntimeData
  PROVE  /\ batch = NoBatch => OutstandingToolResults = <<>>
         /\ batch # NoBatch =>
              /\ Len(OutstandingToolResults) = Len(batch.calls) - AnsweredCalls
              /\ \A j \in 1..Len(OutstandingToolResults) :
                   /\ OutstandingToolResults[j].role = "tool"
                   /\ OutstandingToolResults[j].calls = <<>>
                   /\ SameToolCall(OutstandingToolResults[j].call, batch.calls[AnsweredCalls + j])
<1> DEFINE p == IF pending # NoCall THEN <<ToolMessage(pending, "skipped")>> ELSE <<>>
           c == IF current # NoCall THEN <<ToolMessage(current, "aborted")>> ELSE <<>>
           rest == [j \in 1..Len(Remaining) |-> ToolMessage(Remaining[j], "skipped")]
<1>0. OutstandingToolResults = p \o c \o rest BY DEF OutstandingToolResults
<1>1. CASE batch = NoBatch
  <2>1. pending = NoCall /\ current = NoCall BY <1>1 DEF ValidRuntimeData
  <2>2. Remaining = <<>> BY <1>1, RemainingType
  <2> QED BY <1>0, <1>1, <2>1, <2>2
<1>2. CASE batch # NoBatch
  <2> DEFINE a == AnsweredCalls
  <2>0. /\ Len(Remaining) = Len(batch.calls) - batch.index
        /\ \A j \in 1..Len(Remaining) : Remaining[j] = batch.calls[batch.index + j]
        /\ Remaining \in Seq(ToolCall)
        /\ batch \in Batch /\ a \in Nat /\ batch.index \in Nat /\ batch.calls \in Seq(ToolCall)
        /\ batch.index <= Len(batch.calls)
    BY <1>2, RemainingType, AnsweredRange DEF TypeOK, Batch
  <2>1. \A j \in 1..Len(Remaining) :
          /\ rest[j].role = "tool" /\ rest[j].calls = <<>>
          /\ SameToolCall(rest[j].call, batch.calls[batch.index + j])
    <3> SUFFICES ASSUME NEW j \in 1..Len(Remaining)
                 PROVE  /\ rest[j].role = "tool" /\ rest[j].calls = <<>>
                        /\ SameToolCall(rest[j].call, batch.calls[batch.index + j])
      OBVIOUS
    <3>1. Remaining[j] \in ToolCall BY <2>0
    <3>2. SameToolCall(Remaining[j], Remaining[j]) BY <3>1, SameReflexive
    <3> QED BY <2>0, <3>2 DEF ToolMessage
  <2>2. rest \in Seq(Message) /\ Len(rest) = Len(Remaining)
    <3>1. \A j \in 1..Len(Remaining) : ToolMessage(Remaining[j], "skipped") \in Message
      BY <2>0, MessageTypes DEF Outcomes
    <3> QED BY <2>0, <3>1
  <2> HIDE DEF rest
  <2>3. CASE pending = NoCall /\ current = NoCall
    <3>1. batch.index = a BY <1>2, <2>3, AnsweredRange
    <3>2. OutstandingToolResults = rest BY <1>0, <2>2, <2>3
    <3> QED BY <1>2, <2>0, <2>1, <2>2, <3>1, <3>2
  <2>4. ASSUME NEW call \in ToolCall, NEW o \in Outcomes, batch.index = a + 1,
               SameToolCall(batch.calls[batch.index], call),
               OutstandingToolResults = <<ToolMessage(call, o)>> \o rest
        PROVE  /\ Len(OutstandingToolResults) = Len(batch.calls) - a
               /\ \A j \in 1..Len(OutstandingToolResults) :
                    /\ OutstandingToolResults[j].role = "tool"
                    /\ OutstandingToolResults[j].calls = <<>>
                    /\ SameToolCall(OutstandingToolResults[j].call, batch.calls[a + j])
    <3> DEFINE m == ToolMessage(call, o)
    <3>1. m \in Message BY MessageTypes
    <3>2. m.role = "tool" /\ m.calls = <<>> /\ m.call = call BY DEF ToolMessage
    <3>3. SameToolCall(call, batch.calls[a + 1])
      <4>1. batch.calls[batch.index] \in ToolCall BY <2>0, <2>4
      <4> QED BY <2>4, <4>1, SameSymmetric
    <3> HIDE DEF m
    <3>4. Len(OutstandingToolResults) = 1 + Len(rest) BY <2>2, <2>4, <3>1 DEF m
    <3>5. OutstandingToolResults[1] = m BY <2>2, <2>4, <3>1 DEF m
    <3>6. \A j \in 2..Len(OutstandingToolResults) : OutstandingToolResults[j] = rest[j - 1]
      BY <2>2, <2>4, <3>1, <3>4 DEF m
    <3>7. ASSUME NEW j \in 1..Len(OutstandingToolResults)
          PROVE  /\ OutstandingToolResults[j].role = "tool"
                 /\ OutstandingToolResults[j].calls = <<>>
                 /\ SameToolCall(OutstandingToolResults[j].call, batch.calls[a + j])
      <4>1. CASE j = 1 BY <3>2, <3>3, <3>5, <4>1
      <4>2. CASE j # 1
        <5>1. j - 1 \in 1..Len(Remaining) /\ batch.index + (j - 1) = a + j
          BY <2>0, <2>2, <2>4, <3>4, <4>2
        <5>2. OutstandingToolResults[j] = rest[j - 1] BY <3>4, <3>6, <4>2, <2>2
        <5> QED BY <2>1, <5>1, <5>2
      <4> QED BY <4>1, <4>2
    <3> QED BY <2>0, <2>2, <2>4, <3>4, <3>7
  <2>5. CASE pending # NoCall
    <3>1. current = NoCall /\ PreviousCallMatches(pending) /\ pending \in ToolCall
      BY <2>5 DEF ValidRuntimeData, TypeOK
    <3>2. batch.index = a + 1 BY <1>2, <2>5, AnsweredRange
    <3>3. OutstandingToolResults = <<ToolMessage(pending, "skipped")>> \o rest
      BY <1>0, <2>2, <2>5, <3>1
    <3>4. "skipped" \in Outcomes BY DEF Outcomes
    <3> QED BY <1>2, <2>4, <3>1, <3>2, <3>3, <3>4 DEF PreviousCallMatches
  <2>6. CASE current # NoCall
    <3>1. pending = NoCall /\ PreviousCallMatches(current) /\ current \in ToolCall
      BY <2>6 DEF ValidRuntimeData, TypeOK
    <3>2. batch.index = a + 1 BY <1>2, <2>6, AnsweredRange
    <3>3. OutstandingToolResults = <<ToolMessage(current, "aborted")>> \o rest
      BY <1>0, <2>2, <2>6, <3>1
    <3>4. "aborted" \in Outcomes BY DEF Outcomes
    <3> QED BY <1>2, <2>4, <3>1, <3>2, <3>3, <3>4 DEF PreviousCallMatches
  <2> QED BY <2>3, <2>5, <2>6
<1> QED BY <1>1, <1>2

(* Cancelling or failing the run leaves an answered transcript.            *)
LEMMA TranscriptAbandoned ==
  ASSUME TypeOK, ValidRuntimeData, TranscriptMatchesBatch, Abandon
  PROVE  WellAnswered(messages')
<1> DEFINE t == OutstandingToolResults
           n == Len(messages)
           a == AnsweredCalls
           q == BatchAt
<1>0. messages \in Seq(Message) /\ t \in Seq(Message) /\ n \in Nat
  BY OutstandingType DEF TypeOK
<1>1. CASE batch = NoBatch
  <2>0. t = <<>> BY <1>1, OutstandingAnswers
  <2>1. WellAnswered(messages) BY <1>1, ClosedBatch
  <2>2. CASE streaming
    <3> DEFINE x == AssistantMessage(<<>>, "interrupted")
    <3>1. x \in Message
      <4>1. <<>> \in Seq(ToolCall) OBVIOUS
      <4> QED BY <4>1, MessageTypes DEF Outcomes
    <3>2. x.role # "tool" /\ x.calls = <<>> BY DEF AssistantMessage
    <3> HIDE DEF x
    <3>3. messages' = Append(messages, x)
      <4>1. messages' = messages \o <<x>> \o <<>> BY <2>0, <2>2 DEF Abandon, Flushed, x
      <4> QED BY <1>0, <3>1, <4>1
    <3> QED BY <1>0, <2>1, <3>1, <3>2, <3>3, AppendPlain
  <2>3. CASE ~streaming
    <3>1. messages' = messages BY <1>0, <2>0, <2>3 DEF Abandon, Flushed
    <3> QED BY <2>1, <3>1
  <2> QED BY <2>2, <2>3
<1>2. CASE batch # NoBatch
  <2>0. /\ a \in Nat /\ a <= Len(batch.calls) /\ Len(batch.calls) \in Nat
        /\ q = n - a /\ q \in DOMAIN messages /\ messages[q].calls = batch.calls
    BY <1>2, AnsweredRange DEF TranscriptMatchesBatch, BatchAnchored, BatchAt, Batch
  <2>1. messages' = messages \o t
    <3>1. Flushed = <<>> BY <1>2 DEF ValidRuntimeData, Flushed
    <3> QED BY <1>0, <3>1 DEF Abandon
  <2>2. /\ Len(t) = Len(batch.calls) - a
        /\ \A j \in 1..Len(t) :
             /\ t[j].role = "tool" /\ t[j].calls = <<>>
             /\ SameToolCall(t[j].call, batch.calls[a + j])
    BY <1>2, OutstandingAnswers
  <2> HIDE DEF t, a, q
  <2>3. /\ DOMAIN messages' = 1..(n + Len(t))
        /\ \A k \in DOMAIN messages : messages'[k] = messages[k]
        /\ \A j \in 1..Len(t) : messages'[n + j] = t[j]
        /\ Len(t) \in Nat /\ DOMAIN t = 1..Len(t) /\ DOMAIN messages = 1..n
    BY <1>0, <2>1
  <2>4. NoStrayAnswers(messages')
    <3>1. \A m \in DOMAIN t : n + m - q <= Len(messages[q].calls)
      BY <1>0, <2>0, <2>2, <2>3
    <3>2. NoStrayAnswers(messages) BY DEF TranscriptMatchesBatch
    <3> QED BY <1>0, <2>0, <2>1, <3>1, <3>2, StrayExtend
  <2>5. ASSUME NEW k \in DOMAIN messages' PROVE Answers(messages', k, Len(messages'[k].calls))
    <3>1. CASE k = q
      <4>1. Answers(messages, q, a)
        BY <1>2, <2>0 DEF TranscriptMatchesBatch, CallsAnswered, a, q
      <4>2. Answers(messages', q, a) BY <1>0, <2>0, <2>1, <4>1, AnswersExtend
      <4>3. messages'[q].calls = batch.calls BY <2>0, <2>3
      <4>4. ASSUME NEW j \in 1..Len(batch.calls)
            PROVE  /\ q + j \in DOMAIN messages'
                   /\ messages'[q + j].role = "tool"
                   /\ SameToolCall(messages'[q + j].call, messages'[q].calls[j])
        <5>1. CASE j \in 1..a BY <4>2, <5>1 DEF Answers
        <5>2. CASE j > a
          <6>1. j - a \in 1..Len(t) /\ q + j = n + (j - a) /\ a + (j - a) = j
            BY <1>0, <2>0, <2>2, <5>2
          <6>2. messages'[q + j] = t[j - a] BY <2>3, <6>1
          <6>3. q + j \in DOMAIN messages' BY <1>0, <2>3, <6>1
          <6> QED BY <2>2, <4>3, <6>1, <6>2, <6>3
        <5>3. j \in 1..a \/ j > a BY <2>0
        <5> QED BY <5>1, <5>2, <5>3
      <4> QED BY <3>1, <4>3, <4>4 DEF Answers
    <3>2. CASE k \in DOMAIN messages /\ k # q
      <4>1. Answers(messages, k, Len(messages[k].calls)) /\ Len(messages[k].calls) \in Nat
        BY <1>0, <3>2 DEF TranscriptMatchesBatch, CallsAnswered, q, Message
      <4> QED BY <1>0, <2>1, <2>3, <3>2, <4>1, AnswersExtend
    <3>3. CASE k \notin DOMAIN messages
      <4>1. k - n \in 1..Len(t) /\ n + (k - n) = k BY <1>0, <2>3, <3>3
      <4>2. messages'[k] = t[k - n] BY <2>3, <4>1
      <4>3. messages'[k].calls = <<>> BY <2>2, <4>1, <4>2
      <4> QED BY <4>3 DEF Answers
    <3> QED BY <3>1, <3>2, <3>3
  <2> QED BY <2>4, <2>5 DEF WellAnswered
<1> QED BY <1>1, <1>2

(* Nothing but system messages: no call to answer, and no answer.          *)
LEMMA SystemOnlyAnswered ==
  ASSUME NEW msgs \in Seq(Message), \A j \in DOMAIN msgs : msgs[j].role = "system"
  PROVE  WellAnswered(msgs)
<1>1. \A j \in DOMAIN msgs : msgs[j].calls = <<>> BY DEF Message
<1> QED BY <1>1 DEF WellAnswered, Answers, NoStrayAnswers

(* The invariant the proof carries: the transcript's agreement with the    *)
(* batch is inductive only where the slots and the types are known good.   *)
Coherent == TypeOK /\ ValidRuntimeData /\ TranscriptMatchesBatch

(* A step keeps the transcript in agreement with the batch.                *)
LEMMA TranscriptStep == Coherent /\ [MachineNext]_mvars => TranscriptMatchesBatch'
<1> SUFFICES ASSUME TypeOK, ValidRuntimeData, TranscriptMatchesBatch, [MachineNext]_mvars,
                    TypeOK', ValidRuntimeData'
             PROVE  TranscriptMatchesBatch'
  BY TypeStep, ValidStep DEF Coherent
<1>0. messages \in Seq(Message) BY DEF TypeOK
<1>1. CASE EngineReady \/ RecordStreamChunk \/ UNCHANGED mvars
  <2>1. messages' = messages /\ batch' = batch /\ pending' = pending /\ current' = current
    BY <1>1 DEF EngineReady, RecordStreamChunk, mvars
  <2> QED BY <2>1, TranscriptUnmoved DEF AnsweredCalls
<1>2. ASSUME UserMessageSubmitted \/ AssistantMessageReceived PROVE TranscriptMatchesBatch'
  <2>1. batch = NoBatch /\ batch' = NoBatch
    BY <1>2 DEF UserMessageSubmitted, AssistantMessageReceived, ValidRuntimeData
  <2>2. PICK x \in {UserMessage, AssistantMessage(<<>>, "said")} : messages' = Append(messages, x)
    BY <1>2 DEF UserMessageSubmitted, AssistantMessageReceived
  <2>3. x \in Message /\ x.role # "tool" /\ x.calls = <<>>
    <3>1. <<>> \in Seq(ToolCall) OBVIOUS
    <3>2. AssistantMessage(<<>>, "said") \in Message BY <3>1, MessageTypes DEF Outcomes
    <3>3. x \in Message BY <2>2, <3>2, MessageTypes
    <3> QED BY <2>2, <3>3 DEF UserMessage, AssistantMessage
  <2>4. WellAnswered(messages) BY <2>1, ClosedBatch
  <2>5. WellAnswered(messages') BY <1>0, <2>2, <2>3, <2>4, AppendPlain
  <2> QED BY <2>1, <2>5, ClosedBatch
<1>3. ASSUME NEW calls \in Batches, ToolBatchReceived(calls) PROVE TranscriptMatchesBatch'
  BY <1>3, InputAssumption, TranscriptOpened
<1>4. ASSUME NEW call \in ToolCall, CallEvent(call) PROVE TranscriptMatchesBatch'
  <2>0. batch # NoBatch /\ batch \in Batch /\ batch' # NoBatch
    <3>1. batch # NoBatch
      BY <1>4 DEF CallEvent, ApprovalGranted, ApprovalDenied, ToolResultReceived,
                  ToolCallNeedsApproval, ToolCallReadyToRun, ToolCallDenied, ValidRuntimeData
    <3>2. batch' # NoBatch
      BY <1>4 DEF CallEvent, ApprovalGranted, ApprovalDenied, ToolResultReceived,
                  ToolCallNeedsApproval, ToolCallReadyToRun, ToolCallDenied, ValidRuntimeData
    <3> QED BY <3>1, <3>2 DEF TypeOK
  <2>1. CASE ApprovalGranted(call)
    <3>1. /\ messages' = messages /\ batch' = batch
          /\ pending # NoCall /\ current' # NoCall
      BY <2>1, CallAssumption DEF ApprovalGranted
    <3>2. AnsweredCalls' = AnsweredCalls BY <3>1 DEF AnsweredCalls
    <3> QED BY <3>1, <3>2, TranscriptUnmoved
  <2>2. ASSUME HasNext, AdvanceBatch
        PROVE  /\ batch'.calls = batch.calls /\ batch'.index = batch.index + 1
               /\ batch.index \in Nat /\ batch.index < Len(batch.calls)
               /\ NextCall = batch.calls[batch.index + 1] /\ NextCall \in ToolCall
    BY <2>0, <2>2 DEF HasNext, AdvanceBatch, NextCall, Batch
  <2>3. CASE ToolCallNeedsApproval(call) \/ ToolCallReadyToRun(call)
    <3>1. /\ messages' = messages /\ pending = NoCall /\ current = NoCall
          /\ pending' # NoCall \/ current' # NoCall
      BY <2>3, CallAssumption DEF ToolCallNeedsApproval, ToolCallReadyToRun, ValidRuntimeData
    <3>2. batch'.calls = batch.calls /\ batch'.index = batch.index + 1 /\ batch.index \in Nat
      BY <2>2, <2>3 DEF ToolCallNeedsApproval, ToolCallReadyToRun
    <3>3. AnsweredCalls' = AnsweredCalls BY <3>1, <3>2 DEF AnsweredCalls
    <3> QED BY <2>0, <3>1, <3>2, <3>3, TranscriptUnmoved
  <2>4. CASE ApprovalDenied(call) \/ ToolResultReceived(call)
    <3>1. PICK o \in {"denied", "result"} : messages' = Append(messages, ToolMessage(call, o))
      BY <2>4 DEF ApprovalDenied, ToolResultReceived
    <3>2. PICK slot \in {pending, current} :
            slot \in ToolCall /\ PreviousCallMatches(slot) /\ SameToolCall(call, slot)
      BY <2>4 DEF ApprovalDenied, ToolResultReceived, ValidRuntimeData, TypeOK
    <3>3. /\ batch' = batch /\ pending' = NoCall /\ current' = NoCall
          /\ pending # NoCall \/ current # NoCall
      BY <2>4 DEF ApprovalDenied, ToolResultReceived, ValidRuntimeData
    <3>4. /\ batch.index = AnsweredCalls + 1 /\ AnsweredCalls \in Nat
          /\ batch.index <= Len(batch.calls)
      BY <2>0, <3>3, AnsweredRange DEF TypeOK
    <3>5. AnsweredCalls' = AnsweredCalls + 1 BY <3>3, <3>4 DEF AnsweredCalls
    <3>6. SameToolCall(call, batch.calls[AnsweredCalls + 1])
      <4>1. batch.calls[batch.index] \in ToolCall /\ SameToolCall(batch.calls[batch.index], slot)
        BY <2>0, <3>2 DEF PreviousCallMatches, Batch
      <4> QED BY <3>2, <3>4, <4>1, SameSymmetric, SameTransitive
    <3>7. o \in Outcomes BY DEF Outcomes
    <3>8. AnsweredCalls < Len(batch.calls) BY <2>0, <3>4 DEF Batch
    <3> QED BY <2>0, <3>1, <3>3, <3>5, <3>6, <3>7, <3>8, TranscriptAnswered
  <2>5. CASE ToolCallDenied(call)
    <3>1. /\ messages' = Append(messages, ToolMessage(call, "denied"))
          /\ pending = NoCall /\ current = NoCall /\ pending' = NoCall /\ current' = NoCall
      BY <2>5 DEF ToolCallDenied, ValidRuntimeData
    <3>2. /\ batch'.calls = batch.calls /\ batch'.index = batch.index + 1
          /\ batch.index \in Nat /\ batch.index < Len(batch.calls)
          /\ SameToolCall(call, batch.calls[batch.index + 1])
      BY <2>2, <2>5 DEF ToolCallDenied
    <3>3. AnsweredCalls = batch.index /\ AnsweredCalls' = batch.index + 1
      BY <3>1, <3>2 DEF AnsweredCalls
    <3>4. "denied" \in Outcomes BY DEF Outcomes
    <3> QED BY <2>0, <3>1, <3>2, <3>3, <3>4, TranscriptAnswered
  <2> QED BY <1>4, <2>1, <2>3, <2>4, <2>5 DEF CallEvent
<1>5. CASE ToolBatchFinished
  <2>1. /\ batch \in Batch /\ batch.index = Len(batch.calls)
        /\ pending = NoCall /\ current = NoCall
    BY <1>5 DEF ToolBatchFinished, HasNext, TypeOK, ValidRuntimeData, Batch
  <2>2. WellAnswered(messages) BY <2>1, TranscriptComplete DEF AnsweredCalls
  <2> QED BY <1>5, <2>2, ClosedBatch DEF ToolBatchFinished
<1>6. CASE ErrorOccurred \/ CancelRequested
  BY <1>6, TranscriptAbandoned, ClosedBatch DEF ErrorOccurred, CancelRequested, Abandon
<1>7. CASE ResetRequested
  BY <1>0, <1>7, SystemMessagesOnly, SystemOnlyAnswered, ClosedBatch DEF ResetRequested
<1>8. ASSUME NEW msgs \in Transcripts, ReplaceMessages(msgs) PROVE TranscriptMatchesBatch'
  BY <1>8, TranscriptAssumption, ClosedBatch DEF ReplaceMessages
<1> QED BY <1>1, <1>2, <1>3, <1>4, <1>5, <1>6, <1>7, <1>8 DEF MachineNext

(* The machine starts with nothing open and system messages only.          *)
LEMMA MachineStart == MachineInit => Coherent
<1>1. MachineInit => TypeOK BY TypeStart
<1>2. MachineInit => ValidRuntimeData BY DEF MachineInit, ValidRuntimeData
<1>3. MachineInit => TranscriptMatchesBatch
  <2>1. MachineInit => messages = InitialMessages /\ batch = NoBatch BY DEF MachineInit
  <2>2. WellAnswered(InitialMessages) BY InputAssumption, SystemOnlyAnswered
  <2> QED BY <2>1, <2>2, ClosedBatch
<1> QED BY <1>1, <1>2, <1>3 DEF Coherent

(* The three parts of Coherent hold together at every step.                *)
THEOREM CoherentAlways == MachineSpec => []Coherent
BY MachineStart, TypeStep, ValidStep, TranscriptStep, PTL DEF MachineSpec, Coherent

(* At every step the transcript and the open batch agree.                  *)
THEOREM TranscriptAlways == MachineSpec => []TranscriptMatchesBatch
BY CoherentAlways, PTL DEF Coherent

(* Whenever a turn is over, and whenever a model request is scheduled, the *)
(* transcript answers every call it contains.                              *)
THEOREM AnsweredAlways == MachineSpec => [](AnsweredWhenIdle /\ ModelSeesAnsweredTranscript)
<1>1. Coherent => AnsweredWhenIdle /\ ModelSeesAnsweredTranscript
  <2> SUFFICES ASSUME Coherent, state \in {"Idle", "WaitingLLM"} PROVE WellAnswered(messages)
    BY DEF AnsweredWhenIdle, ModelSeesAnsweredTranscript
  <2>1. batch = NoBatch BY DEF Coherent, ValidRuntimeData
  <2> QED BY <2>1, ClosedBatch DEF Coherent
<1> QED BY <1>1, CoherentAlways, PTL

(* What is committed is sound at every step: accepted, in agreement with   *)
(* the open batch, and owing no answer when it must not.                   *)
THEOREM TranscriptAlwaysSound == MachineSpec => []TranscriptIsSound
BY ValidAlways, TranscriptAlways, AnsweredAlways, PTL DEF TranscriptIsSound

-----------------------------------------------------------------------------
(* The inductive invariant.  Only the turn executes actions; a command is  *)
(* in its observer only while the engine is idle; and an active state has  *)
(* one action, queued for the turn's loop or executed by the turn, for the *)
(* current run and under its context.                                      *)

Active == state \notin {"Initializing", "Idle"}

Own(entry) == entry.run = runId /\ Awaited(entry.action)

CommandsQuiet ==
  \A c \in Commands : pc[c] \in {"idle", "notify"} /\ (pc[c] = "notify" => state = "Idle")

NotStarted == state = "Initializing" => pc[Turn] = "idle"

InFlight == pc[Turn] = "running" => action[Turn] \in QueuedAction /\ action[Turn].run <= runId

QuietWhenIdle ==
  ~Active => queue = <<>> /\ (pc[Turn] = "running" => action[Turn].run # runId)

BusyWhenActive ==
  Active =>
    /\ turnContext = runId /\ context = runId
    /\ \/ pc[Turn] = "notify" /\ \E e \in QueuedAction : queue = <<e>> /\ Own(e)
       \/ pc[Turn] = "running" /\ queue = <<>> /\ Own(action[Turn])

EngineVariables ==
  /\ queue \in Seq(QueuedAction)
  /\ runId \in Nat /\ context \in Nat /\ turnContext \in Nat
  /\ parentCancelled \in BOOLEAN
  /\ pc \in [Tasks -> {"idle", "notify", "running", "closing"}]
  /\ action \in [Tasks -> QueuedAction \cup {NoAction}]
  /\ loopRun \in [Tasks -> Nat]
  /\ failing \in [Tasks -> BOOLEAN]

Scheduling ==
  /\ EngineVariables
  /\ CommandsQuiet
  /\ NotStarted
  /\ InFlight
  /\ QuietWhenIdle
  /\ BusyWhenActive

EngineInv == Coherent /\ Scheduling

-----------------------------------------------------------------------------
(* A step of the machine keeps its invariant.                              *)
LEMMA CoherentStep == Coherent /\ [MachineNext]_mvars => Coherent'
BY TypeStep, ValidStep, TranscriptStep DEF Coherent

(* What a queued action's call is.                                         *)
LEMMA ActionCall ==
  ASSUME NEW act \in Action
  PROVE  /\ act.kind \in {"CallModel", "CheckToolQueue", "RunTool", "AwaitApproval"}
         /\ act.kind \in {"RunTool", "AwaitApproval"} => act.call \in ToolCall
BY DEF Action

(* The call at the head of the batch is a call.                            *)
LEMMA NextCallType == TypeOK /\ HasNext => NextCall \in ToolCall
BY DEF TypeOK, HasNext, NextCall, Batch

(* What a plan leaves in the queue when nothing else is in it.             *)
LEMMA CommitSchedule ==
  ASSUME NEW kind, NEW call, [kind |-> kind, call |-> call] \in Action,
         Schedule(kind, call), Commit(<<>>), runId' \in Nat
  PROVE  /\ [action |-> [kind |-> kind, call |-> call], run |-> runId'] \in QueuedAction
         /\ queue' = << [action |-> [kind |-> kind, call |-> call], run |-> runId'] >>
<1>1. plan'.action = [kind |-> kind, call |-> call] /\ plan'.clear = FALSE BY DEF Schedule
<1>2. plan'.action # NoAction BY <1>1, CallAssumption
<1> QED BY <1>1, <1>2 DEF Commit, QueuedAction

(* What a plan that schedules nothing leaves in it.                        *)
LEMMA CommitNothing ==
  ASSUME NEW rest \in Seq(QueuedAction), Commit(rest),
         ClearQueue \/ (ScheduleNothing /\ rest = <<>>)
  PROVE  queue' = <<>>
BY DEF Commit, ClearQueue, ScheduleNothing

(* A completion's event is one of the machine's, and what it schedules is  *)
(* what the next state waits for.                                          *)
LEMMA ResultFits ==
  ASSUME Coherent, NEW act \in Action, Result(act)
  PROVE  /\ MachineNext
         /\ \/ state' = "Idle" /\ ScheduleNothing
            \/ \E kind \in {"CallModel", "CheckToolQueue", "RunTool", "AwaitApproval"},
                  call \in ToolCall \cup {NoCall} :
                 /\ [kind |-> kind, call |-> call] \in Action
                 /\ Schedule(kind, call)
                 /\ Active'
                 /\ Awaited([kind |-> kind, call |-> call])'
<1> DEFINE Fits(kind, call) ==
      /\ [kind |-> kind, call |-> call] \in Action
      /\ Schedule(kind, call)
      /\ Active'
      /\ Awaited([kind |-> kind, call |-> call])'
<1>1. CASE act.kind = "CallModel" /\ ModelReplied
  <2>1. CASE AssistantMessageReceived
    BY <2>1 DEF AssistantMessageReceived, MachineNext
  <2>2. ASSUME NEW calls \in Batches, Len(messages) < MaxMessages, ToolBatchReceived(calls)
        PROVE  MachineNext /\ Fits("CheckToolQueue", NoCall)
    BY <2>2 DEF ToolBatchReceived, MachineNext, Action, Active, Awaited
  <2> QED BY <1>1, <2>1, <2>2 DEF ModelReplied
<1>2. CASE act.kind = "RunTool" /\ ToolResultReceived(act.call)
  <2>1. act.call \in ToolCall BY <1>2, ActionCall
  <2>2. MachineNext BY <1>2, <2>1 DEF MachineNext, CallEvent
  <2>3. Fits("CheckToolQueue", NoCall) BY <1>2 DEF ToolResultReceived, Action, Active, Awaited
  <2> QED BY <2>2, <2>3
<1>3. CASE act.kind = "AwaitApproval" /\ ApprovalReceived(act.call)
  <2>1. act.call \in ToolCall BY <1>3, ActionCall
  <2>2. MachineNext BY <1>3, <2>1 DEF MachineNext, CallEvent, ApprovalReceived
  <2>3. CASE ApprovalGranted(act.call)
    <3>1. Fits("RunTool", act.call) BY <2>1, <2>3 DEF ApprovalGranted, Action, Active, Awaited
    <3> QED BY <2>1, <2>2, <3>1
  <2>4. CASE ApprovalDenied(act.call)
    <3>1. Fits("CheckToolQueue", NoCall) BY <2>4 DEF ApprovalDenied, Action, Active, Awaited
    <3> QED BY <2>2, <3>1
  <2> QED BY <1>3, <2>3, <2>4 DEF ApprovalReceived
<1>4. CASE act.kind = "CheckToolQueue" /\ ToolQueueChecked
  <2>1. CASE ToolBatchFinished
    <3>1. Fits("CallModel", NoCall) BY <2>1 DEF ToolBatchFinished, Action, Active, Awaited
    <3> QED BY <2>1, <3>1 DEF MachineNext
  <2>2. ASSUME NEW call \in ToolCall,
               ToolCallNeedsApproval(call) \/ ToolCallReadyToRun(call) \/ ToolCallDenied(call)
        PROVE  /\ MachineNext
               /\ \/ Fits("AwaitApproval", call)
                  \/ Fits("RunTool", call)
                  \/ Fits("CheckToolQueue", NoCall)
    <3>1. MachineNext BY <2>2 DEF MachineNext, CallEvent
    <3>2. CASE ToolCallNeedsApproval(call)
      BY <3>1, <3>2 DEF ToolCallNeedsApproval, Action, Active, Awaited
    <3>3. CASE ToolCallReadyToRun(call)
      BY <3>1, <3>3 DEF ToolCallReadyToRun, Action, Active, Awaited
    <3>4. CASE ToolCallDenied(call)
      BY <3>1, <3>4 DEF ToolCallDenied, Action, Active, Awaited
    <3> QED BY <2>2, <3>2, <3>3, <3>4
  <2>3. CASE \E call \in ToolCall :
               ToolCallNeedsApproval(call) \/ ToolCallReadyToRun(call) \/ ToolCallDenied(call)
    BY <2>2, <2>3
  <2> QED BY <1>4, <2>1, <2>3, NextCallType DEF ToolQueueChecked, Coherent
<1> QED BY <1>1, <1>2, <1>3, <1>4 DEF Result

-----------------------------------------------------------------------------
(* Who may act.                                                            *)

(* Only the turn executes an action, and then the queue is empty.          *)
LEMMA RunningIsTurn ==
  ASSUME EngineInv, NEW t \in Tasks, pc[t] = "running"
  PROVE  /\ t = Turn
         /\ queue = <<>>
         /\ action[t] \in QueuedAction
         /\ action[t].run <= runId
         /\ Active <=> action[t].run = runId
         /\ Active => Own(action[t]) /\ turnContext = runId /\ context = runId
<1>1. t = Turn BY DEF EngineInv, Scheduling, CommandsQuiet, Tasks
<1> QED BY <1>1 DEF EngineInv, Scheduling, InFlight, QuietWhenIdle, BusyWhenActive, Own

(* Only the turn's loop finds something in the queue.                      *)
LEMMA QueueIsTurns ==
  ASSUME EngineInv, NEW t \in Tasks, pc[t] = "notify", queue # <<>>
  PROVE  /\ t = Turn
         /\ Active /\ turnContext = runId /\ context = runId
         /\ \E e \in QueuedAction : queue = <<e>> /\ Own(e)
<1>1. Active BY DEF EngineInv, Scheduling, QuietWhenIdle
<1>2. t = Turn BY <1>1 DEF EngineInv, Scheduling, CommandsQuiet, Tasks, Active
<1> QED BY <1>1, <1>2 DEF EngineInv, Scheduling, BusyWhenActive

(* A completion leaves an idle engine with nothing to do, and an active    *)
(* one with the action its state waits for.                                *)
LEMMA CompletedFits ==
  ASSUME EngineInv, NEW entry \in QueuedAction, UNCHANGED runvars, Completed(entry, <<>>)
  PROVE  /\ [MachineNext]_mvars
         /\ \/ entry.run # runId /\ UNCHANGED mvars /\ queue' = <<>>
            \/ entry.run = runId /\ state' = "Idle" /\ queue' = <<>>
            \/ entry.run = runId /\ Active' /\ \E e \in QueuedAction : queue' = <<e>> /\ Own(e)'
<1>0. /\ entry.action \in Action /\ runId \in Nat /\ runId' = runId
      /\ <<>> \in Seq(QueuedAction)
  BY DEF QueuedAction, EngineInv, Scheduling, EngineVariables, runvars
<1>1. CASE ~ IsCurrent(entry.run)
  BY <1>1 DEF Completed, IsCurrent
<1>2. CASE IsCurrent(entry.run)
  <2>1. Result(entry.action) /\ Commit(<<>>) /\ entry.run = runId
    BY <1>2 DEF Completed, IsCurrent
  <2>2. MachineNext BY <1>0, <2>1, ResultFits DEF EngineInv
  <2>3. CASE state' = "Idle" /\ ScheduleNothing
    BY <1>0, <2>1, <2>2, <2>3, CommitNothing
  <2>4. ASSUME NEW kind \in {"CallModel", "CheckToolQueue", "RunTool", "AwaitApproval"},
               NEW call \in ToolCall \cup {NoCall},
               [kind |-> kind, call |-> call] \in Action,
               Schedule(kind, call), Active', Awaited([kind |-> kind, call |-> call])'
        PROVE  \E e \in QueuedAction : queue' = <<e>> /\ Own(e)'
    <3> DEFINE e == [action |-> [kind |-> kind, call |-> call], run |-> runId']
    <3>1. runId' \in Nat BY <1>0
    <3>2. e \in QueuedAction /\ queue' = <<e>> BY <2>1, <2>4, <3>1, CommitSchedule
    <3>3. PICK r \in Nat : r = runId' BY <3>1
    <3>4. DEFINE f == [action |-> [kind |-> kind, call |-> call], run |-> r]
    <3>5. f = e BY <3>3
    <3>6. Own(f)' BY <2>4, <3>3 DEF Own
    <3> QED BY <3>2, <3>5, <3>6
  <2> QED BY <1>0, <2>1, <2>2, <2>3, <2>4, ResultFits DEF EngineInv
<1> QED BY <1>1, <1>2

-----------------------------------------------------------------------------
(* One lemma per group of actions: the step is one of the machine's, and   *)
(* the scheduling is as it should be after it.                             *)

Kept == [MachineNext]_mvars /\ Scheduling'

(* What the commands and the failures leave behind.                        *)
LEMMA AbandonedFits ==
  ASSUME EngineInv, state' = "Idle", ClearQueue, Commit(queue)
  PROVE  queue' = <<>> /\ ~ Active'
BY CommitNothing DEF EngineInv, Scheduling, EngineVariables, Active

(* The steps that start, cancel, close or prepare a turn.                  *)
LEMMA TurnStep ==
  ASSUME EngineInv, RunTurn \/ CancelContext \/ EndTurn \/ Ready
  PROVE  Kept
<1> USE DEF EngineInv, Scheduling
<1>0. EngineVariables OBVIOUS
<1>1. CASE RunTurn
  <2>1. MachineNext /\ Active' BY <1>1 DEF RunTurn, MachineNext, UserMessageSubmitted, Active
  <2>2. queue = <<>> BY <1>1 DEF RunTurn, UserMessageSubmitted, QuietWhenIdle, Active
  <2>3. runId' = runId + 1 /\ context' = runId + 1 /\ turnContext' = runId + 1 /\ runId' \in Nat
    BY <1>0, <1>1 DEF RunTurn, StartRun, EngineVariables
  <2> DEFINE a == [kind |-> "CallModel", call |-> NoCall]
  <2>4. a \in Action BY DEF Action
  <2>5. [action |-> a, run |-> runId'] \in QueuedAction /\ queue' = << [action |-> a, run |-> runId'] >>
    BY <1>1, <2>2, <2>3, <2>4, CommitSchedule DEF RunTurn, UserMessageSubmitted
  <2>6. PICK r \in Nat : r = runId' BY <2>3
  <2>7. Own([action |-> a, run |-> r])'
    BY <1>1, <2>6 DEF Own, Awaited, RunTurn, UserMessageSubmitted
  <2>8. pc' = [pc EXCEPT ![Turn] = "notify"] /\ \A t \in Tasks : pc[t] = "idle" BY <1>1 DEF RunTurn
  <2>9. pc'[Turn] = "notify" /\ \A c \in Commands : pc'[c] = "idle"
    BY <1>0, <2>8, EngineAssumption DEF EngineVariables, Tasks
  <2>10. BusyWhenActive' BY <2>3, <2>5, <2>6, <2>7, <2>9 DEF BusyWhenActive
  <2>11. CommandsQuiet' /\ NotStarted' /\ InFlight' /\ QuietWhenIdle'
    BY <2>1, <2>9 DEF CommandsQuiet, NotStarted, InFlight, QuietWhenIdle, Active
  <2>12. EngineVariables'
    <3>1. queue' \in Seq(QueuedAction) BY <2>5
    <3>2. /\ pc' \in [Tasks -> {"idle", "notify", "running", "closing"}]
          /\ loopRun' \in [Tasks -> Nat] /\ failing' \in [Tasks -> BOOLEAN]
          /\ action' = action /\ parentCancelled' \in BOOLEAN
      BY <1>0, <1>1 DEF RunTurn, EngineVariables, NoRun
    <3> QED BY <1>0, <2>3, <3>1, <3>2 DEF EngineVariables
  <2> QED BY <2>1, <2>10, <2>11, <2>12 DEF Kept
<1>2. CASE CancelContext
  <2>1. UNCHANGED <<state, current, pending, queue, runId, context, turnContext, pc, action>>
    BY <1>2 DEF CancelContext, mvars, runvars
  <2>2. UNCHANGED mvars BY <1>2 DEF CancelContext
  <2>3. EngineVariables' BY <1>0, <1>2 DEF CancelContext, EngineVariables, runvars
  <2>4. CommandsQuiet' /\ NotStarted' /\ InFlight' /\ QuietWhenIdle'
    BY <2>1 DEF CommandsQuiet, NotStarted, InFlight, QuietWhenIdle, Active
  <2>5. BusyWhenActive' BY <2>1 DEF BusyWhenActive, Active, Own, Awaited
  <2> QED BY <2>2, <2>3, <2>4, <2>5 DEF Kept
<1>3. CASE EndTurn
  <2>1. UNCHANGED <<state, queue, runId, context, turnContext, action>> /\ UNCHANGED mvars
    BY <1>3 DEF EndTurn, mvars, runvars, turnvars
  <2>2. pc[Turn] = "closing" /\ pc'[Turn] = "idle" /\ \A c \in Commands : pc'[c] = pc[c]
    BY <1>0, <1>3, EngineAssumption DEF EndTurn, EngineVariables, Tasks
  <2>3. ~ Active BY <2>2 DEF BusyWhenActive
  <2>4. EngineVariables' BY <1>0, <1>3 DEF EndTurn, EngineVariables, runvars, turnvars, Tasks
  <2>5. CommandsQuiet' /\ NotStarted' /\ InFlight' /\ QuietWhenIdle' /\ BusyWhenActive'
    BY <2>1, <2>2, <2>3 DEF CommandsQuiet, NotStarted, InFlight, QuietWhenIdle, BusyWhenActive, Active
  <2> QED BY <2>1, <2>4, <2>5 DEF Kept
<1>4. CASE Ready
  <2>1. MachineNext /\ ~Active /\ ~Active' BY <1>4 DEF Ready, EngineReady, MachineNext, Active
  <2>2. queue = <<>> /\ queue' = <<>>
    BY <1>0, <1>4, <2>1, CommitNothing DEF Ready, EngineReady, QuietWhenIdle, EngineVariables
  <2>3. EngineVariables' BY <1>0, <1>4, <2>2 DEF Ready, EngineVariables, runvars, turnvars
  <2>4. UNCHANGED <<runId, pc, action>> BY <1>4 DEF Ready, runvars
  <2>5. CommandsQuiet' /\ NotStarted'
    BY <1>4, <2>4 DEF CommandsQuiet, NotStarted, Ready, EngineReady
  <2>6. InFlight' /\ QuietWhenIdle' /\ BusyWhenActive'
    BY <2>1, <2>2, <2>4 DEF InFlight, QuietWhenIdle, BusyWhenActive
  <2> QED BY <2>1, <2>3, <2>5, <2>6 DEF Kept
<1> QED BY <1>1, <1>2, <1>3, <1>4

(* The steps of a loop: it ends, takes an action, or checks the batch.     *)
LEMMA LoopStepKeeps ==
  ASSUME EngineInv, NEW t \in Tasks, LoopStep(t)
  PROVE  Kept
<1> USE DEF EngineInv, Scheduling
<1>0. EngineVariables /\ runId \in Nat BY DEF EngineVariables
<1>1. LoopRun(t) \in Nat BY <1>0 DEF LoopRun, EngineVariables
<1>2. CASE Finish(t)
  <2>1. ~ Active /\ queue = <<>> /\ UNCHANGED mvars /\ queue' = queue
    BY <1>2 DEF Finish, Active
  <2>2. ~ Active' /\ UNCHANGED <<runId, action>>
    BY <1>2, <2>1 DEF Finish, FinishRun, Active, mvars
  <2>3. /\ pc' \in [Tasks -> {"idle", "notify", "running", "closing"}]
        /\ pc'[Turn] = pc[Turn] \/ pc'[Turn] = "closing"
        /\ \A c \in Commands : pc'[c] = pc[c] \/ pc'[c] = "idle"
    BY <1>0, <1>2, EngineAssumption DEF Finish, AfterLoop, EngineVariables, Tasks
  <2>4. context' \in Nat BY <1>0, <1>2 DEF Finish, FinishRun, EngineVariables, NoRun
  <2>5. EngineVariables'
    BY <1>0, <1>2, <2>1, <2>2, <2>3, <2>4 DEF Finish, FinishRun, EngineVariables, turnvars
  <2>6. CommandsQuiet' /\ NotStarted' BY <1>2, <2>1, <2>3 DEF Finish, CommandsQuiet, NotStarted, mvars
  <2>7. InFlight' /\ QuietWhenIdle' /\ BusyWhenActive'
    BY <2>1, <2>2, <2>3 DEF InFlight, QuietWhenIdle, BusyWhenActive
  <2> QED BY <2>1, <2>5, <2>6, <2>7 DEF Kept
<1>3. CASE TakeAction(t)
  <2>1. t = Turn /\ Active /\ turnContext = runId /\ context = runId
    BY <1>3, QueueIsTurns DEF TakeAction
  <2>2. PICK e \in QueuedAction : queue = <<e>> /\ Own(e)
    BY <1>3, QueueIsTurns DEF TakeAction
  <2>3. queue' = <<>> /\ action' = [action EXCEPT ![Turn] = e] /\ pc' = [pc EXCEPT ![Turn] = "running"]
    BY <1>3, <2>1, <2>2 DEF TakeAction
  <2>4. /\ UNCHANGED mvars
        /\ UNCHANGED <<state, current, pending, runId, context, turnContext>>
    BY <1>3 DEF TakeAction, mvars, runvars, turnvars
  <2>5. action'[Turn] = e /\ pc'[Turn] = "running" /\ \A c \in Commands : pc'[c] = pc[c]
    BY <1>0, <2>3, EngineAssumption DEF EngineVariables, Tasks
  <2>6. Own(e)' BY <2>2, <2>4 DEF Own, Awaited
  <2>7. EngineVariables'
    <3>1. queue' \in Seq(QueuedAction) BY <2>3
    <3>2. /\ pc' \in [Tasks -> {"idle", "notify", "running", "closing"}]
          /\ action' \in [Tasks -> QueuedAction \cup {NoAction}]
      BY <1>0, <2>3 DEF EngineVariables
    <3>3. loopRun' \in [Tasks -> Nat] BY <1>0, <1>1, <1>3 DEF TakeAction, EngineVariables
    <3> QED BY <1>0, <1>3, <3>1, <3>2, <3>3 DEF TakeAction, EngineVariables, runvars, turnvars
  <2>8. CommandsQuiet' /\ NotStarted' BY <2>1, <2>4, <2>5 DEF CommandsQuiet, NotStarted, Active
  <2>9. InFlight'
    BY <1>0, <2>2, <2>4, <2>5 DEF InFlight, Own
  <2>10. QuietWhenIdle' BY <2>1, <2>4 DEF QuietWhenIdle, Active
  <2>11. BusyWhenActive'
    BY <2>1, <2>3, <2>4, <2>5, <2>6 DEF BusyWhenActive, Own, Awaited
  <2> QED BY <2>4, <2>7, <2>8, <2>9, <2>10, <2>11 DEF Kept
<1>4. CASE CheckToolQueue(t)
  <2>1. t = Turn /\ Active /\ turnContext = runId /\ context = runId
    BY <1>4, QueueIsTurns DEF CheckToolQueue
  <2>2. PICK e \in QueuedAction : queue = <<e>> /\ Own(e)
    BY <1>4, QueueIsTurns DEF CheckToolQueue
  <2>3. UNCHANGED runvars /\ Completed(e, <<>>)
    BY <1>4, <2>2 DEF CheckToolQueue
  <2>4. pc[Turn] = "notify" /\ UNCHANGED <<pc, action, turnContext, runId, context>>
    BY <1>4, <2>1 DEF CheckToolQueue, runvars, turnvars
  <2>5. /\ [MachineNext]_mvars
        /\ \/ state' = "Idle" /\ queue' = <<>>
           \/ Active' /\ \E f \in QueuedAction : queue' = <<f>> /\ Own(f)'
    BY <2>2, <2>3, CompletedFits DEF Own
  <2>6. queue' \in Seq(QueuedAction)
    <3>1. CASE queue' = <<>> BY <3>1
    <3>2. CASE \E f \in QueuedAction : queue' = <<f>> BY <3>2
    <3> QED BY <2>5, <3>1, <3>2
  <2>7. EngineVariables'
    <3>1. loopRun' \in [Tasks -> Nat] BY <1>0, <1>1, <1>4 DEF CheckToolQueue, EngineVariables
    <3> QED BY <1>0, <1>4, <2>4, <2>6, <3>1 DEF CheckToolQueue, EngineVariables, turnvars
  <2>8. CommandsQuiet' /\ NotStarted' BY <2>1, <2>4, <2>5 DEF CommandsQuiet, NotStarted, Active
  <2>9. InFlight' BY <2>4 DEF InFlight
  <2>10. QuietWhenIdle' /\ BusyWhenActive'
    BY <2>1, <2>4, <2>5 DEF QuietWhenIdle, BusyWhenActive, Active
  <2> QED BY <2>5, <2>7, <2>8, <2>9, <2>10 DEF Kept
<1> QED BY <1>2, <1>3, <1>4 DEF LoopStep

(* The ends of an action in flight, and the chunks it streams.             *)
LEMMA ActionStepKeeps ==
  ASSUME EngineInv, NEW t \in Tasks, ActionEnds(t) \/ StreamChunk(t)
  PROVE  Kept
<1> USE DEF EngineInv, Scheduling
<1>0. EngineVariables /\ runId \in Nat BY DEF EngineVariables
<1>1. pc[t] = "running" BY DEF ActionEnds, Complete, Abort, Fail, StreamChunk
<1>2. /\ t = Turn /\ queue = <<>>
      /\ action[t] \in QueuedAction /\ action[t].run <= runId
      /\ Active <=> action[t].run = runId
      /\ Active => Own(action[t]) /\ turnContext = runId /\ context = runId
  BY <1>1, RunningIsTurn
<1>3. CASE Complete(t)
  <2>1. UNCHANGED runvars /\ Completed(action[t], <<>>) BY <1>2, <1>3 DEF Complete
  <2>2. /\ [MachineNext]_mvars
        /\ \/ ~ Active /\ UNCHANGED mvars /\ queue' = <<>>
           \/ Active /\ state' = "Idle" /\ queue' = <<>>
           \/ Active /\ Active' /\ \E e \in QueuedAction : queue' = <<e>> /\ Own(e)'
    BY <1>2, <2>1, CompletedFits
  <2>3. /\ UNCHANGED <<runId, context, turnContext>>
        /\ pc' = [pc EXCEPT ![Turn] = "notify"] /\ action' = [action EXCEPT ![Turn] = NoAction]
    BY <1>2, <1>3 DEF Complete, runvars, turnvars
  <2>4. pc'[Turn] = "notify" /\ \A c \in Commands : pc'[c] = pc[c]
    BY <1>0, <2>3, EngineAssumption DEF EngineVariables, Tasks
  <2>5. queue' \in Seq(QueuedAction)
    <3>1. CASE queue' = <<>> BY <3>1
    <3>2. CASE \E f \in QueuedAction : queue' = <<f>> BY <3>2
    <3> QED BY <2>2, <3>1, <3>2
  <2>6. EngineVariables'
    BY <1>0, <1>3, <2>3, <2>5 DEF Complete, EngineVariables, turnvars
  <2>7. UNCHANGED mvars => state' = state BY DEF mvars
  <2>8. CommandsQuiet' /\ NotStarted' BY <1>1, <1>2, <2>2, <2>4, <2>7 DEF CommandsQuiet, NotStarted, Active
  <2>9. InFlight' /\ QuietWhenIdle' /\ BusyWhenActive'
    BY <1>2, <2>2, <2>3, <2>4, <2>7 DEF InFlight, QuietWhenIdle, BusyWhenActive, Active
  <2> QED BY <2>2, <2>6, <2>8, <2>9 DEF Kept
<1>4. CASE Abort(t) \/ Fail(t)
  <2>1. MachineNext /\ state' = "Idle" /\ ClearQueue /\ Commit(queue) /\ Unwind(t)
    BY <1>4 DEF Abort, Fail, CancelRequested, ErrorOccurred, Abandon, MachineNext
  <2>2. queue' = <<>> /\ ~ Active' BY <2>1, AbandonedFits
  <2>3. runId' \in Nat /\ context' \in Nat
    BY <1>0, <1>4 DEF Abort, Fail, CancelRun, NoRun, runvars, EngineVariables
  <2>4. pc' = [pc EXCEPT ![Turn] = "notify"] /\ action' = [action EXCEPT ![Turn] = NoAction]
    BY <1>2, <2>1 DEF Unwind
  <2>5. pc'[Turn] = "notify" /\ \A c \in Commands : pc'[c] = pc[c]
    BY <1>0, <2>4, EngineAssumption DEF EngineVariables, Tasks
  <2>6. queue' \in Seq(QueuedAction) BY <2>2
  <2>7. EngineVariables'
    BY <1>0, <2>1, <2>3, <2>4, <2>6 DEF Unwind, EngineVariables, NoRun, turnvars
  <2>8. CommandsQuiet' /\ NotStarted' BY <2>1, <2>5 DEF CommandsQuiet, NotStarted
  <2>9. InFlight' /\ QuietWhenIdle' /\ BusyWhenActive'
    BY <2>2, <2>5 DEF InFlight, QuietWhenIdle, BusyWhenActive
  <2> QED BY <2>1, <2>7, <2>8, <2>9 DEF Kept
<1>5. CASE StreamChunk(t)
  <2>1. Active BY <1>2, <1>5 DEF StreamChunk, IsCurrent
  <2>2. /\ MachineNext /\ Active'
        /\ UNCHANGED <<state, pending, current>>
        /\ ScheduleNothing /\ Commit(queue) /\ UNCHANGED runvars
    BY <1>5 DEF StreamChunk, RecordStreamChunk, MachineNext, Active
  <2>3. queue' = <<>> BY <1>0, <1>2, <2>2, CommitNothing DEF EngineVariables
  <2>4. UNCHANGED <<runId, context, turnContext, pc, action>>
    BY <1>5, <2>2 DEF StreamChunk, runvars, turnvars
  <2>5. queue' \in Seq(QueuedAction) BY <2>3
  <2>6. EngineVariables'
    BY <1>0, <1>5, <2>4, <2>5 DEF StreamChunk, EngineVariables, turnvars
  <2>7. CommandsQuiet' /\ NotStarted' BY <2>2, <2>4 DEF CommandsQuiet, NotStarted
  <2>8. InFlight' /\ QuietWhenIdle' BY <2>2, <2>4 DEF InFlight, QuietWhenIdle
  <2>9. Own(action[t])' BY <1>2, <2>1, <2>2, <2>4 DEF Own, Awaited
  <2>10. BusyWhenActive'
    BY <1>1, <1>2, <2>1, <2>3, <2>4, <2>9 DEF BusyWhenActive, Own, Awaited
  <2> QED BY <2>2, <2>6, <2>7, <2>8, <2>10 DEF Kept
<1> QED BY <1>3, <1>4, <1>5 DEF ActionEnds

(* The commands that reach into a running turn.                            *)
LEMMA CommandKeeps ==
  ASSUME EngineInv,
         \/ \E c \in Commands : Cancel(c) \/ Reset(c)
         \/ \E msgs \in Transcripts : Replace(msgs)
  PROVE  Kept
<1> USE DEF EngineInv, Scheduling
<1>0. EngineVariables /\ runId \in Nat BY DEF EngineVariables
<1>1. MachineNext /\ state' = "Idle" /\ ClearQueue /\ Commit(queue)
  BY DEF Cancel, Reset, Replace, CancelRequested, Abandon, ResetRequested, ReplaceMessages, MachineNext
<1>2. queue' = <<>> /\ ~ Active' BY <1>1, AbandonedFits
<1>3. /\ runId' \in Nat /\ context' \in Nat /\ runId < runId'
      /\ UNCHANGED <<turnContext, parentCancelled, action, failing>>
  BY <1>0 DEF Cancel, Reset, Replace, AfterCommand, CancelRun, CancelAndInvalidateRun, NoRun,
     turnvars
<1>4. /\ pc' \in [Tasks -> {"idle", "notify", "running", "closing"}]
      /\ pc'[Turn] = pc[Turn]
      /\ \A c \in Commands : pc'[c] = pc[c] \/ pc'[c] \in {"idle", "notify"}
      /\ loopRun' \in [Tasks -> Nat]
  BY <1>0, EngineAssumption
  DEF Cancel, Reset, Replace, AfterCommand, NoRun, EngineVariables, Tasks
<1>5. queue' \in Seq(QueuedAction) BY <1>2
<1>6. EngineVariables' BY <1>0, <1>3, <1>4, <1>5 DEF EngineVariables
<1>7. CommandsQuiet' /\ NotStarted' BY <1>1, <1>4 DEF CommandsQuiet, NotStarted
<1>8. pc[Turn] = "running" => action[Turn] \in QueuedAction /\ action[Turn].run \in Nat
  BY DEF InFlight, QueuedAction
<1>9. InFlight' /\ QuietWhenIdle' /\ BusyWhenActive'
  BY <1>0, <1>2, <1>3, <1>4, <1>8 DEF InFlight, QuietWhenIdle, BusyWhenActive
<1> QED BY <1>1, <1>6, <1>7, <1>9 DEF Kept

-----------------------------------------------------------------------------
(* A step of the engine is a step of the machine, or one it does not see,  *)
(* and keeps the invariant.                                                *)
LEMMA EngineStep == EngineInv /\ [EngineNext]_evars => [MachineNext]_mvars /\ EngineInv'
<1> SUFFICES ASSUME EngineInv, [EngineNext]_evars PROVE [MachineNext]_mvars /\ EngineInv'
  OBVIOUS
<1>1. CASE UNCHANGED evars
  <2>1. UNCHANGED mvars BY <1>1 DEF evars
  <2>2. Scheduling'
    BY <1>1 DEF EngineInv, Scheduling, EngineVariables, CommandsQuiet, NotStarted, InFlight, QuietWhenIdle,
       BusyWhenActive, Active, Own, Awaited, evars, mvars
  <2> QED BY <2>1, <2>2, CoherentStep DEF EngineInv
<1>2. CASE EngineNext
  <2>1. Kept BY <1>2, TurnStep, LoopStepKeeps, ActionStepKeeps, CommandKeeps DEF EngineNext
  <2> QED BY <2>1, CoherentStep DEF Kept, EngineInv
<1> QED BY <1>1, <1>2

(* The engine starts as the machine does, with nothing to execute.         *)
LEMMA EngineStart == EngineInit => MachineInit /\ EngineInv
<1> SUFFICES ASSUME EngineInit PROVE MachineInit /\ EngineInv
  OBVIOUS
<1>1. MachineInit BY DEF EngineInit
<1>2. Coherent BY <1>1, MachineStart
<1>3. queue \in Seq(QueuedAction) /\ queue = <<>> BY DEF EngineInit
<1>4. EngineVariables BY <1>3 DEF EngineInit, EngineVariables, NoRun
<1>5. state = "Initializing" /\ \A t \in Tasks : pc[t] = "idle" BY DEF EngineInit, MachineInit
<1>6. CommandsQuiet /\ NotStarted /\ InFlight /\ QuietWhenIdle /\ BusyWhenActive
  BY <1>3, <1>5 DEF CommandsQuiet, NotStarted, InFlight, QuietWhenIdle, BusyWhenActive, Active, Tasks
<1> QED BY <1>1, <1>2, <1>4, <1>6 DEF EngineInv, Scheduling

(* The invariant holds at every step, whatever the number of command tasks. *)
THEOREM EngineInvAlways == EngineSpec => []EngineInv
BY EngineStart, EngineStep, PTL DEF EngineSpec

(* The engine implements the machine: whatever the tasks, commands and     *)
(* failures do, the conversation only changes by the machine's handlers,   *)
(* with the calls and in the states they allow.                            *)
THEOREM EngineImplementsMachine == EngineSpec => MachineSpec
BY EngineInvAlways, EngineStart, EngineStep, PTL DEF EngineSpec, MachineSpec

(* Every engine variable has its type.                                     *)
THEOREM EngineTypeCorrect == EngineSpec => []EngineTypeOK
<1>1. EngineInv => EngineTypeOK
  BY DEF EngineInv, Scheduling, EngineVariables, Coherent, EngineTypeOK
<1> QED BY <1>1, EngineInvAlways, PTL

(* Under every interleaving of the turn with cancels and resets, the       *)
(* transcript is sound.                                                    *)
THEOREM EngineTranscript == EngineSpec => []TranscriptIsSound
BY EngineImplementsMachine, TranscriptAlwaysSound, PTL

(* The queue never holds work of a run that is over.                       *)
THEOREM QueueAlwaysCurrent == EngineSpec => []QueueIsCurrent
<1>1. EngineInv => QueueIsCurrent
  <2> SUFFICES ASSUME EngineInv, queue # <<>> PROVE QueueIsCurrent
    BY DEF QueueIsCurrent
  <2>1. PICK e \in QueuedAction : queue = <<e>> /\ Own(e)
    BY DEF EngineInv, Scheduling, QuietWhenIdle, BusyWhenActive
  <2> QED BY <2>1 DEF QueueIsCurrent, IsCurrent, Own
<1> QED BY <1>1, EngineInvAlways, PTL

(* No loop finds the queue empty in an active state.                       *)
THEOREM NoLoopStarves == EngineSpec => []LoopNeverStarves
<1>1. EngineInv => LoopNeverStarves
  BY DEF EngineInv, Scheduling, LoopNeverStarves, CommandsQuiet, NotStarted, BusyWhenActive, Active, Tasks
<1> QED BY <1>1, EngineInvAlways, PTL

(* A cancel reaches whatever is executed for the current run.              *)
THEOREM CancelAlwaysReaches == EngineSpec => []CancelReachesLiveAction
<1>1. EngineInv => CancelReachesLiveAction
  <2> SUFFICES ASSUME EngineInv, NEW t \in LiveTasks
               PROVE  t = Turn /\ turnContext = runId /\ context = runId
    BY DEF CancelReachesLiveAction
  <2>1. t \in Tasks /\ pc[t] = "running" /\ action[t].run = runId BY DEF LiveTasks, IsCurrent
  <2> QED BY <2>1, RunningIsTurn
<1> QED BY <1>1, EngineInvAlways, PTL

(* An active state has exactly one action, queued or in flight, an idle    *)
(* one has none, and it is the one the state awaits.                       *)
THEOREM OneLiveActionAlways == EngineSpec => []OneLiveAction
<1>1. ASSUME EngineInv PROVE OneLiveAction
  <2> USE <1>1
  <2>1. Cardinality({}) = 0 /\ Cardinality({Turn}) = 1 BY FS_EmptySet, FS_Singleton
  <2>2. \A t \in LiveTasks : t = Turn /\ queue = <<>> /\ Active /\ Own(action[t])
    BY RunningIsTurn DEF LiveTasks, IsCurrent
  <2>3. CASE ~ Active
    <3>1. queue = <<>> BY <2>3 DEF EngineInv, Scheduling, QuietWhenIdle
    <3>2. LiveTasks = {} BY <2>2, <2>3
    <3>3. LiveActions = {} BY <3>1, <3>2 DEF LiveActions
    <3> QED BY <2>1, <2>3, <3>1, <3>2, <3>3 DEF OneLiveAction, Active
  <2>4. CASE Active /\ pc[Turn] = "notify"
    <3>1. PICK e \in QueuedAction : queue = <<e>> /\ Own(e)
      BY <2>4 DEF EngineInv, Scheduling, BusyWhenActive
    <3>2. LiveTasks = {} BY <2>2, <2>4 DEF LiveTasks
    <3>3. \A act \in LiveActions : act = e.action BY <3>1, <3>2 DEF LiveActions
    <3>4. Len(queue) = 1 BY <3>1
    <3> QED BY <2>1, <2>4, <3>1, <3>2, <3>3, <3>4 DEF OneLiveAction, Active, Own
  <2>5. CASE Active /\ pc[Turn] = "running"
    <3>1. queue = <<>> /\ Own(action[Turn])
      BY <2>5 DEF EngineInv, Scheduling, BusyWhenActive
    <3>2. Turn \in LiveTasks BY <2>5, <3>1 DEF LiveTasks, IsCurrent, Own, Tasks
    <3>3. LiveTasks = {Turn} BY <2>2, <3>2
    <3>4. \A act \in LiveActions : act = action[Turn].action BY <3>1, <3>3 DEF LiveActions
    <3>5. Len(queue) = 0 BY <3>1
    <3> QED BY <2>1, <2>5, <3>1, <3>3, <3>4, <3>5 DEF OneLiveAction, Active, Own
  <2> QED BY <2>3, <2>4, <2>5 DEF EngineInv, Scheduling, BusyWhenActive
<1> QED BY <1>1, EngineInvAlways, PTL

-----------------------------------------------------------------------------
(* How a turn ends.  The run a turn works for is its own, and an idle      *)
(* engine that is still on it, and is not failing, was made idle by the    *)
(* model's answer and by nothing else.                                     *)

AnswerIsLast ==
  /\ messages # <<>>
  /\ messages[Len(messages)].role = "assistant"
  /\ messages[Len(messages)].calls = <<>>
  /\ messages[Len(messages)].outcome = "said"

OwnRun ==
  /\ turnContext <= runId
  /\ pc[Turn] = "running" => action[Turn].run = turnContext

IdleByAnswer ==
  pc[Turn] \in {"notify", "closing"} /\ state = "Idle" /\ ~failing[Turn] /\ runId = turnContext
    => AnswerIsLast

EndingInv == EngineInv /\ OwnRun /\ IdleByAnswer

(* Of all completions only the model's answer makes the engine idle.       *)
LEMMA OnlyAnswerIsIdle ==
  ASSUME Coherent, NEW act \in Action, Result(act), state' = "Idle"
  PROVE  AnswerIsLast'
<1>1. AssistantMessageReceived
  BY DEF Result, ModelReplied, ToolQueueChecked, ApprovalReceived, ToolBatchReceived,
    ToolResultReceived, ApprovalGranted, ApprovalDenied, ToolBatchFinished,
    ToolCallNeedsApproval, ToolCallReadyToRun, ToolCallDenied
<1>2. messages \in Seq(Message) BY DEF Coherent, TypeOK
<1>3. messages' = Append(messages, AssistantMessage(<<>>, "said"))
  BY <1>1 DEF AssistantMessageReceived
<1>4. Len(messages') = Len(messages) + 1
      /\ messages'[Len(messages) + 1] = AssistantMessage(<<>>, "said")
  BY <1>2, <1>3
<1> QED BY <1>2, <1>3, <1>4 DEF AnswerIsLast, AssistantMessage

(* A completion is applied only for the current run.                       *)
LEMMA CompletedAnswers ==
  ASSUME EngineInv, NEW entry \in QueuedAction, Completed(entry, <<>>), state' = "Idle"
  PROVE  AnswerIsLast' \/ (entry.run # runId /\ UNCHANGED mvars)
<1>1. entry.action \in Action BY DEF QueuedAction
<1> QED BY <1>1, OnlyAnswerIsIdle DEF Completed, IsCurrent, EngineInv

\* Every step keeps the invariant of an ending.
LEMMA EndingStep == EndingInv /\ [EngineNext]_evars => EndingInv'
<1> SUFFICES ASSUME EndingInv, [EngineNext]_evars PROVE OwnRun' /\ IdleByAnswer'
  BY EngineStep DEF EndingInv
<1> USE DEF EndingInv
<1>0. EngineVariables BY DEF EngineInv, Scheduling
<1>1. CASE UNCHANGED evars
  BY <1>1 DEF evars, mvars, OwnRun, IdleByAnswer, AnswerIsLast
<1>2. CASE Ready
  <2>1. pc[Turn] = "idle" BY <1>2 DEF Ready, EngineReady, EngineInv, Scheduling, NotStarted
  <2>2. UNCHANGED <<pc, runId, turnContext>> BY <1>2 DEF Ready, runvars, turnvars
  <2> QED BY <2>1, <2>2 DEF OwnRun, IdleByAnswer
<1>3. CASE RunTurn
  <2>1. state' # "Idle" /\ turnContext' = runId' BY <1>3 DEF RunTurn, StartRun, UserMessageSubmitted
  <2>2. pc'[Turn] = "notify" BY <1>0, <1>3 DEF RunTurn, EngineVariables, Tasks
  <2>3. runId' \in Nat BY <1>0, <1>3 DEF RunTurn, StartRun, EngineVariables
  <2> QED BY <2>1, <2>2, <2>3 DEF OwnRun, IdleByAnswer
<1>4. CASE CancelContext \/ EndTurn
  <2>1. UNCHANGED <<mvars, runId, turnContext, action, failing>>
    BY <1>4 DEF CancelContext, EndTurn, runvars, turnvars
  <2>2. pc'[Turn] = pc[Turn] \/ pc'[Turn] = "idle"
    BY <1>0, <1>4 DEF CancelContext, EndTurn, EngineVariables, Tasks
  <2> QED BY <2>1, <2>2 DEF OwnRun, IdleByAnswer, AnswerIsLast, mvars
<1>5. ASSUME NEW t \in Tasks, Finish(t) PROVE OwnRun' /\ IdleByAnswer'
  <2>1. UNCHANGED <<mvars, runId, turnContext, action, failing>> /\ pc[t] = "notify"
    BY <1>5 DEF Finish, FinishRun, turnvars
  <2>2. pc' = [pc EXCEPT ![t] = AfterLoop(t)] BY <1>5 DEF Finish
  <2>3. pc'[Turn] = pc[Turn] \/ (pc[Turn] = "notify" /\ pc'[Turn] = "closing")
    <3>1. CASE t = Turn BY <1>0, <2>1, <2>2, <3>1 DEF AfterLoop, EngineVariables
    <3>2. CASE t # Turn BY <1>0, <2>2, <3>2 DEF EngineVariables, Tasks
    <3> QED BY <3>1, <3>2
  <2> QED BY <2>1, <2>3 DEF OwnRun, IdleByAnswer, AnswerIsLast, mvars
<1>6. ASSUME NEW t \in Tasks, TakeAction(t) PROVE OwnRun' /\ IdleByAnswer'
  <2>1. t = Turn /\ turnContext = runId BY <1>6, QueueIsTurns DEF TakeAction
  <2>2. PICK e \in QueuedAction : queue = <<e>> /\ e.run = runId
    BY <1>6, QueueIsTurns DEF TakeAction, Own
  <2>3. pc'[Turn] = "running" /\ action'[Turn] = e
    BY <1>0, <1>6, <2>1, <2>2 DEF TakeAction, EngineVariables
  <2>4. UNCHANGED <<runId, turnContext>> BY <1>6 DEF TakeAction, runvars, turnvars
  <2> QED BY <1>0, <2>1, <2>2, <2>3, <2>4 DEF OwnRun, IdleByAnswer, EngineVariables
<1>7. ASSUME NEW t \in Tasks, CheckToolQueue(t) PROVE OwnRun' /\ IdleByAnswer'
  <2>1. PICK e \in QueuedAction : queue = <<e>> /\ Own(e)
    BY <1>7, QueueIsTurns DEF CheckToolQueue
  <2>2. Completed(e, <<>>) /\ e.run = runId BY <1>7, <2>1 DEF CheckToolQueue, Own
  <2>3. UNCHANGED <<pc, runId, turnContext, action, failing>>
    BY <1>7 DEF CheckToolQueue, runvars, turnvars
  <2> QED BY <2>2, <2>3, CompletedAnswers DEF OwnRun, IdleByAnswer
<1>8. ASSUME NEW t \in Tasks, Complete(t) PROVE OwnRun' /\ IdleByAnswer'
  <2>1. pc[t] = "running" /\ t = Turn /\ queue = <<>> /\ action[t] \in QueuedAction
    BY <1>8, RunningIsTurn DEF Complete
  <2>2. Completed(action[Turn], <<>>) BY <1>8, <2>1 DEF Complete
  <2>3. action[Turn].run = turnContext BY <2>1 DEF OwnRun
  <2>4. UNCHANGED <<runId, turnContext, failing>> BY <1>8 DEF Complete, runvars, turnvars
  <2>5. pc'[Turn] = "notify" BY <1>0, <1>8, <2>1 DEF Complete, EngineVariables
  <2>6. state' = "Idle" /\ runId = turnContext => AnswerIsLast'
    BY <2>1, <2>2, <2>3, CompletedAnswers
  <2> QED BY <2>4, <2>5, <2>6 DEF OwnRun, IdleByAnswer
<1>9. ASSUME NEW t \in Tasks, Abort(t) \/ Fail(t) PROVE OwnRun' /\ IdleByAnswer'
  <2>1. t = Turn BY <1>9, RunningIsTurn DEF Abort, Fail
  <2>2. failing'[Turn] = TRUE /\ pc'[Turn] = "notify"
    BY <1>0, <1>9, <2>1 DEF Abort, Fail, Unwind, EngineVariables
  <2>3. turnContext' = turnContext /\ runId' \in {runId, runId + 1}
    BY <1>9 DEF Abort, Fail, Unwind, CancelRun, runvars, turnvars
  <2> QED BY <1>0, <2>2, <2>3 DEF OwnRun, IdleByAnswer, EngineVariables
<1>10. ASSUME NEW t \in Tasks, StreamChunk(t) PROVE OwnRun' /\ IdleByAnswer'
  <2>1. pc[t] = "running" /\ UNCHANGED <<pc, runId, turnContext, action>>
    BY <1>10 DEF StreamChunk, runvars, turnvars
  <2>2. t = Turn BY <2>1, RunningIsTurn
  <2> QED BY <2>1, <2>2 DEF OwnRun, IdleByAnswer
<1>11. CASE \/ \E c \in Commands : Cancel(c) \/ Reset(c)
            \/ \E msgs \in Transcripts : Replace(msgs)
  <2>1. runId' \in {runId + 1, runId + 2} /\ UNCHANGED <<turnContext, action>>
    BY <1>11 DEF Cancel, Reset, Replace, AfterCommand, CancelRun, CancelAndInvalidateRun, turnvars
  <2>2. pc'[Turn] = pc[Turn]
    BY <1>0, <1>11, EngineAssumption DEF Cancel, Reset, Replace, AfterCommand, EngineVariables, Tasks
  <2>3. turnContext < runId' BY <1>0, <2>1 DEF OwnRun, EngineVariables
  <2> QED BY <1>0, <2>1, <2>2, <2>3 DEF OwnRun, IdleByAnswer, EngineVariables
<1> QED
  BY <1>1, <1>2, <1>3, <1>4, <1>5, <1>6, <1>7, <1>8, <1>9, <1>10, <1>11
  DEF EngineNext, LoopStep, ActionEnds

(* A turn that returns without an error, and was not cancelled or reset    *)
(* meanwhile, ends with the model's answer, under every interleaving of    *)
(* commands, failures and late completions.                                *)
THEOREM SuccessIsAlwaysAnAnswer == EngineSpec => []SuccessIsAnAnswer
<1>1. EngineInit => EndingInv
  <2> SUFFICES ASSUME EngineInit PROVE OwnRun /\ IdleByAnswer
    BY EngineStart DEF EndingInv
  <2> QED BY DEF EngineInit, OwnRun, IdleByAnswer, Tasks, NoRun
<1>2. EndingInv => SuccessIsAnAnswer
  <2> SUFFICES ASSUME EndingInv, pc[Turn] = "closing" PROVE SuccessIsAnAnswer
    BY DEF SuccessIsAnAnswer
  <2>1. state = "Idle"
    BY DEF EndingInv, EngineInv, Scheduling, NotStarted, BusyWhenActive, Active
  <2> QED BY <2>1 DEF EndingInv, IdleByAnswer, AnswerIsLast, SuccessIsAnAnswer
<1> QED BY <1>1, <1>2, EndingStep, PTL DEF EngineSpec

-----------------------------------------------------------------------------
(* The session store.                                                      *)

WritesHold == "noNewline" \notin Residues

Sound == [lines : Seq(Records), tail : {Clean, Torn}]

(* The first record of every log that can be found.                        *)
ListedStarted ==
  \A s \in Sessions : meta[s] /\ files[s] # NoFile =>
    /\ files[s].lines # <<>>
    /\ files[s].lines[1] = Started

StoreInv == LogsAreSound /\ ListedStarted

-----------------------------------------------------------------------------
(* Sound files.                                                            *)

(* Cutting the last element off undoes an append.                          *)
LEMMA CutLast ==
  ASSUME NEW S, NEW q \in Seq(S), NEW x
  PROVE  SubSeq(q \o <<x>>, 1, Len(q \o <<x>>) - 1) = q
<1> DEFINE t == q \o <<x>>
           u == SubSeq(t, 1, Len(t) - 1)
<1>1. t \in Seq(S \cup {x}) /\ Len(t) = Len(q) + 1 /\ \A i \in 1..Len(q) : t[i] = q[i] OBVIOUS
<1>2. u \in Seq(S \cup {x}) /\ Len(u) = Len(q) BY <1>1
<1>3. \A i \in 1..Len(q) : u[i] = q[i] BY <1>1, <1>2
<1>4. q \in Seq(S \cup {x}) OBVIOUS
<1> QED BY <1>2, <1>3, <1>4

(* A sound file can be read, and what is read are its lines.               *)
LEMMA SoundReads ==
  ASSUME NEW f \in Sound
  PROVE  Readable(f) /\ Contents(f) = f.lines /\ Healed(f) = WholeFile(f.lines)
<1>0. f.lines \in Seq(Records) /\ f.tail \in {Clean, Torn} /\ f = [lines |-> f.lines, tail |-> f.tail]
  BY DEF Sound
<1>1. CASE f.tail = Clean
  <2>1. AllLines(f) = f.lines BY <1>0, <1>1 DEF AllLines
  <2>2. BadLines(f) = {} BY <1>0, <2>1, StoreAssumption DEF BadLines
  <2> QED BY <1>0, <1>1, <2>1, <2>2 DEF Readable, Contents, Healed, WholeFile
<1>2. CASE f.tail = Torn
  <2>1. AllLines(f) = f.lines \o <<Corrupt>> BY <1>0, <1>2, StoreAssumption DEF AllLines
  <2>2. /\ Len(AllLines(f)) = Len(f.lines) + 1
        /\ AllLines(f)[Len(f.lines) + 1] = Corrupt
        /\ \A i \in 1..Len(f.lines) : AllLines(f)[i] = f.lines[i]
        /\ DOMAIN AllLines(f) = 1..(Len(f.lines) + 1)
    BY <1>0, <2>1
  <2>3. \A i \in 1..Len(f.lines) : f.lines[i] \in Records /\ f.lines[i] # Corrupt
    BY <1>0, StoreAssumption
  <2>4. BadLines(f) = {Len(AllLines(f))} BY <1>0, <2>2, <2>3 DEF BadLines
  <2>5. Contents(f) = f.lines BY <1>0, <2>1, <2>4, CutLast DEF Contents
  <2> QED BY <2>4, <2>5 DEF Readable, Healed
<1> QED BY <1>0, <1>1, <1>2

(* Writing to a file that ends in a newline.                               *)
LEMMA CleanWrites ==
  ASSUME NEW f \in Sound, f.tail = Clean, NEW r \in Records
  PROVE  /\ WriteLine(f, r) \in Sound
         /\ WriteLine(f, r).lines = Append(f.lines, r)
         /\ WriteLine(f, r).tail = Clean
BY DEF Sound, WriteLine

(* What a crash leaves of a line behind a newline: the record, or nothing. *)
LEMMA CleanCrashes ==
  ASSUME WritesHold, NEW f \in Sound, f.tail = Clean, NEW r \in Records, NEW residue \in Residues
  PROVE  /\ Interrupted(f, r, residue) \in Sound
         /\ Interrupted(f, r, residue).lines \in {f.lines, Append(f.lines, r)}
<1>1. residue \in {"nothing", "partial", "whole"} BY StoreAssumption DEF WritesHold
<1>2. CASE residue = "nothing" BY <1>2 DEF Interrupted
<1>3. CASE residue = "partial"
  <2>1. Interrupted(f, r, residue) = [lines |-> f.lines, tail |-> Torn] BY <1>3 DEF Interrupted
  <2> QED BY <2>1 DEF Sound
<1>4. CASE residue = "whole"
  <2>1. Interrupted(f, r, residue) = WriteLine(f, r) BY <1>4 DEF Interrupted
  <2> QED BY <2>1, CleanWrites
<1> QED BY <1>1, <1>2, <1>3, <1>4

(* A whole file is sound.                                                  *)
LEMMA WholeIsSound ==
  ASSUME NEW q \in Seq(Records)
  PROVE  WholeFile(q) \in Sound /\ WholeFile(q).lines = q /\ WholeFile(q).tail = Clean
BY DEF WholeFile, Sound

(* A log that is cut keeps its first records.                              *)
LEMMA CutSound ==
  ASSUME NEW f \in Sound, NEW n \in Nat, n >= 1
  PROVE  /\ Cut(f, n) \in Sound /\ Cut(f, n).tail = Clean
         /\ \/ Cut(f, n).lines = f.lines
            \/ n <= Len(f.lines) /\ Cut(f, n).lines = SubSeq(f.lines, 1, n)
<1>1. Contents(f) = f.lines /\ Healed(f) = WholeFile(f.lines) /\ f.lines \in Seq(Records)
  BY SoundReads DEF Sound
<1>2. CASE n < Len(f.lines)
  <2>1. SubSeq(f.lines, 1, n) \in Seq(Records) BY <1>1, <1>2
  <2>2. Cut(f, n) = WholeFile(SubSeq(f.lines, 1, n)) BY <1>1, <1>2 DEF Cut
  <2>3. Cut(f, n) \in Sound /\ Cut(f, n).lines = SubSeq(f.lines, 1, n) /\ Cut(f, n).tail = Clean
    BY <2>1, <2>2, WholeIsSound
  <2>4. n <= Len(f.lines) BY <1>1, <1>2
  <2> QED BY <2>3, <2>4
<1>3. CASE ~ (n < Len(f.lines)) BY <1>1, <1>3, WholeIsSound DEF Cut
<1> QED BY <1>2, <1>3

-----------------------------------------------------------------------------
(* Sessions.                                                               *)

(* What is read of a session is what its file holds.                       *)
LEMMA SoundLog ==
  ASSUME LogsAreSound, NEW s \in Sessions
  PROVE  /\ LogOf(s) = IF meta[s] /\ files[s] # NoFile THEN files[s].lines ELSE NoLog
         /\ files[s] # NoFile => files[s] \in Sound
<1>1. files[s] # NoFile => files[s] \in Sound BY DEF LogsAreSound, Sound
<1> QED BY <1>1, SoundReads DEF LogOf

(* The log of an open session, as an append finds it.                      *)
LEMMA OpenLog ==
  ASSUME LogsAreSound, NEW s \in opened
  PROVE  /\ s \in Sessions
         /\ LogFile(s) \in Sound /\ LogFile(s).tail = Clean
         /\ meta[s] => LogFile(s) = files[s] /\ files[s] # NoFile
<1>1. s \in Sessions /\ (files[s] # NoFile => files[s] \in Sound /\ files[s].tail = Clean)
  BY SoundLog DEF LogsAreSound
<1>2. EmptyFile \in Sound /\ EmptyFile.tail = Clean BY DEF EmptyFile, Sound
<1>3. meta[s] => files[s] # NoFile BY DEF LogsAreSound
<1> QED BY <1>1, <1>2, <1>3 DEF LogFile

(* What a step may do to one session: nothing, or what the log promises.   *)
LogChange(s) ==
  \/ LogOf(s)' = LogOf(s)
  \/ LogOf(s) = NoLog /\ LogOf(s)' \in Seq(Records)
  \/ LogOf(s) # NoLog /\ \E r \in Records : LogOf(s)' = Append(LogOf(s), r)
  \/ LogOf(s) # NoLog /\ \E n \in 1..Len(LogOf(s)) : LogOf(s)' = SubSeq(LogOf(s), 1, n)
  \/ LogOf(s) # NoLog /\ LogOf(s)' = NoLog

(* The first record that can be found, of one session.                     *)
StartedAt(s) == meta[s] /\ files[s] # NoFile => files[s].lines # <<>> /\ files[s].lines[1] = Started

(* A step leaves every session but one as it is: the log of that one is f, *)
(* or gone, and m says whether it has metadata.                            *)
Changes(s, f, m) ==
  /\ files' = [files EXCEPT ![s] = f]
  /\ meta' = [meta EXCEPT ![s] = m]
  /\ f \in Sound \cup {NoFile}
  /\ m \in BOOLEAN
  /\ up' \in BOOLEAN
  /\ \/ opened' = {}
     \/ /\ opened' \in {opened, opened \cup {s}}
        /\ s \in opened' => (f # NoFile => f.tail = Clean) /\ (m => f # NoFile)

(* Such a step keeps the invariant if it keeps the session's first record, *)
(* and changes what is read of no other session.                           *)
LEMMA ChangeKeeps ==
  ASSUME StoreInv, NEW s \in Sessions, NEW f, NEW m, Changes(s, f, m), StartedAt(s)'
  PROVE  /\ StoreInv'
         /\ \A t \in Sessions \ {s} : LogOf(t)' = LogOf(t)
         /\ LogOf(s)' = IF m /\ f # NoFile THEN f.lines ELSE NoLog
<1> USE DEF StoreInv
<1>1. /\ files \in [Sessions -> Sound \cup {NoFile}] /\ meta \in [Sessions -> BOOLEAN]
      /\ opened \subseteq Sessions
  BY DEF LogsAreSound, Sound
<1>2. /\ files' \in [Sessions -> Sound \cup {NoFile}] /\ files'[s] = f
      /\ meta' \in [Sessions -> BOOLEAN] /\ meta'[s] = m
  BY <1>1 DEF Changes
<1>3. \A t \in Sessions \ {s} : files'[t] = files[t] /\ meta'[t] = meta[t]
  BY <1>1 DEF Changes
<1>4. \A t \in opened' : /\ files'[t] # NoFile => files'[t].tail = Clean
                         /\ meta'[t] => files'[t] # NoFile
  <2> SUFFICES ASSUME NEW t \in opened'
               PROVE  /\ files'[t] # NoFile => files'[t].tail = Clean
                      /\ meta'[t] => files'[t] # NoFile
    OBVIOUS
  <2>1. CASE t = s BY <1>2, <2>1 DEF Changes
  <2>2. CASE t # s
    <3>1. t \in opened BY <2>2 DEF Changes
    <3>2. files'[t] = files[t] /\ meta'[t] = meta[t] BY <1>1, <1>3, <2>2, <3>1
    <3> QED BY <3>1, <3>2 DEF LogsAreSound
  <2> QED BY <2>1, <2>2
<1>5. LogsAreSound' BY <1>1, <1>2, <1>4 DEF LogsAreSound, Changes, Sound
<1>6. ListedStarted'
  <2> SUFFICES ASSUME NEW t \in Sessions, meta'[t], files'[t] # NoFile
               PROVE  files'[t].lines # <<>> /\ files'[t].lines[1] = Started
    BY DEF ListedStarted
  <2>1. CASE t = s BY <2>1 DEF StartedAt
  <2>2. CASE t # s BY <1>3, <2>2 DEF ListedStarted
  <2> QED BY <2>1, <2>2
<1>7. \A t \in Sessions \ {s} : LogOf(t)' = LogOf(t) BY <1>3 DEF LogOf
<1>8. LogOf(s)' = IF m /\ f # NoFile THEN f.lines ELSE NoLog
  <2>1. LogOf(s)' = IF m /\ f # NoFile /\ Readable(f) THEN Contents(f) ELSE NoLog
    BY <1>2 DEF LogOf
  <2> QED BY <1>2, <2>1, SoundReads
<1> QED BY <1>5, <1>6, <1>7, <1>8

(* What every action of a session has to do.                               *)
Keeps(s) == StoreInv' /\ LogChange(s) /\ \A t \in Sessions \ {s} : LogOf(t)' = LogOf(t)

(* And what every action that removes nothing has to do.                   *)
Grows(s) ==
  \/ LogOf(s) = NoLog
  \/ LogOf(s)' = LogOf(s)
  \/ \E r \in Records : LogOf(s)' = Append(LogOf(s), r)

(* Facts about the session that every action of it starts from.            *)
LEMMA Before ==
  ASSUME StoreInv, NEW s \in Sessions
  PROVE  /\ files \in [Sessions -> Sound \cup {NoFile}] /\ meta \in [Sessions -> BOOLEAN]
         /\ meta = [meta EXCEPT ![s] = meta[s]] /\ meta[s] \in BOOLEAN
         /\ files = [files EXCEPT ![s] = files[s]]
         /\ opened \subseteq Sessions /\ up \in BOOLEAN
         /\ StartedAt(s)
         /\ LogOf(s) = IF meta[s] /\ files[s] # NoFile THEN files[s].lines ELSE NoLog
<1>1. LogsAreSound /\ ListedStarted BY DEF StoreInv
<1>2. LogOf(s) = IF meta[s] /\ files[s] # NoFile THEN files[s].lines ELSE NoLog
  BY <1>1, SoundLog
<1>3. files \in [Sessions -> Sound \cup {NoFile}] /\ meta \in [Sessions -> BOOLEAN]
  BY <1>1 DEF LogsAreSound, Sound
<1>4. StartedAt(s) BY <1>1 DEF ListedStarted, StartedAt
<1> QED BY <1>1, <1>2, <1>3, <1>4 DEF LogsAreSound

\* A session is created.
LEMMA CreateKeeps ==
  ASSUME StoreInv, NEW s \in Sessions, NEW initial \in InitialRecords, Create(s, initial)
  PROVE  Keeps(s) /\ Grows(s)
<1> DEFINE q == <<Started>> \o initial
           f == WholeFile(q)
<1>1. initial \in Seq(Records) /\ Started \in Records BY StoreAssumption
<1>2. q \in Seq(Records) /\ q # <<>> /\ q[1] = Started BY <1>1
<1>3. f \in Sound /\ f.lines = q /\ f.tail = Clean BY <1>2, WholeIsSound
<1>4. files[s] = NoFile /\ ~meta[s] /\ files' = [files EXCEPT ![s] = f]
      /\ meta' = [meta EXCEPT ![s] = TRUE] /\ opened' = opened \cup {s} /\ up' = up
  BY DEF Create, Fresh
<1>5. f # NoFile
  <2>1. f \in File BY <1>3 DEF Sound, File, Lines, Tails
  <2> QED BY <2>1, StoreAssumption
<1> HIDE DEF q, f
<1>6. Changes(s, f, TRUE) BY <1>3, <1>4, <1>5, Before DEF Changes
<1>7. StartedAt(s)'
  <2>1. files'[s] = f BY <1>4, Before
  <2> QED BY <1>2, <1>3, <2>1 DEF StartedAt
<1>8. LogOf(s) = NoLog /\ LogOf(s)' = q
  BY <1>3, <1>4, <1>5, <1>6, <1>7, Before, ChangeKeeps
<1> QED BY <1>2, <1>6, <1>7, <1>8, ChangeKeeps DEF Keeps, LogChange, Grows

(* An interrupted creation leaves a log that cannot be found.              *)
LEMMA CrashInCreateKeeps ==
  ASSUME WritesHold, StoreInv, NEW s \in Sessions, NEW initial \in InitialRecords,
         NEW n \in 0..Len(initial), NEW residue \in Residues, CrashInCreate(s, initial, n, residue)
  PROVE  Keeps(s) /\ Grows(s)
<1> DEFINE q == <<Started>> \o initial
           begun == WholeFile(SubSeq(q, 1, n))
           f == Interrupted(begun, q[n + 1], residue)
<1>1. initial \in Seq(Records) /\ Started \in Records BY StoreAssumption
<1>2. q \in Seq(Records) /\ Len(q) = Len(initial) + 1 BY <1>1
<1>3. n \in Nat /\ n < Len(q) BY <1>1, <1>2
<1>4. q[n + 1] \in Records /\ SubSeq(q, 1, n) \in Seq(Records)
  <2> HIDE DEF q
  <2> QED BY <1>2, <1>3
<1>5. begun \in Sound /\ begun.tail = Clean BY <1>4, WholeIsSound
<1> HIDE DEF begun
<1>6. f \in Sound BY <1>4, <1>5, CleanCrashes
<1>7. ~meta[s] /\ files' = [files EXCEPT ![s] = f] /\ meta' = meta /\ up' = FALSE /\ opened' = {}
  BY DEF CrashInCreate, Fresh, begun
<1> HIDE DEF f
<1>8. Changes(s, f, meta[s]) BY <1>6, <1>7, Before DEF Changes
<1>9. StartedAt(s)' BY <1>7 DEF StartedAt
<1>10. LogOf(s) = NoLog /\ LogOf(s)' = NoLog BY <1>7, <1>8, <1>9, Before, ChangeKeeps
<1> QED BY <1>8, <1>9, <1>10, ChangeKeeps DEF Keeps, LogChange, Grows

(* The log of a session that is read, or written, and stays what it was or *)
(* gets one record more or fewer.                                          *)
LEMMA WriteKeeps ==
  ASSUME StoreInv, NEW s \in Sessions, NEW f \in Sound, Changes(s, f, meta[s]),
         meta[s] => /\ files[s] # NoFile
                    /\ \/ f.lines = files[s].lines
                       \/ \E r \in Records : f.lines = Append(files[s].lines, r)
                       \/ \E n \in 1..Len(files[s].lines) : f.lines = SubSeq(files[s].lines, 1, n)
  PROVE  /\ Keeps(s)
         /\ ~meta[s] \/ f.lines = files[s].lines \/ (\E r \in Records : f.lines = Append(files[s].lines, r))
              => Grows(s)
<1>1. files'[s] = f /\ meta'[s] = meta[s] BY Before DEF Changes
<1>2. f # NoFile
  <2>1. f \in File BY DEF Sound, File, Lines, Tails
  <2> QED BY <2>1, StoreAssumption
<1>3. CASE ~meta[s]
  <2>1. StartedAt(s)' BY <1>1, <1>3 DEF StartedAt
  <2>2. LogOf(s) = NoLog /\ LogOf(s)' = NoLog BY <1>3, <2>1, Before, ChangeKeeps
  <2> QED BY <2>1, <2>2, ChangeKeeps DEF Keeps, LogChange, Grows
<1>4. CASE meta[s]
  <2> DEFINE q == files[s].lines
  <2>1. files[s] \in Sound /\ q \in Seq(Records) BY <1>4, Before DEF Sound
  <2>2. q # <<>> /\ q[1] = Started BY <1>4, Before DEF StartedAt
  <2>3. \/ f.lines = q
        \/ \E r \in Records : f.lines = Append(q, r)
        \/ \E n \in 1..Len(q) : f.lines = SubSeq(q, 1, n)
    BY <1>4
  <2>4. LogOf(s) = q BY <1>4, Before
  <2>5. q # NoLog BY <2>1, StoreAssumption
  <2> HIDE DEF q
  <2>6. f.lines # <<>> /\ f.lines[1] = Started
    <3>1. CASE f.lines = q BY <2>2, <3>1
    <3>2. CASE \E r \in Records : f.lines = Append(q, r) BY <2>1, <2>2, <3>2
    <3>3. CASE \E n \in 1..Len(q) : f.lines = SubSeq(q, 1, n) BY <2>1, <2>2, <3>3
    <3> QED BY <2>3, <3>1, <3>2, <3>3
  <2>7. StartedAt(s)' BY <1>1, <2>6 DEF StartedAt
  <2>8. LogOf(s)' = f.lines BY <1>2, <1>4, <2>7, ChangeKeeps
  <2>9. LogChange(s) BY <2>3, <2>4, <2>5, <2>8 DEF LogChange
  <2>10. f.lines = q \/ (\E r \in Records : f.lines = Append(q, r)) => Grows(s)
    BY <2>4, <2>8 DEF Grows
  <2>11. Keeps(s) BY <2>7, <2>9, ChangeKeeps DEF Keeps
  <2> QED BY <1>4, <2>10, <2>11 DEF q
<1> QED BY <1>3, <1>4

\* A record is appended.
LEMMA AppendKeeps ==
  ASSUME StoreInv, NEW s \in Sessions, NEW r \in Records, AppendRecord(s, r)
  PROVE  Keeps(s) /\ Grows(s)
<1> DEFINE f == WriteLine(LogFile(s), r)
<1>1. s \in opened /\ files' = [files EXCEPT ![s] = f] /\ meta' = meta /\ up' = up /\ opened' = opened
  BY DEF AppendRecord
<1>2. LogFile(s) \in Sound /\ LogFile(s).tail = Clean
      /\ (meta[s] => LogFile(s) = files[s] /\ files[s] # NoFile)
  BY <1>1, OpenLog DEF StoreInv
<1>3. f \in Sound /\ f.lines = Append(LogFile(s).lines, r) /\ f.tail = Clean BY <1>2, CleanWrites
<1>4. f # NoFile
  <2>1. f \in File BY <1>3 DEF Sound, File, Lines, Tails
  <2> QED BY <2>1, StoreAssumption
<1> HIDE DEF f
<1>5. Changes(s, f, meta[s]) BY <1>1, <1>3, <1>4, Before DEF Changes
<1> QED BY <1>2, <1>3, <1>5, WriteKeeps

(* The record an append adds is read behind those that were read before.   *)
LEMMA AppendIsRead ==
  ASSUME StoreInv, NEW s \in Sessions, NEW r \in Records, AppendRecord(s, r), LogOf(s) # NoLog
  PROVE  LogOf(s)' = Append(LogOf(s), r)
<1> DEFINE f == WriteLine(LogFile(s), r)
<1>1. s \in opened /\ files' = [files EXCEPT ![s] = f] /\ meta' = meta BY DEF AppendRecord
<1>2. meta[s] /\ LogOf(s) = files[s].lines BY Before
<1>3. files[s] \in Sound /\ files[s].tail = Clean /\ LogFile(s) = files[s] /\ files[s] # NoFile
  BY <1>1, <1>2, OpenLog DEF StoreInv
<1>4. f \in Sound /\ f.lines = Append(files[s].lines, r) BY <1>3, CleanWrites
<1>5. f # NoFile
  <2>1. f \in File BY <1>4 DEF Sound, File, Lines, Tails
  <2> QED BY <2>1, StoreAssumption
<1> HIDE DEF f
<1>6. files'[s] = f /\ meta'[s] BY <1>1, <1>2, Before
<1>7. LogOf(s)' = Contents(f) BY <1>4, <1>5, <1>6, SoundReads DEF LogOf
<1> QED BY <1>2, <1>4, <1>7, SoundReads

(* What an interrupted append leaves is the record or none of it.          *)
LEMMA CrashInAppendKeeps ==
  ASSUME WritesHold, StoreInv, NEW s \in Sessions, NEW r \in Records,
         NEW residue \in Residues, CrashInAppend(s, r, residue)
  PROVE  Keeps(s) /\ Grows(s)
<1> DEFINE f == Interrupted(LogFile(s), r, residue)
<1>1. s \in opened /\ files' = [files EXCEPT ![s] = f] /\ meta' = meta /\ up' = FALSE /\ opened' = {}
  BY DEF CrashInAppend
<1>2. LogFile(s) \in Sound /\ LogFile(s).tail = Clean
      /\ (meta[s] => LogFile(s) = files[s] /\ files[s] # NoFile)
  BY <1>1, OpenLog DEF StoreInv
<1>3. f \in Sound /\ f.lines \in {LogFile(s).lines, Append(LogFile(s).lines, r)}
  BY <1>2, CleanCrashes
<1> HIDE DEF f
<1>4. Changes(s, f, meta[s]) BY <1>1, <1>3, Before DEF Changes
<1> QED BY <1>2, <1>3, <1>4, WriteKeeps

\* A session is loaded, and its log healed.
LEMMA LoadKeeps ==
  ASSUME StoreInv, NEW s \in Sessions, Load(s)
  PROVE  Keeps(s) /\ Grows(s)
<1> DEFINE f == Healed(files[s])
<1>1. files[s] # NoFile /\ files' = [files EXCEPT ![s] = f] /\ meta' = meta /\ up' = up
      /\ opened' \in {opened, opened \cup {s}}
  BY DEF Load
<1>2. files[s] \in Sound BY <1>1, Before
<1>3. f = WholeFile(files[s].lines) /\ files[s].lines \in Seq(Records) BY <1>2, SoundReads DEF Sound
<1>4. f \in Sound /\ f.lines = files[s].lines /\ f.tail = Clean BY <1>3, WholeIsSound
<1>5. f # NoFile
  <2>1. f \in File BY <1>4 DEF Sound, File, Lines, Tails
  <2> QED BY <2>1, StoreAssumption
<1> HIDE DEF f
<1>6. Changes(s, f, meta[s]) BY <1>1, <1>4, <1>5, Before DEF Changes
<1> QED BY <1>1, <1>4, <1>6, WriteKeeps

\* A log is cut off behind a record.
LEMMA TruncateKeeps ==
  ASSUME StoreInv, NEW s \in Sessions, NEW n \in Cuts, TruncateAfter(s, n)
  PROVE  Keeps(s)
<1> DEFINE f == Cut(files[s], n)
<1>1. files[s] # NoFile /\ files' = [files EXCEPT ![s] = f] /\ meta' = meta /\ up' = up
      /\ opened' = opened
  BY DEF TruncateAfter
<1>2. files[s] \in Sound /\ files[s].lines \in Seq(Records) BY <1>1, Before DEF Sound
<1>3. n \in Nat /\ n >= 1 BY StoreAssumption DEF Cuts
<1>4. /\ f \in Sound /\ f.tail = Clean
      /\ f.lines = files[s].lines \/ (n <= Len(files[s].lines) /\ f.lines = SubSeq(files[s].lines, 1, n))
  BY <1>2, <1>3, CutSound
<1>5. f # NoFile
  <2>1. f \in File BY <1>4 DEF Sound, File, Lines, Tails
  <2> QED BY <2>1, StoreAssumption
<1> HIDE DEF f
<1>6. Changes(s, f, meta[s]) BY <1>1, <1>4, <1>5, Before DEF Changes
<1>7. n <= Len(files[s].lines) => n \in 1..Len(files[s].lines) BY <1>2, <1>3
<1> QED BY <1>1, <1>4, <1>6, <1>7, WriteKeeps

(* The log before the cut, healed, or the log after it.                    *)
LEMMA CrashInTruncateKeeps ==
  ASSUME StoreInv, NEW s \in Sessions, NEW n \in Cuts, CrashInTruncate(s, n)
  PROVE  Keeps(s)
<1>1. PICK f \in {Healed(files[s]), Cut(files[s], n)} : files' = [files EXCEPT ![s] = f]
  BY DEF CrashInTruncate
<1>2. files[s] # NoFile /\ meta' = meta /\ up' = FALSE /\ opened' = {} BY DEF CrashInTruncate
<1>3. files[s] \in Sound /\ files[s].lines \in Seq(Records) BY <1>2, Before DEF Sound
<1>4. n \in Nat /\ n >= 1 BY StoreAssumption DEF Cuts
<1>5. /\ f \in Sound
      /\ f.lines = files[s].lines \/ (n <= Len(files[s].lines) /\ f.lines = SubSeq(files[s].lines, 1, n))
  <2>1. CASE f = Healed(files[s])
    <3>1. f = WholeFile(files[s].lines) BY <1>3, <2>1, SoundReads
    <3> QED BY <1>3, <3>1, WholeIsSound
  <2>2. CASE f = Cut(files[s], n) BY <1>3, <1>4, <2>2, CutSound
  <2> QED BY <1>1, <2>1, <2>2
<1>6. Changes(s, f, meta[s]) BY <1>1, <1>2, <1>5, Before DEF Changes
<1>7. n <= Len(files[s].lines) => n \in 1..Len(files[s].lines) BY <1>3, <1>4
<1> QED BY <1>2, <1>5, <1>6, <1>7, WriteKeeps

(* A session that is deleted, or half deleted, cannot be found.            *)
LEMMA DeleteKeeps ==
  ASSUME StoreInv, NEW s \in Sessions, Delete(s) \/ CrashInDelete(s)
  PROVE  Keeps(s)
<1> DEFINE f == files'[s]
           m == meta'[s]
<1>1. /\ f \in Sound \cup {NoFile} /\ m \in BOOLEAN /\ up' \in BOOLEAN
      /\ files' = [files EXCEPT ![s] = f] /\ meta' = [meta EXCEPT ![s] = m]
      /\ ~m \/ f = NoFile
      /\ opened' = {} \/ (opened' = opened /\ f = NoFile /\ ~m)
  <2>1. CASE Delete(s) BY <2>1, Before DEF Delete
  <2>2. CASE CrashInDelete(s) BY <2>2, Before DEF CrashInDelete
  <2> QED BY <2>1, <2>2
<1>2. Changes(s, f, m) BY <1>1, Before DEF Changes
<1>3. StartedAt(s)' BY <1>1 DEF StartedAt
<1>4. LogOf(s)' = NoLog BY <1>1, <1>2, <1>3, ChangeKeeps
<1> QED BY <1>2, <1>3, <1>4, ChangeKeeps DEF Keeps, LogChange

-----------------------------------------------------------------------------
(* The step, the invariant and the refinement.                             *)

\* Every step keeps the logs sound and changes at most one of them.
LEMMA StepKeeps ==
  ASSUME WritesHold, StoreInv, [Next]_svars
  PROVE  /\ StoreInv'
         /\ \/ \A t \in Sessions : LogOf(t)' = LogOf(t)
            \/ \E s \in Sessions : Keeps(s)
         /\ \A t \in Sessions : Removes(t) \/ Grows(t)
<1>1. CASE UNCHANGED svars
  <2>1. files' = files /\ meta' = meta /\ up' = up /\ opened' = opened BY <1>1 DEF svars
  <2>2. StoreInv' BY <2>1 DEF StoreInv, LogsAreSound, ListedStarted
  <2>3. \A t \in Sessions : LogOf(t)' = LogOf(t) BY <2>1 DEF LogOf
  <2> QED BY <2>2, <2>3 DEF Grows
<1>2. CASE Crash \/ Restart
  <2>1. files' = files /\ meta' = meta /\ up' \in BOOLEAN /\ (opened' = {} \/ opened' = opened)
    BY <1>2 DEF Crash, Restart
  <2>2. StoreInv' BY <2>1 DEF StoreInv, LogsAreSound, ListedStarted
  <2>3. \A t \in Sessions : LogOf(t)' = LogOf(t) BY <2>1 DEF LogOf
  <2> QED BY <2>2, <2>3 DEF Grows
<1>3. ASSUME NEW s \in Sessions, NEW initial \in InitialRecords, Create(s, initial)
      PROVE  Keeps(s) /\ Grows(s)
  BY <1>3, CreateKeeps
<1>4. ASSUME NEW s \in Sessions, NEW initial \in InitialRecords, NEW n \in 0..Len(initial),
             NEW residue \in Residues, CrashInCreate(s, initial, n, residue)
      PROVE  Keeps(s) /\ Grows(s)
  BY <1>4, CrashInCreateKeeps
<1>5. ASSUME NEW s \in Sessions, NEW r \in Records, AppendRecord(s, r)
      PROVE  Keeps(s) /\ Grows(s)
  BY <1>5, AppendKeeps
<1>6. ASSUME NEW s \in Sessions, NEW r \in Records, NEW residue \in Residues, CrashInAppend(s, r, residue)
      PROVE  Keeps(s) /\ Grows(s)
  BY <1>6, CrashInAppendKeeps
<1>7. ASSUME NEW s \in Sessions, Load(s)
      PROVE  Keeps(s) /\ Grows(s)
  BY <1>7, LoadKeeps
<1>8. ASSUME NEW s \in Sessions, NEW n \in Cuts, TruncateAfter(s, n)
      PROVE  Keeps(s) /\ Removes(s)
  BY <1>8, TruncateKeeps DEF Removes
<1>9. ASSUME NEW s \in Sessions, NEW n \in Cuts, CrashInTruncate(s, n)
      PROVE  Keeps(s) /\ Removes(s)
  BY <1>9, CrashInTruncateKeeps DEF Removes
<1>10. ASSUME NEW s \in Sessions, Delete(s) \/ CrashInDelete(s)
       PROVE  Keeps(s) /\ Removes(s)
  BY <1>10, DeleteKeeps DEF Removes
<1>11. UNCHANGED svars \/ Crash \/ Restart \/ \E s \in Sessions : Keeps(s) /\ (Removes(s) \/ Grows(s))
  BY <1>3, <1>4, <1>5, <1>6, <1>7, <1>8, <1>9, <1>10 DEF Next
<1>12. CASE \E s \in Sessions : Keeps(s) /\ (Removes(s) \/ Grows(s))
  <2>1. PICK s \in Sessions : Keeps(s) /\ (Removes(s) \/ Grows(s)) BY <1>12
  <2>2. \A t \in Sessions : Removes(t) \/ Grows(t) BY <2>1 DEF Keeps, Grows
  <2> QED BY <2>1, <2>2 DEF Keeps
<1> QED BY <1>1, <1>2, <1>11, <1>12

(* A step of the store is a step of the log, or none.                      *)
LEMMA StepIsLogStep ==
  ASSUME WritesHold, StoreInv, [Next]_svars
  PROVE  [Log!LogNext]_[s \in Sessions |-> LogOf(s)]
<1> DEFINE logs == [s \in Sessions |-> LogOf(s)]
<1>1. CASE \A t \in Sessions : LogOf(t)' = LogOf(t)
  <2>1. logs' = logs BY <1>1
  <2> QED BY <2>1
<1>2. CASE \E s \in Sessions : Keeps(s)
  <2>1. PICK s \in Sessions : Keeps(s) BY <1>2
  <2>2. \A t \in Sessions : logs[t] = LogOf(t) /\ logs'[t] = LogOf(t)' OBVIOUS
  <2>3. logs' = [logs EXCEPT ![s] = LogOf(s)'] BY <2>1, <2>2 DEF Keeps
  <2>4. LogChange(s) BY <2>1 DEF Keeps
  <2>5. CASE LogOf(s)' = LogOf(s)
    <3>1. logs' = logs BY <2>2, <2>3, <2>5
    <3> QED BY <3>1
  <2>6. CASE LogOf(s) = NoLog /\ LogOf(s)' \in Seq(Records)
    <3>1. Log!CreateLog(s) BY <2>2, <2>3, <2>6 DEF Log!CreateLog
    <3> QED BY <3>1 DEF Log!LogNext
  <2>7. CASE LogOf(s) # NoLog /\ \E r \in Records : LogOf(s)' = Append(LogOf(s), r)
    <3>1. Log!AppendLog(s) BY <2>2, <2>3, <2>7 DEF Log!AppendLog
    <3> QED BY <3>1 DEF Log!LogNext
  <2>8. CASE LogOf(s) # NoLog /\ \E n \in 1..Len(LogOf(s)) : LogOf(s)' = SubSeq(LogOf(s), 1, n)
    <3>1. Log!CutLog(s) BY <2>2, <2>3, <2>8 DEF Log!CutLog
    <3> QED BY <3>1 DEF Log!LogNext
  <2>9. CASE LogOf(s) # NoLog /\ LogOf(s)' = NoLog
    <3>1. Log!DeleteLog(s) BY <2>2, <2>3, <2>9 DEF Log!DeleteLog
    <3> QED BY <3>1 DEF Log!LogNext
  <2> QED BY <2>4, <2>5, <2>6, <2>7, <2>8, <2>9 DEF LogChange
<1> QED BY <1>1, <1>2, StepKeeps

\* At the start there is no log.
LEMMA InitHolds == Init => StoreInv
BY DEF Init, StoreInv, LogsAreSound, ListedStarted

(* The inductive invariant: the logs are sound, and one that can be found  *)
(* starts with its first record.                                           *)
THEOREM InvAlways ==
  ASSUME WritesHold
  PROVE  Spec => []StoreInv
<1>1. Init => StoreInv BY InitHolds
<1>2. StoreInv /\ [Next]_svars => StoreInv' BY StepKeeps
<1> QED BY <1>1, <1>2, PTL DEF Spec

(* No record is ever glued to the rest of another, in the middle of a log  *)
(* or at its end, and a log that may be appended to ends in a newline.     *)
THEOREM SoundAlways ==
  ASSUME WritesHold
  PROVE  Spec => []LogsAreSound
<1>1. StoreInv => LogsAreSound BY DEF StoreInv
<1> QED BY <1>1, InvAlways, PTL

(* A session that can be found can be read, from its first record on,      *)
(* whatever the creation, the appends and the cuts that were interrupted.  *)
THEOREM ListedAlwaysWhole ==
  ASSUME WritesHold
  PROVE  Spec => []ListedIsWhole
<1>1. StoreInv => ListedIsWhole
  <2> SUFFICES ASSUME StoreInv, NEW s \in Sessions, meta[s], files[s] # NoFile
               PROVE  /\ Readable(files[s])
                      /\ Contents(files[s]) # <<>>
                      /\ Contents(files[s])[1] = Started
    BY DEF ListedIsWhole
  <2>1. files[s] \in Sound BY Before
  <2> QED BY <2>1, Before, SoundReads DEF StartedAt
<1> QED BY <1>1, InvAlways, PTL

(* The store is the log it promises: every crash, in the middle of any     *)
(* operation, is one of the log's own steps or leaves it as it was.        *)
THEOREM StoreImplementsLog ==
  ASSUME WritesHold
  PROVE  Spec => StoreIsDurableLog
<1>1. Init => Log!LogInit
  <2> SUFFICES ASSUME Init
               PROVE  [s \in Sessions |-> LogOf(s)] = [s \in Sessions |-> NoLog]
    BY DEF Log!LogInit
  <2> QED BY DEF Init, LogOf
<1>2. StoreInv /\ [Next]_svars => [Log!LogNext]_[s \in Sessions |-> LogOf(s)] BY StepIsLogStep
<1> QED BY <1>1, <1>2, InvAlways, PTL DEF Spec, StoreIsDurableLog, Log!LogSpec

(* An append that returns has its record in what will be read.             *)
THEOREM AppendAlwaysKept ==
  ASSUME WritesHold
  PROVE  Spec => AppendIsKept
<1> DEFINE A == \A s \in Sessions, r \in Records :
                  AppendRecord(s, r) /\ LogOf(s) # NoLog => LogOf(s)' = Append(LogOf(s), r)
<1>1. StoreInv => [A]_svars BY AppendIsRead
<1> QED BY <1>1, InvAlways, PTL DEF AppendIsKept

(* Only a deletion or a cut takes away a record that could be read: no     *)
(* crash does, whatever it interrupts, and no healing.                     *)
THEOREM RecordsAlwaysStay ==
  ASSUME WritesHold
  PROVE  Spec => RecordsStay
<1> DEFINE A == \A s \in Sessions :
                  LogOf(s) # NoLog /\ ~Removes(s) =>
                    \/ LogOf(s)' = LogOf(s)
                    \/ \E r \in Records : LogOf(s)' = Append(LogOf(s), r)
<1>1. StoreInv /\ [Next]_svars => [A]_svars BY StepKeeps DEF Grows
<1> QED BY <1>1, InvAlways, PTL DEF Spec, RecordsStay

(* What was recorded stays recorded.                                       *)
THEOREM RecordAlwaysKept ==
  ASSUME WritesHold
  PROVE  Spec => RecordIsKept
<1>1. Spec => AppendIsKept BY AppendAlwaysKept
<1>2. Spec => RecordsStay BY RecordsAlwaysStay
<1> QED BY <1>1, <1>2 DEF RecordIsKept

=============================================================================
