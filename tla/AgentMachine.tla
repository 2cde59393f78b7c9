---------------------------- MODULE AgentMachine ----------------------------
(***************************************************************************)
(* The pure state machine of the agent runtime (runtime/machine): one      *)
(* action per event handler of transition.py, each with the data changes   *)
(* runtime_data_change_applier.py makes for it and the action plan it      *)
(* returns.  The environment may offer any event at any time, with any     *)
(* call in it: a handler's guards are what turns the wrong ones away.      *)
(*                                                                         *)
(* validate_runtime_data is not a guard here.  The code runs it on every   *)
(* candidate and discards the candidate when it fails; the model commits   *)
(* every candidate, and ValidRuntimeData is an invariant to be shown: no   *)
(* handler ever builds a candidate the validation would throw away.        *)
(***************************************************************************)
EXTENDS Naturals, Sequences

CONSTANTS
  CallIds,       \* the provider's tool call ids
  NoId,          \* a call that carries no id (the empty string in the code)
  CallBodies,    \* a tool name together with its input
  NoCall,        \* an empty pending, current or message slot
  NoBatch,       \* no tool batch is open
  NoAction,      \* a plan that schedules nothing
  Batches,       \* the call lists a model reply may carry
  Transcripts,   \* the conversations replace_messages may install
  InitialMessages, \* the system messages the engine is created with
  MaxMessages    \* bound: no new user message or batch at this length

ToolCall == [id : CallIds \cup {NoId}, body : CallBodies]

Roles == {"system", "user", "assistant", "tool"}

(* What a message says about a call or a reply; the wording is abstracted. *)
Outcomes == {"said", "interrupted", "result", "denied", "aborted", "skipped"}

(* Only an assistant message makes calls.                                  *)
Message ==
  { m \in [role : Roles, calls : Seq(ToolCall), call : ToolCall \cup {NoCall}, outcome : Outcomes] :
      m.role # "assistant" => m.calls = <<>> }

Batch == [calls : Seq(ToolCall), index : Nat]

States == {"Initializing", "Idle", "WaitingLLM", "WaitingApproval", "RunningTool", "AdvancingQueue"}

Action == [kind : {"CallModel", "CheckToolQueue"}, call : {NoCall}]
            \cup [kind : {"RunTool", "AwaitApproval"}, call : ToolCall]

Plan == [clear : BOOLEAN, action : Action \cup {NoAction}]

(* Two calls are compared by id when either has one (snapshot.py).         *)
SameToolCall(left, right) ==
  IF left.id # NoId \/ right.id # NoId
    THEN left.id = right.id
    ELSE left.body = right.body

(* The first n calls of the message at k are answered right behind it.     *)
Answers(msgs, k, n) ==
  \A j \in 1..n :
    /\ k + j \in DOMAIN msgs
    /\ msgs[k + j].role = "tool"
    /\ SameToolCall(msgs[k + j].call, msgs[k].calls[j])

(* Every tool message falls within the calls of a message before it.       *)
NoStrayAnswers(msgs) ==
  \A m \in DOMAIN msgs : msgs[m].role = "tool" =>
    \E k \in 1..(m - 1) : m - k <= Len(msgs[k].calls)

(* A transcript a provider accepts: every call an assistant message makes  *)
(* is answered right behind it, and every tool message answers a call.     *)
WellAnswered(msgs) ==
  /\ \A k \in DOMAIN msgs : Answers(msgs, k, Len(msgs[k].calls))
  /\ NoStrayAnswers(msgs)

ASSUME CallAssumption ==
  /\ NoId \notin CallIds
  /\ NoCall \notin ToolCall
  /\ NoBatch \notin Batch
  /\ NoAction \notin Action

ASSUME InputAssumption ==
  /\ Batches \subseteq Seq(ToolCall)
  /\ Transcripts \subseteq Seq(Message)
  /\ InitialMessages \in Seq(Message)
  /\ \A i \in DOMAIN InitialMessages : InitialMessages[i].role = "system"
  /\ MaxMessages \in Nat

(* What resume, compaction and the other history commands hand over is     *)
(* answered; the session's modules are where that is checked.              *)
ASSUME TranscriptAssumption == \A msgs \in Transcripts : WellAnswered(msgs)

VARIABLES
  state,      \* RuntimeData.state
  messages,   \* RuntimeData.messages
  pending,    \* RuntimeData.pending_tool, set and cleared with pending_permission
  current,    \* RuntimeData.current_tool
  batch,      \* RuntimeData.tool_batch
  streaming,  \* whether streaming_content or streaming_reasoning is non-empty
  plan        \* the action plan of the last committed decision

mvars == <<state, messages, pending, current, batch, streaming, plan>>

-----------------------------------------------------------------------------
(* The messages the handlers append.                                       *)

UserMessage == [role |-> "user", calls |-> <<>>, call |-> NoCall, outcome |-> "said"]
AssistantMessage(calls, outcome) ==
  [role |-> "assistant", calls |-> calls, call |-> NoCall, outcome |-> outcome]
ToolMessage(call, outcome) ==
  [role |-> "tool", calls |-> <<>>, call |-> call, outcome |-> outcome]

(* The queue view of a snapshot: the next call and what remains.           *)
HasNext == batch # NoBatch /\ batch.index < Len(batch.calls)
NextCall == batch.calls[batch.index + 1]
Remaining == IF HasNext THEN SubSeq(batch.calls, batch.index + 1, Len(batch.calls)) ELSE <<>>

Schedule(kind, call) == plan' = [clear |-> FALSE, action |-> [kind |-> kind, call |-> call]]
ScheduleNothing == plan' = [clear |-> FALSE, action |-> NoAction]
ClearQueue == plan' = [clear |-> TRUE, action |-> NoAction]

(* Mutant: the index stays where it is.                                    *)
ForgetToAdvanceBatch == UNCHANGED batch

AdvanceBatch == batch' = [batch EXCEPT !.index = @ + 1]

-----------------------------------------------------------------------------
(* One action per row of the transition registry.                          *)

EngineReady ==
  /\ state = "Initializing"
  /\ state' = "Idle"
  /\ ScheduleNothing
  /\ UNCHANGED <<messages, pending, current, batch, streaming>>

UserMessageSubmitted ==
  /\ state = "Idle"
  /\ Len(messages) < MaxMessages
  /\ state' = "WaitingLLM"
  /\ messages' = Append(messages, UserMessage)
  /\ streaming' = FALSE
  /\ Schedule("CallModel", NoCall)
  /\ UNCHANGED <<pending, current, batch>>

AssistantMessageReceived ==
  /\ state = "WaitingLLM"
  /\ state' = "Idle"
  /\ messages' = Append(messages, AssistantMessage(<<>>, "said"))
  /\ streaming' = FALSE
  /\ ScheduleNothing
  /\ UNCHANGED <<pending, current, batch>>

ToolBatchReceived(calls) ==
  /\ state = "WaitingLLM"
  /\ calls # <<>>
  /\ state' = "AdvancingQueue"
  /\ messages' = Append(messages, AssistantMessage(calls, "said"))
  /\ batch' = [calls |-> calls, index |-> 0]
  /\ streaming' = FALSE
  /\ Schedule("CheckToolQueue", NoCall)
  /\ UNCHANGED <<pending, current>>

(* ApprovalGranted and ApprovalAlwaysGranted share one handler.            *)
ApprovalGranted(call) ==
  /\ state = "WaitingApproval"
  /\ pending # NoCall
  /\ SameToolCall(call, pending)
  /\ state' = "RunningTool"
  /\ current' = call
  /\ pending' = NoCall
  /\ Schedule("RunTool", call)
  /\ UNCHANGED <<messages, batch, streaming>>

(* Mutant: the denial consumes a batch entry again.                        *)
ApprovalDeniedAdvances(call) ==
  /\ state = "WaitingApproval"
  /\ pending # NoCall
  /\ SameToolCall(call, pending)
  /\ state' = "AdvancingQueue"
  /\ pending' = NoCall
  /\ AdvanceBatch
  /\ messages' = Append(messages, ToolMessage(call, "denied"))
  /\ streaming' = FALSE
  /\ Schedule("CheckToolQueue", NoCall)
  /\ UNCHANGED current

ApprovalDenied(call) ==
  /\ state = "WaitingApproval"
  /\ pending # NoCall
  /\ SameToolCall(call, pending)
  /\ state' = "AdvancingQueue"
  /\ pending' = NoCall
  /\ messages' = Append(messages, ToolMessage(call, "denied"))
  /\ streaming' = FALSE
  /\ Schedule("CheckToolQueue", NoCall)
  /\ UNCHANGED <<current, batch>>

ToolResultReceived(call) ==
  /\ state = "RunningTool"
  /\ current # NoCall
  /\ SameToolCall(call, current)
  /\ state' = "AdvancingQueue"
  /\ messages' = Append(messages, ToolMessage(call, "result"))
  /\ current' = NoCall
  /\ streaming' = FALSE
  /\ Schedule("CheckToolQueue", NoCall)
  /\ UNCHANGED <<pending, batch>>

(* Mutant: the batch finishes whatever it has left.                        *)
ToolBatchFinishedEarly ==
  /\ state = "AdvancingQueue"
  /\ state' = "WaitingLLM"
  /\ batch' = NoBatch
  /\ Schedule("CallModel", NoCall)
  /\ UNCHANGED <<messages, pending, current, streaming>>

ToolBatchFinished ==
  /\ state = "AdvancingQueue"
  /\ batch # NoBatch /\ ~HasNext
  /\ state' = "WaitingLLM"
  /\ batch' = NoBatch
  /\ Schedule("CallModel", NoCall)
  /\ UNCHANGED <<messages, pending, current, streaming>>

ToolCallNeedsApproval(call) ==
  /\ state = "AdvancingQueue"
  /\ HasNext
  /\ SameToolCall(call, NextCall)
  /\ state' = "WaitingApproval"
  /\ pending' = call
  /\ AdvanceBatch
  /\ Schedule("AwaitApproval", call)
  /\ UNCHANGED <<messages, current, streaming>>

ToolCallReadyToRun(call) ==
  /\ state = "AdvancingQueue"
  /\ HasNext
  /\ SameToolCall(call, NextCall)
  /\ state' = "RunningTool"
  /\ AdvanceBatch
  /\ current' = call
  /\ Schedule("RunTool", call)
  /\ UNCHANGED <<messages, pending, streaming>>

ToolCallDenied(call) ==
  /\ state = "AdvancingQueue"
  /\ HasNext
  /\ SameToolCall(call, NextCall)
  /\ state' = "AdvancingQueue"
  /\ AdvanceBatch
  /\ messages' = Append(messages, ToolMessage(call, "denied"))
  /\ streaming' = FALSE
  /\ Schedule("CheckToolQueue", NoCall)
  /\ UNCHANGED <<pending, current>>

-----------------------------------------------------------------------------
(* The events every state accepts.                                         *)

(* FlushStreamingAssistant(interrupted=True).                              *)
Flushed == IF streaming THEN <<AssistantMessage(<<>>, "interrupted")>> ELSE <<>>

(* Mutants: the running call is forgotten; the rest of the batch is.       *)
ForgetRunningCall ==
  (IF pending # NoCall THEN <<ToolMessage(pending, "skipped")>> ELSE <<>>)
    \o [j \in 1..Len(Remaining) |-> ToolMessage(Remaining[j], "skipped")]
ForgetRemainingCalls ==
  (IF pending # NoCall THEN <<ToolMessage(pending, "skipped")>> ELSE <<>>)
    \o (IF current # NoCall THEN <<ToolMessage(current, "aborted")>> ELSE <<>>)

(* outstanding_tool_results: the pending call, the running one, the rest.  *)
OutstandingToolResults ==
  (IF pending # NoCall THEN <<ToolMessage(pending, "skipped")>> ELSE <<>>)
    \o (IF current # NoCall THEN <<ToolMessage(current, "aborted")>> ELSE <<>>)
    \o [j \in 1..Len(Remaining) |-> ToolMessage(Remaining[j], "skipped")]

Abandon ==
  /\ state' = "Idle"
  /\ messages' = messages \o Flushed \o OutstandingToolResults
  /\ pending' = NoCall
  /\ current' = NoCall
  /\ batch' = NoBatch
  /\ streaming' = FALSE
  /\ ClearQueue

ErrorOccurred == Abandon

CancelRequested == Abandon

(* system_messages: the system messages, in order.  A recursive function,   *)
(* and not SelectSeq, so that EngineProofs can reason about it.             *)
SystemMessages(msgs) ==
  LET kept[i \in 0..Len(msgs)] ==
        IF i = 0 THEN <<>>
        ELSE IF msgs[i].role = "system" THEN Append(kept[i - 1], msgs[i])
        ELSE kept[i - 1]
  IN kept[Len(msgs)]

ResetRequested ==
  /\ state' = "Idle"
  /\ messages' = SystemMessages(messages)
  /\ pending' = NoCall
  /\ current' = NoCall
  /\ batch' = NoBatch
  /\ streaming' = FALSE
  /\ ClearQueue

-----------------------------------------------------------------------------
(* The two commits the engine makes without an event.                      *)

(* _record_stream_chunk: the candidate keeps the state, so the validation  *)
(* rejects it, and the chunk is dropped, anywhere but in WaitingLLM.       *)
RecordStreamChunk ==
  /\ state = "WaitingLLM"
  /\ streaming' = TRUE
  /\ ScheduleNothing
  /\ UNCHANGED <<state, messages, pending, current, batch>>

(* replace_messages assigns the data directly and clears the queue.        *)
ReplaceMessages(msgs) ==
  /\ state' = "Idle"
  /\ messages' = msgs
  /\ pending' = NoCall
  /\ current' = NoCall
  /\ batch' = NoBatch
  /\ streaming' = FALSE
  /\ ClearQueue

MachineInit ==
  /\ state = "Initializing"
  /\ messages = InitialMessages
  /\ pending = NoCall
  /\ current = NoCall
  /\ batch = NoBatch
  /\ streaming = FALSE
  /\ plan = [clear |-> FALSE, action |-> NoAction]

CallEvent(call) ==
  \/ ApprovalGranted(call)
  \/ ApprovalDenied(call)
  \/ ToolResultReceived(call)
  \/ ToolCallNeedsApproval(call)
  \/ ToolCallReadyToRun(call)
  \/ ToolCallDenied(call)

MachineNext ==
  \/ EngineReady
  \/ UserMessageSubmitted
  \/ AssistantMessageReceived
  \/ \E calls \in Batches : Len(messages) < MaxMessages /\ ToolBatchReceived(calls)
  \/ \E call \in ToolCall : CallEvent(call)
  \/ ToolBatchFinished
  \/ ErrorOccurred
  \/ CancelRequested
  \/ ResetRequested
  \/ RecordStreamChunk
  \/ \E msgs \in Transcripts : ReplaceMessages(msgs)

MachineSpec == MachineInit /\ [][MachineNext]_mvars

-----------------------------------------------------------------------------
(* Every variable has its type, and the batch index stays in range.        *)
TypeOK ==
  /\ state \in States
  /\ messages \in Seq(Message)
  /\ pending \in ToolCall \cup {NoCall}
  /\ current \in ToolCall \cup {NoCall}
  /\ batch \in Batch \cup {NoBatch}
  /\ batch # NoBatch => batch.index <= Len(batch.calls)
  /\ streaming \in BOOLEAN
  /\ plan \in Plan

(* The call is the batch entry the index has just consumed.                *)
PreviousCallMatches(call) ==
  /\ batch # NoBatch
  /\ call # NoCall
  /\ batch.index \in 1..Len(batch.calls)
  /\ SameToolCall(batch.calls[batch.index], call)

(* validate_runtime_data accepts every committed state, so no candidate a  *)
(* handler builds is ever discarded: which slots are filled follows from   *)
(* the state, and the filled one is the call the batch has just given out. *)
ValidRuntimeData ==
  /\ streaming => state = "WaitingLLM"
  /\ pending # NoCall <=> state = "WaitingApproval"
  /\ current # NoCall <=> state = "RunningTool"
  /\ batch # NoBatch <=> state \in {"AdvancingQueue", "WaitingApproval", "RunningTool"}
  /\ state = "WaitingApproval" => PreviousCallMatches(pending)
  /\ state = "RunningTool" => PreviousCallMatches(current)

(* How many calls of the open batch the transcript answers so far, and     *)
(* where the assistant message that made them is.                          *)
AnsweredCalls == IF pending # NoCall \/ current # NoCall THEN batch.index - 1 ELSE batch.index
BatchAt == Len(messages) - AnsweredCalls

BatchAnchored ==
  batch # NoBatch =>
    /\ BatchAt \in DOMAIN messages
    /\ messages[BatchAt].calls = batch.calls

CallsAnswered ==
  \A k \in DOMAIN messages :
    Answers(messages, k, IF batch # NoBatch /\ k = BatchAt
                           THEN AnsweredCalls ELSE Len(messages[k].calls))

(* The transcript and the open batch agree at every step: the batch's      *)
(* message is the last assistant message, its answers so far follow it in  *)
(* order with nothing between, every earlier call has its answer, and no   *)
(* answer stands alone.                                                    *)
(* (outstanding_tool_results: an unanswered call makes the provider reject *)
(* the transcript, on every later request and after a resume.)             *)
TranscriptMatchesBatch == BatchAnchored /\ CallsAnswered /\ NoStrayAnswers(messages)

(* Between turns, however the last one ended, every tool call the model    *)
(* asked for has its answer directly behind it, and no answer is left over.*)
AnsweredWhenIdle == state = "Idle" => WellAnswered(messages)

(* A model request is only ever scheduled for an answered transcript.      *)
ModelSeesAnsweredTranscript == state = "WaitingLLM" => WellAnswered(messages)

(* What is committed is data validate_runtime_data accepts, agrees with    *)
(* the open batch, and owes no answer between turns or to a request.       *)
TranscriptIsSound ==
  /\ ValidRuntimeData
  /\ TranscriptMatchesBatch
  /\ AnsweredWhenIdle
  /\ ModelSeesAnsweredTranscript

=============================================================================
