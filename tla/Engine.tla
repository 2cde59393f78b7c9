------------------------------- MODULE Engine -------------------------------
(***************************************************************************)
(* The engine (runtime/engine) around the state machine of AgentMachine:   *)
(* the action queue, the run controller, the agent loop, and the commands  *)
(* that reach into a running turn.                                         *)
(*                                                                         *)
(* The engine runs on one asyncio event loop, so a step here is what runs  *)
(* between two awaits that can suspend.  The state lock is never held      *)
(* across one, and is therefore not modelled.  A task suspends             *)
(*   - in the state observer, after every commit ("notify"): it publishes  *)
(*     a snapshot into a bounded queue and waits while the queue is full;  *)
(*   - in the model, in a tool and in the approval waiter ("running").     *)
(* CheckToolQueue never suspends: the loop pops it, classifies the next    *)
(* call and commits without giving way.                                    *)
(***************************************************************************)
EXTENDS AgentMachine, FiniteSets

CONSTANTS
  Turn,      \* the task that runs the user's turns, one after the other
  Commands,  \* the tasks that cancel and reset while a turn runs
  MaxRuns    \* bound: no new turn or command once runId has reached it

Tasks == {Turn} \cup Commands

NoRun == 0

QueuedAction == [action : Action, run : Nat]

ASSUME EngineAssumption ==
  /\ Turn \notin Commands
  /\ MaxRuns \in Nat
  /\ NoAction \notin QueuedAction

VARIABLES
  queue,           \* ActionQueue: the actions scheduled and not yet popped
  runId,           \* RunController._run_id, as the number of the run
  context,         \* RunController._context, named by its run, or NoRun
  turnContext,     \* the run whose context the current turn was given
  parentCancelled, \* whether the caller cancelled the context of the turn
  pc,              \* where each task is suspended
  action,          \* the queued action each running task executes
  loopRun,         \* run_id in _run_scheduled_actions, NoRun before it is read
  failing          \* whether the task is on its way out with an exception

runvars == <<runId, context>>
turnvars == <<turnContext, parentCancelled>>
evars == <<mvars, queue, runId, context, turnContext, parentCancelled, pc, action, loopRun, failing>>

-----------------------------------------------------------------------------
(* The run controller.                                                     *)

(* Mutant: the run starts without publishing its context.                  *)
StartRunWithoutContext == runId' = runId + 1 /\ UNCHANGED context

StartRun == runId' = runId + 1 /\ context' = runId + 1

(* Mutant: the context is cancelled and the run stays current.             *)
CancelContextOnly == UNCHANGED runId /\ context' = NoRun

CancelRun == runId' = runId + 1 /\ context' = NoRun

(* cancel_run, then invalidate_current_run.                                *)
CancelAndInvalidateRun == runId' = runId + 2 /\ context' = NoRun

FinishRun(run) ==
  /\ context' = IF run = runId THEN NoRun ELSE context
  /\ UNCHANGED runId

IsCurrent(run) == run = runId

(* Mutant: the run's context does not follow cancel_run.                   *)
CancelledByCallerOnly(t) == t = Turn /\ parentCancelled

(* Only a turn is given a context that somebody cancels.                   *)
ContextCancelled(t) == t = Turn /\ (parentCancelled \/ context # turnContext)

-----------------------------------------------------------------------------
(* Mutant: the queue is not cleared.                                       *)
CommitWithoutClear(rest) ==
  queue' = rest \o (IF plan'.action = NoAction THEN <<>>
                    ELSE << [action |-> plan'.action, run |-> runId'] >>)

(* Committing a decision: the data is already primed by the machine, and   *)
(* the queue follows its plan, stamped with the run that is current.       *)
Commit(rest) ==
  queue' = (IF plan'.clear THEN <<>> ELSE rest)
             \o (IF plan'.action = NoAction THEN <<>>
                 ELSE << [action |-> plan'.action, run |-> runId'] >>)

(* The observer is installed for as long as the session runs a turn.       *)
ObserverInstalled == pc[Turn] # "idle"

(* What a finished action tells the machine (ActionResultResolver).        *)
ModelReplied ==
  \/ AssistantMessageReceived
  \/ \E calls \in Batches : Len(messages) < MaxMessages /\ ToolBatchReceived(calls)

ToolQueueChecked ==
  \/ ToolBatchFinished
  \/ HasNext /\ ToolCallNeedsApproval(NextCall)
  \/ HasNext /\ ToolCallReadyToRun(NextCall)
  \/ HasNext /\ ToolCallDenied(NextCall)

ApprovalReceived(call) == ApprovalGranted(call) \/ ApprovalDenied(call)

Result(act) ==
  \/ act.kind = "CallModel" /\ ModelReplied
  \/ act.kind = "RunTool" /\ ToolResultReceived(act.call)
  \/ act.kind = "AwaitApproval" /\ ApprovalReceived(act.call)
  \/ act.kind = "CheckToolQueue" /\ ToolQueueChecked

(* Mutant: the data is committed and the plan is not.                      *)
CompletedWithoutPlan(entry, rest) ==
  IF IsCurrent(entry.run)
    THEN Result(entry.action) /\ queue' = rest
    ELSE queue' = rest /\ UNCHANGED mvars

(* A completion is applied while its run is current and dropped after that.*)
Completed(entry, rest) ==
  IF IsCurrent(entry.run)
    THEN Result(entry.action) /\ Commit(rest)
    ELSE queue' = rest /\ UNCHANGED mvars

-----------------------------------------------------------------------------
(* The turn.                                                               *)

(* run_turn up to its first suspension.  The session runs one turn at a    *)
(* time.  A command still in the observer of the last turn is done before  *)
(* the next one starts: its queue is drained before the turn returns.      *)
RunTurn ==
  /\ \A t \in Tasks : pc[t] = "idle"
  /\ runId < MaxRuns
  /\ UserMessageSubmitted
  /\ StartRun
  /\ turnContext' = runId + 1
  /\ parentCancelled' = FALSE
  /\ Commit(queue)
  /\ pc' = [pc EXCEPT ![Turn] = "notify"]
  /\ loopRun' = [loopRun EXCEPT ![Turn] = NoRun]
  /\ failing' = [failing EXCEPT ![Turn] = FALSE]
  /\ UNCHANGED action

(* The caller cancels the context it passed in, and nothing else.          *)
CancelContext ==
  /\ pc[Turn] # "idle"
  /\ ~parentCancelled
  /\ parentCancelled' = TRUE
  /\ UNCHANGED <<mvars, queue, runvars, turnContext, pc, action, loopRun, failing>>

(* The session's last snapshot is out, and the observer is removed.        *)
EndTurn ==
  /\ pc[Turn] = "closing"
  /\ pc' = [pc EXCEPT ![Turn] = "idle"]
  /\ UNCHANGED <<mvars, queue, runvars, turnvars, action, loopRun, failing>>

-----------------------------------------------------------------------------
(* The loop, from the observer's return to the next suspension.            *)

LoopRun(t) == IF loopRun[t] = NoRun THEN runId ELSE loopRun[t]

AfterLoop(t) == IF t = Turn THEN "closing" ELSE "idle"

Finish(t) ==
  /\ pc[t] = "notify"
  /\ queue = <<>>
  /\ state = "Idle"
  /\ FinishRun(LoopRun(t))
  /\ pc' = [pc EXCEPT ![t] = AfterLoop(t)]
  /\ UNCHANGED <<mvars, queue, turnvars, action, loopRun, failing>>

TakeAction(t) ==
  /\ pc[t] = "notify"
  /\ queue # <<>>
  /\ Head(queue).action.kind # "CheckToolQueue"
  /\ queue' = Tail(queue)
  /\ action' = [action EXCEPT ![t] = Head(queue)]
  /\ loopRun' = [loopRun EXCEPT ![t] = LoopRun(t)]
  /\ pc' = [pc EXCEPT ![t] = "running"]
  /\ UNCHANGED <<mvars, runvars, turnvars, failing>>

CheckToolQueue(t) ==
  /\ pc[t] = "notify"
  /\ queue # <<>>
  /\ Head(queue).action.kind = "CheckToolQueue"
  /\ UNCHANGED runvars
  /\ Completed(Head(queue), Tail(queue))
  /\ loopRun' = [loopRun EXCEPT ![t] = LoopRun(t)]
  /\ UNCHANGED <<turnvars, pc, action, failing>>

(* The action ends with a result.                                          *)
Complete(t) ==
  /\ pc[t] = "running"
  /\ UNCHANGED runvars
  /\ Completed(action[t], queue)
  /\ pc' = [pc EXCEPT ![t] = "notify"]
  /\ action' = [action EXCEPT ![t] = NoAction]
  /\ UNCHANGED <<turnvars, loopRun, failing>>

(* Mutant: the exception does not leave the loop.                          *)
UnwindSilently(t) ==
  /\ pc' = [pc EXCEPT ![t] = "notify"]
  /\ action' = [action EXCEPT ![t] = NoAction]
  /\ loopRun' = [loopRun EXCEPT ![t] = NoRun]
  /\ UNCHANGED <<turnvars, failing>>

(* Both failures dispatch their event with everything suppressed, drain    *)
(* the queue once more and re-raise: the rest of the task's life.          *)
Unwind(t) ==
  /\ pc' = [pc EXCEPT ![t] = "notify"]
  /\ action' = [action EXCEPT ![t] = NoAction]
  /\ loopRun' = [loopRun EXCEPT ![t] = NoRun]
  /\ failing' = [failing EXCEPT ![t] = TRUE]
  /\ UNCHANGED turnvars

(* The action raises Cancelled, or the interface stops offering decisions. *)
Abort(t) ==
  /\ pc[t] = "running"
  /\ ContextCancelled(t) \/ action[t].action.kind = "AwaitApproval"
  /\ CancelRun
  /\ CancelRequested
  /\ Commit(queue)
  /\ Unwind(t)

(* Mutant: the exception is raised without its event.                      *)
FailWithoutEvent(t) ==
  /\ pc[t] = "running"
  /\ action[t].action.kind \in {"CallModel", "AwaitApproval"}
  /\ UNCHANGED <<mvars, queue, runvars>>
  /\ Unwind(t)

(* The action raises anything else.  A tool does not: what it raises is    *)
(* its result.                                                             *)
Fail(t) ==
  /\ pc[t] = "running"
  /\ action[t].action.kind \in {"CallModel", "AwaitApproval"}
  /\ UNCHANGED runvars
  /\ ErrorOccurred
  /\ Commit(queue)
  /\ Unwind(t)

(* The model streams into the conversation while its run is current.       *)
StreamChunk(t) ==
  /\ pc[t] = "running"
  /\ action[t].action.kind = "CallModel"
  /\ IsCurrent(action[t].run)
  /\ UNCHANGED runvars
  /\ RecordStreamChunk
  /\ Commit(queue)
  /\ UNCHANGED <<turnvars, pc, action, loopRun, failing>>

-----------------------------------------------------------------------------
(* The commands.  They suspend in the observer if there is one; with none, *)
(* their own drain of the queue is part of the step and finds it empty.    *)

AfterCommand(c) ==
  /\ pc' = [pc EXCEPT ![c] = IF ObserverInstalled THEN "notify" ELSE "idle"]
  /\ loopRun' = [loopRun EXCEPT ![c] = NoRun]
  /\ UNCHANGED <<turnvars, action, failing>>

Cancel(c) ==
  /\ pc[c] = "idle"
  /\ runId < MaxRuns
  /\ CancelRun
  /\ CancelRequested
  /\ Commit(queue)
  /\ AfterCommand(c)

Reset(c) ==
  /\ pc[c] = "idle"
  /\ runId < MaxRuns
  /\ CancelAndInvalidateRun
  /\ ResetRequested
  /\ Commit(queue)
  /\ AfterCommand(c)

Ready ==
  /\ EngineReady
  /\ Commit(queue)
  /\ UNCHANGED <<runvars, turnvars, pc, action, loopRun, failing>>

(* replace_messages: history commands and turns exclude each other.        *)
Replace(msgs) ==
  /\ pc[Turn] = "idle"
  /\ runId < MaxRuns
  /\ CancelAndInvalidateRun
  /\ ReplaceMessages(msgs)
  /\ Commit(queue)
  /\ UNCHANGED <<turnvars, pc, action, loopRun, failing>>

-----------------------------------------------------------------------------
EngineInit ==
  /\ MachineInit
  /\ queue = <<>>
  /\ runId = NoRun
  /\ context = NoRun
  /\ turnContext = NoRun
  /\ parentCancelled = FALSE
  /\ pc = [t \in Tasks |-> "idle"]
  /\ action = [t \in Tasks |-> NoAction]
  /\ loopRun = [t \in Tasks |-> NoRun]
  /\ failing = [t \in Tasks |-> FALSE]

LoopStep(t) == Finish(t) \/ TakeAction(t) \/ CheckToolQueue(t)

ActionEnds(t) == Complete(t) \/ Abort(t) \/ Fail(t)

EngineNext ==
  \/ Ready
  \/ RunTurn
  \/ CancelContext
  \/ EndTurn
  \/ \E t \in Tasks : LoopStep(t) \/ ActionEnds(t) \/ StreamChunk(t)
  \/ \E c \in Commands : Cancel(c) \/ Reset(c)
  \/ \E msgs \in Transcripts : Replace(msgs)

EngineSpec == EngineInit /\ [][EngineNext]_evars

(* The event loop resumes whatever can run.  A model call and a tool end;  *)
(* a user may leave an approval open for ever, but not once the context it *)
(* waits under is cancelled.                                               *)
MustEnd(t) ==
  pc[t] = "running" /\ (action[t].action.kind # "AwaitApproval" \/ ContextCancelled(t))

Fairness ==
  /\ WF_evars(EndTurn)
  /\ \A t \in Tasks :
       /\ WF_evars(LoopStep(t))
       /\ WF_evars(MustEnd(t) /\ ActionEnds(t))

FairEngineSpec == EngineSpec /\ Fairness

-----------------------------------------------------------------------------
(* Every engine variable has its type.                                     *)
EngineTypeOK ==
  /\ TypeOK
  /\ queue \in Seq(QueuedAction)
  /\ runId \in Nat /\ context \in Nat /\ turnContext \in Nat
  /\ parentCancelled \in BOOLEAN
  /\ pc \in [Tasks -> {"idle", "notify", "running", "closing"}]
  /\ action \in [Tasks -> QueuedAction \cup {NoAction}]
  /\ loopRun \in [Tasks -> Nat]
  /\ failing \in [Tasks -> BOOLEAN]

(* The queue never holds work of a run that is over: whatever retires a    *)
(* run empties the queue in the same step ("no window where the queue      *)
(* belongs to a state that no longer exists", docs/runtime.md).            *)
QueueIsCurrent == \A i \in DOMAIN queue : IsCurrent(queue[i].run)

(* The tasks executing an action whose completion would still be applied.  *)
LiveTasks == { t \in Tasks : pc[t] = "running" /\ IsCurrent(action[t].run) }

LiveActions ==
  { queue[i].action : i \in DOMAIN queue } \cup { action[t].action : t \in LiveTasks }

(* The action is the one the state is waiting for, and for the same call.  *)
Awaited(act) ==
  \/ act.kind = "CallModel" /\ state = "WaitingLLM"
  \/ act.kind = "CheckToolQueue" /\ state = "AdvancingQueue"
  \/ act.kind = "RunTool" /\ state = "RunningTool" /\ act.call = current
  \/ act.kind = "AwaitApproval" /\ state = "WaitingApproval" /\ act.call = pending

(* Exactly one action is pending or in flight in every active state, none  *)
(* in Idle, and it is the one the state awaits: so the machine accepts the *)
(* event every completion is turned into, whatever was cancelled or reset  *)
(* around it, and no state is left without work (docs/runtime.md).         *)
OneLiveAction ==
  /\ Len(queue) + Cardinality(LiveTasks) = IF state \in {"Initializing", "Idle"} THEN 0 ELSE 1
  /\ \A act \in LiveActions : Awaited(act)

(* A cancel always reaches the action it means to stop: what is in flight  *)
(* for the current run is executed by the turn, under the context that     *)
(* cancel_run would cancel.                                                *)
CancelReachesLiveAction ==
  \A t \in LiveTasks : t = Turn /\ turnContext = runId /\ context = runId

(* No loop, of the turn or of a command, ever finds the queue empty in an  *)
(* active state: the InvariantViolationError is never raised.              *)
LoopNeverStarves ==
  \A t \in Tasks : pc[t] = "notify" /\ queue = <<>> => state = "Idle"

(* A turn that returns without an error, and was not cancelled or reset    *)
(* meanwhile, ends with the model's answer.                                *)
SuccessIsAnAnswer ==
  pc[Turn] = "closing" /\ ~failing[Turn] /\ runId = turnContext =>
    /\ messages # <<>>
    /\ messages[Len(messages)].role = "assistant"
    /\ messages[Len(messages)].calls = <<>>
    /\ messages[Len(messages)].outcome = "said"

(* Once a command has retired its run, the turn comes to an end: its model *)
(* call or tool ends, the result is dropped, and the loop returns; a user  *)
(* who never answers an approval cannot keep it.                           *)
RetiredTurnEnds ==
  pc[Turn] # "idle" /\ context # turnContext ~> pc[Turn] = "idle"

(* Every turn ends, unless the user leaves it waiting for an approval.     *)
(* (That the model stops asking for tools is the bound MaxMessages.)       *)
TurnEndsOrAsks ==
  pc[Turn] # "idle" ~> pc[Turn] = "idle" \/ state = "WaitingApproval"

(* A turn comes to its end, one that was cancelled even from an approval.  *)
EveryTurnEnds == RetiredTurnEnds /\ TurnEndsOrAsks

(* What the documentation says of a cancelled context: the loop submits    *)
(* CancelRequested and returns (docs/runtime.md, "The loop ends in one of  *)
(* five ways").  So from then on the turn can only abandon the run.        *)
CancelledContextEndsRun ==
  [][ pc[Turn] # "idle" /\ parentCancelled /\ messages' # messages => plan'.clear ]_evars

=============================================================================
