---------------------------- MODULE TerminalTurn ----------------------------
(***************************************************************************)
(* One terminal around one conversation: the read loop (tui/terminal.py),  *)
(* the update function it feeds (tui/update.py, tui/approval/model.py),    *)
(* the channels and the cancellation a turn is given (tui/conversation.py) *)
(* and the adapter that runs the turn and bridges it (app/tui_adapter.py). *)
(*                                                                         *)
(* Everything runs on one event loop.  The loop of the terminal gives way  *)
(* where it awaits: an answer, a line, a message, or one bare sleep(0).    *)
(* The turn itself is reduced to what it shows (Session.tla has it in      *)
(* full): it asks for decisions one after another and ends idle.           *)
(***************************************************************************)
EXTENDS Integers, Sequences

CONSTANTS
  Live,           \* whether keys are read one by one, with messages between them
  HooksFail,      \* whether a lifecycle hook may fail
  MaxTurns,       \* bound: prompts submitted
  MaxCalls,       \* bound: calls a decision is asked for, over all turns
  MaxInterrupts   \* bound: presses of Ctrl+C

TerminalTurnAssumption ==
  /\ Live \in BOOLEAN /\ HooksFail \in BOOLEAN
  /\ MaxTurns \in Nat /\ MaxCalls \in Nat /\ MaxInterrupts \in Nat

NoCall == 0

VARIABLES
  mode,         \* where the read loop is
  inbox,        \* TerminalApplication._messages
  turn,         \* App.turn, the number of the latest turn
  cancellation, \* App.cancellation: none, or a turn under way and whether it is cancelled
  menu,         \* App.approval: the call it shows (NoCall when closed), and the latch
  listening,    \* whether a listener task waits on the channel of the turn
  channel,      \* the notifications channel of the turn
  approvals,    \* the approvals channel of the turn: the call each decision was given for
  stage,        \* where the adapter's run_turn is
  held,         \* the call the runtime holds until it has a decision
  produced,     \* what the runtime has queued for the bridge
  calls,        \* calls asked about so far
  presses       \* presses of Ctrl+C so far

terminal == <<mode, inbox, turn, cancellation, menu, listening>>
runtime == <<channel, approvals, stage, held, produced, calls>>
vars == <<terminal, runtime, presses>>

-----------------------------------------------------------------------------
(* Messages and notifications.                                             *)

Key(at) == [kind |-> "ctrl+c", at |-> at]   \* pressed during turn `at', 0 when idle
QuitMsg == [kind |-> "quit"]
SubmitDone == [kind |-> "SubmitDone"]
Notification(n, t) == [kind |-> "notification", body |-> n, turn |-> t]

Status(waits) == [kind |-> "AgentStatusChanged", waits |-> waits]
Requested(c) == [kind |-> "ToolApprovalRequested", call |-> c]
Cleared == [kind |-> "ToolApprovalCleared"]
Error == [kind |-> "ConversationError"]

-----------------------------------------------------------------------------
(* The approval menu.                                                      *)

Closed == [call |-> NoCall, submitted |-> FALSE]
Active == menu.call # NoCall

(* Mutant: the latch is not looked at, so an answered menu asks again.     *)
MustAskUnlatched == Active

MustAsk == Active /\ ~menu.submitted

(* What a notification does to the menu.                                   *)
Shows(n) ==
  CASE n.kind = "ToolApprovalRequested" -> [call |-> n.call, submitted |-> FALSE]
    [] n.kind = "AgentStatusChanged" /\ ~n.waits -> Closed
    [] n.kind = "ToolApprovalCleared" -> Closed
    [] OTHER -> menu

-----------------------------------------------------------------------------
(* The turn, as the adapter runs it.                                       *)

Init ==
  /\ mode = "loop" /\ inbox = <<>> /\ turn = 0
  /\ cancellation = "none" /\ menu = Closed /\ listening = FALSE
  /\ channel = [items |-> <<>>, closed |-> TRUE] /\ approvals = <<>>
  /\ stage = "none" /\ held = NoCall /\ produced = <<>> /\ calls = 0
  /\ presses = 0

(* Channel.put: a send after the close is dropped.                         *)
Sent(n) == IF channel.closed THEN channel ELSE [channel EXCEPT !.items = Append(@, n)]

CtxCancelled == cancellation = "cancelled"

(* The before_turn hook, and the way out when it fails.                    *)
BeforeTurn ==
  /\ stage = "starting"
  /\ \/ /\ stage' = "running"
        /\ UNCHANGED <<channel, inbox>>
     \/ /\ HooksFail
        /\ channel' = [channel EXCEPT !.closed = TRUE]
        /\ stage' = "over"
        /\ inbox' = Append(inbox, SubmitDone)
  /\ UNCHANGED <<mode, turn, cancellation, menu, listening, approvals, held, produced, calls,
                 presses>>

(* Session.run_turn stops at a call and announces it.                      *)
(* Mutant: the call announced is not the one that is held.                 *)
HoldCallUnnumbered ==
  /\ stage = "running" /\ calls < MaxCalls
  /\ calls' = calls + 1 /\ held' = calls + 1
  /\ stage' = "waiting"
  /\ produced' = produced \o <<Status(TRUE), Requested(MaxCalls + calls + 1)>>
  /\ UNCHANGED <<terminal, channel, approvals, presses>>

HoldCall ==
  /\ stage = "running" /\ calls < MaxCalls
  /\ calls' = calls + 1 /\ held' = calls + 1
  /\ stage' = "waiting"
  /\ produced' = produced \o <<Status(TRUE), Requested(calls + 1)>>
  /\ UNCHANGED <<terminal, channel, approvals, presses>>

(* waitApproval takes a decision, even when the run is cancelled as well.  *)
TakeDecision ==
  /\ stage = "waiting" /\ approvals # <<>>
  /\ approvals' = Tail(approvals)
  /\ held' = NoCall /\ stage' = "running"
  /\ produced' = produced \o <<Status(FALSE), Cleared>>
  /\ UNCHANGED <<terminal, channel, calls, presses>>

(* The turn ends, on its own, with an error, or because it is cancelled.   *)
(* It may notice a cancellation late; a held call does not end by itself.  *)
EndTurn ==
  /\ \/ stage = "running"
     \/ stage = "waiting" /\ CtxCancelled /\ approvals = <<>>
  /\ stage' = "draining" /\ held' = NoCall
  /\ \/ produced' = produced \o <<Status(FALSE), Cleared>>
     \/ produced' = produced \o <<Error, Status(FALSE), Cleared>>
  /\ UNCHANGED <<terminal, channel, approvals, calls, presses>>

(* _bridgeNotifications: one notification, after its hook.                 *)
Bridge ==
  /\ produced # <<>>
  /\ produced' = Tail(produced)
  /\ \/ channel' = Sent(Head(produced))
     \/ /\ HooksFail /\ Head(produced).kind = "ToolApprovalRequested"
        /\ channel' = [channel EXCEPT !.items = @ \o <<Error, Head(produced)>>]
  /\ UNCHANGED <<terminal, approvals, stage, held, calls, presses>>

(* The bridge stops once the turn is over and its queue is drained.        *)
(* Mutant: it stops as soon as the turn is over.                           *)
DrainedAtOnce == stage = "draining"

Drained == stage = "draining" /\ produced = <<>>

CloseChannel ==
  /\ Drained
  /\ channel' = [channel EXCEPT !.closed = TRUE]
  /\ stage' = "closed"
  /\ UNCHANGED <<terminal, approvals, held, produced, calls, presses>>

(* The hooks after the turn, whose failures are joined to its error.       *)
ReportEnd ==
  /\ stage = "closed"
  /\ stage' = "over"
  /\ inbox' = Append(inbox, SubmitDone)
  /\ UNCHANGED <<mode, turn, cancellation, menu, listening, channel, approvals, held, produced,
                 calls, presses>>

-----------------------------------------------------------------------------
(* The listener task: one notification, or the end of the channel.         *)

ListenerRunnable == listening /\ (channel.items # <<>> \/ channel.closed)

Listen ==
  /\ ListenerRunnable /\ mode # "stopped"
  /\ listening' = FALSE
  /\ \/ /\ channel.items # <<>>
        /\ inbox' = Append(inbox, Notification(Head(channel.items), turn))
        /\ channel' = [channel EXCEPT !.items = Tail(@)]
     \/ /\ channel.items = <<>>
        /\ UNCHANGED <<inbox, channel>>
  /\ UNCHANGED <<mode, turn, cancellation, menu, approvals, stage, held, produced, calls, presses>>

-----------------------------------------------------------------------------
(* update: one message.                                                    *)

(* The two channels of a new turn are new.                                 *)
(* Mutant: the approvals channel of the turn before is kept.               *)
NewApprovalsKept == approvals

NewApprovals == <<>>

submitPrompt ==
  /\ turn' = turn + 1
  /\ cancellation' = "running" /\ menu' = Closed /\ listening' = TRUE
  /\ channel' = [items |-> <<>>, closed |-> FALSE]
  /\ approvals' = NewApprovals
  /\ stage' = "starting"

(* A notification is applied and the listener armed again; one of an       *)
(* earlier turn is dropped.                                                *)
(* Mutant: an error is the last notification listened for.                 *)
UpdateNotificationUntilError(m) ==
  /\ m.kind = "notification"
  /\ menu' = IF m.turn = turn THEN Shows(m.body) ELSE menu
  /\ listening' = (m.body # Error)
  /\ UNCHANGED <<turn, cancellation, runtime>>

UpdateNotification(m) ==
  /\ m.kind = "notification"
  /\ menu' = IF m.turn = turn THEN Shows(m.body) ELSE menu
  /\ listening' = TRUE
  /\ UNCHANGED <<turn, cancellation, runtime>>

finishSubmit(m) ==
  /\ m.kind = "SubmitDone"
  /\ cancellation' = "none"
  /\ UNCHANGED <<turn, menu, listening, runtime>>

(* cancelRun: with the menu open the session is told as well, and says so. *)
cancelRun(m) ==
  /\ m.kind = "ctrl+c" /\ (Active \/ cancellation # "none")
  /\ cancellation' = IF cancellation = "none" THEN "none" ELSE "cancelled"
  /\ produced' = IF Active /\ stage \in {"running", "waiting"}
                 THEN produced \o <<Status(FALSE), Cleared>> ELSE produced
  /\ UNCHANGED <<turn, menu, listening, channel, approvals, stage, held, calls>>

(* Idle, the key spawns the QUIT command, whose message comes next.        *)
QuitKey(m) ==
  /\ m.kind = "ctrl+c" /\ ~Active /\ cancellation = "none"
  /\ UNCHANGED <<turn, cancellation, menu, listening, runtime>>

update(m) ==
  \/ UpdateNotification(m)
  \/ finishSubmit(m)
  \/ cancelRun(m)
  \/ QuitKey(m)

(* _dispatch in mode `then', or the stop a QuitMsg asks for.               *)
Dispatch(then) ==
  /\ inbox # <<>>
  /\ LET m == Head(inbox)
     IN  \/ /\ m.kind = "quit" /\ mode' = "stopped" /\ inbox' = Tail(inbox)
            /\ UNCHANGED <<turn, cancellation, menu, listening, runtime>>
         \/ /\ m.kind # "quit" /\ mode' = then
            /\ inbox' = IF m.kind = "ctrl+c" /\ ~Active /\ cancellation = "none"
                        THEN Append(Tail(inbox), QuitMsg) ELSE Tail(inbox)
            /\ update(m)
  /\ UNCHANGED presses

-----------------------------------------------------------------------------
(* The read loop.                                                          *)

AskApproval ==
  /\ mode = "loop" /\ MustAsk
  /\ mode' = "approval"
  /\ UNCHANGED <<inbox, turn, cancellation, menu, listening, runtime, presses>>

(* An answer, or the end of the input, which denies.                       *)
Answer ==
  /\ mode = "approval"
  /\ mode' = "loop"
  /\ menu' = [menu EXCEPT !.submitted = TRUE]
  /\ approvals' = Append(approvals, menu.call)
  /\ UNCHANGED <<inbox, turn, cancellation, listening, channel, stage, held, produced, calls,
                 presses>>

(* Anything else is asked for again.                                       *)
AnswerIgnored ==
  /\ mode = "approval"
  /\ mode' = "loop"
  /\ UNCHANGED <<inbox, turn, cancellation, menu, listening, runtime, presses>>

DispatchNext == mode = "loop" /\ ~MustAsk /\ Dispatch("loop")

(* Idle with nothing to do: give way once before the prompt.               *)
Yield ==
  /\ mode = "loop" /\ ~MustAsk /\ inbox = <<>> /\ cancellation = "none"
  /\ mode' = "yielded"
  /\ UNCHANGED <<inbox, turn, cancellation, menu, listening, runtime, presses>>

(* sleep(0) returns after every task that was ready has run.               *)
(* Mutant: it is dropped.                                                  *)
OthersHaveRunAlready == TRUE

OthersHaveRun == ~ListenerRunnable

Recheck ==
  /\ mode = "yielded" /\ OthersHaveRun
  /\ mode' = IF inbox = <<>> THEN "prompt" ELSE "loop"
  /\ UNCHANGED <<inbox, turn, cancellation, menu, listening, runtime, presses>>

(* The user submits a line, leaves an empty one, or ends the input.        *)
Submit ==
  /\ mode = "prompt" /\ turn < MaxTurns
  /\ mode' = "loop"
  /\ submitPrompt
  /\ UNCHANGED <<inbox, held, produced, calls, presses>>

EmptyLine ==
  /\ mode = "prompt" /\ ~Live
  /\ mode' = "loop"
  /\ UNCHANGED <<inbox, turn, cancellation, menu, listening, runtime, presses>>

EndOfInput ==
  /\ mode = "prompt"
  /\ mode' = "stopped"
  /\ UNCHANGED <<inbox, turn, cancellation, menu, listening, runtime, presses>>

(* The live prompt dispatches messages between two keys.                   *)
DispatchAtPrompt == mode = "prompt" /\ Live /\ Dispatch("prompt")

(* SIGINT only queues a key.                                               *)
Interrupt ==
  /\ mode # "stopped" /\ presses < MaxInterrupts
  /\ presses' = presses + 1
  /\ inbox' = Append(inbox, Key(IF cancellation = "none" THEN 0 ELSE turn))
  /\ UNCHANGED <<mode, turn, cancellation, menu, listening, runtime>>

(* _close cancels what is left; nothing happens after it.                  *)
Stopped == mode = "stopped" /\ UNCHANGED vars

Runtime == BeforeTurn \/ HoldCall \/ TakeDecision \/ EndTurn \/ Bridge \/ CloseChannel \/ ReportEnd
User == Answer \/ AnswerIgnored \/ Submit \/ EmptyLine \/ EndOfInput \/ Interrupt
Loop == AskApproval \/ DispatchNext \/ Yield \/ Recheck \/ DispatchAtPrompt

Next ==
  \/ mode # "stopped" /\ Runtime
  \/ Listen \/ Loop \/ User
  \/ Stopped

Spec == Init /\ [][Next]_vars

(* The event loop runs every task that is ready, the model answers, the    *)
(* hooks return.  Nothing is assumed of the user.                          *)
TurnTask == mode # "stopped" /\ (BeforeTurn \/ TakeDecision \/ EndTurn)
BridgeTask == mode # "stopped" /\ Bridge
ClosingTask == mode # "stopped" /\ (CloseChannel \/ ReportEnd)

LoopFairness ==
  /\ WF_vars(TurnTask) /\ WF_vars(BridgeTask) /\ WF_vars(ClosingTask)
  /\ WF_vars(Listen) /\ WF_vars(Loop)

FairSpec == Spec /\ LoopFairness

(* A user who, asked often enough, answers.                                *)
AnsweringSpec == FairSpec /\ SF_vars(Answer)

-----------------------------------------------------------------------------
(* Properties.                                                             *)

Notifications == {Status(TRUE), Status(FALSE), Cleared, Error}
                 \cup {Requested(c) : c \in 1..MaxCalls}

TypeOK ==
  /\ mode \in {"loop", "approval", "yielded", "prompt", "stopped"}
  /\ \A i \in DOMAIN inbox :
       inbox[i].kind \in {"ctrl+c", "quit", "SubmitDone", "notification"}
  /\ turn \in 0..MaxTurns
  /\ cancellation \in {"none", "running", "cancelled"}
  /\ menu \in [call : 0..MaxCalls, submitted : BOOLEAN]
  /\ listening \in BOOLEAN
  /\ channel.closed \in BOOLEAN /\ channel.items \in Seq(Notifications)
  /\ approvals \in Seq(1..MaxCalls)
  /\ stage \in {"none", "starting", "running", "waiting", "draining", "closed", "over"}
  /\ held \in 0..MaxCalls /\ calls \in 0..MaxCalls
  /\ produced \in Seq(Notifications)
  /\ presses \in 0..MaxInterrupts

(* A decision is taken for the call the user was shown when giving it:     *)
(* neither a second answer to one menu nor the answer to a call that died  *)
(* with its turn reaches a later call (update.submitPrompt's fresh         *)
(* channels, the latch of approval.Model).                                 *)
DecisionIsForItsCall ==
  stage = "waiting" /\ approvals # <<>> => Head(approvals) = held

(* When the terminal blocks on a prompt, the last turn is over and all it  *)
(* said has been shown: no message waits in its channel or its bridge, and *)
(* no menu is open (run_terminal's re-check after the sleep).              *)
PromptIsLast ==
  mode = "prompt" =>
    /\ cancellation = "none" /\ stage \in {"none", "over"}
    /\ channel.items = <<>> /\ produced = <<>>
    /\ \A i \in DOMAIN inbox : inbox[i].kind # "notification"
    /\ menu = Closed

InTurn == cancellation # "none"
Returned == cancellation = "none" /\ mode \in {"prompt", "stopped"}

(* Every submitted prompt comes back to a prompt, or the terminal stops,   *)
(* when the user answers what is asked: whatever the hooks do, whenever    *)
(* the turn is cancelled.                                                  *)
EveryTurnReturns == InTurn ~> Returned

(* "The runtime is holding a tool call until the user decides."            *)
(* (tui/conversation.py:168, of the notification that opens the menu)      *)
AskedCallIsHeld == mode = "approval" => held = menu.call

(* "`Ctrl+C` cancels an active turn and exits when idle."                  *)
(* (docs/terminal.md:24): pressed during a turn, the turn comes to its     *)
(* end.                                                                    *)
PressedDuringTurn == cancellation = "running" /\ \E i \in DOMAIN inbox : inbox[i] = Key(turn)

CtrlCCancels == PressedDuringTurn ~> (cancellation # "running")

(* ... and pressed at the prompt it does not cancel a turn that the user   *)
(* submits afterwards.                                                     *)
IdlePressExits ==
  [][cancellation = "running" /\ cancellation' = "cancelled" => Head(inbox).at # 0]_vars

=============================================================================
