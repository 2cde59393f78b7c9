------------------------------ MODULE Commands ------------------------------
(***************************************************************************)
(* The slash commands of the terminal: what each asks of the session       *)
(* (tui/commands/model.py through app/tui_adapter.py), how its outcome     *)
(* reaches what the interface shows (tui/__init__.py, tui/update.py,       *)
(* tui/attachments/model.py) and what a dispatch prints (tui/terminal.py). *)
(*                                                                         *)
(* A conversation is a version, a new one for every replacement; messages  *)
(* appended by a turn are in Transcript.tla, the commands' own work is in  *)
(* History.tla, Configuration.tla and McpManager.tla.  The memory's system *)
(* message is not part of what is shown; leaving is in TerminalTurn.tla.   *)
(***************************************************************************)
EXTENDS Integers, Sequences

CONSTANTS
  Live,         \* whether keys are read one by one, each read given up after 0.1 s
  Profiles,     \* the agent profiles, records of a mode and a model
  MaxCommands   \* bound: submissions

CommandsAssumption ==
  /\ Live \in BOOLEAN /\ MaxCommands \in Nat
  /\ Profiles # {} /\ \A p \in Profiles : DOMAIN p = {"mode", "model"}

Modes == {p.mode : p \in Profiles}

VARIABLES
  actual,       \* the session: its conversation, mode, model and staged attachments
  shown,        \* what the interface shows of them
  compacting, managingMCP,  \* the flags of the command feature
  background,   \* the operation that runs: "none", "compact", "mcp" or "attach"
  turn,         \* whether a turn runs
  inbox,        \* TerminalApplication._messages
  loop,         \* "free", or "reading" the key or line that may submit
  err, status,  \* App.err and App.status
  report,       \* of the last dispatch: what it printed, and whether it failed or refused
  commands      \* submissions so far

feature == <<compacting, managingMCP>>
vars == <<actual, shown, feature, background, turn, inbox, loop, err, status, report, commands>>

NoText == ""
Done(kind, e) == [kind |-> kind, err |-> e]

Init ==
  \E p \in Profiles :
    /\ actual = [conversation |-> 0, mode |-> p.mode, model |-> p.model, attachments |-> 0]
    /\ shown = actual
    /\ compacting = FALSE /\ managingMCP = FALSE /\ background = "none"
    /\ turn = FALSE /\ inbox = <<>> /\ loop = "free"
    /\ err = NoText /\ status = NoText /\ commands = 0
    /\ report = [printed |-> NoText, failed |-> FALSE, refused |-> FALSE]

-----------------------------------------------------------------------------
(* Outcomes.                                                               *)

\* Every dispatch ends in a rendering, so the last error and the last status
\* printed are those of the state before it.
Rendered(e, s) ==
  IF e # NoText /\ e # err THEN e
  ELSE IF s # NoText /\ s # status THEN s ELSE NoText

Show(e, s, failed, refused) ==
  /\ err' = e /\ status' = s
  /\ report' = [printed |-> Rendered(e, s), failed |-> failed, refused |-> refused]

\* An error leaves the status; a success clears the error.
Succeed(s) == Show(NoText, IF s = NoText THEN status ELSE s, FALSE, FALSE)
Fail(e) == Show(e, status, TRUE, FALSE)

\* Mutant: a refresh re-reads the conversation of the interface.
RefreshedFromShown(session) == shown

\* The transcript is read again.
Refreshed(session) == [shown EXCEPT !.conversation = session.conversation]

\* Mutant: the status bar takes the name of the model for the mode.
StatusBarSwapped(view, mode) == [view EXCEPT !.mode = view.model]

StatusBar(view, mode) == [view EXCEPT !.mode = mode]

-----------------------------------------------------------------------------
(* Reading.  A message is dispatched before the next read begins; what     *)
(* arrives during a read waits for its end.                                *)

BeginRead ==
  /\ loop = "free" /\ ~turn /\ inbox = <<>> /\ background # "attach" /\ commands < MaxCommands
  /\ loop' = "reading"
  /\ UNCHANGED <<actual, shown, feature, background, turn, inbox, err, status, report, commands>>

\* No key in time, a key that submits nothing, or a blank line.
ReadNothing ==
  /\ loop = "reading" /\ loop' = "free"
  /\ UNCHANGED <<actual, shown, feature, background, turn, inbox, err, status, report, commands>>

Entered == loop = "reading" /\ commands' = commands + 1

\* Mutant: only a compaction holds submissions up.
BusyCompacting == compacting

Busy == compacting \/ managingMCP

Refused ==
  /\ Entered /\ Busy /\ loop' = "free"
  /\ Show(err, "Background operation in progress", FALSE, TRUE)
  /\ UNCHANGED <<actual, shown, feature, background, turn, inbox>>

\* A slash command, or a prompt, that is taken.
Taken == Entered /\ ~Busy /\ loop' = "free"

-----------------------------------------------------------------------------
(* Commands that answer at once.                                           *)

quiet == <<feature, background, turn, inbox>>

UseAgent(p) ==
  /\ Taken
  /\ actual' = [actual EXCEPT !.conversation = @ + 1, !.mode = p.mode, !.model = p.model]
  /\ shown' = [StatusBar(Refreshed(actual'), p.mode) EXCEPT !.model = p.model]
  /\ Succeed("Using agent")
  /\ UNCHANGED quiet

\* /permissions, with a mode to set or without.
Permissions(mode) ==
  /\ Taken
  /\ actual' = [actual EXCEPT !.mode = mode]
  /\ shown' = StatusBar(shown, mode)
  /\ Succeed("Permissions")
  /\ UNCHANGED quiet

\* The record of the reset is saved before the conversation is cleared.
Clear ==
  /\ Taken
  /\ \/ /\ actual' = [actual EXCEPT !.conversation = @ + 1]
        /\ Succeed(NoText)
     \/ actual' = actual /\ Fail("Reset failed")
  /\ shown' = Refreshed(actual')
  /\ UNCHANGED quiet

\* /resume and /undo replace the conversation, last of all; /fork keeps it.
Replace(name) ==
  /\ Taken
  /\ actual' = [actual EXCEPT !.conversation = @ + 1]
  /\ shown' = Refreshed(actual')
  /\ Succeed(name)
  /\ UNCHANGED quiet

Fork ==
  /\ Taken /\ shown' = Refreshed(actual) /\ Succeed("Forked")
  /\ UNCHANGED <<actual, quiet>>

\* Commands that leave what is shown alone.  /attachments lists the shown ones.
Answer(name) ==
  /\ Taken /\ Succeed(name) /\ UNCHANGED <<actual, shown, quiet>>

ListAttachments == Answer("Attachments")
ListNames == Answer("Names")
ListSessions == Answer("Sessions")
Administer == Answer("Renamed") \/ Answer("Deleted")
Export == Answer("Exported")
Memory == Answer("Memory") \/ Answer("Memory saved") \/ Answer("Memory cleared")
Inspect == Answer("Patch preview") \/ Answer("Branch status")
Diagnose == Answer("Diagnostics")

\* A command that fails, is misused or is unknown.
CommandFails ==
  /\ Taken /\ Fail("Failed") /\ UNCHANGED <<actual, shown, quiet>>

-----------------------------------------------------------------------------
(* Commands that hand back work.                                           *)

Compact ==
  /\ Taken /\ compacting' = TRUE /\ managingMCP' = managingMCP /\ background' = "compact"
  /\ Succeed("Compacting conversation")
  /\ UNCHANGED <<actual, shown, turn, inbox>>

ManageMCP ==
  /\ Taken /\ managingMCP' = TRUE /\ compacting' = compacting /\ background' = "mcp"
  /\ Succeed("Updating MCP servers")
  /\ UNCHANGED <<actual, shown, turn, inbox>>

Attach ==
  /\ Taken /\ background' = "attach"
  /\ Succeed("Attaching")
  /\ UNCHANGED <<actual, shown, feature, turn, inbox>>

Put(message) == inbox' = Append(inbox, message)

\* A conversation that is short enough is kept; a failure changes nothing.
CompactRuns ==
  /\ background = "compact" /\ background' = "none"
  /\ \/ actual' \in {actual, [actual EXCEPT !.conversation = @ + 1]} /\ Put(Done("CompactDone", NoText))
     \/ actual' = actual /\ Put(Done("CompactDone", "Compact failed"))
  /\ UNCHANGED <<shown, feature, turn, loop, err, status, report, commands>>

ManageRuns ==
  /\ background = "mcp" /\ background' = "none"
  /\ \E e \in {NoText, "MCP failed"} : Put(Done("MCPDone", e))
  /\ UNCHANGED <<actual, shown, feature, turn, loop, err, status, report, commands>>

AttachRuns ==
  /\ background = "attach" /\ background' = "none"
  /\ \/ actual' = [actual EXCEPT !.attachments = @ + 1] /\ Put(Done("Attached", NoText))
     \/ actual' = actual /\ Put(Done("Attached", "Attach failed"))
  /\ UNCHANGED <<shown, feature, turn, loop, err, status, report, commands>>

-----------------------------------------------------------------------------
(* A turn, from a prompt, a workflow command or a custom command.          *)

SubmitPrompt ==
  /\ Taken /\ turn' = TRUE
  /\ shown' = [shown EXCEPT !.attachments = 0]
  /\ Show(NoText, NoText, FALSE, FALSE)
  /\ UNCHANGED <<actual, feature, background, inbox>>

\* The session takes the staged attachments when it starts.
TurnRuns ==
  /\ turn /\ inbox = <<>>
  /\ actual' = [actual EXCEPT !.attachments = 0]
  /\ \E e \in {NoText, "Turn failed"} : Put(Done("SubmitDone", e))
  /\ UNCHANGED <<shown, feature, background, turn, loop, err, status, report, commands>>

\* The before_turn hook, or the record of the turn, fails before it starts.
TurnNotStarted ==
  /\ turn /\ inbox = <<>>
  /\ Put(Done("SubmitDone", "Hook failed"))
  /\ UNCHANGED <<actual, shown, feature, background, turn, loop, err, status, report, commands>>

-----------------------------------------------------------------------------
(* Messages.                                                               *)

\* Mutant: a compaction that failed stays under way.
SettledOnSuccess(message) == message.err = NoText

Settled(message) == TRUE

Dispatch ==
  /\ loop = "free" /\ inbox # <<>> /\ inbox' = Tail(inbox)
  /\ LET message == Head(inbox) IN
     /\ compacting' = (compacting /\ ~(message.kind = "CompactDone" /\ Settled(message)))
     /\ managingMCP' = (managingMCP /\ message.kind # "MCPDone")
     /\ turn' = (turn /\ message.kind # "SubmitDone")
     /\ shown' = CASE message.kind = "CompactDone" /\ message.err = NoText -> Refreshed(actual)
                   [] message.kind = "Attached" /\ message.err = NoText ->
                        [shown EXCEPT !.attachments = @ + 1]
                   [] OTHER -> shown
     /\ IF message.err # NoText THEN Fail(message.err)
        ELSE IF message.kind = "SubmitDone" THEN Show(err, status, FALSE, FALSE)
        ELSE Succeed(message.kind)
  /\ UNCHANGED <<actual, background, loop, commands>>

Submission ==
  \/ Refused \/ Clear \/ Fork \/ CommandFails
  \/ ListAttachments \/ ListNames \/ ListSessions \/ Administer \/ Export
  \/ Memory \/ Inspect \/ Diagnose
  \/ \E p \in Profiles : UseAgent(p)
  \/ \E mode \in Modes : Permissions(mode)
  \/ \E name \in {"Resumed", "Restored"} : Replace(name)
  \/ Compact \/ ManageMCP \/ Attach \/ SubmitPrompt

Background == CompactRuns \/ ManageRuns \/ AttachRuns \/ TurnRuns \/ TurnNotStarted

Next == BeginRead \/ ReadNothing \/ Submission \/ Background \/ Dispatch

\* The tasks of the event loop run, and it turns; the read of a key is given up.
Fairness ==
  /\ WF_vars(Background) /\ WF_vars(Dispatch)
  /\ Live => WF_vars(ReadNothing)

Spec == Init /\ [][Next]_vars /\ Fairness

-----------------------------------------------------------------------------
(* Properties.                                                             *)

\* What is shown is a mode there is, and no more attachments than were staged.
TypeOK ==
  /\ {turn, compacting, managingMCP} \subseteq BOOLEAN
  /\ loop \in {"free", "reading"} /\ commands \in 0..MaxCommands
  /\ {actual.mode, shown.mode} \subseteq Modes
  /\ {actual.attachments, shown.attachments} \subseteq 0..MaxCommands

\* The mode, the model and the conversation on the screen are those the next
\* prompt runs with, whatever commands succeeded or failed on the way.
ShownIsActual ==
  /\ shown.mode = actual.mode /\ shown.model = actual.model
  /\ ~compacting => shown.conversation = actual.conversation

\* No turn runs while the conversation is compacted or the tools of an MCP
\* server are taken away or put back, nor two of those at once.
NoTurnDuringBackground == ~(turn /\ background # "none") /\ ~(compacting /\ managingMCP)

\* On a live terminal submissions are accepted again after every background
\* operation, failed or not.
PromptComesBack == Busy ~> ~Busy

\* docs/session.md:216: /attach queues a file for the next turn, and
\* /attachments lists the queue.
ListedIsQueued ==
  (~turn /\ inbox = <<>> /\ background = "none") => shown.attachments = actual.attachments

\* docs/terminal.md:8-9: errors and the results of commands append to stdout.
EveryFailureIsShown == report.failed => report.printed = err

\* tui/commands/model.py:54: whether /compact is still running.
RefusedOnlyWhileRunning == [][Refused => background # "none"]_vars
=============================================================================
