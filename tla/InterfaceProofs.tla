--------------------------- MODULE InterfaceProofs ---------------------------
(***************************************************************************)
(* What ApplicationProofs shows of its components holds of the suite       *)
(* MCInterface, which checks all of them in one run: a behaviour of the    *)
(* suite is a behaviour of the component it began with.  So the properties *)
(* of the run hold for every value of the constants.  SessionProofs has    *)
(* the components that set up a session.                                   *)
(***************************************************************************)
EXTENDS MCInterface, TLAPS

\* The theory, over the variables the suite gives each component; the suite
\* takes the hooks of the start and the saves to succeed.
App == INSTANCE ApplicationProofs WITH
  HooksFail <- FALSE, SavesFail <- FALSE, Together <- FALSE, TurnHooksFail <- HooksFail, Systems <- 1,
  stage <- v1, depth <- v2, created <- v3, session <- v4, steps <- v5, denials <- v6, outcome <- v7,
  cancelled <- v8, trees <- v9, metadata <- v10, half <- v11, made <- v12, reported <- v13,
  servers <- v1, step <- v2, withTools <- v3, open <- v4, connected <- v5, starter <- v6,
  closers <- v7, tasks <- v8,
  actual <- v1, shown <- v2, compacting <- v3, managingMCP <- v4, background <- v5, turn <- v6,
  inbox <- v7, loop <- v8, err <- v9, status <- v10, report <- v11, commands <- v12,
  file <- v1, temps <- v2, at <- v3, wanted <- v4, held <- v5, known <- v6, ops <- v7, edits <- v8,
  readMode <- v1, messages <- v2, turnNumber <- v3, cancellation <- v4, menu <- v5, listening <- v6,
  channel <- v7, approvals <- v8, turnStage <- v9, heldCall <- v10, produced <- v11, calls <- v12,
  presses <- v13,
  reply <- v1, replies <- v2, wire <- v3, running <- v4, turns <- v5, replaced <- v6,
  streaming <- v7, shownMessages <- v8, submitting <- v9, rendered <- v10, streamed <- v11,
  printed <- v12, replayed <- v13

\* The same, for the second instance of Scrollback.
Thinking == INSTANCE ApplicationProofs WITH
  MaxReplies <- 2, MaxPieces <- 1, MaxReasoning <- 1, MaxReplyTurns <- 1, MaxReplaced <- 1,
  HooksFail <- FALSE, SavesFail <- FALSE, Together <- FALSE, TurnHooksFail <- HooksFail, Systems <- 2,
  stage <- v1, depth <- v2, created <- v3, session <- v4, steps <- v5, denials <- v6, outcome <- v7,
  cancelled <- v8, trees <- v9, metadata <- v10, half <- v11, made <- v12, reported <- v13,
  servers <- v1, step <- v2, withTools <- v3, open <- v4, connected <- v5, starter <- v6,
  closers <- v7, tasks <- v8,
  actual <- v1, shown <- v2, compacting <- v3, managingMCP <- v4, background <- v5, turn <- v6,
  inbox <- v7, loop <- v8, err <- v9, status <- v10, report <- v11, commands <- v12,
  file <- v1, temps <- v2, at <- v3, wanted <- v4, held <- v5, known <- v6, ops <- v7, edits <- v8,
  readMode <- v1, messages <- v2, turnNumber <- v3, cancellation <- v4, menu <- v5, listening <- v6,
  channel <- v7, approvals <- v8, turnStage <- v9, heldCall <- v10, produced <- v11, calls <- v12,
  presses <- v13,
  reply <- v1, replies <- v2, wire <- v3, running <- v4, turns <- v5, replaced <- v6,
  streaming <- v7, shownMessages <- v8, submitting <- v9, rendered <- v10, streamed <- v11,
  printed <- v12, replayed <- v13

\* The instance in the theory is the component of the suite, definition by
\* definition: for the sub-agents.
LEMMA SameDelegation ==
  /\ App!Delegation!Init <=> Delegation!Init
  /\ [App!Delegation!Next]_App!Delegation!vars <=> [Delegation!Next]_Delegation!vars
  /\ App!Delegation!DelegationAssumption <=> Delegation!DelegationAssumption
  /\ App!Delegation!DelegationLeavesNothing <=> Delegation!DelegationLeavesNothing
BY SMTT(60) DEF App!Delegation!Cardinality, Delegation!Cardinality, App!Delegation!IsFiniteSet,
  Delegation!IsFiniteSet, App!Delegation!DelegationAssumption, Delegation!DelegationAssumption,
  App!Delegation!Levels, Delegation!Levels, App!Delegation!None, Delegation!None,
  App!Delegation!disk, Delegation!disk, App!Delegation!child, Delegation!child,
  App!Delegation!vars, Delegation!vars, App!Delegation!InTurn, Delegation!InTurn,
  App!Delegation!Init, Delegation!Init, App!Delegation!ChildDepth, Delegation!ChildDepth,
  App!Delegation!Called, Delegation!Called, App!Delegation!Call, Delegation!Call,
  App!Delegation!Refuse, Delegation!Refuse, App!Delegation!Accept, Delegation!Accept,
  App!Delegation!AddWorktree, Delegation!AddWorktree, App!Delegation!BuildChild,
  Delegation!BuildChild, App!Delegation!AskApproval, Delegation!AskApproval,
  App!Delegation!Denies, Delegation!Denies, App!Delegation!Deny, Delegation!Deny,
  App!Delegation!EndTurn, Delegation!EndTurn, App!Delegation!CloseChild, Delegation!CloseChild,
  App!Delegation!Within, Delegation!Within, App!Delegation!RemoveWorktree,
  Delegation!RemoveWorktree, App!Delegation!Return, Delegation!Return, App!Delegation!Cancel,
  Delegation!Cancel, App!Delegation!Step, Delegation!Step, App!Delegation!Done, Delegation!Done,
  App!Delegation!Next, Delegation!Next, App!Delegation!DepthIsBounded, Delegation!DepthIsBounded,
  App!Delegation!NothingIsLeft, Delegation!NothingIsLeft, App!Delegation!DelegationLeavesNothing,
  Delegation!DelegationLeavesNothing

\* Likewise for startup and shutdown.
LEMMA SameStartup ==
  /\ App!Startup!Init <=> Startup!Init
  /\ [App!Startup!Next]_App!Startup!vars <=> [Startup!Next]_Startup!vars
  /\ App!Startup!StartupAssumption <=> Startup!StartupAssumption
  /\ App!Startup!OneOwner <=> Startup!OneOwner
  /\ App!Startup!OwnedIsOpen <=> Startup!OwnedIsOpen
  /\ App!Startup!ExitLeavesNothing <=> Startup!ExitLeavesNothing
BY SMTT(60) DEF App!Startup!Cardinality, Startup!Cardinality, App!Startup!IsFiniteSet,
  Startup!IsFiniteSet, App!Startup!Sink, Startup!Sink, App!Startup!Managers, Startup!Managers,
  App!Startup!Owners, Startup!Owners, App!Startup!ElementsOf, Startup!ElementsOf,
  App!Startup!Distinct, Startup!Distinct, App!Startup!StartupAssumption,
  Startup!StartupAssumption, App!Startup!vars, Startup!vars, App!Startup!Holds, Startup!Holds,
  App!Startup!After, Startup!After, App!Startup!CleanUp, Startup!CleanUp, App!Startup!PlainStep,
  Startup!PlainStep, App!Startup!ConnectNext, Startup!ConnectNext, App!Startup!Connected,
  Startup!Connected, App!Startup!ToolsStep, Startup!ToolsStep, App!Startup!RegisterTools,
  Startup!RegisterTools, App!Startup!Only, Startup!Only, App!Startup!Order, Startup!Order,
  App!Startup!HandOver, Startup!HandOver, App!Startup!CloseSession, Startup!CloseSession,
  App!Startup!StartHooks, Startup!StartHooks, App!Startup!Quit, Startup!Quit,
  App!Startup!CloseNext, Startup!CloseNext, App!Startup!Exit, Startup!Exit,
  App!Startup!ExitAbandoned, Startup!ExitAbandoned, App!Startup!Init, Startup!Init,
  App!Startup!Next, Startup!Next, App!Startup!OwnersOf, Startup!OwnersOf, App!Startup!OneOwner,
  Startup!OneOwner, App!Startup!OwnedIsOpen, Startup!OwnedIsOpen, App!Startup!ExitLeavesNothing,
  Startup!ExitLeavesNothing

\* And for the commands of the screen.
LEMMA SameCommands ==
  /\ App!Commands!Init <=> Commands!Init
  /\ [App!Commands!Next]_App!Commands!vars <=> [Commands!Next]_Commands!vars
  /\ App!Commands!CommandsAssumption <=> Commands!CommandsAssumption
  /\ App!Commands!ShownIsActual <=> Commands!ShownIsActual
  /\ App!Commands!NoTurnDuringBackground <=> Commands!NoTurnDuringBackground
BY SMTT(60) DEF App!Commands!CommandsAssumption, Commands!CommandsAssumption, App!Commands!Modes,
  Commands!Modes, App!Commands!feature, Commands!feature, App!Commands!vars, Commands!vars,
  App!Commands!NoText, Commands!NoText, App!Commands!Done, Commands!Done, App!Commands!Init,
  Commands!Init, App!Commands!Rendered, Commands!Rendered, App!Commands!Show, Commands!Show,
  App!Commands!Succeed, Commands!Succeed, App!Commands!Fail, Commands!Fail,
  App!Commands!Refreshed, Commands!Refreshed, App!Commands!StatusBar, Commands!StatusBar,
  App!Commands!BeginRead, Commands!BeginRead, App!Commands!ReadNothing, Commands!ReadNothing,
  App!Commands!Entered, Commands!Entered, App!Commands!Busy, Commands!Busy, App!Commands!Refused,
  Commands!Refused, App!Commands!Taken, Commands!Taken, App!Commands!quiet, Commands!quiet,
  App!Commands!UseAgent, Commands!UseAgent, App!Commands!Permissions, Commands!Permissions,
  App!Commands!Clear, Commands!Clear, App!Commands!Replace, Commands!Replace, App!Commands!Fork,
  Commands!Fork, App!Commands!Answer, Commands!Answer, App!Commands!ListAttachments,
  Commands!ListAttachments, App!Commands!ListNames, Commands!ListNames, App!Commands!ListSessions,
  Commands!ListSessions, App!Commands!Administer, Commands!Administer, App!Commands!Export,
  Commands!Export, App!Commands!Memory, Commands!Memory, App!Commands!Inspect, Commands!Inspect,
  App!Commands!Diagnose, Commands!Diagnose, App!Commands!CommandFails, Commands!CommandFails,
  App!Commands!Compact, Commands!Compact, App!Commands!ManageMCP, Commands!ManageMCP,
  App!Commands!Attach, Commands!Attach, App!Commands!Put, Commands!Put, App!Commands!CompactRuns,
  Commands!CompactRuns, App!Commands!ManageRuns, Commands!ManageRuns, App!Commands!AttachRuns,
  Commands!AttachRuns, App!Commands!SubmitPrompt, Commands!SubmitPrompt, App!Commands!TurnRuns,
  Commands!TurnRuns, App!Commands!TurnNotStarted, Commands!TurnNotStarted, App!Commands!Settled,
  Commands!Settled, App!Commands!Dispatch, Commands!Dispatch, App!Commands!Submission,
  Commands!Submission, App!Commands!Background, Commands!Background, App!Commands!Next,
  Commands!Next, App!Commands!ShownIsActual, Commands!ShownIsActual,
  App!Commands!NoTurnDuringBackground, Commands!NoTurnDuringBackground

\* For the settings file.
LEMMA SameSettingsFile ==
  /\ App!SettingsFile!Init <=> SettingsFile!Init
  /\ [App!SettingsFile!Next]_App!SettingsFile!vars <=> [SettingsFile!Next]_SettingsFile!vars
  /\ App!SettingsFile!SettingsFileAssumption <=> SettingsFile!SettingsFileAssumption
  /\ App!SettingsStepInv <=>
       /\ SettingsFile!FileIsWhole' /\ SettingsFile!NoTempIsLeft'
       /\ SettingsFile!BrokenFileIsKeptStep /\ SettingsFile!OtherSettingsAreKeptStep
BY SMTT(60) DEF App!SettingsFile!SettingsFileAssumption, SettingsFile!SettingsFileAssumption,
  App!SettingsFile!Content, SettingsFile!Content, App!SettingsFile!Entry, SettingsFile!Entry,
  App!SettingsFile!Absent, SettingsFile!Absent, App!SettingsFile!Unparsable,
  SettingsFile!Unparsable, App!SettingsFile!Partial, SettingsFile!Partial,
  App!SettingsFile!Template, SettingsFile!Template, App!SettingsFile!process,
  SettingsFile!process, App!SettingsFile!vars, SettingsFile!vars, App!SettingsFile!Start,
  SettingsFile!Start, App!SettingsFile!Change, SettingsFile!Change, App!SettingsFile!Init,
  SettingsFile!Init, App!SettingsFile!Quiet, SettingsFile!Quiet, App!SettingsFile!Begin,
  SettingsFile!Begin, App!SettingsFile!Launch, SettingsFile!Launch, App!SettingsFile!AddServer,
  SettingsFile!AddServer, App!SettingsFile!RemoveServer, SettingsFile!RemoveServer,
  App!SettingsFile!Decoded, SettingsFile!Decoded, App!SettingsFile!Applied, SettingsFile!Applied,
  App!SettingsFile!Finish, SettingsFile!Finish, App!SettingsFile!GiveUp, SettingsFile!GiveUp,
  App!SettingsFile!Hold, SettingsFile!Hold, App!SettingsFile!Readable, SettingsFile!Readable,
  App!SettingsFile!Missing, SettingsFile!Missing, App!SettingsFile!ReadSettings,
  SettingsFile!ReadSettings, App!SettingsFile!MakeTemplate, SettingsFile!MakeTemplate,
  App!SettingsFile!ReadFails, SettingsFile!ReadFails, App!SettingsFile!OpenTemp,
  SettingsFile!OpenTemp, App!SettingsFile!Mine, SettingsFile!Mine, App!SettingsFile!SyncTemp,
  SettingsFile!SyncTemp, App!SettingsFile!Rename, SettingsFile!Rename, App!SettingsFile!SaveFails,
  SettingsFile!SaveFails, App!SettingsFile!Crash, SettingsFile!Crash, App!SettingsFile!Edit,
  SettingsFile!Edit, App!SettingsFile!Edited, SettingsFile!Edited, App!SettingsFile!AppNext,
  SettingsFile!AppNext, App!SettingsFile!Next, SettingsFile!Next, App!SettingsFile!FileIsWhole,
  SettingsFile!FileIsWhole, App!SettingsFile!NoTempIsLeft, SettingsFile!NoTempIsLeft,
  App!SettingsFile!Saved, SettingsFile!Saved, App!SettingsFile!BrokenFileIsKeptStep,
  SettingsFile!BrokenFileIsKeptStep, App!SettingsFile!OtherSettingsAreKeptStep,
  SettingsFile!OtherSettingsAreKeptStep, App!SettingsStepInv

\* For a turn on the terminal.
LEMMA SameTerminal ==
  /\ App!Terminal!Init <=> Terminal!Init
  /\ [App!Terminal!Next]_App!Terminal!vars <=> [Terminal!Next]_Terminal!vars
  /\ App!Terminal!DecisionIsForItsCall <=> Terminal!DecisionIsForItsCall
  /\ App!Terminal!PromptIsLast <=> Terminal!PromptIsLast
BY SMTT(60) DEF App!Terminal!NoCall, Terminal!NoCall, App!Terminal!terminal, Terminal!terminal,
  App!Terminal!runtime, Terminal!runtime, App!Terminal!vars, Terminal!vars, App!Terminal!Key,
  Terminal!Key, App!Terminal!QuitMsg, Terminal!QuitMsg, App!Terminal!SubmitDone,
  Terminal!SubmitDone, App!Terminal!Notification, Terminal!Notification, App!Terminal!Status,
  Terminal!Status, App!Terminal!Requested, Terminal!Requested, App!Terminal!Cleared,
  Terminal!Cleared, App!Terminal!Error, Terminal!Error, App!Terminal!Closed, Terminal!Closed,
  App!Terminal!Active, Terminal!Active, App!Terminal!MustAsk, Terminal!MustAsk,
  App!Terminal!Shows, Terminal!Shows, App!Terminal!Init, Terminal!Init, App!Terminal!Sent,
  Terminal!Sent, App!Terminal!CtxCancelled, Terminal!CtxCancelled, App!Terminal!BeforeTurn,
  Terminal!BeforeTurn, App!Terminal!HoldCall, Terminal!HoldCall, App!Terminal!TakeDecision,
  Terminal!TakeDecision, App!Terminal!EndTurn, Terminal!EndTurn, App!Terminal!Bridge,
  Terminal!Bridge, App!Terminal!Drained, Terminal!Drained, App!Terminal!CloseChannel,
  Terminal!CloseChannel, App!Terminal!ReportEnd, Terminal!ReportEnd,
  App!Terminal!ListenerRunnable, Terminal!ListenerRunnable, App!Terminal!Listen, Terminal!Listen,
  App!Terminal!NewApprovals, Terminal!NewApprovals, App!Terminal!submitPrompt,
  Terminal!submitPrompt, App!Terminal!UpdateNotification, Terminal!UpdateNotification,
  App!Terminal!finishSubmit, Terminal!finishSubmit, App!Terminal!cancelRun, Terminal!cancelRun,
  App!Terminal!QuitKey, Terminal!QuitKey, App!Terminal!update, Terminal!update,
  App!Terminal!Dispatch, Terminal!Dispatch, App!Terminal!AskApproval, Terminal!AskApproval,
  App!Terminal!Answer, Terminal!Answer, App!Terminal!AnswerIgnored, Terminal!AnswerIgnored,
  App!Terminal!DispatchNext, Terminal!DispatchNext, App!Terminal!Yield, Terminal!Yield,
  App!Terminal!OthersHaveRun, Terminal!OthersHaveRun, App!Terminal!Recheck, Terminal!Recheck,
  App!Terminal!Submit, Terminal!Submit, App!Terminal!EmptyLine, Terminal!EmptyLine,
  App!Terminal!EndOfInput, Terminal!EndOfInput, App!Terminal!DispatchAtPrompt,
  Terminal!DispatchAtPrompt, App!Terminal!Interrupt, Terminal!Interrupt, App!Terminal!Stopped,
  Terminal!Stopped, App!Terminal!Runtime, Terminal!Runtime, App!Terminal!User, Terminal!User,
  App!Terminal!Loop, Terminal!Loop, App!Terminal!Next, Terminal!Next,
  App!Terminal!DecisionIsForItsCall, Terminal!DecisionIsForItsCall, App!Terminal!PromptIsLast,
  Terminal!PromptIsLast

\* For the replies on the terminal.
LEMMA SameScrollback ==
  /\ App!Reply!ScrollbackAssumption <=> Scrollback!ScrollbackAssumption
  /\ App!Reply!Init <=> Scrollback!Init
  /\ [App!Reply!Next]_App!Reply!vars <=> [Scrollback!Next]_Scrollback!vars
  /\ App!Reply!NothingTwice <=> Scrollback!NothingTwice
  /\ App!Reply!InOrder <=> Scrollback!InOrder
  /\ App!Reply!EverythingCommittedIsWritten <=> Scrollback!EverythingCommittedIsWritten
BY ZenonT(90) DEF App!Reply!ScrollbackAssumption, Scrollback!ScrollbackAssumption, App!Reply!turn,
  Scrollback!turn, App!Reply!shown, Scrollback!shown, App!Reply!vars, Scrollback!vars,
  App!Reply!NoText, Scrollback!NoText, App!Reply!Text, Scrollback!Text, App!Reply!startswith,
  Scrollback!startswith, App!Reply!NoMessage, Scrollback!NoMessage, App!Reply!Assistant,
  Scrollback!Assistant, App!Reply!ToolResult, Scrollback!ToolResult, App!Reply!UserMessage,
  Scrollback!UserMessage, App!Reply!SystemMessage, Scrollback!SystemMessage, App!Reply!Heading,
  Scrollback!Heading, App!Reply!Summary, Scrollback!Summary, App!Reply!Stored, Scrollback!Stored,
  App!Reply!Heard, Scrollback!Heard, App!Reply!Part, Scrollback!Part, App!Reply!Pieces,
  Scrollback!Pieces, App!Reply!Committed, Scrollback!Committed, App!Reply!NothingStreamed,
  Scrollback!NothingStreamed, App!Reply!Rest, Scrollback!Rest, App!Reply!Completion,
  Scrollback!Completion, App!Reply!Spent, Scrollback!Spent, App!Reply!WriteFrom,
  Scrollback!WriteFrom, App!Reply!Rendered, Scrollback!Rendered, App!Reply!Output,
  Scrollback!Output, App!Reply!Shows, Scrollback!Shows, App!Reply!Render, Scrollback!Render,
  App!Reply!Init, Scrollback!Init, App!Reply!submitPrompt, Scrollback!submitPrompt,
  App!Reply!Answering, Scrollback!Answering, App!Reply!Chunk, Scrollback!Chunk,
  App!Reply!Appended, Scrollback!Appended, App!Reply!Commit, Scrollback!Commit,
  App!Reply!Interrupt, Scrollback!Interrupt, App!Reply!updateConversationNotification,
  Scrollback!updateConversationNotification, App!Reply!CallsNext, Scrollback!CallsNext,
  App!Reply!ApprovalAnswered, Scrollback!ApprovalAnswered, App!Reply!finishSubmit,
  Scrollback!finishSubmit, App!Reply!AnyOther, Scrollback!AnyOther, App!Reply!Conversations,
  Scrollback!Conversations, App!Reply!WindowStarts, Scrollback!WindowStarts, App!Reply!Install,
  Scrollback!Install, App!Reply!refreshSnapshot, Scrollback!refreshSnapshot, App!Reply!Next,
  Scrollback!Next, App!Reply!NothingTwice, Scrollback!NothingTwice, App!Reply!InOrder,
  Scrollback!InOrder, App!Reply!Has, Scrollback!Has, App!Reply!EverythingCommittedIsWritten,
  Scrollback!EverythingCommittedIsWritten

\* And for those that show their reasoning.
LEMMA SameReasoning ==
  /\ Thinking!Reply!ScrollbackAssumption <=> Reasoning!ScrollbackAssumption
  /\ Thinking!Reply!Init <=> Reasoning!Init
  /\ [Thinking!Reply!Next]_Thinking!Reply!vars <=> [Reasoning!Next]_Reasoning!vars
  /\ Thinking!Reply!NothingTwice <=> Reasoning!NothingTwice
  /\ Thinking!Reply!InOrder <=> Reasoning!InOrder
  /\ Thinking!Reply!EverythingCommittedIsWritten <=> Reasoning!EverythingCommittedIsWritten
BY ZenonT(90) DEF Thinking!Reply!ScrollbackAssumption, Reasoning!ScrollbackAssumption,
  Thinking!Reply!turn, Reasoning!turn, Thinking!Reply!shown, Reasoning!shown, Thinking!Reply!vars,
  Reasoning!vars, Thinking!Reply!NoText, Reasoning!NoText, Thinking!Reply!Text, Reasoning!Text,
  Thinking!Reply!startswith, Reasoning!startswith, Thinking!Reply!NoMessage, Reasoning!NoMessage,
  Thinking!Reply!Assistant, Reasoning!Assistant, Thinking!Reply!ToolResult, Reasoning!ToolResult,
  Thinking!Reply!UserMessage, Reasoning!UserMessage, Thinking!Reply!SystemMessage,
  Reasoning!SystemMessage, Thinking!Reply!Heading, Reasoning!Heading, Thinking!Reply!Summary,
  Reasoning!Summary, Thinking!Reply!Stored, Reasoning!Stored, Thinking!Reply!Heard,
  Reasoning!Heard, Thinking!Reply!Part, Reasoning!Part, Thinking!Reply!Pieces, Reasoning!Pieces,
  Thinking!Reply!Committed, Reasoning!Committed, Thinking!Reply!NothingStreamed,
  Reasoning!NothingStreamed, Thinking!Reply!Rest, Reasoning!Rest, Thinking!Reply!Completion,
  Reasoning!Completion, Thinking!Reply!Spent, Reasoning!Spent, Thinking!Reply!WriteFrom,
  Reasoning!WriteFrom, Thinking!Reply!Rendered, Reasoning!Rendered, Thinking!Reply!Output,
  Reasoning!Output, Thinking!Reply!Shows, Reasoning!Shows, Thinking!Reply!Render,
  Reasoning!Render, Thinking!Reply!Init, Reasoning!Init, Thinking!Reply!submitPrompt,
  Reasoning!submitPrompt, Thinking!Reply!Answering, Reasoning!Answering, Thinking!Reply!Chunk,
  Reasoning!Chunk, Thinking!Reply!Appended, Reasoning!Appended, Thinking!Reply!Commit,
  Reasoning!Commit, Thinking!Reply!Interrupt, Reasoning!Interrupt,
  Thinking!Reply!updateConversationNotification, Reasoning!updateConversationNotification,
  Thinking!Reply!CallsNext, Reasoning!CallsNext, Thinking!Reply!ApprovalAnswered,
  Reasoning!ApprovalAnswered, Thinking!Reply!finishSubmit, Reasoning!finishSubmit,
  Thinking!Reply!AnyOther, Reasoning!AnyOther, Thinking!Reply!Conversations,
  Reasoning!Conversations, Thinking!Reply!WindowStarts, Reasoning!WindowStarts,
  Thinking!Reply!Install, Reasoning!Install, Thinking!Reply!refreshSnapshot,
  Reasoning!refreshSnapshot, Thinking!Reply!Next, Reasoning!Next, Thinking!Reply!NothingTwice,
  Reasoning!NothingTwice, Thinking!Reply!InOrder, Reasoning!InOrder, Thinking!Reply!Has,
  Reasoning!Has, Thinking!Reply!EverythingCommittedIsWritten,
  Reasoning!EverythingCommittedIsWritten

-----------------------------------------------------------------------------
(* A behaviour of a suite is one of its component.                         *)

\* The suite begins as the component it chose.
LEMMA Begins ==
  /\ Init /\ component = "delegation" => Delegation!Init
  /\ Init /\ component = "startup" => Startup!Init
  /\ Init /\ component = "commands" => Commands!Init
  /\ Init /\ component = "settings" => SettingsFile!Init
  /\ Init /\ component = "terminal" => Terminal!Init
  /\ Init /\ component = "scrollback" => Scrollback!Init
  /\ Init /\ component = "reasoning" => Reasoning!Init
BY SMTT(60) DEF Init, InitTerminal, InitScrollback, InitReasoning, InitTranscript, InitComposer,
  InitRecall, InitCommands, InitFlags, InitAgents, InitSettingsFile, InitExtensions,
  InitOnePlugin, InitInstructions, InitLayers, InitStartup, InitDelegation

\* And moves as that one does, and never turns to another.
LEMMA Moves ==
  /\ component' = "delegation" /\ [Next]_vars =>
       component = "delegation" /\ (NextDelegation \/ UNCHANGED vars)
  /\ component' = "startup" /\ [Next]_vars =>
       component = "startup" /\ (NextStartup \/ UNCHANGED vars)
  /\ component' = "commands" /\ [Next]_vars =>
       component = "commands" /\ (NextCommands \/ UNCHANGED vars)
  /\ component' = "settings" /\ [Next]_vars =>
       component = "settings" /\ (NextSettingsFile \/ UNCHANGED vars)
  /\ component = "settings" /\ [Next]_vars => component' = "settings"
  /\ component' = "terminal" /\ [Next]_vars =>
       component = "terminal" /\ (NextTerminal \/ UNCHANGED vars)
  /\ component' = "scrollback" /\ [Next]_vars =>
       component = "scrollback" /\ (NextScrollback \/ UNCHANGED vars)
  /\ component' = "reasoning" /\ [Next]_vars =>
       component = "reasoning" /\ (NextReasoning \/ UNCHANGED vars)
BY ZenonT(90) DEF Next, NextTerminal, NextScrollback, NextReasoning, NextTranscript, NextComposer,
  NextRecall, NextCommands, NextFlags, NextAgents, NextSettingsFile, NextExtensions,
  NextOnePlugin, NextInstructions, NextLayers, NextStartup, NextDelegation, Kept, vars

\* Hence its behaviours are those of the component.
LEMMA Runs ==
  /\ component' = "delegation" /\ [Next]_vars =>
       component = "delegation" /\ [Delegation!Next]_Delegation!vars
  /\ component' = "startup" /\ [Next]_vars =>
       component = "startup" /\ [Startup!Next]_Startup!vars
  /\ component' = "commands" /\ [Next]_vars =>
       component = "commands" /\ [Commands!Next]_Commands!vars
  /\ component' = "settings" /\ [Next]_vars =>
       component = "settings" /\ [SettingsFile!Next]_SettingsFile!vars
  /\ component' = "terminal" /\ [Next]_vars =>
       component = "terminal" /\ [Terminal!Next]_Terminal!vars
  /\ component' = "scrollback" /\ [Next]_vars =>
       component = "scrollback" /\ [Scrollback!Next]_Scrollback!vars
  /\ component' = "reasoning" /\ [Next]_vars =>
       component = "reasoning" /\ [Reasoning!Next]_Reasoning!vars
<1>1. UNCHANGED vars => UNCHANGED Delegation!vars
  BY DEF vars, Delegation!disk, Delegation!child, Delegation!vars
<1>2. UNCHANGED vars => UNCHANGED Startup!vars
  BY DEF vars, Startup!vars
<1>3. UNCHANGED vars => UNCHANGED Commands!vars
  BY DEF vars, Commands!feature, Commands!vars
<1>4. UNCHANGED vars => UNCHANGED SettingsFile!vars
  BY DEF vars, SettingsFile!process, SettingsFile!vars
<1>5. UNCHANGED vars => UNCHANGED Terminal!vars
  BY DEF vars, Terminal!terminal, Terminal!runtime, Terminal!vars
<1>6. UNCHANGED vars => UNCHANGED Scrollback!vars /\ UNCHANGED Reasoning!vars
  BY DEF vars, Scrollback!turn, Scrollback!shown, Scrollback!vars, Reasoning!turn, Reasoning!shown,
    Reasoning!vars
<1> QED
  BY Moves, <1>1, <1>2, <1>3, <1>4, <1>5, <1>6
  DEF NextDelegation, NextStartup, NextCommands, NextSettingsFile, NextTerminal, NextScrollback,
    NextReasoning

\* app/session.py: what is open has one owner, and nothing the program opened
\* outlives it, whatever step of the start fails.
THEOREM ExitAlwaysLeavesNothing == Spec => []ExitLeavesNothing
<1> DEFINE Inv == component = "startup" => App!StartInv /\ App!AllIsClosed
<1>1. App!Startup!StartupAssumption BY ComponentsAssumption, SameStartup
<1>2. Init => Inv
  BY <1>1, Begins, SameStartup, App!StartInit, App!StartClosed
<1>3. Inv /\ [Next]_vars => Inv'
  BY <1>1, Runs, SameStartup, App!StartStep, App!StartCloses
<1>4. Inv => ExitLeavesNothing
  BY <1>1, SameStartup, App!OwnerIsOne DEF ExitLeavesNothing, App!StartInv, App!AllIsClosed
<1> QED BY <1>2, <1>3, <1>4, PTL DEF Spec

\* app/subagents.py: when the call of the user's session is over no worktree is
\* left on the disk and no child is open.
THEOREM DelegationAlwaysLeavesNothing == Spec => []DelegationLeavesNothing
<1> DEFINE Inv == component = "delegation" => App!DelegationInv
<1>1. App!Delegation!DelegationAssumption BY ComponentsAssumption, SameDelegation
<1>2. Init => Inv BY <1>1, Begins, SameDelegation, App!DelegationInit
<1>3. Inv /\ [Next]_vars => Inv' BY <1>1, Runs, SameDelegation, App!DelegationStep
<1>4. Inv => DelegationLeavesNothing
  BY <1>1, SameDelegation, App!DelegationPromise DEF DelegationLeavesNothing
<1> QED BY <1>2, <1>3, <1>4, PTL DEF Spec

\* tui/actions.py: the screen shows the state the next prompt runs with, and no
\* turn runs beside a command in the background.
THEOREM ShownIsAlwaysActual == Spec => []ShownIsActual
<1> DEFINE Inv == component = "commands" => App!ScreenInv
<1>1. App!Commands!CommandsAssumption BY ComponentsAssumption, SameCommands
<1>2. Init => Inv BY <1>1, Begins, SameCommands, App!ScreenInit
<1>3. Inv /\ [Next]_vars => Inv' BY <1>1, Runs, SameCommands, App!ScreenStep
<1>4. Inv => ShownIsActual
  BY <1>1, SameCommands, App!ScreenPromise DEF ShownIsActual
<1> QED BY <1>2, <1>3, <1>4, PTL DEF Spec

\* app/config.py, app/mcp.py: whatever crashes or fails the settings file is
\* whole and no temporary file is left, a file that cannot be parsed is never
\* replaced, and a command changes its one server and nothing else.
THEOREM SettingsAlwaysSurvive == Spec => SettingsSurvive
<1> DEFINE Inv == component = "settings" => App!SettingsInv
           Step == component = "settings" => App!SettingsStepInv
<1>1. App!SettingsFile!SettingsFileAssumption BY ComponentsAssumption, SameSettingsFile
<1>2. Init => Inv BY <1>1, Begins, SameSettingsFile, App!SettingsInit
<1>3. Inv /\ [Next]_vars => Inv'
  BY <1>1, Runs, SameSettingsFile, App!SettingsStep
<1>4. Inv /\ Inv' /\ [Next]_vars => Step
  BY Moves, Runs, SameSettingsFile, App!SettingsStepHolds
<1>5. [Step]_vars <=>
      [ component = "settings" =>
          /\ SettingsFile!FileIsWhole'
          /\ SettingsFile!NoTempIsLeft'
          /\ SettingsFile!BrokenFileIsKeptStep
          /\ SettingsFile!OtherSettingsAreKeptStep ]_vars
  BY SameSettingsFile
<1> QED BY <1>2, <1>3, <1>4, <1>5, PTL DEF Spec, SettingsSurvive

\* tui/update.py, tui/approval/model.py, tui/terminal.py: a decision is taken
\* for the call the user was shown when giving it, and the terminal blocks on a
\* prompt only when the last turn is over and all it said has been shown.
THEOREM DecisionIsAlwaysForItsCall == Spec => []DecisionIsForItsCall
<1> DEFINE Inv == component = "terminal" => App!TerminalInv
<1>1. Init => Inv BY Begins, SameTerminal, App!TerminalInit
<1>2. Inv /\ [Next]_vars => Inv' BY Runs, SameTerminal, App!TerminalStep
<1>3. Inv => DecisionIsForItsCall
  BY SameTerminal, App!TerminalPromise DEF DecisionIsForItsCall
<1> QED BY <1>1, <1>2, <1>3, PTL DEF Spec

\* tui/terminal.py _render: a reply is written once on account of its
\* notifications, from its start and without a gap, and all that they committed
\* is written, whichever chunks were lost and whatever a command installed.
THEOREM ReplyIsAlwaysPrintedOnce == Spec => []ReplyIsPrintedOnce
<1> DEFINE Inv == /\ component = "scrollback" => App!ReplyInv
                  /\ component = "reasoning" => Thinking!ReplyInv
<1>1. Init => Inv
  BY ComponentsAssumption, Begins, SameScrollback, SameReasoning, App!ReplyInit, Thinking!ReplyInit
<1>2. Inv /\ [Next]_vars => Inv'
  <2>1. (component = "scrollback" => App!ReplyInv) /\ [Next]_vars
          => (component = "scrollback" => App!ReplyInv)'
    BY Runs, SameScrollback, App!ReplyNext
  <2>2. (component = "reasoning" => Thinking!ReplyInv) /\ [Next]_vars
          => (component = "reasoning" => Thinking!ReplyInv)'
    BY Runs, SameReasoning, Thinking!ReplyNext
  <2> QED BY <2>1, <2>2
<1>3. Inv => ReplyIsPrintedOnce
  BY SameScrollback, SameReasoning, App!ReplyKept, Thinking!ReplyKept DEF ReplyIsPrintedOnce
<1> QED BY <1>1, <1>2, <1>3, PTL DEF Spec

=============================================================================
