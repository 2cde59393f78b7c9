----------------------------- MODULE MCInterface ----------------------------
(*****************************************************************************)
(* Small instances of the terminal interface and of the application around   *)
(* the runtime: how a turn, its approvals and its output reach the           *)
(* terminal, what the keys and the commands do, what the program is          *)
(* configured with, what it starts and closes, and the agents it delegates   *)
(* to. They do not call each other here: a behaviour is one of one           *)
(* component, chosen at its start, so the states are those of the            *)
(* components side by side.                                                  *)
(*****************************************************************************)
EXTENDS Integers, Sequences, FiniteSets, TLC

CONSTANTS
  Checked,  \* the components of this run
  NotGiven, a, b,
  \* what the theorems of InterfaceProofs hold for all values of
  Configured,                                            \* of Startup
  maxSubagentDepth, CutsFail, MaxRuns, MaxSteps,         \* of Delegation
  Live, Profiles, MaxCommands,                           \* of Commands
  HooksFail, MaxTurns, MaxCalls, MaxInterrupts,          \* of TerminalTurn
  MaxReplies, MaxPieces, MaxReasoning, MaxReplyTurns, MaxReplaced,  \* of Scrollback
  Apps, Servers, Values, Default, UnknownKeys, MaxOps, MaxEdits,    \* of SettingsFile
  Slash, Space, Letters, Palette, MaxLength, MaxTyped, MaxHistory,  \* of Composer
  CommandLines, SettingsFiles, Environments, Selected, LogFails,    \* of Flags
  CommandNames, ReservedNames, Plugins, Home,                       \* of Extensions
  Depth, Files                                                      \* of Instructions

VARIABLES
  component,  \* the one this behaviour is about
  \* its variables, in the order its instance names them
  v1, v2, v3, v4, v5, v6, v7, v8, v9, v10, v11, v12, v13, v14, v15

vars == <<component, v1, v2, v3, v4, v5, v6, v7, v8, v9, v10, v11, v12, v13,
          v14, v15>>

(* The component has n variables, the others are not used and stay so.     *)
Unused(n) ==
  /\ IF n < 7 THEN v7 = "unused" ELSE TRUE
  /\ IF n < 8 THEN v8 = "unused" ELSE TRUE
  /\ IF n < 9 THEN v9 = "unused" ELSE TRUE
  /\ IF n < 10 THEN v10 = "unused" ELSE TRUE
  /\ IF n < 11 THEN v11 = "unused" ELSE TRUE
  /\ IF n < 12 THEN v12 = "unused" ELSE TRUE
  /\ IF n < 13 THEN v13 = "unused" ELSE TRUE
  /\ IF n < 14 THEN v14 = "unused" ELSE TRUE
  /\ IF n < 15 THEN v15 = "unused" ELSE TRUE

Kept(n) ==
  /\ UNCHANGED component
  /\ IF n < 7 THEN UNCHANGED v7 ELSE TRUE
  /\ IF n < 8 THEN UNCHANGED v8 ELSE TRUE
  /\ IF n < 9 THEN UNCHANGED v9 ELSE TRUE
  /\ IF n < 10 THEN UNCHANGED v10 ELSE TRUE
  /\ IF n < 11 THEN UNCHANGED v11 ELSE TRUE
  /\ IF n < 12 THEN UNCHANGED v12 ELSE TRUE
  /\ IF n < 13 THEN UNCHANGED v13 ELSE TRUE
  /\ IF n < 14 THEN UNCHANGED v14 ELSE TRUE
  /\ IF n < 15 THEN UNCHANGED v15 ELSE TRUE

(* The two processes that share a settings file are alike.                *)
AlikeApps == Permutations({a, b})

(* Two turns, three calls to decide about, two presses of Ctrl+C.           *)
Terminal == INSTANCE TerminalTurn WITH
  mode <- v1, inbox <- v2, turn <- v3, cancellation <- v4, menu <- v5,
  listening <- v6, channel <- v7, approvals <- v8, stage <- v9, held <- v10,
  produced <- v11, calls <- v12, presses <- v13

InitTerminal == component = "terminal" /\ Terminal!Init /\ Unused(13)

NextTerminal == component = "terminal" /\ Terminal!Next /\ Kept(13)

(* Two messages in pieces over two turns, and two commands that replace the *)
(* transcript; the first finds the system messages not yet shown.           *)
Scrollback == INSTANCE Scrollback WITH
  MaxMessages <- MaxReplies, MaxTurns <- MaxReplyTurns, MaxCommands <- MaxReplaced, Systems <- 1,
  reply <- v1, made <- v2, channel <- v3, running <- v4, turns <- v5,
  replaced <- v6, streaming <- v7, messages <- v8, cancellation <- v9,
  rendered <- v10, streamed <- v11, printed <- v12, replayed <- v13

InitScrollback == component = "scrollback" /\ Scrollback!Init /\ Unused(13)

NextScrollback == component = "scrollback" /\ Scrollback!Next /\ Kept(13)

(* The same with reasoning, over one turn.                                  *)
Reasoning == INSTANCE Scrollback WITH
  MaxMessages <- 2, MaxPieces <- 1, MaxReasoning <- 1, MaxTurns <- 1,
  MaxCommands <- 1, Systems <- 2,
  reply <- v1, made <- v2, channel <- v3, running <- v4, turns <- v5,
  replaced <- v6, streaming <- v7, messages <- v8, cancellation <- v9,
  rendered <- v10, streamed <- v11, printed <- v12, replayed <- v13

InitReasoning == component = "reasoning" /\ Reasoning!Init /\ Unused(13)

NextReasoning == component = "reasoning" /\ Reasoning!Next /\ Kept(13)

(* Two short messages of every shape.                                       *)
Transcript == INSTANCE Transcript WITH
  MaxMessages <- 2, MaxLines <- 2, MaxCalls <- 3,
  messages <- v1, expandLatestTools <- v2, expandAllTools <- v3,
  expandLatestThink <- v4, expandAllThink <- v5, copied <- v6

InitTranscript == component = "transcript" /\ Transcript!Init /\ Unused(6)

NextTranscript == component = "transcript" /\ Transcript!Next /\ Kept(6)

(* A palette whose second name is the beginning of the first.               *)
OneWithinOther == << <<"/", "c", "c">>, <<"/", "c">> >>

Composer == INSTANCE Composer WITH
  live <- v1, reading <- v2, value <- v3, cursor <- v4, history <- v5,
  historyIndex <- v6, historyDraft <- v7, selection <- v8, busy <- v9,
  typed <- v10, seen <- v11, left <- v12

InitComposer == component = "composer" /\ Composer!Init /\ Unused(12)

NextComposer == component = "composer" /\ Composer!Next /\ Kept(12)

(* One name, and a history of two to walk in.                               *)
Recall == INSTANCE Composer WITH
  Slash <- "/", Space <- "_", Letters <- {"/", "c", "_"},
  Palette <- << <<"/", "c">> >>, MaxLength <- 2, MaxTyped <- 2,
  MaxHistory <- 2,
  live <- v1, reading <- v2, value <- v3, cursor <- v4, history <- v5,
  historyIndex <- v6, historyDraft <- v7, selection <- v8, busy <- v9,
  typed <- v10, seen <- v11, left <- v12

InitRecall == component = "recall" /\ Recall!Init /\ Unused(12)

NextRecall == component = "recall" /\ Recall!Next /\ Kept(12)

(* Two agent profiles that differ in mode and model.                        *)
TwoProfiles == {[mode |-> "build", model |-> "large"], [mode |-> "plan", model |-> "small"]}

Commands == INSTANCE Commands WITH
  actual <- v1, shown <- v2, compacting <- v3, managingMCP <- v4,
  background <- v5, turn <- v6, inbox <- v7, loop <- v8, err <- v9,
  status <- v10, report <- v11, commands <- v12

InitCommands == component = "commands" /\ Commands!Init /\ Unused(12)

NextCommands == component = "commands" /\ Commands!Next /\ Kept(12)

(* Command lines of up to three tokens and the mode of the settings.        *)
Token(kind, name, value) == [kind |-> kind, name |-> name, value |-> value]
Tokens ==
  {Token("word", "plan", NotGiven), Token("word", "bypass", NotGiven), Token("flag", "yolo", NotGiven),
   Token("flag", "yolo", "false"), Token("flag", "approval-mode", NotGiven)}
  \cup {Token("flag", "approval-mode", m) : m \in {"ask", "bypass", "bad"}}

SettingsOf(keys, m, name, agents) ==
  [providers |-> keys, mode |-> m, agent |-> name, agents |-> agents]
NoAgents == [n \in {} |-> {}]
ModeSettings == {SettingsOf("p1" :> "k1", m, "", NoAgents) : m \in {"", "plan", "bypass"}}
ThreeTokens == {<<>>} \cup UNION {[1..n -> Tokens] : n \in 1..3}
YoloOrNot == {[yolo |-> y, keys |-> {}] : y \in BOOLEAN}

Flags == INSTANCE Configuration WITH
  Default <- NotGiven, SaveFails <- LogFails,
  phase <- v1, args <- v2, env <- v3, settings <- v4, config <- v5,
  profiles <- v6, providers <- v7, conversation <- v8, mode <- v9,
  model <- v10, allowed <- v11, current <- v12, turn <- v13, using <- v14,
  chosen <- v15

InitFlags == component = "flags" /\ Flags!Init /\ Unused(15)

NextFlags == component = "flags" /\ Flags!Next /\ Kept(15)

(* Agent profiles and keys; the log may not be written.                     *)
Reviewers ==
  {"reviewer" :> [provider |-> p, mode |-> m, tools |-> t] :
     p \in {"", "p2", "p3"}, m \in {"", "plan", "bad"}, t \in {{}, {"read_file"}}}

AgentSettings ==
  {SettingsOf("p1" :> k1 @@ "p2" :> k2, "", name, agents) :
     k1 \in {"", "sk-...", "k1"}, k2 \in {"sk-...", "k2"}, name \in {"", "reviewer"},
     agents \in {NoAgents} \cup Reviewers}

KeyOrNot == {[yolo |-> FALSE, keys |-> k] : k \in {{}, {"p1"}}}

Agents == INSTANCE Configuration WITH
  CommandLines <- {<<>>}, SettingsFiles <- AgentSettings, Environments <- KeyOrNot,
  Selected <- "p1", Default <- NotGiven, SaveFails <- TRUE,
  phase <- v1, args <- v2, env <- v3, settings <- v4, config <- v5,
  profiles <- v6, providers <- v7, conversation <- v8, mode <- v9,
  model <- v10, allowed <- v11, current <- v12, turn <- v13, using <- v14,
  chosen <- v15

InitAgents == component = "agents" /\ Agents!Init /\ Unused(15)

NextAgents == component = "agents" /\ Agents!Next /\ Kept(15)

(* Two processes, two servers, two edits.                                   *)
SettingsFile == INSTANCE SettingsFile WITH
  Together <- FALSE,
  file <- v1, temps <- v2, at <- v3, wanted <- v4, held <- v5, known <- v6,
  ops <- v7, edits <- v8

InitSettingsFile == component = "settings" /\ SettingsFile!Init /\ Unused(8)

NextSettingsFile == component = "settings" /\ SettingsFile!Next /\ Kept(8)

(* Two plugins, one in the project's directory and one that is listed; one  *)
(* name.                                                                    *)
TwoHomes == "team" :> "project" @@ "mine" :> "elsewhere"

Extensions == INSTANCE Extensions WITH
  Names <- CommandNames, Reserved <- ReservedNames,
  same <- v1, at <- v2, roots <- v3, queue <- v4, seen <- v5, commands <- v6,
  hooks <- v7, stated <- v8, listed <- v9, mistakes <- v10

InitExtensions == component = "extensions" /\ Extensions!Init /\ Unused(10)

NextExtensions == component = "extensions" /\ Extensions!Next /\ Kept(10)

(* One plugin and a name that is reserved.                                  *)
OneHome == "team" :> "project"

OnePlugin == INSTANCE Extensions WITH
  Names <- {"explain", "review"}, Reserved <- {"review"}, Plugins <- {"team"},
  Home <- OneHome,
  same <- v1, at <- v2, roots <- v3, queue <- v4, seen <- v5, commands <- v6,
  hooks <- v7, stated <- v8, listed <- v9, mistakes <- v10

InitOnePlugin == component = "one_plugin" /\ OnePlugin!Init /\ Unused(10)

NextOnePlugin == component = "one_plugin" /\ OnePlugin!Next /\ Kept(10)

(* Three directories with or without instruction files.                     *)
Instructions == INSTANCE Instructions WITH
  MayBeShut <- FALSE,
  git <- v1, agents <- v2, claude <- v3, shut <- v4, at <- v5, top <- v6,
  left <- v7, sources <- v8

InitInstructions == component = "instructions" /\ Instructions!Init /\ Unused(8)

NextInstructions == component = "instructions" /\ Instructions!Next /\ Kept(8)

(* Two directories with files of every kind.                                *)
Layers == INSTANCE Instructions WITH
  Depth <- 2, Files <- {"absent", "text", "empty", "large"},
  MayBeShut <- FALSE,
  git <- v1, agents <- v2, claude <- v3, shut <- v4, at <- v5, top <- v6,
  left <- v7, sources <- v8

InitLayers == component = "layers" /\ Layers!Init /\ Unused(8)

NextLayers == component = "layers" /\ Layers!Next /\ Kept(8)

(* Up to three MCP servers and two language servers.                        *)
Prefixes(seq) == {SubSeq(seq, 1, n) : n \in 0..Len(seq)}
ConfiguredServers == [mcp : Prefixes(<<"m1", "m2", "m3">>), lsp : Prefixes(<<"l1", "l2">>)]

Startup == INSTANCE Startup WITH
  HooksFail <- FALSE, SavesFail <- FALSE,
  servers <- v1, step <- v2, withTools <- v3, open <- v4, connected <- v5,
  starter <- v6, closers <- v7, tasks <- v8

InitStartup == component = "startup" /\ Startup!Init /\ Unused(8)

NextStartup == component = "startup" /\ Startup!Next /\ Kept(8)

(* Children two deep, two delegations of two steps.                         *)
Delegation == INSTANCE Delegation WITH
  stage <- v1, depth <- v2, created <- v3, session <- v4, steps <- v5,
  denials <- v6, outcome <- v7, cancelled <- v8, trees <- v9, metadata <- v10,
  half <- v11, made <- v12, reported <- v13

InitDelegation == component = "delegation" /\ Delegation!Init /\ Unused(13)

NextDelegation == component = "delegation" /\ Delegation!Next /\ Kept(13)

Init ==
  /\ component \in Checked
  /\ \/ InitTerminal
     \/ InitScrollback
     \/ InitReasoning
     \/ InitTranscript
     \/ InitComposer
     \/ InitRecall
     \/ InitCommands
     \/ InitFlags
     \/ InitAgents
     \/ InitSettingsFile
     \/ InitExtensions
     \/ InitOnePlugin
     \/ InitInstructions
     \/ InitLayers
     \/ InitStartup
     \/ InitDelegation

Next ==
  \/ NextTerminal
  \/ NextScrollback
  \/ NextReasoning
  \/ NextTranscript
  \/ NextComposer
  \/ NextRecall
  \/ NextCommands
  \/ NextFlags
  \/ NextAgents
  \/ NextSettingsFile
  \/ NextExtensions
  \/ NextOnePlugin
  \/ NextInstructions
  \/ NextLayers
  \/ NextStartup
  \/ NextDelegation

ASSUME ComponentsAssumption ==
  /\ Terminal!TerminalTurnAssumption
  /\ Scrollback!ScrollbackAssumption
  /\ Reasoning!ScrollbackAssumption
  /\ Transcript!TranscriptAssumption
  /\ Composer!ComposerAssumption
  /\ Recall!ComposerAssumption
  /\ Commands!CommandsAssumption
  /\ Flags!ConfigurationAssumption
  /\ Agents!ConfigurationAssumption
  /\ SettingsFile!SettingsFileAssumption
  /\ Extensions!ExtensionsAssumption
  /\ OnePlugin!ExtensionsAssumption
  /\ Instructions!InstructionsAssumption
  /\ Layers!InstructionsAssumption
  /\ Startup!StartupAssumption
  /\ Delegation!DelegationAssumption

Spec == Init /\ [][Next]_vars

(* The variables of every component keep to their types.                    *)
TypeOK ==
  /\ component = "terminal" => Terminal!TypeOK
  /\ component = "scrollback" => Scrollback!TypeOK
  /\ component = "reasoning" => Reasoning!TypeOK
  /\ component = "transcript" => Transcript!TypeOK
  /\ component = "composer" => Composer!TypeOK
  /\ component = "recall" => Recall!TypeOK
  /\ component = "commands" => Commands!TypeOK
  /\ component = "agents" => Agents!TypeOK
  /\ component = "delegation" => Delegation!TypeOK

(* A decision is taken for the call the user was shown when giving it:      *)
(* neither a second answer to one menu nor the answer to a call that died   *)
(* with its turn reaches a later one. And when the terminal blocks on a     *)
(* prompt, the last turn is over and all it said has been shown.            *)
DecisionIsForItsCall ==
  component = "terminal" =>
   /\ Terminal!DecisionIsForItsCall
   /\ Terminal!PromptIsLast

(* The text of a reply is written from its start, without a gap and not     *)
(* twice on account of its notifications, whichever chunks were lost and    *)
(* whenever the end of the turn overtook its last messages; every committed *)
(* message and result they brought is written, and not missing where a      *)
(* command shows it again. What else a command installs is not meant.       *)
ReplyIsPrintedOnce ==
  /\ component = "scrollback" =>
     /\ Scrollback!NothingTwice
     /\ Scrollback!InOrder
     /\ Scrollback!EverythingCommittedIsWritten
  /\ component = "reasoning" =>
     /\ Reasoning!NothingTwice
     /\ Reasoning!InOrder
     /\ Reasoning!EverythingCommittedIsWritten

(* The summaries name every call of a message in order; what a fold hides   *)
(* and counts is what expanding shows; "latest" expands what it names, and  *)
(* a newer message that cannot be expanded does not take that away; an open *)
(* block of code is never copied, the last closed one is.                   *)
FoldedIsWhatExpands ==
  component = "transcript" =>
   /\ Transcript!GroupsAreTheCalls
   /\ Transcript!FoldCountsTheRest
   /\ Transcript!CopyTakesLastBlock
   /\ Transcript!ExpandableStaysExpanded

(* The read loop decides for itself whether an Enter completes and prints   *)
(* the draft when it does not, and the composer decides again: what the     *)
(* scrollback shows as entered is what was submitted. A draft that is only  *)
(* the beginning of a command's name is completed first, and however far Up *)
(* has walked into history, coming back down brings the draft back.         *)
EnteredIsSubmitted ==
  [][ /\ component = "composer" =>
          /\ Composer!EchoIsWhatRuns'
          /\ Composer!PartialNeverRunsStep
          /\ Composer!DraftComesBackStep
      /\ component = "recall" =>
          /\ Recall!EchoIsWhatRuns'
          /\ Recall!PartialNeverRunsStep
          /\ Recall!DraftComesBackStep ]_vars

(* The mode, the model and the conversation on the screen are those the     *)
(* next prompt runs with, whatever commands succeeded or failed; and no     *)
(* turn runs while the conversation is compacted or the tools of a server   *)
(* are taken away or put back, nor two of those at once.                    *)
ShownIsActual ==
  component = "commands" =>
   /\ Commands!ShownIsActual
   /\ Commands!NoTurnDuringBackground

(* Prompts are off only when somebody asked for that, and an explicit mode  *)
(* wins wherever it stands among the flags; whatever agents are switched    *)
(* to, a model of the selected provider is built from the resolved          *)
(* credential; between two switches, completed or refused, prompt, model,   *)
(* tools and name belong to one profile, and the mode of a profile is never *)
(* in force over the conversation of another.                               *)
SessionIsAsConfigured ==
  [][ /\ component = "flags" => Flags!BypassIsAskedFor'
      /\ component = "agents" =>
          /\ Agents!SelectedCredentialIsResolved'
          /\ Agents!SwitchIsWhole'
          /\ Agents!ModeFollowsConversationStep ]_vars

(* Whatever crashes or fails the settings file is one that was written to   *)
(* its end, and no process that lives and is not saving has left a          *)
(* temporary file; a file that cannot be parsed is never replaced, and a    *)
(* command changes its one server and nothing else, although others have    *)
(* written the file since it was last read.                                 *)
SettingsSurvive ==
  [][ component = "settings" =>
          /\ SettingsFile!FileIsWhole'
          /\ SettingsFile!NoTempIsLeft'
          /\ SettingsFile!BrokenFileIsKeptStep
          /\ SettingsFile!OtherSettingsAreKeptStep ]_vars

(* A plugin overrides nothing and is overridden by nothing, the explicit    *)
(* command wins over a discovered one and the user's over the project's,    *)
(* hooks of a plugin found twice run once, and a mistake is refused exactly *)
(* where the session would use it; of the instructions nothing beyond the   *)
(* nearest .git is heard, and every directory that has guidance is, once    *)
(* and outermost first.                                                     *)
ConfiguredIsHeard ==
  /\ component = "extensions" =>
     /\ Extensions!PluginCommandsAreItsOwn
     /\ Extensions!FirstClaimWins
     /\ Extensions!HooksRunOnce
     /\ Extensions!RefusedForAMistake
  /\ component = "one_plugin" =>
     /\ OnePlugin!PluginCommandsAreItsOwn
     /\ OnePlugin!FirstClaimWins
     /\ OnePlugin!HooksRunOnce
     /\ OnePlugin!RefusedForAMistake
  /\ component = "instructions" =>
     /\ Instructions!OnlyTheProjectIsHeard
     /\ Instructions!EveryLayerIsHeard
  /\ component = "layers" =>
     /\ Layers!OnlyTheProjectIsHeard
     /\ Layers!EveryLayerIsHeard

(* What a session opened has one owner, which will close it, whatever step  *)
(* of its start fails; nothing is closed by two of them, and the program    *)
(* ends only when all of it is closed.                                      *)
ExitLeavesNothing ==
  component = "startup" =>
   /\ Startup!OneOwner
   /\ Startup!OwnedIsOpen
   /\ Startup!ExitLeavesNothing

(* No more than maxSubagentDepth children are open at once, and when the    *)
(* call of the user's session is over, however it went, every worktree that *)
(* was added is off the disk and every child is closed.                     *)
DelegationLeavesNothing ==
  component = "delegation" => Delegation!DelegationLeavesNothing

(* "It can send the template placeholder `sk-...' as a real bearer token":  *)
(* config.py:13-17 calls that a credential bug.                             *)
PlaceholderIsNeverSent ==
  component = "agents" => Agents!PlaceholderIsNeverSent
=============================================================================
