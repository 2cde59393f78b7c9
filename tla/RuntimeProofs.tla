---------------------------- MODULE RuntimeProofs ----------------------------
(***************************************************************************)
(* What ToolsProofs and ServersProofs show of their components holds of    *)
(* the suite MCRuntime, which checks all of them in one run: a behaviour   *)
(* of the suite is a behaviour of the component it began with. So the      *)
(* properties of the run hold for every value of the suite's constants.    *)
(***************************************************************************)
EXTENDS MCRuntime, TLAPS

\* The theories, over the variables the suite gives each component.
Tools == INSTANCE ToolsProofs WITH
  Calls <- PolicyCalls, MaxGranted <- 1, RuleSets <- PolicyRules,
  Risky <- {"bash", "run_command", "write_file", "web_search"},
  UrlWords <- {"http://x"}, RedirectWords <- {">"},
  PathWords <- DOMAIN Places \ {"/w"}, EnvWords <- {"K=v"},
  Deadline <- FetchDeadline,
  Components <- Places, AbsolutePaths <- {"/w", "/w/a"},
  mode <- v1, rules <- v2, always <- v3, pending <- v4, ran <- v5, granted <- v6,
  tool <- v1, requested <- v2, shell <- v3, code <- v4, job <- v5, reaped <- v6, written <- v7,
  consumed <- v8, kept <- v9, truncated <- v10, reader <- v11, commandCancelled <- v12,
  stage <- v13, reason <- v14, lateCut <- v15,
  at <- v1, host <- v2, hop <- v3, address <- v4, open <- v5, dialled <- v6, requests <- v7,
  size <- v8, clock <- v9, cancelled <- v10,
  made <- v1, parent <- v2, derived <- v3, event <- v4, isSet <- v5, children <- v6, values <- v7,
  Provider <- "openai",
  reply <- v1, sent <- v2, block <- v3, loaded <- v4, streamRequests <- v5,
  got <- v6, current <- v7, handed <- v8, ended <- v9,
  Read <- "read", Write <- "write", Shell <- "shell", NoName <- "none",
  Dynamic <- DynamicTools, ToolHooks <- HookCommands, Events <- LifecycleEvents,
  MaxChanges <- MaxRegistryChanges,
  tools <- v1, order <- v2, allowed <- v3, changes <- v4, phase <- v5, called <- v6, left <- v7,
  held <- v8, toolOutcome <- v9, result <- v10, trace <- v11, undoPoint <- v12, lastWrite <- v13,
  callsMade <- v14

\* The same with the other provider.
WithClaude == INSTANCE ToolsProofs WITH
  Calls <- PolicyCalls, MaxGranted <- 1, RuleSets <- PolicyRules,
  Risky <- {"bash", "run_command", "write_file", "web_search"},
  UrlWords <- {"http://x"}, RedirectWords <- {">"},
  PathWords <- DOMAIN Places \ {"/w"}, EnvWords <- {"K=v"},
  Deadline <- FetchDeadline,
  Components <- Places, AbsolutePaths <- {"/w", "/w/a"},
  mode <- v1, rules <- v2, always <- v3, pending <- v4, ran <- v5, granted <- v6,
  tool <- v1, requested <- v2, shell <- v3, code <- v4, job <- v5, reaped <- v6, written <- v7,
  consumed <- v8, kept <- v9, truncated <- v10, reader <- v11, commandCancelled <- v12,
  stage <- v13, reason <- v14, lateCut <- v15,
  at <- v1, host <- v2, hop <- v3, address <- v4, open <- v5, dialled <- v6, requests <- v7,
  size <- v8, clock <- v9, cancelled <- v10,
  made <- v1, parent <- v2, derived <- v3, event <- v4, isSet <- v5, children <- v6, values <- v7,
  Provider <- "claude",
  reply <- v1, sent <- v2, block <- v3, loaded <- v4, streamRequests <- v5,
  got <- v6, current <- v7, handed <- v8, ended <- v9,
  Read <- "read", Write <- "write", Shell <- "shell", NoName <- "none",
  Dynamic <- DynamicTools, ToolHooks <- HookCommands, Events <- LifecycleEvents,
  MaxChanges <- MaxRegistryChanges,
  tools <- v1, order <- v2, allowed <- v3, changes <- v4, phase <- v5, called <- v6, left <- v7,
  held <- v8, toolOutcome <- v9, result <- v10, trace <- v11, undoPoint <- v12, lastWrite <- v13,
  callsMade <- v14

Clients == INSTANCE ServersProofs WITH
  Calls <- Callers, Cancels <- FALSE, SavesFail <- FALSE, ServerAsks <- FALSE,
  Names <- ServerNames,
  nextId <- v1, pending <- v2, answered <- v3, writers <- v4, wedged <- v5, sent <- v6, done <- v7,
  err <- v8, callerStage <- v9, id <- v10, cancelled <- v11, closing <- v12,
  cwd <- v1, moves <- v2, root <- v3, clients <- v4, alive <- v5, started <- v6, rootOf <- v7,
  stage <- v8, desired <- v9, got <- v10, old <- v11, closed <- v12,
  servers <- v1, tools <- v2, mcpClosed <- v3, mcpClosing <- v4, mcpAlive <- v5, mcpStarted <- v6,
  registry <- v7, configs <- v8, saved <- v9, op <- v10,
  phase <- v1, wireNextId <- v2, wirePending <- v3, future <- v4, wireWriters <- v5, wireSent <- v6,
  reading <- v7, wireErr <- v8, wireStage <- v9, wireId <- v10, nth <- v11, expired <- v12,
  answer <- v13

\* The same when the settings may not be written.
Unsaved == INSTANCE ServersProofs WITH
  Calls <- Callers, Cancels <- FALSE, SavesFail <- TRUE, ServerAsks <- FALSE,
  Names <- ServerNames,
  nextId <- v1, pending <- v2, answered <- v3, writers <- v4, wedged <- v5, sent <- v6, done <- v7,
  err <- v8, callerStage <- v9, id <- v10, cancelled <- v11, closing <- v12,
  cwd <- v1, moves <- v2, root <- v3, clients <- v4, alive <- v5, started <- v6, rootOf <- v7,
  stage <- v8, desired <- v9, got <- v10, old <- v11, closed <- v12,
  servers <- v1, tools <- v2, mcpClosed <- v3, mcpClosing <- v4, mcpAlive <- v5, mcpStarted <- v6,
  registry <- v7, configs <- v8, saved <- v9, op <- v10,
  phase <- v1, wireNextId <- v2, wirePending <- v3, future <- v4, wireWriters <- v5, wireSent <- v6,
  reading <- v7, wireErr <- v8, wireStage <- v9, wireId <- v10, nth <- v11, expired <- v12,
  answer <- v13

\* The instance in the theory is the component of the suite, definition by
\* definition.
LEMMA SamePolicy ==
  /\ Tools!Policy!Init <=> Policy!Init
  /\ [Tools!Policy!Next]_Tools!Policy!vars <=> [Policy!Next]_Policy!vars
  /\ Tools!Policy!PolicyAssumption <=> Policy!PolicyAssumption
  /\ Tools!Policy!NothingRunsUngranted <=> Policy!NothingRunsUngranted
BY DEF Tools!Policy!Cardinality, Policy!Cardinality, Tools!Policy!IsFiniteSet, Policy!IsFiniteSet,
  Tools!Policy!NetworkClients, Policy!NetworkClients, Tools!Policy!NetworkPackageManagers,
  Policy!NetworkPackageManagers, Tools!Policy!DestructiveTokens, Policy!DestructiveTokens,
  Tools!Policy!WriteTokens, Policy!WriteTokens, Tools!Policy!ReadOnlyGit, Policy!ReadOnlyGit,
  Tools!Policy!HasAnyToken, Policy!HasAnyToken, Tools!Policy!ContainsNetworkIntent,
  Policy!ContainsNetworkIntent, Tools!Policy!CommandMayWrite, Policy!CommandMayWrite,
  Tools!Policy!IsReadOnlyGitCommand, Policy!IsReadOnlyGitCommand, Tools!Policy!CommandClass,
  Policy!CommandClass, Tools!Policy!FieldsIn, Policy!FieldsIn, Tools!Policy!CommandPaths,
  Policy!CommandPaths, Tools!Policy!CommandEnv, Policy!CommandEnv, Tools!Policy!Modes, Policy!Modes,
  Tools!Policy!PolicyAssumption, Policy!PolicyAssumption, Tools!Policy!NoCall, Policy!NoCall,
  Tools!Policy!NoRun, Policy!NoRun, Tools!Policy!vars, Policy!vars, Tools!Policy!NetworkTools,
  Policy!NetworkTools, Tools!Policy!CommandTools, Policy!CommandTools, Tools!Policy!ReadTools,
  Policy!ReadTools, Tools!Policy!WriteTools, Policy!WriteTools, Tools!Policy!ToolClass,
  Policy!ToolClass, Tools!Policy!PermissionRequest, Policy!PermissionRequest,
  Tools!Policy!NeedsApproval, Policy!NeedsApproval, Tools!Policy!IsPrefixSeq, Policy!IsPrefixSeq,
  Tools!Policy!MatchesPrefix, Policy!MatchesPrefix, Tools!Policy!MatchesPath, Policy!MatchesPath,
  Tools!Policy!DotEnv, Policy!DotEnv, Tools!Policy!TouchesProtectedPath,
  Policy!TouchesProtectedPath, Tools!Policy!Denied, Policy!Denied, Tools!Policy!PathsAllowed,
  Policy!PathsAllowed, Tools!Policy!EnvAllowed, Policy!EnvAllowed, Tools!Policy!Allowed,
  Policy!Allowed, Tools!Policy!NetworkDenied, Policy!NetworkDenied, Tools!Policy!AlwaysAsked,
  Policy!AlwaysAsked, Tools!Policy!ClassifyToolCall, Policy!ClassifyToolCall,
  Tools!Policy!ApprovalKey, Policy!ApprovalKey, Tools!Policy!Decision, Policy!Decision,
  Tools!Policy!Run, Policy!Run, Tools!Policy!ResolveToolCall, Policy!ResolveToolCall,
  Tools!Policy!ResolveApproval, Policy!ResolveApproval, Tools!Policy!SetPermissionMode,
  Policy!SetPermissionMode, Tools!Policy!Init, Policy!Init, Tools!Policy!Next, Policy!Next,
  Tools!Policy!NothingDeniedRuns, Policy!NothingDeniedRuns, Tools!Policy!RiskyRunsWereGranted,
  Policy!RiskyRunsWereGranted, Tools!Policy!GrantIsForOneCall, Policy!GrantIsForOneCall,
  Tools!Policy!NothingRunsUngranted, Policy!NothingRunsUngranted

\* Likewise for commands.
LEMMA SameRunExec ==
  /\ Tools!RunExec!Init <=> RunExec!Init
  /\ [Tools!RunExec!Next]_Tools!RunExec!vars <=> [RunExec!Next]_RunExec!vars
  /\ Tools!RunExec!ExecAssumption <=> RunExec!ExecAssumption
  /\ Tools!RunExec!CommandIsAccountedFor <=> RunExec!CommandIsAccountedFor
BY SMTT(60) DEF Tools!RunExec!ExecAssumption, RunExec!ExecAssumption, Tools!RunExec!vars, RunExec!vars,
  Tools!RunExec!group, RunExec!group, Tools!RunExec!sink, RunExec!sink, Tools!RunExec!call,
  RunExec!call, Tools!RunExec!Lesser, RunExec!Lesser, Tools!RunExec!OutputLimit,
  RunExec!OutputLimit, Tools!RunExec!PipeHeld, RunExec!PipeHeld, Tools!RunExec!Writes,
  RunExec!Writes, Tools!RunExec!StartsJob, RunExec!StartsJob, Tools!RunExec!ShellExits,
  RunExec!ShellExits, Tools!RunExec!JobEnds, RunExec!JobEnds, Tools!RunExec!Reap, RunExec!Reap,
  Tools!RunExec!Keep, RunExec!Keep, Tools!RunExec!ReadChunk, RunExec!ReadChunk,
  Tools!RunExec!StreamEnds, RunExec!StreamEnds, Tools!RunExec!ReaderDone, RunExec!ReaderDone,
  Tools!RunExec!CancelRun, RunExec!CancelRun, Tools!RunExec!Finish, RunExec!Finish,
  Tools!RunExec!KillGroup, RunExec!KillGroup, Tools!RunExec!Cut, RunExec!Cut, Tools!RunExec!Settle,
  RunExec!Settle, Tools!RunExec!TaskCancelled, RunExec!TaskCancelled, Tools!RunExec!Outcome,
  RunExec!Outcome, Tools!RunExec!Init, RunExec!Init, Tools!RunExec!Next, RunExec!Next,
  Tools!RunExec!Alive, RunExec!Alive, Tools!RunExec!IsCut, RunExec!IsCut,
  Tools!RunExec!WholeOutputReturned, RunExec!WholeOutputReturned, Tools!RunExec!CutGroupIsGone,
  RunExec!CutGroupIsGone, Tools!RunExec!CutIsReported, RunExec!CutIsReported,
  Tools!RunExec!CommandIsAccountedFor, RunExec!CommandIsAccountedFor

\* For fetches.
LEMMA SameFetch ==
  /\ Tools!WebFetch!Init <=> Fetch!Init
  /\ [Tools!WebFetch!Next]_Tools!WebFetch!vars <=> [Fetch!Next]_Fetch!vars
  /\ Tools!WebFetch!WebFetchAssumption <=> Fetch!WebFetchAssumption
  /\ Tools!WebFetch!FetchIsGuarded <=> Fetch!FetchIsGuarded
BY SMTT(60) DEF Tools!WebFetch!Cardinality, Fetch!Cardinality, Tools!WebFetch!IsFiniteSet, Fetch!IsFiniteSet,
  Tools!WebFetch!WebFetchAssumption, Fetch!WebFetchAssumption, Tools!WebFetch!vars, Fetch!vars,
  Tools!WebFetch!Waiting, Fetch!Waiting, Tools!WebFetch!Ended, Fetch!Ended, Tools!WebFetch!Nowhere,
  Fetch!Nowhere, Tools!WebFetch!Init, Fetch!Init, Tools!WebFetch!End, Fetch!End,
  Tools!WebFetch!Allowed, Fetch!Allowed, Tools!WebFetch!Begin, Fetch!Begin, Tools!WebFetch!Send,
  Fetch!Send, Tools!WebFetch!Vouched, Fetch!Vouched, Tools!WebFetch!Resolve, Fetch!Resolve,
  Tools!WebFetch!Dial, Fetch!Dial, Tools!WebFetch!TooMany, Fetch!TooMany, Tools!WebFetch!Leave,
  Fetch!Leave, Tools!WebFetch!Redirected, Fetch!Redirected, Tools!WebFetch!Success, Fetch!Success,
  Tools!WebFetch!Breaks, Fetch!Breaks, Tools!WebFetch!TooLarge, Fetch!TooLarge, Tools!WebFetch!Read,
  Fetch!Read, Tools!WebFetch!Answer, Fetch!Answer, Tools!WebFetch!Timeout, Fetch!Timeout,
  Tools!WebFetch!Tick, Fetch!Tick, Tools!WebFetch!Cancel, Fetch!Cancel, Tools!WebFetch!Next,
  Fetch!Next, Tools!WebFetch!OnlyPublicIsDialled, Fetch!OnlyPublicIsDialled,
  Tools!WebFetch!OneConnection, Fetch!OneConnection, Tools!WebFetch!AnswerIsBounded,
  Fetch!AnswerIsBounded, Tools!WebFetch!FetchIsGuarded, Fetch!FetchIsGuarded

\* For the tree of contexts.
LEMMA SameContexts ==
  /\ Tools!RunContext!Init <=> Contexts!Init
  /\ [Tools!RunContext!Next]_Tools!RunContext!vars <=> [Contexts!Next]_Contexts!vars
  /\ Tools!RunContext!RunContextAssumption <=> Contexts!RunContextAssumption
  /\ Tools!RunContext!CancellationFollowsTheRun <=> Contexts!CancellationFollowsTheRun
BY SMTT(60) DEF Tools!RunContext!RunContextAssumption, Contexts!RunContextAssumption,
  Tools!RunContext!NoContext, Contexts!NoContext, Tools!RunContext!Contexts, Contexts!Contexts,
  Tools!RunContext!vars, Contexts!vars, Tools!RunContext!Init, Contexts!Init,
  Tools!RunContext!cancelled, Contexts!cancelled, Tools!RunContext!NewRoot, Contexts!NewRoot,
  Tools!RunContext!adopt, Contexts!adopt, Tools!RunContext!NewChild, Contexts!NewChild,
  Tools!RunContext!WithValue, Contexts!WithValue, Tools!RunContext!heldAfterDerive,
  Contexts!heldAfterDerive, Tools!RunContext!sharedEvent, Contexts!sharedEvent,
  Tools!RunContext!with_value, Contexts!with_value, Tools!RunContext!FollowsChildren,
  Contexts!FollowsChildren, Tools!RunContext!Reached, Contexts!Reached, Tools!RunContext!cancel,
  Contexts!cancel, Tools!RunContext!Done, Contexts!Done, Tools!RunContext!Next, Contexts!Next,
  Tools!RunContext!CallerStopsRun, Contexts!CallerStopsRun, Tools!RunContext!ActionIsItsRun,
  Contexts!ActionIsItsRun, Tools!RunContext!ValuesAreKept, Contexts!ValuesAreKept,
  Tools!RunContext!NoActionIsHeld, Contexts!NoActionIsHeld,
  Tools!RunContext!CancellationFollowsTheRun, Contexts!CancellationFollowsTheRun

\* For a reply of OpenAI.
LEMMA SameOpenAI ==
  /\ Tools!ModelStream!Init <=> OpenAI!Init
  /\ [Tools!ModelStream!Next]_Tools!ModelStream!vars <=> [OpenAI!Next]_OpenAI!vars
  /\ Tools!ModelStream!ModelStreamAssumption <=> OpenAI!ModelStreamAssumption
  /\ Tools!ModelStream!ResponseIsTheReply <=> OpenAI!ResponseIsTheReply
  /\ Tools!ModelStream!ChunksAreTheResponse <=> OpenAI!ChunksAreTheResponse
BY SMTT(60) DEF Tools!ModelStream!Cardinality, OpenAI!Cardinality, Tools!ModelStream!IsFiniteSet,
  OpenAI!IsFiniteSet, Tools!ModelStream!ModelStreamAssumption, OpenAI!ModelStreamAssumption,
  Tools!ModelStream!Indices, OpenAI!Indices, Tools!ModelStream!Replies, OpenAI!Replies,
  Tools!ModelStream!provider, OpenAI!provider, Tools!ModelStream!adapter, OpenAI!adapter,
  Tools!ModelStream!vars, OpenAI!vars, Tools!ModelStream!NoCall, OpenAI!NoCall,
  Tools!ModelStream!NothingGot, OpenAI!NothingGot, Tools!ModelStream!NothingSent,
  OpenAI!NothingSent, Tools!ModelStream!Init, OpenAI!Init, Tools!ModelStream!FreshlyGot,
  OpenAI!FreshlyGot, Tools!ModelStream!next, OpenAI!next, Tools!ModelStream!Streaming,
  OpenAI!Streaming, Tools!ModelStream!HandOver, OpenAI!HandOver, Tools!ModelStream!TextDelta,
  OpenAI!TextDelta, Tools!ModelStream!Refusal, OpenAI!Refusal, Tools!ModelStream!Fragment,
  OpenAI!Fragment, Tools!ModelStream!Sends, OpenAI!Sends, Tools!ModelStream!Builder, OpenAI!Builder,
  Tools!ModelStream!ToolCallDelta, OpenAI!ToolCallDelta, Tools!ModelStream!ContentBlockStart,
  OpenAI!ContentBlockStart, Tools!ModelStream!InputJSONDelta, OpenAI!InputJSONDelta,
  Tools!ModelStream!AfterBlock, OpenAI!AfterBlock, Tools!ModelStream!ContentBlockStop,
  OpenAI!ContentBlockStop, Tools!ModelStream!Complete, OpenAI!Complete, Tools!ModelStream!Begun,
  OpenAI!Begun, Tools!ModelStream!Place, OpenAI!Place, Tools!ModelStream!Built, OpenAI!Built,
  Tools!ModelStream!Response, OpenAI!Response, Tools!ModelStream!Error, OpenAI!Error,
  Tools!ModelStream!Outcome, OpenAI!Outcome, Tools!ModelStream!Finish, OpenAI!Finish,
  Tools!ModelStream!Fail, OpenAI!Fail, Tools!ModelStream!Done, OpenAI!Done, Tools!ModelStream!Next,
  OpenAI!Next, Tools!ModelStream!ResponseIsTheReply, OpenAI!ResponseIsTheReply,
  Tools!ModelStream!ChunksAreTheResponse, OpenAI!ChunksAreTheResponse

\* For one of Claude.
LEMMA SameClaude ==
  /\ WithClaude!ModelStream!Init <=> Claude!Init
  /\ [WithClaude!ModelStream!Next]_WithClaude!ModelStream!vars <=> [Claude!Next]_Claude!vars
  /\ WithClaude!ModelStream!ModelStreamAssumption <=> Claude!ModelStreamAssumption
  /\ WithClaude!ModelStream!ResponseIsTheReply <=> Claude!ResponseIsTheReply
  /\ WithClaude!ModelStream!ChunksAreTheResponse <=> Claude!ChunksAreTheResponse
BY SMTT(60) DEF WithClaude!ModelStream!Cardinality, Claude!Cardinality, WithClaude!ModelStream!IsFiniteSet,
  Claude!IsFiniteSet, WithClaude!ModelStream!ModelStreamAssumption, Claude!ModelStreamAssumption,
  WithClaude!ModelStream!Indices, Claude!Indices, WithClaude!ModelStream!Replies, Claude!Replies,
  WithClaude!ModelStream!provider, Claude!provider, WithClaude!ModelStream!adapter, Claude!adapter,
  WithClaude!ModelStream!vars, Claude!vars, WithClaude!ModelStream!NoCall, Claude!NoCall,
  WithClaude!ModelStream!NothingGot, Claude!NothingGot, WithClaude!ModelStream!NothingSent,
  Claude!NothingSent, WithClaude!ModelStream!Init, Claude!Init, WithClaude!ModelStream!FreshlyGot,
  Claude!FreshlyGot, WithClaude!ModelStream!next, Claude!next, WithClaude!ModelStream!Streaming,
  Claude!Streaming, WithClaude!ModelStream!HandOver, Claude!HandOver,
  WithClaude!ModelStream!TextDelta, Claude!TextDelta, WithClaude!ModelStream!Refusal,
  Claude!Refusal, WithClaude!ModelStream!Fragment, Claude!Fragment, WithClaude!ModelStream!Sends,
  Claude!Sends, WithClaude!ModelStream!Builder, Claude!Builder,
  WithClaude!ModelStream!ToolCallDelta, Claude!ToolCallDelta,
  WithClaude!ModelStream!ContentBlockStart, Claude!ContentBlockStart,
  WithClaude!ModelStream!InputJSONDelta, Claude!InputJSONDelta, WithClaude!ModelStream!AfterBlock,
  Claude!AfterBlock, WithClaude!ModelStream!ContentBlockStop, Claude!ContentBlockStop,
  WithClaude!ModelStream!Complete, Claude!Complete, WithClaude!ModelStream!Begun, Claude!Begun,
  WithClaude!ModelStream!Place, Claude!Place, WithClaude!ModelStream!Built, Claude!Built,
  WithClaude!ModelStream!Response, Claude!Response, WithClaude!ModelStream!Error, Claude!Error,
  WithClaude!ModelStream!Outcome, Claude!Outcome, WithClaude!ModelStream!Finish, Claude!Finish,
  WithClaude!ModelStream!Fail, Claude!Fail, WithClaude!ModelStream!Done, Claude!Done,
  WithClaude!ModelStream!Next, Claude!Next, WithClaude!ModelStream!ResponseIsTheReply,
  Claude!ResponseIsTheReply, WithClaude!ModelStream!ChunksAreTheResponse,
  Claude!ChunksAreTheResponse

\* For the registry of the tools.
LEMMA SameRegistry ==
  /\ Tools!Registry!Init <=> Registry!Init
  /\ [Tools!Registry!Next]_Tools!Registry!vars <=> [Registry!Next]_Registry!vars
  /\ Tools!Registry!ToolRegistryAssumption <=> Registry!ToolRegistryAssumption
  /\ Tools!Registry!EveryToolIsListedOnce <=> Registry!EveryToolIsListedOnce
  /\ Tools!Registry!HooksSurroundTheTool <=> Registry!HooksSurroundTheTool
  /\ Tools!Registry!FinishedIsNotFailed <=> Registry!FinishedIsNotFailed
  /\ Tools!Registry!UndoPointIsLatestWrite <=> Registry!UndoPointIsLatestWrite
  /\ Tools!Registry!EveryEventIsRunStep <=> Registry!EveryEventIsRunStep
BY SMTT(60) DEF Tools!Registry!Cardinality, Registry!Cardinality, Tools!Registry!IsFiniteSet,
  Registry!IsFiniteSet, Tools!Registry!ToSet, Registry!ToSet, Tools!Registry!SeqOf, Registry!SeqOf,
  Tools!Registry!BuiltIn, Registry!BuiltIn, Tools!Registry!Risky, Registry!Risky,
  Tools!Registry!Names, Registry!Names, Tools!Registry!ToolRegistryAssumption,
  Registry!ToolRegistryAssumption, Tools!Registry!registry, Registry!registry, Tools!Registry!work,
  Registry!work, Tools!Registry!undo, Registry!undo, Tools!Registry!vars, Registry!vars,
  Tools!Registry!Init, Registry!Init, Tools!Registry!Batches, Registry!Batches,
  Tools!Registry!Distinct, Registry!Distinct, Tools!Registry!Acceptable, Registry!Acceptable,
  Tools!Registry!Registered, Registry!Registered, Tools!Registry!Change, Registry!Change,
  Tools!Registry!AddTools, Registry!AddTools, Tools!Registry!Filtered, Registry!Filtered,
  Tools!Registry!Without, Registry!Without, Tools!Registry!RemoveTools, Registry!RemoveTools,
  Tools!Registry!ReplaceTools, Registry!ReplaceTools, Tools!Registry!SetAllowed,
  Registry!SetAllowed, Tools!Registry!Specs, Registry!Specs, Tools!Registry!Begin, Registry!Begin,
  Tools!Registry!Did, Registry!Did, Tools!Registry!Called, Registry!Called, Tools!Registry!Fail,
  Registry!Fail, Tools!Registry!PreHookFailed, Registry!PreHookFailed, Tools!Registry!PreHook,
  Registry!PreHook, Tools!Registry!PreHooksDone, Registry!PreHooksDone, Tools!Registry!Finish,
  Registry!Finish, Tools!Registry!UnknownTool, Registry!UnknownTool, Tools!Registry!Tracks,
  Registry!Tracks, Tools!Registry!Start, Registry!Start, Tools!Registry!CheckpointFails,
  Registry!CheckpointFails, Tools!Registry!ToolEnds, Registry!ToolEnds, Tools!Registry!Result,
  Registry!Result, Tools!Registry!PostHook, Registry!PostHook, Tools!Registry!PostHooksDone,
  Registry!PostHooksDone, Tools!Registry!RunHooks, Registry!RunHooks, Tools!Registry!NextEvent,
  Registry!NextEvent, Tools!Registry!EventCommand, Registry!EventCommand, Tools!Registry!Next,
  Registry!Next, Tools!Registry!EveryToolIsListedOnce, Registry!EveryToolIsListedOnce,
  Tools!Registry!Ran, Registry!Ran, Tools!Registry!Count, Registry!Count,
  Tools!Registry!HooksSurroundTheTool, Registry!HooksSurroundTheTool,
  Tools!Registry!FinishedIsNotFailed, Registry!FinishedIsNotFailed,
  Tools!Registry!UndoPointIsLatestWrite, Registry!UndoPointIsLatestWrite,
  Tools!Registry!EveryEventIsRunStep, Registry!EveryEventIsRunStep

\* For a connection to a language server.
LEMMA SameLspClient ==
  /\ Clients!LspClient!Init <=> LspClient!Init
  /\ [Clients!LspClient!Next]_Clients!LspClient!vars <=> [LspClient!Next]_LspClient!vars
  /\ Clients!LspClient!ClientAssumption <=> LspClient!ClientAssumption
  /\ Clients!LspClient!PendingIsAwaited <=> LspClient!PendingIsAwaited
  /\ Clients!LspClient!NobodyWaitsForDeadPipe <=> LspClient!NobodyWaitsForDeadPipe
BY SMTT(60) DEF Clients!LspClient!ClientAssumption, LspClient!ClientAssumption, Clients!LspClient!vars,
  LspClient!vars, Clients!LspClient!Ids, LspClient!Ids, Clients!LspClient!FreshId,
  LspClient!FreshId, Clients!LspClient!Request, LspClient!Request, Clients!LspClient!End,
  LspClient!End, Clients!LspClient!WriteFrame, LspClient!WriteFrame, Clients!LspClient!Drained,
  LspClient!Drained, Clients!LspClient!WriteTimesOut, LspClient!WriteTimesOut,
  Clients!LspClient!Dispatch, LspClient!Dispatch, Clients!LspClient!ReadLoopFails,
  LspClient!ReadLoopFails, Clients!LspClient!PipeFills, LspClient!PipeFills, Clients!LspClient!Wake,
  LspClient!Wake, Clients!LspClient!CancelRun, LspClient!CancelRun, Clients!LspClient!CloseBegin,
  LspClient!CloseBegin, Clients!LspClient!CloseKills, LspClient!CloseKills, Clients!LspClient!Init,
  LspClient!Init, Clients!LspClient!CallerStep, LspClient!CallerStep, Clients!LspClient!Next,
  LspClient!Next, Clients!LspClient!PendingIsAwaited, LspClient!PendingIsAwaited,
  Clients!LspClient!NobodyWaitsForDeadPipe, LspClient!NobodyWaitsForDeadPipe

\* For the manager of the language servers.
LEMMA SameLspManager ==
  /\ Clients!LspManager!Init <=> LspManager!Init
  /\ [Clients!LspManager!Next]_Clients!LspManager!vars <=> [LspManager!Next]_LspManager!vars
  /\ Clients!LspManager!LspAssumption <=> LspManager!LspAssumption
  /\ Clients!LspManager!EveryServerIsOwned <=> LspManager!EveryServerIsOwned
  /\ Clients!LspManager!InstalledServersRun <=> LspManager!InstalledServersRun
  /\ Clients!LspManager!NoServerOutlivesClose <=> LspManager!NoServerOutlivesClose
BY SMTT(60) DEF Clients!LspManager!LspAssumption, LspManager!LspAssumption, Clients!LspManager!vars,
  LspManager!vars, Clients!LspManager!ElementsOf, LspManager!ElementsOf, Clients!LspManager!Begin,
  LspManager!Begin, Clients!LspManager!StartServer, LspManager!StartServer,
  Clients!LspManager!StartFails, LspManager!StartFails, Clients!LspManager!Install,
  LspManager!Install, Clients!LspManager!CloseOld, LspManager!CloseOld, Clients!LspManager!Use,
  LspManager!Use, Clients!LspManager!CallEnds, LspManager!CallEnds, Clients!LspManager!CancelCall,
  LspManager!CancelCall, Clients!LspManager!Move, LspManager!Move, Clients!LspManager!Close,
  LspManager!Close, Clients!LspManager!Init, LspManager!Init, Clients!LspManager!Next,
  LspManager!Next, Clients!LspManager!EveryServerIsOwned, LspManager!EveryServerIsOwned,
  Clients!LspManager!InstalledServersRun, LspManager!InstalledServersRun,
  Clients!LspManager!NoServerOutlivesClose, LspManager!NoServerOutlivesClose

\* For the controller of the MCP servers.
LEMMA SameMcp ==
  /\ Clients!McpManager!Init <=> Mcp!Init
  /\ [Clients!McpManager!Next]_Clients!McpManager!vars <=> [Mcp!Next]_Mcp!vars
  /\ Clients!McpManager!RegistryMatchesManager <=> Mcp!RegistryMatchesManager
  /\ Clients!McpManager!SettingsMatchServers <=> Mcp!SettingsMatchServers
BY SMTT(60) DEF Clients!McpManager!None, Mcp!None, Clients!McpManager!NoOp, Mcp!NoOp,
  Clients!McpManager!vars, Mcp!vars, Clients!McpManager!ToolsOf, Mcp!ToolsOf,
  Clients!McpManager!NamesIn, Mcp!NamesIn, Clients!McpManager!Pairs, Mcp!Pairs,
  Clients!McpManager!BuiltinTools, Mcp!BuiltinTools, Clients!McpManager!Registers, Mcp!Registers,
  Clients!McpManager!Connecting, Mcp!Connecting, Clients!McpManager!ConnectServer,
  Mcp!ConnectServer, Clients!McpManager!ConnectFails, Mcp!ConnectFails, Clients!McpManager!Begin,
  Mcp!Begin, Clients!McpManager!AddBegin, Mcp!AddBegin, Clients!McpManager!ManagerRefuses,
  Mcp!ManagerRefuses, Clients!McpManager!Kill, Mcp!Kill, Clients!McpManager!Installed,
  Mcp!Installed, Clients!McpManager!Finished, Mcp!Finished, Clients!McpManager!AddEnd, Mcp!AddEnd,
  Clients!McpManager!RemoveBegin, Mcp!RemoveBegin, Clients!McpManager!Unregister, Mcp!Unregister,
  Clients!McpManager!RemoveEnd, Mcp!RemoveEnd, Clients!McpManager!ReconnectEnd, Mcp!ReconnectEnd,
  Clients!McpManager!RestartBegin, Mcp!RestartBegin, Clients!McpManager!RestartRefused,
  Mcp!RestartRefused, Clients!McpManager!RestartEnd, Mcp!RestartEnd, Clients!McpManager!Close,
  Mcp!Close, Clients!McpManager!CloseServer, Mcp!CloseServer, Clients!McpManager!ServerStops,
  Mcp!ServerStops, Clients!McpManager!Init, Mcp!Init, Clients!McpManager!Next, Mcp!Next,
  Clients!McpManager!RegistryMatchesManager, Mcp!RegistryMatchesManager,
  Clients!McpManager!SettingsMatchServers, Mcp!SettingsMatchServers

\* For the same when the settings cannot be written.
LEMMA SameMcpUnsaved ==
  /\ Unsaved!McpManager!Init <=> McpUnsaved!Init
  /\ [Unsaved!McpManager!Next]_Unsaved!McpManager!vars <=> [McpUnsaved!Next]_McpUnsaved!vars
  /\ Unsaved!McpManager!NoProcessIsOrphanedStep <=> McpUnsaved!NoProcessIsOrphanedStep
  /\ Unsaved!McpManager!OnlyRemovalDivergesStep <=> McpUnsaved!OnlyRemovalDivergesStep
  /\ Unsaved!McpManager!FailedRestartKeepsServerStep <=> McpUnsaved!FailedRestartKeepsServerStep
BY SMTT(60) DEF Unsaved!McpManager!None, McpUnsaved!None, Unsaved!McpManager!NoOp, McpUnsaved!NoOp,
  Unsaved!McpManager!vars, McpUnsaved!vars, Unsaved!McpManager!ToolsOf, McpUnsaved!ToolsOf,
  Unsaved!McpManager!NamesIn, McpUnsaved!NamesIn, Unsaved!McpManager!Pairs, McpUnsaved!Pairs,
  Unsaved!McpManager!BuiltinTools, McpUnsaved!BuiltinTools, Unsaved!McpManager!Registers,
  McpUnsaved!Registers, Unsaved!McpManager!Connecting, McpUnsaved!Connecting,
  Unsaved!McpManager!ConnectServer, McpUnsaved!ConnectServer, Unsaved!McpManager!ConnectFails,
  McpUnsaved!ConnectFails, Unsaved!McpManager!Begin, McpUnsaved!Begin, Unsaved!McpManager!AddBegin,
  McpUnsaved!AddBegin, Unsaved!McpManager!ManagerRefuses, McpUnsaved!ManagerRefuses,
  Unsaved!McpManager!Kill, McpUnsaved!Kill, Unsaved!McpManager!Installed, McpUnsaved!Installed,
  Unsaved!McpManager!Finished, McpUnsaved!Finished, Unsaved!McpManager!AddEnd, McpUnsaved!AddEnd,
  Unsaved!McpManager!RemoveBegin, McpUnsaved!RemoveBegin, Unsaved!McpManager!Unregister,
  McpUnsaved!Unregister, Unsaved!McpManager!RemoveEnd, McpUnsaved!RemoveEnd,
  Unsaved!McpManager!ReconnectEnd, McpUnsaved!ReconnectEnd, Unsaved!McpManager!RestartBegin,
  McpUnsaved!RestartBegin, Unsaved!McpManager!RestartRefused, McpUnsaved!RestartRefused,
  Unsaved!McpManager!RestartEnd, McpUnsaved!RestartEnd, Unsaved!McpManager!Close, McpUnsaved!Close,
  Unsaved!McpManager!CloseServer, McpUnsaved!CloseServer, Unsaved!McpManager!ServerStops,
  McpUnsaved!ServerStops, Unsaved!McpManager!Init, McpUnsaved!Init, Unsaved!McpManager!Next,
  McpUnsaved!Next, Unsaved!McpManager!Owned, McpUnsaved!Owned,
  Unsaved!McpManager!Orphans, McpUnsaved!Orphans,
  Unsaved!McpManager!NoProcessIsOrphanedStep, McpUnsaved!NoProcessIsOrphanedStep,
  Unsaved!McpManager!Differing, McpUnsaved!Differing,
  Unsaved!McpManager!OnlyRemovalDivergesStep, McpUnsaved!OnlyRemovalDivergesStep,
  Unsaved!McpManager!FailedRestartKeepsServerStep, McpUnsaved!FailedRestartKeepsServerStep

\* For a connection to an MCP server.
LEMMA SameMcpSession ==
  /\ Clients!McpSession!Init <=> McpSession!Init
  /\ [Clients!McpSession!Next]_Clients!McpSession!vars <=> [McpSession!Next]_McpSession!vars
  /\ Clients!McpSession!SessionAssumption <=> McpSession!SessionAssumption
  /\ Clients!McpSession!PendingIsAwaited <=> McpSession!PendingIsAwaited
  /\ Clients!McpSession!LockIsHeldByWriters <=> McpSession!LockIsHeldByWriters
  /\ Clients!McpSession!AnswersAreOwn <=> McpSession!AnswersAreOwn
BY SMTT(60) DEF Clients!McpSession!SessionAssumption, McpSession!SessionAssumption, Clients!McpSession!vars,
  McpSession!vars, Clients!McpSession!connection, McpSession!connection, Clients!McpSession!Ids,
  McpSession!Ids, Clients!McpSession!Nothing, McpSession!Nothing, Clients!McpSession!Asked,
  McpSession!Asked, Clients!McpSession!Allowed, McpSession!Allowed, Clients!McpSession!FreshId,
  McpSession!FreshId, Clients!McpSession!Request, McpSession!Request, Clients!McpSession!Without,
  McpSession!Without, Clients!McpSession!End, McpSession!End, Clients!McpSession!WriteFrame,
  McpSession!WriteFrame, Clients!McpSession!Drained, McpSession!Drained, Clients!McpSession!Deliver,
  McpSession!Deliver, Clients!McpSession!Dispatch, McpSession!Dispatch,
  Clients!McpSession!ReadLoopFails, McpSession!ReadLoopFails, Clients!McpSession!Wake,
  McpSession!Wake, Clients!McpSession!Outcome, McpSession!Outcome, Clients!McpSession!Finish,
  McpSession!Finish, Clients!McpSession!Deadline, McpSession!Deadline,
  Clients!McpSession!CancelLands, McpSession!CancelLands, Clients!McpSession!Close,
  McpSession!Close, Clients!McpSession!Init, McpSession!Init, Clients!McpSession!TaskStep,
  McpSession!TaskStep, Clients!McpSession!Next, McpSession!Next,
  Clients!McpSession!PendingIsAwaited, McpSession!PendingIsAwaited,
  Clients!McpSession!LockIsHeldByWriters, McpSession!LockIsHeldByWriters,
  Clients!McpSession!AnswersAreOwn, McpSession!AnswersAreOwn

-----------------------------------------------------------------------------
(* A behaviour of a suite is one of its component.                         *)

\* The suite begins as the component it chose.
LEMMA Begins ==
  /\ Init /\ component = "policy" => Policy!Init
  /\ Init /\ component = "run_exec" => RunExec!Init
  /\ Init /\ component = "web_fetch" => Fetch!Init
  /\ Init /\ component = "run_context" => Contexts!Init
  /\ Init /\ component = "openai" => OpenAI!Init
  /\ Init /\ component = "claude" => Claude!Init
  /\ Init /\ component = "registry" => Registry!Init
  /\ Init /\ component = "lsp_client" => LspClient!Init
  /\ Init /\ component = "lsp_manager" => LspManager!Init
  /\ Init /\ component = "mcp" => Mcp!Init
  /\ Init /\ component = "mcp_unsaved" => McpUnsaved!Init
  /\ Init /\ component = "mcp_session" => McpSession!Init
BY SMTT(60) DEF Init, InitSession, InitFullQueue, InitHistory, InitFullDisk, InitMetadata, InitCodec,
  InitPolicy, InitWords, InitOpenAI, InitClaude, InitMessages, InitRunExec, InitRegistry, InitFiles,
  InitFetch, InitContexts, InitMcp, InitMcpUnsaved, InitMcpSession, InitLspClient, InitLspManager

\* And moves as that one does, and never turns to another.
LEMMA Moves ==
  /\ component' = "policy" /\ [Next]_vars =>
       component = "policy" /\ (NextPolicy \/ UNCHANGED vars)
  /\ component' = "run_exec" /\ [Next]_vars =>
       component = "run_exec" /\ (NextRunExec \/ UNCHANGED vars)
  /\ component' = "web_fetch" /\ [Next]_vars =>
       component = "web_fetch" /\ (NextFetch \/ UNCHANGED vars)
  /\ component' = "run_context" /\ [Next]_vars =>
       component = "run_context" /\ (NextContexts \/ UNCHANGED vars)
  /\ component' = "openai" /\ [Next]_vars =>
       component = "openai" /\ (NextOpenAI \/ UNCHANGED vars)
  /\ component' = "claude" /\ [Next]_vars =>
       component = "claude" /\ (NextClaude \/ UNCHANGED vars)
  /\ component' = "registry" /\ [Next]_vars =>
       component = "registry" /\ (NextRegistry \/ UNCHANGED vars)
  /\ component' = "lsp_client" /\ [Next]_vars =>
       component = "lsp_client" /\ (NextLspClient \/ UNCHANGED vars)
  /\ component' = "lsp_manager" /\ [Next]_vars =>
       component = "lsp_manager" /\ (NextLspManager \/ UNCHANGED vars)
  /\ component' = "mcp" /\ [Next]_vars =>
       component = "mcp" /\ (NextMcp \/ UNCHANGED vars)
  /\ component' = "mcp_unsaved" /\ [Next]_vars =>
       component = "mcp_unsaved" /\ (NextMcpUnsaved \/ UNCHANGED vars)
  /\ component' = "mcp_session" /\ [Next]_vars =>
       component = "mcp_session" /\ (NextMcpSession \/ UNCHANGED vars)
BY DEF Next, NextSession, NextFullQueue, NextHistory, NextFullDisk, NextMetadata, NextCodec,
  NextPolicy, NextWords, NextOpenAI, NextClaude, NextMessages, NextRunExec, NextRegistry, NextFiles,
  NextFetch, NextContexts, NextMcp, NextMcpUnsaved, NextMcpSession, NextLspClient, NextLspManager,
  Kept, vars

\* Hence its behaviours are those of the component.
LEMMA Runs ==
  /\ component' = "policy" /\ [Next]_vars =>
       component = "policy" /\ [Policy!Next]_Policy!vars
  /\ component' = "run_exec" /\ [Next]_vars =>
       component = "run_exec" /\ [RunExec!Next]_RunExec!vars
  /\ component' = "web_fetch" /\ [Next]_vars =>
       component = "web_fetch" /\ [Fetch!Next]_Fetch!vars
  /\ component' = "run_context" /\ [Next]_vars =>
       component = "run_context" /\ [Contexts!Next]_Contexts!vars
  /\ component' = "openai" /\ [Next]_vars =>
       component = "openai" /\ [OpenAI!Next]_OpenAI!vars
  /\ component' = "claude" /\ [Next]_vars =>
       component = "claude" /\ [Claude!Next]_Claude!vars
  /\ component' = "registry" /\ [Next]_vars =>
       component = "registry" /\ [Registry!Next]_Registry!vars
  /\ component' = "lsp_client" /\ [Next]_vars =>
       component = "lsp_client" /\ [LspClient!Next]_LspClient!vars
  /\ component' = "lsp_manager" /\ [Next]_vars =>
       component = "lsp_manager" /\ [LspManager!Next]_LspManager!vars
  /\ component' = "mcp" /\ [Next]_vars =>
       component = "mcp" /\ [Mcp!Next]_Mcp!vars
  /\ component' = "mcp_unsaved" /\ [Next]_vars =>
       component = "mcp_unsaved" /\ [McpUnsaved!Next]_McpUnsaved!vars
  /\ component' = "mcp_session" /\ [Next]_vars =>
       component = "mcp_session" /\ [McpSession!Next]_McpSession!vars
<1>1. UNCHANGED vars => UNCHANGED Policy!vars
  BY SMTT(60) DEF vars, Policy!vars
<1>2. UNCHANGED vars => UNCHANGED RunExec!vars
  BY SMTT(60) DEF vars, RunExec!vars
<1>3. UNCHANGED vars => UNCHANGED Fetch!vars
  BY SMTT(60) DEF vars, Fetch!vars
<1>4. UNCHANGED vars => UNCHANGED Contexts!vars
  BY SMTT(60) DEF vars, Contexts!vars
<1>5. UNCHANGED vars => UNCHANGED LspClient!vars
  BY SMTT(60) DEF vars, LspClient!vars
<1>6. UNCHANGED vars => UNCHANGED LspManager!vars
  BY DEF vars, LspManager!vars
<1>7. UNCHANGED vars => UNCHANGED Mcp!vars
  BY DEF vars, Mcp!vars
<1>8. UNCHANGED vars => UNCHANGED McpUnsaved!vars
  BY DEF vars, McpUnsaved!vars
<1>9. UNCHANGED vars => UNCHANGED McpSession!vars
  BY SMTT(60) DEF vars, McpSession!vars
<1>10. UNCHANGED vars => UNCHANGED OpenAI!vars
  BY DEF vars, OpenAI!vars, OpenAI!provider, OpenAI!adapter
<1>11. UNCHANGED vars => UNCHANGED Claude!vars
  BY DEF vars, Claude!vars, Claude!provider, Claude!adapter
<1>12. UNCHANGED vars => UNCHANGED Registry!vars
  BY DEF vars, Registry!vars, Registry!registry, Registry!work, Registry!undo
<1> QED
  BY Moves, <1>10, <1>11, <1>12, <1>1, <1>2, <1>3, <1>4, <1>5, <1>6, <1>7, <1>8, <1>9 DEF NextPolicy, NextRunExec,
    NextFetch, NextContexts, NextLspClient, NextLspManager, NextMcp, NextMcpUnsaved,
    NextMcpSession, NextOpenAI, NextClaude, NextRegistry


\* tools/commands.py: what a command printed is counted and what is kept of it
\* fits, a command cut off leaves no process of its group, and is reported as
\* an error.
THEOREM CommandIsAlwaysAccountedFor == Spec => []CommandIsAccountedFor
<1> DEFINE Inv == component = "run_exec" => Tools!CommandInv
<1>1. Tools!RunExec!ExecAssumption BY ComponentsAssumption, SameRunExec
<1>2. Init => Inv BY <1>1, Begins, SameRunExec, Tools!CommandInit
<1>3. Inv /\ [Next]_vars => Inv' BY <1>1, Runs, SameRunExec, Tools!CommandStep
<1>4. Inv => CommandIsAccountedFor
  BY <1>1, SameRunExec, Tools!CommandPromise DEF CommandIsAccountedFor
<1> QED BY <1>2, <1>3, <1>4, PTL DEF Spec

\* docs/tools.md:92: only checked public addresses are dialled, one connection
\* at a time, and an answer is bounded in size and in redirects.
THEOREM FetchIsAlwaysGuarded == Spec => []FetchIsGuarded
<1> DEFINE Inv == component = "web_fetch" => Tools!FetchInv
<1>1. Tools!WebFetch!WebFetchAssumption BY ComponentsAssumption, SameFetch
<1>2. Init => Inv BY <1>1, Begins, SameFetch, Tools!FetchInit
<1>3. Inv /\ [Next]_vars => Inv' BY <1>1, Runs, SameFetch, Tools!FetchStep
<1>4. Inv => FetchIsGuarded BY <1>1, SameFetch, Tools!FetchPromise DEF FetchIsGuarded
<1> QED BY <1>2, <1>3, <1>4, PTL DEF Spec

\* protocol/run_context.py: a cancelled caller has no live run under it, and an
\* action is cancelled with its run and never apart from it.
THEOREM CancellationAlwaysFollows == Spec => []CancellationFollowsTheRun
<1> DEFINE Inv == component = "run_context" => Tools!ContextInv
<1>1. Tools!RunContext!RunContextAssumption BY ComponentsAssumption, SameContexts
<1>2. Init => Inv BY <1>1, Begins, SameContexts, Tools!ContextInit
<1>3. Inv /\ [Next]_vars => Inv' BY <1>1, Runs, SameContexts, Tools!ContextStep
<1>4. Inv => CancellationFollowsTheRun
  BY <1>1, SameContexts, Tools!ContextPromise DEF CancellationFollowsTheRun
<1> QED BY <1>2, <1>3, <1>4, PTL DEF Spec

\* tools/lsp/client.py: no request is left waiting for an answer that cannot
\* come and no language server is left running without an owner.
THEOREM LanguageServersAreAlwaysOwned == Spec => []LanguageServersAreOwned
<1> DEFINE Inv == /\ component = "lsp_client" => Clients!LspInv
                  /\ component = "lsp_manager" => Clients!ManagerInv
<1>1. Clients!LspManager!LspAssumption BY ComponentsAssumption, SameLspManager
<1>2. Init => Inv
  BY <1>1, Begins, SameLspClient, SameLspManager, Clients!LspInit, Clients!ManagerInit
<1>3. Inv /\ [Next]_vars => Inv'
  BY <1>1, Runs, SameLspClient, SameLspManager, Clients!LspStep, Clients!ManagerStep
<1>4. Inv => LanguageServersAreOwned
  BY SameLspClient, SameLspManager DEF LanguageServersAreOwned, Clients!LspInv, Clients!ManagerInv
<1> QED BY <1>2, <1>3, <1>4, PTL DEF Spec

\* The suite never turns to another component.
LEMMA StaysItself == [Next]_vars => component' = component
BY DEF Next, NextSession, NextFullQueue, NextHistory, NextFullDisk, NextMetadata, NextCodec,
  NextPolicy, NextWords, NextOpenAI, NextClaude, NextMessages, NextRunExec, NextRegistry, NextFiles,
  NextFetch, NextContexts, NextMcp, NextMcpUnsaved, NextMcpSession, NextLspClient, NextLspManager,
  Kept, vars

\* llm/openai.py, llm/claude.py: from either provider a response is the whole
\* reply and what was handed over as chunks.
THEOREM ReplyIsAlwaysWhole == Spec => []ReplyIsWhole
<1> DEFINE Inv == /\ component = "openai" => Tools!StreamInv
                  /\ component = "claude" => WithClaude!StreamInv
<1>1. Tools!ModelStream!ModelStreamAssumption /\ WithClaude!ModelStream!ModelStreamAssumption
  BY ComponentsAssumption, SameOpenAI, SameClaude
<1>2. Init => Inv
  BY <1>1, Begins, SameOpenAI, SameClaude, Tools!StreamInit, WithClaude!StreamInit
<1>3. Inv /\ [Next]_vars => Inv'
  BY <1>1, Runs, SameOpenAI, SameClaude, Tools!StreamStep, WithClaude!StreamStep
<1>4. Inv => ReplyIsWhole
  BY SameOpenAI, SameClaude DEF ReplyIsWhole, Tools!StreamInv, WithClaude!StreamInv
<1> QED BY <1>2, <1>3, <1>4, PTL DEF Spec

\* tools/registry.py, app/session.py: every registered tool is listed once, a
\* tool runs between its hooks, which do not change the verdict on it, every
\* event is run, and the undo point is the latest call that may have written.
THEOREM ToolAlwaysRunsBetweenItsHooks == Spec => ToolRunsBetweenItsHooks
<1> DEFINE Inv == component = "registry" => Tools!RegistryInv
           Promise == component = "registry" =>
                        /\ Registry!EveryToolIsListedOnce'
                        /\ Registry!HooksSurroundTheTool'
                        /\ Registry!FinishedIsNotFailed'
                        /\ Registry!UndoPointIsLatestWrite'
                        /\ Registry!EveryEventIsRunStep
<1>1. Tools!Registry!ToolRegistryAssumption BY ComponentsAssumption, SameRegistry
<1>2. Init => Inv BY <1>1, Begins, SameRegistry, Tools!ListStart
<1>3. ASSUME Inv, [Next]_vars PROVE Inv' /\ Promise
  <2>1. component' = "registry" => Tools!RegistryInv' /\ Registry!EveryEventIsRunStep
    BY <1>1, <1>3, Runs, SameRegistry, Tools!RegistryStep
  <2>2. (Tools!RegistryInv => /\ Registry!EveryToolIsListedOnce
                             /\ Registry!HooksSurroundTheTool
                             /\ Registry!FinishedIsNotFailed
                             /\ Registry!UndoPointIsLatestWrite)'
    BY <1>1, SameRegistry, Tools!RegistryPromise, PTL
  <2> QED BY <1>3, <2>1, <2>2, StaysItself
<1>4. Inv /\ [Next]_vars => Inv' BY <1>3
<1>5. Inv /\ [Next]_vars => [Promise]_vars BY <1>3
<1> QED BY <1>2, <1>4, <1>5, PTL DEF Spec, ToolRunsBetweenItsHooks

\* app/mcp.py, tools/mcp/client.py: the offer and the settings follow the
\* connected servers between two operations; when the settings cannot be written,
\* no step leaves a process to nobody but a restart that a close has overtaken,
\* settings and servers part in a removal only, and a failed restart keeps the old
\* server; and every answer goes to the request it is for.
THEOREM McpServersAreAlwaysAccountedFor == Spec => McpServersAreAccountedFor
<1> DEFINE Inv == /\ component = "mcp" => Clients!McpOwned /\ Clients!McpKept
                  /\ component = "mcp_unsaved" => Unsaved!McpOwned /\ Unsaved!SettingsNameIt
                  /\ component = "mcp_session" => Clients!SessionInv
           Promise == /\ component = "mcp" =>
                          /\ Mcp!RegistryMatchesManager'
                          /\ Mcp!SettingsMatchServers'
                      /\ component = "mcp_unsaved" =>
                          /\ McpUnsaved!NoProcessIsOrphanedStep
                          /\ McpUnsaved!OnlyRemovalDivergesStep
                          /\ McpUnsaved!FailedRestartKeepsServerStep
                      /\ component = "mcp_session" =>
                          /\ McpSession!PendingIsAwaited'
                          /\ McpSession!LockIsHeldByWriters'
                          /\ McpSession!AnswersAreOwn'
<1>1. Clients!McpSession!SessionAssumption BY ComponentsAssumption, SameMcpSession
<1>2. Init => Inv
  BY <1>1, Begins, SameMcp, SameMcpUnsaved, SameMcpSession, Clients!McpInit, Unsaved!McpInit,
    Unsaved!NamedInit, Clients!SessionInit
<1>3. ASSUME Inv, [Next]_vars PROVE Inv' /\ Promise
  <2>1. component' = "mcp" => (Clients!McpOwned /\ Clients!McpKept)'
    BY <1>3, Runs, SameMcp, Clients!OwnedStep, Clients!KeptStep
  <2>2. component' = "mcp_unsaved" => /\ Unsaved!McpOwned' /\ Unsaved!SettingsNameIt'
                                      /\ McpUnsaved!NoProcessIsOrphanedStep
                                      /\ McpUnsaved!OnlyRemovalDivergesStep
                                      /\ McpUnsaved!FailedRestartKeepsServerStep
    BY <1>3, Runs, SameMcpUnsaved, Unsaved!OwnedStep, Unsaved!NamedStep, Unsaved!OrphansStep,
      Unsaved!DivergesStep, Unsaved!FailedRestart
  <2>3. component' = "mcp_session" => Clients!SessionInv'
    BY <1>1, <1>3, Runs, SameMcpSession, Clients!SessionStep
  <2>4. (Clients!McpKept => Mcp!RegistryMatchesManager /\ Mcp!SettingsMatchServers)'
    BY SameMcp, Clients!KeptPromise, PTL
  <2>5. (Clients!SessionInv => /\ McpSession!PendingIsAwaited
                              /\ McpSession!LockIsHeldByWriters
                              /\ McpSession!AnswersAreOwn)'
    BY <1>1, SameMcpSession, Clients!SessionPromise, PTL
  <2> QED BY <1>3, <2>1, <2>2, <2>3, <2>4, <2>5, StaysItself
<1>4. Inv /\ [Next]_vars => Inv' BY <1>3
<1>5. Inv /\ [Next]_vars => [Promise]_vars BY <1>3
<1> QED BY <1>2, <1>4, <1>5, PTL DEF Spec, McpServersAreAccountedFor

-----------------------------------------------------------------------------
(* The policy and the analyzer under it.                                   *)

\* The suite's order of the classes is the theory's.
LEMMA SeverityIsRank ==
  ASSUME NEW c
  PROVE  Severity(c) = Tools!Rank(Words!CommandClass(c))
<1> DEFINE order == <<"read-only", "write", "network", "destructive">>
           class == Words!CommandClass(c)
<1>1. class \in {"unknown", "read-only", "write", "network", "destructive"}
  BY DEF Words!CommandClass
<1>2. DOMAIN order = {1, 2, 3, 4} /\ order[1] = "read-only" /\ order[2] = "write"
      /\ order[3] = "network" /\ order[4] = "destructive"
  OBVIOUS
<1>3. Severity(c) = IF class = "unknown" THEN 0 ELSE CHOOSE n \in DOMAIN order : order[n] = class
  BY DEF Severity
<1> HIDE DEF order, class
<1>4. CASE class = "unknown" BY <1>3, <1>4 DEF Tools!Rank, class
<1>5. ASSUME NEW k \in {1, 2, 3, 4}, class = order[k] PROVE Severity(c) = k
  <2>1. \A n \in DOMAIN order : order[n] = class <=> n = k BY <1>2, <1>5
  <2>2. class # "unknown" BY <1>2, <1>5
  <2> QED BY <1>2, <1>3, <2>1, <2>2
<1> QED BY <1>1, <1>2, <1>4, <1>5 DEF Tools!Rank, class

\* The analyzer the policy uses is the one checked word by word.
LEMMA SameWords == \A c : Words!CommandClass(c) = Tools!Policy!CommandClass(c)
BY SMTT(60) DEF Words!CommandClass, Tools!Policy!CommandClass

\* A line is lengthened by one word at its end.
LEMMA Lengthens ==
  /\ Init /\ component = "analyzer" => v1 = <<>>
  /\ component' = "analyzer" /\ [Next]_vars =>
       component = "analyzer" /\ (LongerCommand \/ UNCHANGED v1)
BY DEF Init, InitSession, InitFullQueue, InitHistory, InitFullDisk, InitMetadata, InitCodec,
  InitPolicy, InitWords, InitOpenAI, InitClaude, InitMessages, InitRunExec, InitRegistry, InitFiles,
  InitFetch, InitContexts, InitMcp, InitMcpUnsaved, InitMcpSession, InitLspClient, InitLspManager,
  Next, NextSession, NextFullQueue, NextHistory, NextFullDisk, NextMetadata, NextCodec, NextPolicy,
  NextWords, NextOpenAI, NextClaude, NextMessages, NextRunExec, NextRegistry, NextFiles, NextFetch,
  NextContexts, NextMcp, NextMcpUnsaved, NextMcpSession, NextLspClient, NextLspManager, Kept, vars

\* A line one word longer.
LEMMA LongerKeeps ==
  ASSUME v1 \in Seq(Vocabulary), LongerCommand \/ UNCHANGED v1
  PROVE  v1' \in Seq(Vocabulary) /\ LongerIsNotMilderStep
<1>1. CASE UNCHANGED v1
  <2>1. Severity(v1') = Severity(v1) BY <1>1
  <2>2. Severity(v1) \in Int
    BY SeverityIsRank, SameWords DEF Tools!Policy!CommandClass, Tools!Rank
  <2> QED BY <1>1, <2>1, <2>2 DEF LongerIsNotMilderStep
<1>2. CASE LongerCommand
  <2>1. PICK w \in Vocabulary : v1' = Append(v1, w) BY <1>2 DEF LongerCommand
  <2>2. v1 # <<"git">> =>
          Tools!Rank(Tools!Policy!CommandClass(v1')) >= Tools!Rank(Tools!Policy!CommandClass(v1))
    BY <2>1, Tools!LongerIsNotMilder
  <2>3. v1' \in Seq(Vocabulary) BY <2>1
  <2> QED BY <2>2, <2>3, SeverityIsRank, SameWords DEF LongerIsNotMilderStep
<1> QED BY <1>1, <1>2

\* execution/policy.py, execution/command_analyzer.py: nothing runs that the
\* mode and rules do not allow or the user did not grant, and a command does
\* not get milder by what is added to it.
THEOREM NothingEverRunsUngranted == Spec => NothingRunsUngranted
<1> DEFINE Inv == /\ component = "policy" => Tools!PolicyInv
                  /\ component = "analyzer" => v1 \in Seq(Vocabulary)
           Promise == /\ component = "policy" => Policy!NothingRunsUngranted'
                      /\ component = "analyzer" => LongerIsNotMilderStep
<1>1. Tools!Policy!PolicyAssumption BY ComponentsAssumption, SamePolicy
<1>2. Init => Inv
  <2>1. Init /\ component = "policy" => Tools!PolicyInv BY Begins, SamePolicy, Tools!PolicyInit
  <2>2. <<>> \in Seq(Vocabulary) OBVIOUS
  <2> QED BY <2>1, <2>2, Lengthens
<1>3. ASSUME Inv, [Next]_vars PROVE Inv' /\ Promise
  <2>1. component' = "policy" => Tools!PolicyInv' BY <1>1, <1>3, Runs, SamePolicy, Tools!PolicyStep
  <2>2. component' = "analyzer" => v1' \in Seq(Vocabulary) /\ LongerIsNotMilderStep
    BY <1>3, Lengthens, LongerKeeps
  <2>3. (Tools!PolicyInv => Policy!NothingRunsUngranted)' BY <1>1, SamePolicy, Tools!PolicyPromise,
          PTL
  <2> QED BY <1>3, <2>1, <2>2, <2>3, Lengthens, StaysItself
<1>4. Inv /\ [Next]_vars => Inv' BY <1>3
<1>5. Inv /\ [Next]_vars => [Promise]_vars BY <1>3
<1> QED BY <1>2, <1>4, <1>5, PTL DEF Spec, NothingRunsUngranted
=============================================================================
