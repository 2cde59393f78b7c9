SPECIFICATION Spec
SYMMETRY Symmetry
CONSTANTS
  Checked = {"session", "full_queue", "history", "full_disk", "metadata",
             "codec", "policy", "analyzer", "openai", "claude", "messages",
             "run_exec", "registry", "files", "web_fetch", "run_context",
             "mcp", "mcp_unsaved", "mcp_session", "lsp_client", "lsp_manager"}
  NoTask = NoTask
  NoAsk = NoAsk
  Turn = Turn
  NoCommand = NoCommand
  Corrupt = Corrupt
  Clean = Clean
  Torn = Torn
  NoFile = NoFile
  NoLog = NoLog
  s1 = s1
  s2 = s2
  root1 = root1
  root2 = root2
  DefaultBytes = 2
  MaxBytes = 3
  MaxWritten = 5
  TaskCancels = FALSE
  Hosts = {"a.example", "b.example", "localhost"}
  Refused = {"localhost"}
  Addresses = {"pub1", "pub2", "private"}
  Public = {"pub1", "pub2"}
  MaxRedirects = 3
  Limit = 2
  FetchDeadline = 3
  Keys = {"ids", "subagentDepth"}
  MaxContexts = 4
  MaxPieces = 1
  MaxReplyCalls = 2
  MaxFragments = 2
  MaxReplyRequests = 2
  DynamicTools = {"mcp1", "mcp2"}
  HookCommands = 2
  LifecycleEvents <- ThreeEvents
  MaxToolCalls = 2
  MaxRegistryChanges = 2
  Callers = {"c1", "c2"}
  MaxRequests = 3
  PipeWedges = TRUE
  Roots = {"r1", "r2"}
  NumServers = 2
  MaxStarted = 8
  MaxMoves = 3
  ServerNames = {"n1", "n2"}
  Builtin = {"b"}
  Offers <- ToolOffers
  MaxServers = 4
  Connector = "c1"
  MaxSent = 4
\* The components stop where their bounds, or a command, end.
CHECK_DEADLOCK FALSE
INVARIANTS
  TypeOK
  ReplyIsWhole
  ConversationIsSentWhole
  CommandIsAccountedFor
  FetchIsGuarded
  CancellationFollowsTheRun
  LanguageServersAreOwned
PROPERTIES
  ConversationIsLogged
  ScreenFollowsTurn
  HistoryIsKept
  NothingRunsUngranted
  ToolRunsBetweenItsHooks
  ToolsStayInside
  McpServersAreAccountedFor
