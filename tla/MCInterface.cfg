SPECIFICATION Spec
SYMMETRY AlikeApps
CONSTANTS
  Checked = {"terminal", "scrollback", "reasoning", "transcript", "composer",
             "recall", "commands", "flags", "agents", "settings",
             "extensions", "one_plugin", "instructions", "layers", "startup",
             "delegation"}
  NotGiven = NotGiven
  a = a
  b = b
  Configured <- ConfiguredServers
  maxSubagentDepth = 2
  CutsFail = TRUE
  MaxRuns = 2
  MaxSteps = 2
  Live = TRUE
  Profiles <- TwoProfiles
  MaxCommands = 4
  HooksFail = TRUE
  MaxTurns = 2
  MaxCalls = 3
  MaxInterrupts = 2
  MaxReplies = 2
  MaxPieces = 2
  MaxReasoning = 0
  MaxReplyTurns = 2
  MaxReplaced = 2
  Apps = {a, b}
  Servers = {"x", "y"}
  Values = {"default", "edited"}
  Default = "default"
  UnknownKeys = FALSE
  MaxOps = 4
  MaxEdits = 2
  Slash = "/"
  Space = "_"
  Letters = {"/", "c", "_"}
  Palette <- OneWithinOther
  MaxLength = 3
  MaxTyped = 3
  MaxHistory = 1
  CommandLines <- ThreeTokens
  SettingsFiles <- ModeSettings
  Environments <- YoloOrNot
  Selected = "p1"
  LogFails = FALSE
  CommandNames = {"explain"}
  ReservedNames = {}
  Plugins = {"team", "mine"}
  Home <- TwoHomes
  Depth = 3
  Files = {"absent", "text"}
\* The components stop where their bounds, or the program, end.
CHECK_DEADLOCK FALSE
INVARIANTS
  TypeOK
  DecisionIsForItsCall
  ReplyIsPrintedOnce
  FoldedIsWhatExpands
  ShownIsActual
  ConfiguredIsHeard
  ExitLeavesNothing
  DelegationLeavesNothing
PROPERTIES
  EnteredIsSubmitted
  SessionIsAsConfigured
  SettingsSurvive
