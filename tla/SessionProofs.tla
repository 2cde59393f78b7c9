---------------------------- MODULE SessionProofs ----------------------------
(***************************************************************************)
(* What SetupProofs shows of the components that set up a session holds of *)
(* the suite MCInterface, which checks all of them in one run: extensions, *)
(* instructions, the prompt and the configuration.  What ApplicationProofs *)
(* shows of the other components of the suite is in InterfaceProofs.       *)
(***************************************************************************)
EXTENDS MCInterface, TLAPS

\* The theory of how a session is set up, for the suite's constants.
Setup == INSTANCE SetupProofs WITH
  Names <- CommandNames, Reserved <- ReservedNames, SaveFails <- LogFails,
  MayBeShut <- FALSE, Default <- NotGiven,
  same <- v1, scanning <- v2, roots <- v3, queue <- v4, pluginsSeen <- v5, commands <- v6,
  hooks <- v7, stated <- v8, listed <- v9, mistakes <- v10,
  git <- v1, agents <- v2, claude <- v3, shut <- v4, collecting <- v5, top <- v6,
  unreadDirs <- v7, sources <- v8,
  live <- v1, reading <- v2, value <- v3, cursor <- v4, history <- v5, historyIndex <- v6,
  historyDraft <- v7, selection <- v8, busy <- v9, typed <- v10, lastKey <- v11, leftDraft <- v12,
  phase <- v1, args <- v2, env <- v3, settings <- v4, config <- v5, profiles <- v6,
  providers <- v7, conversation <- v8, mode <- v9, model <- v10, allowed <- v11, current <- v12,
  turn <- v13, using <- v14, chosen <- v15

\* The same, for the second instances of its components.
Second == INSTANCE SetupProofs WITH
  Names <- {"explain", "review"}, Reserved <- {"review"}, Plugins <- {"team"}, Home <- OneHome,
  Depth <- 2, Files <- {"absent", "text", "empty", "large"}, MayBeShut <- FALSE,
  Slash <- "/", Space <- "_", Letters <- {"/", "c", "_"}, Palette <- << <<"/", "c">> >>,
  MaxLength <- 2, MaxTyped <- 2, MaxHistory <- 2,
  CommandLines <- {<<>>}, SettingsFiles <- AgentSettings, Environments <- KeyOrNot,
  Selected <- "p1", Default <- NotGiven, SaveFails <- TRUE,
  same <- v1, scanning <- v2, roots <- v3, queue <- v4, pluginsSeen <- v5, commands <- v6,
  hooks <- v7, stated <- v8, listed <- v9, mistakes <- v10,
  git <- v1, agents <- v2, claude <- v3, shut <- v4, collecting <- v5, top <- v6,
  unreadDirs <- v7, sources <- v8,
  live <- v1, reading <- v2, value <- v3, cursor <- v4, history <- v5, historyIndex <- v6,
  historyDraft <- v7, selection <- v8, busy <- v9, typed <- v10, lastKey <- v11, leftDraft <- v12,
  phase <- v1, args <- v2, env <- v3, settings <- v4, config <- v5, profiles <- v6,
  providers <- v7, conversation <- v8, mode <- v9, model <- v10, allowed <- v11, current <- v12,
  turn <- v13, using <- v14, chosen <- v15

\* The instance in the theory is the component of the suite, definition by
\* definition: for the prompt.
LEMMA SameComposer ==
  /\ Setup!Composer!Init <=> Composer!Init
  /\ [Setup!Composer!Next]_Setup!Composer!vars <=> [Composer!Next]_Composer!vars
  /\ Setup!Composer!ComposerAssumption <=> Composer!ComposerAssumption
  /\ Setup!Composer!EchoIsWhatRuns' <=> Composer!EchoIsWhatRuns'
  /\ Setup!Composer!PartialNeverRunsStep <=> Composer!PartialNeverRunsStep
  /\ Setup!Composer!DraftComesBackStep <=> Composer!DraftComesBackStep
<1>1. /\ Setup!Composer!Init <=> Composer!Init
      /\ Setup!Composer!ComposerAssumption <=> Composer!ComposerAssumption
      /\ UNCHANGED Setup!Composer!vars <=> UNCHANGED Composer!vars
  BY ZenonT(60) DEF Setup!Composer!ComposerAssumption, Composer!ComposerAssumption, Setup!Composer!draft,
    Composer!draft, Setup!Composer!walk, Composer!walk, Setup!Composer!vars, Composer!vars,
    Setup!Composer!Init, Composer!Init
<1>2. /\ \A letter : Setup!Composer!Type(letter) <=> Composer!Type(letter)
      /\ Setup!Composer!Backspace <=> Composer!Backspace
      /\ Setup!Composer!Move <=> Composer!Move
      /\ Setup!Composer!OtherKey <=> Composer!OtherKey
      /\ Setup!Composer!Clear <=> Composer!Clear
  BY ZenonT(60) DEF Setup!Composer!Contains, Composer!Contains, Setup!Composer!InsertAt, Composer!InsertAt,
    Setup!Composer!IsPrefix, Composer!IsPrefix, Setup!Composer!Max, Composer!Max,
    Setup!Composer!Min, Composer!Min, Setup!Composer!Range, Composer!Range,
    Setup!Composer!RemoveAt, Composer!RemoveAt, Setup!Composer!draft, Composer!draft,
    Setup!Composer!walk, Composer!walk, Setup!Composer!Strip, Composer!Strip, Setup!Composer!Rows,
    Composer!Rows, Setup!Composer!Matches, Composer!Matches, Setup!Composer!Clamped,
    Composer!Clamped, Setup!Composer!Completion, Composer!Completion, Setup!Composer!Completing,
    Composer!Completing, Setup!Composer!SetValue, Composer!SetValue, Setup!Composer!RowMissing,
    Composer!RowMissing, Setup!Composer!Key, Composer!Key, Setup!Composer!Type, Composer!Type,
    Setup!Composer!Backspace, Composer!Backspace, Setup!Composer!Move, Composer!Move,
    Setup!Composer!OtherKey, Composer!OtherKey, Setup!Composer!Clear, Composer!Clear
<1>3. /\ Setup!Composer!Tab <=> Composer!Tab
      /\ Setup!Composer!SelectUp <=> Composer!SelectUp
      /\ Setup!Composer!SelectDown <=> Composer!SelectDown
      /\ Setup!Composer!RecallUp <=> Composer!RecallUp
      /\ Setup!Composer!RecallDown <=> Composer!RecallDown
  BY ZenonT(60) DEF Setup!Composer!Contains, Composer!Contains, Setup!Composer!IsPrefix, Composer!IsPrefix,
    Setup!Composer!Max, Composer!Max, Setup!Composer!Min, Composer!Min, Setup!Composer!Range,
    Composer!Range, Setup!Composer!draft, Composer!draft, Setup!Composer!walk, Composer!walk,
    Setup!Composer!Strip, Composer!Strip, Setup!Composer!Rows, Composer!Rows,
    Setup!Composer!Matches, Composer!Matches, Setup!Composer!Clamped, Composer!Clamped,
    Setup!Composer!Completion, Composer!Completion, Setup!Composer!Completing,
    Composer!Completing, Setup!Composer!SetValue, Composer!SetValue, Setup!Composer!Complete,
    Composer!Complete, Setup!Composer!RowMissing, Composer!RowMissing, Setup!Composer!Key,
    Composer!Key, Setup!Composer!Tab, Composer!Tab, Setup!Composer!SelectUp, Composer!SelectUp,
    Setup!Composer!SelectDown, Composer!SelectDown, Setup!Composer!RecallUp, Composer!RecallUp,
    Setup!Composer!RecallDown, Composer!RecallDown
<1>4. /\ Setup!Composer!PressEnter <=> Composer!PressEnter
      /\ Setup!Composer!IndexError <=> Composer!IndexError
  BY ZenonT(60) DEF Setup!Composer!Contains, Composer!Contains, Setup!Composer!IsPrefix, Composer!IsPrefix,
    Setup!Composer!Max, Composer!Max, Setup!Composer!Min, Composer!Min, Setup!Composer!Range,
    Composer!Range, Setup!Composer!Last, Composer!Last, Setup!Composer!draft, Composer!draft,
    Setup!Composer!walk, Composer!walk, Setup!Composer!Strip, Composer!Strip, Setup!Composer!Rows,
    Composer!Rows, Setup!Composer!Matches, Composer!Matches, Setup!Composer!Clamped,
    Composer!Clamped, Setup!Composer!Completion, Composer!Completion, Setup!Composer!Completing,
    Composer!Completing, Setup!Composer!SetValue, Composer!SetValue, Setup!Composer!Remembered,
    Composer!Remembered, Setup!Composer!Complete, Composer!Complete, Setup!Composer!Submit,
    Composer!Submit, Setup!Composer!Enter, Composer!Enter, Setup!Composer!RowMissing,
    Composer!RowMissing, Setup!Composer!Key, Composer!Key, Setup!Composer!PressEnter,
    Composer!PressEnter, Setup!Composer!IndexError, Composer!IndexError
<1>5. /\ \A text : Setup!Composer!PutLine(text) <=> Composer!PutLine(text)
      /\ Setup!Composer!EnterLine <=> Composer!EnterLine
      /\ Setup!Composer!BackgroundEnds <=> Composer!BackgroundEnds
      /\ \A S, n : Setup!Composer!SeqOf(S, n) = Composer!SeqOf(S, n)
  BY ZenonT(60) DEF Setup!Composer!Contains, Composer!Contains, Setup!Composer!IsPrefix, Composer!IsPrefix,
    Setup!Composer!Max, Composer!Max, Setup!Composer!Min, Composer!Min, Setup!Composer!Range,
    Composer!Range, Setup!Composer!Last, Composer!Last, Setup!Composer!draft, Composer!draft,
    Setup!Composer!walk, Composer!walk, Setup!Composer!Strip, Composer!Strip, Setup!Composer!Rows,
    Composer!Rows, Setup!Composer!Matches, Composer!Matches, Setup!Composer!Clamped,
    Composer!Clamped, Setup!Composer!Completion, Composer!Completion, Setup!Composer!SetValue,
    Composer!SetValue, Setup!Composer!Remembered, Composer!Remembered, Setup!Composer!Complete,
    Composer!Complete, Setup!Composer!Submit, Composer!Submit, Setup!Composer!Enter,
    Composer!Enter, Setup!Composer!PutLine, Composer!PutLine, Setup!Composer!EnterLine,
    Composer!EnterLine, Setup!Composer!BackgroundEnds, Composer!BackgroundEnds, Setup!Composer!SeqOf, Composer!SeqOf
<1>6. /\ Setup!Composer!EchoIsWhatRuns' <=> Composer!EchoIsWhatRuns'
      /\ Setup!Composer!PartialNeverRunsStep <=> Composer!PartialNeverRunsStep
      /\ Setup!Composer!DraftComesBackStep <=> Composer!DraftComesBackStep
  BY ZenonT(60) DEF Setup!Composer!IsPrefix, Composer!IsPrefix, Setup!Composer!Max, Composer!Max,
    Setup!Composer!Min, Composer!Min, Setup!Composer!Strip, Composer!Strip,
    Setup!Composer!EchoIsWhatRuns, Composer!EchoIsWhatRuns, Setup!Composer!PartialNeverRunsStep,
    Composer!PartialNeverRunsStep, Setup!Composer!DraftComesBackStep, Composer!DraftComesBackStep
<1>7. Setup!Composer!Next <=> Composer!Next BY <1>2, <1>3, <1>4, <1>5 DEF Setup!Composer!Next, Composer!Next
<1> QED BY <1>1, <1>6, <1>7

\* For the extensions.
LEMMA SameExtensions ==
  /\ Setup!Extensions!Init <=> Extensions!Init
  /\ [Setup!Extensions!Next]_Setup!Extensions!vars <=> [Extensions!Next]_Extensions!vars
  /\ Setup!Extensions!ExtensionsAssumption <=> Extensions!ExtensionsAssumption
  /\ Setup!Extensions!PluginCommandsAreItsOwn <=> Extensions!PluginCommandsAreItsOwn
  /\ Setup!Extensions!FirstClaimWins <=> Extensions!FirstClaimWins
  /\ Setup!Extensions!HooksRunOnce <=> Extensions!HooksRunOnce
  /\ Setup!Extensions!RefusedForAMistake <=> Extensions!RefusedForAMistake
BY SMTT(60) DEF Setup!Extensions!SetToSeq, Extensions!SetToSeq, Setup!Extensions!IsInjective,
  Extensions!IsInjective, Setup!Extensions!Cardinality, Extensions!Cardinality,
  Setup!Extensions!IsFiniteSet, Extensions!IsFiniteSet, Setup!Extensions!Range, Extensions!Range,
  Setup!Extensions!ExtensionsAssumption, Extensions!ExtensionsAssumption, Setup!Extensions!Nobody,
  Extensions!Nobody, Setup!Extensions!Roots, Extensions!Roots, Setup!Extensions!Claims,
  Extensions!Claims, Setup!Extensions!NoClaims, Extensions!NoClaims, Setup!Extensions!Claimed,
  Extensions!Claimed, Setup!Extensions!Manifest, Extensions!Manifest, Setup!Extensions!vars,
  Extensions!vars, Setup!Extensions!Sources, Extensions!Sources, Setup!Extensions!Directory,
  Extensions!Directory, Setup!Extensions!Init, Extensions!Init, Setup!Extensions!Settle,
  Extensions!Settle, Setup!Extensions!Discovered, Extensions!Discovered,
  Setup!Extensions!ReadSettings, Extensions!ReadSettings, Setup!Extensions!Discover,
  Extensions!Discover, Setup!Extensions!Found, Extensions!Found, Setup!Extensions!Under,
  Extensions!Under, Setup!Extensions!DiscoverPlugins, Extensions!DiscoverPlugins,
  Setup!Extensions!Seen, Extensions!Seen, Setup!Extensions!SkipSeen, Extensions!SkipSeen,
  Setup!Extensions!Redeclared, Extensions!Redeclared, Setup!Extensions!ReadPlugin,
  Extensions!ReadPlugin, Setup!Extensions!ReadFails, Extensions!ReadFails,
  Setup!Extensions!Invalid, Extensions!Invalid, Setup!Extensions!Validate, Extensions!Validate,
  Setup!Extensions!LoadSkills, Extensions!LoadSkills, Setup!Extensions!SkillFails,
  Extensions!SkillFails, Setup!Extensions!Paths, Extensions!Paths, Setup!Extensions!Next,
  Extensions!Next, Setup!Extensions!Order, Extensions!Order, Setup!Extensions!ClaimsFirst,
  Extensions!ClaimsFirst, Setup!Extensions!FirstClaimWins, Extensions!FirstClaimWins,
  Setup!Extensions!PluginCommandsAreItsOwn, Extensions!PluginCommandsAreItsOwn,
  Setup!Extensions!HooksRunOnce, Extensions!HooksRunOnce, Setup!Extensions!RefusedForAMistake,
  Extensions!RefusedForAMistake

\* And with one plugin and a reserved name.
LEMMA SameOnePlugin ==
  /\ Second!Extensions!Init <=> OnePlugin!Init
  /\ [Second!Extensions!Next]_Second!Extensions!vars <=> [OnePlugin!Next]_OnePlugin!vars
  /\ Second!Extensions!ExtensionsAssumption <=> OnePlugin!ExtensionsAssumption
  /\ Second!Extensions!PluginCommandsAreItsOwn <=> OnePlugin!PluginCommandsAreItsOwn
  /\ Second!Extensions!FirstClaimWins <=> OnePlugin!FirstClaimWins
  /\ Second!Extensions!HooksRunOnce <=> OnePlugin!HooksRunOnce
  /\ Second!Extensions!RefusedForAMistake <=> OnePlugin!RefusedForAMistake
BY SMTT(60) DEF Second!Extensions!SetToSeq, OnePlugin!SetToSeq, Second!Extensions!IsInjective,
  OnePlugin!IsInjective, Second!Extensions!Cardinality, OnePlugin!Cardinality,
  Second!Extensions!IsFiniteSet, OnePlugin!IsFiniteSet, Second!Extensions!Range, OnePlugin!Range,
  Second!Extensions!ExtensionsAssumption, OnePlugin!ExtensionsAssumption,
  Second!Extensions!Nobody, OnePlugin!Nobody, Second!Extensions!Roots, OnePlugin!Roots,
  Second!Extensions!Claims, OnePlugin!Claims, Second!Extensions!NoClaims, OnePlugin!NoClaims,
  Second!Extensions!Claimed, OnePlugin!Claimed, Second!Extensions!Manifest, OnePlugin!Manifest,
  Second!Extensions!vars, OnePlugin!vars, Second!Extensions!Sources, OnePlugin!Sources,
  Second!Extensions!Directory, OnePlugin!Directory, Second!Extensions!Init, OnePlugin!Init,
  Second!Extensions!Settle, OnePlugin!Settle, Second!Extensions!Discovered, OnePlugin!Discovered,
  Second!Extensions!ReadSettings, OnePlugin!ReadSettings, Second!Extensions!Discover,
  OnePlugin!Discover, Second!Extensions!Found, OnePlugin!Found, Second!Extensions!Under,
  OnePlugin!Under, Second!Extensions!DiscoverPlugins, OnePlugin!DiscoverPlugins,
  Second!Extensions!Seen, OnePlugin!Seen, Second!Extensions!SkipSeen, OnePlugin!SkipSeen,
  Second!Extensions!Redeclared, OnePlugin!Redeclared, Second!Extensions!ReadPlugin,
  OnePlugin!ReadPlugin, Second!Extensions!ReadFails, OnePlugin!ReadFails,
  Second!Extensions!Invalid, OnePlugin!Invalid, Second!Extensions!Validate, OnePlugin!Validate,
  Second!Extensions!LoadSkills, OnePlugin!LoadSkills, Second!Extensions!SkillFails,
  OnePlugin!SkillFails, Second!Extensions!Paths, OnePlugin!Paths, Second!Extensions!Next,
  OnePlugin!Next, Second!Extensions!Order, OnePlugin!Order, Second!Extensions!ClaimsFirst,
  OnePlugin!ClaimsFirst, Second!Extensions!FirstClaimWins, OnePlugin!FirstClaimWins,
  Second!Extensions!PluginCommandsAreItsOwn, OnePlugin!PluginCommandsAreItsOwn,
  Second!Extensions!HooksRunOnce, OnePlugin!HooksRunOnce, Second!Extensions!RefusedForAMistake,
  OnePlugin!RefusedForAMistake

\* For the instruction files.
LEMMA SameInstructions ==
  /\ Setup!Instructions!Init <=> Instructions!Init
  /\ [Setup!Instructions!Next]_Setup!Instructions!vars <=> [Instructions!Next]_Instructions!vars
  /\ Setup!Instructions!InstructionsAssumption <=> Instructions!InstructionsAssumption
  /\ Setup!Instructions!OnlyTheProjectIsHeard <=> Instructions!OnlyTheProjectIsHeard
  /\ Setup!Instructions!EveryLayerIsHeard <=> Instructions!EveryLayerIsHeard
BY SMTT(60) DEF Setup!Instructions!SetToSeq, Instructions!SetToSeq,
  Setup!Instructions!IsInjective, Instructions!IsInjective, Setup!Instructions!Cardinality,
  Instructions!Cardinality, Setup!Instructions!IsFiniteSet, Instructions!IsFiniteSet,
  Setup!Instructions!Range, Instructions!Range, Setup!Instructions!InstructionsAssumption,
  Instructions!InstructionsAssumption, Setup!Instructions!Dirs, Instructions!Dirs,
  Setup!Instructions!User, Instructions!User, Setup!Instructions!Names, Instructions!Names,
  Setup!Instructions!files, Instructions!files, Setup!Instructions!vars, Instructions!vars,
  Setup!Instructions!First, Instructions!First, Setup!Instructions!Init, Instructions!Init,
  Setup!Instructions!File, Instructions!File, Setup!Instructions!HasGit, Instructions!HasGit,
  Setup!Instructions!Unchecked, Instructions!Unchecked, Setup!Instructions!HasInstructionFile,
  Instructions!HasInstructionFile, Setup!Instructions!Exists, Instructions!Exists,
  Setup!Instructions!TooLarge, Instructions!TooLarge, Setup!Instructions!Contributes,
  Instructions!Contributes, Setup!Instructions!Walk, Instructions!Walk,
  Setup!Instructions!Downward, Instructions!Downward, Setup!Instructions!Trim, Instructions!Trim,
  Setup!Instructions!ReadUser, Instructions!ReadUser, Setup!Instructions!Chosen,
  Instructions!Chosen, Setup!Instructions!ReadDirectory, Instructions!ReadDirectory,
  Setup!Instructions!Loaded, Instructions!Loaded, Setup!Instructions!Next, Instructions!Next,
  Setup!Instructions!Heard, Instructions!Heard, Setup!Instructions!Project, Instructions!Project,
  Setup!Instructions!OnlyTheProjectIsHeard, Instructions!OnlyTheProjectIsHeard,
  Setup!Instructions!EveryLayerIsHeard, Instructions!EveryLayerIsHeard

\* And those of every kind.
LEMMA SameLayers ==
  /\ Second!Instructions!Init <=> Layers!Init
  /\ [Second!Instructions!Next]_Second!Instructions!vars <=> [Layers!Next]_Layers!vars
  /\ Second!Instructions!InstructionsAssumption <=> Layers!InstructionsAssumption
  /\ Second!Instructions!OnlyTheProjectIsHeard <=> Layers!OnlyTheProjectIsHeard
  /\ Second!Instructions!EveryLayerIsHeard <=> Layers!EveryLayerIsHeard
BY SMTT(60) DEF Second!Instructions!SetToSeq, Layers!SetToSeq, Second!Instructions!IsInjective,
  Layers!IsInjective, Second!Instructions!Cardinality, Layers!Cardinality,
  Second!Instructions!IsFiniteSet, Layers!IsFiniteSet, Second!Instructions!Range, Layers!Range,
  Second!Instructions!InstructionsAssumption, Layers!InstructionsAssumption,
  Second!Instructions!Dirs, Layers!Dirs, Second!Instructions!User, Layers!User,
  Second!Instructions!Names, Layers!Names, Second!Instructions!files, Layers!files,
  Second!Instructions!vars, Layers!vars, Second!Instructions!First, Layers!First,
  Second!Instructions!Init, Layers!Init, Second!Instructions!File, Layers!File,
  Second!Instructions!HasGit, Layers!HasGit, Second!Instructions!Unchecked, Layers!Unchecked,
  Second!Instructions!HasInstructionFile, Layers!HasInstructionFile, Second!Instructions!Exists,
  Layers!Exists, Second!Instructions!TooLarge, Layers!TooLarge, Second!Instructions!Contributes,
  Layers!Contributes, Second!Instructions!Walk, Layers!Walk, Second!Instructions!Downward,
  Layers!Downward, Second!Instructions!Trim, Layers!Trim, Second!Instructions!ReadUser,
  Layers!ReadUser, Second!Instructions!Chosen, Layers!Chosen, Second!Instructions!ReadDirectory,
  Layers!ReadDirectory, Second!Instructions!Loaded, Layers!Loaded, Second!Instructions!Next,
  Layers!Next, Second!Instructions!Heard, Layers!Heard, Second!Instructions!Project,
  Layers!Project, Second!Instructions!OnlyTheProjectIsHeard, Layers!OnlyTheProjectIsHeard,
  Second!Instructions!EveryLayerIsHeard, Layers!EveryLayerIsHeard

\* For the prompt, with a longer history.
LEMMA SameRecall ==
  /\ Second!Composer!Init <=> Recall!Init
  /\ [Second!Composer!Next]_Second!Composer!vars <=> [Recall!Next]_Recall!vars
  /\ Second!Composer!ComposerAssumption <=> Recall!ComposerAssumption
  /\ Second!Composer!EchoIsWhatRuns' <=> Recall!EchoIsWhatRuns'
  /\ Second!Composer!PartialNeverRunsStep <=> Recall!PartialNeverRunsStep
  /\ Second!Composer!DraftComesBackStep <=> Recall!DraftComesBackStep
<1>1. /\ Second!Composer!Init <=> Recall!Init
      /\ Second!Composer!ComposerAssumption <=> Recall!ComposerAssumption
      /\ UNCHANGED Second!Composer!vars <=> UNCHANGED Recall!vars
  BY ZenonT(60) DEF Second!Composer!ComposerAssumption, Recall!ComposerAssumption, Second!Composer!draft,
    Recall!draft, Second!Composer!walk, Recall!walk, Second!Composer!vars, Recall!vars,
    Second!Composer!Init, Recall!Init
<1>2. /\ \A letter : Second!Composer!Type(letter) <=> Recall!Type(letter)
      /\ Second!Composer!Backspace <=> Recall!Backspace
      /\ Second!Composer!Move <=> Recall!Move
      /\ Second!Composer!OtherKey <=> Recall!OtherKey
      /\ Second!Composer!Clear <=> Recall!Clear
  BY ZenonT(60) DEF Second!Composer!Contains, Recall!Contains, Second!Composer!InsertAt, Recall!InsertAt,
    Second!Composer!IsPrefix, Recall!IsPrefix, Second!Composer!Max, Recall!Max,
    Second!Composer!Min, Recall!Min, Second!Composer!Range, Recall!Range,
    Second!Composer!RemoveAt, Recall!RemoveAt, Second!Composer!draft, Recall!draft,
    Second!Composer!walk, Recall!walk, Second!Composer!Strip, Recall!Strip, Second!Composer!Rows,
    Recall!Rows, Second!Composer!Matches, Recall!Matches, Second!Composer!Clamped, Recall!Clamped,
    Second!Composer!Completion, Recall!Completion, Second!Composer!Completing, Recall!Completing,
    Second!Composer!SetValue, Recall!SetValue, Second!Composer!RowMissing, Recall!RowMissing,
    Second!Composer!Key, Recall!Key, Second!Composer!Type, Recall!Type, Second!Composer!Backspace,
    Recall!Backspace, Second!Composer!Move, Recall!Move, Second!Composer!OtherKey,
    Recall!OtherKey, Second!Composer!Clear, Recall!Clear
<1>3. /\ Second!Composer!Tab <=> Recall!Tab
      /\ Second!Composer!SelectUp <=> Recall!SelectUp
      /\ Second!Composer!SelectDown <=> Recall!SelectDown
      /\ Second!Composer!RecallUp <=> Recall!RecallUp
      /\ Second!Composer!RecallDown <=> Recall!RecallDown
  BY ZenonT(60) DEF Second!Composer!Contains, Recall!Contains, Second!Composer!IsPrefix, Recall!IsPrefix,
    Second!Composer!Max, Recall!Max, Second!Composer!Min, Recall!Min, Second!Composer!Range,
    Recall!Range, Second!Composer!draft, Recall!draft, Second!Composer!walk, Recall!walk,
    Second!Composer!Strip, Recall!Strip, Second!Composer!Rows, Recall!Rows,
    Second!Composer!Matches, Recall!Matches, Second!Composer!Clamped, Recall!Clamped,
    Second!Composer!Completion, Recall!Completion, Second!Composer!Completing, Recall!Completing,
    Second!Composer!SetValue, Recall!SetValue, Second!Composer!Complete, Recall!Complete,
    Second!Composer!RowMissing, Recall!RowMissing, Second!Composer!Key, Recall!Key,
    Second!Composer!Tab, Recall!Tab, Second!Composer!SelectUp, Recall!SelectUp,
    Second!Composer!SelectDown, Recall!SelectDown, Second!Composer!RecallUp, Recall!RecallUp,
    Second!Composer!RecallDown, Recall!RecallDown
<1>4. /\ Second!Composer!PressEnter <=> Recall!PressEnter
      /\ Second!Composer!IndexError <=> Recall!IndexError
  BY ZenonT(60) DEF Second!Composer!Contains, Recall!Contains, Second!Composer!IsPrefix, Recall!IsPrefix,
    Second!Composer!Max, Recall!Max, Second!Composer!Min, Recall!Min, Second!Composer!Range,
    Recall!Range, Second!Composer!Last, Recall!Last, Second!Composer!draft, Recall!draft,
    Second!Composer!walk, Recall!walk, Second!Composer!Strip, Recall!Strip, Second!Composer!Rows,
    Recall!Rows, Second!Composer!Matches, Recall!Matches, Second!Composer!Clamped, Recall!Clamped,
    Second!Composer!Completion, Recall!Completion, Second!Composer!Completing, Recall!Completing,
    Second!Composer!SetValue, Recall!SetValue, Second!Composer!Remembered, Recall!Remembered,
    Second!Composer!Complete, Recall!Complete, Second!Composer!Submit, Recall!Submit,
    Second!Composer!Enter, Recall!Enter, Second!Composer!RowMissing, Recall!RowMissing,
    Second!Composer!Key, Recall!Key, Second!Composer!PressEnter, Recall!PressEnter,
    Second!Composer!IndexError, Recall!IndexError
<1>5. /\ \A text : Second!Composer!PutLine(text) <=> Recall!PutLine(text)
      /\ Second!Composer!EnterLine <=> Recall!EnterLine
      /\ Second!Composer!BackgroundEnds <=> Recall!BackgroundEnds
      /\ \A S, n : Second!Composer!SeqOf(S, n) = Recall!SeqOf(S, n)
  BY ZenonT(60) DEF Second!Composer!Contains, Recall!Contains, Second!Composer!IsPrefix, Recall!IsPrefix,
    Second!Composer!Max, Recall!Max, Second!Composer!Min, Recall!Min, Second!Composer!Range,
    Recall!Range, Second!Composer!Last, Recall!Last, Second!Composer!draft, Recall!draft,
    Second!Composer!walk, Recall!walk, Second!Composer!Strip, Recall!Strip, Second!Composer!Rows,
    Recall!Rows, Second!Composer!Matches, Recall!Matches, Second!Composer!Clamped, Recall!Clamped,
    Second!Composer!Completion, Recall!Completion, Second!Composer!SetValue, Recall!SetValue,
    Second!Composer!Remembered, Recall!Remembered, Second!Composer!Complete, Recall!Complete,
    Second!Composer!Submit, Recall!Submit, Second!Composer!Enter, Recall!Enter,
    Second!Composer!PutLine, Recall!PutLine, Second!Composer!EnterLine, Recall!EnterLine,
    Second!Composer!BackgroundEnds, Recall!BackgroundEnds, Second!Composer!SeqOf, Recall!SeqOf
<1>6. /\ Second!Composer!EchoIsWhatRuns' <=> Recall!EchoIsWhatRuns'
      /\ Second!Composer!PartialNeverRunsStep <=> Recall!PartialNeverRunsStep
      /\ Second!Composer!DraftComesBackStep <=> Recall!DraftComesBackStep
  BY ZenonT(60) DEF Second!Composer!IsPrefix, Recall!IsPrefix, Second!Composer!Max, Recall!Max,
    Second!Composer!Min, Recall!Min, Second!Composer!Strip, Recall!Strip,
    Second!Composer!EchoIsWhatRuns, Recall!EchoIsWhatRuns, Second!Composer!PartialNeverRunsStep,
    Recall!PartialNeverRunsStep, Second!Composer!DraftComesBackStep, Recall!DraftComesBackStep
<1>7. Second!Composer!Next <=> Recall!Next BY <1>2, <1>3, <1>4, <1>5 DEF Second!Composer!Next, Recall!Next
<1> QED BY <1>1, <1>6, <1>7

\* For the command line.
LEMMA SameFlags ==
  /\ Setup!Configuration!Init <=> Flags!Init
  /\ [Setup!Configuration!Next]_Setup!Configuration!vars <=> [Flags!Next]_Flags!vars
  /\ Setup!Configuration!ConfigurationAssumption <=> Flags!ConfigurationAssumption
  /\ Setup!Configuration!BypassIsAskedFor' <=> Flags!BypassIsAskedFor'
BY ZenonT(90) DEF Setup!Configuration!Range, Flags!Range, Setup!Configuration!Modes, Flags!Modes,
  Setup!Configuration!Reserved, Flags!Reserved, Setup!Configuration!All, Flags!All,
  Setup!Configuration!ConfigurationAssumption, Flags!ConfigurationAssumption,
  Setup!Configuration!started, Flags!started, Setup!Configuration!agent, Flags!agent,
  Setup!Configuration!vars, Flags!vars, Setup!Configuration!TakesNext, Flags!TakesNext,
  Setup!Configuration!NoFlags, Flags!NoFlags, Setup!Configuration!WithMode, Flags!WithMode,
  Setup!Configuration!Read, Flags!Read, Setup!Configuration!parse, Flags!parse,
  Setup!Configuration!firstNonEmpty, Flags!firstNonEmpty, Setup!Configuration!Placeholder,
  Flags!Placeholder, Setup!Configuration!Credential, Flags!Credential,
  Setup!Configuration!ResolvedMode, Flags!ResolvedMode, Setup!Configuration!LoadFails,
  Flags!LoadFails, Setup!Configuration!load_config, Flags!load_config,
  Setup!Configuration!Profile, Flags!Profile, Setup!Configuration!Providers, Flags!Providers,
  Setup!Configuration!AgentsAreValid, Flags!AgentsAreValid,
  Setup!Configuration!buildAgentProfiles, Flags!buildAgentProfiles, Setup!Configuration!Allowed,
  Flags!Allowed, Setup!Configuration!new_model, Flags!new_model, Setup!Configuration!NotUsing,
  Flags!NotUsing, Setup!Configuration!Init, Flags!Init, Setup!Configuration!Load, Flags!Load,
  Setup!Configuration!NewSession, Flags!NewSession, Setup!Configuration!Idle, Flags!Idle,
  Setup!Configuration!UseStarts, Flags!UseStarts, Setup!Configuration!UseReplaces,
  Flags!UseReplaces, Setup!Configuration!UseSetsMode, Flags!UseSetsMode,
  Setup!Configuration!UseEnds, Flags!UseEnds, Setup!Configuration!SetPermissionMode,
  Flags!SetPermissionMode, Setup!Configuration!TakeTurn, Flags!TakeTurn,
  Setup!Configuration!EndTurn, Flags!EndTurn, Setup!Configuration!Failed, Flags!Failed,
  Setup!Configuration!Next, Flags!Next, Setup!Configuration!Reached, Flags!Reached,
  Setup!Configuration!Given, Flags!Given, Setup!Configuration!BypassIsAskedFor,
  Flags!BypassIsAskedFor

\* And for the agents.
LEMMA SameAgents ==
  /\ Second!Configuration!Init <=> Agents!Init
  /\ [Second!Configuration!Next]_Second!Configuration!vars <=> [Agents!Next]_Agents!vars
  /\ Second!Configuration!ConfigurationAssumption <=> Agents!ConfigurationAssumption
  /\ Second!Configuration!SelectedCredentialIsResolved' <=> Agents!SelectedCredentialIsResolved'
  /\ Second!Configuration!SwitchIsWhole' <=> Agents!SwitchIsWhole'
  /\ Second!Configuration!ModeFollowsConversationStep <=> Agents!ModeFollowsConversationStep
BY ZenonT(90) DEF Second!Configuration!Range, Agents!Range, Second!Configuration!Modes,
  Agents!Modes, Second!Configuration!Reserved, Agents!Reserved, Second!Configuration!All,
  Agents!All, Second!Configuration!ConfigurationAssumption, Agents!ConfigurationAssumption,
  Second!Configuration!started, Agents!started, Second!Configuration!agent, Agents!agent,
  Second!Configuration!vars, Agents!vars, Second!Configuration!TakesNext, Agents!TakesNext,
  Second!Configuration!NoFlags, Agents!NoFlags, Second!Configuration!WithMode, Agents!WithMode,
  Second!Configuration!Read, Agents!Read, Second!Configuration!parse, Agents!parse,
  Second!Configuration!firstNonEmpty, Agents!firstNonEmpty, Second!Configuration!Placeholder,
  Agents!Placeholder, Second!Configuration!Credential, Agents!Credential,
  Second!Configuration!ResolvedMode, Agents!ResolvedMode, Second!Configuration!LoadFails,
  Agents!LoadFails, Second!Configuration!load_config, Agents!load_config,
  Second!Configuration!Profile, Agents!Profile, Second!Configuration!Providers, Agents!Providers,
  Second!Configuration!AgentsAreValid, Agents!AgentsAreValid,
  Second!Configuration!buildAgentProfiles, Agents!buildAgentProfiles,
  Second!Configuration!Allowed, Agents!Allowed, Second!Configuration!new_model, Agents!new_model,
  Second!Configuration!NotUsing, Agents!NotUsing, Second!Configuration!Init, Agents!Init,
  Second!Configuration!Load, Agents!Load, Second!Configuration!NewSession, Agents!NewSession,
  Second!Configuration!Idle, Agents!Idle, Second!Configuration!UseStarts, Agents!UseStarts,
  Second!Configuration!UseReplaces, Agents!UseReplaces, Second!Configuration!UseSetsMode,
  Agents!UseSetsMode, Second!Configuration!UseEnds, Agents!UseEnds,
  Second!Configuration!SetPermissionMode, Agents!SetPermissionMode, Second!Configuration!TakeTurn,
  Agents!TakeTurn, Second!Configuration!EndTurn, Agents!EndTurn, Second!Configuration!Failed,
  Agents!Failed, Second!Configuration!Next, Agents!Next,
  Second!Configuration!SelectedCredentialIsResolved, Agents!SelectedCredentialIsResolved,
  Second!Configuration!SwitchIsWhole, Agents!SwitchIsWhole,
  Second!Configuration!ModeFollowsConversationStep, Agents!ModeFollowsConversationStep

-----------------------------------------------------------------------------
(* A behaviour of a suite is one of its component.                         *)

\* The suite begins as the component it chose.
LEMMA BeginsSetup ==
  /\ Init /\ component = "extensions" => Extensions!Init
  /\ Init /\ component = "one_plugin" => OnePlugin!Init
  /\ Init /\ component = "instructions" => Instructions!Init
  /\ Init /\ component = "layers" => Layers!Init
  /\ Init /\ component = "composer" => Composer!Init
  /\ Init /\ component = "recall" => Recall!Init
  /\ Init /\ component = "flags" => Flags!Init
  /\ Init /\ component = "agents" => Agents!Init
BY SMTT(60) DEF Init, InitTerminal, InitScrollback, InitReasoning, InitTranscript, InitComposer,
  InitRecall, InitCommands, InitFlags, InitAgents, InitSettingsFile, InitExtensions,
  InitOnePlugin, InitInstructions, InitLayers, InitStartup, InitDelegation

\* And moves as that one does.
LEMMA MovesSetup ==
  /\ component' = "extensions" /\ [Next]_vars =>
       component = "extensions" /\ (NextExtensions \/ UNCHANGED vars)
  /\ component' = "one_plugin" /\ [Next]_vars =>
       component = "one_plugin" /\ (NextOnePlugin \/ UNCHANGED vars)
  /\ component' = "instructions" /\ [Next]_vars =>
       component = "instructions" /\ (NextInstructions \/ UNCHANGED vars)
  /\ component' = "layers" /\ [Next]_vars =>
       component = "layers" /\ (NextLayers \/ UNCHANGED vars)
  /\ component' = "composer" /\ [Next]_vars =>
       component = "composer" /\ (NextComposer \/ UNCHANGED vars)
  /\ component' = "recall" /\ [Next]_vars =>
       component = "recall" /\ (NextRecall \/ UNCHANGED vars)
  /\ component' = "flags" /\ [Next]_vars =>
       component = "flags" /\ (NextFlags \/ UNCHANGED vars)
  /\ component' = "agents" /\ [Next]_vars =>
       component = "agents" /\ (NextAgents \/ UNCHANGED vars)
BY ZenonT(90) DEF Next, NextTerminal, NextScrollback, NextReasoning, NextTranscript, NextComposer,
  NextRecall, NextCommands, NextFlags, NextAgents, NextSettingsFile, NextExtensions,
  NextOnePlugin, NextInstructions, NextLayers, NextStartup, NextDelegation, Kept, vars

\* It never turns to another.
LEMMA StaysSetup ==
  [Next]_vars => UNCHANGED component
BY SMTT(60) DEF Next, NextTerminal, NextScrollback, NextReasoning, NextTranscript, NextComposer,
  NextRecall, NextCommands, NextFlags, NextAgents, NextSettingsFile, NextExtensions,
  NextOnePlugin, NextInstructions, NextLayers, NextStartup, NextDelegation, Kept, vars

\* Hence its behaviours are those of the component.
LEMMA RunsSetup ==
  /\ component' = "extensions" /\ [Next]_vars =>
       component = "extensions" /\ [Extensions!Next]_Extensions!vars
  /\ component' = "one_plugin" /\ [Next]_vars =>
       component = "one_plugin" /\ [OnePlugin!Next]_OnePlugin!vars
  /\ component' = "instructions" /\ [Next]_vars =>
       component = "instructions" /\ [Instructions!Next]_Instructions!vars
  /\ component' = "layers" /\ [Next]_vars =>
       component = "layers" /\ [Layers!Next]_Layers!vars
  /\ component' = "composer" /\ [Next]_vars =>
       component = "composer" /\ [Composer!Next]_Composer!vars
  /\ component' = "recall" /\ [Next]_vars =>
       component = "recall" /\ [Recall!Next]_Recall!vars
  /\ component' = "flags" /\ [Next]_vars =>
       component = "flags" /\ [Flags!Next]_Flags!vars
  /\ component' = "agents" /\ [Next]_vars =>
       component = "agents" /\ [Agents!Next]_Agents!vars
<1>1. UNCHANGED vars => UNCHANGED Extensions!vars /\ UNCHANGED OnePlugin!vars
  BY DEF vars, Extensions!vars, OnePlugin!vars
<1>2. UNCHANGED vars => UNCHANGED Instructions!vars /\ UNCHANGED Layers!vars
  BY DEF vars, Instructions!files, Instructions!vars, Layers!files, Layers!vars
<1>3. UNCHANGED vars => UNCHANGED Composer!vars /\ UNCHANGED Recall!vars
  BY DEF vars, Composer!draft, Composer!walk, Composer!vars, Recall!draft, Recall!walk,
    Recall!vars
<1>4. UNCHANGED vars => UNCHANGED Flags!vars /\ UNCHANGED Agents!vars
  BY DEF vars, Flags!started, Flags!agent, Flags!vars, Agents!started, Agents!agent, Agents!vars
<1> QED
  BY MovesSetup, <1>1, <1>2, <1>3, <1>4
  DEF NextExtensions, NextOnePlugin, NextInstructions, NextLayers, NextComposer, NextRecall,
    NextFlags, NextAgents

\* app/extensions.py, app/instructions: a plugin overrides nothing and is
\* overridden by nothing, the first claim of a name wins, no hook runs twice, a
\* load fails only for a mistake; and the instructions of the project are heard,
\* all of them and no others, when its directories can be searched.
THEOREM ConfiguredIsAlwaysHeard == Spec => []ConfiguredIsHeard
<1> DEFINE Inv == /\ component = "extensions" => Setup!ExtensionsInv
                  /\ component = "one_plugin" => Second!ExtensionsInv
                  /\ component = "instructions" => Setup!InstructionsInv
                  /\ component = "layers" => Second!InstructionsInv
<1>1. /\ Setup!Extensions!ExtensionsAssumption /\ Second!Extensions!ExtensionsAssumption
      /\ Setup!Instructions!InstructionsAssumption /\ Second!Instructions!InstructionsAssumption
  BY ComponentsAssumption, SameExtensions, SameOnePlugin, SameInstructions, SameLayers
<1>2. Init => Inv
  BY <1>1, BeginsSetup, SameExtensions, SameOnePlugin, SameInstructions, SameLayers,
    Setup!ExtensionsInit, Second!ExtensionsInit, Setup!InstructionsInit, Second!InstructionsInit
<1>3. Inv /\ [Next]_vars => Inv'
  <2>1. (component = "extensions" => Setup!ExtensionsInv) /\ [Next]_vars
          => (component = "extensions" => Setup!ExtensionsInv)'
    BY <1>1, RunsSetup, SameExtensions, Setup!ExtensionsStep
  <2>2. (component = "one_plugin" => Second!ExtensionsInv) /\ [Next]_vars
          => (component = "one_plugin" => Second!ExtensionsInv)'
    BY <1>1, RunsSetup, SameOnePlugin, Second!ExtensionsStep
  <2>3. (component = "instructions" => Setup!InstructionsInv) /\ [Next]_vars
          => (component = "instructions" => Setup!InstructionsInv)'
    BY <1>1, RunsSetup, SameInstructions, Setup!InstructionsStep
  <2>4. (component = "layers" => Second!InstructionsInv) /\ [Next]_vars
          => (component = "layers" => Second!InstructionsInv)'
    BY <1>1, RunsSetup, SameLayers, Second!InstructionsStep
  <2> QED BY <2>1, <2>2, <2>3, <2>4
<1>4. Inv => ConfiguredIsHeard
  BY <1>1, SameExtensions, SameOnePlugin, SameInstructions, SameLayers, Setup!ExtensionsPromise,
    Second!ExtensionsPromise, Setup!InstructionsPromise, Second!InstructionsPromise
  DEF ConfiguredIsHeard
<1> QED BY <1>2, <1>3, <1>4, PTL DEF Spec

\* tui/composer/model.py, tui/terminal.py: what the scrollback shows as entered is
\* what was submitted, a partial name is completed first, and the draft a walk
\* through the history left is there again at its end.
THEOREM EnteredIsAlwaysSubmitted == Spec => EnteredIsSubmitted
<1> DEFINE Inv == /\ component = "composer" => Setup!ComposerInv
                  /\ component = "recall" => Second!ComposerInv
           Step == /\ component = "composer" =>
                       /\ Composer!EchoIsWhatRuns'
                       /\ Composer!PartialNeverRunsStep
                       /\ Composer!DraftComesBackStep
                   /\ component = "recall" =>
                       /\ Recall!EchoIsWhatRuns'
                       /\ Recall!PartialNeverRunsStep
                       /\ Recall!DraftComesBackStep
<1>1. Setup!Composer!ComposerAssumption /\ Second!Composer!ComposerAssumption
  BY ComponentsAssumption, SameComposer, SameRecall
<1>2. Init => Inv
  BY <1>1, BeginsSetup, SameComposer, SameRecall, Setup!ComposerInit, Second!ComposerInit
<1>3. Inv /\ [Next]_vars => Inv'
  <2>1. (component = "composer" => Setup!ComposerInv) /\ [Next]_vars
          => (component = "composer" => Setup!ComposerInv)'
    BY <1>1, RunsSetup, SameComposer, Setup!ComposerStep
  <2>2. (component = "recall" => Second!ComposerInv) /\ [Next]_vars
          => (component = "recall" => Second!ComposerInv)'
    BY <1>1, RunsSetup, SameRecall, Second!ComposerStep
  <2> QED BY <2>1, <2>2
<1>4. Inv /\ Inv' /\ [Next]_vars => Step
  BY <1>1, StaysSetup, RunsSetup, SameComposer, SameRecall, Setup!ComposerPromise,
    Second!ComposerPromise
<1> QED BY <1>2, <1>3, <1>4, PTL DEF Spec, EnteredIsSubmitted

\* cli.py, app/config.py, app/agents.py: prompts are off only when somebody asked
\* for that, the model of the selected provider has the resolved credential, and a
\* switch of agents is whole, with no mode in force over another's conversation.
THEOREM SessionIsAlwaysAsConfigured == Spec => SessionIsAsConfigured
<1> DEFINE Inv == /\ component = "flags" => Setup!ConfigurationInv
                  /\ component = "agents" => Second!ConfigurationInv
           Step == /\ component = "flags" => Flags!BypassIsAskedFor'
                   /\ component = "agents" =>
                       /\ Agents!SelectedCredentialIsResolved'
                       /\ Agents!SwitchIsWhole'
                       /\ Agents!ModeFollowsConversationStep
<1>1. Setup!Configuration!ConfigurationAssumption /\ Second!Configuration!ConfigurationAssumption
  BY ComponentsAssumption, SameFlags, SameAgents
<1>2. Init => Inv
  BY BeginsSetup, SameFlags, SameAgents, Setup!ConfigurationStarts, Second!ConfigurationStarts
<1>3. Inv /\ [Next]_vars => Inv'
  <2>1. (component = "flags" => Setup!ConfigurationInv) /\ [Next]_vars
          => (component = "flags" => Setup!ConfigurationInv)'
    BY RunsSetup, SameFlags, Setup!ConfigurationStep
  <2>2. (component = "agents" => Second!ConfigurationInv) /\ [Next]_vars
          => (component = "agents" => Second!ConfigurationInv)'
    BY RunsSetup, SameAgents, Second!ConfigurationStep
  <2> QED BY <2>1, <2>2
<1>4. /\ Setup!ConfigurationInv' => Setup!Configuration!BypassIsAskedFor'
      /\ Second!ConfigurationInv' => /\ Second!Configuration!SelectedCredentialIsResolved'
                                     /\ Second!Configuration!SwitchIsWhole'
  <2>1. /\ Setup!ConfigurationInv => Setup!Configuration!BypassIsAskedFor
        /\ Second!ConfigurationInv => /\ Second!Configuration!SelectedCredentialIsResolved
                                      /\ Second!Configuration!SwitchIsWhole
    BY <1>1, Setup!SessionIs, Second!SessionIs
  <2> QED BY <2>1, PTL
<1>5. Inv /\ Inv' /\ [Next]_vars => Step
  BY <1>4, StaysSetup, RunsSetup, SameFlags, SameAgents, Second!ModeFollows
<1> QED BY <1>2, <1>3, <1>5, PTL DEF Spec, SessionIsAsConfigured

=============================================================================
