------------------------------ MODULE MCRuntime -----------------------------
(*****************************************************************************)
(* Small instances of the components below the interface: the session and    *)
(* its commands, the permission policy, what passes between the runtime and  *)
(* the model, the tools, and the clients of the servers. They do not call    *)
(* each other here: a behaviour is one of one component, chosen at its       *)
(* start, so the states are those of the components side by side.            *)
(*****************************************************************************)
EXTENDS Integers, Sequences, FiniteSets, TLC

CONSTANTS
  Checked,  \* the components of this run
  NoTask, NoAsk, Turn, NoCommand, Corrupt, Clean, Torn, NoFile, NoLog, s1, s2,
  root1, root2,
  \* what the theorems of RuntimeProofs hold for all values of
  DefaultBytes, MaxBytes, MaxWritten, TaskCancels,
  Hosts, Refused, Addresses, Public, MaxRedirects, Limit, FetchDeadline,
  Keys, MaxContexts,
  MaxPieces, MaxReplyCalls, MaxFragments, MaxReplyRequests,
  DynamicTools, HookCommands, LifecycleEvents, MaxToolCalls, MaxRegistryChanges,
  Callers, MaxRequests, PipeWedges, Roots, NumServers, MaxStarted, MaxMoves,
  ServerNames, Builtin, Offers, MaxServers, Connector, MaxSent

VARIABLES
  component,  \* the one this behaviour is about
  \* its variables, in the order its instance names them
  v1, v2, v3, v4, v5, v6, v7, v8, v9, v10, v11, v12, v13, v14, v15, v16

vars == <<component, v1, v2, v3, v4, v5, v6, v7, v8, v9, v10, v11, v12, v13,
          v14, v15, v16>>

(* The component has n variables, the others are not used and stay so.     *)
Unused(n) ==
  /\ IF n < 2 THEN v2 = "unused" ELSE TRUE
  /\ IF n < 3 THEN v3 = "unused" ELSE TRUE
  /\ IF n < 4 THEN v4 = "unused" ELSE TRUE
  /\ IF n < 5 THEN v5 = "unused" ELSE TRUE
  /\ IF n < 6 THEN v6 = "unused" ELSE TRUE
  /\ IF n < 7 THEN v7 = "unused" ELSE TRUE
  /\ IF n < 8 THEN v8 = "unused" ELSE TRUE
  /\ IF n < 9 THEN v9 = "unused" ELSE TRUE
  /\ IF n < 10 THEN v10 = "unused" ELSE TRUE
  /\ IF n < 11 THEN v11 = "unused" ELSE TRUE
  /\ IF n < 12 THEN v12 = "unused" ELSE TRUE
  /\ IF n < 13 THEN v13 = "unused" ELSE TRUE
  /\ IF n < 14 THEN v14 = "unused" ELSE TRUE
  /\ IF n < 15 THEN v15 = "unused" ELSE TRUE
  /\ IF n < 16 THEN v16 = "unused" ELSE TRUE

Kept(n) ==
  /\ UNCHANGED component
  /\ IF n < 2 THEN UNCHANGED v2 ELSE TRUE
  /\ IF n < 3 THEN UNCHANGED v3 ELSE TRUE
  /\ IF n < 4 THEN UNCHANGED v4 ELSE TRUE
  /\ IF n < 5 THEN UNCHANGED v5 ELSE TRUE
  /\ IF n < 6 THEN UNCHANGED v6 ELSE TRUE
  /\ IF n < 7 THEN UNCHANGED v7 ELSE TRUE
  /\ IF n < 8 THEN UNCHANGED v8 ELSE TRUE
  /\ IF n < 9 THEN UNCHANGED v9 ELSE TRUE
  /\ IF n < 10 THEN UNCHANGED v10 ELSE TRUE
  /\ IF n < 11 THEN UNCHANGED v11 ELSE TRUE
  /\ IF n < 12 THEN UNCHANGED v12 ELSE TRUE
  /\ IF n < 13 THEN UNCHANGED v13 ELSE TRUE
  /\ IF n < 14 THEN UNCHANGED v14 ELSE TRUE
  /\ IF n < 15 THEN UNCHANGED v15 ELSE TRUE
  /\ IF n < 16 THEN UNCHANGED v16 ELSE TRUE

(* The sessions and the workspaces of History are alike.                  *)
Symmetry == Permutations({s1, s2}) \cup Permutations({root1, root2})

(* A turn that another task may cancel, on a queue that never fills.        *)
Session == INSTANCE Session WITH
  NoCall <- NoAsk, Cancellers <- {"x"}, Resetters <- {}, Calls <- {"k"},
  Attachments <- {"a"}, Capacity <- 20, SavesFail <- FALSE, MaxCommits <- 3,
  MaxLog <- 4,
  messages <- v1, state <- v2, pending <- v3, retired <- v4, made <- v5,
  emitted <- v6, hasApproval <- v7, lastApproval <- v8, log <- v9,
  queue <- v10, shown <- v11, staged <- v12, pc <- v13, emit <- v14,
  holder <- v15, raised <- v16

InitSession == component = "session" /\ Session!Init /\ Unused(16)

NextSession == component = "session" /\ Session!Next /\ Kept(16)

(* The same with a reset, on a queue that holds one notification.           *)
FullQueue == INSTANCE Session WITH
  NoCall <- NoAsk, Cancellers <- {"x"}, Resetters <- {"r"}, Calls <- {"k"},
  Attachments <- {}, Capacity <- 1, SavesFail <- FALSE, MaxCommits <- 2,
  MaxLog <- 4,
  messages <- v1, state <- v2, pending <- v3, retired <- v4, made <- v5,
  emitted <- v6, hasApproval <- v7, lastApproval <- v8, log <- v9,
  queue <- v10, shown <- v11, staged <- v12, pc <- v13, emit <- v14,
  holder <- v15, raised <- v16

InitFullQueue == component = "full_queue" /\ FullQueue!Init /\ Unused(16)

NextFullQueue == component = "full_queue" /\ FullQueue!Next /\ Kept(16)

(* Two sessions, two workspaces, one thing to remember; writes may fail.    *)
History == INSTANCE History WITH
  Sessions <- {s1, s2}, Roots <- {root1, root2}, Values <- {"v"},
  KeepNewest <- 1, WritesFail <- TRUE, ActivationFails <- FALSE,
  MaxTranscript <- 5, MaxRecords <- 7, MaxCommands <- 2,
  active <- v1, live <- v2, emitted <- v3, step <- v4, pending <- v5,
  current <- v6, logs <- v7, spec <- v8, where <- v9, memory <- v10,
  promised <- v11, file <- v12, commands <- v13

InitHistory == component = "history" /\ History!Init /\ Unused(13)

NextHistory == component = "history" /\ History!Next /\ Kept(13)

(* The store of one session on a disk that may fill, where a crash may      *)
(* leave a line of any shape.                                               *)
FullDisk == INSTANCE Store WITH
  Sessions <- {s1}, Records <- {"started", "r1", "r2"}, Started <- "started",
  InitialRecords <- {<<>>, <<"r1", "r2">>},
  Residues <- {"nothing", "partial", "noNewline", "whole"}, MaxRecords <- 4,
  files <- v1, meta <- v2, up <- v3, opened <- v4

InitFullDisk == component = "full_disk" /\ FullDisk!Init /\ Unused(4)

NextFullDisk == component = "full_disk" /\ FullDisk!NextOnFullDisk /\ Kept(4)

(* Two sessions, each of them new or left by an older version, and two      *)
(* callers; writes may fail.                                                *)
Metadata == INSTANCE SessionMeta WITH
  Sessions <- {s1, s2}, Callers <- {"turn", "command"}, Titles <- {"x", "y"},
  NumInitial <- 1, NoOne <- "nobody", NoSession <- NoTask, NoMeta <- NoFile,
  Idle <- NoAsk, WritesFail <- TRUE, MaxCalls <- 4, MaxCrashes <- 1,
  meta <- v1, log <- v2, temps <- v3, lock <- v4, call <- v5, session <- v6,
  running <- v7, kept <- v8, deleted <- v9, calls <- v10, crashes <- v11

InitMetadata == component = "metadata" /\ Metadata!Init /\ Unused(11)

NextMetadata == component = "metadata" /\ Metadata!Next /\ Kept(11)

(* Records of the log, with every kind of field, and an instant of three    *)
(* digits of which a datetime holds two.                                    *)
Text == [kind |-> "text"]
ListOf(type) == [kind |-> "list", of |-> type]
Optional(type) == [kind |-> "optional", of |-> type]
Field(type, omitempty, default) == [type |-> type, omitempty |-> omitempty, default |-> default]

StoredMessage ==
  [kind |-> "record", fields |->
    [content |-> Field(Text, TRUE, ""), tool_calls |-> Field(Optional(ListOf(Text)), TRUE, NoFile),
     interrupted |-> Field([kind |-> "flag"], TRUE, FALSE)]]

StoredRecord ==
  [kind |-> "record", fields |->
    [session_id |-> Field(Text, FALSE, ""), turn_id |-> Field(Text, TRUE, ""),
     time |-> Field([kind |-> "time"], FALSE, [second |-> 0, digits |-> <<0, 0, 0>>, offset |-> 0]),
     message |-> Field(Optional(StoredMessage), TRUE, NoFile),
     kept_messages |-> Field(ListOf(StoredMessage), FALSE, <<>>),
     messages |-> Field(ListOf(StoredMessage), TRUE, <<>>)]]

SomeMessages == [content : {"", "x"}, tool_calls : {NoFile, <<>>, <<"x">>}, interrupted : BOOLEAN]

ShortLists == {<<>>} \cup { <<m>> : m \in { x \in SomeMessages : x.content = "" /\ ~x.interrupted } }

SomeRecords ==
  [session_id : {"s"}, turn_id : {"", "t"}, message : {NoFile} \cup SomeMessages,
   time : [second : {1}, digits : {<<0, 0, 0>>, <<0, 7, 0>>, <<7, 0, 7>>}, offset : {0, -5400}],
   kept_messages : ShortLists, messages : ShortLists]

Codec == INSTANCE Codec WITH
  Stored <- StoredRecord, Values <- SomeRecords, Width <- 3, Micro <- 2,
  Depth <- 5, Unknown <- "unknown", None <- NoFile,
  value <- v1, file <- v2, edited <- v3

InitCodec == component = "codec" /\ Codec!Init /\ Unused(3)

NextCodec == component = "codec" /\ Codec!Next /\ Kept(3)

(* A call of every class and a rule of every kind.                          *)
Bash(fields) == [tool |-> "bash", command |-> fields, cwd |-> ".", paths |-> {}, variant |-> 1]
File(name, path) == [tool |-> name, command |-> <<>>, cwd |-> ".", paths |-> {path}, variant |-> 1]

PolicyCalls ==
  { Bash(<<"rm", "./a">>), Bash(<<"git", "status">>), Bash(<<"pip", "install">>), Bash(<<"ls", "K=v">>),
    Bash(<<"touch", ".env">>),
    [Bash(<<"rm", "./a">>) EXCEPT !.variant = 2],
    [Bash(<<"touch", "/w/a">>) EXCEPT !.tool = "run_command", !.cwd = "/w"],
    File("write_file", "./a"), File("read_file", ".git/x"), File("web_search", "./a") }

NoRules == [deny_tools |-> {}, deny_prefixes |-> {}, deny_paths |-> {}, deny_env |-> {},
            allow_tools |-> {}, allow_prefixes |-> {}, allow_paths |-> {}, allow_env |-> {},
            network |-> ""]

PolicyRules ==
  { NoRules,
    [NoRules EXCEPT !.deny_prefixes = {<<"rm">>}, !.allow_tools = {"bash"}],
    [NoRules EXCEPT !.deny_paths = {"./a"}, !.allow_env = {"K=v"}],
    [NoRules EXCEPT !.deny_env = {"K=v"}, !.deny_tools = {"web_search"}, !.network = "allow"],
    [NoRules EXCEPT !.allow_paths = {"./a"}, !.allow_prefixes = {<<"pip">>}] }

Places ==
  "./a" :> <<"a">> @@ ".env" :> <<".env">> @@ "/w/a" :> <<"w", "a">> @@ "/w" :> <<"w">> @@
  ".git/x" :> <<".git", "x">>

Policy == INSTANCE Policy WITH
  Calls <- PolicyCalls, MaxGranted <- 1, RuleSets <- PolicyRules,
  Risky <- {"bash", "run_command", "write_file", "web_search"},
  UrlWords <- {"http://x"}, RedirectWords <- {">"},
  PathWords <- DOMAIN Places \ {"/w"},
  EnvWords <- {"K=v"}, Components <- Places, AbsolutePaths <- {"/w", "/w/a"},
  mode <- v1, rules <- v2, always <- v3, pending <- v4, ran <- v5,
  granted <- v6

InitPolicy == component = "policy" /\ Policy!Init /\ Unused(6)

NextPolicy == component = "policy" /\ Policy!Next /\ Kept(6)

(* Every command of up to three fields, one field longer at a time.         *)
Words == INSTANCE CommandAnalyzer WITH
  UrlWords <- {"http://x"}, RedirectWords <- {">"}, PathWords <- {},
  EnvWords <- {}

Vocabulary ==
  {"rm", "git", "status", "push", "fetch", "clone", "curl", "pip", "install", "ls", "touch", ">",
   "|", "tee", "http://x"}

LongerCommand == Len(v1) < 3 /\ \E w \in Vocabulary : v1' = Append(v1, w)

Severity(c) ==
  LET class == Words!CommandClass(c)
      order == <<"read-only", "write", "network", "destructive">>
  IN IF class = "unknown" THEN 0 ELSE CHOOSE n \in DOMAIN order : order[n] = class

LongerIsNotMilderStep == v1 = <<"git">> \/ Severity(v1') >= Severity(v1)

InitWords == component = "analyzer" /\ v1 = <<>> /\ Unused(1)

NextWords == component = "analyzer" /\ LongerCommand /\ Kept(1)

(* A reply of two calls in fragments, from either provider.                 *)
OpenAI == INSTANCE ModelStream WITH
  Provider <- "openai", MaxCalls <- MaxReplyCalls,
  MaxRequests <- MaxReplyRequests,
  reply <- v1, sent <- v2, block <- v3, loaded <- v4, requests <- v5,
  got <- v6, current <- v7, handed <- v8, outcome <- v9

InitOpenAI == component = "openai" /\ OpenAI!Init /\ Unused(9)

NextOpenAI == component = "openai" /\ OpenAI!Next /\ Kept(9)

(* The other provider.                                                      *)
Claude == INSTANCE ModelStream WITH
  Provider <- "claude", MaxCalls <- MaxReplyCalls,
  MaxRequests <- MaxReplyRequests,
  reply <- v1, sent <- v2, block <- v3, loaded <- v4, requests <- v5,
  got <- v6, current <- v7, handed <- v8, outcome <- v9

InitClaude == component = "claude" /\ Claude!Init /\ Unused(9)

NextClaude == component = "claude" /\ Claude!Next /\ Kept(9)

(* Conversations of up to four messages, and what is left of them.          *)
Messages == INSTANCE ProviderMessages WITH
  MaxMessages <- 4, MaxCalls <- 2, MaxIds <- 4,
  messages <- v1, open <- v2, ids <- v3

InitMessages == component = "messages" /\ Messages!Init /\ Unused(3)

NextMessages == component = "messages" /\ Messages!Next /\ Kept(3)

(* A command that may write more than is kept.                              *)
RunExec == INSTANCE RunExec WITH
  tool <- v1, requested <- v2, shell <- v3, code <- v4, job <- v5,
  reaped <- v6, written <- v7, consumed <- v8, kept <- v9, truncated <- v10,
  reader <- v11, cancelled <- v12, stage <- v13, reason <- v14, lateCut <- v15

InitRunExec == component = "run_exec" /\ RunExec!Init /\ Unused(15)

NextRunExec == component = "run_exec" /\ RunExec!Next /\ Kept(15)

(* Two commands for each tool hook, three events, two of one command.       *)
ThreeEvents == <<2, 1, 1>>

Registry == INSTANCE ToolRegistry WITH
  Read <- "read", Write <- "write", Shell <- "shell",
  Dynamic <- DynamicTools, NoName <- "none", ToolHooks <- HookCommands,
  Events <- LifecycleEvents, MaxCalls <- MaxToolCalls, MaxChanges <- MaxRegistryChanges,
  tools <- v1, order <- v2, allowed <- v3, changes <- v4, phase <- v5,
  call <- v6, left <- v7, held <- v8, outcome <- v9, result <- v10,
  trace <- v11, undoPoint <- v12, written <- v13, calls <- v14

InitRegistry == component = "registry" /\ Registry!Init /\ Unused(14)

NextRegistry == component = "registry" /\ Registry!Next /\ Kept(14)

(* A root that may be written, one that may only be read, a directory that  *)
(* is neither.                                                              *)
FilePaths ==
  {<<>>, <<"w">>, <<"r">>, <<"o">>, <<"w", "a">>, <<"w", "b">>, <<"w", "a", "b">>,
   <<"r", "a">>, <<"o", "a">>, <<"o", "b">>}
LinkPaths == {<<"w", "b">>, <<"r">>, <<"o">>, <<"r", "a">>, <<"o", "a">>, <<"o", "b">>}

FirstWorkspace ==
  [primary |-> <<"w">>, cwd |-> <<"w">>,
   roots |-> <<[path |-> <<"w">>, access |-> "read_write"], [path |-> <<"r">>, access |-> "read"]>>]

Relative(parts) == [absolute |-> FALSE, parts |-> parts]
FileRequests ==
  {Relative(<<"a">>), Relative(<<"a", "b">>), Relative(<<"..", "r", "a">>),
   Relative(<<"..", "o", "a">>), Relative(<<"a", "..", "b">>), [absolute |-> TRUE, parts |-> <<"w">>]}

DirectoryEntry == [kind |-> "directory"]
NoEntry == [kind |-> "nothing"]
FileEntry(c) == [kind |-> "file", content |-> c]
LinkEntry(p) == [kind |-> "link", target |-> p]

(* At w/a: nothing, a file, a directory or a link; at w/b: the like.       *)
FileTrees ==
  {[p \in FilePaths |->
      CASE p \in {<<>>, <<"w">>, <<"r">>, <<"o">>} -> DirectoryEntry
        [] p = <<"w", "a">> -> a
        [] p = <<"w", "b">> -> b
        [] p \in {<<"r", "a">>, <<"o", "a">>} -> FileEntry("old")
        [] OTHER -> NoEntry] :
    a \in {DirectoryEntry, NoEntry} \cup {FileEntry(c) : c \in {"old", "raw"}}
            \cup {LinkEntry(p) : p \in LinkPaths},
    b \in {FileEntry("raw"), NoEntry, LinkEntry(<<"o", "a">>), LinkEntry(<<"w", "b">>)}}

FileSwaps ==
  {[path |-> <<"w", "a">>, entry |-> e] : e \in {LinkEntry(<<"o", "a">>), LinkEntry(<<"r">>), NoEntry}}
  \union {[path |-> <<"w">>, entry |-> LinkEntry(<<"o">>)], [path |-> <<"o", "b">>, entry |-> DirectoryEntry]}

Files == INSTANCE WorkspaceFiles WITH
  Paths <- FilePaths, Links <- LinkPaths, Requests <- FileRequests,
  Spec0 <- FirstWorkspace, FileSystems <- FileTrees, Swaps <- FileSwaps,
  MaxCalls <- 2, MaxSwaps <- 1,
  fs <- v1, context <- v2, call <- v3, checkpoint <- v4, touched <- v5,
  calls <- v6, swaps <- v7, disturbed <- v8

InitFiles == component = "files" /\ Files!Init /\ Unused(8)

NextFiles == component = "files" /\ Files!Next /\ Kept(8)

(* Two names and a refused one; two public addresses and a private one.     *)
Fetch == INSTANCE WebFetch WITH
  Deadline <- FetchDeadline,
  at <- v1, host <- v2, hop <- v3, address <- v4, open <- v5, dialled <- v6,
  requests <- v7, size <- v8, clock <- v9, cancelled <- v10

InitFetch == component = "web_fetch" /\ Fetch!Init /\ Unused(10)

NextFetch == component = "web_fetch" /\ Fetch!Next /\ Kept(10)

(* Four contexts and two keys.                                              *)
Contexts == INSTANCE RunContext WITH
  made <- v1, parent <- v2, derived <- v3, event <- v4, isSet <- v5,
  children <- v6, values <- v7

InitContexts == component = "run_context" /\ Contexts!Init /\ Unused(7)

NextContexts == component = "run_context" /\ Contexts!Next /\ Kept(7)

(* Two servers and three names of tools, one of them built in.              *)
ToolOffers ==
  { [tools |-> {"t1"}, repeated |-> FALSE], [tools |-> {"t1", "t2"}, repeated |-> FALSE],
    [tools |-> {"b"}, repeated |-> FALSE], [tools |-> {"t2"}, repeated |-> TRUE] }

Mcp == INSTANCE McpManager WITH
  Names <- ServerNames, SavesFail <- FALSE,
  servers <- v1, tools <- v2, closed <- v3, closing <- v4, alive <- v5,
  started <- v6, registry <- v7, configs <- v8, saved <- v9, op <- v10

InitMcp == component = "mcp" /\ Mcp!Init /\ Unused(10)

NextMcp == component = "mcp" /\ Mcp!Next /\ Kept(10)

(* The same, when the settings may not be written.                          *)
McpUnsaved == INSTANCE McpManager WITH
  Names <- ServerNames, SavesFail <- TRUE,
  servers <- v1, tools <- v2, closed <- v3, closing <- v4, alive <- v5,
  started <- v6, registry <- v7, configs <- v8, saved <- v9, op <- v10

InitMcpUnsaved == component = "mcp_unsaved" /\ McpUnsaved!Init /\ Unused(10)

NextMcpUnsaved == component = "mcp_unsaved" /\ McpUnsaved!Next /\ Kept(10)

(* Two callers, one of which makes the handshake.                           *)
McpSession == INSTANCE McpSession WITH
  MaxRequests <- MaxSent, ServerAsks <- FALSE,
  phase <- v1, nextId <- v2, pending <- v3, future <- v4, writers <- v5,
  sent <- v6, reading <- v7, err <- v8, stage <- v9, id <- v10, nth <- v11,
  expired <- v12, answer <- v13

InitMcpSession == component = "mcp_session" /\ McpSession!Init /\ Unused(13)

NextMcpSession == component = "mcp_session" /\ McpSession!Next /\ Kept(13)

(* Two callers on a pipe that may wedge.                                    *)
LspClient == INSTANCE LspClient WITH
  nextId <- v1, pending <- v2, answered <- v3, writers <- v4, wedged <- v5,
  sent <- v6, done <- v7, err <- v8, stage <- v9, id <- v10, cancelled <- v11,
  closing <- v12

InitLspClient == component = "lsp_client" /\ LspClient!Init /\ Unused(12)

NextLspClient == component = "lsp_client" /\ LspClient!Next /\ Kept(12)

(* Two calls, two servers and two working directories.                      *)
LspManager == INSTANCE LspManager WITH
  Calls <- Callers, Cancels <- FALSE,
  cwd <- v1, moves <- v2, root <- v3, clients <- v4, alive <- v5,
  started <- v6, rootOf <- v7, stage <- v8, desired <- v9, got <- v10,
  old <- v11, closed <- v12

InitLspManager == component = "lsp_manager" /\ LspManager!Init /\ Unused(12)

NextLspManager == component = "lsp_manager" /\ LspManager!Next /\ Kept(12)

Init ==
  /\ component \in Checked
  /\ \/ InitSession
     \/ InitFullQueue
     \/ InitHistory
     \/ InitFullDisk
     \/ InitMetadata
     \/ InitCodec
     \/ InitPolicy
     \/ InitWords
     \/ InitOpenAI
     \/ InitClaude
     \/ InitMessages
     \/ InitRunExec
     \/ InitRegistry
     \/ InitFiles
     \/ InitFetch
     \/ InitContexts
     \/ InitMcp
     \/ InitMcpUnsaved
     \/ InitMcpSession
     \/ InitLspClient
     \/ InitLspManager

Next ==
  \/ NextSession
  \/ NextFullQueue
  \/ NextHistory
  \/ NextFullDisk
  \/ NextMetadata
  \/ NextCodec
  \/ NextPolicy
  \/ NextWords
  \/ NextOpenAI
  \/ NextClaude
  \/ NextMessages
  \/ NextRunExec
  \/ NextRegistry
  \/ NextFiles
  \/ NextFetch
  \/ NextContexts
  \/ NextMcp
  \/ NextMcpUnsaved
  \/ NextMcpSession
  \/ NextLspClient
  \/ NextLspManager

ASSUME ComponentsAssumption ==
  /\ Session!SessionAssumption
  /\ FullQueue!SessionAssumption
  /\ History!HistoryAssumption
  /\ Metadata!SessionMetaAssumption
  /\ Policy!PolicyAssumption
  /\ OpenAI!ModelStreamAssumption
  /\ Claude!ModelStreamAssumption
  /\ Messages!ProviderMessagesAssumption
  /\ RunExec!ExecAssumption
  /\ Registry!ToolRegistryAssumption
  /\ Files!WorkspaceFilesAssumption
  /\ Fetch!WebFetchAssumption
  /\ Contexts!RunContextAssumption
  /\ Mcp!McpAssumption
  /\ McpUnsaved!McpAssumption
  /\ McpSession!SessionAssumption
  /\ LspClient!ClientAssumption
  /\ LspManager!LspAssumption

Spec == Init /\ [][Next]_vars

(* The variables of every component keep to their types.                    *)
TypeOK ==
  /\ component = "session" => Session!SessionTypeOK
  /\ component = "history" => History!HistoryTypeOK
  /\ component = "metadata" => Metadata!SessionMetaTypeOK
  /\ component = "policy" => Policy!PolicyTypeOK
  /\ component = "openai" => OpenAI!TypeOK
  /\ component = "claude" => Claude!TypeOK
  /\ component = "messages" => Messages!TypeOK
  /\ component = "run_exec" => RunExec!ExecTypeOK
  /\ component = "files" => Files!TypeOK
  /\ component = "run_context" => Contexts!TypeOK
  /\ component = "mcp" => Mcp!McpTypeOK
  /\ component = "mcp_unsaved" => McpUnsaved!McpTypeOK
  /\ component = "mcp_session" => McpSession!SessionTypeOK
  /\ component = "lsp_client" => LspClient!ClientTypeOK

(* What is said is kept. Between turns the log replays to the conversation  *)
(* the model will see, nothing lost, twice or out of order, and a decision  *)
(* is in the log before the run moves on; on a full queue, where emissions  *)
(* overlap, no message is missing once its turn is over; and a record that  *)
(* is read and written again is the record it was.  On a disk that fills,   *)
(* where a write may be short and a crash may leave a record without its    *)
(* newline, what can be read of a session is still what was appended, in    *)
(* order, and only a deletion, a cut, or an append behind such a line takes *)
(* away any of it; that last case loses one record or the log, which is     *)
(* what the runs store_newline and store_short find.                        *)
ConversationIsLogged ==
  [][ /\ component = "session" =>
          /\ Session!LogReplaysToConversation'
          /\ Session!DecisionIsRecordedStep
      /\ component = "full_queue" => FullQueue!NoMessageIsLost'
      /\ component = "codec" => Codec!RecordsAreKeptStep
      /\ component = "full_disk" => FullDisk!DurableLogStep /\ FullDisk!LossOnFullDiskStep ]_vars

(* What the interface is told is what happens. When a turn is over and its  *)
(* queue drained the engine's state is shown and nothing is asked for; a    *)
(* turn that waits for a decision has asked for it, and the request is the  *)
(* last word on its way, also when emissions overlap on a full queue;       *)
(* staged attachments leave only with the message they go with.             *)
ScreenFollowsTurn ==
  [][ /\ component = "session" =>
          /\ Session!ScreenSettles'
          /\ Session!AttachmentsLeaveWithMessageStep
      /\ component = "full_queue" => FullQueue!WaitIsAsked' ]_vars

(* Log, checkpoints, workspace and conversation tell one story: the log of  *)
(* the active session replays to what the engine holds, after every         *)
(* command, failed write, and reset while a summary is made; the log before *)
(* a checkpoint replays to the transcript of its moment; no tool result is  *)
(* without its call; the active workspace is that of the session; an undo   *)
(* brings file and conversation back to one moment; no change of a          *)
(* session's metadata is undone by another, a record is of the turn it was  *)
(* made in, and nothing half made is listed or left behind.                 *)
HistoryIsKept ==
  [][ /\ component = "history" =>
          /\ History!LogMatchesTranscript'
          /\ History!CheckpointKeepsItsMoment'
          /\ History!NoOrphanResult'
          /\ History!WorkspaceOfSession'
          /\ History!UndoReturnsToCheckpointStep
      /\ component = "metadata" =>
          /\ Metadata!NoChangeIsUndone'
          /\ Metadata!RecordsAreOfTheirTurn'
          /\ Metadata!FoundIsWhole'
          /\ Metadata!NothingIsLeftBehind' ]_vars

(* No sequence of modes and decisions makes a denied call run ("absolute -- *)
(* no mode or allow rule overrides them"); outside bypass a destructive     *)
(* command or a network access ran because the user allowed this very       *)
(* command, and a decision speaks for one call; and a command never gets    *)
(* milder by what is added after it, but for "git" alone, which counts as a *)
(* write until its subcommand is there.                                     *)
NothingRunsUngranted ==
  [][ /\ component = "policy" => Policy!NothingRunsUngranted'
      /\ component = "analyzer" => LongerIsNotMilderStep ]_vars

(* From either provider a response is the whole reply: each call under its  *)
(* own identity, its arguments complete and in order, however the fragments *)
(* of several calls were interleaved, and nothing that was not handed over  *)
(* as a chunk; a reply cut off by the token limit gives none.               *)
ReplyIsWhole ==
  /\ component = "openai" =>
     /\ OpenAI!ResponseIsTheReply
     /\ OpenAI!ChunksAreTheResponse
  /\ component = "claude" =>
     /\ Claude!ResponseIsTheReply
     /\ Claude!ChunksAreTheResponse

(* Both providers are given the same conversation, also behind a compaction *)
(* and whatever is left out: all the calls of a message are answered by the *)
(* one behind it and nothing else is, Claude's roles alternate, from the    *)
(* user on unless the compaction kept a reply first, and texts, calls and   *)
(* results are those the other gets, but for an input that is no JSON.      *)
ConversationIsSentWhole ==
  component = "messages" =>
   /\ Messages!CallsAnsweredNext
   /\ Messages!RolesAlternate
   /\ Messages!SameConversation

(* A command that is not cut short returns all its group has written, or as *)
(* much as the limit allows and the mark that there was more; one that is   *)
(* cut short while its shell runs leaves nothing of its group behind, and   *)
(* is an error to the model.                                                *)
CommandIsAccountedFor ==
  component = "run_exec" => RunExec!CommandIsAccountedFor

(* Whatever was added, removed and replaced, what the model is told of can  *)
(* be called; a tool runs once, behind its pre_tool commands and before its *)
(* post_tool ones, which do not change the verdict on it; hooks run for no  *)
(* hook, every lifecycle event is run, and the checkpoint an undo goes back *)
(* to is that of the latest call that may have written.                     *)
ToolRunsBetweenItsHooks ==
  [][ component = "registry" =>
          /\ Registry!EveryToolIsListedOnce'
          /\ Registry!HooksSurroundTheTool'
          /\ Registry!FinishedIsNotFailed'
          /\ Registry!UndoPointIsLatestWrite'
          /\ Registry!EveryEventIsRunStep ]_vars

(* No tool reads or writes outside the roots it may read or write, by       *)
(* whatever spelling, link or missing directory its path leads there, also  *)
(* when the file is replaced by a link after the check; a resume adopts the *)
(* directories that were saved or nothing; undo puts the workspace back to  *)
(* what it was when the checkpoint was taken, if nothing else changed it.   *)
ToolsStayInside ==
  [][ component = "files" =>
          /\ Files!ToolsStayInside'
          /\ Files!ActiveIsSaved'
          /\ Files!UndoRestoresStep ]_vars

(* Nothing is dialled but an address that was checked, all of whose fellow  *)
(* answers were public, whatever the redirects and however often the        *)
(* resolver changes its mind; a refused target costs no connection, and a   *)
(* hop has one; a page that is answered fits and cost one request for each  *)
(* redirect that was allowed and one more.                                  *)
FetchIsGuarded ==
  component = "web_fetch" => Fetch!FetchIsGuarded

(* A run is never live under a caller whose own context is cancelled,       *)
(* whichever came first; an action is cancelled with its run and never      *)
(* apart from it, carries what its run carries, and is not registered with  *)
(* it.                                                                      *)
CancellationFollowsTheRun ==
  component = "run_context" => Contexts!CancellationFollowsTheRun

(* Between two operations the model is offered exactly the tools of the     *)
(* connected servers and the settings name them. Also when the settings     *)
(* cannot be written, no step leaves a process that nothing would close,    *)
(* but for a restart that a close of the manager has overtaken; settings    *)
(* and servers begin to differ in a removal only; and a restart that fails  *)
(* leaves the old server. On the wire no answer becomes that of another     *)
(* request, nothing given up stays registered, and the lock belongs to a    *)
(* task that is writing.                                                    *)
McpServersAreAccountedFor ==
  [][ /\ component = "mcp" =>
          /\ Mcp!RegistryMatchesManager'
          /\ Mcp!SettingsMatchServers'
      /\ component = "mcp_unsaved" =>
          /\ McpUnsaved!NoProcessIsOrphanedStep
          /\ McpUnsaved!OnlyRemovalDivergesStep
          /\ McpUnsaved!FailedRestartKeepsServerStep
      /\ component = "mcp_session" =>
          /\ McpSession!PendingIsAwaited'
          /\ McpSession!LockIsHeldByWriters'
          /\ McpSession!AnswersAreOwn' ]_vars

(* A language server that runs is installed, being started or about to be   *)
(* closed, however many calls replace the servers at once; the installed    *)
(* ones share the recorded root, and none outlives a close; a request that  *)
(* is registered is waited for, and nobody is held up by a pipe once a      *)
(* write to it has timed out.                                               *)
LanguageServersAreOwned ==
  /\ component = "lsp_client" =>
     /\ LspClient!PendingIsAwaited
     /\ LspClient!NobodyWaitsForDeadPipe
  /\ component = "lsp_manager" =>
     /\ LspManager!EveryServerIsOwned
     /\ LspManager!InstalledServersRun
     /\ LspManager!NoServerOutlivesClose
=============================================================================
