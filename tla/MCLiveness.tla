----------------------------- MODULE MCLiveness -----------------------------
(*****************************************************************************)
(* What must come to an end, on small instances of the components that       *)
(* wait: each under the fairness its own specification states. As in         *)
(* MCRuntime, a behaviour is one of one component, chosen at its start.      *)
(*****************************************************************************)
EXTENDS Integers, Sequences, FiniteSets

CONSTANTS
  Checked,  \* the components of this run
  NoTask, NoAsk, Turn

VARIABLES
  component,  \* the one this behaviour is about
  \* its variables, in the order its instance names them
  v1, v2, v3, v4, v5, v6, v7, v8, v9, v10, v11, v12, v13, v14, v15, v16

vars == <<component, v1, v2, v3, v4, v5, v6, v7, v8, v9, v10, v11, v12, v13,
          v14, v15, v16>>

(* The component has n variables, the others are not used and stay so.     *)
Unused(n) ==
  /\ IF n < 11 THEN v11 = "unused" ELSE TRUE
  /\ IF n < 12 THEN v12 = "unused" ELSE TRUE
  /\ IF n < 13 THEN v13 = "unused" ELSE TRUE
  /\ IF n < 14 THEN v14 = "unused" ELSE TRUE
  /\ IF n < 15 THEN v15 = "unused" ELSE TRUE
  /\ IF n < 16 THEN v16 = "unused" ELSE TRUE

Kept(n) ==
  /\ UNCHANGED component
  /\ IF n < 11 THEN UNCHANGED v11 ELSE TRUE
  /\ IF n < 12 THEN UNCHANGED v12 ELSE TRUE
  /\ IF n < 13 THEN UNCHANGED v13 ELSE TRUE
  /\ IF n < 14 THEN UNCHANGED v14 ELSE TRUE
  /\ IF n < 15 THEN UNCHANGED v15 ELSE TRUE
  /\ IF n < 16 THEN UNCHANGED v16 ELSE TRUE

(* A turn and a cancellation, on a queue that holds one notification.       *)
Session == INSTANCE Session WITH
  NoCall <- NoAsk, Cancellers <- {"x"}, Resetters <- {}, Calls <- {"k"},
  Attachments <- {}, Capacity <- 1, SavesFail <- TRUE, MaxCommits <- 2,
  MaxLog <- 3,
  messages <- v1, state <- v2, pending <- v3, retired <- v4, made <- v5,
  emitted <- v6, hasApproval <- v7, lastApproval <- v8, log <- v9,
  queue <- v10, shown <- v11, staged <- v12, pc <- v13, emit <- v14,
  holder <- v15, raised <- v16

InitSession == component = "session" /\ Session!Init /\ Unused(16)

NextSession == component = "session" /\ Session!Next /\ Kept(16)

(* Two callers of an MCP server.                                            *)
Mcp == INSTANCE McpSession WITH
  Callers <- {"c1", "c2"}, Connector <- "c1", MaxRequests <- 3,
  ServerAsks <- FALSE,
  phase <- v1, nextId <- v2, pending <- v3, future <- v4, writers <- v5,
  sent <- v6, reading <- v7, err <- v8, stage <- v9, id <- v10, nth <- v11,
  expired <- v12, answer <- v13

InitMcp == component = "mcp_session" /\ Mcp!Init /\ Unused(13)

NextMcp == component = "mcp_session" /\ Mcp!Next /\ Kept(13)

(* Two callers of a language server, on a pipe that may wedge.              *)
Lsp == INSTANCE LspClient WITH
  Callers <- {"c1", "c2"}, MaxRequests <- 3, PipeWedges <- TRUE,
  nextId <- v1, pending <- v2, answered <- v3, writers <- v4, wedged <- v5,
  sent <- v6, done <- v7, err <- v8, stage <- v9, id <- v10, cancelled <- v11,
  closing <- v12

InitLsp == component = "lsp_client" /\ Lsp!Init /\ Unused(12)

NextLsp == component = "lsp_client" /\ Lsp!Next /\ Kept(12)

(* A command and the job it may leave behind.                               *)
Exec == INSTANCE RunExec WITH
  DefaultBytes <- 1, MaxBytes <- 2, MaxWritten <- 2, TaskCancels <- FALSE,
  tool <- v1, requested <- v2, shell <- v3, code <- v4, job <- v5,
  reaped <- v6, written <- v7, consumed <- v8, kept <- v9, truncated <- v10,
  reader <- v11, cancelled <- v12, stage <- v13, reason <- v14, lateCut <- v15

InitExec == component = "run_exec" /\ Exec!Init /\ Unused(15)

NextExec == component = "run_exec" /\ Exec!Next /\ Kept(15)

(* A line-oriented terminal over two turns.                                 *)
Terminal == INSTANCE TerminalTurn WITH
  Live <- FALSE, HooksFail <- TRUE, MaxTurns <- 2, MaxCalls <- 2,
  MaxInterrupts <- 1,
  mode <- v1, inbox <- v2, turn <- v3, cancellation <- v4, menu <- v5,
  listening <- v6, channel <- v7, approvals <- v8, stage <- v9, held <- v10,
  produced <- v11, calls <- v12, presses <- v13

InitTerminal == component = "terminal" /\ Terminal!Init /\ Unused(13)

NextTerminal == component = "terminal" /\ Terminal!Next /\ Kept(13)

(* Children two deep.                                                       *)
Delegation == INSTANCE Delegation WITH
  maxSubagentDepth <- 2, CutsFail <- FALSE, MaxRuns <- 1, MaxSteps <- 2,
  stage <- v1, depth <- v2, created <- v3, session <- v4, steps <- v5,
  denials <- v6, outcome <- v7, cancelled <- v8, trees <- v9, metadata <- v10,
  half <- v11, made <- v12, reported <- v13

InitDelegation == component = "delegation" /\ Delegation!Init /\ Unused(13)

NextDelegation == component = "delegation" /\ Delegation!Next /\ Kept(13)

(* Commands on a live terminal.                                             *)
TwoProfiles == {[mode |-> "build", model |-> "large"], [mode |-> "plan", model |-> "small"]}

Commands == INSTANCE Commands WITH
  Live <- TRUE, Profiles <- TwoProfiles, MaxCommands <- 3,
  actual <- v1, shown <- v2, compacting <- v3, managingMCP <- v4,
  background <- v5, turn <- v6, inbox <- v7, loop <- v8, err <- v9,
  status <- v10, report <- v11, commands <- v12

InitCommands == component = "commands" /\ Commands!Init /\ Unused(12)

NextCommands == component = "commands" /\ Commands!Next /\ Kept(12)

(* A name and a refused one, a public address and a private one.            *)
Fetch == INSTANCE WebFetch WITH
  Hosts <- {"a.example", "localhost"}, Refused <- {"localhost"},
  Addresses <- {"pub1", "private"}, Public <- {"pub1"}, MaxRedirects <- 2,
  Limit <- 2, Deadline <- 3,
  at <- v1, host <- v2, hop <- v3, address <- v4, open <- v5, dialled <- v6,
  requests <- v7, size <- v8, clock <- v9, cancelled <- v10

InitFetch == component = "web_fetch" /\ Fetch!Init /\ Unused(10)

NextFetch == component = "web_fetch" /\ Fetch!Next /\ Kept(10)

Init ==
  /\ component \in Checked
  /\ \/ InitSession
     \/ InitMcp
     \/ InitLsp
     \/ InitExec
     \/ InitTerminal
     \/ InitDelegation
     \/ InitCommands
     \/ InitFetch

Next ==
  \/ NextSession
  \/ NextMcp
  \/ NextLsp
  \/ NextExec
  \/ NextTerminal
  \/ NextDelegation
  \/ NextCommands
  \/ NextFetch

ASSUME ComponentsAssumption ==
  /\ Session!SessionAssumption
  /\ Mcp!SessionAssumption
  /\ Lsp!ClientAssumption
  /\ Exec!ExecAssumption
  /\ Terminal!TerminalTurnAssumption
  /\ Delegation!DelegationAssumption
  /\ Commands!CommandsAssumption
  /\ Fetch!WebFetchAssumption

(* The fairness of each component is that of its own specification.         *)
Does(name, n, A) == component = name /\ A /\ Kept(n)

Fairness ==
  /\ SF_vars(Does("session", 16, Session!Receive))
  /\ \A t \in Session!Tasks : SF_vars(Does("session", 16, Session!Advance(t)))
  /\ \A c \in {"c1", "c2"} : WF_vars(Does("mcp_session", 13, Mcp!TaskStep(c)))
  /\ \A c \in {"c1", "c2"} : WF_vars(Does("mcp_session", 13, Mcp!Deadline(c)))
  /\ \A c \in {"c1", "c2"} : WF_vars(Does("lsp_client", 12, Lsp!CallerStep(c)))
  /\ WF_vars(Does("lsp_client", 12, Lsp!CloseKills))
  /\ WF_vars(Does("run_exec", 15, Exec!Cut))
  /\ WF_vars(Does("run_exec", 15, Exec!Finish))
  /\ WF_vars(Does("run_exec", 15, Exec!Settle))
  /\ WF_vars(Does("terminal", 13, Terminal!TurnTask))
  /\ WF_vars(Does("terminal", 13, Terminal!BridgeTask))
  /\ WF_vars(Does("terminal", 13, Terminal!ClosingTask))
  /\ WF_vars(Does("terminal", 13, Terminal!Listen))
  /\ WF_vars(Does("terminal", 13, Terminal!Loop))
  /\ SF_vars(Does("terminal", 13, Terminal!Answer))
  /\ \A k \in Delegation!Levels : WF_vars(Does("delegation", 13, Delegation!Step(k)))
  /\ WF_vars(Does("commands", 12, Commands!Background))
  /\ WF_vars(Does("commands", 12, Commands!Dispatch))
  /\ WF_vars(Does("commands", 12, Commands!ReadNothing))
  /\ WF_vars(Does("web_fetch", 10, Fetch!Begin))
  /\ WF_vars(Does("web_fetch", 10, Fetch!Send))
  /\ WF_vars(Does("web_fetch", 10, Fetch!Tick))
  /\ WF_vars(Does("web_fetch", 10, Fetch!Timeout))

Spec == Init /\ [][Next]_vars /\ Fairness

On(name, P) == component = name /\ P

(* Every submitted prompt comes back to a prompt, or the terminal stops,    *)
(* when the user answers what is asked; an emission blocked on a full queue *)
(* goes on; every delegation ends, cancelled or not, for nothing in a child *)
(* waits for a user; and on a live terminal submissions are accepted again  *)
(* after every background operation, failed or not.                         *)
TurnsReturn ==
  /\ On("terminal", Terminal!InTurn) ~> On("terminal", Terminal!Returned)
  /\ \A t \in Session!Tasks :
       On("session", Session!Emitting(t)) ~> On("session", ~Session!Emitting(t))
  /\ On("delegation", Delegation!Delegating) ~> On("delegation", ~Delegation!Delegating)
  /\ On("commands", Commands!Busy) ~> On("commands", ~Commands!Busy)

(* What the runtime waits for outside itself ends: every request to an MCP  *)
(* server, whether or not it reads, writes or lives; a call of a language   *)
(* server whose run is cancelled or whose server is gone; a command,        *)
(* although a job may hold its pipe for ever; and a fetch, wherever servers *)
(* and resolvers stall.                                                     *)
RequestsEnd ==
  /\ \A c \in {"c1", "c2"} :
       /\ On("mcp_session", Mcp!Calling(c)) ~> On("mcp_session", ~Mcp!Calling(c))
       /\ On("lsp_client", Lsp!IsToEnd(c)) ~> On("lsp_client", ~Lsp!Calling(c))
  /\ On("run_exec", TRUE) ~> On("run_exec", Exec!Ended)
  /\ On("web_fetch", TRUE) ~> On("web_fetch", Fetch!Over)
=============================================================================
