------------------------------ MODULE Startup ------------------------------
(***************************************************************************)
(* From the start of the program to its exit: one session is built, step   *)
(* by step, and owns what was opened on the way; when it ends, or when a   *)
(* step fails, all of it is closed (__main__.py, app/session.py,           *)
(* runtime/session/session.py).                                            *)
(*                                                                         *)
(* The session closes what it owns synchronously.  Processes close         *)
(* asynchronously: their closers start tasks, and waitPendingClosers waits *)
(* for those tasks afterwards.  A task kills one process at a time and     *)
(* suspends until it is gone.                                              *)
(***************************************************************************)
EXTENDS Integers, Sequences, FiniteSets

CONSTANTS
  Configured,   \* what may be configured: [mcp : Seq, lsp : Seq], processes in order
  HooksFail,    \* whether a session_start hook may fail
  SavesFail     \* whether the record of the cancellation may not be written

Sink == "telemetry"
Managers == {"mcp", "lsp"}
Owners == Managers \cup {Sink}

ElementsOf(seq) == { seq[i] : i \in DOMAIN seq }
Distinct(seq) == \A i, j \in DOMAIN seq : seq[i] = seq[j] => i = j

(* Every configured server is a process of its own.                        *)
StartupAssumption ==
  /\ HooksFail \in BOOLEAN /\ SavesFail \in BOOLEAN
  /\ \A s \in Configured :
       /\ \A o \in Managers :
            s[o] \in Seq(ElementsOf(s[o])) /\ Distinct(s[o]) /\ Sink \notin ElementsOf(s[o])
       /\ ElementsOf(s.mcp) \cap ElementsOf(s.lsp) = {}

VARIABLES
  servers,    \* the configured processes
  step,       \* where new_session_with_extensions, or run, is
  withTools,  \* cfg.no_tools is off
  open,       \* the processes that run and the sink
  connected,  \* how many servers the connect in progress has started
  starter,    \* what the constructor still has to close itself
  closers,    \* Session._closers
  tasks       \* _pendingCloses: what each task has still to kill

vars == <<servers, step, withTools, open, connected, starter, closers, tasks>>

Holds(o) == IF o = Sink THEN {Sink} ELSE ElementsOf(servers[o])

-----------------------------------------------------------------------------
(* Building.  A step that fails raises, and the constructor closes what it *)
(* owns.                                                                   *)

After == [model |-> IF withTools THEN "mcp" ELSE "session", mcp |-> "mcp_tools",
          mcp_tools |-> IF servers.lsp = <<>> THEN "session" ELSE "lsp",
          lsp |-> "lsp_tools", lsp_tools |-> "session",
          session |-> IF withTools THEN "delegate" ELSE "hand_over",
          delegate |-> "hand_over", hand_over |-> "hooks", hooks |-> "running"]

(* Mutant: what is closed is not forgotten.                                *)
CleanUpKeeps ==
  /\ open' = open \ UNION { Holds(o) : o \in starter }
  /\ step' = "abandoned"
  /\ UNCHANGED starter

(* Nothing was handed over: all of it is closed here, and waited for.      *)
CleanUp ==
  /\ open' = open \ UNION { Holds(o) : o \in starter }
  /\ starter' = {}
  /\ step' = "abandoned"

(* Choosing the agent and the model, reading instructions and memory,      *)
(* creating the stored session, adding the delegate tool.                  *)
PlainStep ==
  /\ step \in {"model", "session", "delegate"}
  /\ \/ step' = After[step] /\ UNCHANGED <<open, starter>>
     \/ CleanUp
  /\ UNCHANGED <<servers, withTools, connected, closers, tasks>>

(* Servers are started one after the other; when one fails, connect closes *)
(* those before it.                                                        *)
ConnectNext(o) ==
  /\ step = o /\ connected < Len(servers[o])
  /\ \/ /\ open' = open \cup {servers[o][connected + 1]}
        /\ connected' = connected + 1
        /\ UNCHANGED <<step, starter>>
     \/ /\ open' = (open \ Holds(o)) \ UNION { Holds(p) : p \in starter }
        /\ connected' = 0
        /\ starter' = {} /\ step' = "abandoned"
  /\ UNCHANGED <<servers, withTools, closers, tasks>>

Connected(o) ==
  /\ step = o /\ connected = Len(servers[o])
  /\ step' = After[o]
  /\ connected' = 0
  /\ UNCHANGED <<servers, withTools, open, starter, closers, tasks>>

ToolsStep == [mcp |-> "mcp_tools", lsp |-> "lsp_tools"]

(* Mutant: the manager is not closed when its tools cannot be registered.  *)
RegisterToolsLeaks(o) ==
  /\ step = ToolsStep[o]
  /\ \/ /\ step' = After[step]
        /\ starter' = starter \cup {o}
        /\ UNCHANGED open
     \/ /\ open' = open \ UNION { Holds(p) : p \in starter }
        /\ starter' = {} /\ step' = "abandoned"
  /\ UNCHANGED <<servers, withTools, connected, closers, tasks>>

(* The constructor owns a manager once its tools are registered; if they   *)
(* cannot be, the manager is closed on the spot.                           *)
RegisterTools(o) ==
  /\ step = ToolsStep[o]
  /\ \/ /\ step' = After[step]
        /\ starter' = starter \cup {o}
        /\ UNCHANGED open
     \/ /\ open' = (open \ Holds(o)) \ UNION { Holds(p) : p \in starter }
        /\ starter' = {} /\ step' = "abandoned"
  /\ UNCHANGED <<servers, withTools, connected, closers, tasks>>

Only(o, set) == IF o \in set THEN <<o>> ELSE <<>>
Order(set) == Only("mcp", set) \o Only("lsp", set) \o Only(Sink, set)

(* What is handed over is forgotten, so that nothing is closed twice.      *)
HandOver ==
  /\ step = "hand_over"
  /\ closers' = Order(starter)
  /\ starter' = {}
  /\ step' = After[step]
  /\ UNCHANGED <<servers, withTools, open, connected, tasks>>

-----------------------------------------------------------------------------
(* Session.close: first the cancellation is recorded; if it cannot be, the *)
(* closers are not reached.                                                *)

CloseSession ==
  \/ /\ SavesFail
     /\ UNCHANGED <<open, closers, tasks>>
  \/ /\ closers' = <<>>
     /\ open' = open \ ({Sink} \cap ElementsOf(closers))
     /\ tasks' = [o \in Managers |-> IF o \in ElementsOf(closers) THEN servers[o] ELSE tasks[o]]

StartHooks ==
  /\ step = "hooks"
  /\ \/ step' = After[step] /\ UNCHANGED <<open, closers, tasks>>
     \/ HooksFail /\ step' = "abandoned" /\ CloseSession
  /\ UNCHANGED <<servers, withTools, connected, starter>>

(* The interface has ended.                                                *)
Quit ==
  /\ step = "running"
  /\ step' = "waiting"
  /\ CloseSession
  /\ UNCHANGED <<servers, withTools, connected, starter>>

CloseNext(o) ==
  /\ tasks[o] # <<>> /\ step # "exited"
  /\ open' = open \ {Head(tasks[o])}
  /\ tasks' = [tasks EXCEPT ![o] = Tail(@)]
  /\ UNCHANGED <<servers, step, withTools, connected, starter, closers>>

(* Mutant: run does not wait for the tasks.                                *)
ExitAtOnce ==
  /\ step = "waiting"
  /\ step' = "exited"
  /\ UNCHANGED <<servers, withTools, open, connected, starter, closers, tasks>>

(* run waits for the tasks after a session that ran.                       *)
Exit ==
  /\ step = "waiting" /\ \A o \in Managers : tasks[o] = <<>>
  /\ step' = "exited"
  /\ UNCHANGED <<servers, withTools, open, connected, starter, closers, tasks>>

(* After a start that failed it returns at once; the loop still gives each *)
(* task its first step, and cancels it then.                               *)
ExitAbandoned ==
  /\ step = "abandoned"
  /\ \A o \in Managers : tasks[o] = <<>> \/ Len(tasks[o]) < Len(servers[o])
  /\ step' = "exited"
  /\ tasks' = [o \in Managers |-> <<>>]
  /\ UNCHANGED <<servers, withTools, open, connected, starter, closers>>

-----------------------------------------------------------------------------
Init ==
  /\ servers \in Configured
  /\ step = "model" /\ withTools \in BOOLEAN
  /\ open = {Sink} /\ starter = {Sink}
  /\ connected = 0 /\ closers = <<>>
  /\ tasks = [o \in Managers |-> <<>>]

Next ==
  \/ PlainStep \/ HandOver \/ StartHooks
  \/ \E o \in Managers : ConnectNext(o) \/ Connected(o) \/ RegisterTools(o) \/ CloseNext(o)
  \/ Quit \/ Exit \/ ExitAbandoned

Spec == Init /\ [][Next]_vars

-----------------------------------------------------------------------------
OwnersOf(r) ==
  { <<"starter", o>> : o \in { p \in starter : r \in Holds(p) } }
    \cup { <<"session", o>> : o \in { p \in ElementsOf(closers) : r \in Holds(p) } }
    \cup { <<"task", o>> : o \in { p \in Managers : r \in ElementsOf(tasks[p]) } }
    \cup { <<"connect", o>> : o \in { p \in Managers : step \in {p, ToolsStep[p]} /\ r \in Holds(p) } }

(* What is open has one owner, which will close it: nothing is forgotten   *)
(* by a step that fails, and nothing is closed by two of them.             *)
OneOwner == step # "exited" => \A r \in open : Cardinality(OwnersOf(r)) = 1

(* What nobody has closed yet is open: no owner closes what is not its own *)
(* any more.                                                               *)
OwnedIsOpen ==
  \A o \in Owners : o \in starter \cup ElementsOf(closers) => Holds(o) \subseteq open

(* The program ends only when all it opened is closed.                     *)
ExitLeavesNothing == step = "exited" => open = {}
=============================================================================
