----------------------------- MODULE McpManager -----------------------------
(***************************************************************************)
(* The MCP servers of a session: the manager that owns their processes     *)
(* (tools/mcp/client.py), the tool registry (tools/registry.py), and the   *)
(* controller that adds, removes and restarts servers and keeps the        *)
(* settings in step (app/mcp.py).                                          *)
(*                                                                         *)
(* The controller holds its lock through an operation, so there is one     *)
(* operation at a time.  The manager's lock is not held while a server is  *)
(* being connected; the session closes the manager when it ends, and that  *)
(* can fall anywhere.  A step runs from one suspension to the next.        *)
(***************************************************************************)
EXTENDS Integers, FiniteSets

CONSTANTS
  Names,       \* names of servers
  Builtin,     \* tools registered at startup that are not MCP tools
  Offers,      \* what tools/list may return: [tools : SUBSET ..., repeated : BOOLEAN]
  SavesFail,   \* whether writing the settings may raise
  MaxServers   \* bound: processes started

None == 0      \* no process; processes are numbered as they start

NoOp == [kind |-> "none"]

McpAssumption == MaxServers \in Nat /\ SavesFail \in BOOLEAN

VARIABLES
  servers,    \* Manager._servers: the process of each name, or None
  tools,      \* Manager._tools: the tools of each process, as <<tool, process>>
  closed,     \* Manager._closed
  closing,    \* the servers Manager.close has still to close
  alive,      \* the processes that run
  started,    \* the processes started so far
  registry,   \* Registry._tools, as <<tool, process>>; built-in ones belong to None
  configs,    \* MCPController.configs
  saved,      \* the servers settings.json names
  op          \* the operation the controller is in

vars == <<servers, tools, closed, closing, alive, started, registry, configs, saved, op>>

ToolsOf(set, p) == { t[1] : t \in { u \in set : u[2] = p } }
NamesIn(set) == { t[1] : t \in set }
Pairs(offer, p) == { <<t, p>> : t \in offer.tools }
BuiltinTools == { <<t, None>> : t \in Builtin }

-----------------------------------------------------------------------------
(* The registry.  A batch is added whole or not at all.                    *)

Registers(offer, existing) ==
  ~offer.repeated /\ offer.tools \cap existing = {}

-----------------------------------------------------------------------------
(* Connecting.  A server that does not complete the handshake, or lists a  *)
(* tool that cannot be mapped, is closed before connect_server raises.     *)

Connecting == op.kind \in {"add", "reconnect", "restart"} /\ op.stage = "connecting"

ConnectServer(offer) ==
  /\ Connecting
  /\ started < MaxServers
  /\ started' = started + 1
  /\ alive' = alive \cup {started'}
  /\ op' = [op EXCEPT !.stage = "connected", !.process = started', !.offer = offer]
  /\ UNCHANGED <<servers, tools, closed, closing, registry, configs, saved>>

ConnectFails ==
  /\ Connecting
  /\ op' = NoOp
  /\ UNCHANGED <<servers, tools, closed, closing, alive, started, registry, configs, saved>>

Begin(kind, name, old) ==
  op' = [kind |-> kind, name |-> name, old |-> old, stage |-> "connecting",
         process |-> None, offer |-> [tools |-> {}, repeated |-> FALSE]]

-----------------------------------------------------------------------------
(* MCPController.add.                                                      *)

AddBegin(n) ==
  /\ op = NoOp
  /\ ~closed /\ servers[n] = None
  /\ Begin("add", n, None)
  /\ UNCHANGED <<servers, tools, closed, closing, alive, started, registry, configs, saved>>

(* Manager.add looks again, for it may have been closed meanwhile.         *)
ManagerRefuses == closed \/ servers[op.name] # None \/ op.offer.tools \cap NamesIn(tools) # {}

Kill(p) == alive' = alive \ {p}

Installed ==
  /\ servers' = [servers EXCEPT ![op.name] = op.process]
  /\ tools' = tools \cup Pairs(op.offer, op.process)

Finished == op' = NoOp /\ UNCHANGED <<closed, closing, started>>

(* Mutant: the settings are written before the tools are registered.       *)
AddEndSavesFirst ==
  /\ op.kind = "add" /\ op.stage = "connected"
  /\ Finished
  /\ IF ManagerRefuses \/ ~Registers(op.offer, NamesIn(registry))
       THEN /\ Kill(op.process)
            /\ saved' = IF ManagerRefuses THEN saved ELSE saved \cup {op.name}
            /\ UNCHANGED <<servers, tools, registry, configs>>
       ELSE /\ Installed
            /\ registry' = registry \cup Pairs(op.offer, op.process)
            /\ saved' = saved \cup {op.name} /\ configs' = configs \cup {op.name}
            /\ UNCHANGED alive

(* Everything after the connection is one step.  A registry that refuses   *)
(* the batch, and settings that cannot be written, are rolled back.        *)
AddEnd ==
  /\ op.kind = "add" /\ op.stage = "connected"
  /\ Finished
  /\ \/ /\ \/ ManagerRefuses
           \/ ~Registers(op.offer, NamesIn(registry))
           \/ SavesFail
        /\ Kill(op.process)
        /\ UNCHANGED <<servers, tools, registry, configs, saved>>
     \/ /\ ~ManagerRefuses /\ Registers(op.offer, NamesIn(registry))
        /\ Installed
        /\ registry' = registry \cup Pairs(op.offer, op.process)
        /\ saved' = saved \cup {op.name}
        /\ configs' = configs \cup {op.name}
        /\ UNCHANGED alive

-----------------------------------------------------------------------------
(* MCPController.remove.                                                   *)

(* Manager.remove pops the server and closes it, which suspends.           *)
RemoveBegin(n) ==
  /\ op = NoOp
  /\ n \in configs /\ servers[n] # None
  /\ servers' = [servers EXCEPT ![n] = None]
  /\ tools' = { t \in tools : t[2] # servers[n] }
  /\ Kill(servers[n])
  /\ op' = [kind |-> "remove", name |-> n, names |-> ToolsOf(tools, servers[n])]
  /\ UNCHANGED <<closed, closing, started, registry, configs, saved>>

(* Mutant: the tools stay registered.                                      *)
UnregisterNothing == UNCHANGED registry

Unregister == registry' = { t \in registry : t[1] \notin op.names }

(* Mutant: the controller forgets the settings it could not write.         *)
RemoveEndForgetsFirst ==
  /\ op.kind = "remove"
  /\ Unregister
  /\ configs' = configs \ {op.name}
  /\ \/ /\ saved' = saved \ {op.name}
        /\ op' = NoOp
     \/ /\ SavesFail
        /\ IF closed THEN op' = NoOp ELSE Begin("reconnect", op.name, None)
        /\ UNCHANGED saved
  /\ UNCHANGED <<servers, tools, closed, closing, alive, started>>

(* The settings forget it; if they cannot, the server is connected again.  *)
RemoveEnd ==
  /\ op.kind = "remove"
  /\ Unregister
  /\ \/ /\ saved' = saved \ {op.name} /\ configs' = configs \ {op.name}
        /\ op' = NoOp
     \/ /\ SavesFail
        /\ IF closed THEN op' = NoOp ELSE Begin("reconnect", op.name, None)
        /\ UNCHANGED <<saved, configs>>
  /\ UNCHANGED <<servers, tools, closed, closing, alive, started>>

(* What fails here is reported and not undone.                             *)
ReconnectEnd ==
  /\ op.kind = "reconnect" /\ op.stage = "connected"
  /\ Finished
  /\ \/ /\ ManagerRefuses
        /\ Kill(op.process)
        /\ UNCHANGED <<servers, tools, registry>>
     \/ /\ ~ManagerRefuses
        /\ Installed
        /\ registry' = IF Registers(op.offer, NamesIn(registry))
                         THEN registry \cup Pairs(op.offer, op.process) ELSE registry
        /\ UNCHANGED alive
  /\ UNCHANGED <<configs, saved>>

-----------------------------------------------------------------------------
(* MCPController.restart: the new server is connected before the old one   *)
(* is let go.                                                              *)

RestartBegin(n) ==
  /\ op = NoOp
  /\ servers[n] # None
  /\ Begin("restart", n, servers[n])
  /\ UNCHANGED <<servers, tools, closed, closing, alive, started, registry, configs, saved>>

(* Mutant: a replacement that is refused is left running.                  *)
RestartRefusedLeaks ==
  /\ op.kind = "restart" /\ op.stage = "connected"
  /\ ~Registers(op.offer, NamesIn(registry) \ ToolsOf(tools, op.old))
  /\ Finished
  /\ UNCHANGED <<servers, tools, alive, registry, configs, saved>>

(* Mutant: the old server is let go before the replacement is registered.  *)
RestartRefusedDropsOld ==
  /\ op.kind = "restart" /\ op.stage = "connected"
  /\ ~Registers(op.offer, NamesIn(registry) \ ToolsOf(tools, op.old))
  /\ Finished
  /\ alive' = alive \ {op.process, op.old}
  /\ UNCHANGED <<servers, tools, registry, configs, saved>>

RestartRefused ==
  /\ op.kind = "restart" /\ op.stage = "connected"
  /\ ~Registers(op.offer, NamesIn(registry) \ ToolsOf(tools, op.old))
  /\ Finished
  /\ Kill(op.process)
  /\ UNCHANGED <<servers, tools, registry, configs, saved>>

(* Mutant: the tools of the old server are not taken out of the registry.  *)
RestartEndKeepsOldTools ==
  /\ op.kind = "restart" /\ op.stage = "connected"
  /\ servers[op.name] = op.old
  /\ Registers(op.offer, NamesIn(registry) \ ToolsOf(tools, op.old))
  /\ Finished
  /\ servers' = [servers EXCEPT ![op.name] = op.process]
  /\ tools' = { t \in tools : t[2] # op.old } \cup Pairs(op.offer, op.process)
  /\ Kill(op.old)
  /\ registry' = registry \cup Pairs(op.offer, op.process)
  /\ UNCHANGED <<configs, saved>>

RestartEnd ==
  /\ op.kind = "restart" /\ op.stage = "connected"
  /\ servers[op.name] = op.old
  /\ Registers(op.offer, NamesIn(registry) \ ToolsOf(tools, op.old))
  /\ Finished
  /\ registry' = { t \in registry : t[1] \notin ToolsOf(tools, op.old) } \cup Pairs(op.offer, op.process)
  /\ tools' = { t \in tools : t[2] # op.old } \cup Pairs(op.offer, op.process)
  /\ servers' = [servers EXCEPT ![op.name] = op.process]
  /\ Kill(op.old)
  /\ UNCHANGED <<configs, saved>>

-----------------------------------------------------------------------------
(* Manager.close: the servers it reads are closed one after the other.     *)

Close ==
  /\ ~closed
  /\ closed' = TRUE
  /\ closing' = { servers[n] : n \in Names } \ {None}
  /\ UNCHANGED <<servers, tools, alive, started, registry, configs, saved, op>>

CloseServer(p) ==
  /\ p \in closing
  /\ closing' = closing \ {p}
  /\ Kill(p)
  /\ UNCHANGED <<servers, tools, closed, started, registry, configs, saved, op>>

(* A server may stop by itself.                                            *)
ServerStops(p) ==
  /\ p \in alive
  /\ Kill(p)
  /\ UNCHANGED <<servers, tools, closed, closing, started, registry, configs, saved, op>>

-----------------------------------------------------------------------------
Init ==
  /\ servers = [n \in Names |-> None]
  /\ tools = {} /\ registry = BuiltinTools
  /\ closed = FALSE /\ closing = {}
  /\ alive = {} /\ started = 0
  /\ configs = {} /\ saved = {}
  /\ op = NoOp

Next ==
  \/ \E n \in Names : AddBegin(n) \/ RemoveBegin(n) \/ RestartBegin(n)
  \/ \E offer \in Offers : ConnectServer(offer)
  \/ ConnectFails
  \/ AddEnd \/ RemoveEnd \/ ReconnectEnd \/ RestartEnd \/ RestartRefused
  \/ Close
  \/ \E p \in 1..MaxServers : CloseServer(p) \/ ServerStops(p)

Spec == Init /\ [][Next]_vars

-----------------------------------------------------------------------------
(* What somebody will close: a close of the manager the servers it is to   *)
(* read or has read, an operation what it connected.  A manager that was   *)
(* closed closes nothing more (client.py:508-509).                         *)
Owned == ((IF closed THEN {} ELSE { servers[n] : n \in Names }) \cup closing \cup
          (IF op.kind \in {"add", "reconnect", "restart"} THEN {op.process} ELSE {})) \ {None}

Orphans == alive \ Owned

(* Every variable has its type, and a process belongs to one name.         *)
McpTypeOK ==
  /\ servers \in [Names -> 0..MaxServers]
  /\ \A m, n \in Names : servers[m] = servers[n] /\ servers[m] # None => m = n
  /\ closing \subseteq 1..MaxServers /\ started \in 0..MaxServers
  /\ alive \subseteq 1..started
  /\ configs \subseteq Names /\ saved = configs

(* No step leaves a process running that nothing would ever close:         *)
(* whatever is refused, rolled back, removed or replaced on the way is     *)
(* closed in the same step, and so is what an add connected for a manager  *)
(* that was closed meanwhile.  Only a restart does not look whether it was *)
(* (client.py:478-493): what it connected is then nobody's.                *)
NoProcessIsOrphanedStep ==
  Orphans' \ Orphans \subseteq IF closed /\ op.kind = "restart" THEN {op.process} ELSE {}

(* Between two operations the model is offered exactly the tools of the    *)
(* connected servers, and no name twice.                                   *)
RegistryMatchesManager ==
  op = NoOp =>
    /\ registry = BuiltinTools \cup tools
    /\ \A t \in tools : t[2] \in { servers[n] : n \in Names }
    /\ \A s, t \in registry : s[1] = t[1] => s = t

(* Between two operations the settings name the connected servers.         *)
SettingsMatchServers == op = NoOp => saved = { n \in Names : servers[n] # None }

(* Settings and connected servers begin to differ in nothing but a server  *)
(* that is being removed, also when the settings cannot be written: an add *)
(* is undone and a restart names the same server (app/mcp.py:70-122).  A   *)
(* removal that cannot be written and cannot reconnect leaves them so.     *)
Differing == { n \in Names : n \in saved <=> servers[n] = None }

OnlyRemovalDivergesStep ==
  \A n \in Differing' \ Differing : op'.kind = "remove" /\ op'.name = n

(* A restart that fails leaves the old server as it was.                   *)
FailedRestartKeepsServerStep ==
  op.kind = "restart" /\ op' = NoOp /\ servers' = servers =>
      registry' = registry /\ (op.old \in alive => op.old \in alive')

NoProcessIsOrphaned == [][NoProcessIsOrphanedStep]_vars
OnlyRemovalDiverges == [][OnlyRemovalDivergesStep]_vars
FailedRestartKeepsServer == [][FailedRestartKeepsServerStep]_vars

(* "Close every server": once the manager is closed and no operation is    *)
(* under way, no process is left.                                          *)
NoProcessOutlivesClose == closed /\ closing = {} /\ op = NoOp => alive = {}
=============================================================================
