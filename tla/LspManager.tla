----------------------------- MODULE LspManager -----------------------------
(***************************************************************************)
(* The language servers of a session (tools/lsp/client.py).  All of them   *)
(* are rooted at the working directory of the workspace; a call that finds *)
(* the directory moved starts new servers, installs them and closes the    *)
(* old ones.  Nothing in the manager locks this, so its promises are       *)
(* checked for callers that are in it together.                            *)
(***************************************************************************)
EXTENDS Integers, Sequences, FiniteSets

CONSTANTS
  Calls,       \* what may use the servers at the same time
  Roots,       \* working directories
  NumServers,  \* configured servers
  Cancels,     \* whether the task of a call may be cancelled: the terminal quits
  MaxStarted,  \* bound: processes started
  MaxMoves     \* bound: moves of the workspace

LspAssumption ==
  /\ NumServers \in Nat \ {0} /\ MaxStarted \in Nat /\ NumServers <= MaxStarted /\ MaxMoves \in Nat
  /\ Cancels \in BOOLEAN

VARIABLES
  cwd,      \* the working directory of the workspace
  moves,    \* how often it has moved
  root,     \* Manager.root
  clients,  \* Manager.clients: processes
  alive,    \* the processes that run
  started,  \* how many were started
  rootOf,   \* where each was started
  stage,    \* where each call is
  desired,  \* the directory the call read
  got,      \* the servers it has started and not installed yet
  old,      \* the replaced servers it has still to close
  closed    \* Manager.close has run

vars == <<cwd, moves, root, clients, alive, started, rootOf, stage, desired, got, old, closed>>

ElementsOf(seq) == { seq[i] : i \in DOMAIN seq }

-----------------------------------------------------------------------------
(* Tool.run: first ensure_workspace.                                       *)

Begin(c) ==
  /\ stage[c] = "idle" /\ ~closed
  /\ IF cwd = root
       THEN /\ stage' = [stage EXCEPT ![c] = "using"]
            /\ UNCHANGED <<desired, got>>
       ELSE /\ stage' = [stage EXCEPT ![c] = "connecting"]
            /\ desired' = [desired EXCEPT ![c] = cwd]
            /\ got' = [got EXCEPT ![c] = <<>>]
  /\ UNCHANGED <<cwd, moves, root, clients, alive, started, rootOf, old, closed>>

(* A server that has made the handshake.                                   *)
StartServer(c) ==
  /\ stage[c] = "connecting" /\ Len(got[c]) < NumServers /\ started < MaxStarted
  /\ started' = started + 1
  /\ alive' = alive \cup {started'}
  /\ rootOf' = [rootOf EXCEPT ![started'] = desired[c]]
  /\ got' = [got EXCEPT ![c] = Append(@, started')]
  /\ UNCHANGED <<cwd, moves, root, clients, stage, desired, old, closed>>

(* Mutant: the servers started before the one that fails are left.         *)
StartFailsLeaks(c) ==
  /\ stage[c] = "connecting" /\ Len(got[c]) < NumServers
  /\ got' = [got EXCEPT ![c] = <<>>]
  /\ stage' = [stage EXCEPT ![c] = "idle"]
  /\ UNCHANGED <<cwd, moves, root, clients, alive, started, rootOf, desired, old, closed>>

(* One that cannot be started: those before it are closed.                 *)
StartFails(c) ==
  /\ stage[c] = "connecting" /\ Len(got[c]) < NumServers
  /\ alive' = alive \ ElementsOf(got[c])
  /\ got' = [got EXCEPT ![c] = <<>>]
  /\ stage' = [stage EXCEPT ![c] = "idle"]
  /\ UNCHANGED <<cwd, moves, root, clients, started, rootOf, desired, old, closed>>

(* Mutant: the manager does not record where the servers are rooted.       *)
InstallForgetsRoot(c) ==
  /\ stage[c] = "connecting" /\ Len(got[c]) = NumServers
  /\ old' = [old EXCEPT ![c] = clients]
  /\ clients' = got[c]
  /\ got' = [got EXCEPT ![c] = <<>>]
  /\ stage' = [stage EXCEPT ![c] = "replacing"]
  /\ UNCHANGED <<cwd, moves, root, alive, started, rootOf, desired, closed>>

Install(c) ==
  /\ stage[c] = "connecting" /\ Len(got[c]) = NumServers
  /\ old' = [old EXCEPT ![c] = clients]
  /\ clients' = got[c]
  /\ root' = desired[c]
  /\ got' = [got EXCEPT ![c] = <<>>]
  /\ stage' = [stage EXCEPT ![c] = "replacing"]
  /\ UNCHANGED <<cwd, moves, alive, started, rootOf, desired, closed>>

(* The old servers are closed one after the other, and suspend.            *)
CloseOld(c) ==
  /\ stage[c] = "replacing" /\ old[c] # <<>>
  /\ alive' = alive \ {Head(old[c])}
  /\ old' = [old EXCEPT ![c] = Tail(@)]
  /\ UNCHANGED <<cwd, moves, root, clients, started, rootOf, stage, desired, got, closed>>

(* The call takes the servers that are installed by now.                   *)
Use(c) ==
  /\ stage[c] = "replacing" /\ old[c] = <<>>
  /\ stage' = [stage EXCEPT ![c] = "using"]
  /\ UNCHANGED <<cwd, moves, root, clients, alive, started, rootOf, desired, got, old, closed>>

CallEnds(c) ==
  /\ stage[c] = "using"
  /\ stage' = [stage EXCEPT ![c] = "idle"]
  /\ UNCHANGED <<cwd, moves, root, clients, alive, started, rootOf, desired, got, old, closed>>

(* The task of the call is cancelled.  The server in its handshake is      *)
(* closed; the servers before it, and the old ones, are not, because only  *)
(* an Exception is caught.                                                 *)
CancelCall(c) ==
  /\ Cancels /\ stage[c] # "idle"
  /\ stage' = [stage EXCEPT ![c] = "idle"]
  /\ got' = [got EXCEPT ![c] = <<>>]
  /\ old' = [old EXCEPT ![c] = <<>>]
  /\ UNCHANGED <<cwd, moves, root, clients, alive, started, rootOf, desired, closed>>

-----------------------------------------------------------------------------
(* A resume binds another workspace.                                       *)
Move(r) ==
  /\ moves < MaxMoves /\ r # cwd
  /\ cwd' = r
  /\ moves' = moves + 1
  /\ UNCHANGED <<root, clients, alive, started, rootOf, stage, desired, got, old, closed>>

(* Mutant: the servers are left to notice that their pipe is gone.         *)
CloseMarksOnly ==
  /\ ~closed /\ \A c \in Calls : stage[c] = "idle"
  /\ closed' = TRUE
  /\ UNCHANGED <<cwd, moves, root, clients, alive, started, rootOf, stage, desired, got, old>>

(* The session ends; its calls have ended before.                          *)
Close ==
  /\ ~closed /\ \A c \in Calls : stage[c] = "idle"
  /\ closed' = TRUE
  /\ clients' = <<>>
  /\ alive' = alive \ ElementsOf(clients)
  /\ UNCHANGED <<cwd, moves, root, started, rootOf, stage, desired, got, old>>

-----------------------------------------------------------------------------
(* connect has started every server once.                                  *)
Init ==
  /\ cwd \in Roots /\ root = cwd /\ moves = 0
  /\ started = NumServers
  /\ clients = [i \in 1..NumServers |-> i]
  /\ alive = 1..NumServers
  /\ rootOf = [p \in 1..MaxStarted |-> cwd]
  /\ stage = [c \in Calls |-> "idle"]
  /\ desired = [c \in Calls |-> cwd]
  /\ got = [c \in Calls |-> <<>>] /\ old = [c \in Calls |-> <<>>]
  /\ closed = FALSE

Next ==
  \/ \E c \in Calls :
       \/ Begin(c) \/ StartServer(c) \/ StartFails(c) \/ Install(c)
       \/ CloseOld(c) \/ Use(c) \/ CallEnds(c) \/ CancelCall(c)
  \/ \E r \in Roots : Move(r)
  \/ Close

Spec == Init /\ [][Next]_vars

-----------------------------------------------------------------------------
(* A server that runs is installed, being started or about to be closed,   *)
(* however many calls replace the servers at once.                         *)
EveryServerIsOwned ==
  alive \subseteq ElementsOf(clients) \cup
    UNION { ElementsOf(got[c]) \cup ElementsOf(old[c]) : c \in Calls }

(* The servers that are installed share the root the manager records, and  *)
(* they run until another call has replaced them.                          *)
InstalledServersRun ==
  /\ ElementsOf(clients) \subseteq alive
  /\ \A p \in ElementsOf(clients) : rootOf[p] = root

(* "Close every connected server": none is left after it.                  *)
NoServerOutlivesClose == closed => alive = {}
=============================================================================
