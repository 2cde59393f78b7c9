---------------------------- MODULE ServersProofs ----------------------------
(***************************************************************************)
(* The clients of the language servers and of the MCP servers, the request *)
(* tables under them and the managers above, for every value of their      *)
(* constants: any callers, roots and servers, any number of requests. Each *)
(* part has an inductive invariant over its own variables.                 *)
(***************************************************************************)
EXTENDS Integers, Sequences, FiniteSets, TLAPS

CONSTANTS
  Callers, MaxRequests, PipeWedges,
  Calls, Roots, NumServers, Cancels, MaxStarted, MaxMoves,
  Names, Builtin, Offers, SavesFail, MaxServers,
  Connector, MaxSent, ServerAsks

VARIABLES
  nextId, pending, answered, writers, wedged, sent, done, err, callerStage, id, cancelled, closing,
  cwd, moves, root, clients, alive, started, rootOf, stage, desired, got, old, closed,
  servers, tools, mcpClosed, mcpClosing, mcpAlive, mcpStarted, registry, configs, saved, op,
  phase, wireNextId, wirePending, future, wireWriters, wireSent, reading, wireErr, wireStage,
    wireId,
  nth, expired, answer

\* The components, by the names RuntimeProofs gives them in the suite.
LspClient == INSTANCE LspClient WITH stage <- callerStage
LspManager == INSTANCE LspManager
McpManager == INSTANCE McpManager WITH
  closed <- mcpClosed, closing <- mcpClosing, alive <- mcpAlive, started <- mcpStarted
McpSession == INSTANCE McpSession WITH
  MaxRequests <- MaxSent,
  nextId <- wireNextId, pending <- wirePending, writers <- wireWriters, sent <- wireSent,
    err <- wireErr, stage <- wireStage, id <- wireId

-----------------------------------------------------------------------------
(* One connection to a language server.                                    *)

LspStages == {"idle", "locking", "draining", "waiting"}

LspInv ==
  /\ nextId \in Nat /\ callerStage \in [Callers -> LspStages] /\ id \in [Callers -> Nat]
  /\ writers \in Seq(Callers) /\ pending \subseteq Nat
  /\ wedged \in BOOLEAN /\ done \in BOOLEAN /\ err \in BOOLEAN
  \* The caller that writes has the lock.
  /\ \A c \in Callers : callerStage[c] = "draining" => writers # <<>> /\ Head(writers) = c
  \* Only a timeout leaves an error behind while the connection is read.
  /\ done => ~wedged
  /\ err /\ ~done => wedged
  /\ LspClient!PendingIsAwaited
  /\ LspClient!NobodyWaitsForDeadPipe

\* No request is made at the start.
LEMMA LspInit == LspClient!Init => LspInv
<1> SUFFICES ASSUME LspClient!Init PROVE LspInv
  OBVIOUS
<1>1. \A S : <<>> \in Seq(S)
  <2> TAKE S
  <2> QED OBVIOUS
<1>2. nextId = 0 /\ writers = <<>> /\ pending = {} /\ wedged = FALSE /\ done = FALSE /\ err = FALSE
  BY DEF LspClient!Init
<1>3. callerStage = [c \in Callers |-> "idle"] /\ id = [c \in Callers |-> 0] BY DEF LspClient!Init
<1>4. callerStage \in [Callers -> LspStages] /\ id \in [Callers -> Nat] BY <1>3 DEF LspStages
<1>5. writers \in Seq(Callers) /\ nextId \in Nat /\ pending \subseteq Nat BY <1>1, <1>2
<1>6. \A c \in Callers : callerStage[c] # "draining" BY <1>3
<1> QED BY <1>2, <1>4, <1>5, <1>6 DEF LspInv, LspClient!PendingIsAwaited,
    LspClient!NobodyWaitsForDeadPipe

\* A request that ends leaves the others registered.
LEMMA EndKeepsOthers ==
  ASSUME LspInv, NEW c \in Callers, LspClient!End(c)
  PROVE  /\ callerStage' \in [Callers -> LspStages] /\ id' = id /\ pending' \subseteq Nat
         /\ callerStage'[c] = "idle" /\ \A d \in Callers \ {c} : callerStage'[d] = callerStage[d]
         /\ LspClient!PendingIsAwaited'
<1>1. /\ callerStage' = [callerStage EXCEPT ![c] = "idle"] /\ id' = id
      /\ pending' = pending \ {id[c]}
      /\ callerStage \in [Callers -> LspStages] /\ pending \subseteq Nat
  BY DEF LspClient!End, LspInv
<1>2. callerStage' \in [Callers -> LspStages] BY <1>1 DEF LspStages
<1>3. LspClient!PendingIsAwaited'
  <2> SUFFICES ASSUME NEW i \in pending'
               PROVE  \E d \in Callers : callerStage'[d] # "idle" /\ id'[d] = i
    BY DEF LspClient!PendingIsAwaited
  <2>1. PICK d \in Callers : callerStage[d] # "idle" /\ id[d] = i
    BY <1>1 DEF LspInv, LspClient!PendingIsAwaited
  <2>2. d # c BY <1>1, <2>1
  <2> QED BY <1>1, <2>1, <2>2
<1> QED BY <1>1, <1>2, <1>3

\* The head of the lock's queue leaves: nobody writes.
LEMMA LeavesLock ==
  ASSUME LspInv, NEW c \in Callers, writers # <<>>, Head(writers) = c, writers' = Tail(writers)
  PROVE  writers' \in Seq(Callers) /\ \A d \in Callers \ {c} : callerStage[d] # "draining"
BY DEF LspInv

\* Every step of a connection keeps the invariant.
LEMMA LspStep == LspInv /\ [LspClient!Next]_LspClient!vars => LspInv'
<1> SUFFICES ASSUME LspInv, [LspClient!Next]_LspClient!vars PROVE LspInv'
  OBVIOUS
<1>1. ASSUME NEW c \in Callers, LspClient!Request(c) PROVE LspInv'
  <2>1. /\ callerStage[c] = "idle" /\ ~err /\ nextId' = nextId + 1
        /\ id' = [id EXCEPT ![c] = nextId + 1] /\ pending' = pending \cup {nextId + 1}
        /\ writers' = Append(writers, c) /\ callerStage' = [callerStage EXCEPT ![c] = "locking"]
        /\ UNCHANGED <<wedged, done, err>>
    BY <1>1 DEF LspClient!Request, LspClient!FreshId
  <2>2. \A d \in Callers : callerStage'[d] = "draining" => writers' # <<>> /\ Head(writers') = d
    <3> SUFFICES ASSUME NEW d \in Callers, callerStage'[d] = "draining"
                 PROVE  writers' # <<>> /\ Head(writers') = d
      OBVIOUS
    <3>1. callerStage[d] = "draining" /\ writers \in Seq(Callers) BY <2>1 DEF LspInv
    <3>2. writers # <<>> /\ Head(writers) = d BY <3>1 DEF LspInv
    <3> QED BY <2>1, <3>1, <3>2
  <2>3. LspClient!PendingIsAwaited'
    <3> SUFFICES ASSUME NEW i \in pending'
                 PROVE  \E d \in Callers : callerStage'[d] # "idle" /\ id'[d] = i
      BY DEF LspClient!PendingIsAwaited
    <3>1. CASE i = nextId + 1 BY <2>1, <3>1 DEF LspInv
    <3>2. CASE i \in pending
      <4>1. PICK d \in Callers : callerStage[d] # "idle" /\ id[d] = i
        BY <3>2 DEF LspInv, LspClient!PendingIsAwaited
      <4> QED BY <2>1, <4>1 DEF LspInv
    <3> QED BY <2>1, <3>1, <3>2
  <2>4. LspClient!NobodyWaitsForDeadPipe' BY <2>1 DEF LspClient!NobodyWaitsForDeadPipe
  <2>5. /\ callerStage' \in [Callers -> LspStages] /\ id' \in [Callers -> Nat]
        /\ writers' \in Seq(Callers)
        /\ nextId' \in Nat /\ pending' \subseteq Nat
    BY <2>1 DEF LspInv, LspStages
  <2> QED BY <2>1, <2>2, <2>3, <2>4, <2>5 DEF LspInv
<1>2. ASSUME NEW c \in Callers, LspClient!WriteFrame(c) PROVE LspInv'
  <2>1. /\ callerStage[c] = "locking" /\ writers # <<>> /\ Head(writers) = c
        /\ UNCHANGED <<nextId, wedged, done, err>>
    BY <1>2 DEF LspClient!WriteFrame
  <2>2. CASE err
    <3>1. LspClient!End(c) /\ writers' = Tail(writers) BY <1>2, <2>2 DEF LspClient!WriteFrame
    <3>2. \A d \in Callers : callerStage'[d] # "draining" BY <2>1, <3>1, EndKeepsOthers, LeavesLock
    <3>3. LspClient!NobodyWaitsForDeadPipe' BY <3>2 DEF LspClient!NobodyWaitsForDeadPipe
    <3> QED BY <2>1, <3>1, <3>2, <3>3, EndKeepsOthers, LeavesLock DEF LspInv
  <2>3. CASE ~err
    <3>1. /\ callerStage' = [callerStage EXCEPT ![c] = "draining"]
          /\ UNCHANGED <<pending, writers, id>>
      BY <1>2, <2>3 DEF LspClient!WriteFrame
    <3>2. LspClient!PendingIsAwaited' BY <3>1 DEF LspInv, LspClient!PendingIsAwaited
    <3>3. LspClient!NobodyWaitsForDeadPipe' BY <2>1, <2>3 DEF LspClient!NobodyWaitsForDeadPipe
    <3> QED BY <2>1, <3>1, <3>2, <3>3 DEF LspInv, LspStages
  <2> QED BY <2>2, <2>3
<1>3. ASSUME NEW c \in Callers, LspClient!Drained(c) PROVE LspInv'
  <2>1. /\ callerStage[c] = "draining" /\ writers' = Tail(writers)
        /\ callerStage' = [callerStage EXCEPT ![c] = "waiting"]
        /\ UNCHANGED <<nextId, pending, wedged, done, err, id>>
    BY <1>3 DEF LspClient!Drained
  <2>2. writers # <<>> /\ Head(writers) = c BY <2>1 DEF LspInv
  <2>3. \A d \in Callers : callerStage'[d] # "draining" BY <2>1, <2>2, LeavesLock DEF LspInv
  <2>4. LspClient!PendingIsAwaited' BY <2>1 DEF LspInv, LspClient!PendingIsAwaited
  <2>5. LspClient!NobodyWaitsForDeadPipe' BY <2>3 DEF LspClient!NobodyWaitsForDeadPipe
  <2>6. callerStage' \in [Callers -> LspStages] /\ writers' \in Seq(Callers)
    BY <2>1, <2>2, LeavesLock DEF LspInv, LspStages
  <2> QED BY <2>1, <2>3, <2>4, <2>5, <2>6 DEF LspInv
<1>4. ASSUME NEW c \in Callers, LspClient!WriteTimesOut(c) PROVE LspInv'
  <2>1. /\ callerStage[c] = "draining" /\ wedged /\ writers' = Tail(writers) /\ LspClient!End(c)
        /\ err' = TRUE
        /\ UNCHANGED <<nextId, wedged, done>>
    BY <1>4 DEF LspClient!WriteTimesOut
  <2>2. writers # <<>> /\ Head(writers) = c BY <2>1 DEF LspInv
  <2>3. \A d \in Callers : callerStage'[d] # "draining" BY <2>1, <2>2, LeavesLock, EndKeepsOthers
  <2>4. LspClient!NobodyWaitsForDeadPipe' BY <2>3 DEF LspClient!NobodyWaitsForDeadPipe
  <2> QED BY <2>1, <2>2, <2>3, <2>4, LeavesLock, EndKeepsOthers DEF LspInv
<1>5. ASSUME NEW c \in Callers, LspClient!Wake(c) PROVE LspInv'
  <2>1. LspClient!End(c) /\ UNCHANGED <<nextId, writers, wedged, done, err>>
    BY <1>5 DEF LspClient!Wake
  <2>2. LspClient!NobodyWaitsForDeadPipe'
    BY <2>1, EndKeepsOthers DEF LspInv, LspClient!NobodyWaitsForDeadPipe
  <2>3. \A d \in Callers : callerStage'[d] = "draining" => writers # <<>> /\ Head(writers) = d
    BY <2>1, EndKeepsOthers DEF LspInv
  <2> QED BY <2>1, <2>2, <2>3, EndKeepsOthers DEF LspInv
<1>6. ASSUME NEW c \in Callers, LspClient!CancelRun(c) PROVE LspInv'
  BY <1>6 DEF LspClient!CancelRun, LspInv, LspClient!PendingIsAwaited,
    LspClient!NobodyWaitsForDeadPipe
<1>7. ASSUME NEW i \in LspClient!Ids, LspClient!Dispatch(i) PROVE LspInv'
  BY <1>7 DEF LspClient!Dispatch, LspInv, LspClient!PendingIsAwaited,
    LspClient!NobodyWaitsForDeadPipe
<1>8. CASE LspClient!ReadLoopFails
  BY <1>8 DEF LspClient!ReadLoopFails, LspInv, LspClient!PendingIsAwaited,
    LspClient!NobodyWaitsForDeadPipe
<1>9. CASE LspClient!PipeFills
  BY <1>9 DEF LspClient!PipeFills, LspInv, LspClient!PendingIsAwaited,
    LspClient!NobodyWaitsForDeadPipe
<1>10. CASE LspClient!CloseBegin
  BY <1>10 DEF LspClient!CloseBegin, LspInv, LspClient!PendingIsAwaited,
    LspClient!NobodyWaitsForDeadPipe
<1>11. CASE LspClient!CloseKills
  BY <1>11 DEF LspClient!CloseKills, LspInv, LspClient!PendingIsAwaited,
    LspClient!NobodyWaitsForDeadPipe
<1>12. CASE UNCHANGED LspClient!vars
  BY <1>12 DEF LspClient!vars, LspInv, LspClient!PendingIsAwaited, LspClient!NobodyWaitsForDeadPipe
<1> QED
  BY <1>1, <1>2, <1>3, <1>4, <1>5, <1>6, <1>7, <1>8, <1>9, <1>10, <1>11, <1>12 DEF LspClient!Next,
    LspClient!CallerStep

\* tools/lsp/client.py: a request that is registered is one somebody awaits,
\* and nobody awaits an answer that can no longer come, whatever ends, is
\* cancelled or breaks first.
THEOREM RequestsAlwaysAwaited ==
  LspClient!Spec => [](LspClient!PendingIsAwaited /\ LspClient!NobodyWaitsForDeadPipe)
<1>1. LspInv => LspClient!PendingIsAwaited /\ LspClient!NobodyWaitsForDeadPipe BY DEF LspInv
<1> QED BY <1>1, LspInit, LspStep, PTL DEF LspClient!Spec

-----------------------------------------------------------------------------
(* The language servers of a session.                                      *)

ManagerStages == {"idle", "connecting", "replacing", "using"}

ManagerTypes ==
  /\ cwd \in Roots /\ root \in Roots /\ started \in Nat /\ NumServers <= started
  /\ started <= MaxStarted
  /\ clients \in Seq(1..started) /\ closed \in BOOLEAN
  /\ rootOf \in [1..MaxStarted -> Roots]
  /\ stage \in [Calls -> ManagerStages] /\ desired \in [Calls -> Roots]
  /\ got \in [Calls -> Seq(1..started)] /\ old \in [Calls -> Seq(1..started)]

Got(c) == LspManager!ElementsOf(got[c])
Old(c) == LspManager!ElementsOf(old[c])

\* No server is held twice, and those that are to be used run at their root.
Held ==
  /\ \A c \in Calls : stage[c] # "connecting" => got[c] = <<>>
  /\ \A c \in Calls : stage[c] # "replacing" => old[c] = <<>>
  /\ \A c \in Calls : LspManager!ElementsOf(clients) \cap (Got(c) \cup Old(c)) = {}
  /\ \A c, d \in Calls : Got(c) \cap Old(d) = {}
  /\ \A c, d \in Calls : c # d => Got(c) \cap Got(d) = {}
  /\ \A c \in Calls : Got(c) \subseteq alive
  /\ \A c \in Calls : \A p \in Got(c) : rootOf[p] = desired[c]
  /\ alive \subseteq 1..started
  /\ closed => \A c \in Calls : stage[c] = "idle"

ManagerInv ==
  /\ ManagerTypes /\ Held /\ LspManager!EveryServerIsOwned /\ LspManager!InstalledServersRun
  /\ LspManager!NoServerOutlivesClose

\* The elements of a sequence that one more joins.
LEMMA Elements ==
  ASSUME NEW S, NEW s \in Seq(S)
  PROVE  /\ LspManager!ElementsOf(s) \subseteq S
         /\ \A x : LspManager!ElementsOf(Append(s, x)) = LspManager!ElementsOf(s) \cup {x}
         /\ s # <<>> => /\ Tail(s) \in Seq(S)
                        /\ LspManager!ElementsOf(Tail(s)) \subseteq LspManager!ElementsOf(s)
                        /\ LspManager!ElementsOf(s) \ {Head(s)} \subseteq LspManager!ElementsOf(Tail(s))
                        /\ Head(s) \in LspManager!ElementsOf(s)
<1>1. LspManager!ElementsOf(s) \subseteq S BY DEF LspManager!ElementsOf
<1>2. ASSUME NEW x PROVE LspManager!ElementsOf(Append(s, x)) = LspManager!ElementsOf(s) \cup {x}
  <2>1. /\ DOMAIN Append(s, x) = 1 .. (Len(s) + 1) /\ DOMAIN s = 1 .. Len(s) /\ Len(s) \in Nat
        /\ \A i \in 1 .. Len(s) : Append(s, x)[i] = s[i]
        /\ Append(s, x)[Len(s) + 1] = x
    OBVIOUS
  <2> QED BY <2>1 DEF LspManager!ElementsOf
<1>3. ASSUME s # <<>>
      PROVE  /\ Tail(s) \in Seq(S)
             /\ LspManager!ElementsOf(Tail(s)) \subseteq LspManager!ElementsOf(s)
             /\ LspManager!ElementsOf(s) \ {Head(s)} \subseteq LspManager!ElementsOf(Tail(s))
             /\ Head(s) \in LspManager!ElementsOf(s)
  <2>1. Len(s) \in Nat /\ Len(s) > 0 /\ DOMAIN s = 1 .. Len(s) BY <1>3
  <2>2. /\ Tail(s) \in Seq(S) /\ DOMAIN Tail(s) = 1 .. (Len(s) - 1)
        /\ \A i \in 1 .. (Len(s) - 1) : Tail(s)[i] = s[i + 1]
        /\ Head(s) = s[1]
    BY <1>3, <2>1
  <2>3. LspManager!ElementsOf(Tail(s)) \subseteq LspManager!ElementsOf(s)
    BY <2>1, <2>2 DEF LspManager!ElementsOf
  <2>4. LspManager!ElementsOf(s) \ {Head(s)} \subseteq LspManager!ElementsOf(Tail(s))
    <3> SUFFICES ASSUME NEW i \in DOMAIN s, s[i] # s[1]
                 PROVE  s[i] \in LspManager!ElementsOf(Tail(s))
      BY <2>2 DEF LspManager!ElementsOf
    <3>1. i - 1 \in 1 .. (Len(s) - 1) /\ Tail(s)[i - 1] = s[i] BY <2>1, <2>2
    <3> QED BY <2>2, <3>1 DEF LspManager!ElementsOf
  <2>5. Head(s) \in LspManager!ElementsOf(s) BY <2>1, <2>2 DEF LspManager!ElementsOf
  <2> QED BY <2>2, <2>3, <2>4, <2>5
<1> QED BY <1>1, <1>2, <1>3

\* No server is started at the start.
LEMMA ManagerInit == LspManager!LspAssumption => (LspManager!Init => ManagerInv)
<1> SUFFICES ASSUME LspManager!LspAssumption, LspManager!Init PROVE ManagerInv
  OBVIOUS
<1>1. /\ NumServers \in Nat /\ MaxStarted \in Nat /\ NumServers <= MaxStarted
  BY DEF LspManager!LspAssumption
<1>2. clients \in Seq(1..started) /\ LspManager!ElementsOf(clients) = 1..NumServers
  BY <1>1 DEF LspManager!Init, LspManager!ElementsOf
<1>3. LspManager!ElementsOf(<<>>) = {} BY DEF LspManager!ElementsOf
<1>4. \A S : <<>> \in Seq(S)
  <2> TAKE S
  <2> QED OBVIOUS
<1>5. ManagerTypes
  <2>1. /\ cwd \in Roots /\ root = cwd /\ started = NumServers /\ closed = FALSE
        /\ rootOf = [p \in 1..MaxStarted |-> cwd] /\ desired = [c \in Calls |-> cwd]
        /\ stage = [c \in Calls |-> "idle"]
        /\ got = [c \in Calls |-> <<>>] /\ old = [c \in Calls |-> <<>>]
    BY DEF LspManager!Init
  <2>2. rootOf \in [1..MaxStarted -> Roots] /\ desired \in [Calls -> Roots] BY <2>1
  <2>3. stage \in [Calls -> ManagerStages] BY <2>1 DEF ManagerStages
  <2>4. got \in [Calls -> Seq(1..started)] /\ old \in [Calls -> Seq(1..started)] BY <1>4, <2>1
  <2>5. cwd \in Roots /\ root \in Roots /\ closed \in BOOLEAN BY <2>1
  <2>6. started \in Nat /\ NumServers <= started /\ started <= MaxStarted BY <1>1, <2>1
  <2> QED BY <1>2, <2>2, <2>3, <2>4, <2>5, <2>6 DEF ManagerTypes
<1>6. \A c \in Calls : Got(c) = {} /\ Old(c) = {} BY <1>3 DEF LspManager!Init, Got, Old
<1>7. Held BY <1>1, <1>6 DEF LspManager!Init, Held
<1>8. LspManager!EveryServerIsOwned BY <1>2 DEF LspManager!Init, LspManager!EveryServerIsOwned
<1>9. LspManager!InstalledServersRun
  BY <1>1, <1>2 DEF LspManager!Init, LspManager!InstalledServersRun
<1>10. LspManager!NoServerOutlivesClose BY DEF LspManager!Init, LspManager!NoServerOutlivesClose
<1> QED BY <1>5, <1>7, <1>8, <1>9, <1>10 DEF ManagerInv

\* Ownership in the words of the invariant.
LEMMA OwnedBy ==
  LspManager!EveryServerIsOwned <=> \A p \in alive : p \in LspManager!ElementsOf(clients) \/
    \E c \in Calls : p \in Got(c) \cup Old(c)
BY DEF LspManager!EveryServerIsOwned, Got, Old

\* A call moves on and the servers stay where they are.
LEMMA CallKeeps ==
  ASSUME ManagerInv, NEW c \in Calls, NEW s \in ManagerStages, stage' = [stage EXCEPT ![c] = s],
         s # "connecting" => got[c] = <<>>, s # "replacing" => old[c] = <<>>, closed => s = "idle",
         desired' \in [Calls -> Roots], \A d \in Calls : d # c \/ got[c] # <<>> =>
           desired'[d] = desired[d],
         got' = got, UNCHANGED <<cwd, root, clients, alive, started, rootOf, old, closed>>
  PROVE  ManagerInv'
<1>1. ManagerTypes' BY DEF ManagerInv, ManagerTypes
<1>2. \A d \in Calls : Got(d)' = Got(d) /\ Old(d)' = Old(d) BY DEF Got, Old
<1>3. \A d \in Calls : stage'[d] = IF d = c THEN s ELSE stage[d] BY DEF ManagerInv, ManagerTypes
<1>4. got[c] = <<>> => Got(c) = {} BY DEF Got, LspManager!ElementsOf
<1>5. Held'
  <2>1. /\ \A d \in Calls : stage'[d] # "connecting" => got'[d] = <<>>
        /\ \A d \in Calls : stage'[d] # "replacing" => old'[d] = <<>>
        /\ closed' => \A d \in Calls : stage'[d] = "idle"
    BY <1>3 DEF ManagerInv, Held
  <2>2. /\ \A d \in Calls : LspManager!ElementsOf(clients)' \cap (Got(d)' \cup Old(d)') = {}
        /\ \A d, e \in Calls : Got(d)' \cap Old(e)' = {}
        /\ \A d, e \in Calls : d # e => Got(d)' \cap Got(e)' = {}
        /\ \A d \in Calls : Got(d)' \subseteq alive' /\ alive' \subseteq 1..started'
    BY <1>2 DEF ManagerInv, Held
  <2>3. \A d \in Calls : \A p \in Got(d)' : rootOf'[p] = desired'[d]
    BY <1>2, <1>4 DEF ManagerInv, Held
  <2> QED BY <2>1, <2>2, <2>3 DEF Held, ManagerInv
<1>6. /\ LspManager!EveryServerIsOwned' /\ LspManager!InstalledServersRun'
      /\ LspManager!NoServerOutlivesClose'
  BY DEF ManagerInv, LspManager!EveryServerIsOwned, LspManager!InstalledServersRun,
    LspManager!NoServerOutlivesClose
<1> QED BY <1>1, <1>5, <1>6 DEF ManagerInv

\* A server that starts is held by the call that started it.
LEMMA StartServerKeeps ==
  ASSUME LspManager!LspAssumption, ManagerInv, NEW c \in Calls, LspManager!StartServer(c)
  PROVE  ManagerInv'
<1> DEFINE n == started + 1
<1>1. /\ stage[c] = "connecting" /\ started < MaxStarted /\ started' = n
      /\ alive' = alive \cup {n} /\ rootOf' = [rootOf EXCEPT ![n] = desired[c]]
      /\ got' = [got EXCEPT ![c] = Append(@, n)]
      /\ UNCHANGED <<cwd, root, clients, stage, desired, old, closed>>
  BY DEF LspManager!StartServer
<1>2. /\ started \in Nat /\ MaxStarted \in Nat /\ n \in 1..MaxStarted /\ n \in 1..n
      /\ 1..started \subseteq 1..n
      /\ n \notin 1..started /\ NumServers \in Nat
  BY <1>1 DEF ManagerInv, ManagerTypes, LspManager!LspAssumption
<1>3. /\ clients \in Seq(1..n) /\ old \in [Calls -> Seq(1..n)] /\ got \in [Calls -> Seq(1..n)]
      /\ \A d \in Calls : Got(d) \subseteq 1..started /\ Old(d) \subseteq 1..started
      /\ LspManager!ElementsOf(clients) \subseteq 1..started
  <2>1. \A s \in Seq(1..started) : s \in Seq(1..n) BY <1>2
  <2>2. \A s \in Seq(1..started) : LspManager!ElementsOf(s) \subseteq 1..started
    <3> TAKE s \in Seq(1..started)
    <3> QED BY Elements
  <2> QED BY <2>1, <2>2 DEF ManagerInv, ManagerTypes, Got, Old
<1>4. \A d \in Calls : /\ Got(d)' = IF d = c THEN Got(c) \cup {n} ELSE Got(d)
                       /\ Old(d)' = Old(d)
  <2>1. \A d \in Calls : got'[d] = IF d = c THEN Append(got[c], n) ELSE got[d]
    BY <1>1 DEF ManagerInv, ManagerTypes
  <2>2. got[c] \in Seq(1..started) BY DEF ManagerInv, ManagerTypes
  <2>3. LspManager!ElementsOf(Append(got[c], n)) = LspManager!ElementsOf(got[c]) \cup {n}
    <3> HIDE DEF n
    <3> QED BY <2>2, Elements
  <2>4. ASSUME NEW d \in Calls PROVE Got(d)' = IF d = c THEN Got(c) \cup {n} ELSE Got(d)
    BY <2>1, <2>3 DEF Got
  <2>5. \A d \in Calls : Old(d)' = Old(d) BY <1>1 DEF Old
  <2> QED BY <2>4, <2>5
<1>5. ManagerTypes'
  <2>1. got' \in [Calls -> Seq(1..n)] BY <1>1, <1>2, <1>3
  <2>2. rootOf' \in [1..MaxStarted -> Roots] BY <1>1, <1>2 DEF ManagerInv, ManagerTypes
  <2> QED BY <1>1, <1>2, <1>3, <2>1, <2>2 DEF ManagerInv, ManagerTypes
<1>6. \A p \in 1..started : rootOf'[p] = rootOf[p] BY <1>1, <1>2 DEF ManagerInv, ManagerTypes
<1>7. rootOf'[n] = desired[c] BY <1>1, <1>2 DEF ManagerInv, ManagerTypes
<1>8. \A d \in Calls : stage[d] # "connecting" => got'[d] = <<>>
  BY <1>1 DEF ManagerInv, Held, ManagerTypes
<1>9. Held'
  <2>1. ASSUME NEW d \in Calls, NEW p \in Got(d)' PROVE rootOf'[p] = desired[d]
    <3>1. CASE p \in Got(d)
      <4>1. rootOf[p] = desired[d] BY <3>1 DEF ManagerInv, Held
      <4>2. p \in 1..started BY <3>1, <1>3
      <4> QED BY <4>1, <4>2, <1>6
    <3>2. CASE p \notin Got(d)
      <4>1. d = c /\ p = n BY <3>2, <2>1, <1>4
      <4> QED BY <4>1, <1>7
    <3> QED BY <3>1, <3>2
  <2>2. \A d \in Calls : Got(d)' \subseteq alive' BY <1>1, <1>4 DEF ManagerInv, Held
  <2>3. /\ \A d \in Calls : LspManager!ElementsOf(clients)' \cap (Got(d)' \cup Old(d)') = {}
        /\ \A d, e \in Calls : Got(d)' \cap Old(e)' = {}
        /\ \A d, e \in Calls : d # e => Got(d)' \cap Got(e)' = {}
    <3>1. \A d \in Calls : /\ Got(d)' \subseteq Got(d) \cup {n} /\ (d # c => Got(d)' = Got(d))
                           /\ Old(d)' = Old(d) /\ n \notin Got(d) /\ n \notin Old(d)
      BY <1>2, <1>3, <1>4
    <3>2. n \notin LspManager!ElementsOf(clients) /\ clients' = clients BY <1>1, <1>2, <1>3
    <3> HIDE DEF n
    <3>3. \A d \in Calls : LspManager!ElementsOf(clients)' \cap (Got(d)' \cup Old(d)') = {}
      BY <3>1, <3>2 DEF ManagerInv, Held
    <3>4. \A d, e \in Calls : Got(d)' \cap Old(e)' = {} BY <3>1 DEF ManagerInv, Held
    <3>5. ASSUME NEW d \in Calls, NEW e \in Calls, d # e PROVE Got(d)' \cap Got(e)' = {}
      <4>1. Got(d) \cap Got(e) = {} BY <3>5 DEF ManagerInv, Held
      <4> QED BY <3>1, <3>5, <4>1
    <3> QED BY <3>3, <3>4, <3>5
  <2>4. alive' \subseteq 1..started' BY <1>1, <1>2 DEF ManagerInv, Held
  <2> QED BY <1>1, <1>8, <2>1, <2>2, <2>3, <2>4 DEF ManagerInv, Held
<1>10. LspManager!EveryServerIsOwned'
  <2>1. \A p \in alive' : p \in LspManager!ElementsOf(clients) \/
          \E d \in Calls : p \in Got(d)' \cup Old(d)'
    BY <1>1, <1>4, OwnedBy DEF ManagerInv
  <2> QED BY <1>1, <2>1 DEF LspManager!EveryServerIsOwned, Got, Old
<1>11. LspManager!InstalledServersRun'
  BY <1>1, <1>3, <1>6 DEF ManagerInv, LspManager!InstalledServersRun
<1>12. LspManager!NoServerOutlivesClose'
  BY <1>1 DEF ManagerInv, Held, LspManager!NoServerOutlivesClose
<1> QED BY <1>5, <1>9, <1>10, <1>11, <1>12 DEF ManagerInv

\* What the call started is closed when one does not start.
LEMMA StartFailsKeeps ==
  ASSUME ManagerInv, NEW c \in Calls, LspManager!StartFails(c)
  PROVE  ManagerInv'
<1>1. /\ stage[c] = "connecting" /\ alive' = alive \ Got(c)
      /\ got' = [got EXCEPT ![c] = <<>>] /\ stage' = [stage EXCEPT ![c] = "idle"]
      /\ UNCHANGED <<cwd, root, clients, started, rootOf, desired, old, closed>>
  BY DEF LspManager!StartFails, Got
<1>2. ManagerTypes' BY <1>1 DEF ManagerInv, ManagerTypes, ManagerStages
<1>3. /\ \A d \in Calls : /\ Got(d)' = IF d = c THEN {} ELSE Got(d)
                          /\ Old(d)' = Old(d) /\ got'[d] = IF d = c THEN <<>> ELSE got[d]
                          /\ stage'[d] = IF d = c THEN "idle" ELSE stage[d]
      /\ old[c] = <<>>
  <2>1. /\ \A d \in Calls : got'[d] = IF d = c THEN <<>> ELSE got[d]
        /\ \A d \in Calls : stage'[d] = IF d = c THEN "idle" ELSE stage[d]
    BY <1>1 DEF ManagerInv, ManagerTypes
  <2>2. LspManager!ElementsOf(<<>>) = {} BY DEF LspManager!ElementsOf
  <2>3. old[c] = <<>> BY <1>1 DEF ManagerInv, Held
  <2>4. ASSUME NEW d \in Calls PROVE Got(d)' = IF d = c THEN {} ELSE Got(d)
    BY <2>1, <2>2 DEF Got
  <2>5. \A d \in Calls : Old(d)' = Old(d) BY <1>1 DEF Old
  <2> QED BY <2>1, <2>3, <2>4, <2>5
<1>4. Held'
  <2>1. /\ \A d \in Calls : stage'[d] # "connecting" => got'[d] = <<>>
        /\ \A d \in Calls : stage'[d] # "replacing" => old'[d] = <<>>
        /\ closed' => \A d \in Calls : stage'[d] = "idle"
    BY <1>1, <1>3 DEF ManagerInv, Held
  <2>2. /\ \A d \in Calls : LspManager!ElementsOf(clients)' \cap (Got(d)' \cup Old(d)') = {}
        /\ \A d, e \in Calls : Got(d)' \cap Old(e)' = {}
        /\ \A d, e \in Calls : d # e => Got(d)' \cap Got(e)' = {}
    BY <1>1, <1>3 DEF ManagerInv, Held
  <2>3. \A d \in Calls : Got(d)' \subseteq alive'
    <3> SUFFICES ASSUME NEW d \in Calls PROVE Got(d)' \subseteq alive'
      OBVIOUS
    <3>1. Got(d) \subseteq alive /\ (d # c => Got(d) \cap Got(c) = {}) BY DEF ManagerInv, Held
    <3> QED BY <1>1, <1>3, <3>1
  <2>4. /\ \A d \in Calls : \A p \in Got(d)' : rootOf'[p] = desired'[d]
        /\ alive' \subseteq 1..started'
    BY <1>1, <1>3 DEF ManagerInv, Held
  <2> QED BY <2>1, <2>2, <2>3, <2>4 DEF Held
<1>5. LspManager!EveryServerIsOwned'
  <2>1. \A p \in alive' : p \in LspManager!ElementsOf(clients) \/
          \E d \in Calls : p \in Got(d)' \cup Old(d)'
    BY <1>1, <1>3, OwnedBy DEF ManagerInv
  <2> QED BY <1>1, <2>1 DEF LspManager!EveryServerIsOwned, Got, Old
<1>6. LspManager!InstalledServersRun' BY <1>1 DEF ManagerInv, Held, LspManager!InstalledServersRun
<1>7. LspManager!NoServerOutlivesClose' BY <1>1 DEF ManagerInv, LspManager!NoServerOutlivesClose
<1> QED BY <1>2, <1>4, <1>5, <1>6, <1>7 DEF ManagerInv

\* The servers of the call become those of the manager.
LEMMA InstallKeeps ==
  ASSUME ManagerInv, NEW c \in Calls, LspManager!Install(c)
  PROVE  ManagerInv'
<1>1. /\ stage[c] = "connecting" /\ old' = [old EXCEPT ![c] = clients] /\ clients' = got[c]
      /\ root' = desired[c] /\ got' = [got EXCEPT ![c] = <<>>]
      /\ stage' = [stage EXCEPT ![c] = "replacing"]
      /\ UNCHANGED <<cwd, alive, started, rootOf, desired, closed>>
  BY DEF LspManager!Install
<1>2. ManagerTypes' BY <1>1 DEF ManagerInv, ManagerTypes, ManagerStages
<1>3. /\ \A d \in Calls : /\ Got(d)' = IF d = c THEN {} ELSE Got(d)
                          /\ Old(d)' = IF d = c THEN LspManager!ElementsOf(clients) ELSE Old(d)
                          /\ got'[d] = IF d = c THEN <<>> ELSE got[d]
                          /\ old'[d] = IF d = c THEN clients ELSE old[d]
                          /\ stage'[d] = IF d = c THEN "replacing" ELSE stage[d]
      /\ old[c] = <<>> /\ Old(c) = {} /\ LspManager!ElementsOf(clients)' = Got(c)
  BY <1>1 DEF Got, Old, LspManager!ElementsOf, ManagerInv, ManagerTypes, Held
<1>4. Held'
  <2>1. /\ \A d \in Calls : stage'[d] # "connecting" => got'[d] = <<>>
        /\ \A d \in Calls : stage'[d] # "replacing" => old'[d] = <<>>
        /\ closed' => \A d \in Calls : stage'[d] = "idle"
    BY <1>1, <1>3 DEF ManagerInv, Held
  <2>2. /\ \A d \in Calls : LspManager!ElementsOf(clients)' \cap (Got(d)' \cup Old(d)') = {}
        /\ \A d, e \in Calls : Got(d)' \cap Old(e)' = {}
        /\ \A d, e \in Calls : d # e => Got(d)' \cap Got(e)' = {}
    BY <1>3 DEF ManagerInv, Held
  <2>3. /\ \A d \in Calls : Got(d)' \subseteq alive'
        /\ \A d \in Calls : \A p \in Got(d)' : rootOf'[p] = desired'[d]
        /\ alive' \subseteq 1..started'
    BY <1>1, <1>3 DEF ManagerInv, Held
  <2> QED BY <2>1, <2>2, <2>3 DEF Held
<1>5. LspManager!EveryServerIsOwned'
  <2>1. \A p \in alive' : p \in LspManager!ElementsOf(clients)' \/
          \E d \in Calls : p \in Got(d)' \cup Old(d)'
    <3> SUFFICES ASSUME NEW p \in alive
                 PROVE  p \in Got(c) \/ \E d \in Calls : p \in Got(d)' \cup Old(d)'
      BY <1>1, <1>3
    <3>1. CASE p \in LspManager!ElementsOf(clients) BY <1>3, <3>1
    <3>2. ASSUME NEW d \in Calls, p \in Got(d) \cup Old(d)
          PROVE  p \in Got(c) \/ \E e \in Calls : p \in Got(e)' \cup Old(e)'
      BY <1>3, <3>2
    <3> QED BY <3>1, <3>2, OwnedBy DEF ManagerInv
  <2> QED BY <2>1 DEF LspManager!EveryServerIsOwned, Got, Old
<1>6. LspManager!InstalledServersRun'
  BY <1>1, <1>3 DEF ManagerInv, Held, LspManager!InstalledServersRun
<1>7. LspManager!NoServerOutlivesClose' BY <1>1 DEF ManagerInv, LspManager!NoServerOutlivesClose
<1> QED BY <1>2, <1>4, <1>5, <1>6, <1>7 DEF ManagerInv

\* The call closes the servers it replaced.
LEMMA CloseOldKeeps ==
  ASSUME ManagerInv, NEW c \in Calls, LspManager!CloseOld(c)
  PROVE  ManagerInv'
<1> DEFINE h == Head(old[c])
<1>1. /\ stage[c] = "replacing" /\ old[c] # <<>> /\ alive' = alive \ {h}
      /\ old' = [old EXCEPT ![c] = Tail(@)]
      /\ UNCHANGED <<cwd, root, clients, started, rootOf, stage, desired, got, closed>>
  BY DEF LspManager!CloseOld
<1>2. old[c] \in Seq(1..started) BY DEF ManagerInv, ManagerTypes
<1>3. /\ Tail(old[c]) \in Seq(1..started) /\ LspManager!ElementsOf(Tail(old[c])) \subseteq Old(c)
      /\ Old(c) \ {h} \subseteq LspManager!ElementsOf(Tail(old[c])) /\ h \in Old(c)
  BY <1>1, <1>2, Elements DEF Old
<1>4. ManagerTypes' BY <1>1, <1>3 DEF ManagerInv, ManagerTypes
<1>5. \A d \in Calls : /\ Got(d)' = Got(d)
                       /\ Old(d)' = IF d = c THEN LspManager!ElementsOf(Tail(old[c])) ELSE Old(d)
                       /\ old'[d] = IF d = c THEN Tail(old[c]) ELSE old[d]
  BY <1>1 DEF Got, Old, ManagerInv, ManagerTypes
<1>6. Held'
  <2>1. /\ \A d \in Calls : stage'[d] # "connecting" => got'[d] = <<>>
        /\ \A d \in Calls : stage'[d] # "replacing" => old'[d] = <<>>
        /\ closed' => \A d \in Calls : stage'[d] = "idle"
    BY <1>1, <1>5 DEF ManagerInv, Held
  <2>2. \A d \in Calls : Old(d)' \subseteq Old(d) BY <1>3, <1>5
  <2>3. /\ \A d \in Calls : LspManager!ElementsOf(clients)' \cap (Got(d)' \cup Old(d)') = {}
        /\ \A d, e \in Calls : Got(d)' \cap Old(e)' = {}
        /\ \A d, e \in Calls : d # e => Got(d)' \cap Got(e)' = {}
    BY <1>1, <1>5, <2>2 DEF ManagerInv, Held
  <2>4. \A d \in Calls : Got(d)' \subseteq alive' BY <1>1, <1>3, <1>5 DEF ManagerInv, Held
  <2>5. /\ \A d \in Calls : \A p \in Got(d)' : rootOf'[p] = desired'[d]
        /\ alive' \subseteq 1..started'
    BY <1>1, <1>5 DEF ManagerInv, Held
  <2> QED BY <2>1, <2>3, <2>4, <2>5 DEF Held
<1>7. LspManager!EveryServerIsOwned'
  <2>1. \A p \in alive' : p \in LspManager!ElementsOf(clients) \/
          \E d \in Calls : p \in Got(d)' \cup Old(d)'
    BY <1>1, <1>3, <1>5, OwnedBy DEF ManagerInv
  <2> QED BY <1>1, <2>1 DEF LspManager!EveryServerIsOwned, Got, Old
<1>8. LspManager!InstalledServersRun'
  BY <1>1, <1>3 DEF ManagerInv, Held, LspManager!InstalledServersRun
<1>9. LspManager!NoServerOutlivesClose' BY <1>1 DEF ManagerInv, LspManager!NoServerOutlivesClose
<1> QED BY <1>4, <1>6, <1>7, <1>8, <1>9 DEF ManagerInv

\* The manager closes.
LEMMA CloseKeeps ==
  ASSUME ManagerInv, LspManager!Close
  PROVE  ManagerInv'
<1>1. /\ ~closed /\ \A c \in Calls : stage[c] = "idle" /\ got[c] = <<>> /\ old[c] = <<>>
      /\ closed' = TRUE /\ clients' = <<>> /\ alive' = alive \ LspManager!ElementsOf(clients)
      /\ UNCHANGED <<cwd, root, started, rootOf, stage, desired, got, old>>
  BY DEF LspManager!Close, ManagerInv, Held
<1>2. LspManager!ElementsOf(<<>>) = {} /\ \A c \in Calls : Got(c) = {} /\ Old(c) = {}
  BY <1>1 DEF LspManager!ElementsOf, Got, Old
<1>3. alive' = {} BY <1>1, <1>2, OwnedBy DEF ManagerInv
<1>4. ManagerTypes' BY <1>1 DEF ManagerInv, ManagerTypes
<1>5. \A c \in Calls : Got(c)' = {} /\ Old(c)' = {} BY <1>1, <1>2 DEF Got, Old
<1>6. Held' BY <1>1, <1>2, <1>3, <1>5 DEF ManagerInv, Held
<1>7. /\ LspManager!EveryServerIsOwned' /\ LspManager!InstalledServersRun'
      /\ LspManager!NoServerOutlivesClose'
  BY <1>1, <1>2, <1>3 DEF LspManager!EveryServerIsOwned, LspManager!InstalledServersRun,
    LspManager!NoServerOutlivesClose
<1> QED BY <1>4, <1>6, <1>7 DEF ManagerInv

\* Every step of the manager keeps the invariant.
LEMMA ManagerStep ==
  ASSUME LspManager!LspAssumption, ~Cancels
  PROVE  ManagerInv /\ [LspManager!Next]_LspManager!vars => ManagerInv'
<1> SUFFICES ASSUME ManagerInv, [LspManager!Next]_LspManager!vars PROVE ManagerInv'
  OBVIOUS
<1>0. \A c \in Calls : /\ stage[c] # "connecting" => got[c] = <<>>
                       /\ stage[c] # "replacing" => old[c] = <<>>
                       /\ closed => stage[c] = "idle"
  BY DEF ManagerInv, Held
<1>1. ASSUME NEW c \in Calls, LspManager!Begin(c) PROVE ManagerInv'
  <2>1. /\ stage[c] = "idle" /\ ~closed
        /\ UNCHANGED <<cwd, root, clients, alive, started, rootOf, old, closed>>
    BY <1>1 DEF LspManager!Begin
  <2>2. got[c] = <<>> /\ old[c] = <<>> BY <1>0, <2>1
  <2>3. CASE cwd = root
    BY <1>1, <2>1, <2>2, <2>3, CallKeeps DEF LspManager!Begin, ManagerStages, ManagerInv,
      ManagerTypes
  <2>4. CASE cwd # root
    <3>1. /\ stage' = [stage EXCEPT ![c] = "connecting"] /\ desired' = [desired EXCEPT ![c] = cwd]
          /\ got' = [got EXCEPT ![c] = <<>>]
      BY <1>1, <2>4 DEF LspManager!Begin
    <3>2. got' = got BY <2>2, <3>1 DEF ManagerInv, ManagerTypes
    <3>3. desired' \in [Calls -> Roots] /\ \A d \in Calls : d # c => desired'[d] = desired[d]
      BY <3>1 DEF ManagerInv, ManagerTypes
    <3> QED BY <2>1, <2>2, <3>1, <3>2, <3>3, CallKeeps DEF ManagerStages
  <2> QED BY <2>3, <2>4
<1>2. ASSUME NEW c \in Calls, LspManager!StartServer(c) PROVE ManagerInv' BY <1>2, StartServerKeeps
<1>3. ASSUME NEW c \in Calls, LspManager!StartFails(c) PROVE ManagerInv' BY <1>3, StartFailsKeeps
<1>4. ASSUME NEW c \in Calls, LspManager!Install(c) PROVE ManagerInv' BY <1>4, InstallKeeps
<1>5. ASSUME NEW c \in Calls, LspManager!CloseOld(c) PROVE ManagerInv' BY <1>5, CloseOldKeeps
<1>6. ASSUME NEW c \in Calls, LspManager!Use(c) PROVE ManagerInv'
  BY <1>0, <1>6, CallKeeps DEF LspManager!Use, ManagerStages, ManagerInv, ManagerTypes
<1>7. ASSUME NEW c \in Calls, LspManager!CallEnds(c) PROVE ManagerInv'
  BY <1>0, <1>7, CallKeeps DEF LspManager!CallEnds, ManagerStages, ManagerInv, ManagerTypes
<1>8. ASSUME NEW c \in Calls, LspManager!CancelCall(c) PROVE ManagerInv'
  BY <1>8 DEF LspManager!CancelCall
<1>9. ASSUME NEW r \in Roots, LspManager!Move(r) PROVE ManagerInv'
  BY <1>9 DEF LspManager!Move, ManagerInv, ManagerTypes, Held, Got, Old,
    LspManager!EveryServerIsOwned, LspManager!InstalledServersRun, LspManager!NoServerOutlivesClose
<1>10. CASE LspManager!Close BY <1>10, CloseKeeps
<1>11. CASE UNCHANGED LspManager!vars
  BY <1>11 DEF LspManager!vars, ManagerInv, ManagerTypes, Held, Got, Old,
    LspManager!EveryServerIsOwned, LspManager!InstalledServersRun, LspManager!NoServerOutlivesClose
<1> QED BY <1>1, <1>2, <1>3, <1>4, <1>5, <1>6, <1>7, <1>8, <1>9, <1>10, <1>11 DEF LspManager!Next

\* tools/lsp/client.py: a language server that lives is held by the manager or
\* by a call that will install or close it; the installed ones run; none
\* outlives a close. As long as no task is cancelled in the middle of a call,
\* which is only when the terminal quits.
THEOREM ServersAlwaysOwned ==
  LspManager!LspAssumption /\ ~Cancels =>
    (LspManager!Spec =>
    [](LspManager!EveryServerIsOwned /\ LspManager!InstalledServersRun /\
    LspManager!NoServerOutlivesClose))
<1> SUFFICES ASSUME LspManager!LspAssumption, ~Cancels
             PROVE  LspManager!Spec =>
                      [](LspManager!EveryServerIsOwned /\ LspManager!InstalledServersRun /\
                      LspManager!NoServerOutlivesClose)
  OBVIOUS
<1>1. ManagerInv => LspManager!EveryServerIsOwned /\ LspManager!InstalledServersRun /\
        LspManager!NoServerOutlivesClose
  BY DEF ManagerInv
<1> QED BY <1>1, ManagerInit, ManagerStep, PTL DEF LspManager!Spec

-----------------------------------------------------------------------------
(* The MCP servers of a session.                                           *)

ConnectKinds == {"add", "reconnect", "restart"}

\* What the controller is in. A process that is connected belongs to nobody yet.
OpTypes ==
  \/ op = McpManager!NoOp
  \/ /\ op.kind = "remove" /\ op = [kind |-> "remove", name |-> op.name, names |-> op.names]
     /\ op.name \in Names /\ servers[op.name] = McpManager!None
  \/ /\ op.kind \in ConnectKinds
     /\ op = [kind |-> op.kind, name |-> op.name, old |-> op.old, stage |-> op.stage,
              process |-> op.process, offer |-> op.offer]
     /\ op.name \in Names /\ op.stage \in {"connecting", "connected"}
     /\ op.old = servers[op.name] /\ (op.kind = "restart" <=> op.old # McpManager!None)
     /\ IF op.stage = "connecting" THEN op.process = McpManager!None
        ELSE /\ op.process \in Nat \ {McpManager!None} /\ op.process <= mcpStarted
             /\ \A n \in Names : servers[n] # op.process

ServerTypes ==
  /\ mcpStarted \in Nat /\ servers \in [Names -> Nat]
  /\ \A n \in Names : servers[n] <= mcpStarted
  /\ \A m, n \in Names : servers[m] = servers[n] /\ servers[m] # McpManager!None => m = n
  /\ \A p \in mcpAlive : p \in Nat \ {McpManager!None} /\ p <= mcpStarted
  /\ ~mcpClosed => mcpClosing = {}

\* Where a process that runs is held: the table of a manager, closed or not,
\* what a close has still to close, or an operation.
HeldSomewhere(p) ==
  \/ \E n \in Names : servers[n] = p
  \/ p \in mcpClosing
  \/ op.kind \in ConnectKinds /\ p = op.process

EveryProcessIsHeld == \A p \in mcpAlive : p # McpManager!None /\ HeldSomewhere(p)

\* The settings still name a server whose removal is not over.
SettingsNameIt ==
  saved = configs /\ (op.kind \in {"remove", "reconnect"} => op.name \in saved)

McpOwned == OpTypes /\ ServerTypes /\ EveryProcessIsHeld

\* A tool of a server is of one that is connected; no name is there twice, also
\* while the tools of a server that is being removed are still registered.
ToolsAreServed ==
  /\ \A t \in tools : t = <<t[1], t[2]>> /\ t[2] # McpManager!None /\
       \E n \in Names : t[2] = servers[n]
  /\ \A s, t \in registry : s[1] = t[1] => s = t
  /\ op.kind # "remove" => registry = McpManager!BuiltinTools \cup tools
  /\ op.kind = "remove" =>
       { t \in registry : t[1] \notin op.names } = McpManager!BuiltinTools \cup tools

\* The settings name the connected servers and the one that is being removed.
SettingsInStep ==
  /\ saved = configs
  /\ op.kind # "remove" => saved = { n \in Names : servers[n] # McpManager!None }
  /\ op.kind = "remove" => saved \ {op.name} = { n \in Names : servers[n] # McpManager!None }

McpKept == op.kind # "reconnect" /\ ToolsAreServed /\ SettingsInStep

\* No MCP server is there at the start.
LEMMA McpInit == McpManager!Init => McpOwned /\ McpKept
<1> SUFFICES ASSUME McpManager!Init PROVE McpOwned /\ McpKept
  OBVIOUS
<1>1. /\ servers = [n \in Names |-> 0] /\ tools = {} /\ registry = McpManager!BuiltinTools
      /\ mcpAlive = {} /\ mcpStarted = 0
      /\ mcpClosing = {} /\ configs = {} /\ saved = {} /\ op = McpManager!NoOp /\ op.kind = "none"
  BY DEF McpManager!Init, McpManager!NoOp, McpManager!None
<1>2. OpTypes BY <1>1 DEF OpTypes
<1>3. ServerTypes BY <1>1 DEF ServerTypes, McpManager!None
<1>4. EveryProcessIsHeld BY <1>1 DEF EveryProcessIsHeld
<1>5. ToolsAreServed BY <1>1 DEF ToolsAreServed, McpManager!BuiltinTools
<1>6. SettingsInStep BY <1>1 DEF SettingsInStep, McpManager!None
<1> QED BY <1>1, <1>2, <1>3, <1>4, <1>5, <1>6 DEF McpOwned, McpKept

\* What an operation that is under way looks like.
LEMMA OpFacts ==
  ASSUME OpTypes
  PROVE  /\ op = McpManager!NoOp <=> op.kind = "none"
         /\ op.kind = "remove" => op.name \in Names /\ servers[op.name] = McpManager!None
         /\ op.kind \in ConnectKinds =>
              /\ op = [kind |-> op.kind, name |-> op.name, old |-> op.old, stage |-> op.stage,
                       process |-> op.process, offer |-> op.offer]
              /\ op.name \in Names /\ op.old = servers[op.name]
              /\ op.kind = "restart" <=> op.old # McpManager!None
              /\ op.stage \in {"connecting", "connected"}
              /\ op.stage = "connecting" => op.process = McpManager!None
              /\ op.stage = "connected" =>
                   /\ op.process \in Nat \ {McpManager!None} /\ op.process <= mcpStarted
                   /\ \A n \in Names : servers[n] # op.process
         /\ op.kind \in {"none", "remove"} \cup ConnectKinds
BY DEF OpTypes, McpManager!NoOp, ConnectKinds

\* An operation that begins to connect.
LEMMA BeginKeeps ==
  ASSUME McpOwned, NEW k \in ConnectKinds, NEW n \in Names, NEW o, McpManager!Begin(k, n, o),
         o = servers[n], k = "restart" <=> o # McpManager!None, op.kind \notin ConnectKinds,
         UNCHANGED <<servers, mcpClosed, mcpClosing, mcpAlive, mcpStarted>>
  PROVE  McpOwned' /\ op'.kind = k /\ op'.name = n
<1>1. op' = [kind |-> k, name |-> n, old |-> o, stage |-> "connecting", process |-> McpManager!None,
             offer |-> [tools |-> {}, repeated |-> FALSE]]
  BY DEF McpManager!Begin
<1>2. /\ op'.kind = k /\ op'.name = n /\ op'.old = o /\ op'.stage = "connecting"
      /\ op'.process = McpManager!None
      /\ op' = [kind |-> op'.kind, name |-> op'.name, old |-> op'.old, stage |-> op'.stage,
                process |-> op'.process, offer |-> op'.offer]
  BY <1>1
<1>3. OpTypes' BY <1>2 DEF OpTypes
<1>4. ServerTypes' BY DEF McpOwned, ServerTypes
<1>5. EveryProcessIsHeld' BY DEF EveryProcessIsHeld, McpOwned, HeldSomewhere
<1> QED BY <1>2, <1>3, <1>4, <1>5 DEF McpOwned

\* An operation that ends without a change of the servers: what it connected is
\* killed, or nothing was connected.
LEMMA GivenUp ==
  ASSUME McpOwned, op' = McpManager!NoOp, UNCHANGED <<servers, mcpClosed, mcpClosing, mcpStarted>>,
         \/ op.kind \notin ConnectKinds /\ mcpAlive' = mcpAlive
         \/ op.kind \in ConnectKinds /\ mcpAlive' = mcpAlive \ {op.process}
         \/ op.kind \in ConnectKinds /\ op.process = McpManager!None /\ mcpAlive' = mcpAlive
  PROVE  McpOwned'
<1>1. OpTypes' BY DEF OpTypes
<1>2. ServerTypes' BY DEF McpOwned, ServerTypes
<1>3. \A p \in mcpAlive' : p \in mcpAlive /\ p # McpManager!None BY DEF McpOwned, ServerTypes
<1>4. \A p \in mcpAlive' : op.kind \in ConnectKinds => p # op.process BY <1>3
<1>5. EveryProcessIsHeld' BY <1>3, <1>4 DEF EveryProcessIsHeld, McpOwned, HeldSomewhere
<1> QED BY <1>1, <1>2, <1>5 DEF McpOwned

\* The process that was connected takes its place.
LEMMA TakesItsPlace ==
  ASSUME McpOwned, op.kind \in ConnectKinds, op.stage = "connected", op' = McpManager!NoOp,
         servers' = [servers EXCEPT ![op.name] = op.process],
           UNCHANGED <<mcpClosed, mcpClosing, mcpStarted>>,
         \/ op.kind # "restart" /\ mcpAlive' = mcpAlive
         \/ op.kind = "restart" /\ mcpAlive' = mcpAlive \ {op.old}
  PROVE  McpOwned' /\ servers' # servers
<1>1. /\ op.name \in Names /\ op.old = servers[op.name]
      /\ (op.kind = "restart" <=> op.old # McpManager!None)
      /\ op.process \in Nat \ {McpManager!None} /\ op.process <= mcpStarted
      /\ \A n \in Names : servers[n] # op.process
  BY OpFacts DEF McpOwned
<1>2. /\ servers'[op.name] = op.process
      /\ \A n \in Names : n # op.name => servers'[n] = servers[n]
      /\ servers' \in [Names -> Nat]
  BY <1>1 DEF McpOwned, ServerTypes
<1>3. OpTypes' BY DEF OpTypes
<1>4. ServerTypes' BY <1>1, <1>2 DEF McpOwned, ServerTypes
<1>5. ASSUME NEW p \in mcpAlive' PROVE p # McpManager!None /\ HeldSomewhere(p)'
  <2>1. p \in mcpAlive /\ p # McpManager!None /\ HeldSomewhere(p) /\ p # op.old
    BY <1>1, <1>5 DEF EveryProcessIsHeld, McpOwned
  <2>2. CASE \E n \in Names : servers[n] = p BY <1>1, <1>2, <2>1, <2>2 DEF HeldSomewhere
  <2>3. CASE p \in mcpClosing BY <2>1, <2>3 DEF HeldSomewhere
  <2>4. CASE p = op.process BY <1>1, <1>2, <2>1, <2>4 DEF HeldSomewhere
  <2> QED BY <2>1, <2>2, <2>3, <2>4 DEF HeldSomewhere
<1>6. EveryProcessIsHeld' BY <1>5 DEF EveryProcessIsHeld
<1>7. servers' # servers BY <1>1, <1>2
<1> QED BY <1>3, <1>4, <1>6, <1>7 DEF McpOwned

\* A process that is killed, and no longer waits to be.
LEMMA KillKeeps ==
  ASSUME McpOwned, NEW p, McpManager!Kill(p),
         mcpClosing' = mcpClosing \ {p} \/ mcpClosing' = mcpClosing,
         UNCHANGED <<servers, mcpClosed, mcpStarted, op>>
  PROVE  McpOwned'
<1>1. mcpAlive' = mcpAlive \ {p} BY DEF McpManager!Kill
<1>2. OpTypes' BY DEF McpOwned, OpTypes
<1>3. ServerTypes' BY <1>1 DEF McpOwned, ServerTypes
<1>4. EveryProcessIsHeld' BY <1>1 DEF EveryProcessIsHeld, McpOwned, HeldSomewhere
<1> QED BY <1>2, <1>3, <1>4 DEF McpOwned

\* A process that is connected is held by its operation.
LEMMA ConnectKeeps ==
  ASSUME McpOwned, NEW offer, McpManager!ConnectServer(offer)
  PROVE  McpOwned' /\ op'.kind = op.kind
<1>1. /\ op.kind \in ConnectKinds /\ op.stage = "connecting" /\ mcpStarted' = mcpStarted + 1
      /\ mcpAlive' = mcpAlive \cup {mcpStarted + 1}
      /\ op' = [op EXCEPT !.stage = "connected", !.process = mcpStarted + 1, !.offer = offer]
      /\ servers' = servers /\ mcpClosing' = mcpClosing /\ mcpClosed' = mcpClosed
  BY DEF McpManager!ConnectServer, McpManager!Connecting, ConnectKinds
<1>2. /\ op = [kind |-> op.kind, name |-> op.name, old |-> op.old, stage |-> op.stage,
               process |-> op.process, offer |-> op.offer]
      /\ op.name \in Names /\ op.old = servers[op.name]
      /\ (op.kind = "restart" <=> op.old # McpManager!None)
      /\ op.process = McpManager!None
  BY <1>1, OpFacts DEF McpOwned
<1>3. op' = [kind |-> op.kind, name |-> op.name, old |-> op.old, stage |-> "connected",
             process |-> mcpStarted + 1, offer |-> offer]
  BY <1>1, <1>2
<1>4. /\ op'.kind = op.kind /\ op'.name = op.name /\ op'.old = op.old /\ op'.stage = "connected"
      /\ op'.process = mcpStarted + 1
      /\ op' = [kind |-> op'.kind, name |-> op'.name, old |-> op'.old, stage |-> op'.stage,
                process |-> op'.process, offer |-> op'.offer]
  BY <1>3
<1>5. mcpStarted \in Nat /\ \A n \in Names : servers[n] \in Nat /\ servers[n] <= mcpStarted
  BY DEF McpOwned, ServerTypes
<1>6. mcpStarted + 1 \in Nat \ {McpManager!None} /\ \A n \in Names : servers'[n] # mcpStarted + 1
  BY <1>1, <1>5 DEF McpManager!None
<1>7. OpTypes' BY <1>1, <1>2, <1>4, <1>6, <1>5 DEF OpTypes
<1>8. ServerTypes' BY <1>1, <1>5, <1>6 DEF McpOwned, ServerTypes
<1>9. ASSUME NEW p \in mcpAlive' PROVE p # McpManager!None /\ HeldSomewhere(p)'
  <2>1. CASE p = mcpStarted + 1 BY <1>1, <1>4, <1>6, <2>1 DEF HeldSomewhere
  <2>2. CASE p \in mcpAlive
    <3>1. p # McpManager!None /\ HeldSomewhere(p) BY <2>2 DEF EveryProcessIsHeld, McpOwned
    <3> QED BY <1>1, <1>2, <3>1 DEF HeldSomewhere
  <2> QED BY <1>1, <1>9, <2>1, <2>2
<1>10. EveryProcessIsHeld' BY <1>9 DEF EveryProcessIsHeld
<1> QED BY <1>4, <1>7, <1>8, <1>10 DEF McpOwned

\* A server that is removed waits to be killed.
LEMMA RemoveBeginKeeps ==
  ASSUME McpOwned, NEW n \in Names, McpManager!RemoveBegin(n)
  PROVE  /\ McpOwned' /\ op'.kind = "remove" /\ op'.name = n
         /\ op'.names = McpManager!ToolsOf(tools, servers[n])
<1>1. /\ op = McpManager!NoOp /\ servers' = [servers EXCEPT ![n] = McpManager!None]
      /\ mcpAlive' = mcpAlive \ {servers[n]}
      /\ op' = [kind |-> "remove", name |-> n, names |-> McpManager!ToolsOf(tools, servers[n])]
      /\ mcpClosing' = mcpClosing /\ mcpStarted' = mcpStarted /\ mcpClosed' = mcpClosed
  BY DEF McpManager!RemoveBegin, McpManager!Kill
<1>2. /\ op'.kind = "remove" /\ op'.name = n /\ op'.names = McpManager!ToolsOf(tools, servers[n])
      /\ op' = [kind |-> "remove", name |-> op'.name, names |-> op'.names]
  BY <1>1
<1>3. /\ servers'[n] = McpManager!None /\ \A m \in Names : m # n => servers'[m] = servers[m]
      /\ servers' \in [Names -> Nat]
  BY <1>1 DEF McpOwned, ServerTypes, McpManager!None
<1>4. OpTypes' BY <1>2, <1>3 DEF OpTypes
<1>5. ServerTypes' BY <1>1, <1>3 DEF McpOwned, ServerTypes, McpManager!None
<1>6. ASSUME NEW p \in mcpAlive' PROVE p # McpManager!None /\ HeldSomewhere(p)'
  <2>1. p # McpManager!None /\ HeldSomewhere(p) /\ p # servers[n] BY <1>1, <1>6 DEF EveryProcessIsHeld, McpOwned
  <2>2. op.kind \notin ConnectKinds BY <1>1 DEF McpManager!NoOp, ConnectKinds
  <2> QED BY <1>1, <1>3, <2>1, <2>2 DEF HeldSomewhere
<1>7. EveryProcessIsHeld' BY <1>6 DEF EveryProcessIsHeld
<1> QED BY <1>2, <1>4, <1>5, <1>7 DEF McpOwned

\* The controller closes.
LEMMA McpCloseKeeps ==
  ASSUME McpOwned, McpManager!Close
  PROVE  McpOwned'
<1>1. /\ mcpClosing = {} /\ mcpClosed' = TRUE /\ UNCHANGED <<servers, mcpAlive, mcpStarted, op>>
  BY DEF McpManager!Close, McpOwned, ServerTypes
<1>2. OpTypes' BY <1>1 DEF McpOwned, OpTypes
<1>3. ServerTypes' BY <1>1 DEF McpOwned, ServerTypes
<1>4. EveryProcessIsHeld' BY <1>1 DEF EveryProcessIsHeld, McpOwned, HeldSomewhere
<1> QED BY <1>2, <1>3, <1>4 DEF McpOwned

\* What every step does to the servers and the operation.
LEMMA OwnedStep == McpOwned /\ [McpManager!Next]_McpManager!vars => McpOwned'
<1> SUFFICES ASSUME McpOwned, [McpManager!Next]_McpManager!vars PROVE McpOwned'
  OBVIOUS
<1>1. ASSUME NEW n \in Names, McpManager!AddBegin(n) PROVE McpOwned'
  BY <1>1, BeginKeeps DEF McpManager!AddBegin, ConnectKinds, McpManager!NoOp
<1>2. ASSUME NEW n \in Names, McpManager!RemoveBegin(n) PROVE McpOwned' BY <1>2, RemoveBeginKeeps
<1>3. ASSUME NEW n \in Names, McpManager!RestartBegin(n) PROVE McpOwned'
  BY <1>3, BeginKeeps DEF McpManager!RestartBegin, ConnectKinds, McpManager!NoOp
<1>4. ASSUME NEW offer \in Offers, McpManager!ConnectServer(offer) PROVE McpOwned'
  BY <1>4, ConnectKeeps
<1>5. CASE McpManager!ConnectFails
  <2>1. op.kind \in ConnectKinds /\ op.process = McpManager!None
    BY <1>5, OpFacts DEF McpManager!ConnectFails, McpManager!Connecting, ConnectKinds, McpOwned
  <2> QED BY <1>5, <2>1, GivenUp DEF McpManager!ConnectFails
<1>6. CASE McpManager!AddEnd
  <2>1. op.kind = "add" /\ op.kind \in ConnectKinds BY <1>6 DEF McpManager!AddEnd, ConnectKinds
  <2> QED BY <1>6, <2>1, GivenUp, TakesItsPlace DEF McpManager!AddEnd, McpManager!Finished,
      McpManager!Kill, McpManager!Installed
<1>7. CASE McpManager!RemoveEnd
  <2>1. /\ op.kind = "remove" /\ op.kind \notin ConnectKinds /\ op.name \in Names
        /\ servers[op.name] = McpManager!None
    BY <1>7, OpFacts DEF McpManager!RemoveEnd, ConnectKinds, McpOwned
  <2>2. UNCHANGED <<servers, mcpClosed, mcpClosing, mcpAlive, mcpStarted>>
    BY <1>7 DEF McpManager!RemoveEnd
  <2>3. op' = McpManager!NoOp \/ McpManager!Begin("reconnect", op.name, McpManager!None)
    BY <1>7 DEF McpManager!RemoveEnd
  <2>4. "reconnect" \in ConnectKinds BY DEF ConnectKinds
  <2> QED BY <2>1, <2>2, <2>3, <2>4, GivenUp, BeginKeeps
<1>8. CASE McpManager!ReconnectEnd
  <2>1. op.kind = "reconnect" /\ op.kind \in ConnectKinds
    BY <1>8 DEF McpManager!ReconnectEnd, ConnectKinds
  <2> QED BY <1>8, <2>1, GivenUp, TakesItsPlace DEF McpManager!ReconnectEnd, McpManager!Finished,
      McpManager!Kill, McpManager!Installed
<1>9. CASE McpManager!RestartEnd
  <2>1. op.kind = "restart" /\ op.kind \in ConnectKinds
    BY <1>9 DEF McpManager!RestartEnd, ConnectKinds
  <2> QED BY <1>9, <2>1, TakesItsPlace DEF McpManager!RestartEnd, McpManager!Finished,
      McpManager!Kill
<1>10. CASE McpManager!RestartRefused
  <2>1. op.kind = "restart" /\ op.kind \in ConnectKinds
    BY <1>10 DEF McpManager!RestartRefused, ConnectKinds
  <2> QED BY <1>10, <2>1, GivenUp DEF McpManager!RestartRefused, McpManager!Finished,
      McpManager!Kill
<1>11. CASE McpManager!Close BY <1>11, McpCloseKeeps
<1>12. ASSUME NEW p \in 1..MaxServers, McpManager!CloseServer(p) PROVE McpOwned'
  BY <1>12, KillKeeps DEF McpManager!CloseServer
<1>13. ASSUME NEW p \in 1..MaxServers, McpManager!ServerStops(p) PROVE McpOwned'
  BY <1>13, KillKeeps DEF McpManager!ServerStops
<1>14. CASE UNCHANGED McpManager!vars
  BY <1>14 DEF EveryProcessIsHeld, McpManager!vars, McpOwned, OpTypes, ServerTypes, HeldSomewhere
<1> QED BY <1>1, <1>2, <1>3, <1>4, <1>5, <1>6, <1>7, <1>8, <1>9, <1>10, <1>11, <1>12, <1>13, <1>14
    DEF McpManager!Next

\* A restart that fails leaves the old server as it was.
LEMMA FailedRestart ==
  McpOwned /\ [McpManager!Next]_McpManager!vars => McpManager!FailedRestartKeepsServerStep
<1> SUFFICES ASSUME McpOwned, [McpManager!Next]_McpManager!vars, op.kind = "restart",
                    op' = McpManager!NoOp, servers' = servers
             PROVE  registry' = registry /\ (op.old \in mcpAlive => op.old \in mcpAlive')
  BY DEF McpManager!FailedRestartKeepsServerStep
<1>1. op # McpManager!NoOp BY DEF McpManager!NoOp
<1>2. op.kind \in ConnectKinds /\ op.name \in Names /\ op.old = servers[op.name]
  BY OpFacts DEF ConnectKinds, McpOwned
<1>3. op.stage = "connected" => op.old # op.process BY <1>2, OpFacts DEF McpOwned
<1>4. CASE McpManager!ConnectFails BY <1>4 DEF McpManager!ConnectFails
<1>5. CASE McpManager!RestartRefused BY <1>3, <1>5 DEF McpManager!RestartRefused, McpManager!Kill
<1>6. ~McpManager!RestartEnd
  BY <1>2, TakesItsPlace DEF McpManager!RestartEnd, McpManager!Finished, McpManager!Kill
<1>7. \A n \in Names : ~McpManager!AddBegin(n) /\ ~McpManager!RemoveBegin(n) /\
        ~McpManager!RestartBegin(n)
  BY <1>1 DEF McpManager!AddBegin, McpManager!RemoveBegin, McpManager!RestartBegin
<1>8. \A offer \in Offers : ~McpManager!ConnectServer(offer)
  BY ConnectKeeps DEF McpManager!NoOp
<1>9. ~McpManager!AddEnd /\ ~McpManager!RemoveEnd /\ ~McpManager!ReconnectEnd
  BY DEF McpManager!AddEnd, McpManager!RemoveEnd, McpManager!ReconnectEnd
<1>10. op' # op BY <1>1
<1>11. /\ ~McpManager!Close /\ (\A p : ~McpManager!CloseServer(p) /\ ~McpManager!ServerStops(p))
       /\ ~UNCHANGED McpManager!vars
  BY <1>10 DEF McpManager!Close, McpManager!CloseServer, McpManager!ServerStops, McpManager!vars
<1> QED BY <1>4, <1>5, <1>6, <1>7, <1>8, <1>9, <1>11 DEF McpManager!Next

-----------------------------------------------------------------------------
\* No step but a restart that was overtaken leaves a process to nobody.
LEMMA OrphansStep ==
  McpOwned /\ [McpManager!Next]_McpManager!vars => McpManager!NoProcessIsOrphanedStep
<1> SUFFICES ASSUME McpOwned, [McpManager!Next]_McpManager!vars,
                    NEW p \in McpManager!Orphans', p \notin McpManager!Orphans
             PROVE  mcpClosed /\ op.kind = "restart" /\ p = op.process
  BY DEF McpManager!NoProcessIsOrphanedStep
<1>1. /\ p \in mcpAlive' /\ p # McpManager!None /\ HeldSomewhere(p)' /\ p \notin McpManager!Owned'
  BY OwnedStep DEF McpManager!Orphans, McpOwned, EveryProcessIsHeld
<1>2. /\ mcpClosed' /\ p \notin mcpClosing' /\ \E n \in Names : servers'[n] = p
      /\ op'.kind \in ConnectKinds => p # op'.process
  BY <1>1 DEF McpManager!Owned, HeldSomewhere, ConnectKinds
<1>3. ASSUME NEW offer \in Offers, McpManager!ConnectServer(offer), p \notin mcpAlive PROVE FALSE
  <2>1. /\ p = mcpStarted + 1 /\ servers' = servers
    BY <1>1, <1>3 DEF McpManager!ConnectServer
  <2>2. \A n \in Names : servers[n] \in Nat /\ servers[n] <= mcpStarted BY DEF McpOwned, ServerTypes
  <2> QED BY <1>2, <2>1, <2>2 DEF McpOwned, ServerTypes
<1>4. p \in mcpAlive
  BY <1>1, <1>3 DEF McpManager!Next, McpManager!vars, McpManager!AddBegin, McpManager!RemoveBegin,
    McpManager!RestartBegin, McpManager!ConnectFails, McpManager!AddEnd, McpManager!RemoveEnd,
    McpManager!ReconnectEnd, McpManager!RestartEnd, McpManager!RestartRefused, McpManager!Close,
    McpManager!CloseServer, McpManager!ServerStops, McpManager!Kill
<1>5. p \in McpManager!Owned BY <1>4 DEF McpManager!Orphans
<1>6. \/ ~mcpClosed
      \/ p \in mcpClosing
      \/ op.kind \in ConnectKinds /\ p = op.process
  BY <1>5 DEF McpManager!Owned, ConnectKinds
<1>7. mcpClosed
  BY <1>2, <1>1 DEF McpManager!Next, McpManager!vars, McpManager!AddBegin, McpManager!RemoveBegin,
    McpManager!RestartBegin, McpManager!ConnectFails, McpManager!AddEnd, McpManager!RemoveEnd,
    McpManager!ReconnectEnd, McpManager!RestartEnd, McpManager!RestartRefused, McpManager!Close,
    McpManager!CloseServer, McpManager!ServerStops, McpManager!Finished, McpManager!ConnectServer
<1>8. p \notin mcpClosing
  BY <1>1, <1>2, <1>7 DEF McpManager!Next, McpManager!vars, McpManager!AddBegin, McpManager!RemoveBegin,
    McpManager!RestartBegin, McpManager!ConnectFails, McpManager!AddEnd, McpManager!RemoveEnd,
    McpManager!ReconnectEnd, McpManager!RestartEnd, McpManager!RestartRefused, McpManager!Close,
    McpManager!CloseServer, McpManager!ServerStops, McpManager!Finished, McpManager!ConnectServer,
    McpManager!Kill
<1>9. op.kind \in ConnectKinds /\ p = op.process BY <1>6, <1>7, <1>8
<1>10. op.stage = "connected" BY <1>1, <1>9, OpFacts DEF McpOwned
<1>11. op' # op BY <1>2, <1>9
<1>12. op # McpManager!NoOp BY <1>9 DEF McpManager!NoOp, ConnectKinds
<1>13. McpManager!AddEnd \/ McpManager!ReconnectEnd \/ McpManager!RestartEnd \/ McpManager!RestartRefused
  BY <1>9, <1>10, <1>11, <1>12 DEF McpManager!Next, McpManager!vars, McpManager!AddBegin,
    McpManager!RemoveBegin, McpManager!RestartBegin, McpManager!ConnectFails, McpManager!RemoveEnd,
    McpManager!Close, McpManager!CloseServer, McpManager!ServerStops, McpManager!ConnectServer,
    McpManager!Connecting, ConnectKinds
<1>14. ~McpManager!RestartRefused BY <1>1, <1>9 DEF McpManager!RestartRefused, McpManager!Kill
<1>15. ~McpManager!AddEnd /\ ~McpManager!ReconnectEnd
  BY <1>1, <1>7, <1>9 DEF McpManager!AddEnd, McpManager!ReconnectEnd, McpManager!ManagerRefuses,
    McpManager!Kill
<1> QED BY <1>7, <1>9, <1>13, <1>14, <1>15 DEF McpManager!RestartEnd

\* The settings are empty at the start.
LEMMA NamedInit == McpManager!Init => SettingsNameIt
BY DEF McpManager!Init, SettingsNameIt, McpManager!NoOp

\* They name a server until its removal is over.
LEMMA NamedStep == SettingsNameIt /\ McpOwned /\ [McpManager!Next]_McpManager!vars => SettingsNameIt'
<1> SUFFICES ASSUME SettingsNameIt, McpOwned, [McpManager!Next]_McpManager!vars PROVE SettingsNameIt'
  OBVIOUS
<1>1. McpManager!NoOp.kind = "none" BY DEF McpManager!NoOp
<1>2. ASSUME op' = McpManager!NoOp, saved' = configs' PROVE SettingsNameIt'
  BY <1>1, <1>2 DEF SettingsNameIt
<1>3. ASSUME op'.kind = op.kind, op'.name = op.name, saved' = saved, configs' = configs
      PROVE  SettingsNameIt'
  BY <1>3 DEF SettingsNameIt
<1>4. ASSUME NEW k, NEW m, NEW o, McpManager!Begin(k, m, o), saved' = saved, configs' = configs,
             k = "reconnect" => m = op.name /\ op.kind = "remove", k # "remove"
      PROVE  SettingsNameIt'
  <2>1. op'.kind = k /\ op'.name = m BY <1>4 DEF McpManager!Begin
  <2> QED BY <1>4, <2>1 DEF SettingsNameIt
<1>5. ASSUME NEW m \in Names, McpManager!AddBegin(m) \/ McpManager!RestartBegin(m)
      PROVE  SettingsNameIt'
  BY <1>4, <1>5 DEF McpManager!AddBegin, McpManager!RestartBegin
<1>6. ASSUME NEW m \in Names, McpManager!RemoveBegin(m) PROVE SettingsNameIt'
  BY <1>6 DEF McpManager!RemoveBegin, SettingsNameIt
<1>7. ASSUME NEW offer \in Offers, McpManager!ConnectServer(offer) PROVE SettingsNameIt'
  <2>1. op'.kind = op.kind BY <1>7, ConnectKeeps
  <2>2. op.kind \in ConnectKinds BY <1>7 DEF McpManager!ConnectServer, McpManager!Connecting, ConnectKinds
  <2>3. op'.name = op.name
    BY <1>7, <2>2, OpFacts DEF McpManager!ConnectServer, McpOwned
  <2> QED BY <1>3, <1>7, <2>1, <2>3 DEF McpManager!ConnectServer
<1>8. CASE McpManager!AddEnd
  <2>1. saved = configs BY DEF SettingsNameIt
  <2> QED BY <1>2, <1>8, <2>1 DEF McpManager!AddEnd, McpManager!Finished
<1>9. CASE McpManager!RemoveEnd
  <2>1. saved = configs /\ op.kind = "remove" BY <1>9 DEF SettingsNameIt, McpManager!RemoveEnd
  <2> QED BY <1>2, <1>4, <1>9, <2>1 DEF McpManager!RemoveEnd
<1>10. CASE McpManager!ConnectFails \/ McpManager!ReconnectEnd \/ McpManager!RestartEnd \/
            McpManager!RestartRefused
  BY <1>2, <1>10 DEF SettingsNameIt, McpManager!ConnectFails, McpManager!ReconnectEnd,
    McpManager!RestartEnd, McpManager!RestartRefused, McpManager!Finished
<1>11. ASSUME UNCHANGED <<configs, saved, op>> PROVE SettingsNameIt' BY <1>3, <1>11
<1> QED BY <1>5, <1>6, <1>7, <1>8, <1>9, <1>10, <1>11 DEF McpManager!Next, McpManager!vars,
      McpManager!Close, McpManager!CloseServer, McpManager!ServerStops

\* Only a removal sets settings and servers apart.
LEMMA DivergesStep ==
  SettingsNameIt /\ McpOwned /\ [McpManager!Next]_McpManager!vars => McpManager!OnlyRemovalDivergesStep
<1> SUFFICES ASSUME SettingsNameIt, McpOwned, [McpManager!Next]_McpManager!vars, NEW n \in Names,
                    n \in saved' <=> servers'[n] = McpManager!None,
                    ~(n \in saved <=> servers[n] = McpManager!None)
             PROVE  op'.kind = "remove" /\ op'.name = n
  BY DEF McpManager!OnlyRemovalDivergesStep, McpManager!Differing
<1>1. servers \in [Names -> Nat] /\ OpTypes BY DEF McpOwned, ServerTypes
<1>2. ~(saved' = saved /\ servers' = servers) OBVIOUS
<1>3. ASSUME NEW m \in Names, McpManager!RemoveBegin(m) PROVE op'.kind = "remove" /\ op'.name = n
  BY <1>1, <1>3 DEF McpManager!RemoveBegin
<1>4. ~McpManager!AddEnd
  BY <1>1, <1>2, OpFacts DEF McpManager!AddEnd, McpManager!Installed, ConnectKinds
<1>5. ~McpManager!RemoveEnd BY <1>1, <1>2, OpFacts DEF McpManager!RemoveEnd
<1>6. ~McpManager!ReconnectEnd
  BY <1>1, <1>2, OpFacts DEF McpManager!ReconnectEnd, McpManager!Installed, ConnectKinds, SettingsNameIt
<1>7. ~McpManager!RestartEnd
  BY <1>1, <1>2, OpFacts DEF McpManager!RestartEnd, ConnectKinds
<1> QED
  BY <1>2, <1>3, <1>4, <1>5, <1>6, <1>7 DEF McpManager!Next, McpManager!vars, McpManager!AddBegin,
    McpManager!RestartBegin, McpManager!ConnectFails, McpManager!RestartRefused, McpManager!Close,
    McpManager!CloseServer, McpManager!ServerStops, McpManager!ConnectServer

-----------------------------------------------------------------------------
\* What leaves the tools and the settings alone.
LEMMA KeptAlike ==
  ASSUME McpKept, UNCHANGED <<servers, tools, registry, configs, saved>>,
         op' = op \/ (op.kind # "remove" /\ op'.kind \notin {"remove", "reconnect"})
  PROVE  McpKept'
<1>1. ToolsAreServed' BY DEF McpKept, ToolsAreServed
<1>2. SettingsInStep' BY DEF McpKept, SettingsInStep
<1> QED BY <1>1, <1>2 DEF McpKept

\* The tools of a server that joins them.
LEMMA ToolsJoin ==
  ASSUME NEW R, NEW offer, NEW p, McpManager!Registers(offer, McpManager!NamesIn(R)),
             \A s, t \in R : s[1] = t[1] => s = t
  PROVE  \A s, t \in R \cup McpManager!Pairs(offer, p) : s[1] = t[1] => s = t
<1>1. offer.tools \cap McpManager!NamesIn(R) = {} BY DEF McpManager!Registers
<1>2. \A t \in R : t[1] \notin offer.tools BY <1>1 DEF McpManager!NamesIn
<1>3. \A t \in McpManager!Pairs(offer, p) : t[1] \in offer.tools /\ t = <<t[1], p>>
  BY DEF McpManager!Pairs
<1> QED BY <1>2, <1>3

\* The tools of a server go with it.
LEMMA RemoveBegins ==
  ASSUME McpOwned, McpKept, NEW n \in Names, McpManager!RemoveBegin(n)
  PROVE  McpKept'
<1> DEFINE p == servers[n]
<1>1. /\ op = McpManager!NoOp /\ servers' = [servers EXCEPT ![n] = McpManager!None]
      /\ tools' = { t \in tools : t[2] # p }
      /\ p # McpManager!None /\ UNCHANGED <<registry, configs, saved>>
  BY DEF McpManager!RemoveBegin
<1>2. op'.kind = "remove" /\ op'.name = n /\ op'.names = McpManager!ToolsOf(tools, p)
  BY RemoveBeginKeeps
<1>3. op.kind = "none" BY <1>1 DEF McpManager!NoOp
<1>4. /\ \A t \in tools : t = <<t[1], t[2]>> /\ t[2] # McpManager!None /\
           \E m \in Names : t[2] = servers[m]
      /\ \A s, t \in registry : s[1] = t[1] => s = t
      /\ registry = McpManager!BuiltinTools \cup tools /\ saved = configs
      /\ saved = { m \in Names : servers[m] # McpManager!None }
  BY <1>3 DEF McpKept, ToolsAreServed, SettingsInStep
<1>5. /\ servers \in [Names -> Nat] /\ servers'[n] = McpManager!None
      /\ \A m \in Names : m # n => servers'[m] = servers[m]
  BY <1>1 DEF McpOwned, ServerTypes
<1> HIDE DEF p
<1>6. \A t \in tools' : t = <<t[1], t[2]>> /\ t[2] # McpManager!None /\
        \E m \in Names : t[2] = servers'[m]
  BY <1>1, <1>4, <1>5 DEF p
<1>7. \A x : x \in op'.names <=> \E u \in tools : u[2] = p /\ u[1] = x
  BY <1>2 DEF McpManager!ToolsOf
<1>8. { t \in registry' : t[1] \notin op'.names } = McpManager!BuiltinTools \cup tools'
  <2>1. \A t \in McpManager!BuiltinTools : t[2] = McpManager!None BY DEF McpManager!BuiltinTools
  <2>2. ASSUME NEW t \in registry
        PROVE  t[1] \notin op'.names <=> t \in McpManager!BuiltinTools \cup tools'
    <3>1. t[1] \in op'.names <=> t \in tools /\ t[2] = p BY <1>4, <1>7
    <3>2. t \in McpManager!BuiltinTools => t[2] # p BY <1>1, <2>1
    <3> QED BY <1>1, <1>4, <3>1, <3>2
  <2>3. McpManager!BuiltinTools \cup tools' \subseteq registry BY <1>1, <1>4
  <2> QED BY <1>1, <2>2, <2>3
<1>9. ToolsAreServed' BY <1>1, <1>2, <1>4, <1>6, <1>8 DEF ToolsAreServed
<1>10. saved' \ {n} = { m \in Names : servers'[m] # McpManager!None } BY <1>1, <1>4, <1>5
<1>11. SettingsInStep' BY <1>1, <1>2, <1>4, <1>10 DEF SettingsInStep
<1> QED BY <1>2, <1>9, <1>11 DEF McpKept

\* A removed server is dead and the operation is over.
LEMMA RemoveEnds ==
  ASSUME McpOwned, McpKept, ~SavesFail, McpManager!RemoveEnd
  PROVE  McpKept'
<1>1. /\ op.kind = "remove" /\ registry' = { t \in registry : t[1] \notin op.names }
      /\ saved' = saved \ {op.name} /\ configs' = configs \ {op.name} /\ op' = McpManager!NoOp
      /\ UNCHANGED <<servers, tools>>
  BY DEF McpManager!RemoveEnd, McpManager!Unregister
<1>2. op'.kind = "none" BY <1>1 DEF McpManager!NoOp
<1>3. registry' = McpManager!BuiltinTools \cup tools' BY <1>1 DEF McpKept, ToolsAreServed
<1>4. \A s, t \in registry' : s[1] = t[1] => s = t BY <1>1 DEF McpKept, ToolsAreServed
<1>5. ToolsAreServed' BY <1>1, <1>2, <1>3, <1>4 DEF McpKept, ToolsAreServed
<1>6. SettingsInStep' BY <1>1, <1>2 DEF McpKept, SettingsInStep
<1> QED BY <1>2, <1>5, <1>6 DEF McpKept

\* A new server and its tools, or neither.
LEMMA AddEnds ==
  ASSUME McpOwned, McpKept, op.kind = "add", op.stage = "connected", op' = McpManager!NoOp,
         McpManager!Installed,
         McpManager!Registers(op.offer, McpManager!NamesIn(registry)),
         registry' = registry \cup McpManager!Pairs(op.offer, op.process),
         saved' = saved \cup {op.name}, configs' = configs \cup {op.name}
  PROVE  McpKept'
<1>1. /\ op.name \in Names /\ servers[op.name] = McpManager!None /\ op.process # McpManager!None
  BY OpFacts DEF McpOwned, ConnectKinds
<1>2. /\ servers' = [servers EXCEPT ![op.name] = op.process]
      /\ tools' = tools \cup McpManager!Pairs(op.offer, op.process)
  BY DEF McpManager!Installed
<1>3. /\ servers'[op.name] = op.process /\ \A m \in Names : m # op.name => servers'[m] = servers[m]
  BY <1>1, <1>2 DEF McpOwned, ServerTypes
<1>4. op'.kind = "none" BY DEF McpManager!NoOp
<1>5. /\ \A t \in tools : t = <<t[1], t[2]>> /\ t[2] # McpManager!None /\
           \E m \in Names : t[2] = servers[m]
      /\ \A s, t \in registry : s[1] = t[1] => s = t
      /\ registry = McpManager!BuiltinTools \cup tools /\ saved = configs
      /\ saved = { m \in Names : servers[m] # McpManager!None }
  BY DEF McpKept, ToolsAreServed, SettingsInStep
<1>6. \A t \in McpManager!Pairs(op.offer, op.process) : t = <<t[1], t[2]>> /\ t[2] = op.process
  BY DEF McpManager!Pairs
<1>7. \A t \in tools' : t = <<t[1], t[2]>> /\ t[2] # McpManager!None /\
        \E m \in Names : t[2] = servers'[m]
  BY <1>1, <1>2, <1>3, <1>5, <1>6
<1>8. \A s, t \in registry' : s[1] = t[1] => s = t BY <1>5, ToolsJoin
<1>9. registry' = McpManager!BuiltinTools \cup tools' BY <1>2, <1>5
<1>10. ToolsAreServed' BY <1>4, <1>7, <1>8, <1>9 DEF ToolsAreServed
<1>11. saved' = { m \in Names : servers'[m] # McpManager!None } BY <1>1, <1>3, <1>5
<1>12. SettingsInStep' BY <1>4, <1>5, <1>11 DEF SettingsInStep
<1> QED BY <1>4, <1>10, <1>12 DEF McpKept

\* The new process and its tools replace the old ones, or do not.
LEMMA RestartEnds ==
  ASSUME McpOwned, McpKept, McpManager!RestartEnd
  PROVE  McpKept'
<1> DEFINE p == op.process
           q == op.old
           rest == { t \in registry : t[1] \notin McpManager!ToolsOf(tools, q) }
<1>1. /\ op.kind = "restart" /\ op.stage = "connected" /\ op' = McpManager!NoOp
      /\ McpManager!Registers(op.offer, McpManager!NamesIn(registry) \ McpManager!ToolsOf(tools, q))
      /\ registry' = rest \cup McpManager!Pairs(op.offer, p)
      /\ tools' = { t \in tools : t[2] # q } \cup McpManager!Pairs(op.offer, p)
      /\ servers' = [servers EXCEPT ![op.name] = p]
      /\ UNCHANGED <<configs, saved>>
  BY DEF McpManager!RestartEnd, McpManager!Finished
<1>2. op.name \in Names /\ servers[op.name] = q /\ p # McpManager!None /\ q # McpManager!None
  BY <1>1, OpFacts DEF McpOwned, ConnectKinds
<1>3. servers'[op.name] = p /\ \A m \in Names : m # op.name => servers'[m] = servers[m]
  BY <1>1, <1>2 DEF McpOwned, ServerTypes
<1>4. op'.kind = "none" BY <1>1 DEF McpManager!NoOp
<1>5. /\ \A t \in tools : t = <<t[1], t[2]>> /\ t[2] # McpManager!None /\
           \E m \in Names : t[2] = servers[m]
      /\ \A s, t \in registry : s[1] = t[1] => s = t
      /\ registry = McpManager!BuiltinTools \cup tools /\ saved = configs
      /\ saved = { m \in Names : servers[m] # McpManager!None }
  BY <1>1 DEF McpKept, ToolsAreServed, SettingsInStep
<1>6. \A x : x \in McpManager!ToolsOf(tools, q) <=> \E u \in tools : u[2] = q /\ u[1] = x
  BY DEF McpManager!ToolsOf
<1> HIDE DEF p, q
<1>7. rest = McpManager!BuiltinTools \cup { t \in tools : t[2] # q }
  <2>1. \A t \in McpManager!BuiltinTools : t[2] = McpManager!None BY DEF McpManager!BuiltinTools
  <2>2. ASSUME NEW t \in registry
        PROVE  t[1] \notin McpManager!ToolsOf(tools, q) <=>
                 t \in McpManager!BuiltinTools \cup { u \in tools : u[2] # q }
    <3>1. t[1] \in McpManager!ToolsOf(tools, q) <=> t \in tools /\ t[2] = q BY <1>5, <1>6
    <3>2. t \in McpManager!BuiltinTools => t[2] # q BY <1>2, <2>1
    <3> QED BY <1>5, <3>1, <3>2
  <2>3. McpManager!BuiltinTools \cup { t \in tools : t[2] # q } \subseteq registry BY <1>5
  <2> QED BY <2>2, <2>3
<1>8. McpManager!Registers(op.offer, McpManager!NamesIn(rest))
  <2>1. McpManager!NamesIn(rest) \subseteq McpManager!NamesIn(registry) \ McpManager!ToolsOf(tools,
          q)
    BY DEF McpManager!NamesIn
  <2> QED BY <1>1, <2>1 DEF McpManager!Registers
<1>9. \A s, t \in rest : s[1] = t[1] => s = t BY <1>5
<1> HIDE DEF rest
<1>10. \A s, t \in registry' : s[1] = t[1] => s = t BY <1>1, <1>8, <1>9, ToolsJoin
<1>11. \A t \in McpManager!Pairs(op.offer, p) : t = <<t[1], t[2]>> /\ t[2] = p
  BY DEF McpManager!Pairs
<1>12. \A t \in tools' : t = <<t[1], t[2]>> /\ t[2] # McpManager!None /\
         \E m \in Names : t[2] = servers'[m]
  BY <1>1, <1>2, <1>3, <1>5, <1>11
<1>13. registry' = McpManager!BuiltinTools \cup tools' BY <1>1, <1>7
<1>14. ToolsAreServed' BY <1>4, <1>10, <1>12, <1>13 DEF ToolsAreServed
<1>15. saved' = { m \in Names : servers'[m] # McpManager!None } BY <1>1, <1>2, <1>3, <1>5
<1>16. SettingsInStep' BY <1>1, <1>4, <1>5, <1>15 DEF SettingsInStep
<1> QED BY <1>4, <1>14, <1>16 DEF McpKept

\* Every step keeps the tools and the settings in line with the servers.
LEMMA KeptStep == ~SavesFail /\ McpOwned /\ McpKept /\ [McpManager!Next]_McpManager!vars => McpKept'
<1> SUFFICES ASSUME ~SavesFail, McpOwned, McpKept, [McpManager!Next]_McpManager!vars PROVE McpKept'
  OBVIOUS
<1>1. ASSUME NEW n \in Names, McpManager!AddBegin(n) PROVE McpKept'
  BY <1>1, BeginKeeps, KeptAlike DEF McpManager!AddBegin, ConnectKinds, McpManager!NoOp
<1>2. ASSUME NEW n \in Names, McpManager!RemoveBegin(n) PROVE McpKept' BY <1>2, RemoveBegins
<1>3. ASSUME NEW n \in Names, McpManager!RestartBegin(n) PROVE McpKept'
  BY <1>3, BeginKeeps, KeptAlike DEF McpManager!RestartBegin, ConnectKinds, McpManager!NoOp
<1>4. ASSUME NEW offer \in Offers, McpManager!ConnectServer(offer) PROVE McpKept'
  BY <1>4, ConnectKeeps, KeptAlike DEF McpManager!ConnectServer, McpManager!Connecting, McpKept
<1>5. McpManager!NoOp.kind = "none" BY DEF McpManager!NoOp
<1>6. CASE McpManager!ConnectFails
  BY <1>5, <1>6, KeptAlike DEF McpManager!ConnectFails, McpManager!Connecting
<1>7. CASE McpManager!AddEnd
  <2>1. op.kind = "add" /\ op.stage = "connected" /\ op' = McpManager!NoOp
    BY <1>7 DEF McpManager!AddEnd, McpManager!Finished
  <2> QED BY <1>5, <1>7, <2>1, KeptAlike, AddEnds DEF McpManager!AddEnd
<1>8. CASE McpManager!RemoveEnd BY <1>8, RemoveEnds
<1>9. ~McpManager!ReconnectEnd BY DEF McpManager!ReconnectEnd, McpKept
<1>10. CASE McpManager!RestartEnd BY <1>10, RestartEnds
<1>11. CASE McpManager!RestartRefused
  BY <1>5, <1>11, KeptAlike DEF McpManager!RestartRefused, McpManager!Finished
<1>12. CASE McpManager!Close BY <1>12, KeptAlike DEF McpManager!Close
<1>13. ASSUME NEW p \in 1..MaxServers, McpManager!CloseServer(p) \/ McpManager!ServerStops(p)
       PROVE  McpKept'
  BY <1>13, KeptAlike DEF McpManager!CloseServer, McpManager!ServerStops
<1>14. CASE UNCHANGED McpManager!vars BY <1>14, KeptAlike DEF McpManager!vars
<1> QED BY <1>1, <1>2, <1>3, <1>4, <1>6, <1>7, <1>8, <1>9, <1>10, <1>11, <1>12, <1>13, <1>14
    DEF McpManager!Next

\* What the invariant says between two operations.
LEMMA KeptPromise == McpKept => McpManager!RegistryMatchesManager /\ McpManager!SettingsMatchServers
<1> SUFFICES ASSUME McpKept
             PROVE  McpManager!RegistryMatchesManager /\ McpManager!SettingsMatchServers
  OBVIOUS
<1>1. McpManager!NoOp.kind = "none" BY DEF McpManager!NoOp
<1>2. \A t \in tools : t[2] \in { servers[n] : n \in Names } BY DEF McpKept, ToolsAreServed
<1> QED BY <1>1, <1>2 DEF McpKept, ToolsAreServed, SettingsInStep,
    McpManager!RegistryMatchesManager, McpManager!SettingsMatchServers

\* No step leaves an MCP process that nothing would ever close, whatever is refused,
\* rolled back, removed or replaced on the way, also when the settings cannot be
\* written, but for a restart that a close of the manager has overtaken; until the
\* manager is closed there is none.
THEOREM NoProcessIsEverOrphaned ==
  McpManager!Spec => McpManager!NoProcessIsOrphaned /\ [](~mcpClosed => McpManager!Orphans = {})
<1>1. McpOwned => (~mcpClosed => McpManager!Orphans = {})
  BY DEF McpOwned, EveryProcessIsHeld, HeldSomewhere, McpManager!Orphans, McpManager!Owned, ConnectKinds
<1> QED BY <1>1, McpInit, OwnedStep, OrphansStep, PTL DEF McpManager!Spec, McpManager!NoProcessIsOrphaned

\* Settings and servers begin to differ in a server that is being removed only.
THEOREM OnlyRemovalEverDiverges == McpManager!Spec => McpManager!OnlyRemovalDiverges
<1>1. SettingsNameIt /\ McpOwned /\ [McpManager!Next]_McpManager!vars => (SettingsNameIt /\ McpOwned)'
  BY OwnedStep, NamedStep
<1>2. McpManager!Init => SettingsNameIt /\ McpOwned BY McpInit, NamedInit
<1> QED BY <1>1, <1>2, DivergesStep, PTL DEF McpManager!Spec, McpManager!OnlyRemovalDiverges

\* A restart that fails leaves the old server as it was.
THEOREM FailedRestartAlwaysKeeps == McpManager!Spec => McpManager!FailedRestartKeepsServer
BY McpInit, OwnedStep, FailedRestart, PTL DEF McpManager!Spec, McpManager!FailedRestartKeepsServer

\* As long as the settings can be written, the model is offered exactly the tools
\* of the connected servers between two operations, and the settings name those.
THEOREM OfferIsAlwaysConnected ==
  ~SavesFail =>
    (McpManager!Spec => [](McpManager!RegistryMatchesManager /\ McpManager!SettingsMatchServers))
<1> SUFFICES ASSUME ~SavesFail
             PROVE  McpManager!Spec =>
                      [](McpManager!RegistryMatchesManager /\ McpManager!SettingsMatchServers)
  OBVIOUS
<1>1. McpOwned /\ McpKept /\ [McpManager!Next]_McpManager!vars => (McpOwned /\ McpKept)'
  BY OwnedStep, KeptStep
<1> QED BY <1>1, McpInit, KeptPromise, PTL DEF McpManager!Spec

-----------------------------------------------------------------------------
(* One connection to an MCP server.                                        *)

TaskStages == {"idle", "locking", "draining", "waiting", "ending"}

\* A request is made under its own number, and so is its answer.
Numbers ==
  /\ wireNextId \in Nat /\ wireNextId <= MaxSent
  /\ wireId \in [Callers -> Nat] /\ nth = wireId
  /\ \A c \in Callers : wireId[c] <= wireNextId /\ (wireStage[c] # "idle" => wireId[c] # 0)
  /\ wirePending \subseteq 1..wireNextId
  /\ \A m \in wireSent : m[1] \in 1..wireNextId /\ m[2] = m[1]
  /\ DOMAIN future = McpSession!Ids
  /\ \A i \in McpSession!Ids : future[i] \in {McpSession!Nothing, McpSession!Asked, i}

\* A caller is in the queue of the lock once.
Queue ==
  /\ wireStage \in [Callers -> TaskStages] /\ wireWriters \in Seq(Callers)
  /\ \A j, k \in DOMAIN wireWriters : wireWriters[j] = wireWriters[k] => j = k

SessionInv == Numbers /\ Queue /\ McpSession!PendingIsAwaited /\ McpSession!LockIsHeldByWriters

\* No request is made at the start.
LEMMA SessionInit == McpSession!SessionAssumption => (McpSession!Init => SessionInv)
<1> SUFFICES ASSUME McpSession!SessionAssumption, McpSession!Init PROVE SessionInv
  OBVIOUS
<1>1. \A S : <<>> \in Seq(S)
  <2> TAKE S
  <2> QED OBVIOUS
<1>2. /\ wireNextId = 0 /\ wirePending = {} /\ wireSent = {} /\ wireWriters = <<>>
  BY DEF McpSession!Init
<1>3. /\ wireId = [c \in Callers |-> 0] /\ nth = [c \in Callers |-> 0]
      /\ wireStage = [c \in Callers |-> "idle"]
      /\ future = [i \in McpSession!Ids |-> McpSession!Nothing]
  BY DEF McpSession!Init
<1>4. \A c \in Callers : wireStage[c] = "idle" BY <1>3
<1>5. Numbers BY <1>2, <1>3, <1>4 DEF Numbers, McpSession!SessionAssumption
<1>6. Queue BY <1>1, <1>2, <1>3 DEF Queue, TaskStages
<1>7. McpSession!PendingIsAwaited /\ McpSession!LockIsHeldByWriters
  BY <1>2, <1>4 DEF McpSession!PendingIsAwaited, McpSession!LockIsHeldByWriters
<1> QED BY <1>5, <1>6, <1>7 DEF SessionInv

\* What is left of the queue.
LEMMA WithoutOne ==
  ASSUME Queue, NEW c \in Callers
  PROVE  /\ McpSession!Without(wireWriters, c) \in Seq(Callers)
         /\ \A k \in DOMAIN McpSession!Without(wireWriters, c) :
              /\ McpSession!Without(wireWriters, c)[k] # c
              /\ \E j \in DOMAIN wireWriters : McpSession!Without(wireWriters,
                   c)[k] = wireWriters[j]
         /\ \A j, k \in DOMAIN McpSession!Without(wireWriters, c) :
              McpSession!Without(wireWriters, c)[j] = McpSession!Without(wireWriters, c)[k] => j = k
         /\ wireWriters # <<>> /\ Head(wireWriters) # c =>
              /\ McpSession!Without(wireWriters, c) # <<>>
              /\ Head(McpSession!Without(wireWriters, c)) = Head(wireWriters)
<1> DEFINE W == McpSession!Without(wireWriters, c)
<1>1. /\ wireWriters \in Seq(Callers)
      /\ (\A j, k \in DOMAIN wireWriters : wireWriters[j] = wireWriters[k] => j = k)
  BY DEF Queue
<1>2. DOMAIN wireWriters = 1..Len(wireWriters) /\ Len(wireWriters) \in Nat BY <1>1
<1>3. CASE ~\E k \in DOMAIN wireWriters : wireWriters[k] = c
  <2>1. W = wireWriters BY <1>3 DEF McpSession!Without
  <2> QED BY <1>1, <1>3, <2>1
<1>4. ASSUME NEW p \in DOMAIN wireWriters, wireWriters[p] = c PROVE W \in Seq(Callers)
         /\ (\A k \in DOMAIN W : W[k] # c /\ \E j \in DOMAIN wireWriters : W[k] = wireWriters[j])
         /\ (\A j, k \in DOMAIN W : W[j] = W[k] => j = k)
         /\ (wireWriters # <<>> /\ Head(wireWriters) # c => W # <<>> /\ Head(W) = Head(wireWriters))
  <2>1. (CHOOSE k \in DOMAIN wireWriters : wireWriters[k] = c) = p BY <1>1, <1>4
  <2>2. W = [i \in 1..(Len(wireWriters) - 1) |-> IF i < p THEN wireWriters[i] ELSE wireWriters[i + 1]]
    BY <1>4, <2>1 DEF McpSession!Without
  <2> HIDE DEF W
  <2>3. W \in Seq(Callers) /\ Len(W) = Len(wireWriters) - 1 /\ DOMAIN W = 1..(Len(wireWriters) - 1)
    BY <1>1, <1>2, <1>4, <2>2
  <2>4. \A k \in DOMAIN W : W[k] = IF k < p THEN wireWriters[k] ELSE wireWriters[k + 1]
    BY <2>2, <2>3
  <2>5. \A k \in DOMAIN W : W[k] # c /\ \E j \in DOMAIN wireWriters : W[k] = wireWriters[j]
    BY <1>1, <1>2, <1>4, <2>3, <2>4
  <2>6. \A j, k \in DOMAIN W : W[j] = W[k] => j = k BY <1>1, <1>2, <1>4, <2>3, <2>4
  <2>7. ASSUME wireWriters # <<>>, Head(wireWriters) # c
        PROVE  W # <<>> /\ Head(W) = Head(wireWriters)
    <3>1. Head(wireWriters) = wireWriters[1] /\ 1 \in DOMAIN wireWriters BY <1>1, <2>7
    <3>2. p # 1 /\ Len(wireWriters) >= 2 BY <1>2, <1>4, <2>7, <3>1
    <3>3. 1 \in DOMAIN W /\ W[1] = wireWriters[1] BY <1>2, <1>4, <2>3, <2>4, <3>2
    <3> QED BY <2>3, <3>1, <3>3
  <2> QED BY <2>3, <2>5, <2>6, <2>7
<1> QED BY <1>3, <1>4

\* However a task ends.
LEMMA EndKeeps ==
  ASSUME SessionInv, NEW c \in Callers, NEW how, McpSession!End(c, how),
         UNCHANGED <<wireNextId, future, wireSent>>
  PROVE  SessionInv'
<1>1. /\ wireStage' = [wireStage EXCEPT ![c] = "idle"] /\ wirePending' = wirePending \ {wireId[c]}
      /\ wireWriters' = McpSession!Without(wireWriters, c) /\ wireId' = wireId /\ nth' = nth
  BY DEF McpSession!End
<1>2. Queue BY DEF SessionInv
<1>3. wireStage' \in [Callers -> TaskStages] /\ wireStage'[c] = "idle"
      /\ \A d \in Callers : d # c => wireStage'[d] = wireStage[d]
  BY <1>1, <1>2 DEF Queue, TaskStages
<1>4. Numbers' BY <1>1, <1>3 DEF SessionInv, Numbers
<1>5. Queue' BY <1>1, <1>2, <1>3, WithoutOne DEF Queue
<1>6. McpSession!PendingIsAwaited' BY <1>1, <1>3 DEF SessionInv, McpSession!PendingIsAwaited
<1>7. \A k \in DOMAIN wireWriters' : wireStage'[wireWriters'[k]] \in {"locking", "draining"}
  <2> SUFFICES ASSUME NEW k \in DOMAIN wireWriters'
               PROVE  wireStage'[wireWriters'[k]] \in {"locking", "draining"}
    OBVIOUS
  <2>1. wireWriters'[k] # c /\ \E j \in DOMAIN wireWriters : wireWriters'[k] = wireWriters[j]
    BY <1>1, <1>2, WithoutOne
  <2>2. PICK j \in DOMAIN wireWriters : wireWriters'[k] = wireWriters[j] BY <2>1
  <2>3. wireWriters[j] \in Callers /\ wireStage[wireWriters[j]] \in {"locking", "draining"}
    BY <1>2 DEF Queue, SessionInv, McpSession!LockIsHeldByWriters
  <2> QED BY <1>3, <2>1, <2>2, <2>3
<1>8. ASSUME NEW d \in Callers, wireStage'[d] = "draining"
      PROVE  wireWriters' # <<>> /\ Head(wireWriters') = d
  <2>1. d # c /\ wireStage[d] = "draining" BY <1>3, <1>8
  <2>2. wireWriters # <<>> /\ Head(wireWriters) = d
    BY <2>1 DEF SessionInv, McpSession!LockIsHeldByWriters
  <2> QED BY <1>1, <1>2, <2>1, <2>2, WithoutOne
<1> QED BY <1>4, <1>5, <1>6, <1>7, <1>8 DEF SessionInv, McpSession!LockIsHeldByWriters

\* A task that goes on to another stage and leaves the queue as it is.
LEMMA StageKeeps ==
  ASSUME SessionInv, NEW c \in Callers, NEW s \in TaskStages \ {"idle"}, wireStage[c] # "idle",
         wireStage' = [wireStage EXCEPT ![c] = s],
           UNCHANGED <<wireNextId, wirePending, future, wireWriters, wireId, nth>>,
         \A m \in wireSent' : m \in wireSent \/ m = <<wireId[c], nth[c]>>,
         \/ wireStage[c] = "waiting" /\ s = "ending"
         \/ s = "draining" /\ wireWriters # <<>> /\ Head(wireWriters) = c
  PROVE  SessionInv'
<1>1. wireStage' \in [Callers -> TaskStages] /\ wireStage'[c] = s
      /\ \A d \in Callers : d # c => wireStage'[d] = wireStage[d]
  BY DEF SessionInv, Queue, TaskStages
<1>2. \A m \in wireSent' : m[1] \in 1..wireNextId /\ m[2] = m[1] BY DEF SessionInv, Numbers
<1>3. Numbers' BY <1>1, <1>2 DEF SessionInv, Numbers
<1>4. Queue' BY <1>1 DEF SessionInv, Queue
<1>5. McpSession!PendingIsAwaited' BY <1>1 DEF SessionInv, McpSession!PendingIsAwaited
<1>6. McpSession!LockIsHeldByWriters'
  <2>1. \A k \in DOMAIN wireWriters : wireWriters[k] \in Callers BY DEF SessionInv, Queue
  <2>2. \A k \in DOMAIN wireWriters : wireStage[wireWriters[k]] \in {"locking", "draining"}
    BY DEF SessionInv, McpSession!LockIsHeldByWriters
  <2>3. \A k \in DOMAIN wireWriters : wireStage'[wireWriters[k]] \in {"locking", "draining"}
    BY <1>1, <2>1, <2>2
  <2>4. \A d \in Callers : wireStage'[d] = "draining" => wireWriters # <<>> /\ Head(wireWriters) = d
    BY <1>1 DEF SessionInv, McpSession!LockIsHeldByWriters
  <2> QED BY <2>3, <2>4 DEF McpSession!LockIsHeldByWriters
<1> QED BY <1>3, <1>4, <1>5, <1>6 DEF SessionInv

\* A task that asks is registered under a number of its own.
LEMMA RequestKeeps ==
  ASSUME McpSession!SessionAssumption, SessionInv, NEW c \in Callers, McpSession!Request(c)
  PROVE  SessionInv'
<1>1. CASE wireErr
  BY <1>1 DEF McpSession!Request, McpSession!connection, SessionInv, Numbers, Queue,
    McpSession!PendingIsAwaited, McpSession!LockIsHeldByWriters
<1>2. CASE ~wireErr
  <2> DEFINE n == wireNextId + 1
  <2>1. /\ wireStage[c] = "idle" /\ wireNextId < MaxSent /\ wireNextId' = n
        /\ nth' = [nth EXCEPT ![c] = n]
        /\ wireId' = [wireId EXCEPT ![c] = n] /\ wirePending' = wirePending \cup {n}
        /\ future' = [future EXCEPT ![n] = McpSession!Nothing]
        /\ wireWriters' = Append(wireWriters, c)
        /\ wireStage' = [wireStage EXCEPT ![c] = "locking"] /\ wireSent' = wireSent
    BY <1>2 DEF McpSession!Request, McpSession!FreshId, McpSession!connection
  <2>2. /\ n \in Nat /\ n # 0 /\ wireNextId < n /\ n <= MaxSent /\ n \in McpSession!Ids
        /\ n \in 1..n /\ wireNextId \in Nat
    BY <2>1 DEF SessionInv, Numbers, McpSession!SessionAssumption, McpSession!Ids
  <2> HIDE DEF n
  <2>3. wireStage' \in [Callers -> TaskStages] /\ wireStage'[c] = "locking"
        /\ \A d \in Callers : d # c => wireStage'[d] = wireStage[d]
    BY <2>1 DEF SessionInv, Queue, TaskStages
  <2>4. /\ wireId' \in [Callers -> Nat] /\ nth' = wireId' /\ wireId'[c] = n
        /\ \A d \in Callers : d # c => wireId'[d] = wireId[d]
    BY <2>1, <2>2 DEF SessionInv, Numbers
  <2>5. /\ DOMAIN future' = McpSession!Ids
        /\ \A i \in McpSession!Ids : future'[i] \in {McpSession!Nothing, McpSession!Asked, i}
    BY <2>1, <2>2 DEF SessionInv, Numbers
  <2>6. wirePending' \subseteq 1..n /\ \A m \in wireSent : m[1] \in 1..n
    BY <2>1, <2>2 DEF SessionInv, Numbers
  <2>7. Numbers' BY <2>1, <2>2, <2>3, <2>4, <2>5, <2>6 DEF SessionInv, Numbers
  <2>8. /\ wireWriters \in Seq(Callers) /\ wireWriters' \in Seq(Callers)
        /\ Len(wireWriters') = Len(wireWriters) + 1
        /\ wireWriters'[Len(wireWriters) + 1] = c
        /\ \A k \in 1..Len(wireWriters) : wireWriters'[k] = wireWriters[k]
        /\ DOMAIN wireWriters = 1..Len(wireWriters)
        /\ DOMAIN wireWriters' = 1..(Len(wireWriters) + 1) /\ Len(wireWriters) \in Nat
        /\ \A k \in 1..Len(wireWriters) : wireWriters[k] \in Callers
    BY <2>1 DEF SessionInv, Queue
  <2>9. \A k \in DOMAIN wireWriters : wireWriters[k] # c /\
          wireStage[wireWriters[k]] \in {"locking", "draining"}
    BY <2>1 DEF SessionInv, McpSession!LockIsHeldByWriters
  <2>10. \A j, k \in DOMAIN wireWriters' : wireWriters'[j] = wireWriters'[k] => j = k
    BY <2>8, <2>9 DEF SessionInv, Queue
  <2>11. Queue' BY <2>3, <2>8, <2>10 DEF Queue
  <2>12. McpSession!PendingIsAwaited'
    <3>1. \A i \in wirePending : \E d \in Callers : d # c /\ wireStage[d] # "idle" /\ wireId[d] = i
      BY <2>1 DEF SessionInv, McpSession!PendingIsAwaited
    <3> QED BY <2>1, <2>3, <2>4, <3>1 DEF McpSession!PendingIsAwaited
  <2>13. \A k \in DOMAIN wireWriters' : wireStage'[wireWriters'[k]] \in {"locking", "draining"}
    BY <2>3, <2>8, <2>9
  <2>14. ASSUME NEW d \in Callers, wireStage'[d] = "draining"
         PROVE  wireWriters' # <<>> /\ Head(wireWriters') = d
    <3>1. d # c /\ wireStage[d] = "draining" BY <2>3, <2>14
    <3>2. wireWriters # <<>> /\ Head(wireWriters) = d
      BY <3>1 DEF SessionInv, McpSession!LockIsHeldByWriters
    <3>3. Len(wireWriters) >= 1 /\ wireWriters[1] = d BY <2>8, <3>2
    <3> QED BY <2>8, <3>3
  <2> QED BY <2>7, <2>11, <2>12, <2>13, <2>14 DEF SessionInv, McpSession!LockIsHeldByWriters
<1> QED BY <1>1, <1>2

\* An answer goes to the one that waits for its number.
LEMMA DispatchKeeps ==
  ASSUME SessionInv, NEW i \in McpSession!Ids, McpSession!Dispatch(i)
  PROVE  SessionInv'
<1>1. UNCHANGED <<wireNextId, wireWriters, wireStage, wireId, nth, wireSent>>
  BY DEF McpSession!Dispatch, McpSession!connection
<1>2. PICK what \in {McpSession!Nothing, McpSession!Asked, i} : McpSession!Deliver(i, what)
  BY DEF McpSession!Dispatch, SessionInv, Numbers
<1>3. /\ wirePending' \subseteq wirePending /\ DOMAIN future' = McpSession!Ids
      /\ \A j \in McpSession!Ids : future'[j] \in {McpSession!Nothing, McpSession!Asked, j}
  BY <1>2 DEF McpSession!Deliver, SessionInv, Numbers
<1>4. Numbers' BY <1>1, <1>3 DEF SessionInv, Numbers
<1>5. Queue' /\ McpSession!LockIsHeldByWriters'
  BY <1>1 DEF SessionInv, Queue, McpSession!LockIsHeldByWriters
<1>6. McpSession!PendingIsAwaited' BY <1>1, <1>3 DEF SessionInv, McpSession!PendingIsAwaited
<1> QED BY <1>4, <1>5, <1>6 DEF SessionInv

\* A task that has written gives the lock up.
LEMMA DrainedKeeps ==
  ASSUME SessionInv, NEW c \in Callers, McpSession!Drained(c)
  PROVE  SessionInv'
<1>1. wireStage[c] = "draining" /\ UNCHANGED <<wireNextId, future, wireSent>>
  BY DEF McpSession!Drained, McpSession!connection
<1>2. wireWriters # <<>> /\ Head(wireWriters) = c /\ wireWriters \in Seq(Callers)
  BY <1>1 DEF SessionInv, McpSession!LockIsHeldByWriters, Queue
<1>3. CASE McpSession!End(c, "error") BY <1>1, <1>3, EndKeeps
<1>4. CASE /\ wireWriters' = Tail(wireWriters) /\ wireStage' = [wireStage EXCEPT ![c] = "waiting"]
           /\ UNCHANGED <<wirePending, wireId, nth>>
  <2>1. wireStage' \in [Callers -> TaskStages] /\ wireStage'[c] = "waiting"
        /\ \A d \in Callers : d # c => wireStage'[d] = wireStage[d]
    BY <1>4 DEF SessionInv, Queue, TaskStages
  <2>2. Numbers' BY <1>1, <1>4, <2>1 DEF SessionInv, Numbers
  <2>3. /\ wireWriters' \in Seq(Callers) /\ Len(wireWriters') = Len(wireWriters) - 1
        /\ Len(wireWriters) \in Nat
        /\ \A k \in 1..Len(wireWriters') : wireWriters'[k] = wireWriters[k + 1]
        /\ DOMAIN wireWriters' = 1..Len(wireWriters') /\ DOMAIN wireWriters = 1..Len(wireWriters)
        /\ wireWriters[1] = c /\ \A k \in 1..Len(wireWriters) : wireWriters[k] \in Callers
    BY <1>2, <1>4
  <2>4. \A j, k \in DOMAIN wireWriters : wireWriters[j] = wireWriters[k] => j = k
    BY DEF SessionInv, Queue
  <2>5. \A k \in DOMAIN wireWriters' : wireWriters'[k] # c /\
          wireStage[wireWriters'[k]] \in {"locking", "draining"}
    BY <2>3, <2>4 DEF SessionInv, McpSession!LockIsHeldByWriters
  <2>6. Queue'
    <3>1. ASSUME NEW j \in DOMAIN wireWriters', NEW k \in DOMAIN wireWriters',
                     wireWriters'[j] = wireWriters'[k]
          PROVE  j = k
      <4>1. /\ j + 1 \in DOMAIN wireWriters /\ k + 1 \in DOMAIN wireWriters
            /\ wireWriters[j + 1] = wireWriters[k + 1]
        BY <2>3, <3>1
      <4>2. j + 1 = k + 1 BY <2>4, <4>1
      <4> QED BY <2>3, <4>2
    <3> QED BY <2>1, <2>3, <3>1 DEF Queue
  <2>7. McpSession!PendingIsAwaited' BY <1>1, <1>4, <2>1 DEF SessionInv, McpSession!PendingIsAwaited
  <2>8. \A k \in DOMAIN wireWriters' : wireStage'[wireWriters'[k]] \in {"locking", "draining"}
    BY <2>1, <2>3, <2>5
  <2>9. \A d \in Callers : wireStage'[d] # "draining"
    BY <1>2, <2>1 DEF SessionInv, McpSession!LockIsHeldByWriters
  <2> QED BY <2>2, <2>6, <2>7, <2>8, <2>9 DEF SessionInv, McpSession!LockIsHeldByWriters
<1> QED BY <1>3, <1>4 DEF McpSession!Drained

\* Every step of the session keeps the invariant.
LEMMA SessionStep ==
  McpSession!SessionAssumption => (SessionInv /\ [McpSession!Next]_McpSession!vars => SessionInv')
<1> SUFFICES ASSUME McpSession!SessionAssumption, SessionInv, [McpSession!Next]_McpSession!vars
             PROVE  SessionInv'
  OBVIOUS
<1>1. ASSUME NEW c \in Callers, McpSession!Request(c) PROVE SessionInv' BY <1>1, RequestKeeps
<1>2. ASSUME NEW c \in Callers, McpSession!WriteFrame(c) PROVE SessionInv'
  <2>1. CASE wireErr BY <1>2, <2>1, EndKeeps DEF McpSession!WriteFrame
  <2>2. CASE ~wireErr BY <1>2, <2>2, StageKeeps DEF McpSession!WriteFrame, TaskStages
  <2> QED BY <2>1, <2>2
<1>3. ASSUME NEW c \in Callers, McpSession!Drained(c) PROVE SessionInv' BY <1>3, DrainedKeeps
<1>4. ASSUME NEW c \in Callers, McpSession!Wake(c) PROVE SessionInv'
  BY <1>4, StageKeeps DEF McpSession!Wake, TaskStages, McpSession!connection
<1>5. ASSUME NEW c \in Callers, McpSession!Finish(c) PROVE SessionInv'
  BY <1>5, EndKeeps DEF McpSession!Finish
<1>6. ASSUME NEW c \in Callers, McpSession!CancelLands(c) PROVE SessionInv'
  BY <1>6, EndKeeps DEF McpSession!CancelLands
<1>7. ASSUME NEW c \in Callers, McpSession!Deadline(c) PROVE SessionInv'
  BY <1>7 DEF McpSession!Deadline, McpSession!connection, SessionInv, Numbers, Queue,
    McpSession!PendingIsAwaited, McpSession!LockIsHeldByWriters
<1>8. ASSUME NEW i \in McpSession!Ids, McpSession!Dispatch(i) PROVE SessionInv'
  BY <1>8, DispatchKeeps
<1>9. CASE McpSession!ReadLoopFails
  BY <1>9 DEF McpSession!ReadLoopFails, SessionInv, Numbers, Queue, McpSession!PendingIsAwaited,
    McpSession!LockIsHeldByWriters
<1>10. CASE McpSession!Close
  BY <1>10 DEF McpSession!Close, SessionInv, Numbers, Queue, McpSession!PendingIsAwaited,
    McpSession!LockIsHeldByWriters
<1>11. CASE UNCHANGED McpSession!vars
  BY <1>11 DEF McpSession!vars, SessionInv, Numbers, Queue, McpSession!PendingIsAwaited,
    McpSession!LockIsHeldByWriters
<1> QED BY <1>1, <1>2, <1>3, <1>4, <1>5, <1>6, <1>7, <1>8, <1>9, <1>10, <1>11 DEF McpSession!Next,
    McpSession!TaskStep

\* What the invariant says of answers and of the lock.
LEMMA SessionPromise ==
  McpSession!SessionAssumption =>
    (SessionInv => McpSession!PendingIsAwaited /\ McpSession!LockIsHeldByWriters /\
    McpSession!AnswersAreOwn)
<1> SUFFICES ASSUME McpSession!SessionAssumption, SessionInv
             PROVE  /\ McpSession!PendingIsAwaited /\ McpSession!LockIsHeldByWriters
                    /\ McpSession!AnswersAreOwn
  OBVIOUS
<1>1. ASSUME NEW c \in Callers, wireStage[c] # "idle",
                 future[wireId[c]] \notin {McpSession!Nothing, McpSession!Asked}
      PROVE  future[wireId[c]] = nth[c]
  <2>1. wireId[c] \in McpSession!Ids
    BY <1>1 DEF SessionInv, Numbers, McpSession!Ids, McpSession!SessionAssumption
  <2> QED BY <1>1, <2>1 DEF SessionInv, Numbers
<1> QED BY <1>1 DEF SessionInv, McpSession!AnswersAreOwn

\* On the wire no answer becomes that of another request, however late or often it
\* comes, nothing given up stays registered, and the lock belongs to a task that is
\* writing.
THEOREM AnswersAreAlwaysOwn ==
  McpSession!SessionAssumption =>
    (McpSession!Spec =>
    [](McpSession!PendingIsAwaited /\ McpSession!LockIsHeldByWriters /\ McpSession!AnswersAreOwn))
<1> SUFFICES ASSUME McpSession!SessionAssumption
             PROVE  McpSession!Spec =>
                      [](McpSession!PendingIsAwaited /\ McpSession!LockIsHeldByWriters /\
                      McpSession!AnswersAreOwn)
  OBVIOUS
<1> QED BY SessionInit, SessionStep, SessionPromise, PTL DEF McpSession!Spec

=============================================================================
