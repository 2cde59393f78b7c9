------------------------- MODULE ApplicationProofs -------------------------
(***************************************************************************)
(* Delegation to sub-agents, startup and shutdown, the commands of the     *)
(* screen, the settings file, the terminal and its scrollback, for every   *)
(* value of their constants: how many levels, processes, commands, turns   *)
(* and messages, what fails, and what the servers and profiles are called. *)
(* Each part has an inductive invariant over its own variables.            *)
(***************************************************************************)
EXTENDS Integers, Sequences, FiniteSets, FiniteSetTheorems, TLAPS

CONSTANTS
  maxSubagentDepth, CutsFail, MaxRuns, MaxSteps,
  Configured, HooksFail, SavesFail,
  Live, Profiles, MaxCommands,
  Apps, Servers, Values, Default, UnknownKeys, Together, MaxOps, MaxEdits,
  TurnHooksFail, MaxTurns, MaxCalls, MaxInterrupts,
  MaxReplies, MaxPieces, MaxReasoning, MaxReplyTurns, MaxReplaced, Systems

VARIABLES
  stage, depth, created, session, steps, denials, outcome, cancelled, trees, metadata, half, made,
  reported,
  servers, step, withTools, open, connected, starter, closers, tasks,
  actual, shown, compacting, managingMCP, background, turn, inbox, loop, err, status, report,
  commands,
  file, temps, at, wanted, held, known, ops, edits,
  readMode, messages, turnNumber, cancellation, menu, listening, channel, approvals, turnStage,
  heldCall, produced, calls, presses,
  reply, replies, wire, running, turns, replaced, streaming, shownMessages, submitting, rendered,
  streamed, printed, replayed

\* The components, by the names InterfaceProofs gives them in the suite.
Delegation == INSTANCE Delegation
Startup == INSTANCE Startup
Commands == INSTANCE Commands
SettingsFile == INSTANCE SettingsFile
Terminal == INSTANCE TerminalTurn WITH
  HooksFail <- TurnHooksFail, mode <- readMode,
  inbox <- messages, turn <- turnNumber, stage <- turnStage, held <- heldCall
Reply == INSTANCE Scrollback WITH
  MaxMessages <- MaxReplies, MaxTurns <- MaxReplyTurns, MaxCommands <- MaxReplaced,
  made <- replies, channel <- wire, messages <- shownMessages, cancellation <- submitting

\* The instances have copies of the library's operators.
LEMMA CountedAlike ==
  /\ \A S : Delegation!Cardinality(S) = Cardinality(S)
  /\ \A S : Startup!Cardinality(S) = Cardinality(S)
BY DEF Cardinality, Delegation!Cardinality, Startup!Cardinality

-----------------------------------------------------------------------------
(* Delegation to sub-agents.                                               *)

Stages == {"none", "run", "add", "build", "close", "remove", "return"} \cup Delegation!InTurn

\* Past the check of the depth; and with a worktree that is to be removed.
Accepted == {"add", "build", "close", "remove"} \cup Delegation!InTurn
Holding == Accepted \ {"add"}

Types ==
  /\ stage \in [Delegation!Levels -> Stages] /\ depth \in [Delegation!Levels -> Nat]
  /\ created \in [Delegation!Levels -> Nat]
  /\ session \in [Delegation!Levels -> {"none", "open", "closed"}]
  /\ made \in Nat /\ Delegation!None \notin trees

\* A level is called by the level above, which waits for it, and so on up.
Chain ==
  \A k \in Delegation!Levels : stage[k] # "none" =>
    /\ depth[k] = k - 1
    /\ \A j \in Delegation!Levels : j < k => stage[j] = "nested"

Shallow == \A k \in Delegation!Levels : stage[k] \in Accepted => depth[k] < maxSubagentDepth

OpenInTurn ==
  \A k \in Delegation!Levels : session[k] = "open" => stage[k] \in Delegation!InTurn \cup {"close"}

\* Every worktree that was added belongs to a level that will remove it.
TreesAreHeld ==
  \A t \in trees : t \in half \/ \E k \in Delegation!Levels : stage[k] \in Holding /\ created[k] = t

DelegationInv == Types /\ Chain /\ Shallow /\ OpenInTurn /\ TreesAreHeld

\* The stages are different from one another.
LEMMA StageNames ==
  /\ {"none", "run", "return"} \cap Accepted = {} /\ {"turn", "nested"} \subseteq Holding
  /\ Holding \subseteq Accepted
BY DEF Holding, Accepted, Delegation!InTurn

\* A level that is not waiting for another moves on its own.
LEMMA MoveKeepsChain ==
  ASSUME Types, Chain, NEW k \in Delegation!Levels, NEW s \in Stages \ {"none"},
         stage[k] \notin {"none", "nested"}, stage' = [stage EXCEPT ![k] = s], depth' = depth
  PROVE  Chain'
<1> SUFFICES ASSUME NEW j \in Delegation!Levels, stage'[j] # "none"
             PROVE  depth[j] = j - 1 /\ \A i \in Delegation!Levels : i < j => stage'[i] = "nested"
  BY DEF Chain
<1>1. stage[j] # "none" BY DEF Types
<1>2. depth[j] = j - 1 /\ \A i \in Delegation!Levels : i < j => stage[i] = "nested"
  BY <1>1 DEF Chain
<1>3. \A i \in Delegation!Levels : stage[i] = "nested" => stage'[i] = "nested" BY DEF Types
<1> QED BY <1>2, <1>3

\* No level exists at the start.
LEMMA DelegationInit ==
  ASSUME Delegation!DelegationAssumption
  PROVE  Delegation!Init => DelegationInv
BY DEF Delegation!DelegationAssumption, Delegation!Init, DelegationInv, Types, Chain, Shallow,
  OpenInTurn, TreesAreHeld,
  Stages, Accepted, Holding, Delegation!InTurn, Delegation!None

\* A call of the user's session, when there is no delegation, or of the lowest
\* level there is.
LEMMA CallKeeps ==
  ASSUME Delegation!DelegationAssumption, DelegationInv, NEW k \in Delegation!Levels,
         Delegation!Call(k)
  PROVE  DelegationInv'
<1> USE DEF DelegationInv
<1>1. UNCHANGED <<created, session, Delegation!disk>> BY DEF Delegation!Call
<1>2. CASE k = 1 /\ stage[1] = "none"
      /\ stage' = [stage EXCEPT ![1] = "run"] /\ depth' = [depth EXCEPT ![1] = 0]
  <2>1. 1 \in Delegation!Levels /\ \A j \in Delegation!Levels : j # 1 => j > 1
    BY DEF Delegation!Levels, Delegation!DelegationAssumption
  <2>2. \A j \in Delegation!Levels : stage[j] = "none" BY <1>2, <2>1 DEF Chain
  <2>3. Types' BY <1>1, <1>2 DEF Types, Stages, Delegation!disk
  <2>4. Chain'
    <3> SUFFICES ASSUME NEW j \in Delegation!Levels, stage'[j] # "none"
                 PROVE  /\ depth'[j] = j - 1
                        /\ \A i \in Delegation!Levels : i < j => stage'[i] = "nested"
      BY DEF Chain
    <3>1. j = 1 BY <1>2, <2>1, <2>2 DEF Types
    <3> QED BY <1>2, <2>1, <3>1 DEF Types
  <2>5. \A j \in Delegation!Levels : stage'[j] \notin Accepted
    BY <1>2, <2>1, <2>2 DEF Types, Accepted, Delegation!InTurn
  <2>6. \A j \in Delegation!Levels : stage[j] \notin Accepted
    BY <2>2 DEF Accepted, Delegation!InTurn
  <2>7. Shallow' BY <2>5 DEF Shallow
  <2>8. OpenInTurn' BY <1>1, <2>5, <2>6 DEF OpenInTurn, Accepted
  <2>9. TreesAreHeld' BY <1>1, <2>6 DEF TreesAreHeld, Holding, Delegation!disk
  <2> QED BY <2>3, <2>4, <2>7, <2>8, <2>9
<1>3. CASE k > 1 /\ stage[k - 1] = "turn" /\ stage[k] = "none"
      /\ stage' = [stage EXCEPT ![k] = "run", ![k - 1] = "nested"]
      /\ depth' = [depth EXCEPT ![k] = depth[k - 1] + 1]
  <2>1. k - 1 \in Delegation!Levels /\ k - 1 # k
    BY <1>3 DEF Delegation!Levels, Delegation!DelegationAssumption
  <2>2. \A j \in Delegation!Levels :
          stage'[j] = IF j = k THEN "run" ELSE IF j = k - 1 THEN "nested" ELSE stage[j]
    BY <1>3, <2>1 DEF Types
  <2>3. \A j \in Delegation!Levels : j # k => depth'[j] = depth[j] BY <1>3, <2>1 DEF Types
  <2>4. depth'[k] = k - 1 /\ \A j \in Delegation!Levels : j < k - 1 => stage[j] = "nested"
    <3>1. depth[k - 1] = k - 1 - 1 /\ \A j \in Delegation!Levels : j < k - 1 => stage[j] = "nested"
      BY <1>3, <2>1 DEF Chain
    <3> QED BY <1>3, <3>1 DEF Types, Delegation!Levels, Delegation!DelegationAssumption
  <2>5. \A j \in Delegation!Levels : stage[j] # "none" => j < k
    <3>1. \A j \in Delegation!Levels : stage[j] # "none" => ~(k - 1 < j) BY <1>3, <2>1 DEF Chain
    <3> QED BY <3>1 DEF Delegation!Levels, Delegation!DelegationAssumption
  <2>6. Types'
    <3>1. stage' \in [Delegation!Levels -> Stages] BY <1>3 DEF Types, Stages, Delegation!InTurn
    <3>2. depth' \in [Delegation!Levels -> Nat] BY <1>3, <2>1 DEF Types
    <3> QED BY <1>1, <3>1, <3>2 DEF Types, Delegation!disk
  <2>7. Chain'
    <3> SUFFICES ASSUME NEW j \in Delegation!Levels, stage'[j] # "none"
                 PROVE  /\ depth'[j] = j - 1
                        /\ \A i \in Delegation!Levels : i < j => stage'[i] = "nested"
      BY DEF Chain
    <3>1. CASE j = k
      <4>1. \A i \in Delegation!Levels : i < k => i = k - 1 \/ i < k - 1
        BY DEF Delegation!Levels, Delegation!DelegationAssumption
      <4>2. \A i \in Delegation!Levels : i < k => i # k
        BY DEF Delegation!Levels, Delegation!DelegationAssumption
      <4> QED BY <2>2, <2>4, <3>1, <4>1, <4>2
    <3>2. CASE j # k
      <4>1. stage[j] # "none" BY <1>3, <2>1, <2>2, <3>2
      <4>2. depth[j] = j - 1 /\ \A i \in Delegation!Levels : i < j => stage[i] = "nested"
        BY <4>1 DEF Chain
      <4>3. \A i \in Delegation!Levels : stage[i] = "nested" => stage'[i] = "nested" BY <1>3, <2>2
      <4> QED BY <2>3, <3>2, <4>2, <4>3
    <3> QED BY <3>1, <3>2
  <2>8. Shallow'
    <3> SUFFICES ASSUME NEW j \in Delegation!Levels, stage'[j] \in Accepted
                 PROVE  depth'[j] < maxSubagentDepth
      BY DEF Shallow
    <3>1. j # k BY <2>2, StageNames
    <3>2. stage[j] \in Accepted
      <4>1. CASE j = k - 1 BY <1>3, <4>1, StageNames
      <4>2. CASE j # k - 1 BY <2>2, <3>1, <4>2
      <4> QED BY <4>1, <4>2
    <3> QED BY <2>3, <3>1, <3>2 DEF Shallow
  <2>9. OpenInTurn' BY <1>1, <1>3, <2>2 DEF OpenInTurn, Delegation!InTurn
  <2>10. TreesAreHeld'
    <3>1. \A j \in Delegation!Levels : stage[j] \in Holding => stage'[j] \in Holding
      <4> SUFFICES ASSUME NEW j \in Delegation!Levels, stage[j] \in Holding
                   PROVE  stage'[j] \in Holding
        OBVIOUS
      <4>1. j # k BY <1>3, StageNames
      <4>2. CASE j = k - 1 BY <2>2, <4>1, <4>2, StageNames
      <4>3. CASE j # k - 1 BY <2>2, <4>1, <4>3
      <4> QED BY <4>2, <4>3
    <3> QED BY <1>1, <3>1 DEF TreesAreHeld, Delegation!disk
  <2> QED BY <2>6, <2>7, <2>8, <2>9, <2>10
<1> QED BY <1>2, <1>3 DEF Delegation!Call, Delegation!Called, Delegation!ChildDepth

\* A move of one level that neither opens a child nor adds a worktree, nor goes
\* past the check, nor leaves what it holds.
LEMMA MoveKeeps ==
  ASSUME DelegationInv, NEW k \in Delegation!Levels, NEW s \in Stages \ {"none"},
         stage[k] \notin {"none", "nested"}, stage' = [stage EXCEPT ![k] = s],
         UNCHANGED <<created, depth, trees, half, made>>,
         s \in Accepted => depth[k] < maxSubagentDepth,
         stage[k] \in Holding => s \in Holding,
         session' \in [Delegation!Levels -> {"none", "open", "closed"}],
         \A j \in Delegation!Levels : j # k => session'[j] = session[j],
         session'[k] = "open" => s \in Delegation!InTurn \cup {"close"}
  PROVE  DelegationInv'
<1> USE DEF DelegationInv
<1>1. \A j \in Delegation!Levels : stage'[j] = IF j = k THEN s ELSE stage[j] BY DEF Types
<1>2. Types' BY DEF Types
<1>3. Chain' BY MoveKeepsChain
<1>4. Shallow' BY <1>1 DEF Shallow
<1>5. OpenInTurn' BY <1>1 DEF OpenInTurn
<1>6. TreesAreHeld' BY <1>1 DEF TreesAreHeld
<1> QED BY <1>2, <1>3, <1>4, <1>5, <1>6

\* A worktree that is added is held by the level that added it.
LEMMA AddKeeps ==
  ASSUME Delegation!DelegationAssumption, DelegationInv, NEW k \in Delegation!Levels,
         Delegation!AddWorktree(k)
  PROVE  DelegationInv'
<1> USE DEF DelegationInv
<1>1. stage[k] = "add" /\ made' = made + 1 /\ UNCHANGED <<depth, session>>
  BY DEF Delegation!AddWorktree, Delegation!child
<1>2. PICK s \in {"build", "return"} :
        /\ stage' = [stage EXCEPT ![k] = s]
        /\ \/ /\ s = "build" /\ trees' = trees \cup {made + 1} /\ half' = half
              /\ created' = [created EXCEPT ![k] = made + 1]
           \/ s = "return" /\ UNCHANGED <<trees, half, created>>
           \/ /\ s = "return" /\ trees' = trees \cup {made + 1}
              /\ half' = half \cup {made + 1} /\ UNCHANGED created
  BY DEF Delegation!AddWorktree
<1>3. \A j \in Delegation!Levels : stage'[j] = IF j = k THEN s ELSE stage[j] BY <1>2 DEF Types
<1>4. Types'
  <2>1. stage' \in [Delegation!Levels -> Stages] BY <1>2 DEF Types, Stages
  <2>2. created' \in [Delegation!Levels -> Nat] BY <1>2 DEF Types
  <2>3. Delegation!None \notin trees' BY <1>2 DEF Types, Delegation!None
  <2> QED BY <1>1, <2>1, <2>2, <2>3 DEF Types
<1>5. Chain' BY <1>1, <1>2, MoveKeepsChain DEF Stages
<1>6. Shallow' BY <1>1, <1>3 DEF Shallow, Accepted
<1>7. OpenInTurn' BY <1>1, <1>3 DEF OpenInTurn, Delegation!InTurn
<1>8. TreesAreHeld'
  <2> SUFFICES ASSUME NEW t \in trees'
               PROVE  \/ t \in half'
                      \/ \E j \in Delegation!Levels : stage'[j] \in Holding /\ created'[j] = t
    BY DEF TreesAreHeld
  <2>1. CASE t \in trees
    <3>1. CASE t \in half BY <1>2, <3>1
    <3>2. ASSUME NEW j \in Delegation!Levels, stage[j] \in Holding, created[j] = t
          PROVE  stage'[j] \in Holding /\ created'[j] = t
      <4>1. j # k BY <1>1, <3>2 DEF Holding, Accepted, Delegation!InTurn
      <4> QED BY <1>2, <1>3, <3>2, <4>1 DEF Types
    <3> QED BY <2>1, <3>1, <3>2 DEF TreesAreHeld
  <2>2. CASE t \notin trees
    <3>1. CASE s = "return" BY <1>2, <2>2, <3>1
    <3>2. CASE s = "build"
      <4>1. t = made + 1 /\ created'[k] = t BY <1>2, <2>2, <3>2 DEF Types
      <4>2. stage'[k] \in Holding BY <1>3, <3>2 DEF Holding, Accepted
      <4> QED BY <4>1, <4>2
    <3> QED BY <3>1, <3>2
  <2> QED BY <2>1, <2>2
<1> QED BY <1>4, <1>5, <1>6, <1>7, <1>8

\* What is removed is what the level holds, and what stands inside it.
LEMMA RemoveKeeps ==
  ASSUME Delegation!DelegationAssumption, DelegationInv, NEW k \in Delegation!Levels,
         Delegation!RemoveWorktree(k)
  PROVE  DelegationInv'
<1> USE DEF DelegationInv
<1>1. /\ stage[k] = "remove" /\ stage' = [stage EXCEPT ![k] = "return"]
      /\ created' = [created EXCEPT ![k] = Delegation!None]
      /\ trees' = trees \ Delegation!Within(k) /\ UNCHANGED <<depth, session, half, made>>
  BY DEF Delegation!RemoveWorktree, Delegation!child
<1>2. \A j \in Delegation!Levels : stage'[j] = IF j = k THEN "return" ELSE stage[j]
  BY <1>1 DEF Types
<1>3. \A j \in Delegation!Levels : j # k => created'[j] = created[j] BY <1>1 DEF Types
<1>4. Types' BY <1>1 DEF Types, Stages, Delegation!None
<1>5. Chain' BY <1>1, MoveKeepsChain DEF Stages
<1>6. Shallow' BY <1>1, <1>2 DEF Shallow, Accepted, Delegation!InTurn
<1>7. OpenInTurn' BY <1>1, <1>2 DEF OpenInTurn, Delegation!InTurn
<1>8. TreesAreHeld'
  <2> SUFFICES ASSUME NEW t \in trees', t \notin half
               PROVE  \E j \in Delegation!Levels : stage'[j] \in Holding /\ created'[j] = t
    BY <1>1 DEF TreesAreHeld
  <2>1. PICK j \in Delegation!Levels : stage[j] \in Holding /\ created[j] = t
    BY <1>1 DEF TreesAreHeld
  <2>2. t # Delegation!None /\ t \notin Delegation!Within(k) BY <1>1 DEF Types
  <2>3. k >= k BY DEF Delegation!Levels, Delegation!DelegationAssumption
  <2>4. j # k BY <2>1, <2>2, <2>3 DEF Delegation!Within
  <2> QED BY <1>2, <1>3, <2>1, <2>4
<1> QED BY <1>4, <1>5, <1>6, <1>7, <1>8

\* The caller goes on; nothing is below a level that returns.
LEMMA ReturnKeeps ==
  ASSUME Delegation!DelegationAssumption, DelegationInv, NEW k \in Delegation!Levels,
         Delegation!Return(k)
  PROVE  DelegationInv'
<1> USE DEF DelegationInv
<1>1. /\ stage[k] = "return" /\ UNCHANGED <<created, depth, session, trees, half, made>>
      /\ stage' = [stage EXCEPT ![k] = "none",
                                ![IF k = 1 THEN 1 ELSE k - 1] = IF k = 1 THEN "none" ELSE "turn"]
  BY DEF Delegation!Return, Delegation!child, Delegation!disk
<1>2. /\ \A j \in Delegation!Levels : j \in Int
      /\ k # 1 => k - 1 \in Delegation!Levels /\ k - 1 < k /\ k - 1 # k
  BY DEF Delegation!Levels, Delegation!DelegationAssumption
<1>3. \A j \in Delegation!Levels : stage'[j] = IF j = k THEN "none"
                                    ELSE IF k # 1 /\ j = k - 1 THEN "turn" ELSE stage[j]
  <2>1. CASE k = 1 BY <1>1, <2>1 DEF Types
  <2>2. CASE k # 1 BY <1>1, <1>2, <2>2 DEF Types
  <2> QED BY <2>1, <2>2
<1>4. k # 1 => stage[k - 1] = "nested" BY <1>1, <1>2 DEF Chain
<1>5. \A j \in Delegation!Levels : stage[j] # "none" => j <= k
  BY <1>1, <1>2 DEF Chain
<1>6. Types'
  <2>1. stage' \in [Delegation!Levels -> Stages]
    <3>1. CASE k = 1 BY <1>1, <3>1 DEF Types, Stages
    <3>2. CASE k # 1 BY <1>1, <1>2, <3>2 DEF Types, Stages, Delegation!InTurn
    <3> QED BY <3>1, <3>2
  <2> QED BY <1>1, <2>1 DEF Types
<1>7. Chain'
  <2> SUFFICES ASSUME NEW j \in Delegation!Levels, stage'[j] # "none"
               PROVE  depth[j] = j - 1 /\ \A i \in Delegation!Levels : i < j => stage'[i] = "nested"
    BY <1>1 DEF Chain
  <2>1. j # k /\ stage[j] # "none" BY <1>3, <1>4
  <2>2. depth[j] = j - 1 /\ \A i \in Delegation!Levels : i < j => stage[i] = "nested"
    BY <2>1 DEF Chain
  <2>3. j < k BY <1>2, <1>5, <2>1
  <2>4. \A i \in Delegation!Levels : i < j => i # k /\ (k # 1 => i # k - 1) BY <1>2, <2>3
  <2> QED BY <1>3, <2>2, <2>4
<1>8. Shallow' BY <1>1, <1>3, <1>4 DEF Shallow, Accepted, Delegation!InTurn
<1>9. OpenInTurn' BY <1>1, <1>3, <1>4 DEF OpenInTurn, Delegation!InTurn
<1>10. TreesAreHeld'
  <2>1. \A j \in Delegation!Levels : stage[j] \in Holding => stage'[j] \in Holding
    <3> SUFFICES ASSUME NEW j \in Delegation!Levels, stage[j] \in Holding
                 PROVE  stage'[j] \in Holding
      OBVIOUS
    <3>1. j # k BY <1>1, StageNames
    <3>2. CASE k # 1 /\ j = k - 1 BY <1>3, <3>1, <3>2, StageNames
    <3>3. CASE ~(k # 1 /\ j = k - 1) BY <1>3, <3>1, <3>3
    <3> QED BY <3>2, <3>3
  <2> QED BY <1>1, <2>1 DEF TreesAreHeld
<1> QED BY <1>6, <1>7, <1>8, <1>9, <1>10

\* Every step of the delegation keeps the invariant.
LEMMA DelegationStep ==
  ASSUME Delegation!DelegationAssumption
  PROVE  DelegationInv /\ [Delegation!Next]_Delegation!vars => DelegationInv'
<1> SUFFICES ASSUME DelegationInv, [Delegation!Next]_Delegation!vars PROVE DelegationInv'
  OBVIOUS
<1> USE DEF Stages, Accepted, Holding, Delegation!InTurn
<1>1. ASSUME NEW k \in Delegation!Levels, Delegation!Call(k) PROVE DelegationInv' BY <1>1, CallKeeps
<1>2. ASSUME NEW k \in Delegation!Levels, Delegation!AskApproval(k) PROVE DelegationInv'
  <2>1. depth[k] < maxSubagentDepth BY <1>2 DEF Delegation!AskApproval, DelegationInv, Shallow
  <2> QED BY <1>2, <2>1, MoveKeeps DEF Delegation!AskApproval, Delegation!disk, DelegationInv, Types
<1>3. ASSUME NEW k \in Delegation!Levels, Delegation!Refuse(k) PROVE DelegationInv'
  BY <1>3, MoveKeeps DEF Delegation!Refuse, Delegation!disk, Delegation!child, DelegationInv, Types,
    OpenInTurn
<1>4. ASSUME NEW k \in Delegation!Levels, Delegation!Accept(k) PROVE DelegationInv'
  <2>1. PICK s \in {"add", "build"} : stage' = [stage EXCEPT ![k] = s] BY <1>4 DEF Delegation!Accept
  <2> QED BY <1>4, <2>1, MoveKeeps DEF Delegation!Accept, Delegation!disk, Delegation!child,
      DelegationInv, Types, OpenInTurn
<1>5. ASSUME NEW k \in Delegation!Levels, Delegation!AddWorktree(k) PROVE DelegationInv'
  BY <1>5, AddKeeps
<1>6. ASSUME NEW k \in Delegation!Levels, Delegation!BuildChild(k) PROVE DelegationInv'
  <2>1. depth[k] < maxSubagentDepth /\ UNCHANGED <<created, depth, trees, half, made>>
    BY <1>6 DEF Delegation!BuildChild, Delegation!disk, DelegationInv, Shallow
  <2>2. CASE stage' = [stage EXCEPT ![k] = "turn"] /\ session' = [session EXCEPT ![k] = "open"]
    BY <1>6, <2>1, <2>2, MoveKeeps DEF Delegation!BuildChild, DelegationInv, Types
  <2>3. CASE stage' = [stage EXCEPT ![k] = "remove"] /\ UNCHANGED session
    BY <1>6, <2>1, <2>3, MoveKeeps DEF Delegation!BuildChild, DelegationInv, Types, OpenInTurn
  <2> QED BY <1>6, <2>2, <2>3 DEF Delegation!BuildChild
<1>7. ASSUME NEW k \in Delegation!Levels, Delegation!Deny(k) PROVE DelegationInv'
  <2>1. depth[k] < maxSubagentDepth BY <1>7 DEF Delegation!Deny, DelegationInv, Shallow
  <2> QED BY <1>7, <2>1, MoveKeeps DEF Delegation!Deny, Delegation!disk, DelegationInv, Types
<1>8. ASSUME NEW k \in Delegation!Levels, Delegation!EndTurn(k) PROVE DelegationInv'
  <2>1. depth[k] < maxSubagentDepth BY <1>8 DEF Delegation!EndTurn, DelegationInv, Shallow
  <2> QED BY <1>8, <2>1, MoveKeeps DEF Delegation!EndTurn, Delegation!disk, Delegation!child,
      DelegationInv, Types
<1>9. ASSUME NEW k \in Delegation!Levels, Delegation!CloseChild(k) PROVE DelegationInv'
  <2>1. depth[k] < maxSubagentDepth BY <1>9 DEF Delegation!CloseChild, DelegationInv, Shallow
  <2>2. /\ stage[k] = "close" /\ stage' = [stage EXCEPT ![k] = "remove"]
        /\ session' = [session EXCEPT ![k] = "closed"]
        /\ UNCHANGED <<created, depth, trees, half, made>>
    BY <1>9 DEF Delegation!CloseChild, Delegation!disk
  <2>3. /\ session' \in [Delegation!Levels -> {"none", "open", "closed"}] /\ session'[k] = "closed"
        /\ \A j \in Delegation!Levels : j # k => session'[j] = session[j]
    BY <2>2 DEF DelegationInv, Types
  <2> QED BY <2>1, <2>2, <2>3, MoveKeeps
<1>10. ASSUME NEW k \in Delegation!Levels, Delegation!RemoveWorktree(k) PROVE DelegationInv'
  BY <1>10, RemoveKeeps
<1>11. ASSUME NEW k \in Delegation!Levels, Delegation!Return(k) PROVE DelegationInv'
  BY <1>11, ReturnKeeps
<1>12. CASE UNCHANGED <<stage, created, Delegation!child, Delegation!disk>>
  BY <1>12 DEF Delegation!child, Delegation!disk, DelegationInv, Types, Chain, Shallow, OpenInTurn,
    TreesAreHeld
<1>13. CASE Delegation!Cancel BY <1>12, <1>13 DEF Delegation!Cancel
<1>14. CASE UNCHANGED Delegation!vars BY <1>12, <1>14 DEF Delegation!vars
<1> QED
  BY <1>1, <1>2, <1>3, <1>4, <1>5, <1>6, <1>7, <1>8, <1>9, <1>10, <1>11, <1>13, <1>14
    DEF Delegation!Next, Delegation!Step, Delegation!Done

\* Nothing is held where no level is past its check.
LEMMA DelegationPromise ==
  ASSUME Delegation!DelegationAssumption, DelegationInv
  PROVE  Delegation!DelegationLeavesNothing
<1>1. Delegation!DepthIsBounded
  <2> DEFINE Turns == {k \in Delegation!Levels : stage[k] \in Delegation!InTurn}
  <2>1. Turns \subseteq 1..maxSubagentDepth
    <3> SUFFICES ASSUME NEW k \in Delegation!Levels, stage[k] \in Delegation!InTurn
                 PROVE  k \in 1..maxSubagentDepth
      OBVIOUS
    <3>1. depth[k] = k - 1 /\ depth[k] < maxSubagentDepth
      BY DEF DelegationInv, Chain, Shallow, Accepted, Delegation!InTurn
    <3> QED BY <3>1 DEF Delegation!Levels, Delegation!DelegationAssumption
  <2>2. IsFiniteSet(1..maxSubagentDepth) /\ Cardinality(1..maxSubagentDepth) = maxSubagentDepth
    BY FS_Interval DEF Delegation!DelegationAssumption
  <2>3. Cardinality(Turns) <= maxSubagentDepth
    <3> HIDE DEF Turns
    <3> QED BY <2>1, <2>2, FS_Subset
  <2> QED BY <2>3, CountedAlike DEF Delegation!DepthIsBounded
<1>2. Delegation!NothingIsLeft
  <2> SUFFICES ASSUME stage[1] = "none"
               PROVE  trees \subseteq half /\ \A k \in Delegation!Levels : session[k] # "open"
    BY DEF Delegation!NothingIsLeft
  <2>1. 1 \in Delegation!Levels /\ \A k \in Delegation!Levels : k = 1 \/ 1 < k
    BY DEF Delegation!Levels, Delegation!DelegationAssumption
  <2>2. \A k \in Delegation!Levels : stage[k] = "none" BY <2>1 DEF DelegationInv, Chain
  <2> QED BY <2>2 DEF DelegationInv, OpenInTurn, TreesAreHeld, Holding, Accepted, Delegation!InTurn
<1> QED BY <1>1, <1>2 DEF Delegation!DelegationLeavesNothing

\* No more than maxSubagentDepth children are open at once, and when the call of
\* the user's session is over every worktree that was added is off the disk and
\* every child is closed (the finally blocks of run and runChild).
THEOREM DelegationAlwaysLeavesNothing ==
  ASSUME Delegation!DelegationAssumption
  PROVE  Delegation!Spec => []Delegation!DelegationLeavesNothing
BY DelegationInit, DelegationStep, DelegationPromise, PTL DEF Delegation!Spec

Building == {"model", "mcp", "mcp_tools", "lsp", "lsp_tools", "session", "delegate", "hand_over"}
Steps == Building \cup {"hooks", "running", "waiting", "abandoned", "exited"}

\* What connect has started and nobody owns yet.
Started(o, n) == { servers[o][i] : i \in 1 .. n }

Connecting ==
  UNION { IF step = o THEN Started(o, connected)
          ELSE IF step = Startup!ToolsStep[o] THEN Startup!Holds(o) ELSE {} : o \in Startup!Managers }

\* What a set of owners holds.
Belongs(set) == UNION { Startup!Holds(o) : o \in set }

Owned == Belongs(starter \cup Startup!ElementsOf(closers))
Dying == UNION { Startup!ElementsOf(tasks[o]) : o \in Startup!Managers }

StartTypes ==
  /\ servers \in Configured /\ step \in Steps /\ withTools \in BOOLEAN /\ connected \in Nat
  /\ starter \subseteq Startup!Owners /\ closers \in Seq(Startup!Owners)
  /\ \A o \in Startup!Managers :
       /\ tasks[o] \in Seq(Startup!Holds(o)) /\ Startup!Distinct(tasks[o])
       /\ step = o => connected <= Len(servers[o])
  /\ step \notin Startup!Managers => connected = 0
  /\ tasks \in [Startup!Managers -> Seq(UNION { Startup!Holds(o) : o \in Startup!Managers })]

\* How far the start has come.
Progress ==
  /\ step \in Building => closers = <<>> /\ \A o \in Startup!Managers : tasks[o] = <<>>
  /\ step \in {"model", "mcp", "mcp_tools"} => starter \subseteq {Startup!Sink}
  /\ step \in {"lsp", "lsp_tools"} => "lsp" \notin starter
  /\ step \notin Building => starter = {}
  /\ step \in {"hooks", "running"} => \A o \in Startup!Managers : tasks[o] = <<>>
  /\ \A o \in Startup!Managers : o \in Startup!ElementsOf(closers) => tasks[o] = <<>>

\* What is open is what somebody is going to close.
OpenIsOwned == step # "exited" => open = Owned \cup Dying \cup Connecting

StartInv == StartTypes /\ Progress /\ OpenIsOwned /\ Startup!OwnedIsOpen

\* What is left when the first of different elements is taken.
LEMMA TailOfDistinct ==
  ASSUME NEW S, NEW s \in Seq(S), s # <<>>, Startup!Distinct(s)
  PROVE  /\ Tail(s) \in Seq(S) /\ Startup!Distinct(Tail(s)) /\ Head(s) \in Startup!ElementsOf(s)
         /\ Startup!ElementsOf(Tail(s)) = Startup!ElementsOf(s) \ {Head(s)}
<1>1. Len(s) \in Nat /\ Len(s) > 0 /\ DOMAIN s = 1 .. Len(s) OBVIOUS
<1>2. /\ Tail(s) \in Seq(S) /\ DOMAIN Tail(s) = 1 .. (Len(s) - 1)
      /\ \A i \in 1 .. (Len(s) - 1) : Tail(s)[i] = s[i + 1]
  BY <1>1
<1>3. Head(s) = s[1] OBVIOUS
<1>4. Startup!Distinct(Tail(s)) BY <1>1, <1>2 DEF Startup!Distinct
<1>5. Startup!ElementsOf(Tail(s)) \subseteq Startup!ElementsOf(s) \ {Head(s)}
  <2> SUFFICES ASSUME NEW i \in 1 .. (Len(s) - 1)
               PROVE  Tail(s)[i] \in Startup!ElementsOf(s) /\ Tail(s)[i] # s[1]
    BY <1>2, <1>3 DEF Startup!ElementsOf
  <2> QED BY <1>1, <1>2 DEF Startup!ElementsOf, Startup!Distinct
<1>6. Startup!ElementsOf(s) \ {Head(s)} \subseteq Startup!ElementsOf(Tail(s))
  <2> SUFFICES ASSUME NEW i \in DOMAIN s, s[i] # s[1] PROVE s[i] \in Startup!ElementsOf(Tail(s))
    BY <1>3 DEF Startup!ElementsOf
  <2>1. i - 1 \in 1 .. (Len(s) - 1) /\ Tail(s)[i - 1] = s[i] BY <1>1, <1>2
  <2> QED BY <1>2, <2>1 DEF Startup!ElementsOf
<1>7. Head(s) \in Startup!ElementsOf(s) BY <1>1, <1>3 DEF Startup!ElementsOf
<1> QED BY <1>2, <1>4, <1>5, <1>6, <1>7

\* The order of the closers adds none and drops none.
LEMMA OrderKeeps ==
  ASSUME NEW set \in SUBSET Startup!Owners
  PROVE  Startup!Order(set) \in Seq(Startup!Owners) /\ Startup!ElementsOf(Startup!Order(set)) = set
<1>1. \A o \in Startup!Owners : Startup!Only(o, set) \in Seq(Startup!Owners) /\
        Startup!ElementsOf(Startup!Only(o, set)) = {o} \cap set
  BY DEF Startup!Only, Startup!ElementsOf
<1>2. \A s, t \in Seq(Startup!Owners) : s \o t \in Seq(Startup!Owners) /\
        Startup!ElementsOf(s \o t) = Startup!ElementsOf(s) \cup Startup!ElementsOf(t)
  <2> SUFFICES ASSUME NEW s \in Seq(Startup!Owners), NEW t \in Seq(Startup!Owners)
               PROVE  /\ s \o t \in Seq(Startup!Owners)
                      /\ Startup!ElementsOf(s \o t) = Startup!ElementsOf(s) \cup Startup!ElementsOf(t)
    OBVIOUS
  <2>1. /\ s \o t \in Seq(Startup!Owners) /\ DOMAIN (s \o t) = 1 .. (Len(s) + Len(t))
        /\ \A i \in 1 .. Len(s) : (s \o t)[i] = s[i]
        /\ \A i \in 1 .. Len(t) : (s \o t)[Len(s) + i] = t[i]
    OBVIOUS
  <2>2. Startup!ElementsOf(s \o t) \subseteq Startup!ElementsOf(s) \cup Startup!ElementsOf(t)
    <3> SUFFICES ASSUME NEW i \in 1 .. (Len(s) + Len(t))
                 PROVE  (s \o t)[i] \in Startup!ElementsOf(s) \cup Startup!ElementsOf(t)
      BY <2>1 DEF Startup!ElementsOf
    <3>1. CASE i <= Len(s) BY <2>1, <3>1 DEF Startup!ElementsOf
    <3>2. CASE i > Len(s)
      <4>1. i - Len(s) \in 1 .. Len(t) /\ Len(s) + (i - Len(s)) = i BY <3>2
      <4>2. (s \o t)[i] = t[i - Len(s)] BY <2>1, <4>1
      <4> QED BY <4>1, <4>2 DEF Startup!ElementsOf
    <3> QED BY <3>1, <3>2
  <2>3. Startup!ElementsOf(s) \subseteq Startup!ElementsOf(s \o t) BY <2>1 DEF Startup!ElementsOf
  <2>4. Startup!ElementsOf(t) \subseteq Startup!ElementsOf(s \o t)
    <3> SUFFICES ASSUME NEW i \in 1 .. Len(t) PROVE t[i] \in Startup!ElementsOf(s \o t)
      BY DEF Startup!ElementsOf
    <3>1. Len(s) + i \in 1 .. (Len(s) + Len(t)) OBVIOUS
    <3> QED BY <2>1, <3>1 DEF Startup!ElementsOf
  <2> QED BY <2>1, <2>2, <2>3, <2>4
<1> DEFINE m == Startup!Only("mcp", set)
           l == Startup!Only("lsp", set)
           k == Startup!Only(Startup!Sink, set)
<1>3. "mcp" \in Startup!Owners /\ "lsp" \in Startup!Owners /\ Startup!Sink \in Startup!Owners
  BY DEF Startup!Owners, Startup!Managers
<1>4. m \in Seq(Startup!Owners) /\ l \in Seq(Startup!Owners) /\ k \in Seq(Startup!Owners)
  BY <1>1, <1>3
<1>5. /\ m \o l \in Seq(Startup!Owners)
      /\ Startup!ElementsOf(m \o l) = Startup!ElementsOf(m) \cup Startup!ElementsOf(l)
  BY <1>2, <1>4
<1>6. /\ (m \o l) \o k \in Seq(Startup!Owners)
      /\ Startup!ElementsOf((m \o l) \o k) = Startup!ElementsOf(m \o l) \cup Startup!ElementsOf(k)
  BY <1>2, <1>4, <1>5
<1>7. Startup!ElementsOf(m) \cup Startup!ElementsOf(l) \cup Startup!ElementsOf(k) = set
  <2>1. /\ Startup!ElementsOf(m) = {"mcp"} \cap set /\ Startup!ElementsOf(l) = {"lsp"} \cap set
        /\ Startup!ElementsOf(k) = {Startup!Sink} \cap set
    BY <1>1, <1>3
  <2> QED BY <2>1 DEF Startup!Owners, Startup!Managers
<1> QED BY <1>5, <1>6, <1>7 DEF Startup!Order

\* Every process has one owner it may belong to.
LEMMA Apart ==
  ASSUME Startup!StartupAssumption, StartInv
  PROVE  /\ \A o, p \in Startup!Owners : o # p => Startup!Holds(o) \cap Startup!Holds(p) = {}
         /\ \A o \in Startup!Managers : /\ Startup!Holds(o) = Startup!ElementsOf(servers[o]) /\ servers[o] \in Seq(Startup!Holds(o))
                                /\ Startup!Distinct(servers[o])
                                /\ Startup!ElementsOf(tasks[o]) \subseteq Startup!Holds(o)
         /\ Startup!Managers \subseteq Startup!Owners
         /\ Startup!Sink \in Startup!Owners \ Startup!Managers
         /\ Startup!ToolsStep["mcp"] = "mcp_tools" /\ Startup!ToolsStep["lsp"] = "lsp_tools"
<1>1. \A o \in Startup!Managers : o # Startup!Sink BY DEF Startup!Managers, Startup!Sink
<1>2. \A o \in Startup!Managers : Startup!Holds(o) = Startup!ElementsOf(servers[o])
  BY <1>1 DEF Startup!Holds
<1>3. /\ \A o \in Startup!Managers : servers[o] \in Seq(Startup!Holds(o)) /\
           Startup!Distinct(servers[o]) /\ Startup!Sink \notin Startup!Holds(o)
      /\ Startup!Holds("mcp") \cap Startup!Holds("lsp") = {}
  BY <1>2 DEF Startup!StartupAssumption, StartInv, StartTypes, Startup!Managers
<1>4. \A o, p \in Startup!Owners : o # p => Startup!Holds(o) \cap Startup!Holds(p) = {}
  BY <1>3 DEF Startup!Owners, Startup!Managers, Startup!Holds
<1>5. \A o \in Startup!Managers : Startup!ElementsOf(tasks[o]) \subseteq Startup!Holds(o)
  BY DEF StartInv, StartTypes, Startup!ElementsOf
<1> QED BY <1>1, <1>2, <1>3, <1>4, <1>5 DEF Startup!Owners, Startup!ToolsStep

\* Nothing is open at the start.
LEMMA StartInit == Startup!StartupAssumption => (Startup!Init => StartInv)
<1> SUFFICES ASSUME Startup!StartupAssumption, Startup!Init PROVE StartInv
  OBVIOUS
<1>1. \A o \in Startup!Managers : tasks[o] = <<>> BY DEF Startup!Init
<1>2. Startup!ElementsOf(<<>>) = {} /\ Startup!Distinct(<<>>)
  BY DEF Startup!ElementsOf, Startup!Distinct
<1>3. StartTypes /\ Progress
  BY <1>1, <1>2 DEF Startup!Init, StartTypes, Progress, Steps, Building, Startup!Owners,
    Startup!Managers, Startup!Sink
<1>4. Connecting = {} BY DEF Startup!Init, Connecting, Startup!ToolsStep, Startup!Managers
<1>5. Dying = {} BY <1>1, <1>2 DEF Dying
<1>6. Owned = {Startup!Sink} BY <1>2 DEF Owned, Belongs, Startup!Init, Startup!Holds
<1>7. Startup!OwnedIsOpen BY <1>2 DEF Startup!OwnedIsOpen, Startup!Init, Startup!Holds
<1> QED BY <1>3, <1>4, <1>5, <1>6, <1>7 DEF StartInv, OpenIsOwned, Startup!Init

\* While the session is built nothing is dying.
LEMMA BuildingIsQuiet ==
  ASSUME StartInv, step \in Building
  PROVE  /\ closers = <<>> /\ Startup!ElementsOf(closers) = {} /\ Dying = {}
         /\ \A o \in Startup!Managers : tasks[o] = <<>>
         /\ open = Belongs(starter) \cup Connecting
<1>1. closers = <<>> /\ \A o \in Startup!Managers : tasks[o] = <<>> BY DEF StartInv, Progress
<1>2. Startup!ElementsOf(<<>>) = {} BY DEF Startup!ElementsOf
<1>3. Dying = {} BY <1>1, <1>2 DEF Dying
<1>4. Owned = Belongs(starter) BY <1>1, <1>2 DEF Owned
<1>5. step # "exited" BY DEF Building
<1>6. open = Owned \cup Dying \cup Connecting BY <1>5 DEF StartInv, OpenIsOwned
<1>7. open = Owned \cup Connecting BY <1>3, <1>6, \A A, B : A \cup {} \cup B = A \cup B
<1> QED BY <1>1, <1>2, <1>3, <1>4, <1>7

\* A step of the start that fails leaves nothing open.
LEMMA AbandonKeeps ==
  ASSUME StartInv, step \in Building, step' = "abandoned", starter' = {}, open' = {},
         connected' = 0,
         UNCHANGED <<servers, withTools, closers, tasks>>
  PROVE  StartInv'
<1>1. /\ closers = <<>> /\ Startup!ElementsOf(closers) = {}
      /\ \A o \in Startup!Managers : tasks[o] = <<>>
  BY BuildingIsQuiet
<1>2. Startup!ElementsOf(<<>>) = {} /\ Startup!Distinct(<<>>)
  BY DEF Startup!ElementsOf, Startup!Distinct
<1>3. StartTypes'
  <2>1. step' \in Steps /\ step' \notin Startup!Managers BY DEF Steps, Startup!Managers
  <2>2. tasks' \in [Startup!Managers -> Seq(UNION { Startup!Holds(o) : o \in Startup!Managers }')]
        /\ \A o \in Startup!Managers : tasks'[o] \in Seq(Startup!Holds(o)') /\
             Startup!Distinct(tasks'[o])
    BY DEF StartInv, StartTypes, Startup!Holds
  <2> QED BY <2>1, <2>2 DEF StartInv, StartTypes
<1>4. Progress' BY <1>1 DEF Progress, Building
<1>5. Connecting' = {} BY DEF Connecting, Startup!ToolsStep, Startup!Managers
<1>6. Dying' = {} BY <1>1, <1>2 DEF Dying
<1>7. Owned' = {} BY <1>1 DEF Owned, Belongs
<1>8. Startup!OwnedIsOpen' BY <1>1 DEF Startup!OwnedIsOpen
<1> QED BY <1>3, <1>4, <1>5, <1>6, <1>7, <1>8 DEF StartInv, OpenIsOwned

\* A step of the start that succeeds, from one point of it to another.
LEMMA AdvanceKeeps ==
  ASSUME StartInv, step \in Building, step' \in Building, connected' \in Nat,
         starter' \subseteq Startup!Owners,
         \A o \in Startup!Managers : step' = o => connected' <= Len(servers[o]),
         step' \notin Startup!Managers => connected' = 0,
         UNCHANGED <<servers, withTools, closers, tasks>>,
         step' \in {"model", "mcp", "mcp_tools"} => starter' \subseteq {Startup!Sink},
         step' \in {"lsp", "lsp_tools"} => "lsp" \notin starter',
         open' = Belongs(starter') \cup Connecting'
  PROVE  StartInv'
<1>1. /\ closers = <<>> /\ Startup!ElementsOf(closers) = {}
      /\ \A o \in Startup!Managers : tasks[o] = <<>>
  BY BuildingIsQuiet
<1>2. Startup!ElementsOf(<<>>) = {} BY DEF Startup!ElementsOf
<1>3. \A o \in Startup!Owners : Startup!Holds(o)' = Startup!Holds(o) BY DEF Startup!Holds
<1>4. StartTypes'
  <2>1. step' \in Steps BY DEF Steps
  <2>2. tasks' \in [Startup!Managers -> Seq(UNION { Startup!Holds(o) : o \in Startup!Managers }')]
        /\ \A o \in Startup!Managers : tasks'[o] \in Seq(Startup!Holds(o)') /\
             Startup!Distinct(tasks'[o])
    BY DEF StartInv, StartTypes, Startup!Holds
  <2> QED BY <2>1, <2>2 DEF StartInv, StartTypes
<1>5. Progress' BY <1>1 DEF Progress, Building
<1>6. Dying' = {} BY <1>1, <1>2 DEF Dying
<1>7. Owned' = Belongs(starter') BY <1>1 DEF Owned, Belongs, Startup!Holds
<1>8. Startup!OwnedIsOpen'
  <2> SUFFICES ASSUME NEW o \in Startup!Owners, o \in starter'
               PROVE  Startup!Holds(o)' \subseteq open'
    BY <1>1 DEF Startup!OwnedIsOpen
  <2>1. Startup!Holds(o) \subseteq Belongs(starter') BY DEF Belongs
  <2> QED BY <1>3, <2>1
<1>9. OpenIsOwned'
  <2>1. open' = Owned' \cup Connecting' BY <1>7
  <2> QED BY <1>6, <2>1, \A A, B : A \cup {} \cup B = A \cup B DEF OpenIsOwned
<1> QED BY <1>4, <1>5, <1>8, <1>9 DEF StartInv

\* A step of the start that opens nothing, and may fail.
LEMMA PlainStepKeeps ==
  ASSUME Startup!StartupAssumption, StartInv, Startup!PlainStep
  PROVE  StartInv'
<1>1. /\ step \in Building /\ step \notin Startup!Managers
      /\ \A o \in Startup!Managers : step # Startup!ToolsStep[o]
  BY DEF Startup!PlainStep, Building, Startup!Managers, Startup!ToolsStep
<1>2. connected = 0 BY <1>1 DEF StartInv, StartTypes
<1>3. Connecting = {} BY <1>1 DEF Connecting
<1>4. open = Belongs(starter) BY <1>1, <1>3, BuildingIsQuiet
<1>5. CASE Startup!CleanUp
  BY <1>1, <1>2, <1>4, <1>5, AbandonKeeps DEF Startup!CleanUp, Startup!PlainStep, Belongs
<1>6. CASE step' = Startup!After[step] /\ UNCHANGED <<open, starter>>
  <2>1. step' \in {"mcp", "session", "delegate", "hand_over"} /\ (step' = "mcp" => step = "model")
    BY <1>6 DEF Startup!PlainStep, Startup!After
  <2>2. UNCHANGED <<servers, withTools, connected, closers, tasks, open, starter>>
    BY <1>6 DEF Startup!PlainStep
  <2>3. Connecting' = {}
    BY <1>2, <2>1, <2>2 DEF Connecting, Started, Startup!Managers, Startup!ToolsStep
  <2>4. \A o \in Startup!Managers : Len(servers[o]) \in Nat
    BY Apart
  <2>5. starter \subseteq Startup!Owners /\ (step = "model" => starter \subseteq {Startup!Sink})
    BY DEF StartInv, StartTypes, Progress
  <2> QED BY <1>1, <1>2, <1>4, <2>1, <2>2, <2>3, <2>4, <2>5, AdvanceKeeps DEF Building,
      Startup!Managers
<1> QED BY <1>5, <1>6 DEF Startup!PlainStep

\* What a manager that connects has started, and what a connected one holds.
LEMMA ConnectingOf ==
  ASSUME Startup!StartupAssumption, StartInv, NEW o \in Startup!Managers
  PROVE  /\ step = o => Connecting = Started(o, connected)
         /\ step = Startup!ToolsStep[o] => Connecting = Startup!Holds(o)
         /\ step \notin {"mcp", "lsp", "mcp_tools", "lsp_tools"} => Connecting = {}
BY DEF Connecting, Started, Startup!Managers, Startup!ToolsStep

\* One more server is started, or those before it are closed.
LEMMA ConnectNextKeeps ==
  ASSUME Startup!StartupAssumption, StartInv, NEW o \in Startup!Managers, Startup!ConnectNext(o)
  PROVE  StartInv'
<1>1. step = o /\ connected < Len(servers[o]) /\ UNCHANGED <<servers, withTools, closers, tasks>>
  BY DEF Startup!ConnectNext
<1>2. step \in Building /\ o \in {"mcp", "lsp"} BY <1>1 DEF Building, Startup!Managers
<1>3. Len(servers[o]) \in Nat /\ connected \in Nat /\ servers[o] \in Seq(Startup!Holds(o))
      /\ Startup!Holds(o) = { servers[o][i] : i \in 1 .. Len(servers[o]) }
  BY Apart DEF StartInv, StartTypes, Startup!ElementsOf
<1>4. open = Belongs(starter) \cup Started(o, connected)
  BY <1>1, <1>2, ConnectingOf, BuildingIsQuiet
<1>5. /\ starter \subseteq Startup!Owners /\ (step \in {"mcp"} => starter \subseteq {Startup!Sink})
      /\ (step \in {"lsp"} => "lsp" \notin starter)
  BY DEF StartInv, StartTypes, Progress
<1>6. CASE /\ open' = open \cup {servers[o][connected + 1]}
           /\ connected' = connected + 1
           /\ UNCHANGED <<step, starter>>
  <2>1. Connecting' = Started(o, connected + 1)
    BY <1>1, <1>2, <1>6 DEF Connecting, Started, Startup!Managers, Startup!ToolsStep
  <2>2. Started(o, connected + 1)
          = Started(o, connected) \cup {servers[o][connected + 1]}
    BY <1>3 DEF Started
  <2>3. open' = Belongs(starter') \cup Connecting'
    BY <1>4, <1>6, <2>1, <2>2, \A A, B, C : (A \cup B) \cup C = A \cup (B \cup C)
  <2>4. connected' \in Nat /\ connected' <= Len(servers[o]) BY <1>1, <1>3, <1>6
  <2>5. step' = o /\ starter' = starter /\ step' \in Building BY <1>1, <1>2, <1>6
  <2>6. \A p \in Startup!Managers : step' = p => connected' <= Len(servers[p]) BY <2>4, <2>5
  <2>7. /\ step' \in {"model", "mcp", "mcp_tools"} => starter' \subseteq {Startup!Sink}
        /\ step' \in {"lsp", "lsp_tools"} => "lsp" \notin starter'
    BY <1>1, <1>2, <1>5, <2>5
  <2>8. step' \in Startup!Managers BY <2>5
  <2> QED BY <1>1, <1>2, <1>5, <2>3, <2>4, <2>5, <2>6, <2>7, <2>8, AdvanceKeeps
<1>7. CASE /\ open' = (open \ Startup!Holds(o)) \ Belongs(starter)
           /\ connected' = 0
           /\ starter' = {} /\ step' = "abandoned"
  <2>1. Started(o, connected) \subseteq Startup!Holds(o) BY <1>1, <1>3 DEF Started
  <2>2. open' = {} BY <1>4, <1>7, <2>1, \A A, B, C : B \subseteq C => ((A \cup B) \ C) \ A = {}
  <2> QED BY <1>1, <1>2, <1>7, <2>2, AbandonKeeps
<1> QED BY <1>6, <1>7 DEF Startup!ConnectNext, Belongs

\* All its servers are started, and the manager holds them.
LEMMA ConnectedKeeps ==
  ASSUME Startup!StartupAssumption, StartInv, NEW o \in Startup!Managers, Startup!Connected(o)
  PROVE  StartInv'
<1>1. step = o /\ connected = Len(servers[o]) /\ step' = Startup!After[o] /\ connected' = 0
      /\ UNCHANGED <<servers, withTools, closers, tasks, open, starter>>
  BY DEF Startup!Connected
<1>2. step \in Building /\ o \in {"mcp", "lsp"} BY <1>1 DEF Building, Startup!Managers
<1>3. /\ Startup!After[o] = Startup!ToolsStep[o] /\ Startup!ToolsStep[o] \in Building
      /\ Startup!ToolsStep[o] \notin Startup!Managers
  BY <1>2 DEF Startup!After, Startup!ToolsStep, Building, Startup!Managers
<1>4. /\ Startup!Holds(o) = { servers[o][i] : i \in 1 .. Len(servers[o]) }
      /\ Startup!Holds(o)' = Startup!Holds(o)
  BY <1>1, Apart DEF Startup!ElementsOf, Startup!Holds
<1>5. open = Belongs(starter) \cup Startup!Holds(o)
  BY <1>1, <1>2, <1>4, ConnectingOf, BuildingIsQuiet DEF Started
<1>6. Connecting' = Startup!Holds(o)
  BY <1>1, <1>2, <1>3, <1>4 DEF Connecting, Startup!Managers, Startup!ToolsStep
<1>7. /\ starter \subseteq Startup!Owners /\ (step \in {"mcp"} => starter \subseteq {Startup!Sink})
      /\ (step \in {"lsp"} => "lsp" \notin starter)
  BY DEF StartInv, StartTypes, Progress
<1>8. open' = Belongs(starter') \cup Connecting' BY <1>1, <1>5, <1>6
<1>9. /\ step' \in {"model", "mcp", "mcp_tools"} => starter' \subseteq {Startup!Sink}
      /\ step' \in {"lsp", "lsp_tools"} => "lsp" \notin starter'
  BY <1>1, <1>2, <1>3, <1>7 DEF Startup!ToolsStep
<1>10. step' \in Building /\ connected' \in Nat /\ \A p \in Startup!Managers : step' # p
  BY <1>1, <1>3
<1> QED BY <1>1, <1>2, <1>7, <1>8, <1>9, <1>10, AdvanceKeeps

\* The tools are registered and own the servers of the managers.
LEMMA RegisterToolsKeeps ==
  ASSUME Startup!StartupAssumption, StartInv, NEW o \in Startup!Managers, Startup!RegisterTools(o)
  PROVE  StartInv'
<1>1. step = Startup!ToolsStep[o] /\ UNCHANGED <<servers, withTools, connected, closers, tasks>>
  BY DEF Startup!RegisterTools
<1>2. step \in Building /\ o \in {"mcp", "lsp"} /\ step \notin Startup!Managers
  BY <1>1 DEF Building, Startup!Managers, Startup!ToolsStep
<1>3. connected = 0 BY <1>2 DEF StartInv, StartTypes
<1>4. open = Belongs(starter) \cup Startup!Holds(o)
  BY <1>1, <1>2, ConnectingOf, BuildingIsQuiet
<1>5. /\ starter \subseteq Startup!Owners
      /\ (step = "mcp_tools" => starter \subseteq {Startup!Sink})
      /\ (step = "lsp_tools" => "lsp" \notin starter)
  BY DEF StartInv, StartTypes, Progress
<1>6. CASE step' = Startup!After[step] /\ starter' = starter \cup {o} /\ UNCHANGED open
  <2>1. /\ o = "mcp" => step' \in {"session", "lsp"}
        /\ o = "lsp" => step' = "session"
    BY <1>1, <1>2, <1>6 DEF Startup!After, Startup!ToolsStep
  <2>2. Connecting' = {}
    BY <1>1, <1>2, <1>3, <2>1 DEF Connecting, Started, Startup!Managers, Startup!ToolsStep
  <2>3. Belongs(starter') = Belongs(starter) \cup Startup!Holds(o) BY <1>1, <1>6 DEF Belongs
  <2>8. open' = Belongs(starter') \cup Connecting'
    BY <1>4, <1>6, <2>2, <2>3, \A A : A \cup {} = A
  <2>4. starter' \subseteq Startup!Owners BY <1>5, <1>6 DEF Startup!Owners
  <2>5. step' \in Building /\ step' \notin {"model", "mcp", "mcp_tools"} BY <1>2, <2>1 DEF Building
  <2>6. step' \in {"lsp", "lsp_tools"} => "lsp" \notin starter'
    BY <1>1, <1>2, <1>5, <1>6, <2>1 DEF Startup!ToolsStep, Startup!Sink
  <2>7. connected' = 0 /\ \A p \in Startup!Managers : Len(servers[p]) \in Nat BY <1>1, <1>3, Apart
  <2> QED BY <1>1, <1>2, <2>8, <2>4, <2>5, <2>6, <2>7, AdvanceKeeps
<1>7. CASE /\ open' = (open \ Startup!Holds(o)) \ Belongs(starter)
           /\ starter' = {} /\ step' = "abandoned"
  <2>1. open' = {} BY <1>4, <1>7, \A A, B : ((A \cup B) \ B) \ A = {}
  <2> QED BY <1>1, <1>2, <1>3, <1>7, <2>1, AbandonKeeps
<1> QED BY <1>6, <1>7 DEF Startup!RegisterTools, Belongs

\* The session takes the resources over, with their closers.
LEMMA HandOverKeeps ==
  ASSUME Startup!StartupAssumption, StartInv, Startup!HandOver
  PROVE  StartInv'
<1>1. step = "hand_over" /\ closers' = Startup!Order(starter) /\ starter' = {} /\ step' = "hooks"
      /\ UNCHANGED <<servers, withTools, open, connected, tasks>>
  BY DEF Startup!HandOver, Startup!After
<1>2. step \in Building /\ step \notin Startup!Managers BY <1>1 DEF Building, Startup!Managers
<1>3. starter \in SUBSET Startup!Owners BY DEF StartInv, StartTypes
<1>4. closers' \in Seq(Startup!Owners) /\ Startup!ElementsOf(closers') = starter
  BY <1>1, <1>3, OrderKeeps
<1>5. \A o \in Startup!Managers : tasks[o] = <<>> BY <1>2, BuildingIsQuiet
<1>6. connected = 0 BY <1>2 DEF StartInv, StartTypes
<1>7. StartTypes'
  <2>1. step' \in Steps /\ step' \notin Startup!Managers BY <1>1 DEF Steps, Startup!Managers
  <2>2. tasks' \in [Startup!Managers -> Seq(UNION { Startup!Holds(o) : o \in Startup!Managers }')]
        /\ \A o \in Startup!Managers : tasks'[o] \in Seq(Startup!Holds(o)') /\
             Startup!Distinct(tasks'[o])
    BY <1>1 DEF StartInv, StartTypes, Startup!Holds
  <2> QED BY <1>1, <1>4, <1>6, <2>1, <2>2 DEF StartInv, StartTypes
<1>8. Progress' BY <1>1, <1>5 DEF Progress, Building
<1>9. open = Belongs(starter)
  <2>1. Connecting = {} BY <1>1, ConnectingOf DEF Startup!Managers
  <2> QED BY <1>2, <2>1, BuildingIsQuiet
<1>10. Connecting' = {} BY <1>1 DEF Connecting, Startup!Managers, Startup!ToolsStep
<1>11. Dying' = {}
  <2>1. Startup!ElementsOf(<<>>) = {} BY DEF Startup!ElementsOf
  <2> QED BY <1>1, <1>5, <2>1 DEF Dying
<1>12. Owned' = open' BY <1>1, <1>4, <1>9 DEF Owned, Belongs, Startup!Holds
<1>13. Startup!OwnedIsOpen'
  <2>1. \A o \in Startup!Owners : Startup!Holds(o)' = Startup!Holds(o) BY <1>1 DEF Startup!Holds
  <2> QED BY <1>1, <1>4, <1>9, <2>1 DEF Startup!OwnedIsOpen, Belongs
<1> QED BY <1>7, <1>8, <1>10, <1>11, <1>12, <1>13 DEF StartInv, OpenIsOwned

\* Once the session owns everything, what is open is what it owns or what dies.
LEMMA SessionOwns ==
  ASSUME Startup!StartupAssumption, StartInv, step \notin Building, step # "exited"
  PROVE  /\ starter = {} /\ Connecting = {} /\ connected = 0
         /\ open = Belongs(Startup!ElementsOf(closers)) \cup Dying
         /\ Startup!ElementsOf(closers) \subseteq Startup!Owners
<1>1. starter = {} BY DEF StartInv, Progress
<1>2. step \notin {"mcp", "lsp", "mcp_tools", "lsp_tools"} /\ step \notin Startup!Managers
  BY DEF Building, Startup!Managers
<1>3. connected = 0 BY <1>2 DEF StartInv, StartTypes
<1>4. Connecting = {} BY <1>2 DEF Connecting, Startup!ToolsStep, Startup!Managers
<1>5. Startup!ElementsOf(closers) \subseteq Startup!Owners
  BY DEF StartInv, StartTypes, Startup!ElementsOf
<1>6. open = Owned \cup Dying \cup Connecting BY DEF StartInv, OpenIsOwned
<1>7. Owned = Belongs(Startup!ElementsOf(closers)) BY <1>1, \A A : {} \cup A = A DEF Owned
<1> QED BY <1>1, <1>3, <1>4, <1>5, <1>6, <1>7, \A A : A \cup {} = A

\* The session begins to close what it owns.
LEMMA CloseSessionKeeps ==
  ASSUME Startup!StartupAssumption, StartInv, step \in {"hooks", "running"}, Startup!CloseSession,
         step' \in {"abandoned", "waiting"}, UNCHANGED <<servers, withTools, connected, starter>>
  PROVE  StartInv'
<1>1. /\ step \notin Building /\ step # "exited" /\ step' \notin Building /\ step' # "exited"
      /\ step' \in Steps
      /\ step' \notin Startup!Managers /\ step' \notin {"hooks", "running"}
      /\ \A o \in Startup!Managers : step' # Startup!ToolsStep[o]
  BY DEF Building, Steps, Startup!Managers, Startup!ToolsStep
<1>2. /\ starter = {} /\ connected = 0 /\ open = Belongs(Startup!ElementsOf(closers)) \cup Dying
      /\ Startup!ElementsOf(closers) \subseteq Startup!Owners
  BY <1>1, SessionOwns
<1>3. \A o \in Startup!Managers : tasks[o] = <<>> BY DEF StartInv, Progress
<1>4. Startup!ElementsOf(<<>>) = {} /\ Startup!Distinct(<<>>)
  BY DEF Startup!ElementsOf, Startup!Distinct
<1>5. Dying = {} BY <1>3, <1>4 DEF Dying
<1>6. open = Belongs(Startup!ElementsOf(closers)) BY <1>2, <1>5, \A A : A \cup {} = A
<1>7. Connecting' = {} BY <1>1 DEF Connecting
<1>8. \A o \in Startup!Owners : Startup!Holds(o)' = Startup!Holds(o) BY DEF Startup!Holds
<1>9. CASE UNCHANGED <<open, closers, tasks>>
  <2>1. tasks' \in [Startup!Managers -> Seq(UNION { Startup!Holds(o) : o \in Startup!Managers }')]
        /\ \A o \in Startup!Managers : tasks'[o] \in Seq(Startup!Holds(o)') /\
             Startup!Distinct(tasks'[o])
    BY <1>9 DEF StartInv, StartTypes, Startup!Holds
  <2>2. StartTypes' BY <1>1, <1>2, <1>9, <2>1 DEF StartInv, StartTypes
  <2>3. Progress' BY <1>1, <1>2, <1>3, <1>9 DEF Progress, Building
  <2>4. Dying' = {} BY <1>3, <1>4, <1>9 DEF Dying
  <2>5. Owned' = open'
    <3>1. Owned' = Belongs(Startup!ElementsOf(closers))
      BY <1>2, <1>9, \A A : {} \cup A = A DEF Owned, Belongs, Startup!Holds
    <3> QED BY <1>6, <1>9, <3>1
  <2>6. OpenIsOwned' BY <1>7, <2>4, <2>5, \A A : A \cup {} = A DEF OpenIsOwned
  <2>7. Startup!OwnedIsOpen' BY <1>8, <1>9 DEF StartInv, Startup!OwnedIsOpen
  <2> QED BY <2>2, <2>3, <2>6, <2>7 DEF StartInv
<1>10. CASE /\ closers' = <<>>
            /\ open' = open \ ({Startup!Sink} \cap Startup!ElementsOf(closers))
            /\ tasks' = [o \in Startup!Managers |-> IF o \in Startup!ElementsOf(closers) THEN servers[o] ELSE tasks[o]]
  <2> DEFINE C == Startup!ElementsOf(closers)
  <2>1. \A o \in Startup!Managers : tasks'[o] \in {servers[o], <<>>} /\
          (o \in C => tasks'[o] = servers[o])
                            /\ (o \notin C => tasks'[o] = <<>>)
    BY <1>3, <1>10
  <2>2. \A o \in Startup!Managers : tasks'[o] \in Seq(Startup!Holds(o)) /\
          Startup!Distinct(tasks'[o])
    <3> TAKE o \in Startup!Managers
    <3>1. servers[o] \in Seq(Startup!Holds(o)) /\ Startup!Distinct(servers[o]) BY Apart
    <3>2. <<>> \in Seq(Startup!Holds(o)) OBVIOUS
    <3> QED BY <1>4, <2>1, <3>1, <3>2
  <2>3. tasks' \in [Startup!Managers -> Seq(UNION { Startup!Holds(o) : o \in Startup!Managers })]
    <3>1. \A o \in Startup!Managers :
            tasks'[o] \in Seq(UNION { Startup!Holds(p) : p \in Startup!Managers })
      <4> TAKE o \in Startup!Managers
      <4>1. Startup!Holds(o) \subseteq UNION { Startup!Holds(p) : p \in Startup!Managers } OBVIOUS
      <4> QED BY <2>2, <4>1
    <3> QED BY <1>10, <3>1
  <2>4. closers' \in Seq(Startup!Owners) /\ Startup!ElementsOf(closers') = {} BY <1>4, <1>10
  <2>5. StartTypes'
    <3>1. tasks' \in [Startup!Managers -> Seq(UNION { Startup!Holds(o) : o \in Startup!Managers }')]
      BY <2>3 DEF Startup!Holds
    <3>2. \A o \in Startup!Managers : tasks'[o] \in Seq(Startup!Holds(o)') /\
            Startup!Distinct(tasks'[o])
      BY <2>2 DEF Startup!Holds
    <3> QED BY <1>1, <1>2, <2>4, <3>1, <3>2 DEF StartInv, StartTypes
  <2>6. Progress' BY <1>1, <1>2, <2>4 DEF Progress, Building
  <2>7. Dying' = Belongs(C \cap Startup!Managers)
    <3>1. Dying' = UNION { Startup!ElementsOf(tasks'[o]) : o \in Startup!Managers } BY DEF Dying
    <3>2. \A o \in Startup!Managers :
            Startup!ElementsOf(tasks'[o]) = IF o \in C THEN Startup!Holds(o) ELSE {}
      BY <1>4, <2>1, Apart
    <3> QED BY <3>1, <3>2 DEF Belongs
  <2>8. Owned' = {} BY <1>2, <2>4 DEF Owned, Belongs
  <2>9. open' = Belongs(C \cap Startup!Managers)
    <3>1. /\ \A o \in Startup!Managers : Startup!Sink \notin Startup!Holds(o)
          /\ Startup!Holds(Startup!Sink) = {Startup!Sink}
          /\ C \subseteq Startup!Managers \cup {Startup!Sink}
      <4>1. Startup!Holds(Startup!Sink) = {Startup!Sink} BY DEF Startup!Holds
      <4> QED BY <1>2, <4>1, Apart DEF Startup!Owners
    <3> QED BY <1>6, <1>10, <3>1 DEF Belongs
  <2>10. OpenIsOwned' BY <1>7, <2>7, <2>8, <2>9, \A A : {} \cup A \cup {} = A DEF OpenIsOwned
  <2>11. Startup!OwnedIsOpen' BY <1>2, <2>4 DEF Startup!OwnedIsOpen
  <2> QED BY <2>5, <2>6, <2>10, <2>11 DEF StartInv
<1> QED BY <1>9, <1>10 DEF Startup!CloseSession

\* The hooks of the start ran, or failed.
LEMMA StartHooksKeeps ==
  ASSUME Startup!StartupAssumption, StartInv, Startup!StartHooks
  PROVE  StartInv'
<1>1. step = "hooks" /\ UNCHANGED <<servers, withTools, connected, starter>>
  BY DEF Startup!StartHooks
<1>2. CASE step' = Startup!After[step] /\ UNCHANGED <<open, closers, tasks>>
  <2>1. step' = "running" BY <1>1, <1>2 DEF Startup!After
  <2>2. /\ step' \in Steps /\ step \notin Startup!Managers /\ step' \notin Startup!Managers
        /\ step' \notin Building
    BY <1>1, <2>1 DEF Steps, Startup!Managers, Building
  <2>3. tasks' \in [Startup!Managers -> Seq(UNION { Startup!Holds(o) : o \in Startup!Managers }')]
        /\ \A o \in Startup!Managers : tasks'[o] \in Seq(Startup!Holds(o)') /\
             Startup!Distinct(tasks'[o])
    BY <1>1, <1>2 DEF StartInv, StartTypes, Startup!Holds
  <2>4. StartTypes' BY <1>1, <1>2, <2>2, <2>3 DEF StartInv, StartTypes
  <2>5. Progress' BY <1>1, <1>2, <2>1 DEF StartInv, Progress, Building
  <2>6. Connecting = {} /\ Connecting' = {}
    BY <1>1, <2>1 DEF Connecting, Startup!Managers, Startup!ToolsStep
  <2>7. Owned' = Owned /\ Dying' = Dying BY <1>1, <1>2 DEF Owned, Belongs, Startup!Holds, Dying
  <2>8. open = Owned \cup Dying \cup Connecting BY <1>1 DEF StartInv, OpenIsOwned
  <2>9. OpenIsOwned' BY <1>2, <2>6, <2>7, <2>8 DEF OpenIsOwned
  <2>10. Startup!OwnedIsOpen' BY <1>1, <1>2 DEF StartInv, Startup!OwnedIsOpen, Startup!Holds
  <2> QED BY <2>4, <2>5, <2>9, <2>10 DEF StartInv
<1>3. CASE HooksFail /\ step' = "abandoned" /\ Startup!CloseSession
  BY <1>1, <1>3, CloseSessionKeeps
<1> QED BY <1>2, <1>3 DEF Startup!StartHooks

\* The next closer of the session runs.
LEMMA CloseNextKeeps ==
  ASSUME Startup!StartupAssumption, StartInv, NEW o \in Startup!Managers, Startup!CloseNext(o)
  PROVE  StartInv'
<1>1. tasks[o] # <<>> /\ step # "exited" /\ open' = open \ {Head(tasks[o])}
      /\ tasks' = [tasks EXCEPT ![o] = Tail(@)]
      /\ UNCHANGED <<servers, step, withTools, connected, starter, closers>>
  BY DEF Startup!CloseNext
<1>2. /\ step \notin Building /\ step \notin {"hooks", "running"}
      /\ o \notin Startup!ElementsOf(closers)
  BY <1>1 DEF StartInv, Progress
<1>3. starter = {} /\ Connecting = {} /\ open = Belongs(Startup!ElementsOf(closers)) \cup Dying
      /\ Startup!ElementsOf(closers) \subseteq Startup!Owners
  BY <1>1, <1>2, SessionOwns
<1>4. tasks[o] \in Seq(Startup!Holds(o)) /\ Startup!Distinct(tasks[o]) BY DEF StartInv, StartTypes
<1>5. /\ Tail(tasks[o]) \in Seq(Startup!Holds(o)) /\ Startup!Distinct(Tail(tasks[o]))
      /\ Head(tasks[o]) \in Startup!ElementsOf(tasks[o])
      /\ Startup!ElementsOf(Tail(tasks[o])) = Startup!ElementsOf(tasks[o]) \ {Head(tasks[o])}
  BY <1>1, <1>4, TailOfDistinct
<1>6. tasks \in [Startup!Managers -> Seq(UNION { Startup!Holds(p) : p \in Startup!Managers })]
  BY DEF StartInv, StartTypes
<1>7. tasks'[o] = Tail(tasks[o]) /\ \A p \in Startup!Managers \ {o} : tasks'[p] = tasks[p]
  BY <1>1, <1>6
<1>8. \A p \in Startup!Managers : tasks'[p] \in Seq(Startup!Holds(p)) /\ Startup!Distinct(tasks'[p])
  BY <1>5, <1>7 DEF StartInv, StartTypes
<1>9. StartTypes'
  <2>1. tasks' \in [Startup!Managers -> Seq(UNION { Startup!Holds(p) : p \in Startup!Managers })]
    <3>1. Tail(tasks[o]) \in Seq(UNION { Startup!Holds(p) : p \in Startup!Managers })
      <4>1. Startup!Holds(o) \subseteq UNION { Startup!Holds(p) : p \in Startup!Managers } OBVIOUS
      <4> QED BY <1>5, <4>1
    <3> QED BY <1>1, <1>6, <3>1
  <2>2. tasks' \in [Startup!Managers -> Seq(UNION { Startup!Holds(p) : p \in Startup!Managers }')]
    BY <1>1, <2>1 DEF Startup!Holds
  <2>3. \A p \in Startup!Managers : tasks'[p] \in Seq(Startup!Holds(p)') /\
          Startup!Distinct(tasks'[p])
    BY <1>1, <1>8 DEF Startup!Holds
  <2> QED BY <1>1, <2>2, <2>3 DEF StartInv, StartTypes
<1>10. Progress' BY <1>1, <1>2, <1>7 DEF StartInv, Progress
<1>11. Head(tasks[o]) \in Startup!Holds(o) BY <1>5, Apart
<1>12. Head(tasks[o]) \notin Belongs(Startup!ElementsOf(closers))
  BY <1>2, <1>3, <1>11, Apart DEF Belongs
<1>13. Dying' = Dying \ {Head(tasks[o])}
  <2>1. Dying' = UNION { Startup!ElementsOf(tasks'[p]) : p \in Startup!Managers } BY DEF Dying
  <2>2. Startup!ElementsOf(tasks'[o]) = Startup!ElementsOf(tasks[o]) \ {Head(tasks[o])}
    BY <1>5, <1>7
  <2>3. \A p \in Startup!Managers \ {o} :
          Startup!ElementsOf(tasks'[p]) = Startup!ElementsOf(tasks[p])
          /\ Head(tasks[o]) \notin Startup!ElementsOf(tasks[p])
    BY <1>7, <1>11, Apart
  <2> QED BY <2>1, <2>2, <2>3 DEF Dying
<1>14. Owned' = Belongs(Startup!ElementsOf(closers))
  BY <1>1, <1>3, \A A : {} \cup A = A DEF Owned, Belongs, Startup!Holds
<1>15. Connecting' = {} BY <1>1, <1>2 DEF Connecting, Building, Startup!Managers, Startup!ToolsStep
<1>16. open' = Owned' \cup Dying'
  BY <1>1, <1>3, <1>12, <1>13, <1>14, \A A, B, h : h \notin A => (A \cup B) \ {h} = A \cup (B \ {h})
<1>17. OpenIsOwned' BY <1>15, <1>16, \A A : A \cup {} = A DEF OpenIsOwned
<1>18. Startup!OwnedIsOpen'
  <2>1. \A p \in Startup!ElementsOf(closers) : Startup!Holds(p) \subseteq open' /\
          Startup!Holds(p)' = Startup!Holds(p)
    BY <1>1, <1>14, <1>16 DEF Belongs, Startup!Holds
  <2> QED BY <1>1, <1>3, <2>1 DEF Startup!OwnedIsOpen
<1> QED BY <1>9, <1>10, <1>17, <1>18 DEF StartInv

\* Exit, and ExitAbandoned: the state is left as it is, but for the tasks.
LEMMA ExitKeeps ==
  ASSUME Startup!StartupAssumption, StartInv, Startup!Exit \/ Startup!ExitAbandoned
  PROVE  StartInv'
<1>1. step \in {"waiting", "abandoned"} /\ step' = "exited"
      /\ UNCHANGED <<servers, withTools, open, connected, starter, closers>>
  BY DEF Startup!Exit, Startup!ExitAbandoned
<1>2. /\ step \notin Building /\ step # "exited" /\ step' \notin Building /\ step' \in Steps
      /\ step' \notin Startup!Managers
  BY <1>1 DEF Building, Steps, Startup!Managers
<1>3. Startup!ElementsOf(<<>>) = {} /\ Startup!Distinct(<<>>)
  BY DEF Startup!ElementsOf, Startup!Distinct
<1>4. tasks \in [Startup!Managers -> Seq(UNION { Startup!Holds(o) : o \in Startup!Managers })]
  BY DEF StartInv, StartTypes
<1>5. \A o \in Startup!Managers : tasks'[o] = <<>>
  BY DEF Startup!Exit, Startup!ExitAbandoned
<1>6. tasks' \in [Startup!Managers -> Seq(UNION { Startup!Holds(o) : o \in Startup!Managers })]
  BY <1>4, \A S : <<>> \in Seq(S) DEF Startup!Exit, Startup!ExitAbandoned
<1>7. StartTypes'
  <2>1. tasks' \in [Startup!Managers -> Seq(UNION { Startup!Holds(o) : o \in Startup!Managers }')]
    BY <1>1, <1>6 DEF Startup!Holds
  <2>2. \A o \in Startup!Managers : tasks'[o] \in Seq(Startup!Holds(o)') /\
          Startup!Distinct(tasks'[o])
    BY <1>3, <1>5, \A S : <<>> \in Seq(S)
  <2>3. connected = 0 BY <1>2, SessionOwns
  <2> QED BY <1>1, <1>2, <2>1, <2>2, <2>3 DEF StartInv, StartTypes
<1>8. Progress' BY <1>1, <1>2, <1>5, SessionOwns DEF Progress, Building
<1>9. OpenIsOwned' BY <1>1 DEF OpenIsOwned
<1>10. Startup!OwnedIsOpen' BY <1>1 DEF StartInv, Startup!OwnedIsOpen, Startup!Holds
<1> QED BY <1>7, <1>8, <1>9, <1>10 DEF StartInv

\* Every step of the start and of the shutdown keeps the invariant.
LEMMA StartStep ==
  Startup!StartupAssumption => (StartInv /\ [Startup!Next]_Startup!vars => StartInv')
<1> SUFFICES ASSUME Startup!StartupAssumption, StartInv, [Startup!Next]_Startup!vars PROVE StartInv'
  OBVIOUS
<1>1. CASE Startup!PlainStep BY <1>1, PlainStepKeeps
<1>2. CASE Startup!HandOver BY <1>2, HandOverKeeps
<1>3. CASE Startup!StartHooks BY <1>3, StartHooksKeeps
<1>4. ASSUME NEW o \in Startup!Managers, Startup!ConnectNext(o) PROVE StartInv'
  BY <1>4, ConnectNextKeeps
<1>5. ASSUME NEW o \in Startup!Managers, Startup!Connected(o) PROVE StartInv'
  BY <1>5, ConnectedKeeps
<1>6. ASSUME NEW o \in Startup!Managers, Startup!RegisterTools(o) PROVE StartInv'
  BY <1>6, RegisterToolsKeeps
<1>7. ASSUME NEW o \in Startup!Managers, Startup!CloseNext(o) PROVE StartInv'
  BY <1>7, CloseNextKeeps
<1>8. CASE Startup!Quit BY <1>8, CloseSessionKeeps DEF Startup!Quit
<1>9. CASE Startup!Exit \/ Startup!ExitAbandoned BY <1>9, ExitKeeps
<1>10. CASE UNCHANGED Startup!vars
  <2>1. UNCHANGED <<servers, step, withTools, open, connected, starter, closers, tasks>>
    BY <1>10 DEF Startup!vars
  <2>2. StartTypes' = StartTypes /\ Progress' = Progress
    BY <2>1 DEF StartTypes, Progress, Startup!Holds
  <2>3. OpenIsOwned' = OpenIsOwned /\ Startup!OwnedIsOpen' = Startup!OwnedIsOpen
    BY <2>1 DEF OpenIsOwned, Startup!OwnedIsOpen, Owned, Belongs, Dying, Connecting, Started,
      Startup!Holds
  <2> QED BY <2>2, <2>3 DEF StartInv
<1> QED BY <1>1, <1>2, <1>3, <1>4, <1>5, <1>6, <1>7, <1>8, <1>9, <1>10 DEF Startup!Next

\* The strengthened invariant holds in every behaviour: what is open has one
\* owner that will close it or is being closed (app/session.py).
THEOREM StartInvariant == Startup!StartupAssumption => (Startup!Spec => []StartInv)
<1> SUFFICES ASSUME Startup!StartupAssumption PROVE Startup!Spec => []StartInv
  OBVIOUS
<1>1. Startup!Init => StartInv BY StartInit
<1>2. StartInv /\ [Startup!Next]_Startup!vars => StartInv' BY StartStep
<1> QED BY <1>1, <1>2, PTL DEF Startup!Spec

\* Of the owners a process may belong to one has it.
LEMMA OwnerIsOne ==
  ASSUME Startup!StartupAssumption, StartInv PROVE Startup!OneOwner
<1> SUFFICES ASSUME step # "exited", NEW r \in open PROVE Cardinality(Startup!OwnersOf(r)) = 1
  BY CountedAlike DEF Startup!OneOwner
<1>1. open = Owned \cup Dying \cup Connecting BY DEF StartInv, OpenIsOwned
<1>2. starter \subseteq Startup!Owners /\ Startup!ElementsOf(closers) \subseteq Startup!Owners
  BY DEF StartInv, StartTypes, Startup!ElementsOf
<1> DEFINE At(o) == step \in {o, Startup!ToolsStep[o]}
<1>3. PICK o \in Startup!Owners : r \in Startup!Holds(o)
        /\ (o \in starter \/ o \in Startup!ElementsOf(closers) \/
             (o \in Startup!Managers /\ r \in Startup!ElementsOf(tasks[o])) \/
             (o \in Startup!Managers /\ At(o)))
  <2>1. CASE r \in Owned BY <1>2, <2>1 DEF Owned, Belongs
  <2>2. CASE r \in Dying BY <2>2, Apart DEF Dying
  <2>3. CASE r \in Connecting
    <3>1. PICK p \in Startup!Managers :
            r \in (IF step = p THEN Started(p, connected)
                   ELSE IF step = Startup!ToolsStep[p] THEN Startup!Holds(p) ELSE {})
      BY <2>3 DEF Connecting
    <3>2. At(p) BY <3>1
    <3>3. step = p => Started(p, connected) \subseteq Startup!Holds(p)
      BY Apart DEF Started, StartInv, StartTypes, Startup!ElementsOf
    <3> QED BY <3>1, <3>2, <3>3, Apart
  <2> QED BY <1>1, <2>1, <2>2, <2>3
<1>4. \A p \in Startup!Owners : r \in Startup!Holds(p) <=> p = o BY <1>3, Apart
<1>5. \A p \in Startup!Managers : r \in Startup!ElementsOf(tasks[p]) => p = o BY <1>4, Apart
<1>6. \A p \in Startup!Managers : At(p) => step \in Building
  BY DEF Startup!Managers, Building, Startup!ToolsStep
<1>7. /\ step \in Building => closers = <<>> /\ \A p \in Startup!Managers : tasks[p] = <<>>
      /\ step \notin Building => starter = {}
      /\ \A p \in Startup!Managers : p \in Startup!ElementsOf(closers) => tasks[p] = <<>>
      /\ \A p \in Startup!Managers : At(p) => p \notin starter
  BY DEF StartInv, Progress, Startup!Managers, Startup!ToolsStep, Startup!Sink
<1>8. Startup!ElementsOf(<<>>) = {} BY DEF Startup!ElementsOf
<1>9. Startup!Managers \subseteq Startup!Owners BY DEF Startup!Owners
<1>10. CASE o \in starter
  <2>1. Startup!OwnersOf(r) = {<<"starter", o>>}
    BY <1>2, <1>3, <1>4, <1>5, <1>7, <1>8, <1>9, <1>10 DEF Startup!OwnersOf
  <2> QED BY <2>1, FS_Singleton
<1>11. CASE o \in Startup!ElementsOf(closers)
  <2>1. Startup!OwnersOf(r) = {<<"session", o>>}
    BY <1>2, <1>3, <1>4, <1>5, <1>6, <1>7, <1>8, <1>9, <1>11 DEF Startup!OwnersOf
  <2> QED BY <2>1, FS_Singleton
<1>12. CASE o \in Startup!Managers /\ r \in Startup!ElementsOf(tasks[o])
  <2>1. Startup!OwnersOf(r) = {<<"task", o>>}
    BY <1>2, <1>3, <1>4, <1>5, <1>6, <1>7, <1>8, <1>9, <1>12 DEF Startup!OwnersOf
  <2> QED BY <2>1, FS_Singleton
<1>13. CASE o \in Startup!Managers /\ At(o)
  <2>1. Startup!OwnersOf(r) = {<<"connect", o>>}
    BY <1>2, <1>3, <1>4, <1>5, <1>6, <1>7, <1>8, <1>9, <1>13 DEF Startup!OwnersOf
  <2> QED BY <2>1, FS_Singleton
<1> QED BY <1>3, <1>10, <1>11, <1>12, <1>13

\* Whatever step of the start fails, a process, client or file that is open has
\* exactly one owner.
THEOREM OpenHasOneOwner == Startup!StartupAssumption => (Startup!Spec => []Startup!OneOwner)
<1> SUFFICES ASSUME Startup!StartupAssumption PROVE Startup!Spec => []Startup!OneOwner
  OBVIOUS
<1>1. StartInv => Startup!OneOwner BY OwnerIsOne
<1> QED BY <1>1, StartInvariant, PTL

\* And what an owner has is open: nothing is closed a second time.
THEOREM NoOwnerClosesTwice == Startup!StartupAssumption => (Startup!Spec => []Startup!OwnedIsOpen)
<1> SUFFICES ASSUME Startup!StartupAssumption PROVE Startup!Spec => []Startup!OwnedIsOpen
  OBVIOUS
<1>1. StartInv => Startup!OwnedIsOpen BY DEF StartInv
<1> QED BY <1>1, StartInvariant, PTL

\* When nothing can fail in the closing itself, what the program opened is closed at its end.
AllIsClosed ==
  /\ step \in {"waiting", "abandoned", "exited"} => closers = <<>>
  /\ step = "abandoned" => open = {}
  /\ Startup!ExitLeavesNothing

\* A step of a start whose hooks do not fail leaves nothing behind where the
\* program ends.
LEMMA AbandonedIsClosed ==
  ASSUME Startup!StartupAssumption, StartInv, ~SavesFail, ~HooksFail, AllIsClosed, Startup!Next
  PROVE  AllIsClosed'
<1>1. Startup!ElementsOf(<<>>) = {} BY DEF Startup!ElementsOf
<1>2. \A s \in Building \cup {"hooks", "running"} : s \notin {"waiting", "abandoned", "exited"}
  BY DEF Building
<1>3. CASE \/ Startup!PlainStep
           \/ \E o \in Startup!Managers : Startup!ConnectNext(o) \/ Startup!RegisterTools(o)
  <2>1. step \in Building /\ UNCHANGED closers /\ step' # "exited" /\ step' # "waiting"
    BY <1>3 DEF Startup!PlainStep, Startup!CleanUp, Startup!ConnectNext, Startup!RegisterTools,
      Building, Startup!ToolsStep, Startup!Managers, Startup!After
  <2>2. closers' = <<>> BY <2>1, BuildingIsQuiet
  <2>3. step' = "abandoned" => open' = {}
    <3> SUFFICES ASSUME step' = "abandoned" PROVE open' = {}
      OBVIOUS
    <3>1. CASE Startup!PlainStep
      <4>1. Startup!CleanUp BY <3>1 DEF Startup!PlainStep, Startup!After
      <4>2. Connecting = {} BY <3>1, ConnectingOf DEF Startup!PlainStep, Startup!Managers
      <4>3. open = Belongs(starter) BY <2>1, <4>2, BuildingIsQuiet, \A A : A \cup {} = A
      <4> QED BY <4>1, <4>3 DEF Startup!CleanUp, Belongs
    <3>2. ASSUME NEW o \in Startup!Managers, Startup!ConnectNext(o) PROVE open' = {}
      <4>1. step = o /\ o # "abandoned" /\ connected < Len(servers[o])
        BY <3>2 DEF Startup!ConnectNext, Startup!Managers
      <4>2. open' = (open \ Startup!Holds(o)) \ Belongs(starter)
        BY <3>2, <4>1 DEF Startup!ConnectNext, Belongs
      <4>3. open = Belongs(starter) \cup Started(o, connected)
        BY <2>1, <4>1, ConnectingOf, BuildingIsQuiet DEF Started
      <4>4. Started(o, connected) \subseteq Startup!Holds(o)
        BY <4>1, Apart DEF Started, StartInv, StartTypes, Startup!ElementsOf
      <4> QED BY <4>2, <4>3, <4>4, \A A, B, C : B \subseteq C => ((A \cup B) \ C) \ A = {}
    <3>3. ASSUME NEW o \in Startup!Managers, Startup!RegisterTools(o) PROVE open' = {}
      <4>1. step = Startup!ToolsStep[o] /\ open' = (open \ Startup!Holds(o)) \ Belongs(starter)
        BY <3>3 DEF Startup!RegisterTools, Belongs, Startup!After, Startup!ToolsStep,
          Startup!Managers
      <4>2. open = Belongs(starter) \cup Startup!Holds(o)
        BY <2>1, <4>1, ConnectingOf, BuildingIsQuiet
      <4> QED BY <4>1, <4>2, \A A, B : ((A \cup B) \ B) \ A = {}
    <3> QED BY <1>3, <3>1, <3>2, <3>3
  <2> QED BY <2>1, <2>2, <2>3 DEF AllIsClosed, Startup!ExitLeavesNothing
<1>4. CASE Startup!HandOver \/ \E o \in Startup!Managers : Startup!Connected(o)
  BY <1>4 DEF Startup!HandOver, Startup!Connected, Startup!After, Startup!Managers, AllIsClosed,
    Startup!ExitLeavesNothing
<1>5. CASE Startup!StartHooks
  BY <1>5 DEF Startup!StartHooks, Startup!After, AllIsClosed, Startup!ExitLeavesNothing
<1>6. CASE Startup!Quit
  BY <1>6 DEF Startup!Quit, Startup!CloseSession, AllIsClosed, Startup!ExitLeavesNothing
<1>7. CASE \E o \in Startup!Managers : Startup!CloseNext(o)
  BY <1>7 DEF Startup!CloseNext, AllIsClosed, Startup!ExitLeavesNothing
<1>8. CASE Startup!Exit
  <2>1. /\ step = "waiting" /\ step \notin Building /\ step # "exited"
        /\ \A o \in Startup!Managers : tasks[o] = <<>>
    BY <1>8 DEF Startup!Exit, Building
  <2>2. closers = <<>> BY <2>1 DEF AllIsClosed
  <2>3. Dying = {} BY <1>1, <2>1 DEF Dying
  <2>4. Belongs(Startup!ElementsOf(closers)) = {} BY <1>1, <2>2 DEF Belongs
  <2>5. open = {} BY <2>1, <2>3, <2>4, SessionOwns, \A A : {} \cup {} = {}
  <2> QED BY <1>8, <2>2, <2>5 DEF Startup!Exit, AllIsClosed, Startup!ExitLeavesNothing
<1>9. CASE Startup!ExitAbandoned
  BY <1>9 DEF Startup!ExitAbandoned, AllIsClosed, Startup!ExitLeavesNothing
<1> QED BY <1>3, <1>4, <1>5, <1>6, <1>7, <1>8, <1>9 DEF Startup!Next

\* Nothing is open before the start.
LEMMA StartClosed == Startup!Init => AllIsClosed
BY DEF Startup!Init, AllIsClosed, Startup!ExitLeavesNothing

\* So every step keeps it.
LEMMA StartCloses ==
  ASSUME Startup!StartupAssumption, ~SavesFail, ~HooksFail
  PROVE  StartInv /\ AllIsClosed /\ [Startup!Next]_Startup!vars => AllIsClosed'
<1>1. CASE UNCHANGED Startup!vars BY <1>1 DEF Startup!vars, AllIsClosed, Startup!ExitLeavesNothing
<1> QED BY <1>1, AbandonedIsClosed

\* runtime: after an exit whose saves and hooks succeed nothing of the
\* program is left running or open.
THEOREM NothingOutlivesTheProgram ==
  Startup!StartupAssumption /\ ~SavesFail /\ ~HooksFail =>
    (Startup!Spec => []Startup!ExitLeavesNothing)
<1> SUFFICES ASSUME Startup!StartupAssumption, ~SavesFail, ~HooksFail
             PROVE  Startup!Spec => []Startup!ExitLeavesNothing
  OBVIOUS
<1>1. AllIsClosed => Startup!ExitLeavesNothing BY DEF AllIsClosed
<1> QED BY <1>1, StartClosed, StartCloses, StartInvariant, PTL DEF Startup!Spec
Models == {p.model : p \in Profiles}
Views == [conversation : Nat, mode : Commands!Modes, model : Models, attachments : Nat]
Kinds == {"CompactDone", "MCPDone", "Attached", "SubmitDone"}
Errors ==
  {Commands!NoText, "Compact failed", "MCP failed", "Attach failed", "Turn failed", "Hook failed"}
Notices == [kind : Kinds, err : Errors]

ScreenTypes ==
  /\ actual \in Views /\ shown \in Views
  /\ compacting \in BOOLEAN /\ managingMCP \in BOOLEAN /\ turn \in BOOLEAN
  /\ background \in {"none", "compact", "mcp", "attach"} /\ loop \in {"free", "reading"}
  /\ inbox = <<>> \/ \E m \in Notices : inbox = <<m>>
  /\ commands \in Nat

\* One piece of work at a time, and no more than its end in the inbox.
OneWork ==
  /\ ~(compacting /\ managingMCP) /\ (turn => ~Commands!Busy)
  /\ inbox # <<>> => background = "none"
  /\ background = "compact" => compacting
  /\ background = "mcp" => managingMCP
  /\ background = "attach" => ~turn /\ ~Commands!Busy
  /\ compacting => background = "compact" \/ (inbox # <<>> /\ Head(inbox).kind = "CompactDone")
  /\ managingMCP => background = "mcp" \/ (inbox # <<>> /\ Head(inbox).kind = "MCPDone")
  /\ inbox # <<>> /\ Head(inbox).kind = "CompactDone" => compacting
  /\ loop = "reading" => ~turn /\ background # "attach" /\ (inbox # <<>> => Commands!Busy)

\* While the conversation is compacted the screen is behind by that at most,
\* and only if it succeeds.
Behind ==
  /\ shown.mode = actual.mode /\ shown.model = actual.model
  /\ shown.conversation # actual.conversation =>
       inbox # <<>> /\ Head(inbox).kind = "CompactDone" /\ Head(inbox).err = Commands!NoText

ScreenInv == ScreenTypes /\ OneWork /\ Behind

\* The screen is idle at the start.
LEMMA ScreenInit == Commands!CommandsAssumption => (Commands!Init => ScreenInv)
<1> SUFFICES ASSUME Commands!CommandsAssumption, Commands!Init PROVE ScreenInv
  OBVIOUS
<1>1. PICK p \in Profiles :
        /\ shown = actual
        /\ actual = [conversation |-> 0, mode |-> p.mode, model |-> p.model, attachments |-> 0]
  BY DEF Commands!Init
<1>2. p.mode \in Commands!Modes /\ p.model \in Models BY DEF Commands!Modes, Models
<1>3. actual \in Views BY <1>1, <1>2 DEF Views
<1>4. /\ compacting = FALSE /\ managingMCP = FALSE /\ background = "none"
      /\ turn = FALSE /\ inbox = <<>> /\ loop = "free" /\ commands = 0
  BY DEF Commands!Init
<1>5. ScreenTypes BY <1>1, <1>3, <1>4 DEF ScreenTypes
<1>6. OneWork BY <1>4 DEF OneWork, Commands!Busy
<1>7. Behind BY <1>1 DEF Behind
<1> QED BY <1>5, <1>6, <1>7 DEF ScreenInv

\* A command that is taken finds the screen without work of its own.
LEMMA TakenIsIdle ==
  ASSUME ScreenInv, Commands!Taken
  PROVE  /\ inbox = <<>> /\ background = "none" /\ ~turn /\ ~compacting /\ ~managingMCP
         /\ shown.mode = actual.mode /\ shown.model = actual.model
         /\ shown.conversation = actual.conversation
         /\ loop' = "free" /\ commands' \in Nat
BY DEF ScreenInv, ScreenTypes, OneWork, Behind, Commands!Taken, Commands!Entered, Commands!Busy

\* A command that answers at once.
LEMMA AnswerKeeps ==
  ASSUME ScreenInv, Commands!Taken, UNCHANGED Commands!quiet, actual' \in Views, shown' \in Views,
         shown'.mode = actual'.mode, shown'.model = actual'.model,
         shown'.conversation = actual'.conversation
  PROVE  ScreenInv'
BY TakenIsIdle DEF ScreenInv, ScreenTypes, OneWork, Behind, Commands!quiet, Commands!feature,
  Commands!Busy

\* Every step of the screen keeps the invariant.
LEMMA ScreenStep ==
  Commands!CommandsAssumption => (ScreenInv /\ [Commands!Next]_Commands!vars => ScreenInv')
<1> SUFFICES ASSUME Commands!CommandsAssumption, ScreenInv, [Commands!Next]_Commands!vars
             PROVE  ScreenInv'
  OBVIOUS
<1>0. /\ actual \in Views /\ shown \in Views
      /\ shown.mode = actual.mode /\ shown.model = actual.model
  BY DEF ScreenInv, ScreenTypes, Behind
<1>1. CASE Commands!BeginRead
  BY <1>1 DEF Commands!BeginRead, ScreenInv, ScreenTypes, OneWork, Behind, Commands!Busy,
    Commands!feature
<1>2. CASE Commands!ReadNothing
  BY <1>2 DEF Commands!ReadNothing, ScreenInv, ScreenTypes, OneWork, Behind, Commands!Busy,
    Commands!feature
<1>3. CASE Commands!Refused
  <2>1. /\ UNCHANGED <<actual, shown, compacting, managingMCP, background, turn, inbox>>
        /\ loop' = "free" /\ commands' = commands + 1
    BY <1>3 DEF Commands!Refused, Commands!Entered, Commands!feature
  <2> QED BY <2>1 DEF ScreenInv, ScreenTypes, OneWork, Behind, Commands!Busy
<1>4. ASSUME NEW p \in Profiles, Commands!UseAgent(p) PROVE ScreenInv'
  <2>1. p.mode \in Commands!Modes /\ p.model \in Models BY DEF Commands!Modes, Models
  <2>2. /\ actual' = [actual EXCEPT !.conversation = @ + 1, !.mode = p.mode, !.model = p.model]
        /\ shown' = [[[shown EXCEPT !.conversation = actual'.conversation] EXCEPT !.mode = p.mode] EXCEPT !.model = p.model]
    BY <1>4 DEF Commands!UseAgent, Commands!StatusBar, Commands!Refreshed
  <2>3. actual' \in Views /\ actual'.mode = p.mode /\ actual'.model = p.model
    <3>1. [actual EXCEPT !.conversation = @ + 1] \in Views BY <1>0 DEF Views
    <3>2. actual' = [[[actual EXCEPT !.conversation = @ + 1] EXCEPT !.mode = p.mode] EXCEPT !.model = p.model]
      BY <1>0, <2>2
    <3> QED BY <2>1, <3>1, <3>2 DEF Views
  <2>4. /\ shown' \in Views /\ shown'.mode = p.mode /\ shown'.model = p.model
        /\ shown'.conversation = actual'.conversation
    BY <1>0, <2>1, <2>2, <2>3 DEF Views
  <2> QED BY <1>4, <2>3, <2>4, AnswerKeeps DEF Commands!UseAgent
<1>5. ASSUME NEW mode \in Commands!Modes, Commands!Permissions(mode) PROVE ScreenInv'
  <2>1. /\ actual' = [actual EXCEPT !.mode = mode] /\ shown' = [shown EXCEPT !.mode = mode]
    BY <1>5 DEF Commands!Permissions, Commands!StatusBar
  <2>2. shown.conversation = actual.conversation BY <1>5, TakenIsIdle DEF Commands!Permissions
  <2>3. /\ actual' \in Views /\ shown' \in Views /\ shown'.mode = actual'.mode
        /\ shown'.model = actual'.model /\ shown'.conversation = actual'.conversation
    BY <1>0, <2>1, <2>2 DEF Views
  <2> QED BY <1>5, <2>3, AnswerKeeps DEF Commands!Permissions
<1>6. ASSUME Commands!Taken, UNCHANGED Commands!quiet, shown' = Commands!Refreshed(actual'),
             actual' \in {actual, [actual EXCEPT !.conversation = @ + 1]}
      PROVE  ScreenInv'
  <2>1. shown' = [shown EXCEPT !.conversation = actual'.conversation] BY <1>6 DEF Commands!Refreshed
  <2>2. /\ actual' \in Views /\ actual'.mode = actual.mode /\ actual'.model = actual.model
    BY <1>0, <1>6 DEF Views
  <2>3. /\ shown' \in Views /\ shown'.mode = shown.mode
        /\ shown'.model = shown.model /\ shown'.conversation = actual'.conversation
    BY <1>0, <2>1, <2>2 DEF Views
  <2> QED BY <1>0, <1>6, <2>2, <2>3, AnswerKeeps
<1>7. CASE Commands!Clear BY <1>6, <1>7 DEF Commands!Clear, Commands!NoText
<1>8. ASSUME NEW name \in {"Resumed", "Restored"}, Commands!Replace(name) PROVE ScreenInv'
  BY <1>6, <1>8 DEF Commands!Replace
<1>9. CASE Commands!Fork BY <1>6, <1>9 DEF Commands!Fork
<1>10. ASSUME Commands!Taken, UNCHANGED <<actual, shown, Commands!quiet>>
       PROVE  ScreenInv'
  BY <1>0, <1>10, TakenIsIdle, AnswerKeeps
<1>11. CASE Commands!CommandFails BY <1>10, <1>11 DEF Commands!CommandFails
<1>12. CASE \/ Commands!ListAttachments \/ Commands!ListNames \/ Commands!ListSessions
            \/ Commands!Administer \/ Commands!Export \/ Commands!Memory \/ Commands!Inspect
            \/ Commands!Diagnose
  BY <1>10, <1>12
    DEF Commands!ListAttachments, Commands!ListNames, Commands!ListSessions, Commands!Administer,
      Commands!Export, Commands!Memory, Commands!Inspect, Commands!Diagnose, Commands!Answer
<1>13. CASE Commands!Compact
  BY <1>13, TakenIsIdle DEF Commands!Compact, ScreenInv, ScreenTypes, OneWork, Behind, Commands!Busy
<1>14. CASE Commands!ManageMCP
  BY <1>14, TakenIsIdle DEF Commands!ManageMCP, ScreenInv, ScreenTypes, OneWork, Behind,
    Commands!Busy
<1>15. CASE Commands!Attach
  BY <1>15, TakenIsIdle DEF Commands!Attach, ScreenInv, ScreenTypes, OneWork, Behind, Commands!Busy,
    Commands!feature
<1>16. CASE Commands!SubmitPrompt
  <2>2. /\ shown' \in Views /\ shown'.mode = shown.mode /\ shown'.model = shown.model
        /\ shown'.conversation = shown.conversation
    BY <1>0, <1>16 DEF Commands!SubmitPrompt, Views
  <2> QED BY <1>16, <2>2, TakenIsIdle DEF Commands!SubmitPrompt, ScreenInv, ScreenTypes, OneWork,
      Behind, Commands!Busy, Commands!feature
<1>17. CASE Commands!CompactRuns
  <2>1. /\ background = "compact" /\ background' = "none" /\ inbox = <<>> /\ compacting
        /\ UNCHANGED <<shown, Commands!feature, turn, loop, err, status, report, commands>>
        /\ shown.conversation = actual.conversation /\ ~turn
    BY <1>17 DEF Commands!CompactRuns, ScreenInv, OneWork, Behind, Commands!Busy
  <2>2. PICK e \in Errors :
          /\ inbox' = <<Commands!Done("CompactDone", e)>>
          /\ actual' \in {actual, [actual EXCEPT !.conversation = @ + 1]}
          /\ e # Commands!NoText => actual' = actual
    <3>1. \A m : Append(<<>>, m) = <<m>> OBVIOUS
    <3> QED BY <1>17, <2>1, <3>1 DEF Commands!CompactRuns, Commands!Put, Errors
  <2>3. /\ actual' \in Views /\ actual'.mode = actual.mode /\ actual'.model = actual.model
    BY <1>0, <2>2 DEF Views
  <2>4. /\ Commands!Done("CompactDone", e) \in Notices
        /\ Head(inbox') = Commands!Done("CompactDone", e) /\ inbox' # <<>>
    BY <2>2 DEF Commands!Done, Notices, Kinds
  <2>5. ScreenTypes' BY <2>1, <2>2, <2>3, <2>4 DEF ScreenInv, ScreenTypes, Commands!feature
  <2>6. OneWork'
    BY <2>1, <2>4 DEF ScreenInv, OneWork, Commands!Busy, Commands!feature, Commands!Done
  <2>7. Behind' BY <1>0, <2>1, <2>2, <2>3, <2>4 DEF Behind, Commands!Done
  <2> QED BY <2>5, <2>6, <2>7 DEF ScreenInv
<1>18. CASE Commands!ManageRuns
  <2>1. /\ background = "mcp" /\ background' = "none" /\ inbox = <<>> /\ managingMCP
        /\ UNCHANGED <<actual, shown, Commands!feature, turn, loop, err, status, report, commands>>
        /\ shown.conversation = actual.conversation /\ ~turn
    BY <1>18 DEF Commands!ManageRuns, ScreenInv, OneWork, Behind, Commands!Busy
  <2>2. PICK e \in Errors : inbox' = <<Commands!Done("MCPDone", e)>>
    <3>1. \A m : Append(<<>>, m) = <<m>> OBVIOUS
    <3> QED BY <1>18, <2>1, <3>1 DEF Commands!ManageRuns, Commands!Put, Errors
  <2>4. /\ Commands!Done("MCPDone", e) \in Notices /\ Head(inbox') = Commands!Done("MCPDone", e)
        /\ inbox' # <<>>
    BY <2>2 DEF Commands!Done, Notices, Kinds
  <2>5. ScreenTypes' BY <2>1, <2>2, <2>4 DEF ScreenInv, ScreenTypes, Commands!feature
  <2>6. OneWork'
    BY <2>1, <2>4 DEF ScreenInv, OneWork, Commands!Busy, Commands!feature, Commands!Done
  <2>7. Behind' BY <1>0, <2>1 DEF Behind
  <2> QED BY <2>5, <2>6, <2>7 DEF ScreenInv
<1>19. CASE Commands!AttachRuns
  <2>1. /\ background = "attach" /\ background' = "none" /\ inbox = <<>> /\ ~turn /\ ~Commands!Busy
        /\ loop = "free"
        /\ UNCHANGED <<shown, Commands!feature, turn, loop, err, status, report, commands>>
        /\ shown.conversation = actual.conversation
    BY <1>19 DEF Commands!AttachRuns, ScreenInv, ScreenTypes, OneWork, Behind
  <2>2. PICK e \in Errors : /\ inbox' = <<Commands!Done("Attached", e)>>
                            /\ actual' \in {actual, [actual EXCEPT !.attachments = @ + 1]}
    <3>1. \A m : Append(<<>>, m) = <<m>> OBVIOUS
    <3> QED BY <1>19, <2>1, <3>1 DEF Commands!AttachRuns, Commands!Put, Errors
  <2>3. /\ actual' \in Views /\ actual'.mode = actual.mode /\ actual'.model = actual.model
        /\ actual'.conversation = actual.conversation
    BY <1>0, <2>2 DEF Views
  <2>4. /\ Commands!Done("Attached", e) \in Notices /\ Head(inbox') = Commands!Done("Attached", e)
        /\ inbox' # <<>>
    BY <2>2 DEF Commands!Done, Notices, Kinds
  <2>5. ScreenTypes' BY <2>1, <2>2, <2>3, <2>4 DEF ScreenInv, ScreenTypes, Commands!feature
  <2>6. OneWork'
    BY <2>1, <2>4 DEF ScreenInv, OneWork, Commands!Busy, Commands!feature, Commands!Done
  <2>7. Behind' BY <1>0, <2>1, <2>3 DEF Behind
  <2> QED BY <2>5, <2>6, <2>7 DEF ScreenInv
<1>20. CASE Commands!TurnRuns \/ Commands!TurnNotStarted
  <2>1. /\ turn /\ inbox = <<>> /\ ~Commands!Busy
        /\ UNCHANGED <<shown, Commands!feature, background, turn, loop, err, status, report,
             commands>>
        /\ shown.conversation = actual.conversation /\ background = "none" /\ loop = "free"
    BY <1>20 DEF Commands!TurnRuns, Commands!TurnNotStarted, ScreenInv, ScreenTypes, OneWork,
      Behind, Commands!Busy
  <2>2. PICK e \in Errors : /\ inbox' = <<Commands!Done("SubmitDone", e)>>
                            /\ actual' \in {actual, [actual EXCEPT !.attachments = 0]}
    <3>1. \A m : Append(<<>>, m) = <<m>> OBVIOUS
    <3> QED BY <1>20, <2>1, <3>1 DEF Commands!TurnRuns, Commands!TurnNotStarted, Commands!Put,
        Errors
  <2>3. /\ actual' \in Views /\ actual'.mode = actual.mode /\ actual'.model = actual.model
        /\ actual'.conversation = actual.conversation
    BY <1>0, <2>2 DEF Views
  <2>4. /\ Commands!Done("SubmitDone", e) \in Notices
        /\ Head(inbox') = Commands!Done("SubmitDone", e) /\ inbox' # <<>>
    BY <2>2 DEF Commands!Done, Notices, Kinds
  <2>5. ScreenTypes' BY <2>1, <2>2, <2>3, <2>4 DEF ScreenInv, ScreenTypes, Commands!feature
  <2>6. OneWork'
    BY <2>1, <2>4 DEF ScreenInv, OneWork, Commands!Busy, Commands!feature, Commands!Done
  <2>7. Behind' BY <1>0, <2>1, <2>3 DEF Behind
  <2> QED BY <2>5, <2>6, <2>7 DEF ScreenInv
<1>21. CASE Commands!Dispatch
  <2> DEFINE m == Head(inbox)
  <2>1. /\ loop = "free" /\ inbox # <<>> /\ inbox' = Tail(inbox) /\ background = "none"
        /\ UNCHANGED <<actual, background, loop, commands>>
        /\ compacting' = (compacting /\ m.kind # "CompactDone")
        /\ managingMCP' = (managingMCP /\ m.kind # "MCPDone")
        /\ turn' = (turn /\ m.kind # "SubmitDone")
    BY <1>21 DEF Commands!Dispatch, Commands!Settled, ScreenInv, OneWork
  <2>2. m \in Notices /\ inbox' = <<>>
    <3>1. PICK n \in Notices : inbox = <<n>> BY <2>1 DEF ScreenInv, ScreenTypes
    <3>2. Head(<<n>>) = n /\ Tail(<<n>>) = <<>> OBVIOUS
    <3> QED BY <2>1, <3>1, <3>2
  <2>3. /\ ~compacting' /\ ~managingMCP' /\ compacting' \in BOOLEAN /\ managingMCP' \in BOOLEAN
        /\ turn' \in BOOLEAN
    BY <2>1 DEF ScreenInv, OneWork
  <2>5. shown' \in {shown, [shown EXCEPT !.attachments = @ + 1]} \cup {Commands!Refreshed(actual)}
        /\ (m.kind = "CompactDone" /\ m.err = Commands!NoText =>
             shown' = Commands!Refreshed(actual))
    BY <1>21 DEF Commands!Dispatch
  <2>6. /\ shown' \in Views /\ shown'.mode = actual.mode /\ shown'.model = actual.model
        /\ shown'.conversation \in {shown.conversation, actual.conversation}
    BY <1>0, <2>5 DEF Views, Commands!Refreshed
  <2>7. shown'.conversation = actual.conversation
    <3>1. CASE m.kind = "CompactDone" /\ m.err = Commands!NoText
      BY <1>0, <2>5, <3>1 DEF Commands!Refreshed, Views
    <3>2. CASE ~(m.kind = "CompactDone" /\ m.err = Commands!NoText)
      BY <2>6, <3>2 DEF ScreenInv, Behind
    <3> QED BY <3>1, <3>2
  <2>8. ScreenTypes' BY <2>1, <2>2, <2>3, <2>6 DEF ScreenInv, ScreenTypes
  <2>9. OneWork' BY <2>1, <2>2, <2>3 DEF OneWork, Commands!Busy
  <2>10. Behind' BY <2>1, <2>6, <2>7 DEF Behind
  <2> QED BY <2>8, <2>9, <2>10 DEF ScreenInv
<1>22. CASE UNCHANGED Commands!vars
  BY <1>22 DEF Commands!vars, Commands!feature, ScreenInv, ScreenTypes, OneWork, Behind,
    Commands!Busy
<1> QED
  BY <1>1, <1>2, <1>3, <1>4, <1>5, <1>7, <1>8, <1>9, <1>11, <1>12, <1>13, <1>14, <1>15, <1>16,
    <1>17, <1>18, <1>19,
     <1>20, <1>21, <1>22 DEF Commands!Next, Commands!Submission, Commands!Background

\* What the invariant says of the screen.
LEMMA ScreenPromise == ScreenInv => Commands!ShownIsActual /\ Commands!NoTurnDuringBackground
BY DEF ScreenInv, ScreenTypes, OneWork, Behind, Commands!ShownIsActual,
  Commands!NoTurnDuringBackground, Commands!Busy

\* tui/actions.py: the mode, the model and, but for a compaction under way, the
\* conversation on the screen are those of the session, and no turn runs beside
\* a command in the background, whatever commands are typed and whatever fails.
THEOREM ScreenAlwaysTrue ==
  Commands!CommandsAssumption =>
    (Commands!Spec => [](Commands!ShownIsActual /\ Commands!NoTurnDuringBackground))
<1> SUFFICES ASSUME Commands!CommandsAssumption
             PROVE  Commands!Spec => [](Commands!ShownIsActual /\ Commands!NoTurnDuringBackground)
  OBVIOUS
<1> QED BY ScreenInit, ScreenStep, ScreenPromise, PTL DEF Commands!Spec

-----------------------------------------------------------------------------
(* The settings file.                                                      *)

\* What a process is asked for.
Changes == [op : {"start", "add", "remove"}, name : Servers \cup {""}]

\* A process that has begun and not yet ended a change.
Busy(a) == at[a] \in {"reading", "saving", "writing"}

SettingsTypes ==
  /\ at \in [Apps -> {"dead", "idle", "reading", "saving", "writing"}]
  /\ wanted \in [Apps -> Changes]
  /\ \A a \in Apps : wanted[a].op # "start" => wanted[a].name \in Servers
  /\ held \in [Apps -> SettingsFile!Content]
  /\ known \in [Apps -> SUBSET Servers]
  /\ SettingsFile!FileIsWhole
  /\ edits \in Nat

\* A temporary file belongs to a process that writes it.
TempsAreMine ==
  \A t \in temps :
    /\ t = [app |-> t.app, content |-> t.content]
    /\ t.app \in Apps /\ at[t.app] = "writing"
    /\ t.content = SettingsFile!Partial \/ t.content = held[t.app]

\* Without interference one process at a time.
OneSaves == \A a, b \in Apps : Busy(a) /\ Busy(b) => a = b

\* What is saved is the template where nothing was, or the change on top of what
\* the file holds.
HeldIsChange ==
  \A a \in Apps : at[a] \in {"saving", "writing"} =>
    \/ file = SettingsFile!Absent /\ held[a] = SettingsFile!Template
    \/ file.kind = "whole" /\ wanted[a].op # "start" /\
         held[a] = SettingsFile!Applied(a, SettingsFile!Decoded(file))

SettingsInv == SettingsTypes /\ TempsAreMine /\ OneSaves /\ HeldIsChange

-----------------------------------------------------------------------------
(* What a change makes of a content.                                       *)

\* What a change makes of servers, and a content with other servers.
Put(c, s) == [kind |-> "whole", servers |-> s, rest |-> c.rest, unknown |-> c.unknown]
ChangedSet(a, s) ==
  IF wanted[a].op = "add" THEN s \cup {wanted[a].name} ELSE s \ {wanted[a].name}

\* The template is a content.
LEMMA TemplateIsContent ==
  SettingsFile!SettingsFileAssumption => SettingsFile!Template \in SettingsFile!Content
<1>1. SettingsFile!SettingsFileAssumption =>
        Default \in Values BY DEF SettingsFile!SettingsFileAssumption
<1> QED BY <1>1 DEF SettingsFile!Template, SettingsFile!Content

\* A file that can be read is a content.
LEMMA WholeIsContent ==
  ASSUME SettingsFile!FileIsWhole, file.kind = "whole"
  PROVE  file \in SettingsFile!Content
<1>1. SettingsFile!Absent.kind # "whole" /\
        SettingsFile!Unparsable.kind # "whole" BY DEF SettingsFile!Absent, SettingsFile!Unparsable,
        SettingsFile!Entry
<1> QED BY <1>1 DEF SettingsFile!FileIsWhole

\* And a content can be read.
LEMMA ContentIsWhole ==
  ASSUME NEW c \in SettingsFile!Content
  PROVE  /\ c = [kind |-> "whole", servers |-> c.servers, rest |-> c.rest, unknown |-> c.unknown]
         /\ c.kind = "whole" /\ c.servers \subseteq Servers
         /\ c # SettingsFile!Absent /\ c # SettingsFile!Unparsable
BY DEF SettingsFile!Content, SettingsFile!Absent, SettingsFile!Unparsable, SettingsFile!Entry

\* The same settings with other servers.
LEMMA OtherServers ==
  ASSUME NEW c \in SettingsFile!Content, NEW s
  PROVE  [c EXCEPT !.servers = s] = Put(c, s)
<1> DEFINE d == [kind |-> "whole", servers |-> c.servers, rest |-> c.rest, unknown |-> c.unknown]
<1>1. c = d BY DEF SettingsFile!Content
<1>2. [d EXCEPT !.servers = s] = Put(c, s) BY DEF Put
<1> HIDE DEF d
<1>3. [c EXCEPT !.servers = s] = [d EXCEPT !.servers = s] BY <1>1, Zenon
<1> QED BY <1>2, <1>3, Zenon

\* The same settings with or without the keys the program does not know.
LEMMA OtherUnknown ==
  ASSUME NEW c \in SettingsFile!Content, NEW u
  PROVE  [c EXCEPT !.unknown = u]
         = [kind |-> "whole", servers |-> c.servers, rest |-> c.rest, unknown |-> u]
<1> DEFINE d == [kind |-> "whole", servers |-> c.servers, rest |-> c.rest, unknown |-> c.unknown]
<1>1. c = d BY DEF SettingsFile!Content
<1>2. [d EXCEPT !.unknown = u]
      = [kind |-> "whole", servers |-> c.servers, rest |-> c.rest, unknown |-> u] OBVIOUS
<1> HIDE DEF d
<1>3. [c EXCEPT !.unknown = u] = [d EXCEPT !.unknown = u] BY <1>1, Zenon
<1> QED BY <1>2, <1>3, Zenon

\* Decoding keeps the servers and the rest.
LEMMA DecodedIs ==
  ASSUME NEW c \in SettingsFile!Content
  PROVE  /\ SettingsFile!Decoded(c) = [kind |-> "whole", servers |-> c.servers, rest |-> c.rest,
              unknown |-> FALSE]
         /\ SettingsFile!Decoded(c) \in SettingsFile!Content
         /\ SettingsFile!Decoded(c).servers = c.servers /\ SettingsFile!Decoded(c).rest = c.rest
<1>1. SettingsFile!Decoded(c) = [kind |-> "whole", servers |-> c.servers, rest |-> c.rest,
        unknown |-> FALSE]
  BY OtherUnknown, Zenon DEF SettingsFile!Decoded
<1>2. c.servers \subseteq Servers /\ c.rest \in Values BY DEF SettingsFile!Content
<1>3. [kind |-> "whole", servers |-> c.servers, rest |-> c.rest,
        unknown |-> FALSE] \in SettingsFile!Content
  BY <1>2 DEF SettingsFile!Content
<1> QED BY <1>1, <1>3

\* A change only touches the servers.
LEMMA AppliedIsPut ==
  ASSUME NEW a, wanted[a].op \in {"add", "remove"}, NEW c \in SettingsFile!Content
  PROVE  SettingsFile!Applied(a, c) = Put(c, ChangedSet(a, c.servers))
<1>1. CASE wanted[a].op = "add"
  <2>1. wanted[a].op # "remove" BY <1>1
  <2>2. SettingsFile!Applied(a, c) = [c EXCEPT !.servers = c.servers \cup {wanted[a].name}]
    BY <1>1, <2>1 DEF SettingsFile!Applied
  <2> QED BY <1>1, <2>2, OtherServers DEF ChangedSet
<1>2. CASE wanted[a].op = "remove"
  <2>1. wanted[a].op # "add" BY <1>2
  <2>2. SettingsFile!Applied(a, c) = [c EXCEPT !.servers = c.servers \ {wanted[a].name}]
    BY <1>2, <2>1 DEF SettingsFile!Applied
  <2> QED BY <1>2, <2>1, <2>2, OtherServers DEF ChangedSet
<1> QED BY <1>1, <1>2

\* A change is one server's, and doing it twice is doing it once.
LEMMA AppliedIs ==
  ASSUME SettingsTypes, NEW a \in Apps, wanted[a].op # "start", NEW c \in SettingsFile!Content
  PROVE  /\ SettingsFile!Applied(a, c) \in SettingsFile!Content
         /\ SettingsFile!Applied(a, SettingsFile!Applied(a, c)) = SettingsFile!Applied(a, c)
         /\ SettingsFile!Applied(a, c).rest = c.rest
         /\ SettingsFile!Applied(a, c).servers \ {wanted[a].name} = c.servers \ {wanted[a].name}
<1>1. wanted[a].op \in {"add", "remove"} /\ wanted[a].name \in Servers
  BY DEF SettingsTypes, Changes
<1>2. c.servers \subseteq Servers /\ c.rest \in Values /\ c.unknown \in BOOLEAN
  BY DEF SettingsFile!Content
<1> DEFINE s == ChangedSet(a, c.servers)
<1>3. /\ s \subseteq Servers /\ ChangedSet(a, s) = s
      /\ s \ {wanted[a].name} = c.servers \ {wanted[a].name}
  BY <1>1, <1>2 DEF ChangedSet
<1> HIDE DEF s
<1>4. Put(c, s) \in SettingsFile!Content /\ Put(c, s).servers = s /\ Put(c, s).rest = c.rest
      /\ Put(Put(c, s), s) = Put(c, s)
  BY <1>2, <1>3 DEF Put, SettingsFile!Content
<1>5. SettingsFile!Applied(a, c) = Put(c, s) BY <1>1, AppliedIsPut DEF s
<1>6. SettingsFile!Applied(a, Put(c, s)) = Put(Put(c, s), ChangedSet(a, s)) BY <1>1, <1>4,
        AppliedIsPut
<1> QED BY <1>3, <1>4, <1>5, <1>6

\* Nothing is there and nobody is at work.
LEMMA SettingsInit == SettingsFile!SettingsFileAssumption => (SettingsFile!Init => SettingsInv)
<1> SUFFICES ASSUME SettingsFile!SettingsFileAssumption, SettingsFile!Init PROVE SettingsInv OBVIOUS
<1>1. SettingsTypes
  BY TemplateIsContent DEF SettingsFile!Init, SettingsTypes, Changes, SettingsFile!Start,
    SettingsFile!FileIsWhole
<1>2. TempsAreMine /\ OneSaves /\ HeldIsChange
  BY DEF SettingsFile!Init, TempsAreMine, OneSaves, HeldIsChange, Busy
<1> QED BY <1>1, <1>2 DEF SettingsInv

\* A process becomes busy only while none is.
LEMMA BeginKeepsSettings ==
  ASSUME SettingsInv, ~Together, NEW a \in Apps, NEW c \in Changes,
         c.op # "start" => c.name \in Servers,
         SettingsFile!Begin(a, c)
  PROVE  SettingsInv'
<1> USE DEF SettingsInv
<1>1. /\ SettingsFile!Quiet /\ wanted' = [wanted EXCEPT ![a] = c]
      /\ at' = [at EXCEPT ![a] = "reading"]
      /\ file' = file /\ temps' = temps /\ held' = held /\ known' = known /\ edits' = edits
  BY DEF SettingsFile!Begin
<1>2. \A b \in Apps : ~Busy(b) BY <1>1 DEF SettingsFile!Quiet, Busy, SettingsTypes
<1>3. SettingsTypes' BY <1>1 DEF SettingsTypes, SettingsFile!FileIsWhole
<1>4. TempsAreMine' BY <1>1, <1>2 DEF TempsAreMine, SettingsTypes, Busy
<1>5. OneSaves' /\ HeldIsChange'
  BY <1>1, <1>2 DEF SettingsTypes, OneSaves, HeldIsChange, Busy
<1> QED BY <1>3, <1>4, <1>5

\* A process moves on: it goes on to save, or ends.
Moved(a, to, what, s) ==
  /\ at' = [at EXCEPT ![a] = to] /\ held' = [held EXCEPT ![a] = what]
  /\ known' = [known EXCEPT ![a] = s]
  /\ file' = file /\ wanted' = wanted /\ edits' = edits

\* What it saves is a change of what is there.
Sound(a, to, what) ==
  to \in {"saving", "writing"} =>
    \/ file = SettingsFile!Absent /\ what = SettingsFile!Template
    \/ file.kind = "whole" /\ wanted[a].op # "start" /\
         what = SettingsFile!Applied(a, SettingsFile!Decoded(file))

\* A temporary file of its own is only there while it writes.
OwnTemps(a, to, what) ==
  \A t \in temps' :
    \/ t \in temps /\ t.app # a
    \/ /\ t = [app |-> a, content |-> t.content] /\ to = "writing"
       /\ t.content = SettingsFile!Partial \/ t.content = what

\* A process that goes on to save, or ends, and leaves the file as it is.
LEMMA MoveKeepsSettings ==
  ASSUME SettingsInv, NEW a \in Apps, Busy(a),
         NEW to \in {"dead", "idle", "saving", "writing"}, NEW what \in SettingsFile!Content,
               NEW s \in SUBSET Servers,
         Moved(a, to, what, s), Sound(a, to, what), OwnTemps(a, to, what)
  PROVE  SettingsInv'
<1> USE DEF SettingsInv, Moved
<1>1. SettingsTypes' BY DEF SettingsTypes, SettingsFile!FileIsWhole
<1>2. TempsAreMine'
  BY DEF TempsAreMine, SettingsTypes, OwnTemps
<1>3. OneSaves' BY DEF OneSaves, SettingsTypes, Busy
<1>4. HeldIsChange'
  <2> SUFFICES ASSUME NEW b \in Apps, at'[b] \in {"saving", "writing"}
               PROVE  \/ file = SettingsFile!Absent /\ held'[b] = SettingsFile!Template
                      \/ /\ file.kind = "whole" /\ wanted[b].op # "start"
                         /\ held'[b] = SettingsFile!Applied(b, SettingsFile!Decoded(file))
    BY DEF HeldIsChange, SettingsFile!Applied
  <2>1. CASE b = a BY <2>1 DEF SettingsTypes, Sound
  <2>2. CASE b # a BY <2>2 DEF HeldIsChange, SettingsTypes
  <2> QED BY <2>1, <2>2
<1> QED BY <1>1, <1>2, <1>3, <1>4

\* A start ends with what is read, a change goes on with it.
LEMMA ReadSettingsKeeps ==
  ASSUME SettingsInv, NEW a \in Apps, SettingsFile!ReadSettings(a)
  PROVE  SettingsInv'
<1> USE DEF SettingsInv
<1>1. /\ at[a] = "reading" /\ file.kind = "whole" /\ temps' = temps
      /\ file' = file /\ wanted' = wanted /\ edits' = edits
  BY DEF SettingsFile!ReadSettings, SettingsFile!Readable
<1>2. Busy(a) /\ file \in SettingsFile!Content BY <1>1, WholeIsContent DEF Busy, SettingsTypes
<1>3. \A t \in temps' : t \in temps /\ t.app # a BY <1>1 DEF TempsAreMine
<1>4. CASE wanted[a].op = "start"
  <2>1. /\ at' = [at EXCEPT ![a] = "idle"] /\ known' = [known EXCEPT ![a] = file.servers]
        /\ held' = [held EXCEPT ![a] = held[a]]
    BY <1>4 DEF SettingsFile!ReadSettings, SettingsFile!Finish, SettingsTypes
  <2>2. file.servers \in SUBSET Servers BY <1>2, ContentIsWhole
  <2>3. held[a] \in SettingsFile!Content BY DEF SettingsTypes
  <2>4. Moved(a, "idle", held[a], file.servers) BY <1>1, <2>1 DEF Moved
  <2>5. Sound(a, "idle", held[a]) /\ OwnTemps(a, "idle", held[a]) BY <1>3 DEF Sound, OwnTemps
  <2> QED BY <1>2, <2>2, <2>3, <2>4, <2>5, MoveKeepsSettings
<1>5. CASE wanted[a].op # "start"
  <2>1. /\ at' = [at EXCEPT ![a] = "saving"] /\ known' = [known EXCEPT ![a] = known[a]]
        /\ held' = [held EXCEPT ![a] = SettingsFile!Applied(a, SettingsFile!Decoded(file))]
    BY <1>5 DEF SettingsFile!ReadSettings, SettingsFile!Hold, SettingsTypes
  <2>2. SettingsFile!Applied(a, SettingsFile!Decoded(file)) \in SettingsFile!Content BY <1>2, <1>5,
          DecodedIs, AppliedIs
  <2>3. known[a] \in SUBSET Servers BY DEF SettingsTypes
  <2> DEFINE new == SettingsFile!Applied(a, SettingsFile!Decoded(file))
  <2>4. Moved(a, "saving", new, known[a]) BY <1>1, <2>1 DEF Moved
  <2>5. Sound(a, "saving", new) /\ OwnTemps(a, "saving", new)
    BY <1>1, <1>3, <1>5 DEF Sound, OwnTemps
  <2>6. new \in SettingsFile!Content BY <2>2
  <2> HIDE DEF new
  <2> QED BY <1>2, <2>3, <2>4, <2>5, <2>6, MoveKeepsSettings
<1> QED BY <1>4, <1>5

\* A missing file is made.
LEMMA MakeTemplateKeeps ==
  ASSUME SettingsInv, SettingsFile!SettingsFileAssumption, NEW a \in Apps,
         SettingsFile!MakeTemplate(a)
  PROVE  SettingsInv'
<1> USE DEF SettingsInv
<1>1. /\ at[a] = "reading" /\ file = SettingsFile!Absent /\ temps' = temps
      /\ file' = file /\ wanted' = wanted /\ edits' = edits
      /\ at' = [at EXCEPT ![a] = "saving"] /\ held' = [held EXCEPT ![a] = SettingsFile!Template]
      /\ known' = [known EXCEPT ![a] = known[a]]
  BY DEF SettingsFile!MakeTemplate, SettingsFile!Missing, SettingsFile!Hold, SettingsTypes
<1>2. Busy(a) /\ SettingsFile!Template \in SettingsFile!Content /\ known[a] \in SUBSET Servers
  BY <1>1, TemplateIsContent DEF Busy, SettingsTypes
<1>3. Moved(a, "saving", SettingsFile!Template, known[a]) BY <1>1 DEF Moved
<1>4. Sound(a, "saving", SettingsFile!Template) /\ OwnTemps(a, "saving", SettingsFile!Template)
  BY <1>1 DEF TempsAreMine, Sound, OwnTemps
<1> QED BY <1>2, <1>3, <1>4, MoveKeepsSettings

\* A process that gives up, or ends, with no temporary file of its own left.
LEMMA StopKeepsSettings ==
  ASSUME SettingsInv, NEW a \in Apps, Busy(a), NEW to \in {"dead", "idle"},
         at' = [at EXCEPT ![a] = to], UNCHANGED <<file, wanted, held, known, edits>>,
         \A t \in temps' : t \in temps /\ t.app # a
  PROVE  SettingsInv'
<1>1. /\ held' = [held EXCEPT ![a] = held[a]] /\ known' = [known EXCEPT ![a] = known[a]]
      /\ held[a] \in SettingsFile!Content /\ known[a] \in SUBSET Servers
  BY DEF SettingsInv, SettingsTypes
<1>2. Moved(a, to, held[a], known[a]) BY <1>1 DEF Moved
<1>3. Sound(a, to, held[a]) /\ OwnTemps(a, to, held[a]) BY DEF Sound, OwnTemps
<1>4. to \in {"dead", "idle", "saving", "writing"} OBVIOUS
<1> QED BY <1>1, <1>2, <1>3, <1>4, MoveKeepsSettings

\* The temporary files of a process are all it has made.
LEMMA MineAreAll ==
  ASSUME TempsAreMine, NEW a \in Apps
  PROVE  SettingsFile!Mine(a) = {t \in temps : t.app = a}
BY DEF SettingsFile!Mine, TempsAreMine

\* A failed read or save leaves the file as it was.
LEMMA EndKeepsSettings ==
  ASSUME SettingsInv, NEW a \in Apps, SettingsFile!ReadFails(a) \/ SettingsFile!SaveFails(a)
  PROVE  SettingsInv'
<1> USE DEF SettingsInv
<1>1. /\ Busy(a) /\ UNCHANGED <<file, wanted, held, known, edits>>
      /\ at' = [at EXCEPT ![a] = IF wanted[a].op = "start" THEN "dead" ELSE "idle"]
  BY DEF SettingsFile!ReadFails, SettingsFile!SaveFails, SettingsFile!GiveUp, Busy
<1>2. \A t \in temps' : t \in temps /\ t.app # a
  <2>1. CASE SettingsFile!ReadFails(a) BY <2>1 DEF SettingsFile!ReadFails, TempsAreMine
  <2>2. CASE SettingsFile!SaveFails(a) BY <2>2, MineAreAll DEF SettingsFile!SaveFails
  <2> QED BY <2>1, <2>2
<1>3. (IF wanted[a].op = "start" THEN "dead" ELSE "idle") \in {"dead", "idle"} OBVIOUS
<1> QED BY <1>1, <1>2, <1>3, StopKeepsSettings

\* An idle process may also end: nothing was its own.
LEMMA CrashKeepsSettings ==
  ASSUME SettingsInv, NEW a \in Apps, SettingsFile!Crash(a)
  PROVE  SettingsInv'
<1> USE DEF SettingsInv
<1>1. /\ at' = [at EXCEPT ![a] = "dead"] /\ temps' = {t \in temps : t.app # a}
      /\ file' = file /\ wanted' = wanted /\ held' = held /\ known' = known /\ edits' = edits
  BY DEF SettingsFile!Crash
<1>2. SettingsTypes' BY <1>1 DEF SettingsTypes, SettingsFile!FileIsWhole
<1>3. TempsAreMine' BY <1>1 DEF TempsAreMine, SettingsTypes
<1>4. OneSaves' BY <1>1 DEF OneSaves, SettingsTypes, Busy
<1>5. HeldIsChange'
  <2> SUFFICES ASSUME NEW b \in Apps, at'[b] \in {"saving", "writing"}
               PROVE  \/ file = SettingsFile!Absent /\ held[b] = SettingsFile!Template
                      \/ /\ file.kind = "whole" /\ wanted[b].op # "start"
                         /\ held[b] = SettingsFile!Applied(b, SettingsFile!Decoded(file))
    BY <1>1 DEF HeldIsChange, SettingsFile!Applied
  <2>1. b # a /\ at[b] \in {"saving", "writing"} BY <1>1 DEF SettingsTypes
  <2> QED BY <2>1 DEF HeldIsChange
<1> QED BY <1>2, <1>3, <1>4, <1>5

\* What is written is what is held.
LEMMA WriteKeepsSettings ==
  ASSUME SettingsInv, NEW a \in Apps, SettingsFile!OpenTemp(a) \/ SettingsFile!SyncTemp(a)
  PROVE  SettingsInv'
<1> USE DEF SettingsInv
<1> DEFINE new == IF at[a] = "saving" THEN [app |-> a, content |-> SettingsFile!Partial]
                                      ELSE [app |-> a, content |-> held[a]]
<1>1. /\ at[a] \in {"saving", "writing"} /\ UNCHANGED <<file, wanted, held, known, edits>>
      /\ at' = [at EXCEPT ![a] = "writing"] /\ temps' \subseteq {t \in temps : t.app # a} \cup {new}
  <2>1. CASE SettingsFile!OpenTemp(a) BY <2>1 DEF SettingsFile!OpenTemp, TempsAreMine
  <2>2. CASE SettingsFile!SyncTemp(a) BY <2>2, MineAreAll DEF SettingsFile!SyncTemp,
               SettingsFile!process, SettingsTypes
  <2> QED BY <2>1, <2>2
<1>2. /\ held' = [held EXCEPT ![a] = held[a]] /\ known' = [known EXCEPT ![a] = known[a]]
      /\ held[a] \in SettingsFile!Content /\ known[a] \in SUBSET Servers /\ Busy(a)
  BY <1>1 DEF SettingsTypes, Busy
<1>3. \/ file = SettingsFile!Absent /\ held[a] = SettingsFile!Template
      \/ file.kind = "whole" /\ wanted[a].op # "start" /\
           held[a] = SettingsFile!Applied(a, SettingsFile!Decoded(file))
  BY <1>1 DEF HeldIsChange
<1>4. \A t \in temps' : \/ t \in temps /\ t.app # a
                        \/ /\ t = [app |-> a, content |-> t.content]
                           /\ t.content = SettingsFile!Partial \/ t.content = held[a]
  BY <1>1
<1>5. Moved(a, "writing", held[a], known[a]) BY <1>1, <1>2 DEF Moved
<1>6. Sound(a, "writing", held[a]) /\ OwnTemps(a, "writing", held[a])
  BY <1>3, <1>4 DEF Sound, OwnTemps
<1> QED BY <1>2, <1>5, <1>6, MoveKeepsSettings

\* What a replacement leaves: the one process that saves is this one.
LEMMA RenameKeeps ==
  ASSUME SettingsInv, SettingsFile!SettingsFileAssumption, NEW a \in Apps, SettingsFile!Rename(a)
  PROVE  SettingsInv'
<1> USE DEF SettingsInv
<1>1. /\ at[a] = "writing" /\ file' = held[a] /\ wanted' = wanted /\ edits' = edits
      /\ temps' = {t \in temps : t.app # a}
  BY MineAreAll DEF SettingsFile!Rename
<1>2. held[a] \in SettingsFile!Content /\ known[a] \in SUBSET Servers /\ wanted[a] \in Changes
  BY DEF SettingsTypes
<1>3. \A b \in Apps : b # a => ~Busy(b) BY <1>1 DEF OneSaves, Busy
<1>4. temps' = {} BY <1>1, <1>3 DEF TempsAreMine, Busy
<1>5. CASE wanted[a].op # "start" /\ held[a] # SettingsFile!Applied(a, held[a])
  <2>1. /\ at' = [at EXCEPT ![a] = "saving"] /\ known' = known
        /\ held' = [held EXCEPT ![a] = SettingsFile!Applied(a, held[a])]
    BY <1>5 DEF SettingsFile!Rename, SettingsFile!Hold
  <2>2. SettingsFile!Applied(a, held[a]) \in SettingsFile!Content BY <1>2, <1>5, AppliedIs
  <2>3. held[a] = SettingsFile!Template
    <3>1. CASE file.kind = "whole"
      <4>1. file \in SettingsFile!Content BY <3>1, WholeIsContent DEF SettingsTypes
      <4>2. file # SettingsFile!Absent BY <4>1, ContentIsWhole
      <4>3. held[a] = SettingsFile!Applied(a, SettingsFile!Decoded(file)) BY <1>1,
              <4>2 DEF HeldIsChange
      <4> QED BY <4>1, <4>3, <1>5, DecodedIs, AppliedIs
    <3>2. CASE file.kind # "whole" BY <1>1, <3>2 DEF HeldIsChange
    <3> QED BY <3>1, <3>2
  <2>4. SettingsFile!Decoded(held[a]) = held[a] /\ held[a].kind = "whole"
    BY <2>3, <1>2, DecodedIs, ContentIsWhole DEF SettingsFile!Template
  <2>5. SettingsTypes' BY <1>1, <1>2, <2>1, <2>2 DEF SettingsTypes, SettingsFile!FileIsWhole
  <2>6. TempsAreMine' /\ OneSaves'
    BY <1>3, <1>4, <2>1 DEF TempsAreMine, OneSaves, Busy, SettingsTypes
  <2>7. HeldIsChange'
    <3> SUFFICES ASSUME NEW b \in Apps, at'[b] \in {"saving", "writing"}
                 PROVE  /\ file'.kind = "whole" /\ wanted'[b].op # "start"
                        /\ held'[b] = SettingsFile!Applied(b, SettingsFile!Decoded(file'))
      BY <1>1 DEF HeldIsChange, SettingsFile!Applied
    <3>1. b = a BY <1>3, <2>1 DEF SettingsTypes, Busy
    <3> QED BY <3>1, <1>1, <1>5, <2>1, <2>4 DEF SettingsTypes
  <2> QED BY <2>5, <2>6, <2>7
<1>6. CASE ~(wanted[a].op # "start" /\ held[a] # SettingsFile!Applied(a, held[a]))
  <2> DEFINE s == CASE wanted[a].op = "start"  -> held[a].servers
                    [] wanted[a].op = "add"    -> known[a] \cup {wanted[a].name}
                    [] wanted[a].op = "remove" -> known[a] \ {wanted[a].name}
  <2>1. /\ at' = [at EXCEPT ![a] = "idle"] /\ held' = held /\ known' = [known EXCEPT ![a] = s]
    BY <1>6 DEF SettingsFile!Rename, SettingsFile!Finish
  <2>2. s \in SUBSET Servers
    BY <1>2, ContentIsWhole DEF Changes, SettingsTypes
  <2>3. SettingsTypes' BY <1>1, <1>2, <2>1, <2>2 DEF SettingsTypes, SettingsFile!FileIsWhole
  <2>4. TempsAreMine' /\ OneSaves' /\ HeldIsChange'
    BY <1>3, <1>4, <2>1 DEF TempsAreMine, OneSaves, HeldIsChange, Busy, SettingsTypes
  <2> QED BY <2>3, <2>4
<1> QED BY <1>5, <1>6

\* The editor replaces the file while nobody is at work.
LEMMA EditKeepsSettings ==
  ASSUME SettingsInv, ~Together, NEW c \in SettingsFile!Edited, SettingsFile!Edit(c)
  PROVE  SettingsInv'
<1> USE DEF SettingsInv
<1>1. /\ SettingsFile!Quiet /\ file' = c /\ edits' = edits + 1 /\ temps' = temps /\ at' = at
      /\ wanted' = wanted /\ held' = held /\ known' = known
  BY DEF SettingsFile!Edit, SettingsFile!process
<1>2. \A b \in Apps : ~Busy(b) BY <1>1 DEF SettingsFile!Quiet, Busy
<1>3. SettingsTypes' BY <1>1 DEF SettingsTypes, SettingsFile!FileIsWhole, SettingsFile!Edited
<1>4. TempsAreMine' /\ OneSaves' BY <1>1 DEF TempsAreMine, OneSaves, Busy
<1>5. HeldIsChange' BY <1>1, <1>2 DEF HeldIsChange, Busy
<1> QED BY <1>3, <1>4, <1>5

\* What every step leaves and keeps.
SettingsStepInv ==
  /\ SettingsFile!FileIsWhole' /\ SettingsFile!NoTempIsLeft' /\ SettingsFile!BrokenFileIsKeptStep
  /\ SettingsFile!OtherSettingsAreKeptStep

\* Every step keeps the invariant.
LEMMA SettingsStep ==
  ASSUME SettingsInv, SettingsFile!SettingsFileAssumption, ~Together,
         [SettingsFile!Next]_SettingsFile!vars
  PROVE  SettingsInv'
<1>1. ASSUME NEW a \in Apps, SettingsFile!AppNext(a) PROVE SettingsInv'
  <2>1. CASE SettingsFile!Launch(a)
    BY <2>1, BeginKeepsSettings DEF SettingsFile!Launch, SettingsFile!Start, Changes
  <2>2. ASSUME NEW name \in Servers,
                   SettingsFile!AddServer(a, name) \/ SettingsFile!RemoveServer(a, name)
        PROVE  SettingsInv'
    <3>1. \A op \in {"add", "remove"} : SettingsFile!Change(op, name) \in Changes /\
            SettingsFile!Change(op, name).name \in Servers
      BY DEF SettingsFile!Change, Changes
    <3> QED BY <2>2, <3>1, BeginKeepsSettings DEF SettingsFile!AddServer, SettingsFile!RemoveServer
  <2> QED
    BY <1>1, <2>1, <2>2, ReadSettingsKeeps, MakeTemplateKeeps, EndKeepsSettings, CrashKeepsSettings,
       WriteKeepsSettings, RenameKeeps DEF SettingsFile!AppNext
<1>2. CASE UNCHANGED SettingsFile!vars
  BY <1>2 DEF SettingsFile!vars, SettingsFile!process, SettingsInv, SettingsTypes,
    SettingsFile!FileIsWhole, TempsAreMine, OneSaves, HeldIsChange,
              Busy, SettingsFile!Applied
<1> QED BY <1>1, <1>2, EditKeepsSettings DEF SettingsFile!Next

\* The file changes by an edit or by the replacement of the process that saves.
LEMMA WhoWrites ==
  ASSUME [SettingsFile!Next]_SettingsFile!vars, file' # file
  PROVE  \/ edits \in Nat => edits' # edits
         \/ \E a \in Apps : SettingsFile!Rename(a)
BY DEF SettingsFile!Next, SettingsFile!AppNext, SettingsFile!Launch, SettingsFile!AddServer,
  SettingsFile!RemoveServer, SettingsFile!Begin, SettingsFile!ReadSettings,
  SettingsFile!MakeTemplate, SettingsFile!ReadFails,
       SettingsFile!OpenTemp, SettingsFile!SyncTemp, SettingsFile!SaveFails, SettingsFile!Crash,
         SettingsFile!Edit, SettingsFile!vars

\* And every step from the invariant to itself does what is promised.
LEMMA SettingsStepHolds ==
  ASSUME SettingsInv, SettingsInv', [SettingsFile!Next]_SettingsFile!vars
  PROVE  SettingsStepInv
<1>1. SettingsFile!FileIsWhole' /\ SettingsFile!NoTempIsLeft'
  BY DEF SettingsInv, SettingsTypes, TempsAreMine, SettingsFile!NoTempIsLeft
<1>2. edits \in Nat BY DEF SettingsInv, SettingsTypes
<1>3. ASSUME NEW a \in Apps, SettingsFile!Rename(a), file = SettingsFile!Unparsable PROVE FALSE
  <2>1. at[a] = "writing" BY <1>3 DEF SettingsFile!Rename
  <2>2. file # SettingsFile!Absent /\ file.kind # "whole" BY <1>3 DEF SettingsFile!Unparsable,
          SettingsFile!Absent, SettingsFile!Entry
  <2> QED BY <2>1, <2>2 DEF SettingsInv, HeldIsChange
<1>4. SettingsFile!BrokenFileIsKeptStep BY <1>2, <1>3,
        WhoWrites DEF SettingsFile!BrokenFileIsKeptStep
<1>5. ASSUME NEW b \in Apps, SettingsFile!Saved(b), SettingsFile!Readable
      PROVE  /\ file'.rest = file.rest /\ wanted[b].op # "start"
             /\ file'.servers \ {wanted[b].name} = file.servers \ {wanted[b].name}
  <2>1. PICK a \in Apps : SettingsFile!Rename(a) BY <1>2, <1>5, WhoWrites DEF SettingsFile!Saved
  <2>2. a = b /\ at[b] = "writing" /\ file' = held[b]
    BY <1>5, <2>1 DEF SettingsFile!Rename, SettingsFile!Saved, SettingsInv, OneSaves, Busy
  <2>3. file \in SettingsFile!Content /\ file # SettingsFile!Absent
    BY <1>5, WholeIsContent, ContentIsWhole DEF SettingsInv, SettingsTypes, SettingsFile!Readable
  <2>4. wanted[b].op # "start" /\ held[b] = SettingsFile!Applied(b, SettingsFile!Decoded(file))
    BY <2>2, <2>3 DEF SettingsInv, HeldIsChange
  <2> QED BY <2>2, <2>3, <2>4, DecodedIs, AppliedIs DEF SettingsInv
<1> QED BY <1>1, <1>4, <1>5 DEF SettingsStepInv, SettingsFile!OtherSettingsAreKeptStep

\* app/config.py, app/mcp.py: the file is whole whatever crashes or fails, no
\* temporary file is left, a file that cannot be parsed is never replaced, and a
\* change is one server's, however many processes, servers and edits there are.
THEOREM SettingsFileSurvives ==
  ASSUME SettingsFile!SettingsFileAssumption, ~Together
  PROVE  SettingsFile!Spec => [][SettingsStepInv]_SettingsFile!vars
<1>1. SettingsFile!Init => SettingsInv BY SettingsInit
<1>2. SettingsInv /\ [SettingsFile!Next]_SettingsFile!vars => SettingsInv' BY SettingsStep
<1>3. SettingsInv /\ SettingsInv' /\ [SettingsFile!Next]_SettingsFile!vars =>
        SettingsStepInv BY SettingsStepHolds
<1> QED BY <1>1, <1>2, <1>3, PTL DEF SettingsFile!Spec

-----------------------------------------------------------------------------
(* The terminal.                                                           *)

\* What a turn may say, and the messages of the inbox.
Notes ==
  {Terminal!Status(TRUE), Terminal!Status(FALSE), Terminal!Cleared,
    Terminal!Error} \cup {Terminal!Requested(c) : c \in Nat}
Messages ==
  {Terminal!Key(t) : t \in Nat} \cup {Terminal!QuitMsg, Terminal!SubmitDone}
  \cup {Terminal!Notification(x[1], x[2]) : x \in Notes \X Nat}

\* What the variables hold.
TerminalTypes ==
  /\ readMode \in {"loop", "approval", "yielded", "prompt", "stopped"}
  /\ messages \in Seq(Messages) /\ turnNumber \in Nat
  /\ cancellation \in {"none", "running", "cancelled"}
  /\ menu = [call |-> menu.call, submitted |-> menu.submitted]
  /\ menu.call \in Nat /\ menu.submitted \in BOOLEAN
  /\ listening \in BOOLEAN
  /\ channel = [items |-> channel.items, closed |-> channel.closed]
  /\ channel.items \in Seq(Notes) /\ channel.closed \in BOOLEAN
  /\ approvals \in Seq(Nat)
  /\ turnStage \in {"none", "starting", "running", "waiting", "draining", "closed", "over"}
  /\ heldCall \in Nat /\ produced \in Seq(Notes) /\ calls \in Nat

\* The kinds that matter.
Note(m) == m.kind = "notification"
Done(m) == m.kind = "SubmitDone"
Asks(n) == n.kind = "ToolApprovalRequested"

\* Of a queue of notifications: nothing is asked; at most the call c, once; the
\* last one closes the menu.
NoAsk(s) == \A i \in DOMAIN s : ~Asks(s[i])
OneAsk(s, c) ==
  /\ \A i \in DOMAIN s : Asks(s[i]) => s[i].call = c
  /\ \A i, j \in DOMAIN s : Asks(s[i]) /\ Asks(s[j]) => i = j
EndsClosing(s) == s[Len(s)] = Terminal!Cleared

\* Of the inbox: which notifications it has, and whether the end of a turn.
NoNote(s) == \A i \in DOMAIN s : ~Note(s[i])
OneNote(s) == \A i, j \in DOMAIN s : Note(s[i]) /\ Note(s[j]) => i = j
NotesOf(s, t) == \A i \in DOMAIN s : Note(s[i]) => s[i].turn = t
NotesAskNothing(s) == \A i \in DOMAIN s : Note(s[i]) => ~Asks(s[i].body)
NotesAsk(s, c) == \A i \in DOMAIN s : Note(s[i]) /\ Asks(s[i].body) => s[i].body.call = c
NotesClose(s) == \A i \in DOMAIN s : Note(s[i]) => s[i].body = Terminal!Cleared
NoDone(s) == \A i \in DOMAIN s : ~Done(s[i])
OneDone(s) == \A i, j \in DOMAIN s : Done(s[i]) /\ Done(s[j]) => i = j

\* The listener brings one notification of this turn at a time, until the
\* channel ends.
ListenerBrings ==
  /\ OneNote(messages) /\ NotesOf(messages, turnNumber)
  /\ listening => NoNote(messages)
  /\ ~listening /\ NoNote(messages) => channel.closed /\ channel.items = <<>>

\* A turn is under way from its submission to the message of its end.
TurnIsUnderWay ==
  /\ OneDone(messages)
  /\ NoDone(messages) \/ (turnStage = "over" /\ cancellation # "none")
  /\ cancellation = "none" => turnStage \in {"none", "over"}
  /\ readMode \in {"yielded", "prompt"} => cancellation = "none"
  /\ readMode = "approval" => Terminal!MustAsk

\* The bridge ends before the channel does.
ChannelFollows ==
  /\ channel.closed <=> turnStage \in {"none", "closed", "over"}
  /\ turnStage \in {"none", "starting", "closed", "over"} => produced = <<>>
  /\ turnStage \in {"none", "starting"} => channel.items = <<>> /\ NoNote(messages) /\
       menu = Terminal!Closed

\* The last word of a turn closes the menu.
LastWordCloses ==
  turnStage \in {"draining", "closed", "over"} =>
    IF produced # <<>> THEN EndsClosing(produced)
    ELSE IF channel.items # <<>> THEN EndsClosing(channel.items)
    ELSE IF ~NoNote(messages) THEN NotesClose(messages)
    ELSE menu = Terminal!Closed

\* The latest call is asked about in one place at a time, on its way from the
\* runtime to the menu and back.
AskedOnce ==
  /\ OneAsk(produced, calls) /\ OneAsk(channel.items, calls) /\ NotesAsk(messages, calls)
  /\ Terminal!MustAsk => menu.call = calls
  /\ approvals \in {<<>>, <<calls>>}
  /\ ~NoAsk(produced) =>
       NoAsk(channel.items) /\ NotesAskNothing(messages) /\ ~Terminal!MustAsk /\ approvals = <<>>
  /\ ~NoAsk(channel.items) => NotesAskNothing(messages) /\ ~Terminal!MustAsk /\ approvals = <<>>
  /\ ~NotesAskNothing(messages) => ~Terminal!MustAsk /\ approvals = <<>>
  /\ Terminal!MustAsk => approvals = <<>>
  /\ turnStage = "waiting" => heldCall = calls
  /\ turnStage \in {"none", "starting", "running"} =>
       /\ NoAsk(produced) /\ NoAsk(channel.items) /\ NotesAskNothing(messages)
       /\ ~Terminal!MustAsk /\ approvals = <<>>

\* And all of it has been heard before the next prompt.
PromptFollows ==
  readMode = "prompt" =>
    /\ turnStage \in {"none", "over"} /\ produced = <<>> /\ channel.items = <<>>
    /\ NoNote(messages) /\ menu = Terminal!Closed

TerminalInv ==
  /\ TerminalTypes /\ ListenerBrings /\ TurnIsUnderWay /\ ChannelFollows /\ LastWordCloses
  /\ AskedOnce /\ PromptFollows

-----------------------------------------------------------------------------
\* What notifications ask.
LEMMA NoteKinds ==
  /\ \A n \in Notes : Asks(n) => n.call \in Nat /\ n # Terminal!Cleared
  /\ Terminal!Status(TRUE) \in Notes /\ Terminal!Status(FALSE) \in Notes
  /\ Terminal!Cleared \in Notes /\ Terminal!Error \in Notes
  /\ \A c \in Nat : Terminal!Requested(c) \in Notes /\ Asks(Terminal!Requested(c)) /\
       Terminal!Requested(c).call = c
  /\ ~Asks(Terminal!Status(TRUE)) /\ ~Asks(Terminal!Status(FALSE)) /\ ~Asks(Terminal!Cleared)
  /\ ~Asks(Terminal!Error)
<1>1. /\ Terminal!Status(TRUE).kind = "AgentStatusChanged"
      /\ Terminal!Status(FALSE).kind = "AgentStatusChanged"
      /\ Terminal!Cleared.kind = "ToolApprovalCleared" /\ Terminal!Error.kind = "ConversationError"
  BY DEF Terminal!Status, Terminal!Cleared, Terminal!Error
<1>2. \A c : Terminal!Requested(c).kind = "ToolApprovalRequested" /\ Terminal!Requested(c).call = c
  BY DEF Terminal!Requested
<1>3. \A c \in Nat : Terminal!Requested(c) \in Notes BY DEF Notes
<1>4. /\ Terminal!Status(TRUE) \in Notes /\ Terminal!Status(FALSE) \in Notes
      /\ Terminal!Cleared \in Notes /\ Terminal!Error \in Notes
  BY DEF Notes
<1>5. \A n \in Notes : Asks(n) => n.call \in Nat /\ n # Terminal!Cleared
  <2> SUFFICES ASSUME NEW n \in Notes, Asks(n) PROVE n.call \in Nat /\ n # Terminal!Cleared OBVIOUS
  <2>1. PICK c \in Nat : n = Terminal!Requested(c) BY <1>1 DEF Notes, Asks
  <2> QED BY <2>1, <1>1, <1>2
<1> QED BY <1>1, <1>2, <1>3, <1>4, <1>5 DEF Asks

\* And what messages are.
LEMMA MessageKinds ==
  /\ \A m \in Messages : Note(m) => m.body \in Notes /\ m.turn \in Nat
  /\ \A n \in Notes, t \in Nat :
       /\ Terminal!Notification(n, t) \in Messages /\ Note(Terminal!Notification(n, t))
       /\ ~Done(Terminal!Notification(n, t))
       /\ Terminal!Notification(n, t).body = n /\ Terminal!Notification(n, t).turn = t
  /\ \A t \in Nat : Terminal!Key(t) \in Messages /\ ~Note(Terminal!Key(t)) /\ ~Done(Terminal!Key(t))
  /\ Terminal!QuitMsg \in Messages /\ ~Note(Terminal!QuitMsg) /\ ~Done(Terminal!QuitMsg)
  /\ Terminal!SubmitDone \in Messages /\ ~Note(Terminal!SubmitDone) /\ Done(Terminal!SubmitDone)
<1>1. /\ \A t : Terminal!Key(t).kind = "ctrl+c"
      /\ Terminal!QuitMsg.kind = "quit" /\ Terminal!SubmitDone.kind = "SubmitDone"
  BY DEF Terminal!Key, Terminal!QuitMsg, Terminal!SubmitDone
<1>2. \A n, t : /\ Terminal!Notification(n, t).kind = "notification"
                /\ Terminal!Notification(n, t).body = n /\ Terminal!Notification(n, t).turn = t
  BY DEF Terminal!Notification
<1>3. \A t \in Nat : Terminal!Key(t) \in Messages BY DEF Messages
<1>4. Terminal!QuitMsg \in Messages /\ Terminal!SubmitDone \in Messages BY DEF Messages
<1>5. \A n \in Notes, t \in Nat : Terminal!Notification(n, t) \in Messages
  <2> SUFFICES ASSUME NEW n \in Notes, NEW t \in Nat
               PROVE  Terminal!Notification(n, t) \in Messages OBVIOUS
  <2> DEFINE x == <<n, t>>
  <2>1. x \in Notes \X Nat /\ x[1] = n /\ x[2] = t OBVIOUS
  <2> HIDE DEF x
  <2> QED BY <2>1 DEF Messages
<1>6. \A m \in Messages : Note(m) => m.body \in Notes /\ m.turn \in Nat
  <2> SUFFICES ASSUME NEW m \in Messages, Note(m) PROVE m.body \in Notes /\ m.turn \in Nat OBVIOUS
  <2>1. PICK x \in Notes \X Nat : m = Terminal!Notification(x[1], x[2]) BY <1>1 DEF Messages, Note
  <2> QED BY <2>1, <1>2
<1> QED BY <1>1, <1>2, <1>3, <1>4, <1>5, <1>6 DEF Note, Done

-----------------------------------------------------------------------------
(* Queues of notifications.                                                *)

\* One more that asks nothing.
LEMMA AppendQuiet ==
  ASSUME NEW s \in Seq(Notes), NEW n \in Notes, ~Asks(n), NEW c
  PROVE  /\ Append(s, n) \in Seq(Notes) /\ Append(s, n) # <<>>
         /\ Append(s, n)[Len(Append(s, n))] = n
         /\ NoAsk(Append(s, n)) <=> NoAsk(s)
         /\ OneAsk(s, c) => OneAsk(Append(s, n), c)
<1>1. /\ Append(s, n) \in Seq(Notes) /\ Len(Append(s, n)) = Len(s) + 1
      /\ DOMAIN Append(s, n) = 1 .. Len(s) + 1 /\ DOMAIN s = 1 .. Len(s) /\ Len(s) \in Nat
      /\ \A i \in 1 .. Len(s) : Append(s, n)[i] = s[i]
      /\ Append(s, n)[Len(s) + 1] = n
  OBVIOUS
<1>2. Append(s, n) # <<>> BY <1>1
<1>3. NoAsk(Append(s, n)) <=> NoAsk(s) BY <1>1 DEF NoAsk
<1>4. OneAsk(s, c) => OneAsk(Append(s, n), c) BY <1>1 DEF OneAsk
<1> QED BY <1>1, <1>2, <1>3, <1>4

\* The one that asks.
LEMMA AppendAsk ==
  ASSUME NEW s \in Seq(Notes), NoAsk(s), NEW n \in Notes, Asks(n)
  PROVE  /\ Append(s, n) \in Seq(Notes) /\ Append(s, n) # <<>>
         /\ OneAsk(Append(s, n), n.call) /\ ~NoAsk(Append(s, n))
<1>1. /\ Append(s, n) \in Seq(Notes) /\ Len(Append(s, n)) = Len(s) + 1
      /\ DOMAIN Append(s, n) = 1 .. Len(s) + 1 /\ DOMAIN s = 1 .. Len(s) /\ Len(s) \in Nat
      /\ \A i \in 1 .. Len(s) : Append(s, n)[i] = s[i]
      /\ Append(s, n)[Len(s) + 1] = n
  OBVIOUS
<1>2. Append(s, n) # <<>> BY <1>1
<1>3. OneAsk(Append(s, n), n.call) BY <1>1 DEF OneAsk, NoAsk
<1>4. ~NoAsk(Append(s, n)) BY <1>1 DEF NoAsk
<1> QED BY <1>1, <1>2, <1>3, <1>4

\* And what is left without the first.
LEMMA RestOfQueue ==
  ASSUME NEW s \in Seq(Notes), s # <<>>, NEW c
  PROVE  /\ Tail(s) \in Seq(Notes) /\ Head(s) \in Notes
         /\ NoAsk(s) => NoAsk(Tail(s)) /\ ~Asks(Head(s))
         /\ OneAsk(s, c) => OneAsk(Tail(s), c)
         /\ OneAsk(s, c) /\ Asks(Head(s)) => NoAsk(Tail(s)) /\ Head(s).call = c
         /\ EndsClosing(s) /\ Tail(s) # <<>> => EndsClosing(Tail(s))
         /\ EndsClosing(s) /\ Tail(s) = <<>> => Head(s) = Terminal!Cleared
<1>1. /\ Tail(s) \in Seq(Notes) /\ Len(Tail(s)) = Len(s) - 1 /\ Head(s) \in Notes
      /\ DOMAIN Tail(s) = 1 .. Len(s) - 1 /\ DOMAIN s = 1 .. Len(s) /\ Len(s) \in Nat \ {0}
      /\ \A i \in 1 .. Len(s) - 1 : Tail(s)[i] = s[i + 1]
      /\ Head(s) = s[1]
  OBVIOUS
<1>2. NoAsk(s) => NoAsk(Tail(s)) /\ ~Asks(Head(s)) BY <1>1 DEF NoAsk
<1>3. OneAsk(s, c) => OneAsk(Tail(s), c) BY <1>1 DEF OneAsk
<1>4. OneAsk(s, c) /\ Asks(Head(s)) => NoAsk(Tail(s)) /\ Head(s).call = c
  BY <1>1 DEF OneAsk, NoAsk
<1>5. Tail(s) # <<>> => Len(s) > 1 BY <1>1
<1>6. EndsClosing(s) /\ Tail(s) # <<>> => EndsClosing(Tail(s)) BY <1>1, <1>5 DEF EndsClosing
<1>7. Tail(s) = <<>> => Len(s) = 1
  <2>1. Len(<<>>) = 0 OBVIOUS
  <2>2. Tail(s) = <<>> => Len(Tail(s)) = 0 BY <2>1
  <2> QED BY <1>1, <2>2
<1>8. EndsClosing(s) /\ Tail(s) = <<>> => Head(s) = Terminal!Cleared BY <1>1, <1>7 DEF EndsClosing
<1> QED BY <1>1, <1>2, <1>3, <1>4, <1>6, <1>8

\* Several are put there one by one.
LEMMA TwoMore ==
  ASSUME NEW s \in Seq(Notes), NEW x \in Notes, NEW y \in Notes
  PROVE  s \o <<x, y>> = Append(Append(s, x), y)
OBVIOUS

\* Three notes appended at once are three appended in turn.
LEMMA ThreeMore ==
  ASSUME NEW s \in Seq(Notes), NEW x \in Notes, NEW y \in Notes, NEW z \in Notes
  PROVE  s \o <<x, y, z>> = Append(Append(Append(s, x), y), z)
OBVIOUS

\* Two or three more that ask nothing, the last of which closes.
LEMMA LastWords ==
  ASSUME NEW s \in Seq(Notes), NEW c,
             NEW t \in {s \o <<Terminal!Status(FALSE), Terminal!Cleared>>,
                   s \o <<Terminal!Error, Terminal!Status(FALSE), Terminal!Cleared>>}
  PROVE  /\ t \in Seq(Notes) /\ t # <<>> /\ EndsClosing(t)
         /\ NoAsk(t) <=> NoAsk(s)
         /\ OneAsk(s, c) => OneAsk(t, c)
<1> DEFINE u == Append(Append(s, Terminal!Status(FALSE)), Terminal!Cleared)
           w == Append(Append(Append(s, Terminal!Error), Terminal!Status(FALSE)), Terminal!Cleared)
<1>1. s \o <<Terminal!Status(FALSE), Terminal!Cleared>> = u BY NoteKinds, TwoMore
<1>2. s \o <<Terminal!Error, Terminal!Status(FALSE), Terminal!Cleared>> = w BY NoteKinds, ThreeMore
<1>3. CASE t = u BY <1>3, NoteKinds, AppendQuiet DEF EndsClosing
<1>4. CASE t = w
  <2>1. Append(s, Terminal!Error) \in Seq(Notes) BY NoteKinds
  <2>2. Append(Append(s, Terminal!Error), Terminal!Status(FALSE)) \in Seq(Notes) BY <2>1, NoteKinds,
          AppendQuiet
  <2> QED BY <1>4, <2>1, <2>2, NoteKinds, AppendQuiet DEF EndsClosing
<1> QED BY <1>1, <1>2, <1>3, <1>4

-----------------------------------------------------------------------------
(* The inbox.                                                              *)

\* A key says nothing of the turn.
LEMMA AppendKey ==
  ASSUME NEW s \in Seq(Messages), NEW m \in Messages, ~Note(m), ~Done(m), NEW t, NEW c
  PROVE  /\ Append(s, m) \in Seq(Messages) /\ Append(s, m) # <<>>
         /\ (NoNote(Append(s, m)) <=> NoNote(s)) /\ (NoDone(Append(s, m)) <=> NoDone(s))
         /\ OneNote(s) => OneNote(Append(s, m))
         /\ OneDone(s) => OneDone(Append(s, m))
         /\ NotesOf(s, t) => NotesOf(Append(s, m), t)
         /\ NotesAskNothing(Append(s, m)) <=> NotesAskNothing(s)
         /\ NotesAsk(s, c) => NotesAsk(Append(s, m), c)
         /\ NotesClose(s) => NotesClose(Append(s, m))
<1>1. /\ Append(s, m) \in Seq(Messages) /\ Len(Append(s, m)) = Len(s) + 1
      /\ DOMAIN Append(s, m) = 1 .. Len(s) + 1 /\ DOMAIN s = 1 .. Len(s) /\ Len(s) \in Nat
      /\ \A i \in 1 .. Len(s) : Append(s, m)[i] = s[i]
      /\ Append(s, m)[Len(s) + 1] = m
  OBVIOUS
<1>2. Append(s, m) # <<>> BY <1>1
<1>3. NoNote(Append(s, m)) <=> NoNote(s) BY <1>1 DEF NoNote
<1>4. NoDone(Append(s, m)) <=> NoDone(s) BY <1>1 DEF NoDone
<1>5. OneNote(s) => OneNote(Append(s, m)) BY <1>1 DEF OneNote
<1>6. OneDone(s) => OneDone(Append(s, m)) BY <1>1 DEF OneDone
<1>7. NotesOf(s, t) => NotesOf(Append(s, m), t) BY <1>1 DEF NotesOf
<1>8. NotesAskNothing(Append(s, m)) <=> NotesAskNothing(s) BY <1>1 DEF NotesAskNothing
<1>9. NotesAsk(s, c) => NotesAsk(Append(s, m), c) BY <1>1 DEF NotesAsk
<1>10. NotesClose(s) => NotesClose(Append(s, m)) BY <1>1 DEF NotesClose
<1> QED BY <1>1, <1>2, <1>3, <1>4, <1>5, <1>6, <1>7, <1>8, <1>9, <1>10

\* The message of its end.
LEMMA AppendDone ==
  ASSUME NEW s \in Seq(Messages), NEW t, NEW c
  PROVE  LET r == Append(s, Terminal!SubmitDone)
         IN  /\ r \in Seq(Messages) /\ r # <<>>
             /\ NoNote(r) <=> NoNote(s)
             /\ NoDone(s) => OneDone(r)
             /\ OneNote(s) => OneNote(r)
             /\ NotesOf(s, t) => NotesOf(r, t)
             /\ NotesAskNothing(r) <=> NotesAskNothing(s)
             /\ NotesAsk(s, c) => NotesAsk(r, c)
             /\ NotesClose(s) => NotesClose(r)
<1> DEFINE r == Append(s, Terminal!SubmitDone)
<1>0. /\ Terminal!SubmitDone \in Messages /\ ~Note(Terminal!SubmitDone)
      /\ Done(Terminal!SubmitDone) BY MessageKinds
<1>1. /\ r \in Seq(Messages) /\ Len(r) = Len(s) + 1
      /\ DOMAIN r = 1 .. Len(s) + 1 /\ DOMAIN s = 1 .. Len(s) /\ Len(s) \in Nat
      /\ \A i \in 1 .. Len(s) : r[i] = s[i]
      /\ r[Len(s) + 1] = Terminal!SubmitDone
  BY <1>0
<1>2. r # <<>> BY <1>1
<1> HIDE DEF r
<1>3. NoNote(r) <=> NoNote(s) BY <1>0, <1>1 DEF NoNote
<1>4. NoDone(s) => OneDone(r) BY <1>0, <1>1 DEF NoDone, OneDone
<1>5. OneNote(s) => OneNote(r) BY <1>0, <1>1 DEF OneNote
<1>7. NotesOf(s, t) => NotesOf(r, t) BY <1>0, <1>1 DEF NotesOf
<1>8. NotesAskNothing(r) <=> NotesAskNothing(s) BY <1>0, <1>1 DEF NotesAskNothing
<1>9. NotesAsk(s, c) => NotesAsk(r, c) BY <1>0, <1>1 DEF NotesAsk
<1>10. NotesClose(s) => NotesClose(r) BY <1>0, <1>1 DEF NotesClose
<1> QED BY <1>1, <1>2, <1>3, <1>4, <1>5, <1>7, <1>8, <1>9, <1>10 DEF r

\* The first notification of an inbox.
LEMMA AppendNote ==
  ASSUME NEW s \in Seq(Messages), NoNote(s), NEW n \in Notes, NEW t \in Nat
  PROVE  LET r == Append(s, Terminal!Notification(n, t))
         IN  /\ r \in Seq(Messages) /\ r # <<>> /\ ~NoNote(r) /\ OneNote(r) /\ NotesOf(r, t)
             /\ NoDone(r) <=> NoDone(s)
             /\ OneDone(s) => OneDone(r)
             /\ ~Asks(n) => NotesAskNothing(r)
             /\ NotesAsk(r, n.call)
             /\ \A c : ~Asks(n) => NotesAsk(r, c)
             /\ n = Terminal!Cleared => NotesClose(r)
<1> DEFINE m == Terminal!Notification(n, t)
           r == Append(s, m)
<1>0. m \in Messages /\ Note(m) /\ ~Done(m) /\ m.body = n /\ m.turn = t BY MessageKinds
<1> HIDE DEF m
<1>1. /\ r \in Seq(Messages) /\ Len(r) = Len(s) + 1
      /\ DOMAIN r = 1 .. Len(s) + 1 /\ DOMAIN s = 1 .. Len(s) /\ Len(s) \in Nat
      /\ \A i \in 1 .. Len(s) : r[i] = s[i]
      /\ r[Len(s) + 1] = m
  BY <1>0
<1>2. r # <<>> BY <1>1
<1> HIDE DEF r
<1>3. ~NoNote(r) /\ OneNote(r) /\ NotesOf(r, t) BY <1>0, <1>1 DEF NoNote, OneNote, NotesOf
<1>4. NoDone(r) <=> NoDone(s) BY <1>0, <1>1 DEF NoDone
<1>5. OneDone(s) => OneDone(r) BY <1>0, <1>1 DEF OneDone
<1>6. ~Asks(n) => NotesAskNothing(r) BY <1>0, <1>1 DEF NotesAskNothing, NoNote
<1>7. NotesAsk(r, n.call) BY <1>0, <1>1 DEF NotesAsk, NoNote
<1>8. \A c : ~Asks(n) => NotesAsk(r, c) BY <1>0, <1>1 DEF NotesAsk, NoNote
<1>9. n = Terminal!Cleared => NotesClose(r) BY <1>0, <1>1 DEF NotesClose, NoNote
<1> QED BY <1>1, <1>2, <1>3, <1>4, <1>5, <1>6, <1>7, <1>8, <1>9 DEF r, m

\* What is left without the first message.
LEMMA RestOfInbox ==
  ASSUME NEW s \in Seq(Messages), s # <<>>, NEW t, NEW c
  PROVE  /\ Tail(s) \in Seq(Messages) /\ Head(s) \in Messages
         /\ NoNote(s) => NoNote(Tail(s)) /\ ~Note(Head(s))
         /\ NoDone(s) => NoDone(Tail(s)) /\ ~Done(Head(s))
         /\ ~Note(Head(s)) /\ NoNote(Tail(s)) => NoNote(s)
         /\ ~Done(Head(s)) /\ NoDone(Tail(s)) => NoDone(s)
         /\ OneNote(s) => OneNote(Tail(s)) /\ (Note(Head(s)) => NoNote(Tail(s)))
         /\ OneDone(s) => OneDone(Tail(s)) /\ (Done(Head(s)) => NoDone(Tail(s)))
         /\ NotesOf(s, t) => NotesOf(Tail(s), t) /\ (Note(Head(s)) => Head(s).turn = t)
         /\ NotesAskNothing(s) => NotesAskNothing(Tail(s)) /\ (Note(Head(s)) => ~Asks(Head(s).body))
         /\ ~Note(Head(s)) /\ NotesAskNothing(Tail(s)) => NotesAskNothing(s)
         /\ NotesAsk(s, c) => NotesAsk(Tail(s), c)
                              /\ (Note(Head(s)) /\ Asks(Head(s).body) => Head(s).body.call = c)
         /\ NotesClose(s) => NotesClose(Tail(s)) /\
              (Note(Head(s)) => Head(s).body = Terminal!Cleared)
<1>1. /\ Tail(s) \in Seq(Messages) /\ Len(Tail(s)) = Len(s) - 1 /\ Head(s) \in Messages
      /\ DOMAIN Tail(s) = 1 .. Len(s) - 1 /\ DOMAIN s = 1 .. Len(s) /\ Len(s) \in Nat \ {0}
      /\ \A i \in 1 .. Len(s) - 1 : Tail(s)[i] = s[i + 1]
      /\ Head(s) = s[1]
  OBVIOUS
<1>0. \A i \in 1 .. Len(s) : i = 1 \/ (i - 1 \in 1 .. Len(s) - 1 /\ s[i] = Tail(s)[i - 1])
  BY <1>1
<1>2. NoNote(s) => NoNote(Tail(s)) /\ ~Note(Head(s)) BY <1>1 DEF NoNote
<1>3. NoDone(s) => NoDone(Tail(s)) /\ ~Done(Head(s)) BY <1>1 DEF NoDone
<1>4. ~Note(Head(s)) /\ NoNote(Tail(s)) => NoNote(s) BY <1>0, <1>1 DEF NoNote
<1>5. ~Done(Head(s)) /\ NoDone(Tail(s)) => NoDone(s) BY <1>0, <1>1 DEF NoDone
<1>6. OneNote(s) => OneNote(Tail(s)) /\ (Note(Head(s)) => NoNote(Tail(s)))
  BY <1>1 DEF OneNote, NoNote
<1>7. OneDone(s) => OneDone(Tail(s)) /\ (Done(Head(s)) => NoDone(Tail(s)))
  BY <1>1 DEF OneDone, NoDone
<1>8. NotesOf(s, t) => NotesOf(Tail(s), t) /\ (Note(Head(s)) => Head(s).turn = t)
  BY <1>1 DEF NotesOf
<1>9. NotesAskNothing(s) => NotesAskNothing(Tail(s)) /\ (Note(Head(s)) => ~Asks(Head(s).body))
  BY <1>1 DEF NotesAskNothing
<1>10. ~Note(Head(s)) /\ NotesAskNothing(Tail(s)) => NotesAskNothing(s)
  BY <1>0, <1>1 DEF NotesAskNothing
<1>11. NotesAsk(s, c) => NotesAsk(Tail(s), c)
                         /\ (Note(Head(s)) /\ Asks(Head(s).body) => Head(s).body.call = c)
  BY <1>1 DEF NotesAsk
<1>12. NotesClose(s) => NotesClose(Tail(s)) /\ (Note(Head(s)) => Head(s).body = Terminal!Cleared)
  BY <1>1 DEF NotesClose
<1> QED BY <1>1, <1>2, <1>3, <1>4, <1>5, <1>6, <1>7, <1>8, <1>9, <1>10, <1>11, <1>12

-----------------------------------------------------------------------------
(* The steps.                                                              *)

\* The program starts at rest.
LEMMA TerminalInit == Terminal!Init => TerminalInv
<1> SUFFICES ASSUME Terminal!Init PROVE TerminalInv OBVIOUS
<1> USE DEF Terminal!Init
<1>1. TerminalTypes
  <2>1. menu = [call |-> menu.call, submitted |-> menu.submitted] /\ menu.call = 0
    BY DEF Terminal!Closed, Terminal!NoCall
  <2>2. menu.submitted \in BOOLEAN BY DEF Terminal!Closed
  <2>3. /\ channel = [items |-> channel.items, closed |-> channel.closed]
        /\ channel.items \in Seq(Notes)
    OBVIOUS
  <2>4. channel.closed \in BOOLEAN OBVIOUS
  <2>5. messages \in Seq(Messages) /\ approvals \in Seq(Nat) /\ produced \in Seq(Notes) OBVIOUS
  <2>6. listening \in BOOLEAN OBVIOUS
  <2>7. /\ readMode \in {"loop", "approval", "yielded", "prompt", "stopped"}
        /\ turnNumber \in Nat /\ cancellation \in {"none", "running", "cancelled"}
        /\ turnStage \in {"none", "starting", "running", "waiting", "draining", "closed", "over"}
        /\ heldCall \in Nat /\ calls \in Nat
    BY DEF Terminal!NoCall
  <2> HIDE DEF Terminal!Init
  <2> QED BY <2>1, <2>2, <2>3, <2>4, <2>5, <2>6, <2>7 DEF TerminalTypes
<1>2. /\ NoNote(<<>>) /\ OneNote(<<>>) /\ NoDone(<<>>) /\ OneDone(<<>>)
      /\ \A t : NotesOf(<<>>, t) /\ NotesAsk(<<>>, t) /\ OneAsk(<<>>, t)
      /\ NotesAskNothing(<<>>) /\ NoAsk(<<>>)
  BY DEF NoNote, OneNote, NoDone, OneDone, NotesOf, NotesAsk, OneAsk, NotesAskNothing, NoAsk
<1>3. ListenerBrings /\ TurnIsUnderWay /\ ChannelFollows /\ PromptFollows
  BY <1>2 DEF ListenerBrings, TurnIsUnderWay, ChannelFollows, PromptFollows
<1>4. LastWordCloses /\ AskedOnce
  BY <1>2 DEF LastWordCloses, AskedOnce, Terminal!MustAsk, Terminal!Active, Terminal!Closed,
    Terminal!NoCall
<1> QED BY <1>1, <1>3, <1>4 DEF TerminalInv

\* A turn starts, or is over because its hook failed.
LEMMA BeforeTurnKeeps ==
  ASSUME TerminalInv, Terminal!BeforeTurn
  PROVE  TerminalInv'
<1> USE DEF TerminalInv
<1>1. /\ turnStage = "starting"
      /\ UNCHANGED <<readMode, turnNumber, cancellation, menu, listening, approvals, heldCall,
           produced, calls>>
  BY DEF Terminal!BeforeTurn
<1>2. CASE turnStage' = "running" /\ UNCHANGED <<channel, messages>>
  <2>1. TerminalTypes' BY <1>1, <1>2 DEF TerminalTypes
  <2>2. ListenerBrings' BY <1>1, <1>2 DEF ListenerBrings
  <2>3. TurnIsUnderWay' BY <1>1, <1>2 DEF TurnIsUnderWay, Terminal!MustAsk, Terminal!Active
  <2>4. ChannelFollows' BY <1>1, <1>2 DEF ChannelFollows
  <2>5. LastWordCloses' BY <1>1, <1>2 DEF LastWordCloses
  <2>6. AskedOnce' BY <1>1, <1>2 DEF AskedOnce, Terminal!MustAsk, Terminal!Active
  <2>7. PromptFollows' BY <1>1, <1>2 DEF PromptFollows
  <2> QED BY <2>1, <2>2, <2>3, <2>4, <2>5, <2>6, <2>7
<1>3. CASE /\ channel' = [channel EXCEPT !.closed = TRUE] /\ turnStage' = "over"
           /\ messages' = Append(messages, Terminal!SubmitDone)
  <2>0. /\ channel' = [items |-> channel.items, closed |-> TRUE]
        /\ channel'.items = channel.items /\ channel'.closed = TRUE
    BY <1>3 DEF TerminalTypes
  <2>1. TerminalTypes' BY <1>1, <1>3, <2>0, AppendDone DEF TerminalTypes
  <2>2. NoDone(messages) /\ cancellation # "none" BY <1>1 DEF TurnIsUnderWay
  <2>3. NoNote(messages) /\ channel.items = <<>> /\ produced = <<>> /\ menu = Terminal!Closed
    BY <1>1 DEF ChannelFollows
  <2>4. messages \in Seq(Messages) BY DEF TerminalTypes
  <2>5. ListenerBrings' BY <1>1, <1>3, <2>0, <2>3, <2>4, AppendDone DEF ListenerBrings
  <2>6. TurnIsUnderWay' BY <1>1, <1>3, <2>2, <2>4, AppendDone DEF TurnIsUnderWay, Terminal!MustAsk,
          Terminal!Active
  <2>7. ChannelFollows' BY <1>1, <1>3, <2>0 DEF ChannelFollows
  <2>8. LastWordCloses' BY <1>1, <1>3, <2>0, <2>3, <2>4, AppendDone DEF LastWordCloses
  <2>9. AskedOnce' BY <1>1, <1>3, <2>0, <2>4, AppendDone DEF AskedOnce, Terminal!MustAsk,
          Terminal!Active
  <2>10. PromptFollows' BY <1>1, <2>2 DEF PromptFollows, TurnIsUnderWay
  <2> QED BY <2>1, <2>5, <2>6, <2>7, <2>8, <2>9, <2>10
<1> QED BY <1>2, <1>3 DEF Terminal!BeforeTurn

\* The terminal is left alone, and the inbox.
Aside == UNCHANGED <<readMode, messages, turnNumber, cancellation, menu, listening>>

\* A call is asked about when no other is.
LEMMA HoldCallKeeps ==
  ASSUME TerminalInv, Terminal!HoldCall
  PROVE  TerminalInv'
<1> USE DEF TerminalInv
<1> DEFINE c == calls + 1
<1>1. /\ turnStage = "running" /\ calls' = c /\ heldCall' = c /\ turnStage' = "waiting"
      /\ produced' = produced \o <<Terminal!Status(TRUE), Terminal!Requested(c)>>
      /\ Aside /\ channel' = channel /\ approvals' = approvals
  BY DEF Terminal!HoldCall, Terminal!terminal, Aside
<1>2. calls \in Nat /\ c \in Nat /\ produced \in Seq(Notes) BY DEF TerminalTypes
<1>3. produced' = Append(Append(produced, Terminal!Status(TRUE)), Terminal!Requested(c)) BY <1>1,
        <1>2, NoteKinds, TwoMore
<1>4. /\ NoAsk(produced) /\ NoAsk(channel.items) /\ NotesAskNothing(messages) /\ ~Terminal!MustAsk
      /\ approvals = <<>>
  BY <1>1 DEF AskedOnce
<1>5. /\ Append(produced, Terminal!Status(TRUE)) \in Seq(Notes)
      /\ NoAsk(Append(produced, Terminal!Status(TRUE)))
  BY <1>2, <1>4, NoteKinds, AppendQuiet
<1>6. produced' \in Seq(Notes) /\ OneAsk(produced', c) BY <1>2, <1>3, <1>5, NoteKinds, AppendAsk
<1>7. OneAsk(channel.items, c) /\ NotesAsk(messages, c) BY <1>4 DEF OneAsk, NoAsk, NotesAsk,
        NotesAskNothing
<1> HIDE DEF c
<1>11. TerminalTypes' BY <1>1, <1>2, <1>6 DEF TerminalTypes, Aside
<1>12. ListenerBrings' BY <1>1 DEF ListenerBrings, Aside
<1>13. TurnIsUnderWay' BY <1>1 DEF TurnIsUnderWay, Terminal!MustAsk, Terminal!Active, Aside
<1>14. ChannelFollows' BY <1>1 DEF ChannelFollows, Aside
<1>15. LastWordCloses' BY <1>1 DEF LastWordCloses, Aside
<1>16. AskedOnce' BY <1>1, <1>4, <1>6, <1>7 DEF AskedOnce, Terminal!MustAsk, Terminal!Active, Aside
<1>17. PromptFollows' BY <1>1 DEF PromptFollows, Aside
<1> QED BY <1>11, <1>12, <1>13, <1>14, <1>15, <1>16, <1>17

\* The decision was the only thing on its way.
LEMMA TakeDecisionKeeps ==
  ASSUME TerminalInv, Terminal!TakeDecision
  PROVE  TerminalInv'
<1> USE DEF TerminalInv
<1>1. /\ turnStage = "waiting" /\ approvals # <<>> /\ approvals' = Tail(approvals)
      /\ heldCall' = Terminal!NoCall
      /\ turnStage' = "running"
      /\ produced' = produced \o <<Terminal!Status(FALSE), Terminal!Cleared>>
      /\ Aside /\ channel' = channel /\ calls' = calls
  BY DEF Terminal!TakeDecision, Terminal!terminal, Aside
<1>2. calls \in Nat /\ produced \in Seq(Notes) BY DEF TerminalTypes
<1>3. /\ produced' \in Seq(Notes) /\ (NoAsk(produced') <=> NoAsk(produced))
      /\ OneAsk(produced, calls) => OneAsk(produced', calls)
  BY <1>1, <1>2, LastWords
<1>4. approvals = <<calls>> /\ approvals' = <<>> /\ <<>> \in Seq(Nat)
  <2>1. approvals = <<calls>> BY <1>1 DEF AskedOnce
  <2>2. Tail(<<calls>>) = <<>> /\ <<>> \in Seq(Nat) OBVIOUS
  <2> QED BY <1>1, <2>1, <2>2
<1>5. NoAsk(produced) /\ NoAsk(channel.items) /\ NotesAskNothing(messages) /\ ~Terminal!MustAsk
  BY <1>1 DEF AskedOnce
<1>11. TerminalTypes' BY <1>1, <1>3, <1>4 DEF TerminalTypes, Aside, Terminal!NoCall
<1>12. ListenerBrings' BY <1>1 DEF ListenerBrings, Aside
<1>13. TurnIsUnderWay' BY <1>1 DEF TurnIsUnderWay, Terminal!MustAsk, Terminal!Active, Aside
<1>14. ChannelFollows' BY <1>1 DEF ChannelFollows, Aside
<1>15. LastWordCloses' BY <1>1 DEF LastWordCloses, Aside
<1>16. AskedOnce' BY <1>1, <1>3, <1>4, <1>5 DEF AskedOnce, Terminal!MustAsk, Terminal!Active, Aside
<1>17. PromptFollows' BY <1>1 DEF PromptFollows, Aside
<1> QED BY <1>11, <1>12, <1>13, <1>14, <1>15, <1>16, <1>17

\* The last words of a turn.
LEMMA EndTurnKeeps ==
  ASSUME TerminalInv, Terminal!EndTurn
  PROVE  TerminalInv'
<1> USE DEF TerminalInv
<1>1. /\ turnStage \in {"running", "waiting"} /\ turnStage' = "draining"
      /\ heldCall' = Terminal!NoCall
      /\ produced' \in {produced \o <<Terminal!Status(FALSE), Terminal!Cleared>>,
           produced \o <<Terminal!Error, Terminal!Status(FALSE), Terminal!Cleared>>}
      /\ Aside /\ channel' = channel /\ calls' = calls /\ approvals' = approvals
  BY DEF Terminal!EndTurn, Terminal!terminal, Aside
<1>2. calls \in Nat /\ produced \in Seq(Notes) BY DEF TerminalTypes
<1>3. /\ produced' \in Seq(Notes) /\ (NoAsk(produced') <=> NoAsk(produced))
      /\ OneAsk(produced, calls) => OneAsk(produced', calls)
      /\ produced' # <<>> /\ EndsClosing(produced')
  BY <1>1, <1>2, LastWords
<1>11. TerminalTypes' BY <1>1, <1>3 DEF TerminalTypes, Aside, Terminal!NoCall
<1>12. ListenerBrings' BY <1>1 DEF ListenerBrings, Aside
<1>13. TurnIsUnderWay' BY <1>1 DEF TurnIsUnderWay, Terminal!MustAsk, Terminal!Active, Aside
<1>14. ChannelFollows' BY <1>1 DEF ChannelFollows, Aside
<1>15. LastWordCloses' BY <1>1, <1>3 DEF LastWordCloses, Aside
<1>16. AskedOnce' BY <1>1, <1>3 DEF AskedOnce, Terminal!MustAsk, Terminal!Active, Aside
<1>17. PromptFollows' BY <1>1 DEF PromptFollows, Aside
<1> QED BY <1>11, <1>12, <1>13, <1>14, <1>15, <1>16, <1>17

\* One notification goes over, perhaps after the error of its hook.
LEMMA BridgeKeeps ==
  ASSUME TerminalInv, Terminal!Bridge
  PROVE  TerminalInv'
<1> USE DEF TerminalInv
<1> DEFINE n == Head(produced)
<1>1. /\ produced # <<>> /\ produced' = Tail(produced) /\ turnStage' = turnStage
      /\ Aside /\ calls' = calls /\ approvals' = approvals /\ heldCall' = heldCall
  BY DEF Terminal!Bridge, Terminal!terminal, Aside
<1>2. /\ calls \in Nat /\ produced \in Seq(Notes) /\ channel.items \in Seq(Notes)
      /\ channel.closed \in BOOLEAN
      /\ channel = [items |-> channel.items, closed |-> channel.closed]
  BY DEF TerminalTypes
<1>3. turnStage \in {"running", "waiting", "draining"} /\ ~channel.closed
  BY <1>1 DEF ChannelFollows, TerminalTypes
<1>4. n \in Notes /\ produced' \in Seq(Notes) BY <1>1, <1>2, RestOfQueue
<1>5. \E s \in {channel.items, Append(channel.items, Terminal!Error)} :
         channel' = [items |-> Append(s, n), closed |-> FALSE]
  <2>1. CASE channel' = Terminal!Sent(n)
    <3>1. channel' = [channel EXCEPT !.items = Append(channel.items, n)] BY <2>1,
            <1>3 DEF Terminal!Sent
    <3>2. channel' = [items |-> Append(channel.items, n), closed |-> FALSE] BY <3>1, <1>2, <1>3
    <3> QED BY <3>2
  <2>2. CASE channel' = [channel EXCEPT !.items = @ \o <<Terminal!Error, n>>]
    <3>1. channel.items \o <<Terminal!Error, n>> = Append(Append(channel.items, Terminal!Error), n)
      BY <1>2, <1>4, NoteKinds, TwoMore
    <3> HIDE DEF n
    <3>2. channel' = [items |-> channel.items \o <<Terminal!Error, n>>, closed |-> FALSE]
      BY <2>2, <1>2, <1>3
    <3>3. channel' = [items |-> Append(Append(channel.items, Terminal!Error), n), closed |-> FALSE]
      BY <3>1, <3>2
    <3> QED BY <3>3
  <2> QED BY <2>1, <2>2 DEF Terminal!Bridge
<1> HIDE DEF n
<1>6. PICK s \in {channel.items, Append(channel.items, Terminal!Error)} :
         channel' = [items |-> Append(s, n), closed |-> FALSE] BY <1>5
<1>7. channel'.items = Append(s, n) /\ channel'.closed = FALSE
      /\ channel' = [items |-> channel'.items, closed |-> channel'.closed]
  BY <1>6
<1>8. /\ s \in Seq(Notes) /\ (NoAsk(s) <=> NoAsk(channel.items))
      /\ OneAsk(channel.items, calls) => OneAsk(s, calls)
  <2>1. CASE s = channel.items BY <2>1, <1>2
  <2>2. CASE s = Append(channel.items, Terminal!Error) BY <2>2, <1>2, NoteKinds, AppendQuiet
  <2> QED BY <2>1, <2>2
<1>9. /\ NoAsk(produced) => NoAsk(produced') /\ ~Asks(n)
      /\ OneAsk(produced', calls)
      /\ (Asks(n) => NoAsk(produced') /\ n.call = calls /\ ~NoAsk(produced))
      /\ EndsClosing(produced) /\ produced' # <<>> => EndsClosing(produced')
      /\ EndsClosing(produced) /\ produced' = <<>> => n = Terminal!Cleared
  BY <1>1, <1>2, RestOfQueue DEF n, AskedOnce
<1>10. /\ channel'.items \in Seq(Notes) /\ channel'.items # <<>> /\ OneAsk(channel'.items, calls)
       /\ ~Asks(n) => (NoAsk(channel'.items) <=> NoAsk(channel.items))
       /\ n = Terminal!Cleared => EndsClosing(channel'.items)
  <2>1. CASE Asks(n)
    <3>1. NoAsk(channel.items) BY <2>1, <1>9 DEF AskedOnce
    <3>2. n # Terminal!Cleared BY <2>1, <1>4, NoteKinds
    <3> QED BY <2>1, <3>1, <3>2, <1>4, <1>7, <1>8, <1>9, AppendAsk
  <2>2. CASE ~Asks(n)
    <3>1. OneAsk(channel.items, calls) BY DEF AskedOnce
    <3>2. /\ Append(s, n) \in Seq(Notes) /\ Append(s, n) # <<>>
          /\ Append(s, n)[Len(Append(s, n))] = n
          /\ NoAsk(Append(s, n)) <=> NoAsk(s)
          /\ OneAsk(Append(s, n), calls)
      BY <2>2, <3>1, <1>4, <1>8, AppendQuiet
    <3>3. n = Terminal!Cleared => EndsClosing(Append(s, n)) BY <3>2 DEF EndsClosing
    <3> QED BY <2>2, <3>2, <3>3, <1>7, <1>8
  <2> QED BY <2>1, <2>2
<1>11. TerminalTypes' BY <1>1, <1>4, <1>7, <1>10 DEF TerminalTypes, Aside
<1>12. ListenerBrings' BY <1>1, <1>3 DEF ListenerBrings, Aside
<1>13. TurnIsUnderWay' BY <1>1 DEF TurnIsUnderWay, Terminal!MustAsk, Terminal!Active, Aside
<1>14. ChannelFollows' BY <1>1, <1>3, <1>7 DEF ChannelFollows, Aside
<1>15. LastWordCloses' BY <1>1, <1>3, <1>9, <1>10 DEF LastWordCloses
<1>16. AskedOnce' BY <1>1, <1>3, <1>9, <1>10 DEF AskedOnce, Terminal!MustAsk, Terminal!Active, Aside
<1>17. PromptFollows' BY <1>1, <1>3 DEF PromptFollows, Aside
<1> QED BY <1>11, <1>12, <1>13, <1>14, <1>15, <1>16, <1>17

\* The channel is closed when all has gone over.
LEMMA CloseChannelKeeps ==
  ASSUME TerminalInv, Terminal!CloseChannel
  PROVE  TerminalInv'
<1> USE DEF TerminalInv
<1>1. /\ turnStage = "draining" /\ produced = <<>> /\ turnStage' = "closed"
      /\ channel' = [channel EXCEPT !.closed = TRUE]
      /\ Aside /\ calls' = calls /\ approvals' = approvals /\ heldCall' = heldCall
      /\ produced' = produced
  BY DEF Terminal!CloseChannel, Terminal!Drained, Terminal!terminal, Aside
<1>2. /\ channel' = [items |-> channel.items, closed |-> TRUE]
      /\ channel'.items = channel.items /\ channel'.closed = TRUE
  BY <1>1 DEF TerminalTypes
<1>11. TerminalTypes' BY <1>1, <1>2 DEF TerminalTypes, Aside
<1>12. ListenerBrings' BY <1>1, <1>2 DEF ListenerBrings, Aside
<1>13. TurnIsUnderWay' BY <1>1 DEF TurnIsUnderWay, Terminal!MustAsk, Terminal!Active, Aside
<1>14. ChannelFollows' BY <1>1, <1>2 DEF ChannelFollows, Aside
<1>15. LastWordCloses' BY <1>1, <1>2 DEF LastWordCloses, Aside
<1>16. AskedOnce' BY <1>1, <1>2 DEF AskedOnce, Terminal!MustAsk, Terminal!Active, Aside
<1>17. PromptFollows' BY <1>1, <1>2 DEF PromptFollows, Aside
<1> QED BY <1>11, <1>12, <1>13, <1>14, <1>15, <1>16, <1>17

\* The end of the turn is told once.
LEMMA ReportEndKeeps ==
  ASSUME TerminalInv, Terminal!ReportEnd
  PROVE  TerminalInv'
<1> USE DEF TerminalInv
<1>1. /\ turnStage = "closed" /\ turnStage' = "over"
      /\ messages' = Append(messages, Terminal!SubmitDone)
      /\ UNCHANGED <<readMode, turnNumber, cancellation, menu, listening, channel, approvals,
           heldCall, produced, calls>>
  BY DEF Terminal!ReportEnd
<1>2. NoDone(messages) /\ cancellation # "none" BY <1>1 DEF TurnIsUnderWay
<1>3. messages \in Seq(Messages) BY DEF TerminalTypes
<1>11. TerminalTypes' BY <1>1, <1>3, AppendDone DEF TerminalTypes
<1>12. ListenerBrings' BY <1>1, <1>3, AppendDone DEF ListenerBrings
<1>13. TurnIsUnderWay' BY <1>1, <1>2, <1>3, AppendDone DEF TurnIsUnderWay, Terminal!MustAsk,
         Terminal!Active
<1>14. ChannelFollows' BY <1>1, <1>3, AppendDone DEF ChannelFollows
<1>15. LastWordCloses' BY <1>1, <1>3, AppendDone DEF LastWordCloses
<1>16. AskedOnce' BY <1>1, <1>3, AppendDone DEF AskedOnce, Terminal!MustAsk, Terminal!Active
<1>17. PromptFollows' BY <1>1, <1>2 DEF PromptFollows, TurnIsUnderWay
<1> QED BY <1>11, <1>12, <1>13, <1>14, <1>15, <1>16, <1>17

-----------------------------------------------------------------------------
(* The listener, and the messages it brings.                               *)

\* One notification, or the end of the channel.
LEMMA ListenKeeps ==
  ASSUME TerminalInv, Terminal!Listen
  PROVE  TerminalInv'
<1> USE DEF TerminalInv
<1>1. /\ listening /\ (channel.items # <<>> \/ channel.closed) /\ listening' = FALSE
      /\ UNCHANGED <<readMode, turnNumber, cancellation, menu, approvals, turnStage, heldCall,
           produced, calls>>
  BY DEF Terminal!Listen, Terminal!ListenerRunnable
<1>2. /\ messages \in Seq(Messages) /\ channel.items \in Seq(Notes) /\ turnNumber \in Nat
      /\ calls \in Nat
      /\ channel = [items |-> channel.items, closed |-> channel.closed]
  BY DEF TerminalTypes
<1>3. /\ NoNote(messages) /\ OneNote(messages)
      /\ NotesOf(messages, turnNumber) BY <1>1 DEF ListenerBrings
<1>4. CASE channel.items = <<>>
  <2>1. UNCHANGED <<messages, channel>> /\ channel.closed BY <1>1, <1>4 DEF Terminal!Listen
  <2>11. TerminalTypes' BY <1>1, <2>1 DEF TerminalTypes
  <2>12. ListenerBrings' BY <1>1, <1>4, <2>1 DEF ListenerBrings
  <2>13. TurnIsUnderWay' BY <1>1, <2>1 DEF TurnIsUnderWay, Terminal!MustAsk, Terminal!Active
  <2>14. ChannelFollows' BY <1>1, <2>1 DEF ChannelFollows
  <2>15. LastWordCloses' BY <1>1, <2>1 DEF LastWordCloses
  <2>16. AskedOnce' BY <1>1, <2>1 DEF AskedOnce, Terminal!MustAsk, Terminal!Active
  <2>17. PromptFollows' BY <1>1, <2>1 DEF PromptFollows
  <2> QED BY <2>11, <2>12, <2>13, <2>14, <2>15, <2>16, <2>17
<1>5. CASE channel.items # <<>>
  <2> DEFINE n == Head(channel.items)
  <2>1. /\ messages' = Append(messages, Terminal!Notification(n, turnNumber))
        /\ channel' = [channel EXCEPT !.items = Tail(channel.items)]
    BY <1>5 DEF Terminal!Listen
  <2>2. n \in Notes /\ Tail(channel.items) \in Seq(Notes) BY <1>2, <1>5, RestOfQueue
  <2>3. /\ channel' = [items |-> Tail(channel.items), closed |-> channel.closed]
    <3> HIDE DEF n
    <3> QED BY <1>2, <2>1
  <2>4. channel'.items = Tail(channel.items) /\ channel'.closed = channel.closed
    BY <2>3
  <2>5. OneAsk(channel.items, calls) BY DEF AskedOnce
  <2>6. /\ NoAsk(channel.items) => NoAsk(channel'.items) /\ ~Asks(n)
        /\ OneAsk(channel'.items, calls)
        /\ Asks(n) => NoAsk(channel'.items) /\ n.call = calls /\ ~NoAsk(channel.items)
        /\ EndsClosing(channel.items) /\ channel'.items # <<>> => EndsClosing(channel'.items)
        /\ EndsClosing(channel.items) /\ channel'.items = <<>> => n = Terminal!Cleared
    BY <1>2, <1>5, <2>4, <2>5, RestOfQueue
  <2> HIDE DEF n
  <2>7. /\ messages' \in Seq(Messages) /\ ~NoNote(messages') /\ OneNote(messages')
        /\ NotesOf(messages', turnNumber)
        /\ NoDone(messages') <=> NoDone(messages)
        /\ OneDone(messages) => OneDone(messages')
        /\ ~Asks(n) => NotesAskNothing(messages')
        /\ NotesAsk(messages', n.call)
        /\ ~Asks(n) => NotesAsk(messages', calls)
        /\ n = Terminal!Cleared => NotesClose(messages')
    BY <1>2, <1>3, <2>1, <2>2, AppendNote
  <2>8. NotesAsk(messages', calls) BY <2>6, <2>7
  <2>9. NotesAskNothing(messages) BY <1>3 DEF NoNote, NotesAskNothing
  <2>11. TerminalTypes' BY <1>1, <1>2, <2>2, <2>3, <2>4, <2>7 DEF TerminalTypes
  <2>12. ListenerBrings' BY <1>1, <2>7 DEF ListenerBrings
  <2>13. TurnIsUnderWay' BY <1>1, <2>7 DEF TurnIsUnderWay, Terminal!MustAsk, Terminal!Active
  <2>10. turnStage \notin {"none", "starting"} BY <1>5 DEF ChannelFollows
  <2>14. ChannelFollows' BY <1>1, <2>4, <2>10 DEF ChannelFollows
  <2>15. LastWordCloses' BY <1>1, <1>5, <2>6, <2>7 DEF LastWordCloses
  <2>16. AskedOnce' BY <1>1, <2>6, <2>7, <2>8, <2>9 DEF AskedOnce, Terminal!MustAsk, Terminal!Active
  <2>17. PromptFollows' BY <1>1, <1>5 DEF PromptFollows
  <2> QED BY <2>11, <2>12, <2>13, <2>14, <2>15, <2>16, <2>17
<1> QED BY <1>4, <1>5

\* The answer to a menu is given for the call it shows.
LEMMA DecisionKeeps ==
  ASSUME TerminalInv, Terminal!Answer
  PROVE  TerminalInv'
<1> USE DEF TerminalInv
<1>1. /\ readMode = "approval" /\ readMode' = "loop"
      /\ menu' = [menu EXCEPT !.submitted = TRUE] /\ approvals' = Append(approvals, menu.call)
      /\ UNCHANGED <<messages, turnNumber, cancellation, listening, channel, turnStage, heldCall,
           produced, calls>>
  BY DEF Terminal!Answer
<1>2. /\ menu' = [call |-> menu.call, submitted |-> TRUE]
      /\ menu'.call = menu.call /\ menu'.submitted = TRUE /\ menu.call \in Nat
  BY <1>1 DEF TerminalTypes
<1>3. Terminal!MustAsk BY <1>1 DEF TurnIsUnderWay
<1>4. approvals = <<>> /\ menu.call = calls BY <1>3 DEF AskedOnce
<1>5. approvals' = <<calls>> /\ approvals' \in Seq(Nat)
  <2>1. Append(<<>>, calls) = <<calls>> OBVIOUS
  <2>2. approvals' = <<calls>> BY <1>1, <1>4, <2>1
  <2> QED BY <2>2, <1>2, <1>4
<1>6. /\ NoAsk(produced) /\ NoAsk(channel.items) /\ NotesAskNothing(messages)
      /\ turnStage \notin {"none", "starting", "running"}
  BY <1>3 DEF AskedOnce
<1>7. menu # Terminal!Closed BY <1>3 DEF Terminal!MustAsk, Terminal!Active, Terminal!Closed,
        Terminal!NoCall
<1>11. TerminalTypes' BY <1>1, <1>2, <1>5 DEF TerminalTypes
<1>12. ListenerBrings' BY <1>1 DEF ListenerBrings
<1>13. TurnIsUnderWay' BY <1>1 DEF TurnIsUnderWay
<1>14. ChannelFollows' BY <1>1, <1>6 DEF ChannelFollows
<1>15. LastWordCloses' BY <1>1, <1>7 DEF LastWordCloses
<1>16. AskedOnce' BY <1>1, <1>2, <1>5, <1>6 DEF AskedOnce, Terminal!MustAsk
<1>17. PromptFollows' BY <1>1 DEF PromptFollows
<1> QED BY <1>11, <1>12, <1>13, <1>14, <1>15, <1>16, <1>17

\* A new turn finds nothing of the last.
LEMMA SubmitKeeps ==
  ASSUME TerminalInv, Terminal!Submit
  PROVE  TerminalInv'
<1> USE DEF TerminalInv
<1>1. /\ readMode = "prompt" /\ readMode' = "loop" /\ turnNumber' = turnNumber + 1
      /\ cancellation' = "running" /\ menu' = Terminal!Closed /\ listening' = TRUE
      /\ channel' = [items |-> <<>>, closed |-> FALSE]
      /\ approvals' = <<>> /\ turnStage' = "starting"
      /\ messages' = messages /\ heldCall' = heldCall /\ produced' = produced /\ calls' = calls
  BY DEF Terminal!Submit, Terminal!submitPrompt, Terminal!NewApprovals
<1>2. NoNote(messages) /\ produced = <<>> BY <1>1 DEF PromptFollows
<1>3. NoDone(messages) /\ OneDone(messages) BY <1>1 DEF TurnIsUnderWay
<1>4. /\ channel'.items = <<>> /\ channel'.closed = FALSE
      /\ channel' = [items |-> channel'.items, closed |-> channel'.closed]
      /\ <<>> \in Seq(Notes) /\ <<>> \in Seq(Nat)
  BY <1>1
<1>5. /\ menu'.call = 0 /\ menu'.submitted = FALSE
      /\ menu' = [call |-> menu'.call, submitted |-> menu'.submitted]
  BY <1>1 DEF Terminal!Closed, Terminal!NoCall
<1>6. /\ NotesOf(messages, turnNumber') /\ NotesAskNothing(messages) /\ OneNote(messages)
      /\ NotesAsk(messages, calls)
      /\ NoAsk(<<>>) /\ OneAsk(<<>>, calls)
  BY <1>2 DEF NoNote, NotesOf, NotesAskNothing, OneNote, NotesAsk, NoAsk, OneAsk
<1>7. menu'.submitted \in BOOLEAN BY <1>1 DEF Terminal!Closed
<1>8. channel'.closed \in BOOLEAN BY <1>1
<1>11. TerminalTypes' BY <1>1, <1>2, <1>4, <1>5, <1>7, <1>8 DEF TerminalTypes
<1>12. ListenerBrings' BY <1>1, <1>2, <1>6 DEF ListenerBrings
<1>13. TurnIsUnderWay' BY <1>1, <1>3 DEF TurnIsUnderWay
<1>14. ChannelFollows' BY <1>1, <1>2, <1>4 DEF ChannelFollows
<1>15. LastWordCloses' BY <1>1 DEF LastWordCloses
<1>16. AskedOnce' BY <1>1, <1>2, <1>4, <1>5, <1>6 DEF AskedOnce, Terminal!MustAsk, Terminal!Active,
         Terminal!NoCall
<1>17. PromptFollows' BY <1>1 DEF PromptFollows
<1> QED BY <1>11, <1>12, <1>13, <1>14, <1>15, <1>16, <1>17

\* A message leaves the inbox for the mode the loop goes on in.
Dispatched(then) ==
  /\ messages # <<>> /\ readMode' = then /\ then \in {"loop", "prompt", "stopped"}
  /\ then = "prompt" => readMode = "prompt"

\* A notification shows what it says.
LEMMA NotificationKeeps ==
  ASSUME TerminalInv, NEW then, Dispatched(then), Terminal!UpdateNotification(Head(messages)),
         messages' = Tail(messages)
  PROVE  TerminalInv'
<1> USE DEF TerminalInv
<1> DEFINE m == Head(messages)
           n == m.body
<1>1. /\ messages # <<>> /\ readMode' = then /\ then \in {"loop", "prompt", "stopped"}
      /\ then = "prompt" => readMode = "prompt"
  BY DEF Dispatched
<1>2. messages \in Seq(Messages) /\ calls \in Nat /\ turnNumber \in Nat BY DEF TerminalTypes
<1>3. /\ Note(m) /\ menu' = (IF m.turn = turnNumber THEN Terminal!Shows(n) ELSE menu)
      /\ listening' = TRUE
      /\ UNCHANGED <<turnNumber, cancellation, channel, approvals, turnStage, heldCall, produced,
           calls>>
  BY DEF Terminal!UpdateNotification, Note, Terminal!runtime
<1>4. /\ OneNote(messages) /\ NotesOf(messages, turnNumber) /\ NotesAsk(messages, calls)
      /\ OneDone(messages)
  BY DEF ListenerBrings, AskedOnce, TurnIsUnderWay
<1>5. /\ messages' \in Seq(Messages) /\ m \in Messages /\ NoNote(messages') /\ ~NoNote(messages)
      /\ OneNote(messages') /\ NotesOf(messages', turnNumber) /\ m.turn = turnNumber
      /\ OneDone(messages') /\ (NoDone(messages) => NoDone(messages'))
      /\ NotesAsk(messages', calls) /\ (Asks(n) => n.call = calls /\ ~NotesAskNothing(messages))
      /\ NotesClose(messages) => n = Terminal!Cleared
  BY <1>1, <1>2, <1>3, <1>4, RestOfInbox
<1>6. n \in Notes BY <1>3, <1>5, MessageKinds
<1>7. menu' = Terminal!Shows(n) BY <1>3, <1>5
<1> HIDE DEF n, m
<1>8. /\ Asks(n) => menu' = [call |-> calls, submitted |-> FALSE]
      /\ ~Asks(n) => menu' \in {menu, Terminal!Closed}
      /\ n = Terminal!Cleared => menu' = Terminal!Closed
  <2>1. CASE Asks(n)
    <3>1. n # Terminal!Cleared BY <2>1, <1>6, NoteKinds
    <3>2. n.kind = "ToolApprovalRequested" BY <2>1 DEF Asks
    <3> QED BY <2>1, <3>1, <3>2, <1>5, <1>7 DEF Terminal!Shows
  <2>2. CASE ~Asks(n)
    <3>1. n.kind # "ToolApprovalRequested" BY <2>2 DEF Asks
    <3>2. menu' \in {menu, Terminal!Closed} BY <3>1, <1>7 DEF Terminal!Shows
    <3>3. n = Terminal!Cleared => n.kind = "ToolApprovalCleared" BY DEF Terminal!Cleared
    <3>4. n = Terminal!Cleared => menu' = Terminal!Closed BY <3>1, <3>3, <1>7 DEF Terminal!Shows
    <3> QED BY <2>2, <3>2, <3>4
  <2> QED BY <2>1, <2>2
<1>9. NotesAskNothing(messages') BY <1>5 DEF NoNote, NotesAskNothing
<1>10. /\ menu' = [call |-> menu'.call, submitted |-> menu'.submitted]
       /\ menu'.call \in Nat /\ menu'.submitted \in BOOLEAN
  <2>1. CASE menu' = menu BY <2>1 DEF TerminalTypes
  <2>2. CASE menu' = Terminal!Closed BY <2>2 DEF Terminal!Closed, Terminal!NoCall
  <2>3. CASE menu' = [call |-> calls, submitted |-> FALSE] BY <2>3, <1>2
  <2> QED BY <2>1, <2>2, <2>3, <1>8
<1>20. readMode' \notin {"prompt", "approval", "yielded"}
  BY <1>1, <1>5 DEF PromptFollows
<1>21. turnStage \notin {"none", "starting"} BY <1>5 DEF ChannelFollows
<1>11. TerminalTypes' BY <1>1, <1>3, <1>5, <1>10 DEF TerminalTypes
<1>12. ListenerBrings' BY <1>3, <1>5 DEF ListenerBrings
<1>13. TurnIsUnderWay' BY <1>3, <1>5, <1>20 DEF TurnIsUnderWay
<1>14. ChannelFollows' BY <1>3, <1>21 DEF ChannelFollows
<1>15. LastWordCloses' BY <1>3, <1>5, <1>8 DEF LastWordCloses
<1>16. AskedOnce'
  <2>1. CASE Asks(n)
    <3>1. menu'.call = calls BY <2>1, <1>8
    <3>2. /\ NoAsk(produced) /\ NoAsk(channel.items) /\ approvals = <<>>
          /\ turnStage \notin {"none", "starting", "running"}
      BY <2>1, <1>5 DEF AskedOnce
    <3> QED BY <1>3, <1>5, <1>9, <3>1, <3>2 DEF AskedOnce
  <2>2. CASE ~Asks(n)
    <3>1. Terminal!MustAsk' => Terminal!MustAsk /\ menu' = menu
      BY <2>2, <1>8 DEF Terminal!MustAsk, Terminal!Active, Terminal!Closed, Terminal!NoCall
    <3> QED BY <1>3, <1>5, <1>9, <3>1 DEF AskedOnce
  <2> QED BY <2>1, <2>2
<1>17. PromptFollows' BY <1>20 DEF PromptFollows
<1> QED BY <1>11, <1>12, <1>13, <1>14, <1>15, <1>16, <1>17

\* The end of a turn.
LEMMA FinishKeeps ==
  ASSUME TerminalInv, NEW then, Dispatched(then), Terminal!finishSubmit(Head(messages)),
         messages' = Tail(messages)
  PROVE  TerminalInv'
<1> USE DEF TerminalInv
<1> DEFINE m == Head(messages)
<1>1. /\ messages # <<>> /\ readMode' = then /\ then \in {"loop", "prompt", "stopped"}
      /\ then = "prompt" => readMode = "prompt"
  BY DEF Dispatched
<1>2. messages \in Seq(Messages) /\ calls \in Nat BY DEF TerminalTypes
<1>3. /\ Done(m) /\ ~Note(m) /\ cancellation' = "none"
      /\ UNCHANGED <<turnNumber, menu, listening, channel, approvals, turnStage, heldCall, produced,
           calls>>
  BY DEF Terminal!finishSubmit, Note, Done, Terminal!runtime
<1>4. /\ OneNote(messages) /\ NotesOf(messages, turnNumber) /\ NotesAsk(messages, calls)
      /\ OneDone(messages)
  BY DEF ListenerBrings, AskedOnce, TurnIsUnderWay
<1>5. /\ messages' \in Seq(Messages) /\ (NoNote(messages') <=> NoNote(messages))
      /\ OneNote(messages')
      /\ NotesOf(messages', turnNumber) /\ OneDone(messages') /\ NoDone(messages')
      /\ ~NoDone(messages)
      /\ NotesAsk(messages', calls) /\ (NotesAskNothing(messages') <=> NotesAskNothing(messages))
      /\ NotesClose(messages) => NotesClose(messages')
  BY <1>1, <1>2, <1>3, <1>4, RestOfInbox
<1>6. turnStage = "over" /\ cancellation # "none" BY <1>5 DEF TurnIsUnderWay
<1> HIDE DEF m
<1>20. readMode' \notin {"prompt", "approval", "yielded"} BY <1>1, <1>6 DEF TurnIsUnderWay
<1>11. TerminalTypes' BY <1>1, <1>3, <1>5 DEF TerminalTypes
<1>12. ListenerBrings' BY <1>3, <1>5 DEF ListenerBrings
<1>13. TurnIsUnderWay' BY <1>3, <1>5, <1>6, <1>20 DEF TurnIsUnderWay
<1>14. ChannelFollows' BY <1>3, <1>5 DEF ChannelFollows
<1>15. LastWordCloses' BY <1>3, <1>5 DEF LastWordCloses
<1>16. AskedOnce' BY <1>3, <1>5 DEF AskedOnce, Terminal!MustAsk, Terminal!Active
<1>17. PromptFollows' BY <1>20 DEF PromptFollows
<1> QED BY <1>11, <1>12, <1>13, <1>14, <1>15, <1>16, <1>17

\* A message that is a key or asks the loop to stop.
LEMMA KeyKeeps ==
  ASSUME TerminalInv, NEW then, Dispatched(then), ~Note(Head(messages)), ~Done(Head(messages)),
         messages' = Tail(messages) \/ messages' = Append(Tail(messages), Terminal!QuitMsg),
         \/ cancellation' = cancellation
         \/ cancellation # "none" /\ cancellation' = "cancelled",
         \/ produced' = produced
         \/ turnStage \in {"running", "waiting"} /\
              produced' = produced \o <<Terminal!Status(FALSE), Terminal!Cleared>>,
         UNCHANGED <<turnNumber, menu, listening, channel, approvals, turnStage, heldCall, calls>>
  PROVE  TerminalInv'
<1> USE DEF TerminalInv
<1> DEFINE m == Head(messages)
<1>1. /\ messages # <<>> /\ readMode' = then /\ then \in {"loop", "prompt", "stopped"}
      /\ then = "prompt" => readMode = "prompt"
  BY DEF Dispatched
<1>2. messages \in Seq(Messages) /\ calls \in Nat /\ produced \in Seq(Notes) BY DEF TerminalTypes
<1>4. /\ OneNote(messages) /\ NotesOf(messages, turnNumber) /\ NotesAsk(messages, calls)
      /\ OneDone(messages)
  BY DEF ListenerBrings, AskedOnce, TurnIsUnderWay
<1> DEFINE r == Tail(messages)
<1>5. /\ r \in Seq(Messages) /\ (NoNote(r) <=> NoNote(messages)) /\ OneNote(r)
      /\ NotesOf(r, turnNumber) /\ OneDone(r) /\ (NoDone(r) <=> NoDone(messages))
      /\ NotesAsk(r, calls) /\ (NotesAskNothing(r) <=> NotesAskNothing(messages))
      /\ NotesClose(messages) => NotesClose(r)
  BY <1>1, <1>2, <1>4, RestOfInbox
<1>7. messages' = r \/ messages' = Append(r, Terminal!QuitMsg) OBVIOUS
<1> HIDE DEF m, r
<1>6. /\ messages' \in Seq(Messages) /\ (NoNote(messages') <=> NoNote(messages))
      /\ OneNote(messages')
      /\ NotesOf(messages', turnNumber) /\ OneDone(messages')
      /\ (NoDone(messages') <=> NoDone(messages))
      /\ NotesAsk(messages', calls) /\ (NotesAskNothing(messages') <=> NotesAskNothing(messages))
      /\ NotesClose(messages) => NotesClose(messages')
  <2>1. CASE messages' = r BY <2>1, <1>5
  <2>2. CASE messages' = Append(r, Terminal!QuitMsg) BY <2>2, <1>5, MessageKinds, AppendKey
  <2> QED BY <2>1, <2>2, <1>7
<1>8. /\ produced' \in Seq(Notes) /\ OneAsk(produced', calls)
      /\ (NoAsk(produced') <=> NoAsk(produced))
      /\ produced' = produced \/ turnStage \in {"running", "waiting"}
  <2>1. OneAsk(produced, calls) BY DEF AskedOnce
  <2>2. CASE produced' = produced BY <2>1, <2>2, <1>2
  <2>3. CASE /\ turnStage \in {"running", "waiting"}
             /\ produced' = produced \o <<Terminal!Status(FALSE), Terminal!Cleared>>
    BY <2>1, <2>3, <1>2, LastWords
  <2> QED BY <2>2, <2>3
<1>9. /\ (cancellation' = "none" <=> cancellation = "none")
      /\ cancellation' \in {"none", "running", "cancelled"}
  BY DEF TerminalTypes
<1>11. TerminalTypes' BY <1>1, <1>6, <1>8, <1>9 DEF TerminalTypes
<1>12. ListenerBrings' BY <1>6 DEF ListenerBrings
<1>13. TurnIsUnderWay' BY <1>1, <1>6, <1>9 DEF TurnIsUnderWay
<1>14. ChannelFollows' BY <1>6, <1>8 DEF ChannelFollows
<1>15. LastWordCloses' BY <1>6, <1>8 DEF LastWordCloses
<1>16. AskedOnce' BY <1>6, <1>8 DEF AskedOnce, Terminal!MustAsk, Terminal!Active
<1>17. PromptFollows' BY <1>1, <1>6, <1>8 DEF PromptFollows
<1> QED BY <1>11, <1>12, <1>13, <1>14, <1>15, <1>16, <1>17

\* One message of any kind.
LEMMA DispatchKeeps ==
  ASSUME TerminalInv, NEW then \in {"loop", "prompt"}, then = "prompt" => readMode = "prompt",
         Terminal!Dispatch(then)
  PROVE  TerminalInv'
<1> DEFINE m == Head(messages)
<1>1. messages # <<>> BY DEF Terminal!Dispatch
<1>2. CASE /\ m.kind = "quit" /\ readMode' = "stopped" /\ messages' = Tail(messages)
           /\ UNCHANGED <<turnNumber, cancellation, menu, listening, Terminal!runtime>>
  <2>1. Dispatched("stopped") BY <1>1, <1>2 DEF Dispatched
  <2>2. ~Note(m) /\ ~Done(m) BY <1>2 DEF Note, Done
  <2> QED BY <1>2, <2>1, <2>2, KeyKeeps DEF Terminal!runtime
<1>3. CASE /\ m.kind # "quit" /\ readMode' = then
           /\ messages' = IF m.kind = "ctrl+c" /\ ~Terminal!Active /\ cancellation = "none"
                       THEN Append(Tail(messages), Terminal!QuitMsg) ELSE Tail(messages)
           /\ Terminal!update(m)
  <2>1. Dispatched(then) BY <1>1, <1>3 DEF Dispatched
  <2>2. CASE Terminal!UpdateNotification(m)
    <3>1. messages' = Tail(messages) BY <1>3, <2>2 DEF Terminal!UpdateNotification
    <3> QED BY <2>1, <2>2, <3>1, NotificationKeeps
  <2>3. CASE Terminal!finishSubmit(m)
    <3>1. messages' = Tail(messages) BY <1>3, <2>3 DEF Terminal!finishSubmit
    <3> QED BY <2>1, <2>3, <3>1, FinishKeeps
  <2>4. CASE Terminal!cancelRun(m) \/ Terminal!QuitKey(m)
    <3>1. ~Note(m) /\ ~Done(m) BY <2>4 DEF Terminal!cancelRun, Terminal!QuitKey, Note, Done
    <3>2. messages' = Tail(messages) \/ messages' = Append(Tail(messages), Terminal!QuitMsg) BY <1>3
    <3>3. /\ UNCHANGED <<turnNumber, menu, listening, channel, approvals, turnStage, heldCall,
               calls>>
          /\ \/ cancellation' = cancellation
             \/ cancellation # "none" /\ cancellation' = "cancelled"
          /\ \/ produced' = produced
             \/ turnStage \in {"running", "waiting"} /\
                  produced' = produced \o <<Terminal!Status(FALSE), Terminal!Cleared>>
      BY <2>4 DEF Terminal!cancelRun, Terminal!QuitKey, Terminal!runtime
    <3> HIDE DEF m
    <3> QED BY <2>1, <3>1, <3>2, <3>3, KeyKeeps DEF m
  <2> QED BY <1>3, <2>2, <2>3, <2>4 DEF Terminal!update
<1> QED BY <1>2, <1>3 DEF Terminal!Dispatch

-----------------------------------------------------------------------------
(* The loop itself.                                                        *)

\* Nothing moves but the loop, on to where it may be.
LEMMA LoopMoves ==
  ASSUME TerminalInv, readMode' \in {"loop", "approval", "yielded", "prompt", "stopped"},
         UNCHANGED <<messages, turnNumber, cancellation, menu, listening, Terminal!runtime>>,
         readMode' \in {"yielded", "prompt"} => cancellation = "none",
         readMode' = "approval" => Terminal!MustAsk,
         PromptFollows'
  PROVE  TerminalInv'
<1> USE DEF TerminalInv, Terminal!runtime
<1>11. TerminalTypes' BY DEF TerminalTypes
<1>12. ListenerBrings' BY DEF ListenerBrings
<1>13. TurnIsUnderWay' BY DEF TurnIsUnderWay, Terminal!MustAsk, Terminal!Active
<1>14. ChannelFollows' BY DEF ChannelFollows
<1>15. LastWordCloses' BY DEF LastWordCloses
<1>16. AskedOnce' BY DEF AskedOnce, Terminal!MustAsk, Terminal!Active
<1> QED BY <1>11, <1>12, <1>13, <1>14, <1>15, <1>16

\* The prompt comes when the re-check has found nothing.
LEMMA LoopKeeps ==
  ASSUME TerminalInv,
         \/ Terminal!AskApproval \/ Terminal!AnswerIgnored \/ Terminal!Yield \/ Terminal!Recheck
         \/ Terminal!EmptyLine \/ Terminal!EndOfInput
  PROVE  TerminalInv'
<1>1. UNCHANGED <<messages, turnNumber, cancellation, menu, listening, Terminal!runtime>>
  BY DEF Terminal!AskApproval, Terminal!AnswerIgnored, Terminal!Yield, Terminal!Recheck,
    Terminal!EmptyLine, Terminal!EndOfInput
<1>2. CASE \/ Terminal!AskApproval \/ Terminal!AnswerIgnored \/ Terminal!Yield
           \/ Terminal!EmptyLine \/ Terminal!EndOfInput
  <2>1. /\ readMode' \in {"loop", "approval", "yielded", "stopped"}
        /\ readMode' = "approval" => Terminal!MustAsk
        /\ readMode' = "yielded" => cancellation = "none"
    BY <1>2 DEF Terminal!AskApproval, Terminal!AnswerIgnored, Terminal!Yield, Terminal!EmptyLine,
      Terminal!EndOfInput
  <2>2. PromptFollows' BY <2>1 DEF PromptFollows
  <2> QED BY <1>1, <2>1, <2>2, LoopMoves
<1>3. CASE Terminal!Recheck
  <2>1. /\ readMode = "yielded" /\ ((channel.items = <<>> /\ ~channel.closed) \/ ~listening)
        /\ readMode' = IF messages = <<>> THEN "prompt" ELSE "loop"
    BY <1>3 DEF Terminal!Recheck, Terminal!OthersHaveRun, Terminal!ListenerRunnable
  <2>2. cancellation = "none" /\ turnStage \in {"none", "over"}
    BY <2>1 DEF TerminalInv, TurnIsUnderWay
  <2>3. channel.closed /\ produced = <<>> BY <2>2 DEF TerminalInv, ChannelFollows
  <2>4. messages = <<>> => NoNote(messages) BY DEF NoNote
  <2>5. messages = <<>> => channel.items = <<>>
    BY <2>1, <2>3, <2>4 DEF TerminalInv, ListenerBrings
  <2>6. messages = <<>> => menu = Terminal!Closed
    BY <2>2, <2>3, <2>4, <2>5 DEF TerminalInv, LastWordCloses, ChannelFollows
  <2>7. PromptFollows' BY <1>1, <2>1, <2>2, <2>3, <2>4, <2>5, <2>6 DEF PromptFollows,
          Terminal!runtime
  <2> QED BY <1>1, <2>1, <2>2, <2>7, LoopMoves
<1> QED BY <1>2, <1>3

\* A key may be pressed at any time.
LEMMA InterruptKeeps ==
  ASSUME TerminalInv, Terminal!Interrupt
  PROVE  TerminalInv'
<1> USE DEF TerminalInv
<1> DEFINE k == Terminal!Key(IF cancellation = "none" THEN 0 ELSE turnNumber)
<1>1. /\ messages' = Append(messages, k)
      /\ UNCHANGED <<readMode, turnNumber, cancellation, menu, listening, Terminal!runtime>>
  BY DEF Terminal!Interrupt
<1>2. messages \in Seq(Messages) /\ turnNumber \in Nat BY DEF TerminalTypes
<1>3. k \in Messages /\ ~Note(k) /\ ~Done(k) BY <1>2, MessageKinds
<1> HIDE DEF k
<1>11. TerminalTypes' BY <1>1, <1>2, <1>3, AppendKey DEF TerminalTypes, Terminal!runtime
<1>12. ListenerBrings' BY <1>1, <1>2, <1>3, AppendKey DEF ListenerBrings, Terminal!runtime
<1>13. TurnIsUnderWay' BY <1>1, <1>2, <1>3, AppendKey DEF TurnIsUnderWay, Terminal!MustAsk,
         Terminal!Active, Terminal!runtime
<1>14. ChannelFollows' BY <1>1, <1>2, <1>3, AppendKey DEF ChannelFollows, Terminal!runtime
<1>15. LastWordCloses' BY <1>1, <1>2, <1>3, AppendKey DEF LastWordCloses, Terminal!runtime
<1>16. AskedOnce' BY <1>1, <1>2, <1>3, AppendKey DEF AskedOnce, Terminal!MustAsk, Terminal!Active,
         Terminal!runtime
<1>17. PromptFollows' BY <1>1, <1>2, <1>3, AppendKey DEF PromptFollows, Terminal!runtime
<1> QED BY <1>11, <1>12, <1>13, <1>14, <1>15, <1>16, <1>17

\* Every step keeps the invariant.
LEMMA TerminalStep == TerminalInv /\ [Terminal!Next]_Terminal!vars => TerminalInv'
<1> SUFFICES ASSUME TerminalInv, [Terminal!Next]_Terminal!vars PROVE TerminalInv' OBVIOUS
<1>1. CASE Terminal!Runtime
  BY <1>1, BeforeTurnKeeps, HoldCallKeeps, TakeDecisionKeeps, EndTurnKeeps, BridgeKeeps,
     CloseChannelKeeps, ReportEndKeeps DEF Terminal!Runtime
<1>2. CASE Terminal!Listen BY <1>2, ListenKeeps
<1>3. CASE Terminal!Loop
  <2>1. CASE Terminal!DispatchNext BY <2>1, DispatchKeeps DEF Terminal!DispatchNext
  <2>2. CASE Terminal!DispatchAtPrompt BY <2>2, DispatchKeeps DEF Terminal!DispatchAtPrompt
  <2> QED BY <1>3, <2>1, <2>2, LoopKeeps DEF Terminal!Loop
<1>4. CASE Terminal!User
  BY <1>4, DecisionKeeps, SubmitKeeps, LoopKeeps, InterruptKeeps DEF Terminal!User
<1>5. CASE UNCHANGED Terminal!vars
  <2>1. UNCHANGED <<readMode, messages, turnNumber, cancellation, menu, listening,
          Terminal!runtime>>
    BY <1>5 DEF Terminal!vars, Terminal!terminal
  <2>2. readMode' \in {"loop", "approval", "yielded", "prompt", "stopped"}
    BY <2>1 DEF TerminalInv, TerminalTypes
  <2>3. readMode' \in {"yielded", "prompt"} => cancellation = "none"
    BY <2>1 DEF TerminalInv, TurnIsUnderWay
  <2>4. readMode' = "approval" => Terminal!MustAsk BY <2>1 DEF TerminalInv, TurnIsUnderWay
  <2>5. PromptFollows' BY <2>1 DEF TerminalInv, PromptFollows, Terminal!runtime
  <2> QED BY <2>1, <2>2, <2>3, <2>4, <2>5, LoopMoves
<1> QED BY <1>1, <1>2, <1>3, <1>4, <1>5 DEF Terminal!Next, Terminal!Stopped

\* Which is more than is promised.
LEMMA TerminalPromise == TerminalInv => Terminal!DecisionIsForItsCall /\ Terminal!PromptIsLast
<1> SUFFICES ASSUME TerminalInv PROVE Terminal!DecisionIsForItsCall /\ Terminal!PromptIsLast OBVIOUS
<1>1. Terminal!DecisionIsForItsCall
  <2> SUFFICES ASSUME turnStage = "waiting", approvals # <<>> PROVE Head(approvals) = heldCall
    BY DEF Terminal!DecisionIsForItsCall
  <2>1. approvals = <<calls>> /\ heldCall = calls BY DEF TerminalInv, AskedOnce
  <2> QED BY <2>1
<1>2. Terminal!PromptIsLast
  BY DEF TerminalInv, TurnIsUnderWay, PromptFollows, Terminal!PromptIsLast, NoNote, Note
<1> QED BY <1>1, <1>2

\* tui/update.py, tui/approval/model.py, tui/terminal.py: a decision is taken for
\* the call the user was shown when giving it, and the terminal only blocks on a
\* prompt when the last turn is over and all it said has been shown; for any
\* number of turns, calls and keys, with failing hooks, and whether or not
\* messages are handled between two keys.
THEOREM DecisionAlwaysForItsCall ==
  Terminal!Spec => [](Terminal!DecisionIsForItsCall /\ Terminal!PromptIsLast)
<1>1. Terminal!Init => TerminalInv BY TerminalInit
<1> QED BY <1>1, TerminalStep, TerminalPromise, PTL DEF Terminal!Spec

-----------------------------------------------------------------------------
(* The reply on its way to the scrollback.                                 *)

ReplyTexts == [of : Nat, length : Nat]
ReplyMessages ==
  [role : {"assistant", "tool", "user", "system"}, id : Nat, content : ReplyTexts, reasoning : ReplyTexts,
   calls : BOOLEAN, interrupted : BOOLEAN]
ReplyNotes == [kind : {"StreamChunkReceived", "MessageAppended"}, message : ReplyMessages]
ReplyParts ==
  [what : {"content", "reasoning", "thinking", "calls", "notice", "result"},
   of : Nat \ {0}, n : Nat \ {0}]

\* A text is the first pieces of its message; only a reply has one.
WellMade(m) ==
  /\ m.role # "system" /\ (m.role # "user" => m.id # 0)
  /\ m.role = "assistant" => /\ m.content = Reply!Text(m.id, m.content.length)
                             /\ m.reasoning = Reply!Text(m.id, m.reasoning.length)
  /\ m.role # "assistant" => m.content = Reply!NoText /\ ~m.calls

IsChunk(n) == n.kind = "StreamChunkReceived"
IsCommit(n) == n.kind = "MessageAppended" /\ n.message.role = "assistant"
IsAnswer(n) == n.kind = "MessageAppended" /\ n.message.role = "tool"

Commits(m, ch) == \E i \in DOMAIN ch : IsCommit(ch[i]) /\ ch[i].message.id = m
Answers(m, ch) == \E i \in DOMAIN ch : IsAnswer(ch[i]) /\ ch[i].message.id = m

\* Reply m is not committed yet, or its commit is still on its way.
Unsettled(m, ch, md) == m > md \/ Commits(m, ch)

\* What a chunk says is no more than what its reply says in the end.
Within(m, ch, md, rp) ==
  /\ m.id <= md + 1 /\ (m.id <= md => Commits(m.id, ch))
  /\ m.id = md + 1 => m.content.length <= rp.c /\ m.reasoning.length <= rp.r

ChunkShape(m) ==
  /\ m \in ReplyMessages /\ WellMade(m) /\ m.role = "assistant" /\ ~m.calls
  /\ m.content.length + m.reasoning.length > 0

NoteOK(n, ch, md, rp) ==
  /\ WellMade(n.message)
  /\ IsChunk(n) => ChunkShape(n.message) /\ Within(n.message, ch, md, rp)
  /\ IsCommit(n) \/ IsAnswer(n) => n.message.id <= md

\* The order in which the notifications of a turn are made.
Before(x, y) ==
  /\ x.message.role = "assistant" /\ y.message.role = "assistant" =>
       /\ x.message.id <= y.message.id
       /\ IsCommit(x) => x.message.id < y.message.id
       /\ x.message.id = y.message.id => /\ x.message.content.length <= y.message.content.length
                                         /\ x.message.reasoning.length <= y.message.reasoning.length
  /\ x.message.role = "tool" /\ y.message.role = "tool" => x.message.id # y.message.id

ChannelOK(ch, md, rp) ==
  /\ ch \in Seq(ReplyNotes)
  /\ \A i \in DOMAIN ch : NoteOK(ch[i], ch, md, rp)
  /\ \A i, j \in DOMAIN ch : i < j => Before(ch[i], ch[j])

\* What has been streamed is a chunk that comes before all that is on its way.
ChunkOf(m) == [kind |-> "StreamChunkReceived", message |-> m]
StreamedIs(m, s, ch, md, rp) ==
  /\ ChunkShape(m) /\ Within(m, ch, md, rp)
  /\ s = [content |-> m.content, reasoning |-> m.reasoning]
  /\ \A i \in DOMAIN ch : Before(ChunkOf(m), ch[i])

\* What is written of a reply that is not settled is what has been streamed.
Length(what, m, s) ==
  IF what = "content" THEN (IF s.content.of = m THEN s.content.length ELSE 0)
  ELSE (IF s.reasoning.of = m THEN s.reasoning.length ELSE 0)
Holds(p, part) == \E i \in DOMAIN p : p[i] = part

PartOK(x, s, ch, md) ==
  /\ x.what \in {"content", "reasoning"} /\ Unsettled(x.of, ch, md) =>
       x.n <= Length(x.what, x.of, s)
  /\ x.what \in {"thinking", "calls", "notice"} => ~Unsettled(x.of, ch, md)
  /\ x.what = "result" => x.of <= md /\ ~Answers(x.of, ch)

\* Nothing is written twice, and a text from its start.
Printable(p) ==
  /\ p \in Seq(ReplyParts)
  /\ \A i, j \in DOMAIN p : p[i] = p[j] => i = j
  /\ \A j \in DOMAIN p : p[j].n > 1 =>
       \E i \in 1..j - 1 : p[i] = Reply!Part(p[j].what, p[j].of, p[j].n - 1)

PrintedOK(p, s, ch, md) ==
  /\ Printable(p)
  /\ \A i \in DOMAIN p : PartOK(p[i], s, ch, md)
  /\ \A n \in 1..s.content.length : Holds(p, Reply!Part("content", s.content.of, n))
  /\ \A n \in 1..s.reasoning.length : Holds(p, Reply!Part("reasoning", s.reasoning.of, n))

Written(m, p) ==
  /\ \A n \in 1..m.content.length : Holds(p, Reply!Part("content", m.id, n))
  /\ m.role = "tool" => Holds(p, Reply!Part("result", m.id, 1))

\* A message that has been delivered.
Settled(m, p, ch, md) ==
  /\ WellMade(m) /\ Written(m, p)
  /\ m.role = "assistant" => ~Unsettled(m.id, ch, md)

MessagesOK(ms, p, ch, md) ==
  /\ ms \in Seq(ReplyMessages)
  /\ \A i \in DOMAIN ms : Reply!Heard(ms[i]) => Settled(ms[i], p, ch, md)

ReplyInv ==
  /\ Systems \in Nat
  /\ replies \in Nat /\ reply \in [c : Nat, r : Nat] /\ replaced \in Nat /\ turns \in Nat
  /\ running \in BOOLEAN /\ submitting \in BOOLEAN
  /\ ~running => reply = [c |-> 0, r |-> 0]
  /\ running => submitting
  /\ ChannelOK(wire, replies, reply)
  /\ \/ streaming = Reply!NoMessage /\ streamed = Reply!NothingStreamed
     \/ \E m \in ReplyMessages :
          /\ StreamedIs(m, streamed, wire, replies, reply)
          /\ streaming = m \/ (streaming = Reply!NoMessage /\ Reply!CallsNext /\ submitting)
  /\ PrintedOK(printed, streamed, wire, replies)
  /\ MessagesOK(shownMessages, printed, wire, replies) /\ rendered = Len(shownMessages)

\* A notification that is added at the end comes after the others.
LEMMA ChannelGrows ==
  ASSUME NEW ch, NEW md \in Nat, NEW rp, ChannelOK(ch, md, rp),
         NEW md2 \in Nat, NEW rp2, NEW n \in ReplyNotes,
         NoteOK(n, Append(ch, n), md2, rp2),
         \A i \in DOMAIN ch : NoteOK(ch[i], Append(ch, n), md2, rp2),
         \A i \in DOMAIN ch : Before(ch[i], n)
  PROVE  ChannelOK(Append(ch, n), md2, rp2)
<1> DEFINE new == Append(ch, n)
<1>1. ch \in Seq(ReplyNotes) /\ \A i, j \in DOMAIN ch : i < j => Before(ch[i], ch[j])
  BY DEF ChannelOK
<1>2. new \in Seq(ReplyNotes) /\ Len(new) = Len(ch) + 1 /\ new[Len(ch) + 1] = n
      /\ DOMAIN new = 1..Len(ch) + 1 /\ DOMAIN ch = 1..Len(ch) /\ Len(ch) \in Nat
      /\ \A i \in DOMAIN ch : new[i] = ch[i]
  BY <1>1
<1>3. ASSUME NEW i \in DOMAIN new PROVE NoteOK(new[i], new, md2, rp2)
  <2>1. CASE i = Len(ch) + 1 BY <2>1, <1>2
  <2>2. CASE i # Len(ch) + 1
    <3>1. i \in DOMAIN ch BY <2>2, <1>2
    <3> QED BY <3>1, <1>2
  <2> QED BY <2>1, <2>2
<1>4. ASSUME NEW i \in DOMAIN new, NEW j \in DOMAIN new, i < j PROVE Before(new[i], new[j])
  <2>1. i \in DOMAIN ch BY <1>2, <1>4
  <2>2. CASE j = Len(ch) + 1 BY <2>1, <2>2, <1>2
  <2>3. CASE j # Len(ch) + 1
    <3>1. j \in DOMAIN ch BY <2>3, <1>2
    <3> QED BY <2>1, <3>1, <1>1, <1>2, <1>4
  <2> QED BY <2>2, <2>3
<1> QED BY <1>2, <1>3, <1>4 DEF ChannelOK

\* What is committed in a channel stays so when it grows.
LEMMA CommitsGrow ==
  ASSUME NEW ch \in Seq(ReplyNotes), NEW n \in ReplyNotes, NEW m
  PROVE  /\ Commits(m, Append(ch, n)) <=> Commits(m, ch) \/ (IsCommit(n) /\ n.message.id = m)
         /\ Answers(m, Append(ch, n)) <=> Answers(m, ch) \/ (IsAnswer(n) /\ n.message.id = m)
<1> DEFINE new == Append(ch, n)
<1>1. DOMAIN new = DOMAIN ch \cup {Len(ch) + 1} /\ new[Len(ch) + 1] = n
      /\ \A i \in DOMAIN ch : new[i] = ch[i]
  OBVIOUS
<1> HIDE DEF new
<1> QED BY <1>1 DEF Commits, Answers, new

\* The first of a channel is behind nothing: what follows keeps its commit.
LEMMA ChannelShrinks ==
  ASSUME NEW ch, NEW md \in Nat, NEW rp, ChannelOK(ch, md, rp), ch # <<>>
  PROVE  /\ ChannelOK(Tail(ch), md, rp) /\ Head(ch) \in ReplyNotes /\ NoteOK(Head(ch), ch, md, rp)
         /\ \A i \in DOMAIN Tail(ch) : Before(Head(ch), Tail(ch)[i])
         /\ \A m : Commits(m, ch) <=> Commits(m, Tail(ch)) \/
              (IsCommit(Head(ch)) /\ Head(ch).message.id = m)
         /\ \A m : Answers(m, ch) <=> Answers(m, Tail(ch)) \/
              (IsAnswer(Head(ch)) /\ Head(ch).message.id = m)
<1> DEFINE new == Tail(ch)
           h == Head(ch)
<1>1. /\ ch \in Seq(ReplyNotes)
      /\ \A i, j \in DOMAIN ch : i < j => Before(ch[i], ch[j])
      /\ \A i \in DOMAIN ch : NoteOK(ch[i], ch, md, rp)
  BY DEF ChannelOK
<1>2. /\ new \in Seq(ReplyNotes) /\ h \in ReplyNotes /\ h = ch[1] /\ 1 \in DOMAIN ch
      /\ Len(new) = Len(ch) - 1 /\ DOMAIN new = 1..Len(ch) - 1 /\ DOMAIN ch = 1..Len(ch)
      /\ Len(ch) \in Nat
      /\ \A i \in DOMAIN new : i + 1 \in DOMAIN ch /\ new[i] = ch[i + 1]
      /\ \A i \in DOMAIN ch : i = 1 \/ (i - 1 \in DOMAIN new /\ new[i - 1] = ch[i])
  BY <1>1
<1> HIDE DEF new, h
<1>3. ASSUME NEW m PROVE Commits(m, ch) <=> Commits(m, new) \/ (IsCommit(h) /\ h.message.id = m)
  <2>1. ASSUME NEW i \in DOMAIN ch, IsCommit(ch[i]), ch[i].message.id = m
        PROVE  Commits(m, new) \/ (IsCommit(h) /\ h.message.id = m)
    <3>1. CASE i = 1 BY <3>1, <2>1, <1>2
    <3>2. CASE i # 1
      <4>1. i - 1 \in DOMAIN new /\ new[i - 1] = ch[i] BY <3>2, <1>2
      <4> QED BY <4>1, <2>1 DEF Commits
    <3> QED BY <3>1, <3>2
  <2>2. ASSUME NEW i \in DOMAIN new, IsCommit(new[i]), new[i].message.id = m PROVE Commits(m, ch)
    <3>1. i + 1 \in DOMAIN ch /\ ch[i + 1] = new[i] BY <1>2
    <3> QED BY <3>1, <2>2 DEF Commits
  <2>3. IsCommit(h) /\ h.message.id = m => Commits(m, ch) BY <1>2 DEF Commits
  <2> QED BY <2>1, <2>2, <2>3 DEF Commits
<1>4. ASSUME NEW m PROVE Answers(m, ch) <=> Answers(m, new) \/ (IsAnswer(h) /\ h.message.id = m)
  <2>1. ASSUME NEW i \in DOMAIN ch, IsAnswer(ch[i]), ch[i].message.id = m
        PROVE  Answers(m, new) \/ (IsAnswer(h) /\ h.message.id = m)
    <3>1. CASE i = 1 BY <3>1, <2>1, <1>2
    <3>2. CASE i # 1
      <4>1. i - 1 \in DOMAIN new /\ new[i - 1] = ch[i] BY <3>2, <1>2
      <4> QED BY <4>1, <2>1 DEF Answers
    <3> QED BY <3>1, <3>2
  <2>2. ASSUME NEW i \in DOMAIN new, IsAnswer(new[i]), new[i].message.id = m PROVE Answers(m, ch)
    <3>1. i + 1 \in DOMAIN ch /\ ch[i + 1] = new[i] BY <1>2
    <3> QED BY <3>1, <2>2 DEF Answers
  <2>3. IsAnswer(h) /\ h.message.id = m => Answers(m, ch) BY <1>2 DEF Answers
  <2> QED BY <2>1, <2>2, <2>3 DEF Answers
<1>5. \A i \in DOMAIN new : Before(h, new[i])
  <2> TAKE i \in DOMAIN new
  <2>1. i + 1 \in DOMAIN ch /\ 1 < i + 1 BY <1>2
  <2> QED BY <2>1, <1>1, <1>2
<1>6. ASSUME NEW i \in DOMAIN new, NEW j \in DOMAIN new, i < j PROVE Before(new[i], new[j])
  <2>1. i + 1 \in DOMAIN ch /\ j + 1 \in DOMAIN ch /\ i + 1 < j + 1 BY <1>2, <1>6
  <2> QED BY <2>1, <1>1, <1>2
<1>7. ASSUME NEW i \in DOMAIN new PROVE NoteOK(new[i], new, md, rp)
  <2>1. NoteOK(new[i], ch, md, rp) BY <1>1, <1>2
  <2>2. ASSUME IsChunk(new[i]) PROVE Within(new[i].message, new, md, rp)
    <3> DEFINE m == new[i].message
    <3>1. ChunkShape(m) /\ Within(m, ch, md, rp) BY <2>1, <2>2 DEF NoteOK
    <3>2. IsCommit(h) => h.message.id # m.id
      <4>1. Before(h, new[i]) BY <1>5
      <4>2. IsCommit(h) => h.message.role = "assistant" BY DEF IsCommit
      <4>3. m.role = "assistant" BY <3>1 DEF ChunkShape
      <4>4. h.message.id \in Nat /\ m.id \in Nat BY <1>2, <3>1 DEF ReplyNotes, ReplyMessages,
              ChunkShape
      <4> QED BY <4>1, <4>2, <4>3, <4>4 DEF Before
    <3> QED BY <3>1, <3>2, <1>3 DEF Within
  <2> QED BY <2>1, <2>2 DEF NoteOK
<1> QED BY <1>1, <1>2, <1>3, <1>4, <1>5, <1>6, <1>7 DEF ChannelOK, new, h

\* What is written next is new, and each piece of it follows its predecessor.
LEMMA SoundGrows ==
  ASSUME NEW p, Printable(p), NEW q \in Seq(ReplyParts),
         \A i, j \in DOMAIN q : q[i] = q[j] => i = j,
         \A i \in DOMAIN q : ~Holds(p, q[i]),
         \A j \in DOMAIN q : q[j].n > 1 =>
            \/ Holds(p, Reply!Part(q[j].what, q[j].of, q[j].n - 1))
            \/ \E i \in 1..j - 1 : q[i] = Reply!Part(q[j].what, q[j].of, q[j].n - 1)
  PROVE  /\ Printable(p \o q)
         /\ \A x : Holds(p \o q, x) <=> Holds(p, x) \/ Holds(q, x)
         /\ \A i \in DOMAIN (p \o q) : (\E j \in DOMAIN p : (p \o q)[i] = p[j])
                                       \/ \E j \in DOMAIN q : (p \o q)[i] = q[j]
<1> DEFINE r == p \o q
<1>1. p \in Seq(ReplyParts) BY DEF Printable
<1>2. r \in Seq(ReplyParts) /\ Len(p) \in Nat /\ Len(q) \in Nat /\ DOMAIN r = 1..Len(p) + Len(q)
      /\ DOMAIN p = 1..Len(p) /\ DOMAIN q = 1..Len(q)
      /\ (\A i \in DOMAIN p : i \in DOMAIN r /\ r[i] = p[i])
      /\ \A i \in DOMAIN q : Len(p) + i \in DOMAIN r /\ r[Len(p) + i] = q[i]
  BY <1>1
<1>3. \A i \in DOMAIN r : i \in DOMAIN p \/
        (i > Len(p) /\ i - Len(p) \in DOMAIN q /\ r[i] = q[i - Len(p)])
  BY <1>1
<1> HIDE DEF r
<1>4. \A x : Holds(r, x) <=> Holds(p, x) \/ Holds(q, x)
  BY <1>2, <1>3 DEF Holds
<1>5. ASSUME NEW i \in DOMAIN r, NEW j \in DOMAIN r, r[i] = r[j] PROVE i = j
  <2>1. CASE i \in DOMAIN p /\ j \in DOMAIN p BY <2>1, <1>2, <1>5 DEF Printable
  <2>2. CASE i \in DOMAIN p /\ j \notin DOMAIN p
    BY <2>2, <1>2, <1>3, <1>5 DEF Holds
  <2>3. CASE i \notin DOMAIN p /\ j \in DOMAIN p
    BY <2>3, <1>2, <1>3, <1>5 DEF Holds
  <2>4. CASE i \notin DOMAIN p /\ j \notin DOMAIN p
    <3>1. i - Len(p) = j - Len(p) BY <2>4, <1>3, <1>5
    <3> QED BY <3>1, <1>2
  <2> QED BY <2>1, <2>2, <2>3, <2>4
<1>6. ASSUME NEW j \in DOMAIN r, r[j].n > 1
      PROVE  \E i \in 1..j - 1 : r[i] = Reply!Part(r[j].what, r[j].of, r[j].n - 1)
  <2> DEFINE x == Reply!Part(r[j].what, r[j].of, r[j].n - 1)
  <2>1. CASE j \in DOMAIN p
    <3>1. r[j] = p[j] BY <2>1, <1>2
    <3>2. PICK i \in 1..j - 1 : p[i] = x BY <2>1, <3>1, <1>6 DEF Printable
    <3>3. i \in DOMAIN p BY <1>2, <2>1, <3>2
    <3> QED BY <3>2, <3>3, <1>2
  <2>2. CASE j \notin DOMAIN p
    <3> DEFINE k == j - Len(p)
    <3>1. k \in DOMAIN q /\ r[j] = q[k] /\ j > Len(p) BY <2>2, <1>3
    <3>2. CASE Holds(p, x)
      <4>1. PICK i \in DOMAIN p : p[i] = x BY <3>2 DEF Holds
      <4>2. i \in 1..j - 1 BY <3>1, <1>2
      <4> QED BY <4>1, <4>2, <1>2
    <3>3. CASE ~Holds(p, x)
      <4>1. PICK i \in 1..k - 1 : q[i] = x BY <3>1, <3>3, <1>6
      <4>2. i \in DOMAIN q /\ Len(p) + i \in 1..j - 1 BY <3>1, <4>1, <1>2
      <4> QED BY <4>1, <4>2, <1>2
    <3> QED BY <3>2, <3>3
  <2> QED BY <2>1, <2>2
<1>7. \A i \in DOMAIN r : (\E j \in DOMAIN p : r[i] = p[j]) \/ \E j \in DOMAIN q : r[i] = q[j]
  BY <1>2, <1>3
<1> QED BY <1>2, <1>4, <1>5, <1>6, <1>7 DEF Printable, r

\* A part has the fields it was made with.
LEMMA PartFields ==
  ASSUME NEW w, NEW o, NEW k
  PROVE  /\ Reply!Part(w, o, k).what = w /\ Reply!Part(w, o, k).of = o /\ Reply!Part(w, o, k).n = k
BY DEF Reply!Part

\* The rest of a text, when k pieces of it are written.
LEMMA PiecesFollow ==
  ASSUME NEW p, Printable(p), NEW w \in {"content", "reasoning"}, NEW text \in ReplyTexts,
         text.of # 0, NEW k \in Nat,
         \A i \in DOMAIN p : p[i].what = w /\ p[i].of = text.of => p[i].n <= k,
         k > 0 => Holds(p, Reply!Part(w, text.of, k))
  PROVE  /\ Reply!Pieces(w, text, k) \in Seq(ReplyParts)
         /\ Printable(p \o Reply!Pieces(w, text, k))
         /\ \A x : Holds(p \o Reply!Pieces(w, text, k), x) <=>
                     Holds(p, x) \/ \E n \in k + 1..text.length : x = Reply!Part(w, text.of, n)
<1> DEFINE q == Reply!Pieces(w, text, k)
           len == IF text.length > k THEN text.length - k ELSE 0
<1>1. text.length \in Nat /\ text.of \in Nat \ {0} BY DEF ReplyTexts
<1>2. DOMAIN q = 1..len /\ len \in Nat /\ 1..text.length - k = 1..len
      /\ q = [i \in 1..len |-> Reply!Part(w, text.of, k + i)]
  <2>1. 1..text.length - k = 1..len /\ len \in Nat BY <1>1
  <2> HIDE DEF len
  <2> QED BY <2>1 DEF Reply!Pieces
<1>3. \A n \in k + 1..text.length : n - k \in 1..len /\ k + (n - k) = n BY <1>1
<1>4. \A i \in 1..len : k + i \in k + 1..text.length /\ k + i \in Nat \ {0} BY <1>1
<1> HIDE DEF q, len
<1>5. \A n : Reply!Part(w, text.of, n) = [what |-> w, of |-> text.of, n |-> n] BY DEF Reply!Part
<1>0. \A i \in 1..len : /\ q[i] = [what |-> w, of |-> text.of, n |-> k + i]
                        /\ q[i] = Reply!Part(w, text.of, k + i)
  BY <1>2, <1>5
<1>11. \A i \in 1..len : q[i].what = w /\ q[i].of = text.of /\ q[i].n = k + i
  <2> TAKE i \in 1..len
  <2>1. q[i] = Reply!Part(w, text.of, k + i) BY <1>0
  <2> QED BY <2>1, PartFields
<1>12. q \in Seq(ReplyParts)
  <2>1. \A n \in Nat \ {0} : [what |-> w, of |-> text.of, n |-> n] \in ReplyParts
    BY <1>1 DEF ReplyParts
  <2>2. \A i \in 1..len : q[i] \in ReplyParts BY <1>0, <1>4, <2>1
  <2>3. q \in [1..len -> ReplyParts] BY <1>2, <1>0, <2>2
  <2> QED BY <2>3, <1>2
<1>6. ASSUME NEW i \in DOMAIN q, NEW j \in DOMAIN q, q[i] = q[j] PROVE i = j
  <2>1. q[i].n = k + i /\ q[j].n = k + j BY <1>2, <1>11
  <2> QED BY <2>1, <1>6, <1>2
<1>7. ASSUME NEW i \in DOMAIN q PROVE ~Holds(p, q[i])
  <2>1. q[i].what = w /\ q[i].of = text.of /\ q[i].n = k + i BY <1>2, <1>11
  <2>2. i \in 1..len BY <1>2
  <2>3. ~(k + i <= k) BY <2>2
  <2>4. ASSUME NEW j \in DOMAIN p PROVE p[j] # q[i] BY <2>1, <2>3
  <2> QED BY <2>4 DEF Holds
<1>8. ASSUME NEW j \in DOMAIN q, q[j].n > 1
      PROVE  \/ Holds(p, Reply!Part(q[j].what, q[j].of, q[j].n - 1))
             \/ \E i \in 1..j - 1 : q[i] = Reply!Part(q[j].what, q[j].of, q[j].n - 1)
  <2>0. j \in 1..len /\ j \in Nat BY <1>2
  <2>1. q[j] = [what |-> w, of |-> text.of, n |-> k + j] BY <2>0, <1>0
  <2>2. Reply!Part(q[j].what, q[j].of, q[j].n - 1) = Reply!Part(w, text.of, k + (j - 1))
    <3>3. q[j].what = w /\ q[j].of = text.of /\ q[j].n = k + j BY <2>0, <1>11
    <3>2. q[j].n - 1 = k + (j - 1) BY <3>3, <2>0
    <3> QED BY <3>2, <3>3
  <2>3. CASE j = 1
    <3>1. k > 0 /\ k + (j - 1) = k
      <4>1. q[j].n = k + j BY <2>1
      <4> QED BY <1>8, <4>1, <2>3
    <3> QED BY <2>2, <3>1
  <2>4. CASE j # 1
    <3>1. j - 1 \in 1..j - 1 /\ j - 1 \in 1..len BY <2>4, <2>0, <1>2
    <3> QED BY <2>2, <3>1, <1>0
  <2> QED BY <2>3, <2>4
<1>9. /\ Printable(p \o q)
      /\ \A x : Holds(p \o q, x) <=> Holds(p, x) \/ Holds(q, x)
  BY <1>12, <1>6, <1>7, <1>8, SoundGrows
<1>10. ASSUME NEW x
       PROVE  Holds(q, x) <=> \E n \in k + 1..text.length : x = Reply!Part(w, text.of, n)
  <2>1. ASSUME Holds(q, x) PROVE \E n \in k + 1..text.length : x = Reply!Part(w, text.of, n)
    <3>1. PICK i \in 1..len : x = Reply!Part(w, text.of, k + i) BY <2>1, <1>2, <1>0 DEF Holds
    <3> QED BY <3>1, <1>4
  <2>2. ASSUME NEW n \in k + 1..text.length, x = Reply!Part(w, text.of, n) PROVE Holds(q, x)
    BY <1>3, <2>2, <1>2, <1>0 DEF Holds
  <2> QED BY <2>1, <2>2
<1> QED BY <1>9, <1>10, <1>12 DEF q

\* A part that has no number.
LEMMA PartFollows ==
  ASSUME NEW p, Printable(p), NEW x \in ReplyParts, x.n = 1, ~Holds(p, x)
  PROVE  /\ Printable(p \o <<x>>)
         /\ \A y : Holds(p \o <<x>>, y) <=> Holds(p, y) \/ y = x
<1> DEFINE q == <<x>>
<1>1. q \in Seq(ReplyParts) /\ DOMAIN q = {1} /\ q[1] = x OBVIOUS
<1> HIDE DEF q
<1>2. /\ Printable(p \o q)
      /\ \A y : Holds(p \o q, y) <=> Holds(p, y) \/ Holds(q, y)
  BY <1>1, SoundGrows
<1>3. \A y : Holds(q, y) <=> y = x BY <1>1 DEF Holds
<1> QED BY <1>2, <1>3 DEF q

\* Writing the messages that are not written: none of them, or the one just added.
LEMMA WritesNone ==
  ASSUME NEW list, NEW s, NEW i \in Nat, Len(list) \in Nat, i > Len(list)
  PROVE  Reply!WriteFrom(i, list, s) = [out |-> <<>>, streamed |-> s]
<1>1. {k \in i..Len(list) : list[k].role = "assistant"} = {} OBVIOUS
<1> QED BY <1>1 DEF Reply!WriteFrom

\* Nothing that is written starts to stream.
LEMMA WritesStream ==
  ASSUME NEW list, NEW i
  PROVE  Reply!WriteFrom(i, list, Reply!NothingStreamed).streamed = Reply!NothingStreamed
BY DEF Reply!WriteFrom, Reply!Spent

\* What is written of the last message of a list, behind what was already
\* written.
LEMMA WritesOne ==
  ASSUME NEW S, NEW list \in Seq(S), NEW x \in S, NEW s
  PROVE  Reply!WriteFrom(Len(list) + 1, Append(list, x), s) =
           IF x.role = "assistant" /\ s # Reply!NothingStreamed
           THEN [out |-> <<>> \o Reply!Completion(x, s), streamed |-> Reply!NothingStreamed]
           ELSE [out |-> <<>> \o Reply!Committed(x), streamed |-> s]
<1> DEFINE new == Append(list, x)
           i == Len(list) + 1
           answers == {k \in i..Len(new) : new[k].role = "assistant"}
           completes(k) == s # Reply!NothingStreamed /\ k \in answers /\ \A j \in answers : k <= j
           one(k) == IF completes(k) THEN Reply!Completion(new[k], s) ELSE Reply!Committed(new[k])
           F(f) == f = [k \in i - 1..Len(new) |-> IF k < i THEN <<>> ELSE f[k - 1] \o one(k)]
           g == [k \in i - 1..i |-> IF k < i THEN <<>> ELSE <<>> \o one(k)]
           w == CHOOSE f : F(f)
<1>1. /\ Len(new) = i /\ new[i] = x /\ i \in Nat /\ i - 1 \in i - 1..i /\ i \in i - 1..i
      /\ i - 1 < i /\ ~(i < i) /\ ~(i > i) /\ i..i = {i} /\ i <= i
      /\ \A k \in i - 1..i : k < i \/ k = i
  OBVIOUS
<1>2. Reply!WriteFrom(i, new, s) =
        [out |-> w[i], streamed |-> IF answers = {} THEN s ELSE Reply!Spent(s)]
  <2>1. ~(i > Len(new)) BY <1>1
  <2> QED BY <2>1, <1>1 DEF Reply!WriteFrom
<1>3. answers = IF x.role = "assistant" THEN {i} ELSE {} BY <1>1
<1> HIDE DEF new, i, answers
<1>4. completes(i) <=> x.role = "assistant" /\ s # Reply!NothingStreamed BY <1>1, <1>3
<1>5. one(i) = IF x.role = "assistant" /\ s # Reply!NothingStreamed THEN Reply!Completion(x, s)
               ELSE Reply!Committed(x)
  BY <1>1, <1>4
<1> HIDE DEF one
<1>6. F(g)
  <2>1. g[i - 1] = <<>> BY <1>1
  <2>2. \A k \in i - 1..i : g[k] = IF k < i THEN <<>> ELSE g[k - 1] \o one(k) BY <1>1, <2>1
  <2> HIDE DEF g
  <2>3. g = [k \in i - 1..i |-> g[k]] BY DEF g
  <2> QED BY <2>2, <2>3, <1>1
<1>7. F(w) BY <1>6
<1>8. w[i] = <<>> \o one(i)
  <2> HIDE DEF w
  <2>1. w[i - 1] = <<>> BY <1>7, <1>1
  <2> QED BY <1>7, <1>1, <2>1
<1> HIDE DEF w
<1>9. s = Reply!NothingStreamed => s = Reply!Spent(s) BY DEF Reply!Spent
<1> QED BY <1>2, <1>3, <1>5, <1>8, <1>9 DEF new, i, Reply!Spent

-----------------------------------------------------------------------------
\* What a notification that is added says, next to the reply that streams.
Joins(n, ch, md, rp, md2, rp2) ==
  \/ /\ IsChunk(n) /\ ChunkShape(n.message) /\ n.message.id = md + 1 /\ md2 = md
     /\ rp.c <= rp2.c /\ rp.r <= rp2.r
     /\ n.message.content.length = rp2.c /\ n.message.reasoning.length = rp2.r
  \/ /\ IsCommit(n) /\ n.message.id = md + 1 /\ md2 = md + 1
     /\ n.message.content.length = rp.c /\ n.message.reasoning.length = rp.r
  \/ /\ IsAnswer(n) /\ n.message.id <= md /\ ~Answers(n.message.id, ch) /\ md2 = md /\ rp2 = rp
  \/ /\ n.kind = "MessageAppended" /\ n.message.role = "user" /\ md2 = md /\ rp2 = rp

\* A note in the channel stays as it should be when what is behind it grows.
LEMMA NoteStays ==
  ASSUME NEW x \in ReplyNotes, NEW ch, NEW md \in Nat, NEW rp \in [c : Nat, r : Nat],
             NoteOK(x, ch, md, rp),
         NEW ch2, NEW md2, NEW rp2 \in [c : Nat, r : Nat], \A i : Commits(i, ch) => Commits(i, ch2),
         \/ md2 = md /\ rp.c <= rp2.c /\ rp.r <= rp2.r
         \/ md2 = md + 1 /\ Commits(md + 1, ch2)
  PROVE  NoteOK(x, ch2, md2, rp2)
<1>1. x.message.id \in Nat /\ x.message.content.length \in Nat /\ x.message.reasoning.length \in Nat
  BY DEF ReplyNotes, ReplyMessages, ReplyTexts
<1>2. rp.c \in Nat /\ rp.r \in Nat /\ rp2.c \in Nat /\ rp2.r \in Nat OBVIOUS
<1>3. ASSUME IsChunk(x) PROVE Within(x.message, ch2, md2, rp2)
  <2>1. Within(x.message, ch, md, rp) BY <1>3 DEF NoteOK
  <2>2. CASE md2 = md /\ rp.c <= rp2.c /\ rp.r <= rp2.r BY <2>1, <2>2, <1>1, <1>2 DEF Within
  <2>3. CASE md2 = md + 1 /\ Commits(md + 1, ch2)
    <3>1. x.message.id <= md + 1 /\ (x.message.id <= md => Commits(x.message.id, ch2))
      BY <2>1 DEF Within
    <3>2. x.message.id <= md \/ x.message.id = md + 1 BY <3>1, <1>1
    <3>3. Commits(x.message.id, ch2) BY <3>1, <3>2, <2>3
    <3>4. x.message.id <= md2 + 1 /\ x.message.id # md2 + 1 BY <3>1, <2>3, <1>1
    <3> QED BY <3>3, <3>4 DEF Within
  <2> QED BY <2>2, <2>3
<1>4. IsCommit(x) \/ IsAnswer(x) => x.message.id <= md2 BY <1>1 DEF NoteOK
<1> QED BY <1>3, <1>4 DEF NoteOK

\* A note in the channel keeps its place before the next reply.
LEMMA BeforeNext ==
  ASSUME NEW x \in ReplyNotes, NEW ch, NEW md \in Nat, NEW rp \in [c : Nat, r : Nat],
             NoteOK(x, ch, md, rp),
         NEW n \in ReplyNotes, n.message.role = "assistant", n.message.id = md + 1,
         rp.c <= n.message.content.length, rp.r <= n.message.reasoning.length
  PROVE  Before(x, n)
<1>1. /\ x.message.id \in Nat /\ x.message.content.length \in Nat
      /\ x.message.reasoning.length \in Nat
      /\ n.message.content.length \in Nat /\ n.message.reasoning.length \in Nat
      /\ x.kind \in {"StreamChunkReceived", "MessageAppended"} /\ rp.c \in Nat /\ rp.r \in Nat
  BY DEF ReplyNotes, ReplyMessages, ReplyTexts
<1>2. x.message.role = "assistant" => IsChunk(x) \/ IsCommit(x) BY <1>1 DEF IsChunk, IsCommit
<1>3. CASE IsChunk(x)
  <2>1. x.message.id <= md + 1 /\ ~IsCommit(x)
        /\ (x.message.id = md + 1 => x.message.content.length <= rp.c /\
             x.message.reasoning.length <= rp.r)
    BY <1>3 DEF NoteOK, Within, IsChunk, IsCommit
  <2> QED BY <2>1, <1>1 DEF Before
<1>4. CASE IsCommit(x)
  <2>1. x.message.id <= md BY <1>4 DEF NoteOK
  <2> QED BY <2>1, <1>1 DEF Before
<1>5. CASE x.message.role # "assistant" BY <1>5 DEF Before
<1> QED BY <1>2, <1>3, <1>4, <1>5

\* What has been streamed is like a chunk at the head of the channel.
LEMMA StreamedNote ==
  ASSUME NEW m, NEW s, NEW ch, NEW md, NEW rp, StreamedIs(m, s, ch, md, rp)
  PROVE  ChunkOf(m) \in ReplyNotes /\ NoteOK(ChunkOf(m), ch, md, rp) /\ IsChunk(ChunkOf(m))
         /\ ChunkOf(m).message = m /\ ~IsCommit(ChunkOf(m)) /\ ~IsAnswer(ChunkOf(m))
BY DEF StreamedIs, ChunkOf, ReplyNotes, NoteOK, IsChunk, IsCommit, IsAnswer, ChunkShape

Joined(ch, md, rp, ch2, md2, rp2) ==
  /\ ChannelOK(ch2, md2, rp2)
  /\ \A m, s : StreamedIs(m, s, ch, md, rp) => StreamedIs(m, s, ch2, md2, rp2)
  /\ \A m \in Nat : Unsettled(m, ch2, md2) <=> Unsettled(m, ch, md)

\* A note that belongs behind the channel keeps it in order.
LEMMA NoteJoins ==
  ASSUME NEW ch, NEW md \in Nat, NEW rp \in [c : Nat, r : Nat], ChannelOK(ch, md, rp),
         NEW n \in ReplyNotes, WellMade(n.message), NEW md2 \in Nat, NEW rp2 \in [c : Nat, r : Nat],
         Joins(n, ch, md, rp, md2, rp2)
  PROVE  /\ Joined(ch, md, rp, Append(ch, n), md2, rp2)
         /\ \A m : Answers(m, Append(ch, n)) <=> Answers(m, ch) \/ (IsAnswer(n) /\ m = n.message.id)
<1> DEFINE new == Append(ch, n)
<1>1. ch \in Seq(ReplyNotes) /\ \A i \in DOMAIN ch : NoteOK(ch[i], ch, md, rp) BY DEF ChannelOK
<1>2. \A i \in DOMAIN ch : ch[i] \in ReplyNotes BY <1>1
<1>3. /\ \A m : Commits(m, new) <=> Commits(m, ch) \/ (IsCommit(n) /\ n.message.id = m)
      /\ \A m : Answers(m, new) <=> Answers(m, ch) \/ (IsAnswer(n) /\ n.message.id = m)
  BY <1>1, CommitsGrow
<1>4. /\ n.message.id \in Nat /\ n.message.content.length \in Nat
      /\ n.message.reasoning.length \in Nat
      /\ n.message.role \in {"assistant", "tool", "user"}
      /\ rp.c \in Nat /\ rp.r \in Nat /\ rp2.c \in Nat /\ rp2.r \in Nat
  BY DEF ReplyNotes, ReplyMessages, ReplyTexts, WellMade
<1>5. \A x \in DOMAIN new : x \in DOMAIN ch \/ new[x] = n
  <2>1. DOMAIN new = DOMAIN ch \cup {Len(ch) + 1} /\ new[Len(ch) + 1] = n BY <1>1
  <2> QED BY <2>1
<1>6. \A i \in DOMAIN ch : new[i] = ch[i] BY <1>1
<1> HIDE DEF new
<1>7. /\ IsChunk(n) => n.message.role = "assistant"
      /\ IsCommit(n) => n.message.role = "assistant" /\ ~IsChunk(n) /\ ~IsAnswer(n)
      /\ IsAnswer(n) => n.message.role = "tool" /\ ~IsChunk(n) /\ ~IsCommit(n)
      /\ n.message.role = "user" => n.kind = "MessageAppended" /\ ~IsChunk(n) /\ ~IsCommit(n) /\
           ~IsAnswer(n)
  BY DEF Joins, IsChunk, IsCommit, IsAnswer, ChunkShape
<1>8. \/ md2 = md /\ rp.c <= rp2.c /\ rp.r <= rp2.r /\ ~IsCommit(n)
      \/ md2 = md + 1 /\ IsCommit(n) /\ n.message.id = md + 1 /\ Commits(md + 1, new)
  <2>1. CASE IsChunk(n) BY <2>1, <1>3, <1>4, <1>7 DEF Joins
  <2>2. CASE IsCommit(n) BY <2>2, <1>3, <1>4, <1>7 DEF Joins
  <2>3. CASE IsAnswer(n) BY <2>3, <1>3, <1>4, <1>7 DEF Joins
  <2>4. CASE n.message.role = "user" BY <2>4, <1>3, <1>4, <1>7 DEF Joins
  <2> QED BY <2>1, <2>2, <2>3, <2>4, <1>7 DEF Joins
<1>9. ASSUME NEW x \in ReplyNotes, NoteOK(x, ch, md, rp) PROVE NoteOK(x, new, md2, rp2)
  BY <1>3, <1>8, <1>9, NoteStays
<1>10. ASSUME NEW x \in ReplyNotes, NoteOK(x, ch, md, rp),
              x.message.role = "tool" /\ IsAnswer(n) => x.message.id # n.message.id
       PROVE  Before(x, n)
  <2>1. CASE n.message.role = "assistant"
    <3>1. /\ n.message.id = md + 1 /\ rp.c <= n.message.content.length
          /\ rp.r <= n.message.reasoning.length
      BY <2>1, <1>4, <1>7 DEF Joins
    <3> QED BY <2>1, <3>1, <1>10, BeforeNext
  <2>2. CASE n.message.role = "tool"
    <3>1. IsAnswer(n) BY <2>2, <1>7 DEF Joins
    <3> QED BY <2>2, <3>1, <1>10 DEF Before
  <2>3. CASE n.message.role = "user" BY <2>3 DEF Before
  <2> QED BY <1>4, <2>1, <2>2, <2>3
<1>11. \A i \in DOMAIN ch : Before(ch[i], n)
  <2> TAKE i \in DOMAIN ch
  <2>1. ASSUME ch[i].message.role = "tool", IsAnswer(n) PROVE ch[i].message.id # n.message.id
    <3>1. ~Answers(n.message.id, ch) BY <2>1, <1>7 DEF Joins
    <3>2. IsAnswer(ch[i])
      <4>1. NoteOK(ch[i], ch, md, rp) BY <1>1
      <4>2. ~IsChunk(ch[i]) BY <4>1, <2>1 DEF NoteOK, ChunkShape
      <4> QED BY <4>2, <2>1, <1>2 DEF IsChunk, IsAnswer, ReplyNotes
    <3> QED BY <3>1, <3>2 DEF Answers
  <2> QED BY <2>1, <1>1, <1>2, <1>10
<1>12. NoteOK(n, new, md2, rp2)
  <2>1. ASSUME IsChunk(n) PROVE ChunkShape(n.message) /\ Within(n.message, new, md2, rp2)
    BY <2>1, <1>4, <1>7 DEF Joins, Within
  <2>2. IsCommit(n) \/ IsAnswer(n) => n.message.id <= md2
    BY <1>4, <1>7 DEF Joins
  <2> QED BY <2>1, <2>2 DEF NoteOK
<1>13. ChannelOK(new, md2, rp2)
  BY <1>1, <1>2, <1>9, <1>11, <1>12, ChannelGrows DEF new
<1>14. ASSUME NEW m, NEW s, StreamedIs(m, s, ch, md, rp) PROVE StreamedIs(m, s, new, md2, rp2)
  <2>1. /\ ChunkOf(m) \in ReplyNotes /\ NoteOK(ChunkOf(m), ch, md, rp) /\ IsChunk(ChunkOf(m))
        /\ ChunkOf(m).message = m
    BY <1>14, StreamedNote
  <2>2. NoteOK(ChunkOf(m), new, md2, rp2) BY <2>1, <1>9
  <2>3. ChunkShape(m) /\ Within(m, new, md2, rp2) BY <2>1, <2>2 DEF NoteOK
  <2>4. m.role = "assistant" BY <2>3 DEF ChunkShape
  <2>5. Before(ChunkOf(m), n) BY <2>1, <2>4, <1>10
  <2>6. \A i \in DOMAIN new : Before(ChunkOf(m), new[i]) BY <2>5, <1>5, <1>6, <1>14 DEF StreamedIs
  <2> QED BY <2>3, <2>6, <1>14 DEF StreamedIs
<1>15. \A m \in Nat : Unsettled(m, new, md2) <=> Unsettled(m, ch, md)
  BY <1>3, <1>8, <1>4 DEF Unsettled
<1>16. \A m : Answers(m, new) <=> Answers(m, ch) \/ (IsAnswer(n) /\ m = n.message.id) BY <1>3
<1> QED BY <1>13, <1>14, <1>15, <1>16 DEF new, Joined

-----------------------------------------------------------------------------
\* Only parts of message id are added to p, which is kept.
Adds(p, p2, whats, id) ==
  /\ Printable(p2)
  /\ \A x : Holds(p, x) => Holds(p2, x)
  /\ \A x : Holds(p2, x) => Holds(p, x) \/ (x.what \in whats /\ x.of = id)

\* More of a text follows what is printed of it.
LEMMA TextFollows ==
  ASSUME NEW p, Printable(p), NEW w \in {"content", "reasoning"}, NEW id \in Nat \ {0},
         NEW text, text \in ReplyTexts, text = Reply!Text(id, text.length), NEW k \in Nat,
               k <= text.length,
         \A i \in DOMAIN p : p[i].what = w /\ p[i].of = id => p[i].n <= k,
         k > 0 => Holds(p, Reply!Part(w, id, k))
  PROVE  /\ Reply!Pieces(w, text, k) \in Seq(ReplyParts)
         /\ Printable(p \o Reply!Pieces(w, text, k))
         /\ \A x : Holds(p \o Reply!Pieces(w, text, k), x) <=>
                     Holds(p, x) \/ \E n \in k + 1..text.length : x = Reply!Part(w, id, n)
<1>1. text.length \in Nat BY DEF ReplyTexts
<1>2. CASE text.length = 0
  <2>1. text.length - k = 0 /\ k = 0 /\ k + 1..text.length = {} BY <1>1, <1>2
  <2>2. Reply!Pieces(w, text, k) = <<>> BY <2>1 DEF Reply!Pieces
  <2>3. p \in Seq(ReplyParts) BY DEF Printable
  <2>4. p \o <<>> = p /\ <<>> \in Seq(ReplyParts) BY <2>3
  <2>5. ~\E n \in k + 1..text.length : TRUE BY <2>1
  <2>6. Printable(p \o Reply!Pieces(w, text, k)) /\
          Reply!Pieces(w, text, k) \in Seq(ReplyParts) BY <2>2, <2>4
  <2>7. \A x : Holds(p \o Reply!Pieces(w, text, k), x) <=> Holds(p, x) BY <2>2, <2>4
  <2> QED BY <2>5, <2>6, <2>7
<1>3. CASE text.length # 0
  <2>1. text.of = id BY <1>3 DEF Reply!Text
  <2> QED BY <2>1, PiecesFollow
<1> QED BY <1>2, <1>3

\* A part that was not printed may be printed now.
LEMMA MayFollow ==
  ASSUME NEW p, Printable(p), NEW w \in {"thinking", "calls", "notice", "result"},
             NEW id \in Nat \ {0},
         NEW c \in BOOLEAN, ~Holds(p, Reply!Part(w, id, 1))
  PROVE  /\ (IF c THEN <<Reply!Part(w, id, 1)>> ELSE <<>>) \in Seq(ReplyParts)
         /\ Adds(p, p \o (IF c THEN <<Reply!Part(w, id, 1)>> ELSE <<>>), {w}, id)
         /\ c => Holds(p \o (IF c THEN <<Reply!Part(w, id, 1)>> ELSE <<>>), Reply!Part(w, id, 1))
<1> DEFINE x == Reply!Part(w, id, 1)
<1>1. x.what = w /\ x.of = id /\ x.n = 1 /\ x \in ReplyParts BY DEF Reply!Part, ReplyParts
<1> HIDE DEF x
<1>2. CASE c
  <2>1. Printable(p \o <<x>>) /\ \A y : Holds(p \o <<x>>, y) <=> Holds(p, y) \/ y = x
    BY <1>1, PartFollows DEF x
  <2> QED BY <1>1, <1>2, <2>1 DEF Adds, x
<1>3. CASE ~c
  <2>1. p \in Seq(ReplyParts) BY DEF Printable
  <2>2. p \o <<>> = p BY <2>1
  <2> QED BY <1>3, <2>2 DEF Adds
<1> QED BY <1>2, <1>3

\* Appending is associative, with the empty sequence as its unit.
LEMMA Appends ==
  ASSUME NEW S, NEW a \in Seq(S), NEW b \in Seq(S), NEW c \in Seq(S)
  PROVE  (a \o b) \o c = a \o (b \o c) /\ a \o <<>> = a /\ <<>> \o a = a /\ a \o b \in Seq(S)
OBVIOUS

\* A reply of which nothing has been written is written whole.
LEMMA ReplyFollows ==
  ASSUME NEW p, Printable(p), NEW m \in ReplyMessages, WellMade(m), m.role = "assistant",
         \A i \in DOMAIN p : p[i].what # "result" /\ p[i].what # "reasoning" => p[i].of # m.id
  PROVE  /\ Reply!Committed(m) \in Seq(ReplyParts)
         /\ Adds(p, p \o Reply!Committed(m), {"thinking", "content", "calls", "notice"}, m.id)
         /\ \A n \in 1..m.content.length : Holds(p \o Reply!Committed(m),
              Reply!Part("content", m.id, n))
<1> DEFINE a == IF m.reasoning # Reply!NoText THEN <<Reply!Part("thinking", m.id, 1)>> ELSE <<>>
           b == Reply!Pieces("content", m.content, 0)
           c == IF m.calls THEN <<Reply!Part("calls", m.id, 1)>> ELSE <<>>
           d == IF m.interrupted THEN <<Reply!Part("notice", m.id, 1)>> ELSE <<>>
<1>1. m.id \in Nat \ {0} /\ m.content \in ReplyTexts /\ m.content.length \in Nat
      /\ m.content = Reply!Text(m.id, m.content.length) /\ m.calls \in BOOLEAN
      /\ m.interrupted \in BOOLEAN
      /\ (m.reasoning # Reply!NoText) \in BOOLEAN
  BY DEF ReplyMessages, WellMade, ReplyTexts
<1>2. \A w \in {"thinking", "content", "calls", "notice"} : \A n : ~Holds(p, Reply!Part(w, m.id, n))
  <2> SUFFICES ASSUME NEW w \in {"thinking", "content", "calls", "notice"}, NEW n,
                      NEW i \in DOMAIN p, p[i] = Reply!Part(w, m.id, n)
               PROVE  FALSE
    BY DEF Holds
  <2>1. p[i].what = w /\ p[i].of = m.id BY PartFields
  <2> QED BY <2>1
<1>3. \A w1, w2, n1, n2 : Reply!Part(w1, m.id, n1) = Reply!Part(w2, m.id, n2) =>
        w1 = w2 BY DEF Reply!Part
<1>4. a \in Seq(ReplyParts) /\ Adds(p, p \o a, {"thinking"}, m.id)
  <2> DEFINE t == m.reasoning # Reply!NoText
  <2>1. t \in BOOLEAN /\ ~Holds(p, Reply!Part("thinking", m.id, 1)) BY <1>2
  <2> HIDE DEF t
  <2>2. /\ (IF t THEN <<Reply!Part("thinking", m.id, 1)>> ELSE <<>>) \in Seq(ReplyParts)
        /\ Adds(p, p \o (IF t THEN <<Reply!Part("thinking", m.id, 1)>> ELSE <<>>), {"thinking"},
             m.id)
    BY <1>1, <2>1, MayFollow
  <2> QED BY <2>2 DEF t
<1> HIDE DEF a
<1>5. \A x : Holds(p \o a, x) => Holds(p, x) \/ x.what = "thinking" BY <1>4 DEF Adds
<1>6. \A w \in {"content", "calls", "notice"} : \A n : ~Holds(p \o a, Reply!Part(w, m.id, n))
  BY <1>2, <1>5, PartFields
<1>7. /\ b \in Seq(ReplyParts) /\ Printable((p \o a) \o b)
      /\ \A x : Holds((p \o a) \o b, x) <=> Holds(p \o a, x) \/
           \E n \in 1..m.content.length : x = Reply!Part("content", m.id, n)
  <2>1. Printable(p \o a) BY <1>4 DEF Adds
  <2>2. \A i \in DOMAIN (p \o a) : (p \o a)[i].what = "content" /\ (p \o a)[i].of = m.id =>
          (p \o a)[i].n <= 0
    <3> SUFFICES ASSUME NEW i \in DOMAIN (p \o a), (p \o a)[i].what = "content",
                            (p \o a)[i].of = m.id
                 PROVE  FALSE
      OBVIOUS
    <3>1. Holds(p \o a, (p \o a)[i]) BY DEF Holds
    <3>2. Holds(p, (p \o a)[i]) BY <3>1, <1>5
    <3> QED BY <3>2 DEF Holds
  <2> DEFINE u == p \o a
  <2>3. 0 <= m.content.length /\ 0 + 1 = 1 /\ ~(0 > 0) /\ 0 \in Nat BY <1>1
  <2> HIDE DEF u
  <2>4. \A i \in DOMAIN u : u[i].what = "content" /\ u[i].of = m.id => u[i].n <= 0 BY <2>2 DEF u
  <2>5. /\ Reply!Pieces("content", m.content, 0) \in Seq(ReplyParts)
        /\ Printable(u \o Reply!Pieces("content", m.content, 0))
        /\ \A x : Holds(u \o Reply!Pieces("content", m.content, 0), x) <=>
                    \/ Holds(u, x)
                    \/ \E n \in 0 + 1..m.content.length : x = Reply!Part("content", m.id, n)
    <3>1. Printable(u) BY <2>1 DEF u
    <3> QED BY <1>1, <3>1, <2>4, <2>3, TextFollows
  <2> QED BY <2>5, <2>3 DEF u
<1> HIDE DEF b
<1>8. \A w \in {"calls", "notice"} : \A n : ~Holds((p \o a) \o b, Reply!Part(w, m.id, n))
  BY <1>6, <1>7, <1>3
<1>9. c \in Seq(ReplyParts) /\ Adds((p \o a) \o b, ((p \o a) \o b) \o c, {"calls"}, m.id)
  BY <1>1, <1>7, <1>8, MayFollow
<1> HIDE DEF c
<1>10. \A n : ~Holds(((p \o a) \o b) \o c, Reply!Part("notice", m.id, n))
  BY <1>8, <1>9, PartFields DEF Adds
<1>11. /\ d \in Seq(ReplyParts)
       /\ Adds(((p \o a) \o b) \o c, (((p \o a) \o b) \o c) \o d, {"notice"}, m.id)
  <2>1. Printable(((p \o a) \o b) \o c) BY <1>9 DEF Adds
  <2> QED BY <1>1, <2>1, <1>10, MayFollow
<1> HIDE DEF d
<1>12. Reply!Committed(m) = ((a \o b) \o c) \o d
  BY DEF Reply!Committed, a, b, c, d
<1>13. /\ Reply!Committed(m) \in Seq(ReplyParts)
       /\ p \o Reply!Committed(m) = (((p \o a) \o b) \o c) \o d
  <2>1. p \in Seq(ReplyParts) BY DEF Printable
  <2>2. a \o b \in Seq(ReplyParts) /\ (a \o b) \o c \in Seq(ReplyParts) BY <1>4, <1>7, <1>9, Appends
  <2>3. p \o (((a \o b) \o c) \o d) = (p \o ((a \o b) \o c)) \o d
    <3> DEFINE f == (a \o b) \o c
    <3>1. f \in Seq(ReplyParts) /\ d \in Seq(ReplyParts) BY <2>2, <1>11
    <3> HIDE DEF f
    <3>2. p \o (f \o d) = (p \o f) \o d BY <3>1, <2>1, Appends
    <3> QED BY <3>2 DEF f
  <2>4. p \o ((a \o b) \o c) = (p \o (a \o b)) \o c BY <2>1, <2>2, <1>9, Appends, SMTT(30)
  <2>5. p \o (a \o b) = (p \o a) \o b BY <2>1, <1>4, <1>7, Appends, SMTT(30)
  <2>6. ((a \o b) \o c) \o d \in Seq(ReplyParts) BY <2>2, <1>11, Appends
  <2> QED BY <1>12, <2>3, <2>4, <2>5, <2>6
<1>14. \A x : (\E n \in 1..m.content.length : x = Reply!Part("content", m.id, n)) =>
         x.what = "content" /\ x.of = m.id
  BY PartFields
<1> DEFINE new == (((p \o a) \o b) \o c) \o d
<1>15. Printable(new) BY <1>11 DEF Adds
<1>16. \A x : Holds(p, x) => Holds(new, x) BY <1>4, <1>7, <1>9, <1>11 DEF Adds
<1>17. \A x : Holds(new, x) => Holds(p, x) \/
         (x.what \in {"thinking", "content", "calls", "notice"} /\ x.of = m.id)
  BY <1>4, <1>7, <1>9, <1>11, <1>14 DEF Adds
<1>18. \A n \in 1..m.content.length : Holds(new, Reply!Part("content", m.id, n))
  BY <1>7, <1>9, <1>11 DEF Adds
<1> QED BY <1>13, <1>15, <1>16, <1>17, <1>18 DEF Adds

-----------------------------------------------------------------------------
\* What is streamed is of the reply whose chunk or commit comes first.
LEMMA Oldest ==
  ASSUME NEW ch, NEW md \in Nat, NEW rp, ChannelOK(ch, md, rp), ch # <<>>,
         IsChunk(Head(ch)) \/ IsCommit(Head(ch)), NEW m, NEW s, StreamedIs(m, s, ch, md, rp)
  PROVE  /\ Head(ch).message.id = m.id
         /\ m.content.length <= Head(ch).message.content.length
         /\ m.reasoning.length <= Head(ch).message.reasoning.length
<1> DEFINE h == Head(ch)
<1>1. /\ h \in ReplyNotes /\ NoteOK(h, ch, md, rp) /\ h = ch[1] /\ 1 \in DOMAIN ch
      /\ \A i \in DOMAIN ch : i = 1 \/ 1 < i
      /\ \A i, j \in DOMAIN ch : i < j => Before(ch[i], ch[j])
  <2>1. ch \in Seq(ReplyNotes) BY DEF ChannelOK
  <2>2. /\ h = ch[1] /\ 1 \in DOMAIN ch /\ h \in ReplyNotes
        /\ \A i \in DOMAIN ch : i = 1 \/ 1 < i BY <2>1
  <2> QED BY <2>2 DEF ChannelOK
<1> HIDE DEF h
<1>2. h.message.role = "assistant" BY <1>1 DEF NoteOK, ChunkShape, IsCommit, h
<1>3. /\ m.role = "assistant" /\ m.id \in Nat /\ h.message.id \in Nat
      /\ ChunkOf(m).message = m /\ Before(ChunkOf(m), h)
  BY <1>1 DEF StreamedIs, ChunkShape, ReplyMessages, ReplyNotes, ChunkOf
<1>4. m.id <= h.message.id
      /\ (m.id = h.message.id => m.content.length <= h.message.content.length
                                 /\ m.reasoning.length <= h.message.reasoning.length)
  BY <1>2, <1>3 DEF Before
<1>5. h.message.id <= md + 1 BY <1>1, <1>3 DEF NoteOK, Within, h
<1>6. ASSUME m.id # h.message.id PROVE FALSE
  <2>1. m.id <= md BY <1>3, <1>4, <1>5, <1>6
  <2>2. PICK i \in DOMAIN ch : IsCommit(ch[i]) /\ ch[i].message.id = m.id
    BY <2>1 DEF StreamedIs, Within, Commits
  <2>3. 1 < i BY <2>2, <1>1, <1>6
  <2>4. Before(h, ch[i]) BY <2>3, <1>1
  <2>5. h.message.id <= m.id BY <2>2, <2>4, <1>2 DEF Before, IsCommit
  <2> QED BY <2>5, <1>3, <1>4, <1>6
<1> QED BY <1>4, <1>6 DEF h

\* What streamed before message m: nothing, or a beginning of m.
Begun(s, m) ==
  /\ s.content = Reply!NoText \/ (s.content.of = m.id /\ s.content.length > 0)
  /\ s.reasoning = Reply!NoText \/ (s.reasoning.of = m.id /\ s.reasoning.length > 0)
  /\ s.content.length \in Nat /\ s.reasoning.length \in Nat
  /\ s.content.length <= m.content.length /\ s.reasoning.length <= m.reasoning.length

\* The message of the first note is the one whose streaming has begun, if any
\* has.
LEMMA BegunBefore ==
  ASSUME NEW ch, NEW md \in Nat, NEW rp, ChannelOK(ch, md, rp), ch # <<>>,
         IsChunk(Head(ch)) \/ IsCommit(Head(ch)), NEW s,
         s = Reply!NothingStreamed \/ \E m0 : StreamedIs(m0, s, ch, md, rp)
  PROVE  Begun(s, Head(ch).message)
<1> DEFINE m == Head(ch).message
<1>1. m.content.length \in Nat /\ m.reasoning.length \in Nat
  <2>1. Head(ch) \in ReplyNotes BY DEF ChannelOK
  <2> QED BY <2>1 DEF ReplyNotes, ReplyMessages, ReplyTexts
<1> HIDE DEF m
<1>2. CASE s = Reply!NothingStreamed
  <2>1. s.content = Reply!NoText /\ s.reasoning = Reply!NoText BY <1>2 DEF Reply!NothingStreamed
  <2>2. Reply!NoText.length = 0 BY DEF Reply!NoText
  <2> QED BY <1>1, <2>1, <2>2 DEF Begun, m
<1>3. ASSUME NEW m0, StreamedIs(m0, s, ch, md, rp) PROVE Begun(s, m)
  <2>1. /\ m.id = m0.id /\ m0.content.length <= m.content.length
        /\ m0.reasoning.length <= m.reasoning.length
    BY <1>3, Oldest DEF m
  <2>2. s.content = m0.content /\ s.reasoning = m0.reasoning BY <1>3 DEF StreamedIs
  <2>3. /\ m0.content = Reply!Text(m0.id, m0.content.length)
        /\ m0.reasoning = Reply!Text(m0.id, m0.reasoning.length)
        /\ m0.content.length \in Nat /\ m0.reasoning.length \in Nat
    BY <1>3 DEF StreamedIs, ChunkShape, WellMade, ReplyMessages, ReplyTexts
  <2>4. /\ m0.content = Reply!NoText \/ (m0.content.of = m0.id /\ m0.content.length > 0)
        /\ m0.reasoning = Reply!NoText \/ (m0.reasoning.of = m0.id /\ m0.reasoning.length > 0)
    <3>1. m0.content.length # 0 => Reply!Text(m0.id, m0.content.length).of = m0.id BY DEF Reply!Text
    <3>2. m0.reasoning.length # 0 =>
            Reply!Text(m0.id, m0.reasoning.length).of = m0.id BY DEF Reply!Text
    <3>3. Reply!Text(m0.id, 0) = Reply!NoText BY DEF Reply!Text
    <3> QED BY <2>3, <3>1, <3>2, <3>3
  <2> QED BY <2>1, <2>2, <2>3, <2>4 DEF Begun
<1> QED BY <1>2, <1>3 DEF m

TextOf(w, m) == IF w = "content" THEN m.content ELSE m.reasoning

MayGoOn(p, m, s, w) ==
  /\ Printable(p) /\ m \in ReplyMessages /\ WellMade(m) /\ m.role = "assistant"
  /\ Begun(s, m) /\ w \in {"content", "reasoning"}
  /\ \A i \in DOMAIN p : p[i].what = w /\ p[i].of = m.id => p[i].n <= Length(w, m.id, s)
  /\ \A n \in 1..s.content.length : Holds(p, Reply!Part("content", s.content.of, n))
  /\ \A n \in 1..s.reasoning.length : Holds(p, Reply!Part("reasoning", s.reasoning.of, n))

\* What q adds to p completes the text of message id up to piece k.
Continues(p, q, w, id, k) ==
  /\ q \in Seq(ReplyParts) /\ Printable(p \o q)
  /\ \A x : Holds(p \o q, x) => Holds(p, x) \/ \E n \in 1..k : x = Reply!Part(w, id, n)
  /\ \A x : Holds(p, x) => Holds(p \o q, x)
  /\ \A n \in 1..k : Holds(p \o q, Reply!Part(w, id, n))

\* The rest of a reply is written: its chunk, or its commit when it was streamed.
LEMMA RestFollows ==
  ASSUME NEW p, NEW m, NEW s, NEW w, MayGoOn(p, m, s, w)
  PROVE  /\ Reply!Rest(w, TextOf(w, m), TextOf(w, s)) = Reply!Pieces(w, TextOf(w, m),
              TextOf(w, s).length)
         /\ Continues(p, Reply!Rest(w, TextOf(w, m), TextOf(w, s)), w, m.id, TextOf(w, m).length)
<1> DEFINE q == Reply!Rest(w, TextOf(w, m), TextOf(w, s))
<1>13. /\ Printable(p) /\ m \in ReplyMessages /\ WellMade(m) /\ m.role = "assistant"
       /\ Begun(s, m) /\ w \in {"content", "reasoning"}
       /\ \A i \in DOMAIN p : p[i].what = w /\ p[i].of = m.id => p[i].n <= Length(w, m.id, s)
       /\ \A n \in 1..s.content.length : Holds(p, Reply!Part("content", s.content.of, n))
       /\ \A n \in 1..s.reasoning.length : Holds(p, Reply!Part("reasoning", s.reasoning.of, n))
  BY DEF MayGoOn
<1> DEFINE text == TextOf(w, m)
           before == TextOf(w, s)
           k == before.length
<1>0. /\ text = (IF w = "content" THEN m.content ELSE m.reasoning)
      /\ before = (IF w = "content" THEN s.content ELSE s.reasoning)
      /\ q = Reply!Rest(w, text, before)
  BY DEF TextOf
<1> HIDE DEF text, before, q
<1>1. /\ m.id \in Nat \ {0} /\ text \in ReplyTexts /\ text.length \in Nat
      /\ text = Reply!Text(m.id, text.length)
  BY <1>0, <1>13 DEF ReplyMessages, WellMade, ReplyTexts
<1>2. k \in Nat /\ k <= text.length /\
        (before = Reply!NoText \/ (before.of = m.id /\ k > 0)) BY <1>0, <1>13 DEF Begun
<1>3. Reply!NoText.length = 0 /\ Reply!NoText.of = 0 BY DEF Reply!NoText
<1>4. Reply!startswith(text, before)
  <2>1. CASE before = Reply!NoText BY <2>1 DEF Reply!startswith
  <2>2. CASE before # Reply!NoText
    <3>1. text.length # 0 => text.of = m.id
      <4>1. text.length # 0 => Reply!Text(m.id, text.length).of = m.id BY DEF Reply!Text
      <4> QED BY <1>1, <4>1
    <3> QED BY <3>1, <2>2, <1>1, <1>2 DEF Reply!startswith
  <2> QED BY <2>1, <2>2
<1>5. Length(w, m.id, s) = k
  <2>1. Length(w, m.id, s) = IF before.of = m.id THEN k ELSE 0 BY <1>0, <1>13 DEF Length
  <2> QED BY <2>1, <1>1, <1>2, <1>3
<1>6. \A n \in 1..k : Holds(p, Reply!Part(w, m.id, n))
  <2>1. \A n \in 1..k : Holds(p, Reply!Part(w, before.of, n)) BY <1>0, <1>13
  <2>2. k > 0 => before.of = m.id BY <1>2, <1>3
  <2> QED BY <2>1, <2>2, <1>2
<1>8. q = Reply!Pieces(w, text, k) BY <1>0, <1>4 DEF Reply!Rest
<1>7. /\ q \in Seq(ReplyParts) /\ Printable(p \o q)
      /\ \A x : Holds(p \o q, x) <=> Holds(p, x) \/
           \E n \in k + 1..text.length : x = Reply!Part(w, m.id, n)
  <2>1. \A i \in DOMAIN p : p[i].what = w /\ p[i].of = m.id => p[i].n <= k BY <1>5, <1>13
  <2>2. k > 0 => Holds(p, Reply!Part(w, m.id, k))
    <3>1. k > 0 => k \in 1..k BY <1>2
    <3> QED BY <3>1, <1>6
  <2> HIDE DEF k
  <2> QED BY <1>1, <1>2, <1>8, <1>13, <2>1, <2>2, TextFollows
<1> HIDE DEF k
<1>9. \A n \in k + 1..text.length : n \in 1..text.length BY <1>1, <1>2
<1>10. \A n \in 1..text.length : n \in 1..k \/ n \in k + 1..text.length BY <1>1, <1>2
<1>11. \A x : Holds(p \o q, x) => Holds(p, x) \/
         \E n \in 1..text.length : x = Reply!Part(w, m.id, n)
  BY <1>7, <1>9
<1>12. \A n \in 1..text.length : Holds(p \o q, Reply!Part(w, m.id, n))
  BY <1>6, <1>7, <1>10
<1> QED BY <1>7, <1>8, <1>11, <1>12 DEF k, text, before, q, Continues

\* A part that was written stays right when its reply settles or goes on.
LEMMA PartStays ==
  ASSUME NEW x \in ReplyParts, NEW s, NEW ch, NEW md \in Nat, PartOK(x, s, ch, md),
         NEW s2, NEW ch2, NEW md2 \in Nat, md <= md2,
         Unsettled(x.of, ch2, md2) => Unsettled(x.of, ch, md),
         x.of <= md /\ Answers(x.of, ch2) => Answers(x.of, ch),
         \A w \in {"content", "reasoning"} : Unsettled(x.of, ch2, md2) =>
            /\ Length(w, x.of, s) \in Nat /\ Length(w, x.of, s2) \in Nat
            /\ Length(w, x.of, s) <= Length(w, x.of, s2)
  PROVE  PartOK(x, s2, ch2, md2)
<1>1. /\ x.of \in Nat /\ x.n \in Nat
      /\ x.what \in {"content", "reasoning", "thinking", "calls", "notice", "result"}
  BY DEF ReplyParts
<1>2. ASSUME x.what \in {"content", "reasoning"}, Unsettled(x.of, ch2, md2)
      PROVE  x.n <= Length(x.what, x.of, s2)
  <2>1. x.n <= Length(x.what, x.of, s) BY <1>2 DEF PartOK
  <2>2. /\ Length(x.what, x.of, s) \in Nat /\ Length(x.what, x.of, s2) \in Nat
        /\ Length(x.what, x.of, s) <= Length(x.what, x.of, s2)
    BY <1>2
  <2> QED BY <1>1, <2>1, <2>2
<1>3. x.what = "result" => x.of <= md2 /\ ~Answers(x.of, ch2) BY <1>1 DEF PartOK
<1> QED BY <1>2, <1>3 DEF PartOK

\* What is printed consists of parts.
LEMMA PrintedHolds ==
  ASSUME NEW p, Printable(p), NEW x, Holds(p, x)
  PROVE  x \in ReplyParts
<1>1. p \in Seq(ReplyParts) BY SMTT(30) DEF Printable
<1> QED BY <1>1 DEF Holds

\* A chunk is shown: what it adds to the reply is written.
LEMMA ChunkWrites ==
  ASSUME NEW ch, NEW md \in Nat, NEW rp, ChannelOK(ch, md, rp), ch # <<>>, IsChunk(Head(ch)), NEW s,
         s = Reply!NothingStreamed \/ \E m0 : StreamedIs(m0, s, ch, md, rp),
         NEW p, PrintedOK(p, s, ch, md), NEW m, m = Head(ch).message, NEW live,
         live = Reply!Rest("reasoning", m.reasoning, s.reasoning) \o Reply!Rest("content",
           m.content, s.content)
  PROVE  /\ m \in ReplyMessages /\ p \in Seq(ReplyParts) /\ live \in Seq(ReplyParts)
         /\ StreamedIs(m, [content |-> m.content, reasoning |-> m.reasoning], Tail(ch), md, rp)
         /\ PrintedOK(p \o live, [content |-> m.content, reasoning |-> m.reasoning], Tail(ch), md)
         /\ \A x : Holds(p, x) => Holds(p \o live, x)
<1> DEFINE h == Head(ch)
           now == [content |-> m.content, reasoning |-> m.reasoning]
           q1 == Reply!Rest("reasoning", m.reasoning, s.reasoning)
           q2 == Reply!Rest("content", m.content, s.content)
<1>1. /\ ChannelOK(Tail(ch), md, rp) /\ h \in ReplyNotes /\ NoteOK(h, ch, md, rp)
      /\ \A i \in DOMAIN Tail(ch) : Before(h, Tail(ch)[i])
      /\ \A i : Commits(i, ch) <=> Commits(i, Tail(ch))
      /\ \A i : Answers(i, ch) <=> Answers(i, Tail(ch))
  <2>1. ~IsCommit(h) /\ ~IsAnswer(h) BY DEF IsChunk, IsCommit, IsAnswer
  <2> QED BY <2>1, ChannelShrinks
<1>2. Begun(s, m) BY BegunBefore
<1>3. /\ ChunkShape(m) /\ Within(m, ch, md, rp) /\ m \in ReplyMessages /\ WellMade(m)
      /\ m.role = "assistant"
      /\ m.content.length \in Nat /\ m.reasoning.length \in Nat /\ m.id \in Nat \ {0}
  <2>1. ChunkShape(m) /\ Within(m, ch, md, rp) BY <1>1 DEF NoteOK
  <2> QED BY <2>1 DEF ChunkShape, ReplyMessages, ReplyTexts, WellMade
<1>4. Unsettled(m.id, ch, md) BY <1>3 DEF Within, Unsettled
<1>5. /\ Printable(p) /\ p \in Seq(ReplyParts)
      /\ \A i \in DOMAIN p : PartOK(p[i], s, ch, md)
      /\ \A n \in 1..s.content.length : Holds(p, Reply!Part("content", s.content.of, n))
      /\ \A n \in 1..s.reasoning.length : Holds(p, Reply!Part("reasoning", s.reasoning.of, n))
  BY DEF PrintedOK, Printable
<1>6. \A x : Holds(p, x) => \A w \in {"content", "reasoning"} :
         x.what = w /\ x.of = m.id => x.n <= Length(w, m.id, s)
  BY <1>4, <1>5 DEF PartOK, Holds
<1>7. Continues(p, q1, "reasoning", m.id, m.reasoning.length)
  <2>1. \A i \in DOMAIN p : p[i].what = "reasoning" /\ p[i].of = m.id =>
          p[i].n <= Length("reasoning", m.id, s)
    BY <1>6 DEF Holds
  <2>2. TextOf("reasoning", m) = m.reasoning /\ TextOf("reasoning", s) = s.reasoning BY DEF TextOf
  <2>3. MayGoOn(p, m, s, "reasoning") BY <2>1, <1>2, <1>3, <1>5 DEF MayGoOn
  <2> QED BY <2>2, <2>3, RestFollows
<1> DEFINE u == p \o q1
<1>8. \A x : (\E n \in 1..m.reasoning.length : x = Reply!Part("reasoning", m.id, n)) =>
             x.what = "reasoning" /\ x.of = m.id /\ x.n <= m.reasoning.length
  BY <1>3, PartFields
<1>9. \A x : (\E n \in 1..m.content.length : x = Reply!Part("content", m.id, n)) =>
             x.what = "content" /\ x.of = m.id /\ x.n <= m.content.length
  BY <1>3, PartFields
<1> HIDE DEF u, q1
<1>10. Continues(u, q2, "content", m.id, m.content.length)
  <2>1. \A i \in DOMAIN u : u[i].what = "content" /\ u[i].of = m.id =>
          u[i].n <= Length("content", m.id, s)
    <3> SUFFICES ASSUME NEW i \in DOMAIN u, u[i].what = "content", u[i].of = m.id
                 PROVE  u[i].n <= Length("content", m.id, s)
      OBVIOUS
    <3>1. Holds(u, u[i]) BY DEF Holds
    <3>2. Holds(p, u[i]) BY <3>1, <1>7, <1>8 DEF u, Continues
    <3> QED BY <3>2, <1>6
  <2>2. /\ \A n \in 1..s.content.length : Holds(u, Reply!Part("content", s.content.of, n))
        /\ \A n \in 1..s.reasoning.length : Holds(u, Reply!Part("reasoning", s.reasoning.of, n))
        /\ Printable(u)
    BY <1>5, <1>7 DEF u, Continues
  <2>3. TextOf("content", m) = m.content /\ TextOf("content", s) = s.content BY DEF TextOf
  <2>4. MayGoOn(u, m, s, "content") BY <2>1, <2>2, <1>2, <1>3 DEF MayGoOn
  <2> QED BY <2>3, <2>4, RestFollows
<1> HIDE DEF q2
<1>11. live = q1 \o q2 /\ live \in Seq(ReplyParts) /\ p \o live = u \o q2
  <2>1. live = q1 \o q2 BY DEF q1, q2
  <2>2. q1 \o q2 \in Seq(ReplyParts) /\ (p \o q1) \o q2 = p \o (q1 \o q2) BY <1>5, <1>7, <1>10,
          Appends DEF Continues
  <2> QED BY <2>1, <2>2 DEF u
<1> DEFINE new == p \o live
<1>12. /\ Printable(new)
       /\ \A x : Holds(p, x) => Holds(new, x)
       /\ \A n \in 1..m.content.length : Holds(new, Reply!Part("content", m.id, n))
       /\ \A n \in 1..m.reasoning.length : Holds(new, Reply!Part("reasoning", m.id, n))
       /\ \A x : Holds(new, x) => \/ Holds(p, x)
                                  \/ x.what = "reasoning" /\ x.of = m.id /\
                                       x.n <= m.reasoning.length
                                  \/ x.what = "content" /\ x.of = m.id /\ x.n <= m.content.length
  <2> HIDE DEF new
  <2>0. new = u \o q2 BY <1>11 DEF new
  <2>1. Printable(new) /\ \A x : Holds(p, x) => Holds(new, x) BY <2>0, <1>7, <1>10 DEF u, Continues
  <2>2. \A n \in 1..m.content.length : Holds(new, Reply!Part("content", m.id, n)) BY <2>0,
          <1>10 DEF Continues
  <2>3. \A n \in 1..m.reasoning.length : Holds(new, Reply!Part("reasoning", m.id, n)) BY <2>0, <1>7,
          <1>10 DEF u, Continues
  <2>4. ASSUME NEW x, Holds(new, x), ~Holds(p, x)
        PROVE  \/ x.what = "reasoning" /\ x.of = m.id /\ x.n <= m.reasoning.length
               \/ x.what = "content" /\ x.of = m.id /\ x.n <= m.content.length
    <3>1. CASE Holds(u, x) BY <3>1, <2>4, <1>7, <1>8 DEF u, Continues
    <3>2. CASE ~Holds(u, x) BY <3>2, <2>0, <2>4, <1>9, <1>10 DEF Continues
    <3> QED BY <3>1, <3>2
  <2> QED BY <2>1, <2>2, <2>3, <2>4
<1> HIDE DEF new
<1>13. StreamedIs(m, now, Tail(ch), md, rp)
  <2>1. ChunkOf(m) = h BY <1>1 DEF ChunkOf, ReplyNotes, IsChunk
  <2>2. Within(m, Tail(ch), md, rp) BY <1>1, <1>3 DEF Within
  <2> QED BY <2>1, <2>2, <1>1, <1>3 DEF StreamedIs
<1>14. now.content = m.content /\ now.reasoning = m.reasoning OBVIOUS
<1> HIDE DEF now
<1>15. /\ Length("content", m.id, now) = m.content.length
       /\ Length("reasoning", m.id, now) = m.reasoning.length
  <2>1. /\ m.content = Reply!Text(m.id, m.content.length)
        /\ m.reasoning = Reply!Text(m.id, m.reasoning.length)
    BY <1>3 DEF WellMade
  <2>2. m.content.of = m.id \/ m.content.length = 0
    <3>1. m.content.length # 0 => Reply!Text(m.id, m.content.length).of = m.id BY DEF Reply!Text
    <3> QED BY <3>1, <2>1
  <2>3. m.reasoning.of = m.id \/ m.reasoning.length = 0
    <3>1. m.reasoning.length # 0 => Reply!Text(m.id, m.reasoning.length).of = m.id BY DEF Reply!Text
    <3> QED BY <3>1, <2>1
  <2> QED BY <2>2, <2>3, <1>14 DEF Length
<1>16. \A i \in DOMAIN new : PartOK(new[i], now, Tail(ch), md)
  <2> SUFFICES ASSUME NEW x, Holds(new, x) PROVE PartOK(x, now, Tail(ch), md)
    BY DEF Holds
  <2>2. x \in ReplyParts BY <1>12, PrintedHolds
  <2>3. CASE Holds(p, x)
    <3>1. PartOK(x, s, ch, md) BY <2>3, <1>5 DEF Holds
    <3>2. Unsettled(x.of, Tail(ch), md) => Unsettled(x.of, ch, md) BY <1>1 DEF Unsettled
    <3>3. \A w \in {"content", "reasoning"} :
             /\ Length(w, x.of, s) \in Nat /\ Length(w, x.of, now) \in Nat
             /\ Length(w, x.of, s) <= Length(w, x.of, now)
      <4>1. CASE x.of = m.id
        <5>1. \A w \in {"content", "reasoning"} : Length(w, m.id, s) \in Nat
              /\ Length(w, m.id,
                   s) <= IF w = "content" THEN m.content.length ELSE m.reasoning.length
          BY <1>2, <1>3 DEF Length, Begun
        <5> QED BY <4>1, <5>1, <1>3, <1>15
      <4>2. CASE x.of # m.id
        <5>1. x.of # 0 BY <2>2 DEF ReplyParts
        <5>2. s.content.of # x.of /\ s.reasoning.of # x.of
          BY <4>2, <5>1, <1>2 DEF Begun, Reply!NoText
        <5>3. \A w \in {"content", "reasoning"} : Length(w, x.of, s) = 0 BY <5>2 DEF Length
        <5>4. \A w \in {"content", "reasoning"} : Length(w, x.of, now) \in Nat
          BY <1>3, <1>14 DEF Length
        <5> QED BY <5>3, <5>4
      <4> QED BY <4>1, <4>2
    <3>4. x.of <= md /\ Answers(x.of, Tail(ch)) => Answers(x.of, ch) BY <1>1
    <3>5. md <= md OBVIOUS
    <3> QED BY <2>2, <3>1, <3>2, <3>3, <3>4, <3>5, PartStays
  <2>4. CASE ~Holds(p, x)
    <3>1. \/ x.what = "reasoning" /\ x.of = m.id /\ x.n <= m.reasoning.length
          \/ x.what = "content" /\ x.of = m.id /\ x.n <= m.content.length
      BY <2>4, <1>12
    <3>2. CASE x.what = "reasoning" /\ x.of = m.id /\ x.n <= m.reasoning.length
      <4>1. x.n <= Length(x.what, x.of, now) BY <3>2, <1>15
      <4> QED BY <4>1, <3>2 DEF PartOK
    <3>3. CASE x.what = "content" /\ x.of = m.id /\ x.n <= m.content.length
      <4>1. x.n <= Length(x.what, x.of, now) BY <3>3, <1>15
      <4> QED BY <4>1, <3>3 DEF PartOK
    <3> QED BY <3>1, <3>2, <3>3
  <2> QED BY <2>3, <2>4
<1>17. /\ \A n \in 1..now.content.length : Holds(new, Reply!Part("content", now.content.of, n))
       /\ \A n \in 1..now.reasoning.length : Holds(new,
            Reply!Part("reasoning", now.reasoning.of, n))
  <2>1. /\ m.content = Reply!Text(m.id, m.content.length)
        /\ m.reasoning = Reply!Text(m.id, m.reasoning.length)
    BY <1>3 DEF WellMade
  <2>2. m.content.length # 0 => m.content.of = m.id
    <3>1. m.content.length # 0 => Reply!Text(m.id, m.content.length).of = m.id BY DEF Reply!Text
    <3> QED BY <3>1, <2>1
  <2>3. m.reasoning.length # 0 => m.reasoning.of = m.id
    <3>1. m.reasoning.length # 0 => Reply!Text(m.id, m.reasoning.length).of = m.id BY DEF Reply!Text
    <3> QED BY <3>1, <2>1
  <2> QED BY <2>2, <2>3, <1>3, <1>12, <1>14
<1>18. PrintedOK(new, now, Tail(ch), md) BY <1>12, <1>16, <1>17 DEF PrintedOK
<1> QED BY <1>3, <1>5, <1>11, <1>12, <1>13, <1>18 DEF new, now

\* A commit is shown: all of the reply that has not been written is.
LEMMA CommitWrites ==
  ASSUME NEW ch, NEW md \in Nat, NEW rp, ChannelOK(ch, md, rp), ch # <<>>, IsCommit(Head(ch)),
             NEW s,
         s = Reply!NothingStreamed \/ \E m0 : StreamedIs(m0, s, ch, md, rp),
         NEW p, PrintedOK(p, s, ch, md), NEW m, m = Head(ch).message, NEW out,
         out = IF s # Reply!NothingStreamed THEN Reply!Completion(m, s) ELSE Reply!Committed(m)
  PROVE  /\ m \in ReplyMessages /\ WellMade(m) /\ p \in Seq(ReplyParts) /\ out \in Seq(ReplyParts)
         /\ PrintedOK(p \o out, Reply!NothingStreamed, Tail(ch), md)
         /\ \A x : Holds(p, x) => Holds(p \o out, x)
         /\ Written(m, p \o out) /\ ~Unsettled(m.id, Tail(ch), md)
<1> DEFINE h == Head(ch)
           new == p \o out
           whats == {"thinking", "content", "calls", "notice"}
<1>1. /\ ChannelOK(Tail(ch), md, rp) /\ h \in ReplyNotes /\ NoteOK(h, ch, md, rp)
      /\ \A i \in DOMAIN Tail(ch) : Before(h, Tail(ch)[i])
      /\ \A i : Commits(i, ch) <=> Commits(i, Tail(ch)) \/ i = m.id
      /\ \A i : Answers(i, ch) <=> Answers(i, Tail(ch))
  <2>1. ~IsAnswer(h) BY DEF IsCommit, IsAnswer
  <2> QED BY <2>1, ChannelShrinks
<1>2. Begun(s, m) BY BegunBefore
<1>3. /\ m \in ReplyMessages /\ WellMade(m) /\ m.role = "assistant" /\ m.id <= md
      /\ m.content.length \in Nat /\ m.reasoning.length \in Nat /\ m.id \in Nat \ {0}
  <2>1. m \in ReplyMessages /\ WellMade(m) /\ m.role = "assistant" /\ m.id <= md
    BY <1>1 DEF NoteOK, IsCommit, ReplyNotes
  <2> QED BY <2>1 DEF ReplyMessages, ReplyTexts, WellMade
<1>4. Unsettled(m.id, ch, md) BY <1>1 DEF Unsettled
<1>5. ~Unsettled(m.id, Tail(ch), md)
  <2>1. ~Commits(m.id, Tail(ch))
    <3> SUFFICES ASSUME NEW i \in DOMAIN Tail(ch), IsCommit(Tail(ch)[i]),
                            Tail(ch)[i].message.id = m.id
                 PROVE  FALSE
      BY DEF Commits
    <3>1. Before(h, Tail(ch)[i]) BY <1>1
    <3>2. m.id < m.id BY <3>1, <1>3 DEF Before, IsCommit
    <3> QED BY <3>2, <1>3
  <2> QED BY <2>1, <1>3 DEF Unsettled
<1>6. /\ Printable(p) /\ p \in Seq(ReplyParts)
      /\ \A x : Holds(p, x) => PartOK(x, s, ch, md)
      /\ \A n \in 1..s.content.length : Holds(p, Reply!Part("content", s.content.of, n))
      /\ \A n \in 1..s.reasoning.length : Holds(p, Reply!Part("reasoning", s.reasoning.of, n))
  BY DEF PrintedOK, Printable, Holds
<1>7. /\ out \in Seq(ReplyParts) /\ Adds(p, new, whats, m.id)
      /\ \A n \in 1..m.content.length : Holds(new, Reply!Part("content", m.id, n))
  <2>1. CASE s # Reply!NothingStreamed
    <3>1. \A i \in DOMAIN p : p[i].what = "content" /\ p[i].of = m.id =>
            p[i].n <= Length("content", m.id, s)
      <4> SUFFICES ASSUME NEW i \in DOMAIN p, p[i].what = "content", p[i].of = m.id
                   PROVE  p[i].n <= Length("content", m.id, s)
        OBVIOUS
      <4>1. PartOK(p[i], s, ch, md) BY <1>6 DEF Holds
      <4> QED BY <4>1, <1>4 DEF PartOK
    <3>2. TextOf("content", m) = m.content /\ TextOf("content", s) = s.content BY DEF TextOf
    <3>3. MayGoOn(p, m, s, "content") BY <3>1, <1>2, <1>3, <1>6 DEF MayGoOn
    <3>4. /\ Reply!Rest("content", m.content, s.content) = Reply!Pieces("content", m.content,
               s.content.length)
          /\ Continues(p, Reply!Rest("content", m.content, s.content), "content", m.id,
               m.content.length)
      BY <3>2, <3>3, RestFollows
    <3>5. Reply!startswith(m.content, s.content)
      <4>1. m.content = Reply!Text(m.id, m.content.length) BY <1>3 DEF WellMade
      <4>2. m.content.length # 0 => m.content.of = m.id
        <5>1. m.content.length # 0 => Reply!Text(m.id, m.content.length).of = m.id BY DEF Reply!Text
        <5> QED BY <5>1, <4>1
      <4> QED BY <4>2, <1>2, <1>3 DEF Begun, Reply!startswith
    <3>6. out = Reply!Rest("content", m.content, s.content) BY <2>1, <3>4, <3>5 DEF Reply!Completion
    <3>7. Continues(p, out, "content", m.id, m.content.length) BY <3>4, <3>6
    <3>8. \A x : (\E n \in 1..m.content.length : x = Reply!Part("content", m.id, n)) =>
            x.what \in whats /\ x.of = m.id
      BY PartFields
    <3> QED BY <3>7, <3>8 DEF Continues, Adds
  <2>2. CASE s = Reply!NothingStreamed
    <3>1. out = Reply!Committed(m) BY <2>2
    <3>2. \A w \in {"content", "reasoning"} : Length(w, m.id, s) = 0
      BY <2>2 DEF Length, Reply!NothingStreamed, Reply!NoText
    <3>3. \A i \in DOMAIN p : p[i].what # "result" /\ p[i].what # "reasoning" => p[i].of # m.id
      <4> SUFFICES ASSUME NEW i \in DOMAIN p, p[i].what # "result", p[i].what # "reasoning",
                              p[i].of = m.id
                   PROVE  FALSE
        OBVIOUS
      <4>1. PartOK(p[i], s, ch, md) BY <1>6 DEF Holds
      <4>2. p[i].what \in {"content", "thinking", "calls", "notice"} /\ p[i].n \in Nat \ {0}
        <5>1. p[i] \in ReplyParts BY <1>6
        <5>2. p[i].what # "result" /\ p[i].what # "reasoning" OBVIOUS
        <5> QED BY <5>1, <5>2 DEF ReplyParts
      <4>3. p[i].what = "content" BY <4>1, <4>2, <1>4 DEF PartOK
      <4>4. p[i].n <= Length("content", m.id, s) BY <4>1, <4>3, <1>4 DEF PartOK
      <4> QED BY <4>2, <4>4, <3>2
    <3> QED BY <3>1, <3>3, <1>3, <1>6, ReplyFollows
  <2> QED BY <2>1, <2>2
<1> HIDE DEF new
<1>8. \A i \in DOMAIN new : PartOK(new[i], Reply!NothingStreamed, Tail(ch), md)
  <2> SUFFICES ASSUME NEW x, Holds(new, x) PROVE PartOK(x, Reply!NothingStreamed, Tail(ch), md)
    BY DEF Holds
  <2>1. x \in ReplyParts BY <1>7, PrintedHolds DEF Adds
  <2>2. CASE x.of = m.id /\ x.what # "result"
    BY <2>2, <1>5 DEF PartOK
  <2>3. CASE x.of # m.id \/ x.what = "result"
    <3>1. Holds(p, x) BY <2>3, <1>7 DEF Adds
    <3>2. PartOK(x, s, ch, md) BY <3>1, <1>6
    <3>3. Unsettled(x.of, Tail(ch), md) => Unsettled(x.of, ch, md) /\ x.of # m.id
      BY <1>1, <1>5 DEF Unsettled
    <3>4. ASSUME NEW w \in {"content", "reasoning"}, Unsettled(x.of, Tail(ch), md)
          PROVE  /\ Length(w, x.of, s) \in Nat /\ Length(w, x.of, Reply!NothingStreamed) \in Nat
                 /\ Length(w, x.of, s) <= Length(w, x.of, Reply!NothingStreamed)
      <4>1. x.of # 0 BY <2>1 DEF ReplyParts
      <4>2. s.content.of # x.of /\ s.reasoning.of # x.of
        BY <3>3, <3>4, <4>1, <1>2 DEF Begun, Reply!NoText
      <4>3. Reply!NothingStreamed.content.of = 0 /\
              Reply!NothingStreamed.reasoning.of = 0 BY DEF Reply!NothingStreamed, Reply!NoText
      <4>4. Length(w, x.of, s) = 0 /\ Length(w, x.of, Reply!NothingStreamed) = 0
        BY <4>1, <4>2, <4>3 DEF Length
      <4> QED BY <4>4
    <3>5. x.of <= md /\ Answers(x.of, Tail(ch)) => Answers(x.of, ch) BY <1>1
    <3>6. md <= md OBVIOUS
    <3> QED BY <2>1, <3>2, <3>3, <3>4, <3>5, <3>6, PartStays
  <2> QED BY <2>2, <2>3
<1>9. Reply!NothingStreamed.content.length = 0 /\ Reply!NothingStreamed.reasoning.length = 0
  BY DEF Reply!NothingStreamed, Reply!NoText
<1>10. Printable(new) BY <1>7 DEF Adds
<1>11. PrintedOK(new, Reply!NothingStreamed, Tail(ch), md) BY <1>8, <1>9, <1>10 DEF PrintedOK
<1>12. Written(m, new) BY <1>3, <1>7 DEF Written
<1> QED BY <1>3, <1>5, <1>6, <1>7, <1>11, <1>12 DEF new, Adds

\* A result, or a message of the user, is shown.
LEMMA OtherWrites ==
  ASSUME NEW ch, NEW md \in Nat, NEW rp, ChannelOK(ch, md, rp), ch # <<>>,
         Head(ch).kind = "MessageAppended", Head(ch).message.role # "assistant", NEW s,
         NEW p, PrintedOK(p, s, ch, md), NEW m, m = Head(ch).message
  PROVE  /\ m \in ReplyMessages /\ WellMade(m) /\ p \in Seq(ReplyParts)
         /\ Reply!Committed(m) \in Seq(ReplyParts)
         /\ PrintedOK(p \o Reply!Committed(m), s, Tail(ch), md)
         /\ \A x : Holds(p, x) => Holds(p \o Reply!Committed(m), x)
         /\ Written(m, p \o Reply!Committed(m))
         /\ \A m0 : StreamedIs(m0, s, ch, md, rp) => StreamedIs(m0, s, Tail(ch), md, rp)
         /\ \A i : Unsettled(i, Tail(ch), md) <=> Unsettled(i, ch, md)
<1> DEFINE h == Head(ch)
           new == p \o Reply!Committed(m)
<1>1. /\ ChannelOK(Tail(ch), md, rp) /\ h \in ReplyNotes /\ NoteOK(h, ch, md, rp)
      /\ \A i \in DOMAIN Tail(ch) : Before(h, Tail(ch)[i])
      /\ \A i : Commits(i, ch) <=> Commits(i, Tail(ch))
      /\ \A i : Answers(i, ch) <=> Answers(i, Tail(ch)) \/ (m.role = "tool" /\ i = m.id)
  <2>1. ~IsCommit(h) /\ (IsAnswer(h) <=> m.role = "tool") BY DEF IsCommit, IsAnswer
  <2> QED BY <2>1, ChannelShrinks
<1>2. /\ m \in ReplyMessages /\ WellMade(m) /\ m.role \in {"tool", "user"} /\ m.id \in Nat
      /\ m.content = Reply!NoText /\ (m.role = "tool" => m.id # 0 /\ m.id <= md)
  <2>1. m \in ReplyMessages /\ WellMade(m) /\ (m.role = "tool" => m.id <= md)
    BY <1>1 DEF NoteOK, IsAnswer, ReplyNotes
  <2> QED BY <2>1 DEF ReplyMessages, WellMade
<1>3. /\ Printable(p) /\ p \in Seq(ReplyParts)
      /\ \A x : Holds(p, x) => PartOK(x, s, ch, md)
      /\ \A n \in 1..s.content.length : Holds(p, Reply!Part("content", s.content.of, n))
      /\ \A n \in 1..s.reasoning.length : Holds(p, Reply!Part("reasoning", s.reasoning.of, n))
  BY DEF PrintedOK, Printable, Holds
<1>4. /\ Reply!Committed(m) \in Seq(ReplyParts) /\ Adds(p, new, {"result"}, m.id)
      /\ m.role = "tool" => Holds(new, Reply!Part("result", m.id, 1))
      /\ m.role = "user" => \A x : Holds(new, x) => Holds(p, x)
  <2>1. CASE m.role = "tool"
    <3>1. Reply!Committed(m) = <<Reply!Part("result", m.id, 1)>> BY <2>1 DEF Reply!Committed
    <3>2. ~Holds(p, Reply!Part("result", m.id, 1))
      <4>1. PartOK(Reply!Part("result", m.id, 1), s, ch, md) =>
              ~Answers(m.id, ch) BY PartFields DEF PartOK
      <4> QED BY <4>1, <1>1, <1>3, <2>1
    <3> DEFINE c == TRUE
    <3>3. c \in BOOLEAN /\ c OBVIOUS
    <3> HIDE DEF c
    <3>4. /\ (IF c THEN <<Reply!Part("result", m.id, 1)>> ELSE <<>>) \in Seq(ReplyParts)
          /\ Adds(p, p \o (IF c THEN <<Reply!Part("result", m.id, 1)>> ELSE <<>>), {"result"}, m.id)
          /\ Holds(p \o (IF c THEN <<Reply!Part("result", m.id, 1)>> ELSE <<>>),
               Reply!Part("result", m.id, 1))
      BY <3>2, <3>3, <1>2, <1>3, <2>1, MayFollow
    <3> QED BY <3>1, <3>3, <3>4, <2>1
  <2>2. CASE m.role = "user"
    <3>1. Reply!Committed(m) = <<>> BY <2>2 DEF Reply!Committed
    <3>2. p \o <<>> = p /\ <<>> \in Seq(ReplyParts) BY <1>3
    <3> QED BY <3>1, <3>2, <1>3, <2>2 DEF Adds
  <2> QED BY <2>1, <2>2, <1>2
<1> HIDE DEF new
<1>5. \A i : Unsettled(i, Tail(ch), md) <=> Unsettled(i, ch, md) BY <1>1 DEF Unsettled
<1>6. m.role = "tool" => ~Answers(m.id, Tail(ch))
  <2> SUFFICES ASSUME m.role = "tool", NEW i \in DOMAIN Tail(ch), IsAnswer(Tail(ch)[i]),
                      Tail(ch)[i].message.id = m.id
               PROVE  FALSE
    BY DEF Answers
  <2>1. Before(h, Tail(ch)[i]) BY <1>1
  <2> QED BY <2>1 DEF Before, IsAnswer
<1>7. \A i \in DOMAIN new : PartOK(new[i], s, Tail(ch), md)
  <2> SUFFICES ASSUME NEW x, Holds(new, x) PROVE PartOK(x, s, Tail(ch), md)
    BY DEF Holds
  <2>1. CASE Holds(p, x)
    <3>1. PartOK(x, s, ch, md) BY <2>1, <1>3
    <3> QED BY <3>1, <1>1, <1>5 DEF PartOK
  <2>2. CASE ~Holds(p, x)
    <3>1. x.what = "result" /\ x.of = m.id /\ m.role = "tool" BY <2>2, <1>2, <1>4 DEF Adds
    <3> QED BY <3>1, <1>2, <1>6 DEF PartOK
  <2> QED BY <2>1, <2>2
<1>8. PrintedOK(new, s, Tail(ch), md) BY <1>3, <1>4, <1>7 DEF PrintedOK, Adds
<1>9. Written(m, new)
  <2>1. m.content.length = 0 BY <1>2 DEF Reply!NoText
  <2> QED BY <2>1, <1>4 DEF Written
<1>10. ASSUME NEW m0, StreamedIs(m0, s, ch, md, rp) PROVE StreamedIs(m0, s, Tail(ch), md, rp)
  <2>1. Within(m0, Tail(ch), md, rp) BY <1>10, <1>1 DEF StreamedIs, Within
  <2>2. \A i \in DOMAIN Tail(ch) : i + 1 \in DOMAIN ch /\ Tail(ch)[i] = ch[i + 1]
    <3>1. ch \in Seq(ReplyNotes) BY DEF ChannelOK
    <3> QED BY <3>1
  <2>3. \A i \in DOMAIN Tail(ch) : Before(ChunkOf(m0), Tail(ch)[i]) BY <2>2, <1>10 DEF StreamedIs
  <2> QED BY <2>1, <2>3, <1>10 DEF StreamedIs
<1> QED BY <1>2, <1>3, <1>4, <1>5, <1>8, <1>9, <1>10 DEF new, Adds

-----------------------------------------------------------------------------
\* The text that streams has been written: showing it again writes nothing.
LEMMA NothingLeft ==
  ASSUME NEW w, NEW text \in ReplyTexts PROVE Reply!Rest(w, text, text) = <<>>
<1>1. Reply!startswith(text, text) BY DEF Reply!startswith, ReplyTexts
<1>2. text.length - text.length = 0 BY DEF ReplyTexts
<1> QED BY <1>1, <1>2 DEF Reply!Rest, Reply!Pieces

\* A render without a new message prints at most the completion of the
\* streamed one.
LEMMA RenderNone ==
  ASSUME NEW st, NEW list, NEW busy, Reply!Render(st, list, busy), Len(list) \in Nat,
             rendered \in Nat,
         Len(list) <= rendered, printed \in Seq(ReplyParts),
         \/ st = Reply!NoMessage
         \/ /\ st # Reply!NoMessage /\ st.content \in ReplyTexts /\ st.reasoning \in ReplyTexts
            /\ streamed = [content |-> st.content, reasoning |-> st.reasoning]
  PROVE  /\ streaming' = st /\ shownMessages' = list /\ submitting' = busy
         /\ printed' = printed /\ rendered' = Len(list)
         /\ streamed' = IF st = Reply!NoMessage /\ streamed.content # Reply!NoText /\
              ~busy THEN Reply!NothingStreamed
                        ELSE streamed
<1> DEFINE live == IF st = Reply!NoMessage THEN <<>>
                   ELSE Reply!Rest("reasoning", st.reasoning, streamed.reasoning)
                        \o Reply!Rest("content", st.content, streamed.content)
           now == IF st = Reply!NoMessage THEN streamed
                  ELSE [content |-> st.content, reasoning |-> st.reasoning]
           written == Reply!WriteFrom(rendered + 1, list, now)
<1>1. live = <<>>
  <2>1. CASE st = Reply!NoMessage BY <2>1
  <2>2. CASE st # Reply!NoMessage
    <3>1. streamed.reasoning = st.reasoning /\ streamed.content = st.content BY <2>2
    <3>2. /\ Reply!Rest("reasoning", st.reasoning, st.reasoning) = <<>>
          /\ Reply!Rest("content", st.content, st.content) = <<>>
      BY <2>2, NothingLeft
    <3>3. <<>> \o <<>> = <<>> OBVIOUS
    <3> QED BY <2>2, <3>1, <3>2, <3>3
  <2> QED BY <2>1, <2>2
<1>2. now = streamed OBVIOUS
<1>3. written = [out |-> <<>>, streamed |-> now]
  <2>1. rendered + 1 \in Nat /\ rendered + 1 > Len(list) OBVIOUS
  <2> HIDE DEF now
  <2> QED BY <2>1, WritesNone
<1>4. /\ streaming' = st /\ shownMessages' = list /\ submitting' = busy
      /\ printed' = printed \o (live \o written.out)
      /\ rendered' = Reply!Rendered(list)
      /\ streamed' = IF st = Reply!NoMessage /\ written.streamed.content # Reply!NoText /\ ~busy
                     THEN Reply!NothingStreamed ELSE written.streamed
  BY DEF Reply!Render, Reply!Shows, Reply!Output
<1> HIDE DEF live, now, written
<1>5. written.out = <<>> /\ written.streamed = streamed BY <1>2, <1>3
<1>6. printed \o (<<>> \o <<>>) = printed OBVIOUS
<1>7. rendered' = Len(list) BY <1>4 DEF Reply!Rendered
<1> QED BY <1>1, <1>4, <1>5, <1>6, <1>7

\* A render with one new message prints what is missing of it.
LEMMA RenderOne ==
  ASSUME NEW st, NEW x \in ReplyMessages, NEW busy,
             Reply!Render(st, Append(shownMessages, x), busy),
         shownMessages \in Seq(ReplyMessages), rendered = Len(shownMessages),
           printed \in Seq(ReplyParts),
         \/ st = Reply!NoMessage
         \/ /\ st # Reply!NoMessage /\ st.content \in ReplyTexts /\ st.reasoning \in ReplyTexts
            /\ streamed = [content |-> st.content, reasoning |-> st.reasoning],
         NEW out \in Seq(ReplyParts), NEW rest,
         x.role = "assistant" /\ streamed # Reply!NothingStreamed =>
           out = Reply!Completion(x, streamed) /\ rest = Reply!NothingStreamed,
         ~(x.role = "assistant" /\ streamed # Reply!NothingStreamed) => out = Reply!Committed(x) /\
           rest = streamed
  PROVE  /\ streaming' = st /\ shownMessages' = Append(shownMessages, x) /\ submitting' = busy
         /\ printed' = printed \o out /\ rendered' = Len(shownMessages) + 1
         /\ streamed' = IF st = Reply!NoMessage /\ rest.content # Reply!NoText /\
              ~busy THEN Reply!NothingStreamed ELSE rest
<1> DEFINE live == IF st = Reply!NoMessage THEN <<>>
                   ELSE Reply!Rest("reasoning", st.reasoning, streamed.reasoning)
                        \o Reply!Rest("content", st.content, streamed.content)
           now == IF st = Reply!NoMessage THEN streamed
                  ELSE [content |-> st.content, reasoning |-> st.reasoning]
           list == Append(shownMessages, x)
           written == Reply!WriteFrom(rendered + 1, list, now)
<1>1. live = <<>>
  <2>1. CASE st = Reply!NoMessage BY <2>1
  <2>2. CASE st # Reply!NoMessage
    <3>1. streamed.reasoning = st.reasoning /\ streamed.content = st.content BY <2>2
    <3>2. /\ Reply!Rest("reasoning", st.reasoning, st.reasoning) = <<>>
          /\ Reply!Rest("content", st.content, st.content) = <<>>
      BY <2>2, NothingLeft
    <3>3. <<>> \o <<>> = <<>> OBVIOUS
    <3> QED BY <2>2, <3>1, <3>2, <3>3
  <2> QED BY <2>1, <2>2
<1>2. now = streamed OBVIOUS
<1>3. written = [out |-> <<>> \o out, streamed |-> rest]
  <2>1. written = Reply!WriteFrom(Len(shownMessages) + 1, Append(shownMessages, x),
          streamed) BY <1>2
  <2> HIDE DEF written
  <2>2. Reply!WriteFrom(Len(shownMessages) + 1, Append(shownMessages, x), streamed) =
           IF x.role = "assistant" /\ streamed # Reply!NothingStreamed
           THEN [out |-> <<>> \o Reply!Completion(x, streamed), streamed |-> Reply!NothingStreamed]
           ELSE [out |-> <<>> \o Reply!Committed(x), streamed |-> streamed]
    BY WritesOne
  <2> QED BY <2>1, <2>2
<1>4. /\ streaming' = st /\ shownMessages' = list /\ submitting' = busy
      /\ printed' = printed \o (live \o written.out)
      /\ rendered' = Reply!Rendered(list)
      /\ streamed' = IF st = Reply!NoMessage /\ written.streamed.content # Reply!NoText /\ ~busy
                     THEN Reply!NothingStreamed ELSE written.streamed
  BY DEF Reply!Render, Reply!Shows, Reply!Output
<1> HIDE DEF live, now, written
<1>5. written.out = <<>> \o out /\ written.streamed = rest BY <1>3
<1>6. <<>> \o (<<>> \o out) = out OBVIOUS
<1>7. rendered' = Len(shownMessages) + 1 BY <1>4 DEF Reply!Rendered
<1> QED BY <1>1, <1>4, <1>5, <1>6, <1>7

\* A render of a streamed message prints what was streamed since.
LEMMA RenderChunk ==
  ASSUME NEW m \in ReplyMessages, m.role = "assistant", Reply!Render(m, shownMessages, submitting),
         shownMessages \in Seq(ReplyMessages), rendered = Len(shownMessages),
         NEW live, live \in Seq(ReplyParts), printed \in Seq(ReplyParts),
         live = Reply!Rest("reasoning", m.reasoning, streamed.reasoning) \o Reply!Rest("content",
           m.content, streamed.content)
  PROVE  /\ streaming' = m /\ shownMessages' = shownMessages /\ submitting' = submitting
         /\ printed' = printed \o live /\ rendered' = rendered
         /\ streamed' = [content |-> m.content, reasoning |-> m.reasoning]
<1> DEFINE now == [content |-> m.content, reasoning |-> m.reasoning]
           written == Reply!WriteFrom(rendered + 1, shownMessages, now)
<1>1. m # Reply!NoMessage BY DEF Reply!NoMessage
<1>2. written = [out |-> <<>>, streamed |-> now]
  <2>1. /\ rendered + 1 \in Nat /\ Len(shownMessages) \in Nat
        /\ rendered + 1 > Len(shownMessages) OBVIOUS
  <2> HIDE DEF now
  <2> QED BY <2>1, WritesNone
<1>3. /\ streaming' = m /\ shownMessages' = shownMessages /\ submitting' = submitting
      /\ printed' = printed \o (live \o written.out)
      /\ rendered' = Reply!Rendered(shownMessages) /\ streamed' = written.streamed
  BY <1>1 DEF Reply!Render, Reply!Shows, Reply!Output
<1> HIDE DEF written, now
<1>4. written.out = <<>> /\ written.streamed = now BY <1>2
<1>5. live \o <<>> = live OBVIOUS
<1> QED BY <1>3, <1>4, <1>5 DEF Reply!Rendered, now

-----------------------------------------------------------------------------
(* The actions keep the invariant.                                         *)

\* What was written stays right, and what is committed stays written.
LEMMA PrintedStays ==
  ASSUME NEW p, NEW s, NEW ch, NEW md \in Nat, PrintedOK(p, s, ch, md),
         NEW ch2, NEW md2 \in Nat, md <= md2,
         \A m \in Nat : Unsettled(m, ch2, md2) => Unsettled(m, ch, md),
         \A m \in Nat : m <= md /\ Answers(m, ch2) => Answers(m, ch)
  PROVE  PrintedOK(p, s, ch2, md2)
<1>1. ASSUME NEW i \in DOMAIN p PROVE PartOK(p[i], s, ch2, md2)
  <2>1. PartOK(p[i], s, ch, md) BY DEF PrintedOK
  <2>2. p[i].of \in Nat
    <3>1. p \in Seq(ReplyParts) BY DEF PrintedOK, Printable
    <3>2. p[i] \in ReplyParts BY <3>1
    <3> QED BY <3>2 DEF ReplyParts
  <2> QED BY <2>1, <2>2 DEF PartOK
<1> QED BY <1>1 DEF PrintedOK

\* The messages shown stay as they should be when more is printed and less is
\* unsettled.
LEMMA MessagesStay ==
  ASSUME NEW ms, NEW p, NEW ch, NEW md, MessagesOK(ms, p, ch, md),
         NEW p2, NEW ch2, NEW md2, \A x : Holds(p, x) => Holds(p2, x),
         \A m \in Nat : Unsettled(m, ch2, md2) => Unsettled(m, ch, md)
  PROVE  MessagesOK(ms, p2, ch2, md2)
<1>1. ASSUME NEW i \in DOMAIN ms, Reply!Heard(ms[i]) PROVE Settled(ms[i], p2, ch2, md2)
  <2>1. Settled(ms[i], p, ch, md) BY <1>1 DEF MessagesOK
  <2>2. ms[i].id \in Nat
    <3>1. ms \in Seq(ReplyMessages) BY DEF MessagesOK
    <3>2. ms[i] \in ReplyMessages BY <3>1
    <3> QED BY <3>2 DEF ReplyMessages
  <2> QED BY <2>1, <2>2 DEF Settled, Written
<1> QED BY <1>1 DEF MessagesOK

\* And with one more that is written and settled.
LEMMA MessagesGrow ==
  ASSUME NEW ms, NEW p, NEW ch, NEW md, MessagesOK(ms, p, ch, md), NEW x \in ReplyMessages,
         WellMade(x), Written(x, p), x.role = "assistant" => ~Unsettled(x.id, ch, md)
  PROVE  MessagesOK(Append(ms, x), p, ch, md)
<1> DEFINE new == Append(ms, x)
<1>1. ms \in Seq(ReplyMessages) BY DEF MessagesOK
<1>2. /\ new \in Seq(ReplyMessages)
      /\ \A i \in DOMAIN new : (i \in DOMAIN ms /\ new[i] = ms[i]) \/ new[i] = x
  BY <1>1
<1> HIDE DEF new
<1>3. \A i \in DOMAIN ms : Reply!Heard(ms[i]) => Settled(ms[i], p, ch, md) BY DEF MessagesOK
<1>4. Settled(x, p, ch, md) BY DEF Settled
<1>5. \A i \in DOMAIN new : Reply!Heard(new[i]) => Settled(new[i], p, ch, md)
  BY <1>2, <1>3, <1>4
<1> QED BY <1>2, <1>5 DEF MessagesOK, new

\* The messages of a turn.
LEMMA AssistantMade ==
  ASSUME NEW m \in Nat \ {0}, NEW c \in Nat, NEW r \in Nat, NEW withCalls \in BOOLEAN,
             NEW interrupted \in BOOLEAN,
         NEW x, x = Reply!Assistant(m, c, r, withCalls, interrupted)
  PROVE  /\ x \in ReplyMessages /\ WellMade(x) /\ x.role = "assistant" /\ x.id = m
         /\ x.content.length = c /\ x.reasoning.length = r /\ x.calls = withCalls
<1>1. /\ Reply!Text(m, c) \in ReplyTexts /\ Reply!Text(m, c).length = c
      /\ Reply!Text(m, r) \in ReplyTexts /\ Reply!Text(m, r).length = r
  BY DEF Reply!Text, Reply!NoText, ReplyTexts
<1>2. x = [role |-> "assistant", id |-> m, content |-> Reply!Text(m, c),
        reasoning |-> Reply!Text(m, r),
           calls |-> withCalls, interrupted |-> interrupted]
  BY DEF Reply!Assistant
<1>3. x \in ReplyMessages BY <1>1, <1>2 DEF ReplyMessages
<1>4. /\ x.role = "assistant" /\ x.id = m /\ x.content = Reply!Text(m, c)
      /\ x.reasoning = Reply!Text(m, r)
  BY <1>2
<1>5. x.calls = withCalls BY <1>2
<1> QED BY <1>1, <1>3, <1>4, <1>5 DEF WellMade

\* The messages the session makes are well made.
LEMMA MadeMessages ==
  /\ \A m \in Nat \ {0} : /\ Reply!ToolResult(m) \in ReplyMessages /\ WellMade(Reply!ToolResult(m))
                          /\ Reply!ToolResult(m).role = "tool" /\ Reply!ToolResult(m).id = m
  /\ \A t \in Nat : /\ Reply!UserMessage(t) \in ReplyMessages /\ WellMade(Reply!UserMessage(t))
                    /\ Reply!UserMessage(t).role = "user"
                    /\ Reply!UserMessage(t).content = Reply!NoText
  /\ \A i \in Nat : Reply!SystemMessage(i) \in ReplyMessages /\ ~Reply!Heard(Reply!SystemMessage(i))
<1>1. Reply!NoText \in ReplyTexts /\ Reply!NoText.length = 0 BY DEF Reply!NoText, ReplyTexts
<1>4. ASSUME NEW m \in Nat, NEW role \in {"tool", "user", "system"}, NEW x,
             x = [role |-> role, id |-> m, content |-> Reply!NoText, reasoning |-> Reply!NoText,
                  calls |-> FALSE, interrupted |-> FALSE]
      PROVE  /\ x \in ReplyMessages /\ x.role = role /\ x.id = m /\ x.content = Reply!NoText
             /\ ~x.calls
  <2>1. x \in ReplyMessages BY <1>1, <1>4 DEF ReplyMessages
  <2>2. x.role = role /\ x.id = m /\ x.content = Reply!NoText /\ ~x.calls BY <1>4
  <2> QED BY <2>1, <2>2
<1>5. \A m \in Nat : /\ Reply!ToolResult(m) = [role |-> "tool", id |-> m, content |-> Reply!NoText, reasoning |-> Reply!NoText,
                                         calls |-> FALSE, interrupted |-> FALSE]
                     /\ Reply!UserMessage(m) = [role |-> "user", id |-> m, content |-> Reply!NoText,
                          reasoning |-> Reply!NoText,
                                          calls |-> FALSE, interrupted |-> FALSE]
                     /\ Reply!SystemMessage(m) = [role |-> "system", id |-> m, content |-> Reply!NoText,
                          reasoning |-> Reply!NoText,
                                          calls |-> FALSE, interrupted |-> FALSE]
  <2> TAKE m \in Nat
  <2> DEFINE R(role, id, f) == [role |-> role, id |-> id, content |-> Reply!NoText, reasoning |-> Reply!NoText,
                                calls |-> f, interrupted |-> f]
  <2>1. \A r, a, b : [r EXCEPT !.role = a,
          !.id = b] = [[r EXCEPT !.role = a] EXCEPT !.id = b] OBVIOUS
  <2>2. \A a, f : [R("none", 0, f) EXCEPT !.role = a] = R(a, 0, f) OBVIOUS
  <2>3. \A a, b, f : [R(a, 0, f) EXCEPT !.id = b] = R(a, b, f) OBVIOUS
  <2>4. Reply!NoMessage = R("none", 0, FALSE) BY DEF Reply!NoMessage
  <2> HIDE DEF R
  <2>5. \A a, b : [Reply!NoMessage EXCEPT !.role = a, !.id = b] = R(a, b, FALSE)
    <3> TAKE a, b
    <3>1. [Reply!NoMessage EXCEPT !.role = a,
            !.id = b] = [[Reply!NoMessage EXCEPT !.role = a] EXCEPT !.id = b] BY Zenon, <2>1
    <3>2. [Reply!NoMessage EXCEPT !.role = a] = R(a, 0, FALSE) BY Zenon, <2>2, <2>4
    <3>3. [R(a, 0, FALSE) EXCEPT !.id = b] = R(a, b, FALSE) BY Zenon, <2>3
    <3> QED BY Zenon, <3>1, <3>2, <3>3
  <2>6. Reply!ToolResult(m) = R("tool", m, FALSE) /\ Reply!UserMessage(m) = R("user", m, FALSE)
        /\ Reply!SystemMessage(m) = R("system", m, FALSE)
    BY Zenon, <2>5 DEF Reply!ToolResult, Reply!UserMessage, Reply!SystemMessage
  <2> QED BY <2>6 DEF R
<1>6. ASSUME NEW m \in Nat \ {0}
      PROVE  /\ Reply!ToolResult(m) \in ReplyMessages /\ WellMade(Reply!ToolResult(m))
             /\ Reply!ToolResult(m).role = "tool" /\ Reply!ToolResult(m).id = m
  <2>1. /\ Reply!ToolResult(m) \in ReplyMessages /\ Reply!ToolResult(m).role = "tool"
        /\ Reply!ToolResult(m).id = m
        /\ Reply!ToolResult(m).content = Reply!NoText /\ ~Reply!ToolResult(m).calls
    BY <1>4, <1>5
  <2> QED BY <2>1 DEF WellMade
<1>7. ASSUME NEW t \in Nat
      PROVE  /\ Reply!UserMessage(t) \in ReplyMessages /\ WellMade(Reply!UserMessage(t))
             /\ Reply!UserMessage(t).role = "user" /\ Reply!UserMessage(t).content = Reply!NoText
  <2>1. /\ Reply!UserMessage(t) \in ReplyMessages /\ Reply!UserMessage(t).role = "user"
        /\ Reply!UserMessage(t).content = Reply!NoText /\ ~Reply!UserMessage(t).calls
    BY <1>4, <1>5
  <2> QED BY <2>1 DEF WellMade
<1>8. ASSUME NEW i \in Nat
      PROVE  Reply!SystemMessage(i) \in ReplyMessages /\ ~Reply!Heard(Reply!SystemMessage(i))
  <2>1. Reply!SystemMessage(i) \in ReplyMessages /\ Reply!SystemMessage(i).role = "system"
    BY <1>4, <1>5
  <2> QED BY <2>1 DEF Reply!Heard
<1> QED BY <1>6, <1>7, <1>8

\* A channel that is empty while no turn runs: nothing is being streamed.
LEMMA NothingStreams ==
  ASSUME ReplyInv, wire = <<>>, ~running
  PROVE  streaming = Reply!NoMessage /\ streamed = Reply!NothingStreamed
<1> SUFFICES ASSUME NEW m, StreamedIs(m, streamed, wire, replies, reply) PROVE FALSE
  BY DEF ReplyInv
<1>1. ~Commits(m.id, wire) BY DEF Commits
<1>2. reply.c = 0 /\ reply.r = 0 /\ replies \in Nat BY DEF ReplyInv
<1>3. /\ m.id \in Nat /\ m.content.length \in Nat /\ m.reasoning.length \in Nat
      /\ m.content.length + m.reasoning.length > 0 /\ Within(m, wire, replies, reply)
  BY DEF StreamedIs, ChunkShape, ReplyMessages, ReplyTexts
<1> QED BY <1>1, <1>2, <1>3 DEF Within

\* What the invariant says of what is shown again.
LEMMA StreamingIs ==
  ASSUME ReplyInv
  PROVE  /\ printed \in Seq(ReplyParts) /\ shownMessages \in Seq(ReplyMessages)
         /\ rendered = Len(shownMessages) /\ rendered \in Nat
         /\ streamed = Reply!NothingStreamed \/ \E m : StreamedIs(m, streamed, wire, replies, reply)
         /\ \/ streaming = Reply!NoMessage
            \/ /\ streaming # Reply!NoMessage /\ streaming.content \in ReplyTexts /\
                 streaming.reasoning \in ReplyTexts
               /\ streamed = [content |-> streaming.content, reasoning |-> streaming.reasoning]
<1>1. /\ printed \in Seq(ReplyParts) /\ shownMessages \in Seq(ReplyMessages)
      /\ rendered = Len(shownMessages)
  BY DEF ReplyInv, PrintedOK, Printable, MessagesOK
<1>2. ASSUME NEW m \in ReplyMessages, StreamedIs(m, streamed, wire, replies, reply), streaming = m
      PROVE  /\ streaming # Reply!NoMessage /\ streaming.content \in ReplyTexts
             /\ streaming.reasoning \in ReplyTexts
             /\ streamed = [content |-> streaming.content, reasoning |-> streaming.reasoning]
  <2>1. m.role = "assistant" /\ m.content \in ReplyTexts /\ m.reasoning \in ReplyTexts
    BY <1>2 DEF StreamedIs, ChunkShape, ReplyMessages
  <2>2. Reply!NoMessage.role = "none" BY DEF Reply!NoMessage
  <2> QED BY <2>1, <2>2, <1>2 DEF StreamedIs
<1> QED BY <1>1, <1>2 DEF ReplyInv

\* A step of the session alone keeps the invariant when the channel stays in
\* order.
LEMMA TurnKeeps ==
  ASSUME ReplyInv, UNCHANGED <<turns, replaced, streaming, shownMessages, submitting, Reply!shown>>,
         replies' \in Nat, replies <= replies', reply' \in [c : Nat, r : Nat], running' \in BOOLEAN,
         ~running' => reply' = [c |-> 0, r |-> 0], running' => running,
         ChannelOK(wire', replies', reply'),
         \A m, s : StreamedIs(m, s, wire, replies, reply) =>
           StreamedIs(m, s, wire', replies', reply'),
         \A m \in Nat : Unsettled(m, wire', replies') => Unsettled(m, wire, replies),
         \A m \in Nat : m <= replies /\ Answers(m, wire') => Answers(m, wire),
         Reply!CallsNext => Reply!CallsNext'
  PROVE  ReplyInv'
<1>1. /\ replies \in Nat /\ ChannelOK(wire, replies, reply)
      /\ PrintedOK(printed, streamed, wire, replies)
      /\ MessagesOK(shownMessages, printed, wire, replies)
  BY DEF ReplyInv
<1>2. PrintedOK(printed, streamed, wire', replies') BY <1>1, PrintedStays
<1>3. MessagesOK(shownMessages, printed, wire', replies') BY <1>1, MessagesStay
<1>4. /\ streamed' = streamed /\ printed' = printed /\ shownMessages' = shownMessages
      /\ rendered' = rendered
      /\ streaming' = streaming /\ submitting' = submitting
  BY DEF Reply!shown
<1>5. /\ PrintedOK(printed, streamed, wire, replies)'
      /\ MessagesOK(shownMessages, printed, wire, replies)'
  BY <1>2, <1>3, <1>4
<1>6. \/ streaming' = Reply!NoMessage /\ streamed' = Reply!NothingStreamed
      \/ \E m \in ReplyMessages :
          /\ StreamedIs(m, streamed', wire', replies', reply')
          /\ streaming' = m \/ (streaming' = Reply!NoMessage /\ Reply!CallsNext' /\ submitting')
  BY <1>4 DEF ReplyInv
<1> QED BY <1>4, <1>5, <1>6 DEF ReplyInv

\* The channel stays in order while the reply grows.
LEMMA ReplyGrows ==
  ASSUME NEW ch, NEW md \in Nat, NEW rp \in [c : Nat, r : Nat], ChannelOK(ch, md, rp),
         NEW rp2 \in [c : Nat, r : Nat], rp.c <= rp2.c, rp.r <= rp2.r
  PROVE  /\ ChannelOK(ch, md, rp2)
         /\ \A m, s : StreamedIs(m, s, ch, md, rp) => StreamedIs(m, s, ch, md, rp2)
<1>1. ASSUME NEW x \in ReplyNotes, NoteOK(x, ch, md, rp) PROVE NoteOK(x, ch, md, rp2)
  BY <1>1, NoteStays
<1>2. \A i \in DOMAIN ch : NoteOK(ch[i], ch, md, rp2)
  <2>1. \A i \in DOMAIN ch : ch[i] \in ReplyNotes /\ NoteOK(ch[i], ch, md, rp)
    <3>1. ch \in Seq(ReplyNotes) BY DEF ChannelOK
    <3> QED BY <3>1 DEF ChannelOK
  <2> QED BY <2>1, <1>1
<1>3. ASSUME NEW m, NEW s, StreamedIs(m, s, ch, md, rp) PROVE StreamedIs(m, s, ch, md, rp2)
  <2>1. /\ ChunkOf(m) \in ReplyNotes /\ NoteOK(ChunkOf(m), ch, md, rp) /\ IsChunk(ChunkOf(m))
        /\ ChunkOf(m).message = m
    BY <1>3, StreamedNote
  <2>2. NoteOK(ChunkOf(m), ch, md, rp2) BY <2>1, <1>1
  <2>3. Within(m, ch, md, rp2) BY <2>1, <2>2 DEF NoteOK
  <2> QED BY <2>3, <1>3 DEF StreamedIs
<1> QED BY <1>2, <1>3 DEF ChannelOK

Heads(ch, ch2) == ch # <<>> => ch2 # <<>> /\ Head(ch2) = Head(ch)

\* A note appended behind another leaves the first in its place.
LEMMA HeadStays ==
  ASSUME NEW ch \in Seq(ReplyNotes), NEW n \in ReplyNotes
  PROVE  Heads(ch, Append(ch, n))
BY DEF Heads

\* A chunk of the reply.
LEMMA ChunkKeeps == ASSUME ReplyInv, Reply!Chunk PROVE ReplyInv'
<1>1. /\ replies \in Nat /\ reply \in [c : Nat, r : Nat] /\ running
      /\ ChannelOK(wire, replies, reply)
      /\ wire \in Seq(ReplyNotes)
  BY DEF ReplyInv, Reply!Chunk, Reply!Answering, ChannelOK
<1>2. /\ reply' \in [c : Nat, r : Nat] /\ reply.c <= reply'.c /\ reply.r <= reply'.r
      /\ reply'.c + reply'.r > 0 /\ reply'.c \in Nat /\ reply'.r \in Nat
  <2>1. reply' = [c |-> reply.c + 1, r |-> reply.r] \/ reply' = [c |-> reply.c, r |-> reply.r + 1]
    BY <1>1 DEF Reply!Chunk
  <2> QED BY <1>1, <2>1
<1>3. /\ UNCHANGED <<turns, replaced, streaming, shownMessages, submitting, Reply!shown>>
      /\ replies' = replies /\ running' = running
  BY DEF Reply!Chunk
<1>4. CASE wire' = wire
  <2>1. /\ ChannelOK(wire, replies, reply')
        /\ \A m, s : StreamedIs(m, s, wire, replies, reply) =>
             StreamedIs(m, s, wire, replies, reply')
    BY <1>1, <1>2, ReplyGrows
  <2>2. Reply!CallsNext => Reply!CallsNext' BY <1>4 DEF Reply!CallsNext
  <2> QED BY <1>1, <1>2, <1>3, <1>4, <2>1, <2>2, TurnKeeps
<1>5. CASE wire' = Append(wire, [kind |-> "StreamChunkReceived",
                                       message |-> Reply!Assistant(replies + 1, reply'.c, reply'.r,
                                         FALSE, FALSE)])
  <2> DEFINE x == Reply!Assistant(replies + 1, reply'.c, reply'.r, FALSE, FALSE)
             n == [kind |-> "StreamChunkReceived", message |-> x]
  <2>0. /\ x = Reply!Assistant(replies + 1, reply'.c, reply'.r, FALSE, FALSE)
        /\ replies + 1 \in Nat \ {0}
    BY <1>1
  <2> HIDE DEF x
  <2>1. /\ x \in ReplyMessages /\ WellMade(x) /\ x.role = "assistant" /\ x.id = replies + 1
        /\ x.content.length = reply'.c /\ x.reasoning.length = reply'.r /\ ~x.calls
    <3> DEFINE no == FALSE
    <3>1. /\ no \in BOOLEAN /\ ~no
          /\ x = Reply!Assistant(replies + 1, reply'.c, reply'.r, no, no) BY <2>0
    <3> HIDE DEF no
    <3>2. /\ x \in ReplyMessages /\ WellMade(x) /\ x.role = "assistant" /\ x.id = replies + 1
          /\ x.content.length = reply'.c /\ x.reasoning.length = reply'.r /\ x.calls = no
      <4> DEFINE c == reply'.c
                 r == reply'.r
                 id == replies + 1
      <4>1. c \in Nat /\ r \in Nat /\ id \in Nat \ {0} BY <1>2, <2>0
      <4>2. x = Reply!Assistant(id, c, r, no, no) BY <3>1
      <4> HIDE DEF c, r, id
      <4>3. /\ x \in ReplyMessages /\ WellMade(x) /\ x.role = "assistant" /\ x.id = id
            /\ x.content.length = c /\ x.reasoning.length = r /\ x.calls = no
        BY <3>1, <4>1, <4>2, AssistantMade
      <4> QED BY <4>3 DEF c, r, id
    <3> QED BY <3>1, <3>2
  <2>2. n \in ReplyNotes /\ n.message = x /\ IsChunk(n) /\ ~IsAnswer(n) BY <2>1 DEF ReplyNotes,
          IsChunk, IsAnswer
  <2> HIDE DEF n
  <2>3. ChunkShape(x) BY <2>1, <1>2 DEF ChunkShape
  <2>4. Joins(n, wire, replies, reply, replies, reply') BY <1>2, <2>1, <2>2, <2>3 DEF Joins
  <2>5. /\ Joined(wire, replies, reply, Append(wire, n), replies, reply')
        /\ \A m : Answers(m, Append(wire, n)) <=> Answers(m, wire) \/
             (IsAnswer(n) /\ m = n.message.id)
    BY <1>1, <1>2, <2>1, <2>2, <2>4, NoteJoins
  <2>6. Reply!CallsNext => Reply!CallsNext'
    <3>1. wire' = Append(wire, n) BY <1>5 DEF n, x
    <3>2. Heads(wire, wire') BY <3>1, <1>1, <2>2, HeadStays
    <3> QED BY <3>2 DEF Reply!CallsNext, Heads
  <2>7. wire' = Append(wire, n) BY <1>5 DEF n, x
  <2> QED BY <1>1, <1>2, <1>3, <2>2, <2>5, <2>6, <2>7, TurnKeeps DEF Joined
<1> QED BY <1>4, <1>5 DEF Reply!Chunk

\* A reply that is committed, with calls or without.
LEMMA CommitJoins ==
  ASSUME ReplyInv, NEW withCalls \in BOOLEAN, NEW interrupted \in BOOLEAN, NEW n, NEW n2,
         n = [kind |-> "MessageAppended",
              message |-> Reply!Assistant(replies + 1, reply.c, reply.r, withCalls, interrupted)],
         n2 = [kind |-> "MessageAppended", message |-> Reply!ToolResult(replies + 1)],
         replies' = replies + 1, reply' = [c |-> 0, r |-> 0],
         wire' = Append(wire, n) \/ wire' = Append(Append(wire, n), n2)
  PROVE  /\ replies \in Nat /\ replies' \in Nat /\ replies <= replies'
         /\ reply' \in [c : Nat, r : Nat]
         /\ ChannelOK(wire', replies', reply')
         /\ \A m, s : StreamedIs(m, s, wire, replies, reply) =>
              StreamedIs(m, s, wire', replies', reply')
         /\ \A m \in Nat : Unsettled(m, wire', replies') => Unsettled(m, wire, replies)
         /\ \A m \in Nat : m <= replies /\ Answers(m, wire') => Answers(m, wire)
         /\ Reply!CallsNext => Reply!CallsNext'
<1>1. /\ replies \in Nat /\ reply \in [c : Nat, r : Nat] /\ ChannelOK(wire, replies, reply)
      /\ wire \in Seq(ReplyNotes) /\ replies + 1 \in Nat \ {0} /\ reply.c \in Nat /\ reply.r \in Nat
      /\ reply' \in [c : Nat, r : Nat]
  BY DEF ReplyInv, ChannelOK
<1> DEFINE x == Reply!Assistant(replies + 1, reply.c, reply.r, withCalls, interrupted)
           first == Append(wire, n)
<1>0. x = Reply!Assistant(replies + 1, reply.c, reply.r, withCalls, interrupted) OBVIOUS
<1> HIDE DEF x
<1>2. /\ x \in ReplyMessages /\ WellMade(x) /\ x.role = "assistant" /\ x.id = replies + 1
      /\ x.content.length = reply.c /\ x.reasoning.length = reply.r
  BY <1>0, <1>1, AssistantMade, SMTT(30)
<1>3. n \in ReplyNotes /\ n.message = x /\ IsCommit(n) /\ ~IsAnswer(n)
  <2>1. n = [kind |-> "MessageAppended", message |-> x] BY DEF x
  <2> QED BY <2>1, <1>2 DEF ReplyNotes, IsCommit, IsAnswer
<1>4. Joins(n, wire, replies, reply, replies + 1, reply') BY <1>2, <1>3 DEF Joins
<1>5. /\ Joined(wire, replies, reply, first, replies + 1, reply')
      /\ \A m : Answers(m, first) <=> Answers(m, wire)
  <2>1. WellMade(n.message) BY <1>2, <1>3
  <2> QED BY <1>1, <1>3, <1>4, <2>1, NoteJoins
<1>6. first \in Seq(ReplyNotes) /\ Heads(wire, first) BY <1>1, <1>3, HeadStays
<1> HIDE DEF first
<1>7. CASE wire' = first
  <2>1. Reply!CallsNext => Reply!CallsNext' BY <1>6, <1>7 DEF Reply!CallsNext, Heads
  <2> QED BY <1>1, <1>5, <1>7, <2>1 DEF Joined
<1>8. CASE wire' = Append(first, n2)
  <2> DEFINE y == Reply!ToolResult(replies + 1)
  <2>1. y \in ReplyMessages /\ WellMade(y) /\ y.role = "tool" /\ y.id = replies + 1 BY <1>1,
          MadeMessages
  <2> HIDE DEF y
  <2>2. n2 \in ReplyNotes /\ n2.message = y /\ IsAnswer(n2)
    <3>1. n2 = [kind |-> "MessageAppended", message |-> y] BY DEF y
    <3> QED BY <3>1, <2>1 DEF ReplyNotes, IsAnswer
  <2>3. ~Answers(replies + 1, first)
    <3> SUFFICES ASSUME NEW i \in DOMAIN wire, IsAnswer(wire[i]), wire[i].message.id = replies + 1
                 PROVE  FALSE
      BY <1>1, <1>5 DEF Answers
    <3>1. wire[i].message.id <= replies BY <1>1 DEF ChannelOK, NoteOK
    <3> QED BY <3>1, <1>1
  <2>4. Joins(n2, first, replies + 1, reply', replies + 1, reply') BY <1>1, <2>1, <2>2,
          <2>3 DEF Joins
  <2>5. /\ Joined(first, replies + 1, reply', Append(first, n2), replies + 1, reply')
        /\ \A m : Answers(m, Append(first, n2)) <=> Answers(m, first) \/
             (IsAnswer(n2) /\ m = n2.message.id)
    <3>1. WellMade(n2.message) /\ ChannelOK(first, replies + 1, reply') BY <1>5, <2>1,
            <2>2 DEF Joined
    <3> QED BY <1>1, <2>2, <2>4, <3>1, NoteJoins
  <2>6. Reply!CallsNext => Reply!CallsNext'
    <3>1. Heads(first, wire') BY <1>6, <1>8, <2>2, HeadStays
    <3> QED BY <1>6, <3>1 DEF Reply!CallsNext, Heads
  <2>7. \A m \in Nat : m <= replies => m # n2.message.id BY <1>1, <2>1, <2>2
  <2>8. /\ ChannelOK(wire', replies', reply')
        /\ \A m, s : StreamedIs(m, s, wire, replies, reply) =>
             StreamedIs(m, s, wire', replies', reply')
        /\ \A m \in Nat : Unsettled(m, wire', replies') => Unsettled(m, wire, replies)
        /\ \A m \in Nat : m <= replies /\ Answers(m, wire') => Answers(m, wire)
    BY <1>5, <1>8, <2>5, <2>7 DEF Joined
  <2> QED BY <1>1, <2>6, <2>8
<1> QED BY <1>7, <1>8 DEF first

\* Notes of appended messages, one or two at once.
LEMMA AppendedIs ==
  ASSUME wire \in Seq(ReplyNotes), NEW x, NEW y
  PROVE  /\ Reply!Appended(<<x>>) = Append(wire, [kind |-> "MessageAppended", message |-> x])
         /\ Reply!Appended(<<x, y>>) = Append(Append(wire,
              [kind |-> "MessageAppended", message |-> x]),
                                        [kind |-> "MessageAppended", message |-> y])
<1> DEFINE N(m) == [kind |-> "MessageAppended", message |-> m]
<1>1. Reply!Appended(<<x>>) = wire \o <<N(x)>>
  <2>1. [i \in DOMAIN <<x>> |-> N(<<x>>[i])] = <<N(x)>> OBVIOUS
  <2> QED BY <2>1 DEF Reply!Appended
<1>2. Reply!Appended(<<x, y>>) = wire \o <<N(x), N(y)>>
  <2>1. [i \in DOMAIN <<x, y>> |-> N(<<x, y>>[i])] = <<N(x), N(y)>> OBVIOUS
  <2> QED BY <2>1 DEF Reply!Appended
<1> HIDE DEF N
<1>3. wire \o <<N(x)>> = Append(wire, N(x)) OBVIOUS
<1>4. wire \o <<N(x), N(y)>> = Append(Append(wire, N(x)), N(y)) OBVIOUS
<1> QED BY <1>1, <1>2, <1>3, <1>4 DEF N

\* The reply is committed.
LEMMA CommitKeeps == ASSUME ReplyInv, Reply!Commit PROVE ReplyInv'
<1>1. wire \in Seq(ReplyNotes) /\ running BY DEF ReplyInv, ChannelOK, Reply!Commit, Reply!Answering
<1>2. /\ UNCHANGED <<turns, replaced, streaming, shownMessages, submitting, Reply!shown>>
      /\ replies' = replies + 1 /\ reply' = [c |-> 0, r |-> 0] /\ running' \in BOOLEAN
      /\ (running' => running)
  BY <1>1 DEF Reply!Commit
<1> DEFINE n(withCalls) == [kind |-> "MessageAppended",
                        message |-> Reply!Assistant(replies + 1, reply.c, reply.r, withCalls,
                          FALSE)]
           n2 == [kind |-> "MessageAppended", message |-> Reply!ToolResult(replies + 1)]
<1>3. \/ wire' = Append(Append(wire, n(TRUE)), n2)
      \/ wire' = Append(wire, n(FALSE))
  BY <1>1, AppendedIs DEF Reply!Commit
<1>4. /\ replies \in Nat /\ replies' \in Nat /\ replies <= replies' /\ reply' \in [c : Nat, r : Nat]
      /\ ChannelOK(wire', replies', reply')
      /\ \A m, s : StreamedIs(m, s, wire, replies, reply) =>
           StreamedIs(m, s, wire', replies', reply')
      /\ \A m \in Nat : Unsettled(m, wire', replies') => Unsettled(m, wire, replies)
      /\ \A m \in Nat : m <= replies /\ Answers(m, wire') => Answers(m, wire)
      /\ Reply!CallsNext => Reply!CallsNext'
  BY <1>2, <1>3, CommitJoins
<1> QED BY <1>2, <1>4, TurnKeeps

\* The turn is interrupted.
LEMMA ReplyInterruptKeeps == ASSUME ReplyInv, Reply!Interrupt PROVE ReplyInv'
<1>1. wire \in Seq(ReplyNotes) /\ running /\ replies \in Nat /\ reply \in [c : Nat, r : Nat]
      /\ ChannelOK(wire, replies, reply)
  BY DEF ReplyInv, ChannelOK, Reply!Interrupt
<1>2. /\ UNCHANGED <<turns, replaced, streaming, shownMessages, submitting, Reply!shown>>
      /\ reply' = [c |-> 0, r |-> 0] /\ running' = FALSE
  BY DEF Reply!Interrupt
<1>3. CASE reply.c = 0 /\ reply.r = 0
  <2>1. UNCHANGED <<wire, replies>> BY <1>3 DEF Reply!Interrupt
  <2>2. reply' = reply BY <1>1, <1>2, <1>3
  <2>3. Reply!CallsNext => Reply!CallsNext' BY <2>1 DEF Reply!CallsNext
  <2>4. replies \in Nat /\ replies <= replies BY <1>1
  <2>5. /\ ChannelOK(wire', replies', reply')
        /\ \A m, s : StreamedIs(m, s, wire, replies, reply) =>
             StreamedIs(m, s, wire', replies', reply')
        /\ \A m \in Nat : Unsettled(m, wire', replies') => Unsettled(m, wire, replies)
        /\ \A m \in Nat : m <= replies /\ Answers(m, wire') => Answers(m, wire)
        /\ replies' = replies
    BY <1>1, <2>1, <2>2
  <2> QED BY <1>1, <1>2, <2>2, <2>3, <2>4, <2>5, TurnKeeps
<1>4. CASE ~(reply.c = 0 /\ reply.r = 0)
  <2> DEFINE n == [kind |-> "MessageAppended",
                   message |-> Reply!Assistant(replies + 1, reply.c, reply.r, FALSE, TRUE)]
             n2 == [kind |-> "MessageAppended", message |-> Reply!ToolResult(replies + 1)]
  <2>1. replies' = replies + 1 /\ wire' = Append(wire, n)
    BY <1>1, <1>4, AppendedIs DEF Reply!Interrupt
  <2>2. /\ replies \in Nat /\ replies' \in Nat /\ replies <= replies'
        /\ reply' \in [c : Nat, r : Nat]
        /\ ChannelOK(wire', replies', reply')
        /\ \A m, s : StreamedIs(m, s, wire, replies, reply) =>
             StreamedIs(m, s, wire', replies', reply')
        /\ \A m \in Nat : Unsettled(m, wire', replies') => Unsettled(m, wire, replies)
        /\ \A m \in Nat : m <= replies /\ Answers(m, wire') => Answers(m, wire)
        /\ Reply!CallsNext => Reply!CallsNext'
    <3> HIDE DEF n2
    <3>1. n2 = [kind |-> "MessageAppended", message |-> Reply!ToolResult(replies + 1)] BY DEF n2
    <3> QED BY <1>2, <2>1, <3>1, CommitJoins
  <2> QED BY <1>2, <2>2, TurnKeeps
<1> QED BY <1>3, <1>4

\* Showing again what is shown writes nothing; showing nothing leaves what streamed.
LEMMA RenderAgain ==
  ASSUME ReplyInv, NEW st \in {streaming, Reply!NoMessage}, NEW busy,
         Reply!Render(st, shownMessages, busy),
         st = Reply!NoMessage /\ streamed # Reply!NothingStreamed => busy
  PROVE  streaming' = st /\ submitting' = busy /\ UNCHANGED <<shownMessages, Reply!shown>>
<1>1. /\ streaming' = st /\ shownMessages' = shownMessages /\ submitting' = busy
      /\ printed' = printed /\ rendered' = rendered /\ replayed' = replayed
      /\ streamed' = IF st = Reply!NoMessage /\ streamed.content # Reply!NoText /\
           ~busy THEN Reply!NothingStreamed ELSE streamed
  <2>1. /\ printed \in Seq(ReplyParts) /\ shownMessages \in Seq(ReplyMessages)
        /\ rendered = Len(shownMessages) /\ rendered \in Nat
        /\ \/ st = Reply!NoMessage
           \/ /\ st # Reply!NoMessage /\ st.content \in ReplyTexts /\ st.reasoning \in ReplyTexts
              /\ streamed = [content |-> st.content, reasoning |-> st.reasoning]
    BY StreamingIs
  <2>2. Len(shownMessages) \in Nat /\ Len(shownMessages) <= rendered BY <2>1
  <2>3. replayed' = replayed BY DEF Reply!Render
  <2> QED BY <2>1, <2>2, <2>3, RenderNone
<1>2. Reply!NothingStreamed.content = Reply!NoText BY DEF Reply!NothingStreamed
<1> QED BY <1>1, <1>2 DEF Reply!shown

\* A step of the interface that prints nothing new.
LEMMA ShownAgain ==
  ASSUME ReplyInv, UNCHANGED <<shownMessages, Reply!shown, replies, reply>>,
         streaming' \in {streaming, Reply!NoMessage},
         submitting' \in BOOLEAN, running' => submitting', running' \in BOOLEAN,
         turns' \in Nat, replaced' \in Nat, ~running' => reply = [c |-> 0, r |-> 0],
         ChannelOK(wire', replies, reply),
         \A m : Unsettled(m, wire', replies) <=> Unsettled(m, wire, replies),
         \A m : Answers(m, wire') <=> Answers(m, wire),
         \A m, s : StreamedIs(m, s, wire, replies, reply) =>
           StreamedIs(m, s, wire', replies, reply),
         streaming' = Reply!NoMessage /\ streamed # Reply!NothingStreamed => submitting' /\
           Reply!CallsNext'
  PROVE  ReplyInv'
<1>1. /\ shownMessages' = shownMessages /\ printed' = printed /\ rendered' = rendered
      /\ streamed' = streamed
      /\ replies' = replies /\ reply' = reply
  BY DEF Reply!shown
<1>3. /\ replies \in Nat /\ PrintedOK(printed, streamed, wire, replies)
      /\ MessagesOK(shownMessages, printed, wire, replies)
  BY DEF ReplyInv
<1>4. PrintedOK(printed, streamed, wire, replies)'
  <2>1. replies <= replies BY <1>3
  <2>2. PrintedOK(printed, streamed, wire', replies) BY <1>3, <2>1, PrintedStays
  <2> QED BY <2>2, <1>1
<1>5. MessagesOK(shownMessages, printed, wire, replies)'
  <2>1. MessagesOK(shownMessages, printed, wire', replies) BY <1>3, MessagesStay
  <2> QED BY <2>1, <1>1
<1>6. \/ streaming' = Reply!NoMessage /\ streamed' = Reply!NothingStreamed
      \/ \E m \in ReplyMessages :
          /\ StreamedIs(m, streamed', wire', replies', reply')
          /\ streaming' = m \/ (streaming' = Reply!NoMessage /\ Reply!CallsNext' /\ submitting')
  BY <1>1 DEF ReplyInv
<1> QED BY <1>1, <1>4, <1>5, <1>6 DEF ReplyInv

\* A render of what is already shown.
LEMMA AgainKeeps ==
  ASSUME ReplyInv, UNCHANGED <<shownMessages, Reply!shown, Reply!turn, wire, replaced>>,
         streaming' \in {streaming, Reply!NoMessage},
         submitting' \in BOOLEAN, running => submitting',
         streaming' = Reply!NoMessage /\ streamed # Reply!NothingStreamed => submitting' /\
           Reply!CallsNext
  PROVE  ReplyInv'
<1>1. /\ replies' = replies /\ reply' = reply /\ running' = running /\ turns' = turns
      /\ wire' = wire /\ replaced' = replaced
  BY DEF Reply!turn
<1>2. Reply!CallsNext' <=> Reply!CallsNext BY <1>1 DEF Reply!CallsNext
<1>3. /\ running' \in BOOLEAN /\ turns' \in Nat /\ replaced' \in Nat
      /\ ~running' => reply = [c |-> 0, r |-> 0]
      /\ ChannelOK(wire', replies, reply)
  BY <1>1 DEF ReplyInv
<1>4. streaming' = Reply!NoMessage /\ streamed # Reply!NothingStreamed => submitting' /\
        Reply!CallsNext' BY <1>2
<1>5. /\ \A m : Unsettled(m, wire', replies) <=> Unsettled(m, wire, replies)
      /\ \A m : Answers(m, wire') <=> Answers(m, wire)
      /\ \A m, s : StreamedIs(m, s, wire, replies, reply) => StreamedIs(m, s, wire', replies, reply)
  BY <1>1
<1> QED BY <1>1, <1>3, <1>4, <1>5, ShownAgain

\* An approval is answered.
LEMMA ApprovalAnsweredKeeps == ASSUME ReplyInv, Reply!ApprovalAnswered PROVE ReplyInv'
<1>1. /\ submitting /\ Reply!CallsNext /\ Reply!Render(Reply!NoMessage, shownMessages, TRUE)
      /\ UNCHANGED <<Reply!turn, wire, replaced>>
  BY DEF Reply!ApprovalAnswered
<1>2. streaming' = Reply!NoMessage /\ submitting' = TRUE /\ UNCHANGED <<shownMessages, Reply!shown>>
  BY <1>1, RenderAgain
<1> QED BY <1>1, <1>2, AgainKeeps

\* A submitted prompt is finished.
LEMMA FinishSubmitKeeps == ASSUME ReplyInv, Reply!finishSubmit PROVE ReplyInv'
<1>1. /\ ~running
      /\ (Reply!CallsNext => streaming # Reply!NoMessage \/ streamed = Reply!NothingStreamed)
      /\ Reply!Render(streaming, shownMessages, FALSE) /\ UNCHANGED <<Reply!turn, wire, replaced>>
  BY DEF Reply!finishSubmit
<1>2. ~(streaming = Reply!NoMessage /\ streamed # Reply!NothingStreamed)
  <2>1. ASSUME NEW m \in ReplyMessages, StreamedIs(m, streamed, wire, replies, reply)
        PROVE  m # Reply!NoMessage
    <3>1. m.role = "assistant" BY <2>1 DEF StreamedIs, ChunkShape
    <3>2. Reply!NoMessage.role = "none" BY DEF Reply!NoMessage
    <3> QED BY <3>1, <3>2
  <2> QED BY <2>1, <1>1 DEF ReplyInv
<1>3. streaming' = streaming /\ submitting' = FALSE /\ UNCHANGED <<shownMessages, Reply!shown>>
  BY <1>1, <1>2, RenderAgain
<1> QED BY <1>1, <1>2, <1>3, AgainKeeps

\* Any other render.
LEMMA AnyOtherKeeps == ASSUME ReplyInv, Reply!AnyOther PROVE ReplyInv'
<1>1. Reply!Render(streaming, shownMessages, submitting) /\ UNCHANGED <<Reply!turn, wire, replaced>>
  BY DEF Reply!AnyOther
<1>2. submitting \in BOOLEAN /\ (running => submitting) BY DEF ReplyInv
<1>3. streaming = Reply!NoMessage /\ streamed # Reply!NothingStreamed => submitting /\
        Reply!CallsNext
  <2>1. ASSUME NEW m \in ReplyMessages, StreamedIs(m, streamed, wire, replies, reply)
        PROVE  m # Reply!NoMessage
    <3>1. m.role = "assistant" BY <2>1 DEF StreamedIs, ChunkShape
    <3>2. Reply!NoMessage.role = "none" BY DEF Reply!NoMessage
    <3> QED BY <3>1, <3>2
  <2> QED BY <2>1 DEF ReplyInv
<1>4. streaming' = streaming /\ submitting' = submitting /\ UNCHANGED <<shownMessages, Reply!shown>>
  BY <1>1, <1>3, RenderAgain
<1> QED BY <1>1, <1>2, <1>3, <1>4, AgainKeeps

\* A prompt is submitted.
LEMMA SubmitPromptKeeps == ASSUME ReplyInv, Reply!submitPrompt PROVE ReplyInv'
<1>1. /\ ~running /\ wire = <<>> /\ turns' = turns + 1 /\ running' = TRUE
      /\ wire' = <<[kind |-> "MessageAppended", message |-> Reply!UserMessage(turns + 1)]>>
      /\ Reply!Render(Reply!NoMessage, shownMessages, TRUE)
      /\ UNCHANGED <<reply, replies, replaced>>
  BY DEF Reply!submitPrompt
<1>2. /\ replies \in Nat /\ turns \in Nat /\ replaced \in Nat /\ reply \in [c : Nat, r : Nat]
      /\ ChannelOK(wire, replies, reply)
  BY DEF ReplyInv
<1>3. streaming = Reply!NoMessage /\ streamed = Reply!NothingStreamed BY <1>1, NothingStreams
<1> DEFINE x == Reply!UserMessage(turns + 1)
           n == [kind |-> "MessageAppended", message |-> x]
<1>4. x \in ReplyMessages /\ WellMade(x) /\ x.role = "user"
  <2>1. turns + 1 \in Nat BY <1>2
  <2> QED BY <2>1, MadeMessages
<1> HIDE DEF x
<1>5. n \in ReplyNotes /\ n.message = x /\ ~IsAnswer(n) /\ n.kind = "MessageAppended"
  BY <1>4 DEF ReplyNotes, IsAnswer
<1>6. wire' = Append(wire, n) BY <1>1 DEF x
<1> HIDE DEF n
<1>7. Joins(n, wire, replies, reply, replies, reply) BY <1>4, <1>5 DEF Joins
<1>8. /\ Joined(wire, replies, reply, wire', replies, reply)
      /\ \A m : Answers(m, wire') <=> Answers(m, wire)
  BY <1>2, <1>4, <1>5, <1>6, <1>7, NoteJoins
<1>9. \A m : Unsettled(m, wire', replies) <=> Unsettled(m, wire, replies)
  <2>1. wire \in Seq(ReplyNotes) BY <1>2 DEF ChannelOK
  <2>2. ~IsCommit(n) BY <1>4, <1>5 DEF IsCommit
  <2>3. \A m : Commits(m, wire') <=> Commits(m, wire) BY <1>5, <1>6, <2>1, <2>2, CommitsGrow
  <2> QED BY <2>3 DEF Unsettled
<1>10. /\ turns' \in Nat /\ replaced' \in Nat /\ running' \in BOOLEAN /\ replies' = replies
       /\ reply' = reply
  BY <1>1, <1>2
<1>11. /\ ChannelOK(wire', replies, reply)
       /\ \A m, s : StreamedIs(m, s, wire, replies, reply) =>
            StreamedIs(m, s, wire', replies, reply)
  BY <1>8 DEF Joined
<1>12. /\ streaming' = Reply!NoMessage /\ submitting' = TRUE
       /\ UNCHANGED <<shownMessages, Reply!shown>>
  BY <1>1, <1>3, RenderAgain
<1> QED BY <1>1, <1>3, <1>8, <1>9, <1>10, <1>11, <1>12, ShownAgain

\* A notification is delivered.
LEMMA DeliverKeeps == ASSUME ReplyInv, Reply!updateConversationNotification PROVE ReplyInv'
<1> DEFINE h == Head(wire)
           x == h.message
<1>1. /\ wire # <<>> /\ wire' = Tail(wire)
      /\ replies' = replies /\ reply' = reply /\ running' = running /\ turns' = turns
      /\ replaced' = replaced
      /\ \/ h.kind = "StreamChunkReceived" /\ Reply!Render(x, shownMessages, submitting)
         \/ /\ h.kind = "MessageAppended"
            /\ Reply!Render(IF x.role = "assistant" THEN Reply!NoMessage ELSE streaming,
                      Append(shownMessages, x), submitting)
  BY DEF Reply!updateConversationNotification, Reply!turn
<1>2. /\ replies \in Nat /\ ChannelOK(wire, replies, reply)
      /\ PrintedOK(printed, streamed, wire, replies)
      /\ MessagesOK(shownMessages, printed, wire, replies) /\ submitting \in BOOLEAN
  BY DEF ReplyInv
<1>3. /\ ChannelOK(wire', replies, reply)
      /\ \A m : Unsettled(m, wire', replies) => Unsettled(m, wire, replies)
  <2>1. /\ ChannelOK(Tail(wire), replies, reply)
        /\ \A m : Commits(m, wire) <=> Commits(m, Tail(wire)) \/ (IsCommit(h) /\ h.message.id = m)
    BY <1>1, <1>2, ChannelShrinks
  <2> QED BY <2>1, <1>1 DEF Unsettled
<1>4. /\ printed \in Seq(ReplyParts) /\ shownMessages \in Seq(ReplyMessages)
      /\ rendered = Len(shownMessages) /\ rendered \in Nat
      /\ streamed = Reply!NothingStreamed \/ \E m : StreamedIs(m, streamed, wire, replies, reply)
      /\ \/ streaming = Reply!NoMessage
         \/ /\ streaming # Reply!NoMessage /\ streaming.content \in ReplyTexts /\
              streaming.reasoning \in ReplyTexts
            /\ streamed = [content |-> streaming.content, reasoning |-> streaming.reasoning]
  BY StreamingIs
<1> HIDE DEF h, x
<1>5. x = Head(wire).message BY DEF x, h
<1>6. CASE h.kind = "StreamChunkReceived"
  <2> DEFINE live == Reply!Rest("reasoning", x.reasoning, streamed.reasoning) \o Reply!Rest("content", x.content, streamed.content)
             now == [content |-> x.content, reasoning |-> x.reasoning]
  <2>1. IsChunk(Head(wire)) BY <1>6 DEF IsChunk, h
  <2>2. /\ x \in ReplyMessages /\ live \in Seq(ReplyParts)
        /\ StreamedIs(x, now, Tail(wire), replies, reply)
        /\ PrintedOK(printed \o live, now, Tail(wire), replies)
        /\ \A y : Holds(printed, y) => Holds(printed \o live, y)
    <3> HIDE DEF live
    <3>1. live = Reply!Rest("reasoning", x.reasoning, streamed.reasoning) \o Reply!Rest("content",
            x.content, streamed.content)
      BY DEF live
    <3> QED BY <3>1, <2>1, <1>1, <1>2, <1>4, <1>5, ChunkWrites
  <2>3. x.role = "assistant" BY <2>2 DEF StreamedIs, ChunkShape
  <2>4. Reply!Render(x, shownMessages, submitting) BY <1>1, <1>6
  <2> HIDE DEF now
  <2>5. /\ streaming' = x /\ shownMessages' = shownMessages /\ submitting' = submitting
        /\ printed' = printed \o live /\ rendered' = rendered /\ streamed' = now
    <3> HIDE DEF live
    <3>1. live = Reply!Rest("reasoning", x.reasoning, streamed.reasoning) \o Reply!Rest("content",
            x.content, streamed.content)
      BY DEF live
    <3> QED BY <3>1, <2>2, <2>3, <2>4, <1>4, RenderChunk DEF now
  <2> HIDE DEF live
  <2>6. PrintedOK(printed, streamed, wire, replies)' BY <2>2, <2>5, <1>1
  <2>7. MessagesOK(shownMessages, printed, wire, replies)'
    <3>1. MessagesOK(shownMessages, printed', wire', replies) BY <1>2, <1>3, <2>2, <2>5,
            MessagesStay
    <3> QED BY <3>1, <2>5, <1>1
  <2>8. StreamedIs(x, streamed', wire', replies', reply') BY <2>2, <2>5, <1>1
  <2> QED BY <1>1, <1>3, <1>4, <2>2, <2>5, <2>6, <2>7, <2>8 DEF ReplyInv
<1>7. CASE h.kind = "MessageAppended" /\ x.role = "assistant"
  <2>1. IsCommit(Head(wire)) BY <1>7 DEF IsCommit, h, x
  <2> DEFINE out == IF streamed # Reply!NothingStreamed THEN Reply!Completion(x, streamed) ELSE Reply!Committed(x)
  <2>2. /\ x \in ReplyMessages /\ WellMade(x) /\ out \in Seq(ReplyParts)
        /\ PrintedOK(printed \o out, Reply!NothingStreamed, Tail(wire), replies)
        /\ \A y : Holds(printed, y) => Holds(printed \o out, y)
        /\ Written(x, printed \o out) /\ ~Unsettled(x.id, Tail(wire), replies)
    <3> HIDE DEF out
    <3>1. out = IF streamed # Reply!NothingStreamed THEN Reply!Completion(x,
            streamed) ELSE Reply!Committed(x) BY DEF out
    <3> QED BY <3>1, <2>1, <1>1, <1>2, <1>4, <1>5, CommitWrites
  <2>3. Reply!Render(Reply!NoMessage, Append(shownMessages, x), submitting) BY <1>1, <1>7
  <2>4. /\ x.role = "assistant" /\ streamed # Reply!NothingStreamed =>
             out = Reply!Completion(x, streamed)
        /\ ~(x.role = "assistant" /\ streamed # Reply!NothingStreamed) =>
             out = Reply!Committed(x) /\ Reply!NothingStreamed = streamed
    BY <1>7
  <2> HIDE DEF out
  <2>5. /\ streaming' = Reply!NoMessage /\ shownMessages' = Append(shownMessages, x)
        /\ submitting' = submitting
        /\ printed' = printed \o out /\ rendered' = Len(shownMessages) + 1
        /\ streamed' = Reply!NothingStreamed
    BY <2>2, <2>3, <2>4, <1>4, RenderOne
  <2>6. PrintedOK(printed, streamed, wire, replies)' BY <2>2, <2>5, <1>1
  <2>7. MessagesOK(shownMessages, printed, wire, replies)'
    <3>1. MessagesOK(shownMessages, printed', wire', replies) BY <1>2, <1>3, <2>2, <2>5,
            MessagesStay
    <3>2. MessagesOK(Append(shownMessages, x), printed', wire', replies)
      BY <3>1, <2>2, <2>5, <1>1, MessagesGrow
    <3> QED BY <3>2, <2>5, <1>1
  <2>8. rendered' = Len(shownMessages') BY <2>5, <2>2, <1>4
  <2> QED BY <1>1, <1>3, <2>5, <2>6, <2>7, <2>8 DEF ReplyInv
<1>8. CASE h.kind = "MessageAppended" /\ x.role # "assistant"
  <2>1. Head(wire).kind = "MessageAppended" /\ Head(wire).message.role # "assistant"
    BY <1>8 DEF h, x
  <2> DEFINE out == Reply!Committed(x)
  <2>2. /\ x \in ReplyMessages /\ WellMade(x) /\ out \in Seq(ReplyParts)
        /\ PrintedOK(printed \o out, streamed, Tail(wire), replies)
        /\ \A y : Holds(printed, y) => Holds(printed \o out, y)
        /\ Written(x, printed \o out)
        /\ \A m : StreamedIs(m, streamed, wire, replies, reply) =>
             StreamedIs(m, streamed, Tail(wire), replies, reply)
    BY <2>1, <1>1, <1>2, <1>5, OtherWrites
  <2>3. Reply!Render(streaming, Append(shownMessages, x), submitting) BY <1>1, <1>8
  <2>4. ~Reply!CallsNext
    <3>1. ~x.calls BY <2>2, <1>8 DEF WellMade
    <3> QED BY <3>1, <1>5 DEF Reply!CallsNext
  <2>5. /\ ~(x.role = "assistant" /\ streamed # Reply!NothingStreamed)
        /\ out = Reply!Committed(x) BY <1>8
  <2> HIDE DEF out
  <2>6. /\ streaming' = streaming /\ shownMessages' = Append(shownMessages, x)
        /\ submitting' = submitting
        /\ printed' = printed \o out /\ rendered' = Len(shownMessages) + 1
        /\ streamed' = IF streaming = Reply!NoMessage /\ streamed.content # Reply!NoText /\
             ~submitting
                       THEN Reply!NothingStreamed ELSE streamed
    BY <2>2, <2>3, <2>5, <1>4, RenderOne
  <2>7. streamed' = streamed
    <3>1. streaming = Reply!NoMessage => streamed = Reply!NothingStreamed
      <4>1. ASSUME NEW m \in ReplyMessages, StreamedIs(m, streamed, wire, replies, reply)
            PROVE  m # Reply!NoMessage
        <5>1. m.role = "assistant" BY <4>1 DEF StreamedIs, ChunkShape
        <5>2. Reply!NoMessage.role = "none" BY DEF Reply!NoMessage
        <5> QED BY <5>1, <5>2
      <4> QED BY <4>1, <2>4 DEF ReplyInv
    <3> QED BY <3>1, <2>6
  <2>8. PrintedOK(printed, streamed, wire, replies)' BY <2>2, <2>6, <2>7, <1>1
  <2>9. MessagesOK(shownMessages, printed, wire, replies)'
    <3>1. MessagesOK(shownMessages, printed', wire', replies) BY <1>2, <1>3, <2>2, <2>6,
            MessagesStay
    <3>2. MessagesOK(Append(shownMessages, x), printed', wire', replies)
      BY <3>1, <2>2, <2>6, <1>8, MessagesGrow
    <3> QED BY <3>2, <2>6, <1>1
  <2>10. rendered' = Len(shownMessages') BY <2>6, <2>2, <1>4
  <2>11. \/ streaming' = Reply!NoMessage /\ streamed' = Reply!NothingStreamed
         \/ \E m \in ReplyMessages : StreamedIs(m, streamed', wire', replies', reply') /\
              streaming' = m
    BY <2>2, <2>4, <2>6, <2>7, <1>1 DEF ReplyInv
  <2> QED BY <1>1, <1>3, <2>6, <2>8, <2>9, <2>10, <2>11 DEF ReplyInv
<1> QED BY <1>1, <1>6, <1>7, <1>8

\* What is made of messages that are shown and of such as no notification
\* brought.
Known(list) ==
  /\ list \in Seq(ReplyMessages)
  /\ \A i \in DOMAIN list :
       Reply!Heard(list[i]) => \E j \in DOMAIN shownMessages : list[i] = shownMessages[j]

LEMMA KnownParts ==
  ASSUME NEW list, Known(list)
  PROVE  /\ \A k, n \in Nat : k >= 1 /\ n <= Len(list) => Known(SubSeq(list, k, n))
         /\ Len(list) \in Nat
<1>1. list \in Seq(ReplyMessages) BY DEF Known
<1>2. Len(list) \in Nat BY <1>1
<1>3. ASSUME NEW k \in Nat, NEW n \in Nat, k >= 1, n <= Len(list) PROVE Known(SubSeq(list, k, n))
  <2> DEFINE new == SubSeq(list, k, n)
  <2>1. /\ new \in Seq(ReplyMessages)
        /\ \A i \in DOMAIN new : k + i - 1 \in DOMAIN list /\ new[i] = list[k + i - 1]
    BY <1>1, <1>3
  <2> HIDE DEF new
  <2>2. Known(new) BY <2>1 DEF Known
  <2> QED BY <2>2 DEF new
<1> QED BY <1>2, <1>3

LEMMA KnownJoin ==
  ASSUME NEW a, NEW b, Known(a), Known(b)
  PROVE  Known(a \o b)
<1> DEFINE new == a \o b
<1>1. a \in Seq(ReplyMessages) /\ b \in Seq(ReplyMessages) BY DEF Known
<1>2. /\ new \in Seq(ReplyMessages)
      /\ DOMAIN new = 1..Len(a) + Len(b) /\ Len(a) \in Nat /\ Len(b) \in Nat
      /\ DOMAIN a = 1..Len(a) /\ DOMAIN b = 1..Len(b)
      /\ \A i \in 1..Len(a) : new[i] = a[i]
      /\ \A i \in 1..Len(b) : new[Len(a) + i] = b[i]
  BY <1>1
<1> HIDE DEF new
<1>3. ASSUME NEW i \in DOMAIN new, Reply!Heard(new[i])
      PROVE  \E j \in DOMAIN shownMessages : new[i] = shownMessages[j]
  <2>1. CASE i <= Len(a)
    <3>1. i \in DOMAIN a /\ new[i] = a[i] BY <1>2, <2>1
    <3> QED BY <1>3, <3>1 DEF Known
  <2>2. CASE ~(i <= Len(a))
    <3>1. i - Len(a) \in 1..Len(b) /\ Len(a) + (i - Len(a)) = i BY <1>2, <2>2
    <3>2. i - Len(a) \in DOMAIN b /\ new[i] = b[i - Len(a)] BY <1>2, <3>1
    <3> QED BY <1>3, <3>2 DEF Known
  <2> QED BY <2>1, <2>2
<1>4. Known(new) BY <1>2, <1>3 DEF Known
<1> QED BY <1>4 DEF new

\* No notification brings a system message, or one of another run.
LEMMA KnownFromStart ==
  ASSUME ReplyInv
  PROVE  /\ Known(shownMessages) /\ Known(Reply!Heading) /\ Known(Reply!Stored)
         /\ Known(<<Reply!Summary>>)
<1>1. shownMessages \in Seq(ReplyMessages) BY StreamingIs
<1>2. Known(shownMessages) BY <1>1 DEF Known
<1>3. \A i \in Nat : Reply!SystemMessage(i) \in ReplyMessages /\ ~Reply!Heard(Reply!SystemMessage(i))
  BY MadeMessages
<1>4. Known(<<Reply!Summary>>)
  <2>1. Reply!Summary \in ReplyMessages /\ ~Reply!Heard(Reply!Summary) BY <1>3 DEF Reply!Summary
  <2> QED BY <2>1 DEF Known
<1>5. Known(Reply!Heading)
  <2> DEFINE list == Reply!Heading
  <2>1. Systems \in Nat BY DEF ReplyInv
  <2>2. \A i \in 1..Systems : /\ Reply!SystemMessage(i) \in ReplyMessages
                              /\ ~Reply!Heard(Reply!SystemMessage(i))
    BY <1>3, <2>1
  <2>3. list = [i \in 1..Systems |-> Reply!SystemMessage(i)] BY DEF Reply!Heading
  <2> HIDE DEF list
  <2>4. list \in Seq(ReplyMessages) /\ DOMAIN list = 1..Systems BY <2>1, <2>2, <2>3
  <2>5. \A i \in DOMAIN list : ~Reply!Heard(list[i]) BY <2>2, <2>3, <2>4
  <2>6. Known(list) BY <2>4, <2>5 DEF Known
  <2> QED BY <2>6 DEF list
<1>6. Known(Reply!Stored)
  <2> DEFINE u == Reply!UserMessage(0)
             m == Reply!Assistant(0, 1, 0, FALSE, FALSE)
  <2>1. u \in ReplyMessages BY MadeMessages
  <2>2. u.id = 0 BY DEF Reply!UserMessage, Reply!NoMessage
  <2>3. m = [role |-> "assistant", id |-> 0, content |-> [of |-> 0, length |-> 1],
             reasoning |-> [of |-> 0, length |-> 0], calls |-> FALSE, interrupted |-> FALSE]
    BY DEF Reply!Assistant, Reply!Text, Reply!NoText
  <2>4. m \in ReplyMessages /\ m.id = 0
    <3>1. [of |-> 0, length |-> 1] \in ReplyTexts /\ [of |-> 0, length |-> 0] \in ReplyTexts
      BY DEF ReplyTexts
    <3> HIDE DEF m
    <3> QED BY <2>3, <3>1 DEF ReplyMessages
  <2> HIDE DEF u, m
  <2>5. <<u, m>> \in Seq(ReplyMessages) /\ \A i \in DOMAIN <<u, m>> : <<u, m>>[i].id = 0
    BY <2>1, <2>2, <2>4
  <2>6. Known(<<u, m>>) BY <2>5 DEF Known, Reply!Heard
  <2> QED BY <2>6 DEF u, m, Reply!Stored
<1> QED BY <1>2, <1>4, <1>5, <1>6

\* Every transcript a command installs is such a list.
LEMMA SnapshotKnown ==
  ASSUME ReplyInv, Reply!refreshSnapshot
  PROVE  \E new : Known(new) /\ Reply!Install(new)
<1>1. PICK list \in Reply!Conversations :
        \E h \in 0..Len(list) :
          \/ \E n \in h..Len(list) : Reply!Install(SubSeq(list, 1, n))
          \/ \E i \in Reply!WindowStarts(list, h) :
               Reply!Install(SubSeq(list, 1, h) \o <<Reply!Summary>> \o SubSeq(list, i, Len(list)))
          \/ \E n \in 0..Len(Reply!Stored) :
               Reply!Install(Reply!Heading \o SubSeq(Reply!Stored, 1, n))
  BY DEF Reply!refreshSnapshot
<1>2. Known(list)
  <2>1. Known(Reply!Heading \o shownMessages) /\ Known(Reply!Heading \o Reply!Stored)
    BY KnownFromStart, KnownJoin
  <2>2. Known(Reply!Heading \o Reply!Stored \o shownMessages) BY <2>1, KnownFromStart, KnownJoin
  <2> QED BY <2>1, <2>2, KnownFromStart DEF Reply!Conversations
<1>3. PICK h \in 0..Len(list) :
        \/ \E n \in h..Len(list) : Reply!Install(SubSeq(list, 1, n))
        \/ \E i \in Reply!WindowStarts(list, h) :
             Reply!Install(SubSeq(list, 1, h) \o <<Reply!Summary>> \o SubSeq(list, i, Len(list)))
        \/ \E n \in 0..Len(Reply!Stored) :
             Reply!Install(Reply!Heading \o SubSeq(Reply!Stored, 1, n))
  BY <1>1
<1>4. Len(list) \in Nat /\ h \in Nat /\ h <= Len(list) BY <1>2, KnownParts
<1>5. ASSUME NEW n \in h..Len(list) PROVE Known(SubSeq(list, 1, n))
  <2>1. n \in Nat /\ n <= Len(list) BY <1>4
  <2> QED BY <2>1, <1>2, KnownParts
<1>6. ASSUME NEW i \in Reply!WindowStarts(list, h)
      PROVE  Known(SubSeq(list, 1, h) \o <<Reply!Summary>> \o SubSeq(list, i, Len(list)))
  <2>1. i \in Nat /\ i >= 1 BY <1>4 DEF Reply!WindowStarts
  <2>2. Known(SubSeq(list, 1, h)) /\ Known(SubSeq(list, i, Len(list))) BY <2>1, <1>2, <1>4, KnownParts
  <2>3. Known(SubSeq(list, 1, h) \o <<Reply!Summary>>) BY <2>2, KnownFromStart, KnownJoin
  <2> QED BY <2>2, <2>3, KnownJoin
<1>7. ASSUME NEW n \in 0..Len(Reply!Stored)
      PROVE  Known(Reply!Heading \o SubSeq(Reply!Stored, 1, n))
  <2>1. Known(Reply!Stored) /\ Len(Reply!Stored) \in Nat BY KnownFromStart, KnownParts
  <2>2. n \in Nat /\ n <= Len(Reply!Stored) BY <2>1
  <2>3. Known(SubSeq(Reply!Stored, 1, n)) BY <2>1, <2>2, KnownParts
  <2> QED BY <2>3, KnownFromStart, KnownJoin
<1> QED BY <1>3, <1>5, <1>6, <1>7

\* The messages are replaced by what the engine holds.
LEMMA SnapshotKeeps == ASSUME ReplyInv, Reply!refreshSnapshot PROVE ReplyInv'
<1>1. /\ ~running /\ ~submitting /\ wire = <<>> /\ replaced' = replaced + 1
      /\ replies' = replies /\ reply' = reply /\ running' = running /\ turns' = turns
      /\ wire' = wire
  BY DEF Reply!refreshSnapshot, Reply!turn
<1>2. streaming = Reply!NoMessage /\ streamed = Reply!NothingStreamed BY <1>1, NothingStreams
<1>3. /\ replies \in Nat /\ PrintedOK(printed, streamed, wire, replies)
      /\ MessagesOK(shownMessages, printed, wire, replies) /\ replaced \in Nat
  BY DEF ReplyInv
<1>4. PICK new : Known(new) /\ Reply!Install(new) BY SnapshotKnown
<1>5. /\ streaming' = Reply!NoMessage /\ shownMessages' = new /\ submitting' = FALSE
      /\ printed' = printed /\ rendered' = Len(new) /\ streamed' = Reply!NothingStreamed
  <2> DEFINE written == Reply!WriteFrom(rendered + 1, new, streamed)
             out == Reply!Output(Reply!NoMessage, new)
  <2>1. written.streamed = Reply!NothingStreamed BY <1>2, WritesStream
  <2>2. out = [out |-> <<>> \o written.out, streamed |-> written.streamed] BY DEF Reply!Output
  <2> HIDE DEF written
  <2>3. out.streamed = Reply!NothingStreamed BY <2>1, <2>2
  <2> HIDE DEF out
  <2>4. /\ streaming' = Reply!NoMessage /\ shownMessages' = new /\ submitting' = FALSE
        /\ printed' = printed /\ rendered' = Reply!Rendered(new)
        /\ streamed' = IF out.streamed.content # Reply!NoText THEN Reply!NothingStreamed
                       ELSE out.streamed
    BY <1>4 DEF Reply!Install, Reply!Shows, out
  <2> QED BY <2>3, <2>4 DEF Reply!Rendered
<1>6. MessagesOK(new, printed, wire, replies) BY <1>3, <1>4 DEF Known, MessagesOK
<1>7. PrintedOK(printed, streamed, wire, replies)' BY <1>1, <1>2, <1>3, <1>5
<1>8. MessagesOK(shownMessages, printed, wire, replies)' BY <1>1, <1>5, <1>6
<1>9. ChannelOK(wire', replies', reply') BY <1>1 DEF ReplyInv
<1>10. replaced' \in Nat BY <1>1, <1>3
<1> QED BY <1>1, <1>5, <1>7, <1>8, <1>9, <1>10 DEF ReplyInv

\* At the start nothing is printed.
LEMMA ReplyInit == Reply!ScrollbackAssumption /\ Reply!Init => ReplyInv
<1> SUFFICES ASSUME Reply!ScrollbackAssumption, Reply!Init PROVE ReplyInv OBVIOUS
<1>0. Systems \in Nat BY DEF Reply!ScrollbackAssumption
<1>1. /\ reply = [c |-> 0, r |-> 0] /\ replies = 0 /\ wire = <<>> /\ running = FALSE
      /\ turns = 0 /\ replaced = 0 /\ streaming = Reply!NoMessage /\ shownMessages = <<>>
      /\ submitting = FALSE
      /\ rendered = 0 /\ streamed = Reply!NothingStreamed /\ printed = <<>>
  BY DEF Reply!Init
<1>2. ChannelOK(wire, replies, reply) BY <1>1 DEF ChannelOK
<1>3. PrintedOK(printed, streamed, wire, replies)
  <2>1. Reply!NothingStreamed.content.length = 0 /\ Reply!NothingStreamed.reasoning.length = 0
    BY DEF Reply!NothingStreamed, Reply!NoText
  <2> QED BY <1>1, <2>1 DEF PrintedOK, Printable
<1>4. MessagesOK(shownMessages, printed, wire, replies) BY <1>1 DEF MessagesOK
<1> QED BY <1>0, <1>1, <1>2, <1>3, <1>4 DEF ReplyInv

\* Every step keeps the invariant.
LEMMA ReplyNext == ReplyInv /\ [Reply!Next]_Reply!vars => ReplyInv'
<1> SUFFICES ASSUME ReplyInv, [Reply!Next]_Reply!vars PROVE ReplyInv' OBVIOUS
<1>1. CASE UNCHANGED Reply!vars
  BY <1>1 DEF ReplyInv, Reply!CallsNext, Reply!vars, Reply!turn, Reply!shown
<1> QED BY <1>1, SubmitPromptKeeps, ChunkKeeps, CommitKeeps, ReplyInterruptKeeps, DeliverKeeps,
     FinishSubmitKeeps, ApprovalAnsweredKeeps, AnyOtherKeeps, SnapshotKeeps DEF Reply!Next

\* What the run checks of a state.
LEMMA ReplyKept ==
  ASSUME ReplyInv PROVE Reply!NothingTwice /\ Reply!InOrder /\ Reply!EverythingCommittedIsWritten
<1>1. Printable(printed) /\ MessagesOK(shownMessages, printed, wire, replies) BY DEF ReplyInv,
        PrintedOK
<1>2. Reply!NothingTwice BY <1>1 DEF Printable, Reply!NothingTwice
<1>3. Reply!InOrder
  <2> SUFFICES ASSUME NEW j \in DOMAIN printed, printed[j].n > 1
               PROVE  \E i \in 1..j - 1 : printed[i] = [printed[j] EXCEPT !.n = @ - 1]
    BY DEF Reply!InOrder
  <2> DEFINE x == printed[j]
  <2>1. x \in ReplyParts BY <1>1 DEF Printable
  <2>2. \E i \in 1..j - 1 : printed[i] = Reply!Part(x.what, x.of, x.n - 1) BY <1>1 DEF Printable
  <2> HIDE DEF x
  <2>3. [x EXCEPT !.n = x.n - 1] = Reply!Part(x.what, x.of, x.n - 1) BY <2>1 DEF ReplyParts,
          Reply!Part
  <2> QED BY Zenon, <2>2, <2>3 DEF x
<1>4. Reply!EverythingCommittedIsWritten
  <2>1. \A i \in DOMAIN shownMessages :
          Reply!Heard(shownMessages[i]) => Written(shownMessages[i], printed)
    BY <1>1 DEF MessagesOK, Settled
  <2> QED BY <2>1 DEF Reply!EverythingCommittedIsWritten, Written, Holds, Reply!Has
<1> QED BY <1>2, <1>3, <1>4

\* tui/terminal.py _render: what streams of a reply and the messages as they are
\* committed come to the scrollback once on account of their notifications, each
\* text from its start and without a gap, and nothing a notification committed
\* is left out, nor is it missing where a command shows it again; for any number
\* of turns, messages, pieces, system messages and commands, whichever chunks
\* were lost and whenever the end of a turn overtook its last messages.
THEOREM ReplyPrintedOnce ==
  ASSUME Reply!ScrollbackAssumption
  PROVE  Reply!Spec => [](Reply!NothingTwice /\ Reply!InOrder /\ Reply!EverythingCommittedIsWritten)
<1>1. Reply!Spec => []ReplyInv BY ReplyInit, ReplyNext, PTL DEF Reply!Spec
<1> QED BY <1>1, ReplyKept, PTL
=============================================================================
