----------------------------- MODULE Delegation -----------------------------
(***************************************************************************)
(* The delegate tool (app/subagents.py): a call of it runs one turn of a   *)
(* child session, which may delegate in its turn.  Calls of one session    *)
(* run one after another, so the open delegations form a chain; level k is *)
(* the k-th of them, and level 1 is called by the session of the user.     *)
(* The child's turn is reduced to what a delegation sees of it: it asks    *)
(* for approvals, delegates, and ends with an answer or an error.          *)
(***************************************************************************)
EXTENDS Integers, Sequences, FiniteSets

CONSTANTS
  maxSubagentDepth,  \* delegations that may be open at once
  CutsFail,          \* whether `git worktree add' may be killed half way
  MaxRuns,           \* bound: delegations the user's session asks for
  MaxSteps           \* bound: approvals and delegations of one child's turn

DelegationAssumption ==
  /\ maxSubagentDepth \in Nat \ {0} /\ CutsFail \in BOOLEAN
  /\ MaxRuns \in Nat /\ MaxSteps \in Nat

Levels == 1..maxSubagentDepth + 1
None == 0

VARIABLES
  stage,      \* where the delegation of each level is
  depth,      \* the depth each level finds on its run context
  created,    \* whether the worktree of the level was added: its number, or None
  session,    \* the child session: "none", "open", "closed"
  steps,      \* approvals and delegations of the child's turn so far
  denials,    \* the denials the denier has put into the approvals queue
  outcome,    \* how the last delegation of the level ended
  cancelled,  \* the levels whose calling run is cancelled: 1 is the run of the user
  trees,      \* worktree directories on disk
  metadata,   \* worktrees git has an entry for
  half,       \* worktrees left by an add that was killed
  made,       \* worktrees tried so far
  reported    \* worktrees named by a result the parent was given

disk == <<trees, metadata, half, made>>
child == <<depth, session, steps, denials>>
vars == <<stage, created, child, outcome, cancelled, disk, reported>>

InTurn == {"turn", "asking", "nested"}

Init ==
  /\ stage = [k \in Levels |-> "none"]
  /\ depth = [k \in Levels |-> 0]
  /\ created = [k \in Levels |-> None]
  /\ session = [k \in Levels |-> "none"]
  /\ steps = [k \in Levels |-> 0] /\ denials = [k \in Levels |-> 0]
  /\ outcome = [k \in Levels |-> "none"]
  /\ cancelled = {}
  /\ trees = {} /\ metadata = {} /\ half = {} /\ made = 0 /\ reported = {}

-----------------------------------------------------------------------------
(* Starting a delegation.                                                  *)

(* The depth a child's run context carries.                                *)
(* Mutant: the context of the parent is passed on as it is.                *)
ChildDepthKept(k) == depth[k]

ChildDepth(k) == depth[k] + 1

(* A call comes from the user's session, or from the turn of the level     *)
(* above, which waits for it.                                              *)
Called(k) ==
  \/ /\ k = 1 /\ stage[1] = "none" /\ made < MaxRuns
     /\ stage' = [stage EXCEPT ![1] = "run"]
     /\ depth' = [depth EXCEPT ![1] = 0]
     /\ UNCHANGED steps
  \/ /\ k > 1 /\ stage[k - 1] = "turn" /\ stage[k] = "none"
     /\ steps[k - 1] < MaxSteps /\ k \notin cancelled
     /\ stage' = [stage EXCEPT ![k] = "run", ![k - 1] = "nested"]
     /\ depth' = [depth EXCEPT ![k] = ChildDepth(k - 1)]
     /\ steps' = [steps EXCEPT ![k - 1] = @ + 1]

Call(k) ==
  /\ Called(k)
  /\ outcome' = [outcome EXCEPT ![k] = "none"]
  /\ UNCHANGED <<created, session, denials, cancelled, disk, reported>>

(* Too deep, or arguments that name no prompt or no profile.               *)
Refuse(k) ==
  /\ stage[k] = "run"
  /\ stage' = [stage EXCEPT ![k] = "return"]
  /\ outcome' = [outcome EXCEPT ![k] = "error"]
  /\ UNCHANGED <<created, child, cancelled, disk, reported>>

Accept(k) ==
  /\ stage[k] = "run" /\ depth[k] < maxSubagentDepth
  /\ stage' = [stage EXCEPT ![k] = "add"] \/ stage' = [stage EXCEPT ![k] = "build"]
  /\ UNCHANGED <<created, child, outcome, cancelled, disk, reported>>

(* createWorktree: added, refused, or killed -- by the timeout of the      *)
(* command or the cancellation of the run -- in the middle of it.          *)
AddWorktree(k) ==
  /\ stage[k] = "add"
  /\ made' = made + 1
  /\ \/ /\ trees' = trees \cup {made + 1} /\ metadata' = metadata \cup {made + 1}
        /\ created' = [created EXCEPT ![k] = made + 1]
        /\ stage' = [stage EXCEPT ![k] = "build"]
        /\ UNCHANGED <<outcome, half>>
     \/ /\ outcome' = [outcome EXCEPT ![k] = "error"]
        /\ stage' = [stage EXCEPT ![k] = "return"]
        /\ \/ UNCHANGED <<trees, metadata, half>>
           \/ /\ CutsFail
              /\ trees' = trees \cup {made + 1} /\ metadata' = metadata \cup {made + 1}
              /\ half' = half \cup {made + 1}
        /\ UNCHANGED created
  /\ UNCHANGED <<child, cancelled, reported>>

-----------------------------------------------------------------------------
(* runChild and its turn.                                                  *)

(* Mutant: the approvals queue of an earlier delegation is used again.     *)
BuildChildOnOldQueue(k) ==
  /\ stage[k] = "build"
  /\ stage' = [stage EXCEPT ![k] = "turn"]
  /\ session' = [session EXCEPT ![k] = "open"]
  /\ steps' = [steps EXCEPT ![k] = 0]
  /\ UNCHANGED <<created, depth, denials, outcome, cancelled, disk, reported>>

(* The run of the child is a child of the context the level was called     *)
(* with, which shares its event with the calling run but is not known to   *)
(* it (run_context.py:54-57): the new run is cancelled when that one is    *)
(* already, and does not hear of a cancel that comes later.                *)
BuildChild(k) ==
  /\ stage[k] = "build"
  /\ \/ /\ stage' = [stage EXCEPT ![k] = "turn"]
        /\ session' = [session EXCEPT ![k] = "open"]
        /\ cancelled' = IF k \in cancelled THEN cancelled \cup {k + 1} ELSE cancelled \ {k + 1}
        /\ UNCHANGED outcome
     \/ /\ stage' = [stage EXCEPT ![k] = "remove"]
        /\ outcome' = [outcome EXCEPT ![k] = "error"]
        /\ UNCHANGED <<session, cancelled>>
  /\ steps' = [steps EXCEPT ![k] = 0] /\ denials' = [denials EXCEPT ![k] = 0]
  /\ UNCHANGED <<created, depth, disk, reported>>

AskApproval(k) ==
  /\ stage[k] = "turn" /\ steps[k] < MaxSteps /\ k + 1 \notin cancelled
  /\ stage' = [stage EXCEPT ![k] = "asking"]
  /\ steps' = [steps EXCEPT ![k] = @ + 1]
  /\ UNCHANGED <<created, depth, session, denials, outcome, cancelled, disk, reported>>

(* The denier answers each request of the turn.                            *)
(* Mutant: it answers the first one and returns.                           *)
DeniesFirst(k) == steps[k] = 1

Denies(k) == TRUE

Deny(k) ==
  /\ stage[k] = "asking" /\ Denies(k)
  /\ stage' = [stage EXCEPT ![k] = "turn"]
  /\ denials' = [denials EXCEPT ![k] = @ + 1]
  /\ UNCHANGED <<created, depth, session, steps, outcome, cancelled, disk, reported>>

(* The turn ends with an answer, with none, or with an error; one whose    *)
(* run was cancelled from the start, with an error.                        *)
EndTurn(k) ==
  /\ stage[k] = "turn"
  /\ stage' = [stage EXCEPT ![k] = "close"]
  /\ outcome' \in {[outcome EXCEPT ![k] = o] :
                     o \in IF k + 1 \in cancelled THEN {"error"} ELSE {"answer", "nothing", "error"}}
  /\ UNCHANGED <<created, child, cancelled, disk, reported>>

(* child.close, whatever happened; no answer is an error.                  *)
CloseChild(k) ==
  /\ stage[k] = "close"
  /\ stage' = [stage EXCEPT ![k] = "remove"]
  /\ session' = [session EXCEPT ![k] = "closed"]
  /\ outcome' = [outcome EXCEPT ![k] = IF @ = "nothing" THEN "error" ELSE @]
  /\ UNCHANGED <<created, depth, steps, denials, cancelled, disk, reported>>

-----------------------------------------------------------------------------
(* The way out.                                                            *)

(* The worktrees that stand in the worktree of level k are gone with it.   *)
Within(k) == {created[j] : j \in {i \in Levels : i >= k}} \ {None}

(* removeWorktree, on a context of its own: git forgets it, or it is just  *)
(* deleted when git refuses or takes too long.                             *)
(* Mutant: only a delegation that gave an answer is cleaned up.            *)
RemoveWorktreeOnSuccess(k) ==
  /\ stage[k] = "remove"
  /\ IF outcome[k] = "error" THEN UNCHANGED <<trees, metadata>>
     ELSE /\ trees' = trees \ Within(k) /\ metadata' = metadata \ {created[k]}
  /\ created' = [created EXCEPT ![k] = None]
  /\ reported' = IF outcome[k] = "answer" THEN reported \cup ({created[k]} \ {None}) ELSE reported
  /\ stage' = [stage EXCEPT ![k] = "return"]
  /\ UNCHANGED <<child, outcome, cancelled, half, made>>

RemoveWorktree(k) ==
  /\ stage[k] = "remove"
  /\ trees' = trees \ Within(k)
  /\ metadata' = metadata \ {created[k]} \/ UNCHANGED metadata
  /\ created' = [created EXCEPT ![k] = None]
  /\ reported' = IF outcome[k] = "answer" THEN reported \cup ({created[k]} \ {None}) ELSE reported
  /\ stage' = [stage EXCEPT ![k] = "return"]
  /\ UNCHANGED <<child, outcome, cancelled, half, made>>

(* The caller goes on, with the result or the error of the tool.           *)
Return(k) ==
  /\ stage[k] = "return"
  /\ stage' = [stage EXCEPT ![k] = "none",
                            ![IF k = 1 THEN 1 ELSE k - 1] = IF k = 1 THEN "none" ELSE "turn"]
  /\ cancelled' = cancelled \ ({k + 1} \cup IF k = 1 THEN {1} ELSE {})
  /\ UNCHANGED <<created, child, outcome, disk, reported>>

(* The user cancels the turn all this runs in.                          *)
Cancel ==
  /\ stage[1] # "none" /\ 1 \notin cancelled
  /\ cancelled' = cancelled \cup {1}
  /\ UNCHANGED <<stage, created, child, outcome, disk, reported>>

Step(k) ==
  \/ Refuse(k) \/ Accept(k) \/ AddWorktree(k) \/ BuildChild(k) \/ Deny(k) \/ EndTurn(k)
  \/ CloseChild(k) \/ RemoveWorktree(k) \/ Return(k)

Done == stage[1] = "none" /\ made >= MaxRuns /\ UNCHANGED vars

Next ==
  \/ \E k \in Levels : Call(k) \/ AskApproval(k) \/ Step(k)
  \/ Cancel
  \/ Done

(* Commands are killed at their timeout, a model call ends, and the denier *)
(* is a task of the same loop.                                             *)
Spec == Init /\ [][Next]_vars /\ \A k \in Levels : WF_vars(Step(k))

-----------------------------------------------------------------------------
(* Properties.                                                             *)

TypeOK ==
  /\ stage \in [Levels -> {"none", "run", "add", "build", "close", "remove", "return"} \cup InTurn]
  /\ created \in [Levels -> 0..made]
  /\ session \in [Levels -> {"none", "open", "closed"}]
  /\ outcome \in [Levels -> {"none", "answer", "nothing", "error"}]
  /\ \A k \in Levels : denials[k] <= steps[k] /\ steps[k] <= MaxSteps
  /\ cancelled \subseteq 1..maxSubagentDepth + 2
  /\ trees \subseteq 1..made /\ metadata \subseteq 1..made /\ half \subseteq trees

(* No more than maxSubagentDepth children are open at once: the fourth     *)
(* level is refused (subagents.py:127-130).                                *)
DepthIsBounded == Cardinality({k \in Levels : stage[k] \in InTurn}) <= maxSubagentDepth

(* When the call of the user's session is over, however it went, every     *)
(* worktree that was added is off the disk and every child is closed       *)
(* (the finally blocks of run and runChild).                               *)
NothingIsLeft ==
  stage[1] = "none" => trees \subseteq half /\ \A k \in Levels : session[k] # "open"

(* A delegation is bounded while it lasts, and leaves nothing when it ends. *)
DelegationLeavesNothing == DepthIsBounded /\ NothingIsLeft

Delegating == stage[1] # "none"

(* Every delegation ends, cancelled or not: nothing in a child waits for a *)
(* user (the denier of runTurn).                                           *)
EveryDelegationEnds == Delegating ~> ~Delegating

(* "Every exit path tears the worktree down, so delegations do not         *)
(* accumulate worktree directories and git worktree metadata."             *)
(* (subagents.py:154-155)                                                  *)
NothingAccumulates == stage[1] = "none" => trees = {} /\ metadata = {}

(* "the reported path is retained for inspection" (docs/session.md:224).   *)
ReportedIsRetained == reported \subseteq trees

(* "Cancellation propagates through the parent context"                    *)
(* (docs/session.md:223): a child is at work for a user who has cancelled  *)
(* only if its run is cancelled too.                                       *)
CancellationPropagates ==
  \A k \in Levels : stage[k] \in InTurn /\ 1 \in cancelled => k + 1 \in cancelled

=============================================================================
