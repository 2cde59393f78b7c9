------------------------------- MODULE Policy -------------------------------
(***************************************************************************)
(* The permission policy (runtime/execution/policy.py), the always-allow   *)
(* set (approval_store.py) and the resolver that asks both for every call  *)
(* (action_result_resolver.py).  A path that a call names is the sequence  *)
(* of its components after normpath.                                       *)
(***************************************************************************)
EXTENDS CommandAnalyzer, FiniteSets

CONSTANTS
  Calls,          \* tool calls: [tool, command, cwd, paths, variant]
  MaxGranted,     \* bound: calls granted in a behaviour
  RuleSets,       \* rules an operator may configure
  Risky,          \* names whose spec says risky, or that have no spec
  Components,     \* what a path field is after normpath
  AbsolutePaths,  \* the paths that begin with a slash
  NoCommand

Modes == {"ask", "accept-edits", "plan", "bypass"}

\* A call is what its five fields say.
PolicyAssumption ==
  /\ \A call \in Calls :
       call = [tool |-> call.tool, command |-> call.command, cwd |-> call.cwd,
               paths |-> call.paths, variant |-> call.variant]
  /\ MaxGranted \in Nat

NoCall == [tool |-> "none"]
NoRun == [call |-> NoCall]

VARIABLES
  mode,      \* DefaultPolicy._mode
  rules,     \* DefaultPolicy._rules: constant through a session
  always,    \* MemoryApprovalStore._always: keys
  pending,   \* the call waiting for a decision
  ran,       \* history: the call that ran last, its mode, whether it was asked for
  granted    \* history: calls the user allowed, once or always

vars == <<mode, rules, always, pending, ran, granted>>

-----------------------------------------------------------------------------
(* The request a call amounts to.                                          *)

NetworkTools == {"web_search", "browser_fetch"}
CommandTools == {"bash", "run_command"}
ReadTools == {"git_status", "git_diff", "read_file", "list_files", "search"}
WriteTools == {"write_file", "apply_patch"}

ToolClass(tool) ==
  IF tool \in NetworkTools THEN "network"
  ELSE IF tool \in ReadTools THEN "read-only"
  ELSE IF tool \in WriteTools THEN "write"
  ELSE IF tool \in Risky THEN "unknown" ELSE "read-only"

PermissionRequest(call) ==
  IF call.tool \in CommandTools
    THEN [class |-> CommandClass(call.command), command |-> call.command,
          cwd |-> IF call.tool = "run_command" THEN call.cwd ELSE ".",
          paths |-> CommandPaths(call.command), env |-> CommandEnv(call.command)]
    ELSE [class |-> ToolClass(call.tool), command |-> NoCommand, cwd |-> ".",
          paths |-> IF call.tool \in ReadTools \cup WriteTools THEN call.paths ELSE {}, env |-> {}]

NeedsApproval(call) == call.tool \in Risky

-----------------------------------------------------------------------------
(* The rules.                                                              *)

IsPrefixSeq(p, s) == Len(p) <= Len(s) /\ SubSeq(s, 1, Len(p)) = p

MatchesPrefix(command, prefixes) ==
  command # NoCommand /\ \E p \in prefixes : p # <<>> /\ IsPrefixSeq(p, command)

MatchesPath(path, patterns) == \E p \in patterns : IsPrefixSeq(Components[p], Components[path])

DotEnv == {".env", ".env.local"}

TouchesProtectedPath(request) ==
  \E path \in request.paths :
    LET c == Components[path]
    IN  \/ c # <<>> /\ c[1] = ".git"
        \/ c = <<".env">>
        \/ \E i \in 2..Len(c) : c[i] \in DotEnv
        \/ \E i \in 1..(Len(c) - 1) : c[i] \in {".ssh", ".aws"}
        \/ \E i \in 1..(Len(c) - 2) : c[i] = ".config" /\ c[i + 1] = "gcloud"
        \/ /\ path \in AbsolutePaths
           /\ request.cwd \notin AbsolutePaths \/ ~IsPrefixSeq(Components[request.cwd], c)

Denied(call) ==
  LET request == PermissionRequest(call)
  IN  \/ call.tool \in rules.deny_tools
      \/ MatchesPrefix(request.command, rules.deny_prefixes)
      \/ TouchesProtectedPath(request)
      \/ \E path \in request.paths : MatchesPath(path, rules.deny_paths)
      \/ request.env \cap rules.deny_env # {}

PathsAllowed(request) ==
  /\ request.paths # {} /\ rules.allow_paths # {}
  /\ \A path \in request.paths : MatchesPath(path, rules.allow_paths)

EnvAllowed(request) ==
  request.env # {} /\ rules.allow_env # {} /\ request.env \subseteq rules.allow_env

Allowed(call) ==
  LET request == PermissionRequest(call)
  IN  \/ call.tool \in rules.allow_tools
      \/ MatchesPrefix(request.command, rules.allow_prefixes)
      \/ PathsAllowed(request)
      \/ EnvAllowed(request)

NetworkDenied(request) == rules.network # "allow" /\ request.class = "network"

(* Destructive commands and the network are asked for whatever is allowed. *)
AlwaysAsked(call) ==
  LET request == PermissionRequest(call)
  IN  request.class = "destructive" \/ NetworkDenied(request)

(* Mutant: bypass comes before the deny rules.                             *)
BypassFirst(call) ==
  IF mode = "bypass" THEN "run"
  ELSE IF Denied(call) THEN "denied"
  ELSE IF AlwaysAsked(call) THEN "ask"
  ELSE IF Allowed(call) THEN "run"
  ELSE IF NeedsApproval(call) THEN "ask"
  ELSE "run"

(* Mutant: an allow rule comes before the destructive commands.            *)
AllowFirst(call) ==
  IF Denied(call) THEN "denied"
  ELSE IF mode = "bypass" \/ Allowed(call) THEN "run"
  ELSE IF AlwaysAsked(call) \/ NeedsApproval(call) THEN "ask"
  ELSE "run"

ClassifyToolCall(call) ==
  LET class == PermissionRequest(call).class
  IN  IF Denied(call) THEN "denied"
      ELSE IF mode = "bypass" THEN "run"
      ELSE IF mode = "plan" THEN
             IF class = "read-only" /\ ~NeedsApproval(call) THEN "run" ELSE "denied"
      ELSE IF AlwaysAsked(call) THEN "ask"
      ELSE IF Allowed(call) THEN "run"
      ELSE IF mode = "accept-edits" /\ (class = "read-only" \/ call.tool \in WriteTools) THEN "run"
      ELSE IF NeedsApproval(call) THEN "ask"
      ELSE "run"

-----------------------------------------------------------------------------
(* The resolver and the always-allow set.  The key of a call is its tool   *)
(* and its input in canonical form: how the input was written is dropped.  *)

(* Mutant: the key is the tool only.                                       *)
ToolOnlyKey(call) == [tool |-> call.tool]

ApprovalKey(call) ==
  [tool |-> call.tool, command |-> call.command, cwd |-> call.cwd, paths |-> call.paths]

Decision(call) == IF ApprovalKey(call) \in always THEN "run" ELSE ClassifyToolCall(call)

Run(call, asked) == ran' = [call |-> call, mode |-> mode, asked |-> asked]

(* resolveToolCall: run it, refuse it, or wait for a decision.             *)
ResolveToolCall(call) ==
  /\ pending = NoCall
  /\ \/ Decision(call) = "run" /\ Run(call, FALSE) /\ UNCHANGED pending
     \/ Decision(call) = "denied" /\ UNCHANGED <<ran, pending>>
     \/ Decision(call) = "ask" /\ pending' = call /\ UNCHANGED ran
  /\ UNCHANGED <<mode, rules, always, granted>>

(* Mutant: a refusal is recorded as well.                                  *)
ResolveApprovalRecordsDenial(decision) ==
  /\ pending # NoCall
  /\ pending' = NoCall
  /\ Cardinality(granted) < MaxGranted \/ decision = "deny"
  /\ IF decision = "deny" THEN UNCHANGED <<ran, granted>>
     ELSE Run(pending, TRUE) /\ granted' = granted \cup {pending}
  /\ always' = IF decision = "once" THEN always ELSE always \cup {ApprovalKey(pending)}
  /\ UNCHANGED <<mode, rules>>

(* A decision; always-allow is recorded once the transition is committed.  *)
ResolveApproval(decision) ==
  /\ pending # NoCall
  /\ pending' = NoCall
  /\ Cardinality(granted) < MaxGranted \/ decision = "deny"
  /\ IF decision = "deny" THEN UNCHANGED <<ran, granted>>
     ELSE Run(pending, TRUE) /\ granted' = granted \cup {pending}
  /\ always' = IF decision = "always" THEN always \cup {ApprovalKey(pending)} ELSE always
  /\ UNCHANGED <<mode, rules>>

(* set_permission_mode: the rules stay.  It may come while a call waits.   *)
SetPermissionMode(m) ==
  /\ mode' = m
  /\ UNCHANGED <<rules, always, pending, ran, granted>>

-----------------------------------------------------------------------------
Init ==
  /\ mode \in Modes
  /\ rules \in RuleSets
  /\ always = {}
  /\ pending = NoCall
  /\ ran = NoRun
  /\ granted = {}

Next ==
  \/ \E call \in Calls : ResolveToolCall(call)
  \/ \E decision \in {"once", "always", "deny"} : ResolveApproval(decision)
  \/ \E m \in Modes : SetPermissionMode(m)

Spec == Init /\ [][Next]_vars

-----------------------------------------------------------------------------
(* Every variable has its type.                                            *)
PolicyTypeOK ==
  /\ mode \in Modes /\ rules \in RuleSets
  /\ pending \in Calls \cup {NoCall}
  /\ ran \in [call : Calls, mode : Modes, asked : BOOLEAN] \cup {NoRun}
  /\ always \subseteq { ApprovalKey(call) : call \in granted }
  /\ granted \subseteq Calls

(* "deny rules (absolute -- no mode or allow rule overrides them)": no     *)
(* sequence of modes and decisions, and no call always allowed under       *)
(* another mode, makes a denied call run.                                  *)
NothingDeniedRuns == ran # NoRun => ~Denied(ran.call)

(* Outside bypass, a destructive command or a network access that ran was  *)
(* allowed by the user, for this very command.                             *)
RiskyRunsWereGranted ==
  ran # NoRun /\ ran.mode # "bypass" /\ AlwaysAsked(ran.call) =>
    \E call \in granted : call.tool = ran.call.tool /\ call.command = ran.call.command

(* A decision speaks for one call: in ask mode, what no rule allows runs   *)
(* only on a grant for the same tool with the same command and paths.      *)
GrantIsForOneCall ==
  ran # NoRun /\ ran.mode = "ask" /\ NeedsApproval(ran.call) /\ ~Allowed(ran.call) =>
    \E call \in granted : [call EXCEPT !.variant = ran.call.variant] = ran.call

(* What runs was allowed, by a rule, by the mode or by the user.           *)
NothingRunsUngranted == NothingDeniedRuns /\ RiskyRunsWereGranted /\ GrantIsForOneCall

(* "plan mode (read-only safe tools only, everything else denied)".        *)
PlanRunsReadOnly ==
  ran # NoRun /\ ran.mode = "plan" /\ ~ran.asked =>
    PermissionRequest(ran.call).class = "read-only" /\ ~NeedsApproval(ran.call)
=============================================================================
