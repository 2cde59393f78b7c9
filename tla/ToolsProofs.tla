----------------------------- MODULE ToolsProofs -----------------------------
(***************************************************************************)
(* The permission policy and the analyzer under it, command execution, the *)
(* guarded fetch, the tree of run contexts, the reply of a provider and    *)
(* the registry of the tools, for every value of their constants: any      *)
(* calls, rules and words, outputs of any size, any hosts and addresses,   *)
(* any depth of the tree, replies of any length, any number of hooks and   *)
(* events. Each part has an inductive invariant over its own variables.    *)
(***************************************************************************)
EXTENDS Integers, Sequences, FiniteSets, FiniteSetTheorems, NaturalsInduction, TLAPS

CONSTANTS
  Calls, MaxGranted, RuleSets, Risky, Components, AbsolutePaths, NoCommand,
  UrlWords, RedirectWords, PathWords, EnvWords,
  DefaultBytes, MaxBytes, MaxWritten, TaskCancels,
  Hosts, Refused, Addresses, Public, MaxRedirects, Limit, Deadline,
  Keys, MaxContexts,
  Provider, MaxPieces, MaxReplyCalls, MaxFragments, MaxReplyRequests,
  Read, Write, Shell, Dynamic, NoName, ToolHooks, Events, MaxToolCalls, MaxChanges

VARIABLES
  mode, rules, always, pending, ran, granted,
  tool, requested, shell, code, job, reaped, written, consumed, kept, truncated, reader,
  commandCancelled, stage, reason, lateCut,
  at, host, hop, address, open, dialled, requests, size, clock, cancelled,
  made, parent, derived, event, isSet, children, values,
  reply, sent, block, loaded, streamRequests, got, current, handed, ended,
  tools, order, allowed, changes, phase, called, left, held, toolOutcome, result, trace, undoPoint,
  lastWrite, callsMade

\* The components, by the names RuntimeProofs gives them in the suite.
Policy == INSTANCE Policy
RunExec == INSTANCE RunExec WITH cancelled <- commandCancelled
WebFetch == INSTANCE WebFetch
RunContext == INSTANCE RunContext
ModelStream == INSTANCE ModelStream WITH
  MaxCalls <- MaxReplyCalls, MaxRequests <- MaxReplyRequests,
  requests <- streamRequests, outcome <- ended
Registry == INSTANCE ToolRegistry WITH
  MaxCalls <- MaxToolCalls,
  call <- called, outcome <- toolOutcome, written <- lastWrite, calls <- callsMade

\* The instances have copies of the library's operators.
LEMMA CountedAlike ==
  \A S : /\ WebFetch!Cardinality(S) = Cardinality(S)
         /\ ModelStream!Cardinality(S) = Cardinality(S)
         /\ Registry!Cardinality(S) = Cardinality(S)
BY DEF Cardinality, WebFetch!Cardinality, ModelStream!Cardinality, Registry!Cardinality

\* Hence what they count is counted with the operator here.
LEMMA CountsInstances ==
  /\ \A i : ModelStream!Place(i) = Cardinality({j \in ModelStream!Begun : j <= i})
  /\ Provider # "claude" =>
       ModelStream!Built = [n \in 1..Cardinality(ModelStream!Begun) |->
                              got.builders[CHOOSE i \in ModelStream!Begun : ModelStream!Place(i) = n]]
  /\ \A e : Registry!Count(e) = Cardinality({i \in DOMAIN trace : trace[i] = e})
  /\ Registry!ToolRegistryAssumption => Cardinality(Registry!BuiltIn) = 3
<1>1. \A i : ModelStream!Place(i) = Cardinality({j \in ModelStream!Begun : j <= i})
  BY CountedAlike DEF ModelStream!Place
<1>2. Provider # "claude" =>
        ModelStream!Built = [n \in 1..Cardinality(ModelStream!Begun) |->
                               got.builders[CHOOSE i \in ModelStream!Begun : ModelStream!Place(i) = n]]
  <2>1. ModelStream!Cardinality(ModelStream!Begun) = Cardinality(ModelStream!Begun) BY CountedAlike
  <2> QED BY <2>1, Zenon DEF ModelStream!Built
<1>3. \A e : Registry!Count(e) = Cardinality({i \in DOMAIN trace : trace[i] = e})
  BY CountedAlike DEF Registry!Count
<1>4. Registry!ToolRegistryAssumption => Cardinality(Registry!BuiltIn) = 3
  <2>1. Registry!Cardinality(Registry!BuiltIn) = Cardinality(Registry!BuiltIn) BY CountedAlike
  <2> QED BY <2>1, Zenon DEF Registry!ToolRegistryAssumption
<1> QED BY <1>1, <1>2, <1>3, <1>4

-----------------------------------------------------------------------------
(* Permission policy.                                                      *)

\* A grant for the very call, but for how its input was written.
GrantFor(call) == \E g \in granted : Policy!ApprovalKey(g) = Policy!ApprovalKey(call)

\* What runs without a question, in the mode it ran in.
RunsUnasked(call, m) ==
  /\ m # "bypass" => ~Policy!AlwaysAsked(call)
  /\ m = "ask" => Policy!Allowed(call) \/ ~Policy!NeedsApproval(call)

\* What waits, what was granted and what is always allowed is not denied; what
\* ran is not denied either, and ran on its own or on a grant.
PolicyInv ==
  /\ pending # Policy!NoCall => pending \in Calls /\ ~Policy!Denied(pending)
  /\ granted \subseteq Calls /\ \A g \in granted : ~Policy!Denied(g)
  /\ \A key \in always : \E g \in granted : key = Policy!ApprovalKey(g)
  /\ ran # Policy!NoRun =>
       /\ ran.call \in Calls /\ ~Policy!Denied(ran.call)
       /\ RunsUnasked(ran.call, ran.mode) \/ GrantFor(ran.call)

\* The rules see of a call what its key holds.
LEMMA SameKey ==
  ASSUME NEW a, NEW b, Policy!ApprovalKey(a) = Policy!ApprovalKey(b)
  PROVE  /\ a.tool = b.tool /\ a.command = b.command /\ a.cwd = b.cwd /\ a.paths = b.paths
         /\ Policy!Denied(a) <=> Policy!Denied(b)
<1>1. /\ a.tool = b.tool /\ a.command = b.command /\ a.cwd = b.cwd /\ a.paths = b.paths
  BY DEF Policy!ApprovalKey
<1>2. Policy!PermissionRequest(a) = Policy!PermissionRequest(b)
  BY <1>1 DEF Policy!PermissionRequest
<1>3. Policy!Denied(a) <=> Policy!Denied(b)
  BY <1>1, <1>2 DEF Policy!Denied
<1> QED BY <1>1, <1>3

\* What is run without a question.
LEMMA ClassifiedRun ==
  ASSUME NEW call, Policy!ClassifyToolCall(call) = "run"
  PROVE  ~Policy!Denied(call) /\ RunsUnasked(call, mode)
<1>1. ~Policy!Denied(call) BY DEF Policy!ClassifyToolCall
<1>2. CASE mode = "bypass" BY <1>1, <1>2 DEF RunsUnasked
<1>3. CASE mode = "plan"
  <2>1. Policy!PermissionRequest(call).class = "read-only" BY <1>1, <1>3 DEF Policy!ClassifyToolCall
  <2> QED BY <1>1, <1>3, <2>1 DEF RunsUnasked, Policy!AlwaysAsked, Policy!NetworkDenied
<1>4. CASE mode \notin {"bypass", "plan"}
  <2>1. ~Policy!AlwaysAsked(call) BY <1>1, <1>4 DEF Policy!ClassifyToolCall
  <2>2. mode = "ask" => Policy!Allowed(call) \/ ~Policy!NeedsApproval(call)
    BY <1>1, <2>1 DEF Policy!ClassifyToolCall
  <2> QED BY <1>1, <2>1, <2>2 DEF RunsUnasked
<1> QED BY <1>2, <1>3, <1>4

\* Nothing has run at the start.
LEMMA PolicyInit == Policy!Init => PolicyInv
BY DEF Policy!Init, PolicyInv

\* A call that comes from the model.
LEMMA ResolveKeeps ==
  ASSUME PolicyInv, NEW call \in Calls, Policy!ResolveToolCall(call)
  PROVE  PolicyInv'
<1>1. UNCHANGED <<mode, rules, always, granted>> BY DEF Policy!ResolveToolCall
<1>2. \A c : (Policy!Denied(c)' <=> Policy!Denied(c)) /\
        (Policy!AlwaysAsked(c)' <=> Policy!AlwaysAsked(c))
            /\ (Policy!Allowed(c)' <=> Policy!Allowed(c))
  BY <1>1 DEF Policy!Denied, Policy!AlwaysAsked, Policy!Allowed, Policy!NetworkDenied,
    Policy!PermissionRequest, Policy!PathsAllowed, Policy!EnvAllowed
<1>3. CASE Policy!Decision(call) = "run" /\ Policy!Run(call, FALSE) /\ UNCHANGED pending
  <2>1. ran'.call = call /\ ran'.mode = mode BY <1>3 DEF Policy!Run
  <2>2. ~Policy!Denied(call) /\ (RunsUnasked(call, mode) \/ GrantFor(call))
    <3>1. CASE Policy!ApprovalKey(call) \in always
      <4>1. PICK g \in granted : Policy!ApprovalKey(call) = Policy!ApprovalKey(g)
        BY <3>1 DEF PolicyInv
      <4>2. ~Policy!Denied(g) BY DEF PolicyInv
      <4>3. ~Policy!Denied(call) BY <4>1, <4>2, SameKey
      <4> QED BY <4>1, <4>3 DEF GrantFor
    <3>2. CASE Policy!ApprovalKey(call) \notin always
      BY <1>3, <3>2, ClassifiedRun DEF Policy!Decision
    <3> QED BY <3>1, <3>2
  <2>3. (RunsUnasked(call, mode) => RunsUnasked(call, mode)') /\ (GrantFor(call) => GrantFor(call)')
    BY <1>1, <1>2 DEF RunsUnasked, GrantFor
  <2> QED BY <1>1, <1>2, <1>3, <2>1, <2>2, <2>3 DEF PolicyInv, RunsUnasked, GrantFor
<1>4. CASE /\ Policy!Decision(call) # "run" /\ UNCHANGED ran
           /\ (pending' = pending \/ (Policy!Decision(call) = "ask" /\ pending' = call))
  <2>1. Policy!Decision(call) = "ask" => ~Policy!Denied(call)
    BY DEF Policy!Decision, Policy!ClassifyToolCall
  <2> QED BY <1>1, <1>2, <1>4, <2>1 DEF PolicyInv, RunsUnasked, GrantFor
<1> QED BY <1>3, <1>4 DEF Policy!ResolveToolCall

\* A decision of the user.
LEMMA ApprovalKeeps ==
  ASSUME PolicyInv, NEW decision \in {"once", "always", "deny"}, Policy!ResolveApproval(decision)
  PROVE  PolicyInv'
<1>1. UNCHANGED <<mode, rules>> /\ pending # Policy!NoCall /\ pending' = Policy!NoCall
  BY DEF Policy!ResolveApproval
<1>2. \A c : (Policy!Denied(c)' <=> Policy!Denied(c)) /\
        (Policy!AlwaysAsked(c)' <=> Policy!AlwaysAsked(c))
            /\ (Policy!Allowed(c)' <=> Policy!Allowed(c))
  BY <1>1 DEF Policy!Denied, Policy!AlwaysAsked, Policy!Allowed, Policy!NetworkDenied,
    Policy!PermissionRequest, Policy!PathsAllowed, Policy!EnvAllowed
<1>3. pending \in Calls /\ ~Policy!Denied(pending) BY <1>1 DEF PolicyInv
<1>4. CASE decision = "deny"
  BY <1>1, <1>2, <1>4 DEF Policy!ResolveApproval, PolicyInv, RunsUnasked, GrantFor
<1>5. CASE decision # "deny"
  <2>1. /\ granted' = granted \cup {pending} /\ ran'.call = pending
        /\ always' \subseteq always \cup {Policy!ApprovalKey(pending)}
    BY <1>5 DEF Policy!ResolveApproval, Policy!Run
  <2>2. \A key \in always' : \E g \in granted' : key = Policy!ApprovalKey(g)
    BY <2>1 DEF PolicyInv
  <2>3. granted' \subseteq Calls /\ \A g \in granted' : ~Policy!Denied(g)
    BY <1>3, <2>1 DEF PolicyInv
  <2>4. \E g \in granted' : Policy!ApprovalKey(g) = Policy!ApprovalKey(ran'.call)
    BY <2>1
  <2> QED BY <1>1, <1>2, <1>3, <2>1, <2>2, <2>3, <2>4 DEF PolicyInv, GrantFor
<1> QED BY <1>4, <1>5

\* Every step of the policy keeps the invariant.
LEMMA PolicyStep == PolicyInv /\ [Policy!Next]_Policy!vars => PolicyInv'
<1> SUFFICES ASSUME PolicyInv, [Policy!Next]_Policy!vars PROVE PolicyInv'
  OBVIOUS
<1>1. ASSUME NEW call \in Calls, Policy!ResolveToolCall(call) PROVE PolicyInv'
  BY <1>1, ResolveKeeps
<1>2. ASSUME NEW decision \in {"once", "always", "deny"}, Policy!ResolveApproval(decision)
      PROVE  PolicyInv'
  BY <1>2, ApprovalKeeps
<1>3. CASE UNCHANGED <<rules, always, pending, ran, granted>>
  <2>1. \A c : (Policy!Denied(c)' <=> Policy!Denied(c)) /\
          (Policy!AlwaysAsked(c)' <=> Policy!AlwaysAsked(c))
              /\ (Policy!Allowed(c)' <=> Policy!Allowed(c))
    BY <1>3 DEF Policy!Denied, Policy!AlwaysAsked, Policy!Allowed, Policy!NetworkDenied,
      Policy!PermissionRequest, Policy!PathsAllowed, Policy!EnvAllowed
  <2> QED BY <1>3, <2>1 DEF PolicyInv, RunsUnasked, GrantFor
<1>4. ASSUME NEW m \in Policy!Modes, Policy!SetPermissionMode(m) PROVE PolicyInv'
  BY <1>3, <1>4 DEF Policy!SetPermissionMode
<1>5. CASE UNCHANGED Policy!vars BY <1>3, <1>5 DEF Policy!vars
<1> QED BY <1>1, <1>2, <1>4, <1>5 DEF Policy!Next

\* What the invariant says of what runs.
LEMMA PolicyPromise ==
  ASSUME Policy!PolicyAssumption, PolicyInv
  PROVE  Policy!NothingRunsUngranted
<1> SUFFICES ASSUME ran # Policy!NoRun PROVE Policy!NothingRunsUngranted
  BY DEF Policy!NothingRunsUngranted, Policy!NothingDeniedRuns, Policy!RiskyRunsWereGranted,
    Policy!GrantIsForOneCall
<1>1. Policy!NothingDeniedRuns BY DEF PolicyInv, Policy!NothingDeniedRuns
<1>2. Policy!RiskyRunsWereGranted
  <2> SUFFICES ASSUME ran.mode # "bypass", Policy!AlwaysAsked(ran.call)
               PROVE  \E g \in granted : g.tool = ran.call.tool /\ g.command = ran.call.command
    BY DEF Policy!RiskyRunsWereGranted
  <2>1. PICK g \in granted : Policy!ApprovalKey(g) = Policy!ApprovalKey(ran.call)
    BY DEF PolicyInv, RunsUnasked, GrantFor
  <2> QED BY <2>1, SameKey
<1>3. Policy!GrantIsForOneCall
  <2> SUFFICES ASSUME ran.mode = "ask", Policy!NeedsApproval(ran.call), ~Policy!Allowed(ran.call)
               PROVE  \E g \in granted : [g EXCEPT !.variant = ran.call.variant] = ran.call
    BY DEF Policy!GrantIsForOneCall
  <2>1. PICK g \in granted : Policy!ApprovalKey(g) = Policy!ApprovalKey(ran.call)
    BY DEF PolicyInv, RunsUnasked, GrantFor
  <2>2. /\ g.tool = ran.call.tool /\ g.command = ran.call.command
        /\ g.cwd = ran.call.cwd /\ g.paths = ran.call.paths
    BY <2>1, SameKey
  <2>3. g \in Calls /\ ran.call \in Calls BY DEF PolicyInv
  <2>4. /\ g = [tool |-> g.tool, command |-> g.command, cwd |-> g.cwd, paths |-> g.paths,
                variant |-> g.variant]
        /\ ran.call = [tool |-> ran.call.tool, command |-> ran.call.command,
                       cwd |-> ran.call.cwd, paths |-> ran.call.paths,
                       variant |-> ran.call.variant]
    BY <2>3 DEF Policy!PolicyAssumption
  <2>5. [g EXCEPT !.variant = ran.call.variant]
          = [tool |-> g.tool, command |-> g.command, cwd |-> g.cwd, paths |-> g.paths,
             variant |-> ran.call.variant]
    BY <2>4
  <2> QED BY <2>2, <2>4, <2>5
<1> QED BY <1>1, <1>2, <1>3 DEF Policy!NothingRunsUngranted

\* "deny rules (absolute -- no mode or allow rule overrides them)"; what the
\* policy would have asked for ran on a grant for that very command, and in ask
\* mode on one for that very call.
THEOREM NothingEverRunsUngranted ==
  ASSUME Policy!PolicyAssumption
  PROVE  Policy!Spec => []Policy!NothingRunsUngranted
BY PolicyInit, PolicyStep, PolicyPromise, PTL DEF Policy!Spec

-----------------------------------------------------------------------------
(* Command lines.                                                          *)

Rank(class) ==
  CASE class = "unknown" -> 0 [] class = "read-only" -> 1 [] class = "write" -> 2
    [] class = "network" -> 3 [] class = "destructive" -> 4

\* What is found in a line is found in a longer one, and a line that is more
\* than "git" begins with a harmless git command or does not.
LEMMA LongerHolds ==
  ASSUME NEW S, NEW c \in Seq(S), NEW w \in S
  PROVE  /\ \A T : Policy!HasAnyToken(c, T) => Policy!HasAnyToken(Append(c, w), T)
         /\ Policy!ContainsNetworkIntent(c) => Policy!ContainsNetworkIntent(Append(c, w))
         /\ Policy!CommandMayWrite(c) => Policy!CommandMayWrite(Append(c, w))
         /\ c \notin {<<>>, <<"git">>} =>
              (Policy!IsReadOnlyGitCommand(Append(c, w)) => Policy!IsReadOnlyGitCommand(c))
<1> DEFINE d == Append(c, w)
<1>1. d \in Seq(S) /\ Len(d) = Len(c) + 1 /\ \A i \in 1..Len(c) : d[i] = c[i] OBVIOUS
<1>2. DOMAIN c = 1..Len(c) /\ DOMAIN d = 1..Len(d) /\ Len(c) \in Nat BY <1>1
<1> HIDE DEF d
<1>3. \A T : Policy!HasAnyToken(c, T) => Policy!HasAnyToken(d, T)
  BY <1>1, <1>2 DEF Policy!HasAnyToken
<1>4. Policy!ContainsNetworkIntent(c) => Policy!ContainsNetworkIntent(d)
  BY <1>1, <1>2, <1>3 DEF Policy!ContainsNetworkIntent
<1>5. Policy!CommandMayWrite(c) => Policy!CommandMayWrite(d)
  BY <1>1, <1>2, <1>3 DEF Policy!CommandMayWrite
<1>6. ASSUME c \notin {<<>>, <<"git">>}, Policy!IsReadOnlyGitCommand(d)
      PROVE  Policy!IsReadOnlyGitCommand(c)
  <2>1. CASE Len(c) >= 2 BY <1>1, <1>2, <1>6, <2>1 DEF Policy!IsReadOnlyGitCommand
  <2>2. CASE Len(c) = 1
    <3>1. c = <<c[1]>> BY <2>2
    <3>2. d[1] = c[1] /\ d[1] = "git" BY <1>1, <1>6, <2>2 DEF Policy!IsReadOnlyGitCommand
    <3> QED BY <1>6, <3>1, <3>2
  <2>3. Len(c) # 0 BY <1>6
  <2> QED BY <1>2, <2>1, <2>2, <2>3
<1> QED BY <1>3, <1>4, <1>5, <1>6 DEF d

\* A command never gets milder by what is added after it, but for "git" alone,
\* which counts as a write until its subcommand is there: whatever the words.
THEOREM LongerIsNotMilder ==
  ASSUME NEW S, NEW c \in Seq(S), NEW w \in S, c # <<"git">>
  PROVE  Rank(Policy!CommandClass(Append(c, w))) >= Rank(Policy!CommandClass(c))
<1>1. Append(c, w) # <<>> OBVIOUS
<1>2. CASE c = <<>>
  <2>1. Policy!CommandClass(c) = "unknown" BY <1>2 DEF Policy!CommandClass
  <2>2. Policy!CommandClass(Append(c, w)) \in {"destructive", "network", "write", "read-only"}
    BY <1>1 DEF Policy!CommandClass
  <2> QED BY <2>1, <2>2 DEF Rank
<1>3. CASE c # <<>> BY <1>1, <1>3, LongerHolds DEF Policy!CommandClass, Rank
<1> QED BY <1>2, <1>3

-----------------------------------------------------------------------------
(* Commands.                                                               *)

\* What is kept is what was read, up to the limit, and the mark says whether
\* there was more; the stream ends when all was read and nobody can write.
OutputInv ==
  /\ requested \in Int /\ written \in Nat /\ consumed \in Nat /\ consumed <= written
  /\ kept = RunExec!Lesser(consumed, RunExec!OutputLimit)
  /\ truncated \in BOOLEAN /\ (truncated <=> consumed > RunExec!OutputLimit)
  /\ reader \in {"ended", "done"} => consumed = written /\ ~RunExec!PipeHeld

\* A command that was cut short has no group any more, unless its shell was
\* known to be gone; one that finished had its output read to the end.
StageInv ==
  /\ stage = "waiting" => reason = "none"
  /\ stage = "killing" => RunExec!IsCut
  /\ stage \in {"killing", "returned"} /\ RunExec!IsCut /\ ~lateCut => ~RunExec!Alive
  /\ stage = "returned" /\ ~RunExec!IsCut => reader = "done"
  /\ job \in {"none", "holding", "detached", "gone"}

CommandInv == OutputInv /\ StageInv

\* The limit is a number of bytes.
LEMMA LimitIsNat ==
  ASSUME RunExec!ExecAssumption, requested \in Int
  PROVE  RunExec!OutputLimit \in Nat
BY DEF RunExec!ExecAssumption, RunExec!OutputLimit, RunExec!Lesser

\* No command runs at the start.
LEMMA CommandInit ==
  ASSUME RunExec!ExecAssumption
  PROVE  RunExec!Init => CommandInv
<1> SUFFICES ASSUME RunExec!Init PROVE CommandInv
  OBVIOUS
<1>1. requested \in Int BY DEF RunExec!Init, RunExec!ExecAssumption
<1>2. RunExec!OutputLimit \in Nat BY <1>1, LimitIsNat
<1>3. truncated \in BOOLEAN /\ (truncated <=> consumed > RunExec!OutputLimit)
  <2>1. truncated = FALSE /\ consumed = 0 BY DEF RunExec!Init
  <2>2. ~(consumed > RunExec!OutputLimit) BY <1>2, <2>1
  <2> QED BY <2>1, <2>2, Zenon
<1>4. OutputInv BY <1>1, <1>2, <1>3 DEF RunExec!Init, OutputInv, RunExec!Lesser
<1>5. StageInv BY DEF RunExec!Init, StageInv, RunExec!IsCut
<1> QED BY <1>4, <1>5 DEF CommandInv

\* Only the reader touches the buffer, and only a group that holds the pipe
\* adds to what it will read.
LEMMA OutputKept ==
  ASSUME RunExec!ExecAssumption, CommandInv, UNCHANGED <<requested, consumed, kept, truncated>>,
         \/ written' = written
         \/ written' = written + 1 /\ RunExec!PipeHeld /\ reader' = reader,
         RunExec!PipeHeld' => RunExec!PipeHeld,
         reader' \in {"ended", "done"} =>
           \/ reader \in {"ended", "done"}
           \/ (consumed = written /\ ~RunExec!PipeHeld /\ written' = written)
  PROVE  OutputInv'
<1>1. RunExec!OutputLimit' = RunExec!OutputLimit BY DEF RunExec!OutputLimit
<1> QED BY <1>1 DEF CommandInv, OutputInv

\* The reader takes what was written and keeps what fits.
LEMMA ReadKeeps ==
  ASSUME RunExec!ExecAssumption, CommandInv, NEW n \in 1..MaxWritten, RunExec!ReadChunk(n)
  PROVE  CommandInv'
<1>1. /\ UNCHANGED <<RunExec!call, RunExec!group, written, reader, commandCancelled, stage, reason,
           lateCut>>
      /\ n \in Nat /\ n <= written - consumed /\ consumed' = consumed + n /\ reader = "reading"
  BY DEF RunExec!ReadChunk, RunExec!ExecAssumption
<1>2. RunExec!OutputLimit \in Nat /\ RunExec!OutputLimit' = RunExec!OutputLimit
  BY <1>1, LimitIsNat DEF CommandInv, OutputInv, RunExec!OutputLimit, RunExec!call
<1>3. /\ kept' = kept + RunExec!Lesser(n, RunExec!OutputLimit - kept)
      /\ truncated' = (truncated \/ n > RunExec!OutputLimit - kept)
  BY DEF RunExec!ReadChunk, RunExec!Keep
<1>4. /\ kept' = RunExec!Lesser(consumed', RunExec!OutputLimit)
      /\ n > RunExec!OutputLimit - kept <=> consumed' > RunExec!OutputLimit \/
           (kept = RunExec!OutputLimit)
  BY <1>1, <1>2, <1>3 DEF CommandInv, OutputInv, RunExec!Lesser
<1>5. truncated' \in BOOLEAN /\ (truncated' <=> truncated \/ n > RunExec!OutputLimit - kept)
  BY <1>3
<1>6. truncated' <=> consumed' > RunExec!OutputLimit
  BY <1>1, <1>2, <1>4, <1>5 DEF CommandInv, OutputInv, RunExec!Lesser
<1>7. OutputInv' BY <1>1, <1>2, <1>4, <1>5, <1>6 DEF CommandInv, OutputInv, RunExec!call
<1>8. StageInv' BY <1>1 DEF CommandInv, StageInv, RunExec!IsCut, RunExec!Alive, RunExec!group
<1> QED BY <1>7, <1>8 DEF CommandInv

\* Every step of a command keeps the invariant.
LEMMA CommandStep ==
  ASSUME RunExec!ExecAssumption
  PROVE  CommandInv /\ [RunExec!Next]_RunExec!vars => CommandInv'
<1> SUFFICES ASSUME CommandInv, [RunExec!Next]_RunExec!vars PROVE CommandInv'
  OBVIOUS
<1> USE DEF RunExec!call, RunExec!group, RunExec!sink
<1>1. ASSUME \/ RunExec!Writes \/ RunExec!StartsJob \/ RunExec!ShellExits \/ RunExec!JobEnds
             \/ RunExec!Reap
      PROVE  CommandInv'
  <2>1. OutputInv'
    BY <1>1, OutputKept DEF RunExec!Writes, RunExec!StartsJob, RunExec!ShellExits, RunExec!JobEnds,
      RunExec!Reap, RunExec!PipeHeld, CommandInv, OutputInv
  <2>2. StageInv'
    BY <1>1 DEF RunExec!Writes, RunExec!StartsJob, RunExec!ShellExits, RunExec!JobEnds,
      RunExec!Reap, RunExec!PipeHeld, CommandInv, StageInv, RunExec!IsCut, RunExec!Alive
  <2> QED BY <2>1, <2>2 DEF CommandInv
<1>2. ASSUME NEW n \in 1..MaxWritten, RunExec!ReadChunk(n) PROVE CommandInv' BY <1>2, ReadKeeps
<1>3. ASSUME RunExec!StreamEnds \/ RunExec!ReaderDone \/ RunExec!CancelRun PROVE CommandInv'
  <2>1. OutputInv'
    BY <1>3, OutputKept DEF RunExec!StreamEnds, RunExec!ReaderDone, RunExec!CancelRun,
      RunExec!PipeHeld, CommandInv, OutputInv
  <2>2. StageInv'
    BY <1>3 DEF RunExec!StreamEnds, RunExec!ReaderDone, RunExec!CancelRun, CommandInv, StageInv,
      RunExec!IsCut, RunExec!Alive
  <2> QED BY <2>1, <2>2 DEF CommandInv
<1>4. CASE RunExec!Finish
  <2>1. OutputInv' BY <1>4, OutputKept DEF RunExec!Finish, RunExec!PipeHeld
  <2>2. StageInv' BY <1>4 DEF RunExec!Finish, CommandInv, StageInv, RunExec!IsCut, RunExec!Alive
  <2> QED BY <2>1, <2>2 DEF CommandInv
<1>5. CASE RunExec!Cut
  <2>1. OutputInv' BY <1>5, OutputKept DEF RunExec!Cut, RunExec!KillGroup, RunExec!PipeHeld
  <2>2. StageInv'
    BY <1>5 DEF RunExec!Cut, RunExec!KillGroup, CommandInv, StageInv, RunExec!IsCut, RunExec!Alive
  <2> QED BY <2>1, <2>2 DEF CommandInv
<1>6. CASE RunExec!Settle
  <2>1. OutputInv' BY <1>6, OutputKept DEF RunExec!Settle, RunExec!PipeHeld
  <2>2. StageInv' BY <1>6 DEF RunExec!Settle, CommandInv, StageInv, RunExec!IsCut, RunExec!Alive
  <2> QED BY <2>1, <2>2 DEF CommandInv
<1>7. CASE RunExec!TaskCancelled
  <2>1. OutputInv' BY <1>7, OutputKept DEF RunExec!TaskCancelled, RunExec!PipeHeld
  <2>2. StageInv'
    BY <1>7 DEF RunExec!TaskCancelled, CommandInv, StageInv, RunExec!IsCut, RunExec!Alive
  <2> QED BY <2>1, <2>2 DEF CommandInv
<1>8. CASE UNCHANGED RunExec!vars
  <2>1. OutputInv' BY <1>8, OutputKept DEF RunExec!vars, RunExec!PipeHeld
  <2>2. StageInv' BY <1>8 DEF RunExec!vars, CommandInv, StageInv, RunExec!IsCut, RunExec!Alive
  <2> QED BY <2>1, <2>2 DEF CommandInv
<1> QED BY <1>1, <1>2, <1>3, <1>4, <1>5, <1>6, <1>7, <1>8 DEF RunExec!Next

\* What the invariant says of a command.
LEMMA CommandPromise ==
  ASSUME CommandInv
  PROVE  RunExec!CommandIsAccountedFor
<1>1. RunExec!WholeOutputReturned
  BY DEF CommandInv, OutputInv, StageInv, RunExec!WholeOutputReturned
<1>2. RunExec!CutGroupIsGone BY DEF CommandInv, StageInv, RunExec!CutGroupIsGone
<1>3. RunExec!CutIsReported BY DEF RunExec!CutIsReported, RunExec!Outcome, RunExec!IsCut
<1> QED BY <1>1, <1>2, <1>3 DEF RunExec!CommandIsAccountedFor

\* A command that is not cut short returns all its group has written, or as much
\* as the limit allows and the mark that there was more; one that is cut short
\* while its shell runs leaves nothing of its group behind, and is an error to
\* the model.
THEOREM CommandIsAlwaysAccountedFor ==
  ASSUME RunExec!ExecAssumption
  PROVE  RunExec!Spec => []RunExec!CommandIsAccountedFor
BY CommandInit, CommandStep, CommandPromise, PTL DEF RunExec!Spec

-----------------------------------------------------------------------------
(* Fetching a page.                                                        *)

\* What the steps preserve: where a connection may be open, that the target of
\* a waiting fetch was allowed, and how requests count the redirects.
FetchInv ==
  /\ at \in {"idle"} \cup WebFetch!Waiting \cup WebFetch!Ended
  /\ hop \in Nat /\ requests \in Nat /\ size \in Nat
  /\ at \in WebFetch!Waiting => WebFetch!Allowed(host)
  /\ at = "dialling" => address \in Public
  /\ \A d \in dialled : d.answers \subseteq Public
  /\ IF at \in {"headers", "body"}
     THEN /\ address \in Public
          /\ open = {[address |-> address, host |-> host, of |-> hop]}
     ELSE open = {}
  /\ hop <= MaxRedirects
  /\ requests <= hop + 1
  /\ at \in {"idle", "hop", "resolving", "dialling"} => requests <= hop
  /\ size <= Limit

\* Nothing is dialled at the start.
LEMMA FetchInit ==
  ASSUME WebFetch!WebFetchAssumption
  PROVE  WebFetch!Init => FetchInv
BY DEF WebFetch!WebFetchAssumption, WebFetch!Init, FetchInv, WebFetch!Waiting, WebFetch!Ended

\* Every step of a fetch keeps the invariant.
LEMMA FetchStep ==
  ASSUME WebFetch!WebFetchAssumption
  PROVE  FetchInv /\ [WebFetch!Next]_WebFetch!vars => FetchInv'
<1> SUFFICES ASSUME FetchInv, [WebFetch!Next]_WebFetch!vars PROVE FetchInv'
  OBVIOUS
<1> USE DEF WebFetch!WebFetchAssumption
<1>1. CASE WebFetch!Begin
  BY <1>1 DEF WebFetch!Begin, FetchInv, WebFetch!Waiting, WebFetch!Ended, WebFetch!Allowed
<1>2. CASE WebFetch!Send
  BY <1>2 DEF WebFetch!Send, WebFetch!End, FetchInv, WebFetch!Waiting, WebFetch!Ended,
    WebFetch!Allowed
<1>3. ASSUME NEW answers \in SUBSET Addresses, WebFetch!Resolve(answers) PROVE FetchInv'
  <2>1. CASE WebFetch!Vouched(answers)
    BY <1>3, <2>1 DEF WebFetch!Resolve, WebFetch!Vouched, FetchInv, WebFetch!Waiting,
      WebFetch!Ended, WebFetch!Allowed
  <2>2. CASE ~WebFetch!Vouched(answers)
    BY <1>3, <2>2 DEF WebFetch!Resolve, WebFetch!End, FetchInv, WebFetch!Waiting, WebFetch!Ended,
      WebFetch!Allowed
  <2> QED BY <2>1, <2>2
<1>4. CASE WebFetch!Dial
  BY <1>4 DEF WebFetch!Dial, FetchInv, WebFetch!Waiting, WebFetch!Ended, WebFetch!Allowed
<1>5. ASSUME NEW next \in Hosts, WebFetch!Redirected(next) PROVE FetchInv'
  BY <1>5 DEF WebFetch!Redirected, WebFetch!TooMany, WebFetch!Leave, WebFetch!End, FetchInv,
    WebFetch!Waiting, WebFetch!Ended, WebFetch!Allowed
<1>6. CASE WebFetch!Success
  BY <1>6 DEF WebFetch!Success, FetchInv, WebFetch!Waiting, WebFetch!Ended, WebFetch!Allowed
<1>7. CASE WebFetch!Breaks
  BY <1>7 DEF WebFetch!Breaks, WebFetch!End, FetchInv, WebFetch!Waiting, WebFetch!Ended,
    WebFetch!Allowed
<1>8. ASSUME NEW part \in 1..Limit, WebFetch!Read(part) PROVE FetchInv'
  BY <1>8 DEF WebFetch!Read, WebFetch!TooLarge, WebFetch!End, FetchInv, WebFetch!Waiting,
    WebFetch!Ended, WebFetch!Allowed
<1>9. CASE WebFetch!Answer
  BY <1>9 DEF WebFetch!Answer, WebFetch!End, FetchInv, WebFetch!Waiting, WebFetch!Ended,
    WebFetch!Allowed
<1>10. CASE WebFetch!Timeout
  BY <1>10 DEF WebFetch!Timeout, WebFetch!End, FetchInv, WebFetch!Waiting, WebFetch!Ended,
    WebFetch!Allowed
<1>11. CASE WebFetch!Tick
  BY <1>11 DEF WebFetch!Tick, FetchInv, WebFetch!Waiting, WebFetch!Ended, WebFetch!Allowed
<1>12. CASE WebFetch!Cancel
  BY <1>12 DEF WebFetch!Cancel, FetchInv, WebFetch!Waiting, WebFetch!Ended, WebFetch!Allowed
<1>13. CASE UNCHANGED WebFetch!vars
  BY <1>13 DEF WebFetch!vars, FetchInv, WebFetch!Waiting, WebFetch!Ended, WebFetch!Allowed
<1> QED
  BY <1>1, <1>2, <1>3, <1>4, <1>5, <1>6, <1>7, <1>8, <1>9, <1>10, <1>11, <1>12, <1>13
    DEF WebFetch!Next

\* The strengthened invariant holds in every behaviour.
THEOREM FetchInvariant ==
  ASSUME WebFetch!WebFetchAssumption
  PROVE  WebFetch!Spec => []FetchInv
BY FetchInit, FetchStep, PTL DEF WebFetch!Spec

\* docs/tools.md:92: nothing is dialled but a checked address, all of whose
\* fellow answers were public, whatever the redirects and the resolver do.
THEOREM OnlyPublicIsDialledAlways ==
  ASSUME WebFetch!WebFetchAssumption
  PROVE  WebFetch!Spec => []WebFetch!OnlyPublicIsDialled
<1>1. FetchInv => WebFetch!OnlyPublicIsDialled
  BY DEF FetchInv, WebFetch!OnlyPublicIsDialled, WebFetch!Waiting
<1> QED BY <1>1, FetchInvariant, PTL

\* A hop has one connection at most.
LEMMA OneConnectionPromise ==
  ASSUME FetchInv
  PROVE  WebFetch!OneConnection
<1>1. WebFetch!Cardinality(open) <= 1
  <2>1. Cardinality({}) = 0
    BY FS_EmptySet, Zenon
  <2>2. \A x : Cardinality({x}) = 1
    BY FS_Singleton, Zenon
  <2>3. open = {} \/ \E x : open = {x}
    BY DEF FetchInv
  <2>4. Cardinality(open) \in {0, 1}
    BY <2>1, <2>2, <2>3
  <2> QED BY <2>4, CountedAlike
<1>2. at \in WebFetch!Ended \cup {"hop", "resolving", "dialling"} => open = {}
  BY DEF FetchInv, WebFetch!Ended
<1> QED BY <1>1, <1>2 DEF WebFetch!OneConnection

\* A hop has one connection, and neither a refused target nor the end leaves
\* one open.
THEOREM OneConnectionAlways ==
  ASSUME WebFetch!WebFetchAssumption
  PROVE  WebFetch!Spec => []WebFetch!OneConnection
BY FetchInvariant, OneConnectionPromise, PTL

\* An answered page fits, and costs at most one request more than the redirects
\* that are allowed.
THEOREM AnswerIsBoundedAlways ==
  ASSUME WebFetch!WebFetchAssumption
  PROVE  WebFetch!Spec => []WebFetch!AnswerIsBounded
<1>1. FetchInv => WebFetch!AnswerIsBounded
  BY DEF WebFetch!WebFetchAssumption, FetchInv, WebFetch!AnswerIsBounded
<1> QED BY <1>1, FetchInvariant, PTL

\* What the invariant says of a fetch.
LEMMA FetchPromise ==
  ASSUME WebFetch!WebFetchAssumption, FetchInv
  PROVE  WebFetch!FetchIsGuarded
<1>1. WebFetch!OnlyPublicIsDialled BY DEF FetchInv, WebFetch!OnlyPublicIsDialled, WebFetch!Waiting
<1>2. WebFetch!AnswerIsBounded
  BY DEF WebFetch!WebFetchAssumption, FetchInv, WebFetch!AnswerIsBounded
<1> QED BY <1>1, <1>2, OneConnectionPromise DEF WebFetch!FetchIsGuarded

\* What the tool promises of a fetch, whatever the servers and the resolver do.
THEOREM FetchAlwaysGuarded ==
  ASSUME WebFetch!WebFetchAssumption
  PROVE  WebFetch!Spec => []WebFetch!FetchIsGuarded
BY FetchInvariant, FetchPromise, PTL

-----------------------------------------------------------------------------
(* Run contexts.                                                           *)

\* The ranges of the variables: what is not made yet has no parent that is, and
\* nothing that was made is registered with it.
Shapes ==
  /\ made \in 0..MaxContexts
  /\ parent \in [RunContext!Contexts -> 0..made] /\ derived \in [RunContext!Contexts -> BOOLEAN]
  /\ event \in [RunContext!Contexts -> RunContext!Contexts] /\ isSet \subseteq RunContext!Contexts
  /\ children \in [RunContext!Contexts -> SUBSET (1..made)]
  /\ values \in [RunContext!Contexts -> SUBSET Keys]
  /\ \A c \in RunContext!Contexts : c \notin 1..made => parent[c] = RunContext!NoContext

\* A derived context has the event and the values of the one it comes from, any
\* other an event of its own.
Derivation ==
  \A c \in RunContext!Contexts :
    IF derived[c]
    THEN /\ c \in 1..made /\ parent[c] # RunContext!NoContext
         /\ event[c] = event[parent[c]] /\ values[parent[c]] \subseteq values[c]
    ELSE event[c] = c

\* Only runs are registered.
RunsOnly == \A c \in RunContext!Contexts : \A d \in children[c] : ~derived[d]

\* A run that still lives is registered with its caller.
Registered ==
  \A c \in 1..made :
    parent[c] # RunContext!NoContext /\ ~derived[c] /\ ~derived[parent[c]]
      => RunContext!cancelled(c) \/ (c \in children[parent[c]] /\ ~RunContext!cancelled(parent[c]))

ContextInv == Shapes /\ Derivation /\ RunsOnly /\ Registered

\* The tree is empty at the start.
LEMMA ContextInit ==
  ASSUME RunContext!RunContextAssumption
  PROVE  RunContext!Init => ContextInv
BY DEF RunContext!RunContextAssumption, RunContext!Init, ContextInv, Shapes, Derivation, RunsOnly,
  Registered,
  RunContext!Contexts, RunContext!NoContext, RunContext!cancelled

\* The contexts that are made are the first of all, and the next is one more.
LEMMA ContextNumbers ==
  ASSUME RunContext!RunContextAssumption, NEW n \in 0..MaxContexts
  PROVE  /\ n \in Nat /\ 1..n \subseteq RunContext!Contexts
         /\ RunContext!NoContext \notin RunContext!Contexts /\ n + 1 \notin 1..n
         /\ n < MaxContexts => n + 1 \in RunContext!Contexts /\ n + 1 \in 0..MaxContexts
         /\ \A c : c \in 1..(n + 1) <=> c \in 1..n \/ c = n + 1
         /\ \A c : c \in 0..n <=> c = RunContext!NoContext \/ c \in 1..n
         /\ \A c : c \in 0..(n + 1) <=> c = RunContext!NoContext \/ c \in 1..n \/ c = n + 1
         /\ \A c \in RunContext!Contexts : c <= n <=> c \in 1..n
BY DEF RunContext!RunContextAssumption, RunContext!Contexts, RunContext!NoContext

\* A cancel reaches every registered child of what it reaches that lives.
LEMMA ReachedFollows ==
  ASSUME NEW c \in RunContext!Contexts, Shapes, RunContext!RunContextAssumption,
         NEW x \in RunContext!Reached(c), NEW d \in children[x], ~RunContext!cancelled(d)
  PROVE  d \in RunContext!Reached(c)
<1>1. x \in RunContext!Contexts BY DEF RunContext!Reached
<1>2. d \in RunContext!Contexts
  <2>1. children[x] \subseteq 1..made BY <1>1 DEF Shapes
  <2> QED BY <2>1, ContextNumbers DEF Shapes
<1>3. ASSUME NEW S \in SUBSET RunContext!Contexts, c \in S, RunContext!FollowsChildren(S)
      PROVE  d \in S
  <2>1. x \in S BY <1>3 DEF RunContext!Reached
  <2> QED BY <1>3, <2>1 DEF RunContext!FollowsChildren
<1> QED BY <1>2, <1>3 DEF RunContext!Reached

\* And nothing but itself and runs.
LEMMA ReachedRuns ==
  ASSUME NEW c \in RunContext!Contexts, Shapes, RunsOnly, RunContext!RunContextAssumption,
             ~derived[c]
  PROVE  \A d \in RunContext!Reached(c) : ~derived[d]
<1> DEFINE R == {d \in RunContext!Contexts : ~derived[d]}
<1>1. RunContext!FollowsChildren(R)
  <2> SUFFICES ASSUME NEW x \in R, NEW d \in children[x] PROVE d \in R
    BY DEF RunContext!FollowsChildren
  <2>1. x \in RunContext!Contexts /\ ~derived[d] BY DEF RunsOnly
  <2>2. children[x] \subseteq 1..made /\ made \in 0..MaxContexts BY <2>1 DEF Shapes
  <2>3. d \in RunContext!Contexts BY <2>2, ContextNumbers
  <2> QED BY <2>1, <2>3
<1>2. \A d \in RunContext!Reached(c) : d \in R
  <2>1. R \subseteq RunContext!Contexts /\ c \in R
    OBVIOUS
  <2> HIDE DEF R
  <2> QED BY <1>1, <2>1 DEF RunContext!Reached
<1> QED BY <1>2

\* A new root has no caller.
LEMMA RootKeeps ==
  ASSUME RunContext!RunContextAssumption, ContextInv, RunContext!NewRoot
  PROVE  ContextInv'
<1>1. /\ made \in 0..MaxContexts /\ made < MaxContexts /\ made' = made + 1
      /\ UNCHANGED <<parent, derived, event, isSet, children, values>>
  BY DEF ContextInv, Shapes, RunContext!NewRoot
<1>2. /\ \A c : c \in 1..made' <=> c \in 1..made \/ c = made + 1
      /\ \A c \in 0..made : c \in 0..made'
      /\ made' \in 0..MaxContexts /\ made + 1 \notin 1..made /\ made + 1 \in RunContext!Contexts
  BY <1>1, ContextNumbers
<1>3. Shapes'
  <2>1. /\ parent \in [RunContext!Contexts -> 0..made']
        /\ children \in [RunContext!Contexts -> SUBSET (1..made')]
    BY <1>2 DEF ContextInv, Shapes
  <2>2. \A c \in RunContext!Contexts : c \notin 1..made' => parent[c] = RunContext!NoContext
    BY <1>2 DEF ContextInv, Shapes
  <2> QED BY <1>1, <1>2, <2>1, <2>2 DEF ContextInv, Shapes
<1>4. Derivation' BY <1>1, <1>2 DEF ContextInv, Derivation
<1>5. RunsOnly' BY <1>1 DEF ContextInv, RunsOnly
<1>6. Registered'
  <2>1. parent[made + 1] = RunContext!NoContext BY <1>2 DEF ContextInv, Shapes
  <2> QED BY <1>1, <1>2, <2>1 DEF ContextInv, Registered, RunContext!cancelled
<1> QED BY <1>3, <1>4, <1>5, <1>6 DEF ContextInv

\* A new run is cancelled at once or registered with a caller that lives.
LEMMA ChildKeeps ==
  ASSUME RunContext!RunContextAssumption, ContextInv, NEW p \in RunContext!Contexts,
         RunContext!NewChild(p)
  PROVE  ContextInv'
<1> DEFINE m == made + 1
<1>1. /\ made \in 0..MaxContexts /\ made < MaxContexts /\ made' = m /\ p \in 1..made
      /\ parent' = [parent EXCEPT ![m] = p] /\ UNCHANGED <<derived, event, values>>
  BY ContextNumbers DEF ContextInv, Shapes, RunContext!NewChild
<1>2. /\ \A c : c \in 1..made' <=> c \in 1..made \/ c = m
      /\ \A c \in 0..made : c \in 0..made'
      /\ 1..made \subseteq RunContext!Contexts /\ 1..made \subseteq 0..made'
      /\ \A c \in 0..made : c # RunContext!NoContext => c \in 1..made
      /\ made' \in 0..MaxContexts /\ m \notin 1..made /\ m \in RunContext!Contexts
      /\ p # RunContext!NoContext /\ p # m
  BY <1>1, ContextNumbers
<1> HIDE DEF m
<1>3. ~derived[m] /\ event[m] = m BY <1>2 DEF ContextInv, Derivation
<1>4. \/ RunContext!cancelled(p) /\ isSet' = isSet \cup {m} /\ children' = children
      \/ /\ ~RunContext!cancelled(p) /\ isSet' = isSet
         /\ children' = [children EXCEPT ![p] = @ \cup {m}]
  BY <1>3 DEF RunContext!NewChild, RunContext!adopt, m
<1>5. /\ isSet \subseteq isSet' /\ isSet' \subseteq isSet \cup {m}
      /\ \A c \in RunContext!Contexts : children[c] \subseteq children'[c] /\
           children'[c] \subseteq children[c] \cup {m}
  BY <1>4 DEF ContextInv, Shapes
<1>6. \A c \in RunContext!Contexts : parent'[c] = IF c = m THEN p ELSE parent[c]
  BY <1>1 DEF ContextInv, Shapes
<1>7. Shapes'
  <2>1. children' \in [RunContext!Contexts -> SUBSET (1..made')]
    BY <1>2, <1>4 DEF ContextInv, Shapes
  <2>2. isSet' \subseteq RunContext!Contexts BY <1>2, <1>5 DEF ContextInv, Shapes
  <2>3. parent' \in [RunContext!Contexts -> 0..made'] BY <1>1, <1>2 DEF ContextInv, Shapes
  <2>4. \A c \in RunContext!Contexts : c \notin 1..made' => parent'[c] = RunContext!NoContext
    BY <1>2, <1>6 DEF ContextInv, Shapes
  <2> QED BY <1>1, <1>2, <2>1, <2>2, <2>3, <2>4 DEF ContextInv, Shapes
<1>8. Derivation'
  <2> SUFFICES ASSUME NEW c \in RunContext!Contexts
               PROVE  IF derived[c]
                      THEN /\ c \in 1..made' /\ parent'[c] # RunContext!NoContext
                           /\ event[c] = event[parent'[c]] /\ values[parent'[c]] \subseteq values[c]
                      ELSE event[c] = c
    BY <1>1 DEF Derivation
  <2>1. CASE c = m BY <1>3, <2>1
  <2>2. CASE c # m BY <1>2, <1>6, <2>2 DEF ContextInv, Derivation
  <2> QED BY <2>1, <2>2
<1>9. RunsOnly' BY <1>1, <1>3, <1>5 DEF ContextInv, RunsOnly
<1>10. Registered'
  <2> SUFFICES ASSUME NEW c \in 1..made', parent'[c] # RunContext!NoContext, ~derived[c],
                          ~derived[parent'[c]]
               PROVE  \/ event[c] \in isSet'
                      \/ c \in children'[parent'[c]] /\ event[parent'[c]] \notin isSet'
    BY <1>1 DEF Registered, RunContext!cancelled
  <2>1. CASE c = m
    <3>1. parent'[c] = p /\ event[p] = p BY <1>2, <1>6, <2>1 DEF ContextInv, Derivation
    <3>2. children' = [children EXCEPT ![p] = @ \cup {m}] => m \in children'[p]
      BY DEF ContextInv, Shapes
    <3> QED BY <1>2, <1>3, <1>4, <2>1, <3>1, <3>2 DEF RunContext!cancelled
  <2>2. CASE c # m
    <3>1. c \in 1..made /\ c \in RunContext!Contexts /\ parent'[c] = parent[c] BY <1>2, <1>6, <2>2
    <3>2. parent[c] \in 1..made /\ parent[c] \in RunContext!Contexts
      BY <1>2, <3>1 DEF ContextInv, Shapes
    <3>3. event[c] \in isSet \/ (c \in children[parent[c]] /\ event[parent[c]] \notin isSet)
      BY <3>1 DEF ContextInv, Registered, RunContext!cancelled
    <3>4. event[parent[c]] = parent[c] /\ parent[c] # m
      BY <1>2, <3>1, <3>2 DEF ContextInv, Derivation
    <3> QED BY <1>5, <3>1, <3>2, <3>3, <3>4
  <2> QED BY <2>1, <2>2
<1> QED BY <1>7, <1>8, <1>9, <1>10 DEF ContextInv

\* What is derived shares the event of where it comes from, and is registered
\* nowhere.
LEMMA DerivedKeeps ==
  ASSUME RunContext!RunContextAssumption, ContextInv, NEW p \in RunContext!Contexts,
         NEW key \in Keys,
         RunContext!with_value(p, key)
  PROVE  ContextInv'
<1> DEFINE m == made + 1
<1>1. /\ made \in 0..MaxContexts /\ made < MaxContexts /\ made' = m /\ p \in 1..made
      /\ UNCHANGED <<children, isSet>>
      /\ parent' = [parent EXCEPT ![m] = p] /\ derived' = [derived EXCEPT ![m] = TRUE]
      /\ event' = [event EXCEPT ![m] = event[p]]
      /\ values' = [values EXCEPT ![m] = values[p] \cup {key}]
  BY ContextNumbers
    DEF ContextInv, Shapes, RunContext!with_value, RunContext!heldAfterDerive,
      RunContext!sharedEvent, RunContext!WithValue
<1>2. /\ \A c : c \in 1..made' <=> c \in 1..made \/ c = m
      /\ \A c \in 0..made : c \in 0..made'
      /\ 1..made \subseteq RunContext!Contexts /\ 1..made \subseteq 0..made'
      /\ \A c \in 0..made : c # RunContext!NoContext => c \in 1..made
      /\ made' \in 0..MaxContexts /\ m \notin 1..made /\ m \in RunContext!Contexts
      /\ p # RunContext!NoContext /\ p # m
  BY <1>1, ContextNumbers
<1> HIDE DEF m
<1>3. /\ \A c \in RunContext!Contexts \ {m} : /\ parent'[c] = parent[c] /\ derived'[c] = derived[c]
                                    /\ event'[c] = event[c] /\ values'[c] = values[c]
      /\ parent'[m] = p /\ derived'[m] /\ event'[m] = event[p] /\ values[p] \subseteq values'[m]
  BY <1>1, <1>2 DEF ContextInv, Shapes
<1>4. \A c \in RunContext!Contexts : parent[c] # m BY <1>2 DEF ContextInv, Shapes
<1>5. \A c \in RunContext!Contexts : parent[c] # RunContext!NoContext =>
        parent[c] \in RunContext!Contexts
  BY <1>2 DEF ContextInv, Shapes
<1>6. \A c \in RunContext!Contexts : children[c] \subseteq 1..made BY DEF ContextInv, Shapes
<1>7. Shapes'
  <2>1. /\ parent' \in [RunContext!Contexts -> 0..made']
        /\ derived' \in [RunContext!Contexts -> BOOLEAN]
    BY <1>1, <1>2 DEF ContextInv, Shapes
  <2>2. event' \in [RunContext!Contexts -> RunContext!Contexts] BY <1>1 DEF ContextInv, Shapes
  <2>3. values' \in [RunContext!Contexts -> SUBSET Keys] BY <1>1 DEF ContextInv, Shapes
  <2>4. children' \in [RunContext!Contexts -> SUBSET (1..made')]
    BY <1>1, <1>2 DEF ContextInv, Shapes
  <2>5. \A c \in RunContext!Contexts : c \notin 1..made' => parent'[c] = RunContext!NoContext
    BY <1>2, <1>3 DEF ContextInv, Shapes
  <2> QED BY <1>1, <1>2, <2>1, <2>2, <2>3, <2>4, <2>5 DEF ContextInv, Shapes
<1>8. Derivation'
  <2> SUFFICES ASSUME NEW c \in RunContext!Contexts
               PROVE  IF derived'[c]
                      THEN /\ c \in 1..made' /\ parent'[c] # RunContext!NoContext
                           /\ event'[c] = event'[parent'[c]]
                           /\ values'[parent'[c]] \subseteq values'[c]
                      ELSE event'[c] = c
    BY DEF Derivation
  <2>1. CASE c = m BY <1>2, <1>3, <2>1
  <2>2. CASE c # m BY <1>2, <1>3, <1>4, <1>5, <2>2 DEF ContextInv, Derivation
  <2> QED BY <2>1, <2>2
<1>9. RunsOnly'
  <2> SUFFICES ASSUME NEW c \in RunContext!Contexts, NEW d \in children[c] PROVE ~derived'[d]
    BY <1>1 DEF RunsOnly
  <2>1. d \in RunContext!Contexts \ {m} BY <1>2, <1>6
  <2> QED BY <1>3, <2>1 DEF ContextInv, RunsOnly
<1>10. Registered'
  <2> SUFFICES ASSUME NEW c \in 1..made', parent'[c] # RunContext!NoContext, ~derived'[c],
                          ~derived'[parent'[c]]
               PROVE  \/ event'[c] \in isSet
                      \/ c \in children[parent'[c]] /\ event'[parent'[c]] \notin isSet
    BY <1>1 DEF Registered, RunContext!cancelled
  <2>1. c # m BY <1>3
  <2>2. c \in 1..made /\ c \in RunContext!Contexts \ {m} BY <1>2, <2>1
  <2>3. parent'[c] = parent[c] /\ parent[c] \in RunContext!Contexts \ {m} BY <1>3, <1>4, <1>5, <2>2
  <2>4. ~derived[c] /\ ~derived[parent[c]] /\ event'[c] = event[c]
        /\ event'[parent[c]] = event[parent[c]]
    BY <1>3, <2>2, <2>3
  <2> QED BY <2>2, <2>3, <2>4 DEF ContextInv, Registered, RunContext!cancelled
<1> QED BY <1>7, <1>8, <1>9, <1>10 DEF ContextInv

\* A cancel takes along the runs registered with what it reaches.
LEMMA CancelKeeps ==
  ASSUME RunContext!RunContextAssumption, ContextInv, NEW c \in RunContext!Contexts,
         RunContext!cancel(c)
  PROVE  ContextInv'
<1>1. /\ ~derived[c] /\ isSet' = isSet \cup {event[d] : d \in RunContext!Reached(c)}
      /\ UNCHANGED <<made, parent, derived, event, children, values>>
  BY DEF RunContext!cancel
<1>2. RunContext!Reached(c) \subseteq RunContext!Contexts BY DEF RunContext!Reached
<1>3. \A d \in RunContext!Reached(c) : event[d] = d
  BY <1>1, <1>2, ReachedRuns DEF ContextInv, Derivation
<1>4. isSet' = isSet \cup RunContext!Reached(c) BY <1>1, <1>3
<1>5. Shapes' BY <1>1, <1>2, <1>4 DEF ContextInv, Shapes
<1>6. Derivation' /\ RunsOnly' BY <1>1 DEF ContextInv, Derivation, RunsOnly
<1>7. Registered'
  <2> SUFFICES ASSUME NEW x \in 1..made, parent[x] # RunContext!NoContext, ~derived[x],
                          ~derived[parent[x]],
                      event[x] \notin isSet'
               PROVE  x \in children[parent[x]] /\ event[parent[x]] \notin isSet'
    BY <1>1 DEF Registered, RunContext!cancelled
  <2>1. ~RunContext!cancelled(x) BY <1>4 DEF RunContext!cancelled
  <2>2. x \in children[parent[x]] /\ event[parent[x]] \notin isSet
    BY <2>1 DEF ContextInv, Registered, RunContext!cancelled
  <2>3. made \in 0..MaxContexts /\ x \in RunContext!Contexts
    BY ContextNumbers DEF ContextInv, Shapes
  <2>4. parent[x] \in RunContext!Contexts BY <2>3, ContextNumbers DEF ContextInv, Shapes
  <2>5. event[parent[x]] = parent[x] /\ event[x] = x
    BY <2>3, <2>4 DEF ContextInv, Derivation
  <2>6. parent[x] \notin RunContext!Reached(c)
    <3> SUFFICES ASSUME parent[x] \in RunContext!Reached(c) PROVE FALSE
      OBVIOUS
    <3>1. x \in RunContext!Reached(c) BY <2>1, <2>2, ReachedFollows DEF ContextInv
    <3> QED BY <1>4, <2>5, <3>1
  <2> QED BY <1>4, <2>2, <2>5, <2>6
<1> QED BY <1>5, <1>6, <1>7 DEF ContextInv

\* Every step of the tree keeps the invariant.
LEMMA ContextStep ==
  ASSUME RunContext!RunContextAssumption
  PROVE  ContextInv /\ [RunContext!Next]_RunContext!vars => ContextInv'
<1> SUFFICES ASSUME ContextInv, [RunContext!Next]_RunContext!vars PROVE ContextInv'
  OBVIOUS
<1>1. CASE RunContext!NewRoot BY <1>1, RootKeeps
<1>2. ASSUME NEW p \in RunContext!Contexts, RunContext!NewChild(p) PROVE ContextInv'
  BY <1>2, ChildKeeps
<1>3. ASSUME NEW c \in RunContext!Contexts, RunContext!cancel(c) PROVE ContextInv'
  BY <1>3, CancelKeeps
<1>4. ASSUME NEW p \in RunContext!Contexts, NEW key \in Keys, RunContext!with_value(p, key)
      PROVE  ContextInv'
  BY <1>4, DerivedKeeps
<1>5. CASE UNCHANGED RunContext!vars
  BY <1>5 DEF RunContext!vars, ContextInv, Shapes, Derivation, RunsOnly, Registered,
    RunContext!cancelled
<1> QED BY <1>1, <1>2, <1>3, <1>4, <1>5 DEF RunContext!Next, RunContext!Done

\* What the invariant says of a cancel.
LEMMA ContextPromise ==
  ASSUME RunContext!RunContextAssumption, ContextInv
  PROVE  RunContext!CancellationFollowsTheRun
<1>1. made \in 0..MaxContexts BY DEF ContextInv, Shapes
<1>2. 1..made \subseteq RunContext!Contexts BY <1>1, ContextNumbers
<1>3. RunContext!CallerStopsRun BY DEF RunContext!CallerStopsRun, ContextInv, Registered
<1>4. RunContext!ActionIsItsRun
  BY <1>2 DEF RunContext!ActionIsItsRun, ContextInv, Derivation, RunContext!cancelled
<1>5. RunContext!ValuesAreKept BY <1>2 DEF RunContext!ValuesAreKept, ContextInv, Derivation
<1>6. RunContext!NoActionIsHeld BY <1>2 DEF RunContext!NoActionIsHeld, ContextInv, RunsOnly
<1> QED BY <1>3, <1>4, <1>5, <1>6 DEF RunContext!CancellationFollowsTheRun

\* In every behaviour of any number of contexts a cancel stops the runs of the
\* caller and the actions of the run, and what an outer context carries is found
\* on what is derived from it.
THEOREM CancellationAlwaysFollows ==
  ASSUME RunContext!RunContextAssumption
  PROVE  RunContext!Spec => []RunContext!CancellationFollowsTheRun
BY ContextInit, ContextStep, ContextPromise, PTL DEF RunContext!Spec

-----------------------------------------------------------------------------
(* The reply of a provider.                                                *)

\* The first n fragments of call i, and the first d calls of the reply.
Input(i, n) == [k \in 1..n |-> <<i, k>>]
CallOf(i, n) == [id |-> i, input |-> Input(i, n)]
CallsTo(d) == [i \in 1..d |-> CallOf(i, reply.calls[i])]

CallParts == [id : Nat, input : Seq(Nat \X Nat)]

\* What is sent is part of the reply.
SentOK ==
  /\ sent \in [content : Nat, reasoning : Nat, calls : [ModelStream!Indices -> Nat]]
  /\ got \in [content : Nat, reasoning : Nat, refusal : BOOLEAN, sawChoice : BOOLEAN,
              builders : [ModelStream!Indices -> CallParts], calls : Seq(CallParts)]
  /\ current \in CallParts /\ block \in Nat
  /\ got.content = sent.content /\ handed.content = sent.content
  /\ got.reasoning = sent.reasoning /\ handed.reasoning = sent.reasoning
  /\ handed \in [content : Nat, reasoning : Nat]
  /\ \A i \in ModelStream!Indices : IF i <= Len(reply.calls) THEN sent.calls[i] <= reply.calls[i]
                        ELSE sent.calls[i] = 0

\* OpenAI: a builder has what was sent of its call, and the calls were begun in order.
BuildersFollow ==
  /\ \A i \in ModelStream!Indices : got.builders[i] = IF sent.calls[i] = 0 THEN ModelStream!NoCall ELSE CallOf(i, sent.calls[i])
  /\ \A i \in ModelStream!Indices : i > 1 /\ sent.calls[i] > 0 => sent.calls[i - 1] > 0

\* Claude: d calls are complete, and the open block is that of the next.
BlocksFollow(d) ==
  /\ got.calls = CallsTo(d)
  /\ \A i \in ModelStream!Indices : /\ i <= d => sent.calls[i] = reply.calls[i]
                                    /\ i > d /\ i # block => sent.calls[i] = 0
  /\ IF block = 0 THEN current = ModelStream!NoCall
     ELSE block = d + 1 /\ block <= Len(reply.calls) /\ current = CallOf(block, sent.calls[block])

StreamInv ==
  /\ reply \in ModelStream!Replies /\ SentOK
  /\ ended.kind \in {"idle", "streaming", "response", "error", "cancelled"}
  /\ ModelStream!Streaming => loaded
  /\ ModelStream!Streaming /\ Provider = "openai" => BuildersFollow /\ block = 0
  /\ ModelStream!Streaming /\ Provider = "claude" => \E d \in 0..Len(reply.calls) : BlocksFollow(d)
  /\ ModelStream!ResponseIsTheReply /\ ModelStream!ChunksAreTheResponse

\* What a reply consists of.
LEMMA ReplyFacts ==
  ASSUME ModelStream!ModelStreamAssumption, NEW r \in ModelStream!Replies
  PROVE  /\ r.content \in Nat /\ r.reasoning \in Nat /\ r.calls \in Seq(1..MaxFragments)
         /\ Len(r.calls) \in 0..MaxReplyCalls /\ DOMAIN r.calls = 1..Len(r.calls)
         /\ \A i \in 1..Len(r.calls) : i \in ModelStream!Indices /\ r.calls[i] \in Nat \ {0}
<1>1. PICK n \in 0..MaxReplyCalls : r.calls \in [1..n -> 1..MaxFragments] BY DEF ModelStream!Replies
<1>2. n \in Nat /\ r.calls \in Seq(1..MaxFragments) /\ Len(r.calls) = n
  BY <1>1 DEF ModelStream!ModelStreamAssumption
<1>3. r.content \in Nat /\ r.reasoning \in Nat BY DEF ModelStream!Replies,
        ModelStream!ModelStreamAssumption
<1> QED BY <1>1, <1>2, <1>3 DEF ModelStream!Indices, ModelStream!ModelStreamAssumption

\* The arguments of a call, fragment by fragment.
LEMMA InputFacts ==
  ASSUME NEW i \in Nat, NEW n \in Nat
  PROVE  /\ Input(i, n) \in Seq(Nat \X Nat) /\ CallOf(i, n) \in CallParts
         /\ Append(Input(i, n), <<i, n + 1>>) = Input(i, n + 1) /\ Input(i, 0) = <<>>
         /\ CallOf(i, n).id = i /\ CallOf(i, n).input = Input(i, n)
<1>1. Input(i, n) \in Seq(Nat \X Nat) /\ Len(Input(i, n)) = n BY DEF Input
<1>2. Append(Input(i, n), <<i, n + 1>>) = Input(i, n + 1)
  BY <1>1 DEF Input
<1> QED BY <1>1, <1>2 DEF CallOf, CallParts, Input

\* A call that has begun is not the empty one.
LEMMA NoCallIs ==
  /\ ModelStream!NoCall \in CallParts
  /\ \A i \in Nat \ {0} : \A n \in Nat : CallOf(i, n) # ModelStream!NoCall
BY DEF ModelStream!NoCall, CallParts, CallOf

\* At the start nothing is sent.
LEMMA StreamInit == ModelStream!ModelStreamAssumption /\ ModelStream!Init => StreamInv
<1> SUFFICES ASSUME ModelStream!ModelStreamAssumption, ModelStream!Init PROVE StreamInv OBVIOUS
<1>1. reply \in ModelStream!Replies /\ ended.kind = "idle" BY DEF ModelStream!Init
<1>2. SentOK
  <2>1. \A i \in ModelStream!Indices : sent.calls[i] = 0 BY DEF ModelStream!Init,
          ModelStream!NothingSent
  <2>2. sent \in [content : Nat, reasoning : Nat,
          calls : [ModelStream!Indices -> Nat]] BY DEF ModelStream!Init, ModelStream!NothingSent
  <2>3. got \in [content : Nat, reasoning : Nat, refusal : BOOLEAN, sawChoice : BOOLEAN,
                 builders : [ModelStream!Indices -> CallParts], calls : Seq(CallParts)]
    BY NoCallIs DEF ModelStream!Init, ModelStream!NothingGot
  <2>4. \A i \in ModelStream!Indices : i <= Len(reply.calls) => sent.calls[i] <= reply.calls[i]
    BY <2>1, <1>1, ReplyFacts DEF ModelStream!Indices, ModelStream!ModelStreamAssumption
  <2> QED BY <2>1, <2>2, <2>3, <2>4, NoCallIs DEF SentOK, ModelStream!Init, ModelStream!NothingSent,
        ModelStream!NothingGot
<1> QED BY <1>1, <1>2 DEF StreamInv, ModelStream!Streaming, ModelStream!ResponseIsTheReply,
      ModelStream!ChunksAreTheResponse

\* A new request: nothing is sent, nothing is there.
LEMMA NextKeeps == ModelStream!ModelStreamAssumption /\ StreamInv /\ ModelStream!next => StreamInv'
<1> SUFFICES ASSUME ModelStream!ModelStreamAssumption, StreamInv, ModelStream!next
             PROVE  StreamInv' OBVIOUS
<1>6. /\ reply' \in ModelStream!Replies /\ sent' = ModelStream!NothingSent
      /\ got' = ModelStream!NothingGot /\ block' = 0
      /\ current' = ModelStream!NoCall /\ handed' = [content |-> 0, reasoning |-> 0]
  BY DEF ModelStream!next, StreamInv, ModelStream!FreshlyGot
<1>7. /\ ended'.kind \in {"streaming", "error"}
      /\ ended'.kind = "streaming" => loaded'
  <2>1. CASE loaded' = TRUE /\ ended' = [kind |-> "streaming"] BY <2>1
  <2>2. CASE ended' = [kind |-> "error"] BY <2>2
  <2> QED BY <2>1, <2>2 DEF ModelStream!next
<1>1. /\ reply' \in ModelStream!Replies /\ ended'.kind \in {"streaming", "error"}
      /\ ended'.kind = "streaming" => loaded'
      /\ sent' = ModelStream!NothingSent /\ got' = ModelStream!NothingGot /\ block' = 0
      /\ current' = ModelStream!NoCall
      /\ handed' = [content |-> 0, reasoning |-> 0]
  BY <1>6, <1>7
<1>0. \A i \in ModelStream!Indices : sent'.calls[i] = 0 /\ got'.builders[i] = ModelStream!NoCall
  BY <1>1 DEF ModelStream!NothingSent, ModelStream!NothingGot
<1>2. SentOK'
  <2>2. sent' \in [content : Nat, reasoning : Nat,
          calls : [ModelStream!Indices -> Nat]] BY <1>1 DEF ModelStream!NothingSent
  <2>3. got' \in [content : Nat, reasoning : Nat, refusal : BOOLEAN, sawChoice : BOOLEAN,
                 builders : [ModelStream!Indices -> CallParts], calls : Seq(CallParts)]
    BY <1>1, NoCallIs DEF ModelStream!NothingGot
  <2>4. \A i \in ModelStream!Indices : i <= Len(reply'.calls) => sent'.calls[i] <= reply'.calls[i]
    BY <1>0, <1>1, ReplyFacts DEF ModelStream!Indices, ModelStream!ModelStreamAssumption
  <2> QED BY <1>0, <1>1, <2>2, <2>3, <2>4, NoCallIs DEF SentOK, ModelStream!NothingSent,
        ModelStream!NothingGot
<1>3. BuildersFollow' BY <1>0, <1>1 DEF BuildersFollow, ModelStream!Indices,
        ModelStream!ModelStreamAssumption
<1>4. BlocksFollow(0)'
  <2>1. CallsTo(0)' = <<>> BY DEF CallsTo
  <2>2. got'.calls = <<>> BY <1>1 DEF ModelStream!NothingGot
  <2> QED BY <1>0, <1>1, <2>1, <2>2 DEF BlocksFollow, ModelStream!Indices,
        ModelStream!ModelStreamAssumption
<1>5. 0 \in 0..Len(reply'.calls) BY <1>1, ReplyFacts
<1> QED BY <1>1, <1>2, <1>3, <1>4, <1>5
  DEF StreamInv, ModelStream!Streaming, ModelStream!ResponseIsTheReply,
    ModelStream!ChunksAreTheResponse

\* While the reply streams: what is left to show of a step.
StreamGoesOn ==
  /\ SentOK'
  /\ Provider = "openai" => BuildersFollow' /\ block' = 0
  /\ Provider = "claude" => \E d \in 0..Len(reply.calls) : BlocksFollow(d)'

\* While the stream goes on, its part of the invariant is enough.
LEMMA GoesOn ==
  ASSUME StreamInv, ModelStream!Streaming, StreamGoesOn, UNCHANGED <<reply, loaded, ended>>
  PROVE  StreamInv'
BY DEF StreamInv, ModelStream!Streaming, StreamGoesOn, ModelStream!ResponseIsTheReply,
  ModelStream!ChunksAreTheResponse

\* A chunk of text or reasoning arrives.
LEMMA TextDeltaKeeps ==
  ModelStream!ModelStreamAssumption /\ StreamInv /\ ModelStream!TextDelta => StreamInv'
<1> SUFFICES ASSUME ModelStream!ModelStreamAssumption, StreamInv, ModelStream!TextDelta
             PROVE  StreamInv' OBVIOUS
<1>1. PICK c \in 0..1, r \in 0..1 :
         /\ sent' = [sent EXCEPT !.content = @ + c, !.reasoning = @ + r]
         /\ got' = [got EXCEPT !.content = @ + c, !.reasoning = @ + r, !.sawChoice = TRUE]
         /\ handed' = ModelStream!HandOver(c, r)
  BY DEF ModelStream!TextDelta
<1>2. /\ UNCHANGED <<reply, loaded, ended, block, current>> /\ ModelStream!Streaming
      /\ block = 0 BY DEF ModelStream!TextDelta
<1>3. SentOK BY DEF StreamInv
<1>4. /\ sent' = [content |-> sent.content + c, reasoning |-> sent.reasoning + r,
           calls |-> sent.calls]
  BY <1>1, <1>3 DEF SentOK
<1>5. got' = [content |-> got.content + c, reasoning |-> got.reasoning + r, refusal |-> got.refusal,
              sawChoice |-> TRUE, builders |-> got.builders, calls |-> got.calls]
  BY <1>1, <1>3 DEF SentOK
<1>6. SentOK'
  <2>1. handed' = [content |-> handed.content + c, reasoning |-> handed.reasoning + r]
    BY <1>1 DEF ModelStream!HandOver
  <2>2. sent' \in [content : Nat, reasoning : Nat, calls : [ModelStream!Indices -> Nat]]
    BY <1>3, <1>4 DEF SentOK
  <2>3. got' \in [content : Nat, reasoning : Nat, refusal : BOOLEAN, sawChoice : BOOLEAN,
                  builders : [ModelStream!Indices -> CallParts], calls : Seq(CallParts)]
    BY <1>3, <1>5 DEF SentOK
  <2>4. sent'.calls = sent.calls /\ reply' = reply BY <1>2, <1>4
  <2> QED BY <1>2, <1>3, <1>4, <1>5, <2>1, <2>2, <2>3, <2>4 DEF SentOK
<1>7. BuildersFollow => BuildersFollow' BY <1>2, <1>4, <1>5 DEF BuildersFollow
<1>8. \A d : BlocksFollow(d) => BlocksFollow(d)' BY <1>2, <1>4, <1>5 DEF BlocksFollow, CallsTo
<1>9. StreamGoesOn BY <1>2, <1>6, <1>7, <1>8 DEF StreamGoesOn, StreamInv
<1> QED BY <1>2, <1>9, GoesOn

\* A refusal arrives.
LEMMA RefusalKeeps == StreamInv /\ ModelStream!Refusal => StreamInv'
<1> SUFFICES ASSUME StreamInv, ModelStream!Refusal PROVE StreamInv' OBVIOUS
<1>1. /\ UNCHANGED <<ModelStream!provider, current, handed, loaded, ended>>
      /\ ModelStream!Streaming /\ Provider = "openai"
      /\ got' = [got EXCEPT !.refusal = TRUE, !.sawChoice = TRUE] /\ SentOK
      /\ BuildersFollow /\ block = 0
  BY DEF ModelStream!Refusal, StreamInv
<1>2. got' = [content |-> got.content, reasoning |-> got.reasoning, refusal |-> TRUE,
              sawChoice |-> TRUE, builders |-> got.builders, calls |-> got.calls]
  BY <1>1 DEF SentOK
<1>3. SentOK' BY <1>1, <1>2 DEF SentOK, ModelStream!provider
<1>4. BuildersFollow' BY <1>1, <1>2 DEF BuildersFollow, ModelStream!provider
<1>5. StreamGoesOn BY <1>1, <1>3, <1>4 DEF StreamGoesOn, ModelStream!provider
<1> QED BY <1>1, <1>5, GoesOn DEF ModelStream!provider

\* OpenAI: a fragment goes to the builder of its index.
LEMMA ToolCallDeltaKeeps ==
  ASSUME ModelStream!ModelStreamAssumption, StreamInv, NEW i \in ModelStream!Indices,
         ModelStream!ToolCallDelta(i)
  PROVE  StreamInv'
<1>1. /\ UNCHANGED <<reply, block, current, handed, loaded, ended>> /\ ModelStream!Streaming
      /\ Provider = "openai"
      /\ SentOK /\ BuildersFollow /\ block = 0 /\ ModelStream!Sends(i)
      /\ reply \in ModelStream!Replies
  BY DEF ModelStream!ToolCallDelta, StreamInv
<1>2. /\ i \in Nat \ {0} /\ i <= Len(reply.calls) /\ sent.calls[i] < reply.calls[i]
      /\ sent.calls[i] \in Nat
      /\ (i > 1 => sent.calls[i - 1] > 0)
  BY <1>1 DEF ModelStream!Sends, ModelStream!Indices, ModelStream!ModelStreamAssumption, SentOK
<1> DEFINE n == sent.calls[i]
           new == [id |-> IF n = 0 THEN i ELSE got.builders[i].id,
                   input |-> Append(got.builders[i].input, <<i, n + 1>>)]
<1>3. sent' = [content |-> sent.content, reasoning |-> sent.reasoning,
               calls |-> [sent.calls EXCEPT ![i] = n + 1]]
  BY <1>1 DEF ModelStream!Sends, SentOK
<1>4. got' = [content |-> got.content, reasoning |-> got.reasoning, refusal |-> got.refusal,
              sawChoice |-> TRUE, builders |-> [got.builders EXCEPT ![i] = new],
                calls |-> got.calls]
  <2>1. got' = [got EXCEPT !.sawChoice = TRUE, !.builders[i] = new]
    BY DEF ModelStream!ToolCallDelta, ModelStream!Builder, ModelStream!Fragment
  <2> HIDE DEF new
  <2> QED BY <2>1, <1>1 DEF SentOK
<1>12. i \in Nat /\ n \in Nat BY <1>2
<1>13. \A k \in Nat : /\ Append(Input(i, k), <<i, k + 1>>) = Input(i, k + 1) /\ Input(i, 0) = <<>>
                     /\ CallOf(i, k).id = i /\ CallOf(i, k).input = Input(i, k)
                     /\ CallOf(i, k) \in CallParts
  BY <1>12, InputFacts
<1>5. new = CallOf(i, n + 1)
  <2>1. CASE n = 0
    <3>1. got.builders[i] = ModelStream!NoCall BY <1>1, <2>1 DEF BuildersFollow
    <3>2. new.input = Append(<<>>, <<i, 1>>) BY <2>1, <3>1 DEF ModelStream!NoCall
    <3>3. Append(<<>>, <<i, 1>>) = Input(i, 1)
      <4>1. Append(Input(i, 0), <<i, 0 + 1>>) = Input(i, 0 + 1) /\ Input(i, 0) = <<>> BY <1>13
      <4>2. 0 + 1 = 1 OBVIOUS
      <4> QED BY <4>1, <4>2, Zenon
    <3>4. new.id = i /\ n + 1 = 1 BY <2>1
    <3> QED BY <3>2, <3>3, <3>4 DEF CallOf
  <2>2. CASE n # 0
    <3>1. got.builders[i] = CallOf(i, n) BY <1>1, <2>2 DEF BuildersFollow
    <3>2. got.builders[i].id = i /\ got.builders[i].input = Input(i, n) BY <3>1, <1>12, <1>13
    <3>3. Append(Input(i, n), <<i, n + 1>>) = Input(i, n + 1) BY <1>12, <1>13
    <3> QED BY <2>2, <3>2, <3>3 DEF CallOf
  <2> QED BY <2>1, <2>2
<1>6. new \in CallParts
  <2>1. n + 1 \in Nat BY <1>12
  <2> HIDE DEF n
  <2> QED BY <2>1, <1>5, <1>13
<1> HIDE DEF new
<1>7. /\ sent'.calls = [sent.calls EXCEPT ![i] = n + 1] /\ sent'.content = sent.content
      /\ sent'.reasoning = sent.reasoning
  BY <1>3
<1>8. got'.builders = [got.builders EXCEPT ![i] = new] BY <1>4
<1>9. SentOK'
  <2>1. \A j \in ModelStream!Indices : IF j <= Len(reply.calls) THEN sent'.calls[j] <= reply.calls[j]
                           ELSE sent'.calls[j] = 0
    <3> SUFFICES ASSUME NEW j \in ModelStream!Indices
                 PROVE  IF j <= Len(reply.calls) THEN sent'.calls[j] <= reply.calls[j]
                        ELSE sent'.calls[j] = 0
      OBVIOUS
    <3>0. sent.calls \in [ModelStream!Indices -> Nat] BY <1>1 DEF SentOK
    <3>1. CASE j = i
      <4>1. sent'.calls[j] = n + 1 BY <3>1, <3>0, <1>7
      <4>2. reply.calls[i] \in Nat BY <1>1, <1>2, ReplyFacts
      <4> QED BY <3>1, <4>1, <4>2, <1>2
    <3>2. CASE j # i
      <4>1. sent'.calls[j] = sent.calls[j] BY <3>2, <3>0, <1>7
      <4> QED BY <4>1, <1>1 DEF SentOK
    <3> QED BY <3>1, <3>2
  <2>2. sent' \in [content : Nat, reasoning : Nat, calls : [ModelStream!Indices -> Nat]]
    BY <1>1, <1>2, <1>3 DEF SentOK
  <2>3. got' \in [content : Nat, reasoning : Nat, refusal : BOOLEAN, sawChoice : BOOLEAN,
                  builders : [ModelStream!Indices -> CallParts], calls : Seq(CallParts)]
    BY <1>1, <1>4, <1>6 DEF SentOK
  <2> QED BY <1>1, <1>3, <1>4, <2>1, <2>2, <2>3 DEF SentOK
<1>10. BuildersFollow'
  <2>1. \A j \in ModelStream!Indices : got'.builders[j] = IF sent'.calls[j] = 0 THEN ModelStream!NoCall ELSE CallOf(j, sent'.calls[j])
    <3> SUFFICES ASSUME NEW j \in ModelStream!Indices
                 PROVE  got'.builders[j] = IF sent'.calls[j] = 0 THEN ModelStream!NoCall ELSE CallOf(j, sent'.calls[j])
      OBVIOUS
    <3>0. /\ sent.calls \in [ModelStream!Indices -> Nat]
          /\ got.builders \in [ModelStream!Indices -> CallParts]
      BY <1>1 DEF SentOK
    <3>1. CASE j = i
      <4>1. sent'.calls[j] = n + 1 /\ got'.builders[j] = new BY <3>0, <3>1, <1>7, <1>8
      <4>2. n + 1 # 0 BY <1>12
      <4> QED BY <3>1, <4>1, <4>2, <1>5
    <3>2. CASE j # i
      <4>1. sent'.calls[j] = sent.calls[j] /\ got'.builders[j] = got.builders[j]
        BY <3>0, <3>2, <1>7, <1>8
      <4> QED BY <4>1, <1>1 DEF BuildersFollow
    <3> QED BY <3>1, <3>2
  <2>2. \A j \in ModelStream!Indices : j > 1 /\ sent'.calls[j] > 0 => sent'.calls[j - 1] > 0
    <3> SUFFICES ASSUME NEW j \in ModelStream!Indices, j > 1, sent'.calls[j] > 0
                 PROVE  sent'.calls[j - 1] > 0
      OBVIOUS
    <3>1. j \in Nat /\ j - 1 \in ModelStream!Indices BY DEF ModelStream!Indices,
            ModelStream!ModelStreamAssumption
    <3>2. \A k \in ModelStream!Indices : sent'.calls[k] = (IF k = i THEN n + 1 ELSE sent.calls[k])
      BY <1>1, <1>7 DEF SentOK
    <3>3. sent.calls[j - 1] > 0 BY <1>1, <1>2, <3>1, <3>2 DEF BuildersFollow
    <3> QED BY <1>2, <3>1, <3>2, <3>3
  <2> QED BY <2>1, <2>2 DEF BuildersFollow
<1>11. StreamGoesOn BY <1>1, <1>9, <1>10 DEF StreamGoesOn
<1> QED BY <1>1, <1>11, GoesOn

\* Claude: a block opens only when the one before is complete.
LEMMA ContentBlockStartKeeps ==
  ASSUME ModelStream!ModelStreamAssumption, StreamInv, NEW i \in ModelStream!Indices,
         ModelStream!ContentBlockStart(i)
  PROVE  StreamInv'
<1>1. /\ UNCHANGED <<reply, sent, got, handed, loaded, ended>> /\ ModelStream!Streaming
      /\ Provider = "claude"
      /\ SentOK /\ block = 0 /\ reply \in ModelStream!Replies /\ i <= Len(reply.calls)
      /\ sent.calls[i] = 0
      /\ (i > 1 => sent.calls[i - 1] = reply.calls[i - 1]) /\ block' = i
      /\ current' = [current EXCEPT !.id = i]
  BY DEF ModelStream!ContentBlockStart, StreamInv
<1>2. PICK d \in 0..Len(reply.calls) : BlocksFollow(d) BY <1>1 DEF StreamInv
<1>3. i \in Nat \ {0} /\ d \in Nat /\ current = ModelStream!NoCall
  BY <1>1, <1>2, ReplyFacts DEF ModelStream!Indices, ModelStream!ModelStreamAssumption, BlocksFollow
<1>4. i = d + 1
  <2>1. \A j \in 1..Len(reply.calls) : j \in ModelStream!Indices /\ reply.calls[j] # 0 BY <1>1,
          ReplyFacts
  <2>2. ~(i <= d)
    <3> SUFFICES ASSUME i <= d PROVE FALSE OBVIOUS
    <3>1. sent.calls[i] = reply.calls[i] BY <1>2 DEF BlocksFollow
    <3>2. i \in 1..Len(reply.calls) BY <1>1, <1>3, ReplyFacts
    <3> QED BY <1>1, <2>1, <3>1, <3>2
  <2>3. CASE i > d + 1
    <3>1. i - 1 \in 1..Len(reply.calls) /\ i - 1 > d /\ i - 1 # 0 BY <1>1, <1>3, <2>3, ReplyFacts
    <3>2. sent.calls[i - 1] = 0 BY <1>1, <1>2, <2>1, <3>1 DEF BlocksFollow
    <3> QED BY <1>1, <1>3, <2>1, <2>3, <3>1, <3>2
  <2> QED BY <1>3, <2>2, <2>3
<1>5. current' = CallOf(i, sent.calls[i])
  <2>1. current' = [id |-> i, input |-> <<>>] BY <1>1, <1>3 DEF ModelStream!NoCall
  <2>2. Input(i, 0) = <<>> BY <1>3, InputFacts
  <2> QED BY <1>1, <2>1, <2>2 DEF CallOf
<1>6. current' \in CallParts
  <2>1. CallOf(i, 0) \in CallParts BY <1>3, InputFacts
  <2> QED BY <1>1, <1>5, <2>1
<1>7. SentOK' BY <1>1, <1>3, <1>6 DEF SentOK
<1>8. BlocksFollow(d)' BY <1>1, <1>2, <1>3, <1>4, <1>5 DEF BlocksFollow, CallsTo
<1>9. StreamGoesOn BY <1>1, <1>2, <1>7, <1>8 DEF StreamGoesOn
<1> QED BY <1>1, <1>9, GoesOn

\* Claude: a fragment goes to the open block.
LEMMA InputJSONDeltaKeeps ==
  ASSUME ModelStream!ModelStreamAssumption, StreamInv, NEW i \in ModelStream!Indices,
         ModelStream!InputJSONDelta(i)
  PROVE  StreamInv'
<1>1. /\ UNCHANGED <<reply, block, got, handed, loaded, ended>> /\ ModelStream!Streaming
      /\ Provider = "claude"
      /\ SentOK /\ block = i /\ reply \in ModelStream!Replies /\ ModelStream!Sends(i)
      /\ current' = [current EXCEPT !.input = Append(@, ModelStream!Fragment(i))]
  BY DEF ModelStream!InputJSONDelta, StreamInv
<1>2. PICK d \in 0..Len(reply.calls) : BlocksFollow(d) BY <1>1 DEF StreamInv
<1>3. /\ i \in Nat \ {0} /\ d \in Nat /\ i = d + 1 /\ i <= Len(reply.calls)
      /\ sent.calls[i] < reply.calls[i]
      /\ current = CallOf(i, sent.calls[i]) /\ reply.calls[i] \in Nat
  BY <1>1, <1>2, ReplyFacts DEF ModelStream!Indices, ModelStream!ModelStreamAssumption,
    BlocksFollow, ModelStream!Sends
<1> DEFINE n == sent.calls[i]
<1>4. n \in Nat /\ sent.calls \in [ModelStream!Indices -> Nat] BY <1>1 DEF SentOK
<1>5. sent' = [content |-> sent.content, reasoning |-> sent.reasoning,
               calls |-> [sent.calls EXCEPT ![i] = n + 1]]
  BY <1>1 DEF ModelStream!Sends, SentOK
<1>6. \A j \in ModelStream!Indices : sent'.calls[j] = (IF j = i THEN n + 1 ELSE sent.calls[j])
  BY <1>4, <1>5
<1>7. current' = CallOf(i, n + 1) /\ CallOf(i, n + 1) \in CallParts
  <2>1. current' = [id |-> i, input |-> Append(Input(i, n), <<i, n + 1>>)]
    BY <1>1, <1>3 DEF CallOf, ModelStream!Fragment
  <2>2. n + 1 \in Nat BY <1>4
  <2> HIDE DEF n
  <2>3. Append(Input(i, n), <<i, n + 1>>) = Input(i, n + 1) BY <1>3, <1>4, InputFacts
  <2>4. CallOf(i, n + 1) \in CallParts BY <1>3, <2>2, InputFacts
  <2> QED BY <2>1, <2>3, <2>4 DEF CallOf
<1>8. SentOK'
  <2>1. \A j \in ModelStream!Indices : IF j <= Len(reply.calls) THEN sent'.calls[j] <= reply.calls[j]
                           ELSE sent'.calls[j] = 0
    <3> SUFFICES ASSUME NEW j \in ModelStream!Indices
                 PROVE  IF j <= Len(reply.calls) THEN sent'.calls[j] <= reply.calls[j]
                        ELSE sent'.calls[j] = 0
      OBVIOUS
    <3>1. CASE j = i
      <4>1. sent'.calls[j] = n + 1 BY <3>1, <1>6
      <4> QED BY <3>1, <4>1, <1>3, <1>4
    <3>2. CASE j # i
      <4>1. sent'.calls[j] = sent.calls[j] BY <3>2, <1>6
      <4> QED BY <4>1, <1>1 DEF SentOK
    <3> QED BY <3>1, <3>2
  <2>2. sent' \in [content : Nat, reasoning : Nat, calls : [ModelStream!Indices -> Nat]]
    BY <1>1, <1>4, <1>5 DEF SentOK
  <2>3. sent'.content = sent.content /\ sent'.reasoning = sent.reasoning BY <1>5
  <2> QED BY <1>1, <1>7, <2>1, <2>2, <2>3 DEF SentOK
<1>9. BlocksFollow(d)'
  <2>1. got'.calls = CallsTo(d) /\ CallsTo(d)' = CallsTo(d) BY <1>1, <1>2 DEF BlocksFollow, CallsTo
  <2>2. sent'.calls[i] = n + 1 BY <1>6
  <2>3. \A j \in ModelStream!Indices : /\ j <= d => sent'.calls[j] = reply.calls[j]
                                       /\ j > d /\ j # i => sent'.calls[j] = 0
    BY <1>1, <1>2, <1>3, <1>6 DEF BlocksFollow, ModelStream!Indices,
      ModelStream!ModelStreamAssumption
  <2> QED BY <1>1, <1>3, <1>7, <2>1, <2>2, <2>3 DEF BlocksFollow
<1>10. StreamGoesOn BY <1>1, <1>2, <1>8, <1>9 DEF StreamGoesOn
<1> QED BY <1>1, <1>10, GoesOn

\* Claude: the complete block becomes the next call.
LEMMA ContentBlockStopKeeps ==
  ASSUME ModelStream!ModelStreamAssumption, StreamInv, ModelStream!ContentBlockStop PROVE StreamInv'
<1>1. /\ UNCHANGED <<reply, sent, handed, loaded, ended>> /\ ModelStream!Streaming
      /\ Provider = "claude"
      /\ SentOK /\ block # 0 /\ reply \in ModelStream!Replies
      /\ sent.calls[block] = reply.calls[block]
      /\ got' = [got EXCEPT !.calls = Append(@, current)] /\ current' = ModelStream!NoCall
      /\ block' = 0
  BY DEF ModelStream!ContentBlockStop, StreamInv, ModelStream!AfterBlock
<1>2. PICK d \in 0..Len(reply.calls) : BlocksFollow(d) BY <1>1 DEF StreamInv
<1>3. /\ d \in Nat /\ block = d + 1 /\ block <= Len(reply.calls) /\ block \in ModelStream!Indices
      /\ current = CallOf(block, reply.calls[block]) /\ d + 1 \in 0..Len(reply.calls)
      /\ got.calls = CallsTo(d)
  BY <1>1, <1>2, ReplyFacts DEF BlocksFollow
<1>4. got' = [content |-> got.content, reasoning |-> got.reasoning, refusal |-> got.refusal,
              sawChoice |-> got.sawChoice, builders |-> got.builders,
              calls |-> Append(got.calls, current)]
  BY <1>1 DEF SentOK
<1>5. Append(CallsTo(d), current) = CallsTo(d + 1) BY <1>3 DEF CallsTo
<1>6. SentOK'
  <2>1. got' \in [content : Nat, reasoning : Nat, refusal : BOOLEAN, sawChoice : BOOLEAN,
                  builders : [ModelStream!Indices -> CallParts], calls : Seq(CallParts)]
    <3>1. got.calls \in Seq(CallParts) /\ current \in CallParts BY <1>1 DEF SentOK
    <3>2. Append(got.calls, current) \in Seq(CallParts) BY <3>1
    <3> QED BY <1>1, <1>4, <3>2 DEF SentOK
  <2>2. got'.content = got.content /\ got'.reasoning = got.reasoning BY <1>4
  <2> QED BY <1>1, <2>1, <2>2, NoCallIs DEF SentOK
<1>7. BlocksFollow(d + 1)'
  <2>1. got'.calls = CallsTo(d + 1) /\ CallsTo(d + 1)' = CallsTo(d + 1)
    BY <1>1, <1>3, <1>4, <1>5 DEF CallsTo
  <2>2. \A j \in ModelStream!Indices : /\ j <= d + 1 => sent.calls[j] = reply.calls[j]
                                       /\ j > d + 1 => sent.calls[j] = 0
    <3> SUFFICES ASSUME NEW j \in ModelStream!Indices
                 PROVE  /\ j <= d + 1 => sent.calls[j] = reply.calls[j]
                        /\ j > d + 1 => sent.calls[j] = 0
      OBVIOUS
    <3>1. /\ j <= d => sent.calls[j] = reply.calls[j]
          /\ j > d /\ j # d + 1 => sent.calls[j] = 0
      BY <1>2, <1>3 DEF BlocksFollow
    <3>2. j \in Nat /\ sent.calls[d + 1] = reply.calls[d + 1]
      BY <1>1, <1>3 DEF ModelStream!Indices, ModelStream!ModelStreamAssumption
    <3> QED BY <1>3, <3>1, <3>2
  <2> QED BY <1>1, <1>3, <2>1, <2>2 DEF BlocksFollow, ModelStream!Indices,
        ModelStream!ModelStreamAssumption
<1>8. StreamGoesOn BY <1>1, <1>3, <1>6, <1>7 DEF StreamGoesOn
<1> QED BY <1>1, <1>8, GoesOn

\* The places of the builders when all calls of the reply have been begun.
LEMMA BuiltInOrder ==
  ASSUME NEW k \in Nat, ModelStream!Begun = 1..k
  PROVE  /\ Cardinality(ModelStream!Begun) = k
         /\ \A n \in 1..k : (CHOOSE i \in ModelStream!Begun : ModelStream!Place(i) = n) = n
<1>1. \A i \in 0..k : Cardinality(1..i) = i
  <2> SUFFICES ASSUME NEW i \in 0..k PROVE Cardinality(1..i) = i OBVIOUS
  <2>1. Cardinality(1..i) = IF 1 > i THEN 0 ELSE i - 1 + 1 BY FS_Interval
  <2> QED BY <2>1
<1>2. \A i \in 1..k : ModelStream!Place(i) = i
  <2> SUFFICES ASSUME NEW i \in 1..k PROVE ModelStream!Place(i) = i OBVIOUS
  <2>1. {j \in ModelStream!Begun : j <= i} = 1..i OBVIOUS
  <2>2. i \in 0..k OBVIOUS
  <2>3. ModelStream!Place(i) = Cardinality(1..i) BY <2>1, CountsInstances, Zenon
  <2> QED BY <1>1, <2>2, <2>3
<1>3. \A n \in 1..k : (CHOOSE i \in ModelStream!Begun : ModelStream!Place(i) = n) = n
  <2> SUFFICES ASSUME NEW n \in 1..k
               PROVE  (CHOOSE i \in ModelStream!Begun : ModelStream!Place(i) = n) = n OBVIOUS
  <2>1. n \in ModelStream!Begun /\ ModelStream!Place(n) = n BY <1>2
  <2>2. \A i \in ModelStream!Begun : ModelStream!Place(i) = n => i = n BY <1>2
  <2> QED BY <2>1, <2>2
<1> QED BY <1>1, <1>3

\* What is made of the builders or the blocks of a complete reply is its calls.
LEMMA BuiltIsWhole ==
  ASSUME ModelStream!ModelStreamAssumption, StreamInv, ModelStream!Streaming, ModelStream!Complete
  PROVE  ModelStream!Built = CallsTo(Len(reply.calls))
<1> DEFINE k == Len(reply.calls)
<1>1. /\ reply \in ModelStream!Replies /\ SentOK /\ block = 0
      /\ \A i \in 1..k : sent.calls[i] = reply.calls[i]
  BY DEF StreamInv, ModelStream!Complete
<1>2. /\ k \in Nat /\ k <= MaxReplyCalls
      /\ \A i \in 1..k : i \in ModelStream!Indices /\ reply.calls[i] \in Nat \ {0}
  BY <1>1, ReplyFacts DEF ModelStream!ModelStreamAssumption
<1>3. CASE Provider = "openai"
  <2>1. BuildersFollow BY <1>3 DEF StreamInv
  <2>2. \A i \in 1..k : got.builders[i] = CallOf(i, reply.calls[i]) /\
          got.builders[i] # ModelStream!NoCall
    BY <1>1, <1>2, <2>1, NoCallIs DEF BuildersFollow
  <2>3. \A i \in ModelStream!Indices : ~(i <= k) => got.builders[i] = ModelStream!NoCall
    BY <1>1, <2>1 DEF BuildersFollow, SentOK
  <2>4. ModelStream!Begun = 1..k
    BY <1>2, <2>2, <2>3 DEF ModelStream!Begun, ModelStream!Indices,
      ModelStream!ModelStreamAssumption
  <2> HIDE DEF k
  <2>5. /\ Cardinality(ModelStream!Begun) = k
        /\ \A n \in 1..k : (CHOOSE i \in ModelStream!Begun : ModelStream!Place(i) = n) = n
    BY <1>2, <2>4, BuiltInOrder
  <2>6. ModelStream!Built = [n \in 1..k |-> got.builders[n]]
    <3>1. ModelStream!Built = [n \in 1..k |-> got.builders[CHOOSE i \in ModelStream!Begun : ModelStream!Place(i) = n]]
      <4>1. Provider # "claude" BY <1>3
      <4> QED BY <2>5, <4>1, CountsInstances, Zenon
    <3>2. \A n \in 1..k : got.builders[CHOOSE i \in ModelStream!Begun : ModelStream!Place(i) = n] = got.builders[n]
      BY <2>5, Zenon
    <3> HIDE DEF ModelStream!Place
    <3> DEFINE from(n) == CHOOSE i \in ModelStream!Begun : ModelStream!Place(i) = n
    <3>3. \A n \in 1..k : got.builders[from(n)] = got.builders[n] BY <3>2
    <3>4. ModelStream!Built = [n \in 1..k |-> got.builders[from(n)]] BY <3>1
    <3> HIDE DEF from
    <3> QED BY <3>3, <3>4
  <2> QED BY <2>2, <2>6 DEF CallsTo, k
<1>4. CASE Provider = "claude"
  <2>1. PICK d \in 0..k : BlocksFollow(d) BY <1>4 DEF StreamInv
  <2>2. ~(d < k)
    <3> SUFFICES ASSUME d < k PROVE FALSE OBVIOUS
    <3>1. d + 1 \in 1..k /\ d + 1 > d /\ d + 1 # 0 BY <1>2
    <3>2. sent.calls[d + 1] = 0 BY <1>1, <1>2, <2>1, <3>1 DEF BlocksFollow
    <3> QED BY <1>1, <1>2, <3>1, <3>2
  <2>3. d = k BY <1>2, <2>2
  <2> QED BY <1>4, <2>1, <2>3 DEF ModelStream!Built, BlocksFollow
<1> QED BY <1>3, <1>4 DEF ModelStream!ModelStreamAssumption

\* The stream ends: only a complete reply makes a response.
LEMMA FinishKeeps ==
  ASSUME ModelStream!ModelStreamAssumption, StreamInv, NEW why \in {"stop", "length"},
         ModelStream!Finish(why)
  PROVE  StreamInv'
<1>1. /\ UNCHANGED <<ModelStream!provider, loaded, ModelStream!adapter>> /\ ModelStream!Streaming
      /\ reply \in ModelStream!Replies /\ SentOK
      /\ (why = "stop" => ModelStream!Complete) /\ ended' = ModelStream!Outcome(why)
  BY DEF ModelStream!Finish, StreamInv
<1>2. SentOK' BY <1>1 DEF SentOK, ModelStream!provider, ModelStream!adapter
<1>3. CASE ended' = ModelStream!Error
  BY <1>1, <1>2, <1>3 DEF StreamInv, ModelStream!Streaming, ModelStream!Error,
    ModelStream!ResponseIsTheReply, ModelStream!ChunksAreTheResponse, ModelStream!provider
<1>4. CASE ended' = ModelStream!Response /\ why = "stop"
  <2>1. ModelStream!Built = CallsTo(Len(reply.calls)) /\ ModelStream!Complete BY <1>1, <1>4,
          BuiltIsWhole
  <2>2. /\ ended'.kind = "response" /\ ended'.content = got.content
        /\ ended'.reasoning = got.reasoning /\ ended'.calls = CallsTo(Len(reply.calls))
    BY <1>4, <2>1 DEF ModelStream!Response
  <2>3. ModelStream!ResponseIsTheReply'
    BY <1>1, <2>1, <2>2 DEF ModelStream!ResponseIsTheReply, ModelStream!Complete, SentOK, CallsTo,
      CallOf, Input, ModelStream!provider
  <2>4. ModelStream!ChunksAreTheResponse' BY <1>1, <2>2 DEF ModelStream!ChunksAreTheResponse,
          SentOK, ModelStream!adapter
  <2> QED BY <1>1, <1>2, <2>2, <2>3, <2>4 DEF StreamInv, ModelStream!Streaming, ModelStream!provider
<1> QED BY <1>1, <1>3, <1>4 DEF ModelStream!Outcome

\* It breaks off.
LEMMA FailKeeps == StreamInv /\ ModelStream!Fail => StreamInv'
<1> SUFFICES ASSUME StreamInv, ModelStream!Fail PROVE StreamInv' OBVIOUS
<1>1. /\ UNCHANGED <<ModelStream!provider, loaded, ModelStream!adapter>> /\ SentOK
      /\ reply \in ModelStream!Replies
  BY DEF ModelStream!Fail, StreamInv
<1>2. ended'.kind \in {"error", "cancelled"}
  <2>1. CASE ended' = ModelStream!Error BY <2>1 DEF ModelStream!Error
  <2>2. CASE ended' = [kind |-> "cancelled"] BY <2>2
  <2> QED BY <2>1, <2>2 DEF ModelStream!Fail
<1>3. SentOK' BY <1>1 DEF SentOK, ModelStream!provider, ModelStream!adapter
<1> QED BY <1>1, <1>2, <1>3
  DEF StreamInv, ModelStream!Streaming, ModelStream!ResponseIsTheReply,
    ModelStream!ChunksAreTheResponse, ModelStream!provider

\* Every step keeps the invariant.
LEMMA StreamStep ==
  ModelStream!ModelStreamAssumption /\ StreamInv /\ [ModelStream!Next]_ModelStream!vars =>
    StreamInv'
<1> SUFFICES ASSUME ModelStream!ModelStreamAssumption, StreamInv,
                    [ModelStream!Next]_ModelStream!vars
             PROVE  StreamInv' OBVIOUS
<1>1. CASE UNCHANGED ModelStream!vars
  BY <1>1 DEF ModelStream!vars, ModelStream!provider, ModelStream!adapter, StreamInv, SentOK,
    BuildersFollow, BlocksFollow, CallsTo, ModelStream!Streaming,
    ModelStream!ResponseIsTheReply, ModelStream!ChunksAreTheResponse
<1>2. CASE ModelStream!Done BY <1>1, <1>2 DEF ModelStream!Done
<1> QED BY <1>1, <1>2, NextKeeps, TextDeltaKeeps, RefusalKeeps, ToolCallDeltaKeeps,
      ContentBlockStartKeeps,
    InputJSONDeltaKeeps, ContentBlockStopKeeps, FinishKeeps, FailKeeps DEF ModelStream!Next

\* llm/openai.py, llm/claude.py: a response is the whole reply, each call
\* under its own identity with all its arguments in order, and what was
\* handed over as chunks.
THEOREM ReplyWhole ==
  ModelStream!ModelStreamAssumption /\ ModelStream!Spec =>
    [](ModelStream!ResponseIsTheReply /\ ModelStream!ChunksAreTheResponse)
<1>1. StreamInv => ModelStream!ResponseIsTheReply /\
        ModelStream!ChunksAreTheResponse BY DEF StreamInv
<1> SUFFICES ASSUME ModelStream!ModelStreamAssumption
             PROVE  ModelStream!Spec =>
                      [](ModelStream!ResponseIsTheReply /\ ModelStream!ChunksAreTheResponse)
  OBVIOUS
<1>2. ModelStream!Init => StreamInv BY StreamInit
<1>3. StreamInv /\ [ModelStream!Next]_ModelStream!vars => StreamInv' BY StreamStep
<1> QED BY <1>1, <1>2, <1>3, PTL DEF ModelStream!Spec

-----------------------------------------------------------------------------
(* The tools, their hooks and the undo point.                              *)

\* There is a least one.
LEMMA Least ==
  ASSUME NEW T, T \subseteq Nat, T # {} PROVE \E x \in T : \A y \in T : x <= y
<1>1. \E x \in T : \A y \in T : ~(<<y, x>> \in OpToRel(<, Nat)) BY NatLessThanWellFounded, WFMin
<1>2. PICK x \in T : \A y \in T : ~(<<y, x>> \in OpToRel(<, Nat)) BY <1>1
<1>3. ASSUME NEW y \in T PROVE x <= y
  <2>1. <<y, x>> \in Nat \X Nat OBVIOUS
  <2>2. ~(y < x) BY <1>2, <2>1 DEF OpToRel
  <2> QED BY <2>2
<1> QED BY <1>3

\* g is what has been kept after each of the first n.
KeptTo(seq, names, n, g) ==
  g = [i \in 0..n |-> IF i = 0 THEN <<>>
                      ELSE IF seq[i] \in names THEN Append(g[i - 1], seq[i]) ELSE g[i - 1]]

\* There is such a function, for every n.
LEMMA KeptExists ==
  ASSUME NEW seq, NEW names, NEW n \in Nat PROVE \E g : KeptTo(seq, names, n, g)
<1> DEFINE Bad == {k \in Nat : ~\E g : KeptTo(seq, names, k, g)}
<1> SUFFICES ASSUME Bad # {} PROVE FALSE OBVIOUS
<1>1. PICK k \in Bad : \A y \in Bad : k <= y
  <2>1. Bad \subseteq Nat OBVIOUS
  <2> QED BY <2>1, Least
<1>2. k # 0
  <2> DEFINE z == [i \in 0..0 |-> <<>>]
  <2>1. KeptTo(seq, names, 0, z) BY DEF KeptTo
  <2> QED BY <2>1
<1>3. k - 1 \in Nat /\ k - 1 \notin Bad BY <1>1, <1>2
<1>4. PICK g : KeptTo(seq, names, k - 1, g) BY <1>3
<1> DEFINE h == [i \in 0..k |-> IF i < k THEN g[i]
                   ELSE IF seq[i] \in names THEN Append(g[i - 1], seq[i]) ELSE g[i - 1]]
<1>5. KeptTo(seq, names, k, h)
  <2> DEFINE r == [i \in 0..k |-> IF i = 0 THEN <<>>
                     ELSE IF seq[i] \in names THEN Append(h[i - 1], seq[i]) ELSE h[i - 1]]
  <2>1. ASSUME NEW i \in 0..k PROVE h[i] = r[i]
    <3>1. CASE i = 0
      <4>1. h[i] = g[i] BY <3>1, <1>2
      <4>2. g[i] = <<>> BY <3>1, <1>4, <1>3 DEF KeptTo
      <4> QED BY <4>1, <4>2, <3>1
    <3>2. CASE i # 0 /\ i < k
      <4>1. h[i] = g[i] /\ h[i - 1] = g[i - 1] BY <3>2, <1>3
      <4>2. i \in 0..(k - 1) BY <3>2, <1>3
      <4>3. g[i] = IF seq[i] \in names THEN Append(g[i - 1], seq[i]) ELSE g[i - 1]
        BY <3>2, <4>2, <1>4 DEF KeptTo
      <4> QED BY <4>1, <4>3, <3>2
    <3>3. CASE i = k
      <4>1. h[i - 1] = g[i - 1] BY <3>3, <1>2
      <4> QED BY <4>1, <3>3, <1>2
    <3> QED BY <3>1, <3>2, <3>3
  <2>2. h = r BY <2>1, Zenon
  <2> QED BY <2>2 DEF KeptTo
<1> QED BY <1>5, <1>1

\* What is filtered has the elements that are in both, and none of them twice.
LEMMA FilteredIs ==
  ASSUME NEW S, NEW seq \in Seq(S), NEW names
  PROVE  /\ Registry!Filtered(seq, names) \in Seq(S)
         /\ Registry!ToSet(Registry!Filtered(seq, names)) = Registry!ToSet(seq) \cap names
         /\ Registry!Distinct(seq) => Registry!Distinct(Registry!Filtered(seq, names))
<1> DEFINE n == Len(seq)
           K == CHOOSE g : KeptTo(seq, names, n, g)
<1>0. n \in Nat /\ DOMAIN seq = 1..n OBVIOUS
<1>1. KeptTo(seq, names, n, K) BY KeptExists, <1>0
<1>2. Registry!Filtered(seq, names) = K[n] BY DEF Registry!Filtered, KeptTo
<1> HIDE DEF K
<1> DEFINE Ok(k) == /\ K[k] \in Seq(S)
                    /\ \A j \in DOMAIN K[k] : \E i \in 1..k : K[k][j] = seq[i] /\ seq[i] \in names
                    /\ \A i \in 1..k : seq[i] \in names => \E j \in DOMAIN K[k] : K[k][j] = seq[i]
                    /\ Registry!Distinct(seq) => Registry!Distinct(K[k])
           Bad == {k \in 0..n : ~Ok(k)}
<1>3. Bad = {}
  <2> SUFFICES ASSUME Bad # {} PROVE FALSE OBVIOUS
  <2>1. PICK k \in Bad : \A y \in Bad : k <= y
    <3>1. Bad \subseteq Nat BY <1>0
    <3> QED BY <3>1, Least
  <2>2. k # 0
    <3>1. K[0] = <<>> BY <1>0, <1>1 DEF KeptTo
    <3>2. Ok(0) BY <3>1 DEF Registry!Distinct
    <3> QED BY <2>1, <3>2
  <2>8. k \in 0..n OBVIOUS
  <2>3. k \in 1..n /\ k \in 0..n /\ k - 1 \in 0..n /\ k - 1 \notin Bad
    <3> HIDE DEF Bad
    <3> QED BY <1>0, <2>1, <2>2, <2>8
  <2>4. Ok(k - 1) BY <2>3
  <2>5. K[k] = IF seq[k] \in names THEN Append(K[k - 1], seq[k]) ELSE K[k - 1]
    <3> HIDE DEF n
    <3>1. \A i \in 0..n : K[i] = IF i = 0 THEN <<>>
                                 ELSE IF seq[i] \in names THEN Append(K[i - 1],
                                   seq[i]) ELSE K[i - 1]
      BY <1>1, Zenon DEF KeptTo
    <3> QED BY <2>2, <2>3, <3>1
  <2>6. CASE seq[k] \notin names
    <3>1. K[k] = K[k - 1] BY <2>5, <2>6
    <3>2. \A i \in 1..k : i = k \/ i \in 1..k - 1 BY <2>3
    <3>3. \A i \in 1..k - 1 : i \in 1..k BY <2>3
    <3>4. Ok(k) BY <2>4, <2>6, <3>1, <3>2, <3>3
    <3> QED BY <2>1, <3>4
  <2>7. CASE seq[k] \in names
    <3> DEFINE old == K[k - 1]
               new == Append(old, seq[k])
    <3>1. K[k] = new /\ old \in Seq(S) /\ seq[k] \in S BY <1>0, <2>3, <2>4, <2>5, <2>7
    <3>2. /\ new \in Seq(S) /\ DOMAIN new = DOMAIN old \cup {Len(old) + 1}
          /\ new[Len(old) + 1] = seq[k]
          /\ DOMAIN old = 1..Len(old) /\ Len(old) \in Nat /\ \A j \in DOMAIN old : new[j] = old[j]
      BY <3>1
    <3>3. ASSUME NEW j \in DOMAIN new PROVE \E i \in 1..k : new[j] = seq[i] /\ seq[i] \in names
      <4>1. CASE j \in DOMAIN old
        <5>1. PICK i \in 1..k - 1 : old[j] = seq[i] /\ seq[i] \in names BY <2>4, <4>1
        <5>2. i \in 1..k /\ new[j] = old[j] BY <2>3, <3>2, <4>1
        <5> QED BY <5>1, <5>2
      <4>2. CASE j = Len(old) + 1 BY <2>3, <2>7, <3>2, <4>2
      <4> QED BY <3>2, <4>1, <4>2
    <3>4. \A i \in 1..k : seq[i] \in names => \E j \in DOMAIN new : new[j] = seq[i]
      <4> SUFFICES ASSUME NEW i \in 1..k, seq[i] \in names
                   PROVE  \E j \in DOMAIN new : new[j] = seq[i]
        OBVIOUS
      <4>1. CASE i = k BY <3>2, <4>1
      <4>2. CASE i # k
        <5>1. i \in 1..k - 1 BY <2>3, <4>2
        <5> QED BY <2>4, <3>2, <5>1
      <4> QED BY <4>1, <4>2
    <3>5. ASSUME Registry!Distinct(seq) PROVE Registry!Distinct(new)
      <4>1. \A j \in DOMAIN old : old[j] # seq[k]
        <5> SUFFICES ASSUME NEW j \in DOMAIN old, old[j] = seq[k] PROVE FALSE OBVIOUS
        <5>1. PICK i \in 1..k - 1 : old[j] = seq[i] BY <2>4
        <5>2. i \in DOMAIN seq /\ k \in DOMAIN seq /\ i # k BY <1>0, <2>3
        <5> QED BY <3>5, <5>1, <5>2 DEF Registry!Distinct
      <4>2. Registry!Distinct(old) BY <2>4, <3>5
      <4> SUFFICES ASSUME NEW i \in DOMAIN new, NEW j \in DOMAIN new, new[i] = new[j] PROVE i = j
        BY DEF Registry!Distinct
      <4> QED BY <3>2, <4>1, <4>2 DEF Registry!Distinct
    <3> HIDE DEF new
    <3>6. Ok(k) BY <3>1, <3>2, <3>3, <3>4, <3>5
    <3> QED BY <2>1, <3>6
  <2> QED BY <2>6, <2>7
<1>4. Ok(n) BY <1>0, <1>3
<1>5. Registry!ToSet(K[n]) = Registry!ToSet(seq) \cap names
  <2>1. \A x : x \in Registry!ToSet(K[n]) <=>
          \E j \in DOMAIN K[n] : x = K[n][j] BY DEF Registry!ToSet
  <2>2. \A x : x \in Registry!ToSet(seq) <=> \E i \in 1..n : x = seq[i] BY <1>0 DEF Registry!ToSet
  <2>3. ASSUME NEW x \in Registry!ToSet(K[n]) PROVE x \in Registry!ToSet(seq) \cap names
    <3>1. PICK j \in DOMAIN K[n] : x = K[n][j] BY <2>1
    <3> QED BY <1>4, <2>2, <3>1
  <2>4. ASSUME NEW x \in Registry!ToSet(seq) \cap names PROVE x \in Registry!ToSet(K[n])
    <3>1. PICK i \in 1..n : x = seq[i] BY <2>2
    <3> QED BY <1>4, <2>1, <3>1
  <2> QED BY <2>3, <2>4
<1> QED BY <1>2, <1>4, <1>5

-----------------------------------------------------------------------------
(* What a call leaves in its trace: p commands of pre_tool and maybe a      *)
(* failed one, the tool or not, q commands of post_tool and maybe a failed  *)
(* one.                                                                     *)
Marks == {"pre", "preFailed", "tool", "post", "postFailed", "event"}

TraceIs(s, p, f, t, q, g) ==
  /\ s \in Seq(Marks) /\ Len(s) = p + f + t + q + g
  /\ \A i \in 1..p : s[i] = "pre"
  /\ \A i \in p + 1..p + f : s[i] = "preFailed"
  /\ \A i \in p + f + 1..p + f + t : s[i] = "tool"
  /\ \A i \in p + f + t + 1..p + f + t + q : s[i] = "post"
  /\ \A i \in p + f + t + q + 1..p + f + t + q + g : s[i] = "postFailed"

Shaped ==
  \E p, q \in 0..ToolHooks, f, t, g \in 0..1 :
    /\ TraceIs(trace, p, f, t, q, g)
    /\ p + f <= ToolHooks /\ q + g <= ToolHooks /\ (t = 1 => p = ToolHooks)

Eventful == trace \in Seq(Marks) /\ trace # <<>> /\ trace[1] = "event"

ListInv ==
  /\ order \in Seq(Registry!Names)
  /\ Registry!ToSet(order) = DOMAIN tools /\ Registry!Distinct(order)
  /\ Registry!BuiltIn \subseteq DOMAIN tools

WorkInv ==
  /\ phase \in {"idle", "pre", "lookup", "running", "post", "event"} /\ left \in Nat
  /\ phase = "pre" => /\ left <= ToolHooks /\ toolOutcome = "none"
                      /\ TraceIs(trace, ToolHooks - left, 0, 0, 0, 0)
  /\ phase = "lookup" => toolOutcome = "none" /\ TraceIs(trace, ToolHooks, 0, 0, 0, 0)
  /\ phase = "running" => toolOutcome = "none" /\ TraceIs(trace, ToolHooks, 0, 1, 0, 0)
  /\ phase = "post" => /\ left <= ToolHooks /\ toolOutcome \in {"ok", "failed"}
                       /\ \E t \in 0..1 : TraceIs(trace, ToolHooks, 0, t, ToolHooks - left, 0)
  /\ phase = "event" => toolOutcome = "none" /\ Eventful /\ Len(trace) \in 1..Len(Events)
  /\ phase = "idle" => (Eventful \/ Shaped) /\ Registry!FinishedIsNotFailed

RegistryInv == ListInv /\ WorkInv /\ Registry!UndoPointIsLatestWrite

\* What appending one element does.
LEMMA Appended ==
  ASSUME NEW S, NEW s \in Seq(S), NEW e \in S
  PROVE  /\ Append(s, e) \in Seq(S) /\ Len(s) \in Nat /\ Len(Append(s, e)) = Len(s) + 1
         /\ DOMAIN s = 1..Len(s) /\ DOMAIN Append(s, e) = 1..Len(s) + 1
         /\ \A i \in 1..Len(s) : Append(s, e)[i] = s[i]
         /\ Append(s, e)[Len(s) + 1] = e
OBVIOUS

\* What the next event makes of a trace.
LEMMA TraceGrows ==
  ASSUME NEW s, NEW p \in Nat, NEW t \in 0..1, NEW q \in Nat
  PROVE  /\ TraceIs(s, p, 0, 0, 0, 0) => /\ TraceIs(Append(s, "pre"), p + 1, 0, 0, 0, 0)
                                         /\ TraceIs(Append(s, "preFailed"), p, 1, 0, 0, 0)
                                         /\ TraceIs(Append(s, "tool"), p, 0, 1, 0, 0)
         /\ TraceIs(s, p, 0, t, q, 0) => /\ TraceIs(Append(s, "post"), p, 0, t, q + 1, 0)
                                         /\ TraceIs(Append(s, "postFailed"), p, 0, t, q, 1)
         /\ TraceIs(<<>>, 0, 0, 0, 0, 0)
<1>0. \A e \in {"pre", "preFailed", "tool", "post", "postFailed"} : e \in Marks BY DEF Marks
<1>1. ASSUME TraceIs(s, p, 0, 0, 0, 0)
      PROVE  /\ TraceIs(Append(s, "pre"), p + 1, 0, 0, 0, 0)
             /\ TraceIs(Append(s, "preFailed"), p, 1, 0, 0, 0)
             /\ TraceIs(Append(s, "tool"), p, 0, 1, 0, 0)
  <2>1. TraceIs(Append(s, "pre"), p + 1, 0, 0, 0, 0)
    <3> DEFINE new == Append(s, "pre")
    <3>1. /\ new \in Seq(Marks) /\ Len(new) = p + 1 /\ new[p + 1] = "pre"
          /\ \A i \in 1..p : new[i] = "pre"
      BY <1>0, <1>1, Appended DEF TraceIs
    <3> HIDE DEF new
    <3>2. TraceIs(new, p + 1, 0, 0, 0, 0) BY <3>1 DEF TraceIs
    <3> QED BY <3>2 DEF new
  <2>2. TraceIs(Append(s, "preFailed"), p, 1, 0, 0, 0)
    <3> DEFINE new == Append(s, "preFailed")
    <3>1. /\ new \in Seq(Marks) /\ Len(new) = p + 1 /\ new[p + 1] = "preFailed"
          /\ \A i \in 1..p : new[i] = "pre"
      BY <1>0, <1>1, Appended DEF TraceIs
    <3> HIDE DEF new
    <3>2. TraceIs(new, p, 1, 0, 0, 0) BY <3>1 DEF TraceIs
    <3> QED BY <3>2 DEF new
  <2>3. TraceIs(Append(s, "tool"), p, 0, 1, 0, 0)
    <3> DEFINE new == Append(s, "tool")
    <3>1. /\ new \in Seq(Marks) /\ Len(new) = p + 1 /\ new[p + 1] = "tool"
          /\ \A i \in 1..p : new[i] = "pre"
      BY <1>0, <1>1, Appended DEF TraceIs
    <3> HIDE DEF new
    <3>2. TraceIs(new, p, 0, 1, 0, 0) BY <3>1 DEF TraceIs
    <3> QED BY <3>2 DEF new
  <2> QED BY <2>1, <2>2, <2>3
<1>2. ASSUME TraceIs(s, p, 0, t, q, 0)
      PROVE  /\ TraceIs(Append(s, "post"), p, 0, t, q + 1, 0)
             /\ TraceIs(Append(s, "postFailed"), p, 0, t, q, 1)
  <2>1. TraceIs(Append(s, "post"), p, 0, t, q + 1, 0)
    <3> DEFINE new == Append(s, "post")
    <3>1. /\ new \in Seq(Marks) /\ Len(new) = p + t + q + 1 /\ new[p + t + q + 1] = "post"
          /\ \A i \in 1..p : new[i] = "pre"
          /\ \A i \in p + 1..p + t : new[i] = "tool"
          /\ \A i \in p + t + 1..p + t + q : new[i] = "post"
      BY <1>0, <1>2, Appended DEF TraceIs
    <3> HIDE DEF new
    <3>2. TraceIs(new, p, 0, t, q + 1, 0) BY <3>1 DEF TraceIs
    <3> QED BY <3>2 DEF new
  <2>2. TraceIs(Append(s, "postFailed"), p, 0, t, q, 1)
    <3> DEFINE new == Append(s, "postFailed")
    <3>1. /\ new \in Seq(Marks) /\ Len(new) = p + t + q + 1 /\ new[p + t + q + 1] = "postFailed"
          /\ \A i \in 1..p : new[i] = "pre"
          /\ \A i \in p + 1..p + t : new[i] = "tool"
          /\ \A i \in p + t + 1..p + t + q : new[i] = "post"
      BY <1>0, <1>2, Appended DEF TraceIs
    <3> HIDE DEF new
    <3>2. TraceIs(new, p, 0, t, q, 1) BY <3>1 DEF TraceIs
    <3> QED BY <3>2 DEF new
  <2> QED BY <2>1, <2>2
<1>3. TraceIs(<<>>, 0, 0, 0, 0, 0) BY DEF TraceIs
<1> QED BY <1>1, <1>2, <1>3

\* Such a trace has the tool between its hooks.
LEMMA ShapedSurrounds == Registry!ToolRegistryAssumption /\ Shaped => Registry!HooksSurroundTheTool
<1> SUFFICES ASSUME Registry!ToolRegistryAssumption, Shaped
             PROVE  Registry!HooksSurroundTheTool OBVIOUS
<1>1. PICK p \in 0..ToolHooks, q \in 0..ToolHooks, f \in 0..1, t \in 0..1, g \in 0..1 :
        /\ TraceIs(trace, p, f, t, q, g)
        /\ p + f <= ToolHooks /\ q + g <= ToolHooks /\ (t = 1 => p = ToolHooks)
  BY DEF Shaped
<1>2. ToolHooks \in Nat BY DEF Registry!ToolRegistryAssumption
<1> DEFINE n == p + f + t + q + g
<1>3. n \in Nat /\ Len(trace) = n /\ DOMAIN trace = 1..n BY <1>1, <1>2 DEF TraceIs
<1>7. /\ \A i \in 1..n : i \in 1..p \/ trace[i] # "pre"
      /\ \A i \in 1..n : i \in p + 1..p + f \/ trace[i] # "preFailed"
      /\ \A i \in 1..n : i \in p + f + 1..p + f + t \/ trace[i] # "tool"
      /\ \A i \in 1..n : i <= p + f + t => trace[i] \notin {"post", "postFailed"}
  BY <1>1, <1>2 DEF TraceIs
<1>8. /\ \A i \in 1..p : trace[i] = "pre"
      /\ \A i \in p + f + 1..p + f + t : trace[i] = "tool"
  BY <1>1 DEF TraceIs
<1>4. ASSUME Registry!Ran("tool")
      PROVE  /\ Registry!Count("pre") = ToolHooks /\ ~Registry!Ran("preFailed")
             /\ Registry!Count("tool") = 1
  <2>1. t = 1 /\ p = ToolHooks /\ f = 0
    <3>1. PICK i \in 1..n : trace[i] = "tool" BY <1>3, <1>4 DEF Registry!Ran
    <3>2. p + f < i /\ i <= p + f + t BY <1>2, <1>7, <3>1
    <3>3. t = 1 BY <3>2
    <3> QED BY <1>1, <1>2, <3>3
  <2>2. {i \in DOMAIN trace : trace[i] = "pre"} = 1..p
    BY <1>2, <1>3, <1>7, <1>8
  <2>3. {i \in DOMAIN trace : trace[i] = "tool"} = {p + 1}
    BY <1>2, <1>3, <1>7, <1>8, <2>1
  <2>4. Cardinality(1..p) = p
    <3>1. Cardinality(1..p) = IF 1 > p THEN 0 ELSE p - 1 + 1 BY FS_Interval
    <3> QED BY <3>1
  <2>5. Cardinality({p + 1}) = 1 BY FS_Singleton
  <2>6. ~Registry!Ran("preFailed") BY <1>2, <1>3, <1>7, <2>1 DEF Registry!Ran
  <2>7. Registry!Count("pre") = Cardinality(1..p) BY <2>2, CountsInstances, Zenon
  <2>8. Registry!Count("tool") = Cardinality({p + 1}) BY <2>3, CountsInstances, Zenon
  <2> QED BY <2>1, <2>4, <2>5, <2>6, <2>7, <2>8
<1>5. ASSUME NEW i \in DOMAIN trace, NEW j \in DOMAIN trace,
             trace[i] \in {"post", "postFailed"}, trace[j] \in {"pre", "tool"}
      PROVE  j < i
  <2>1. ~(i <= p + f + t) BY <1>3, <1>5, <1>7
  <2>2. j <= p + f + t BY <1>2, <1>3, <1>5, <1>7
  <2> QED BY <1>3, <2>1, <2>2
<1>6. Len(trace) <= 2 * ToolHooks + 1
  <2>1. p + f + t + q + g <= 2 * ToolHooks + 1 BY <1>1, <1>2
  <2> QED BY <1>3, <2>1
<1> QED BY <1>4, <1>5, <1>6 DEF Registry!HooksSurroundTheTool

\* What the run checks of a state.
LEMMA RegistryPromise ==
  ASSUME Registry!ToolRegistryAssumption, RegistryInv
  PROVE  /\ Registry!EveryToolIsListedOnce /\ Registry!HooksSurroundTheTool
         /\ Registry!FinishedIsNotFailed /\ Registry!UndoPointIsLatestWrite
<1>1. Registry!EveryToolIsListedOnce
  <2>1. Registry!ToSet(Registry!Specs) \subseteq Registry!ToSet(order)
    BY FilteredIs DEF Registry!Specs, RegistryInv, ListInv
  <2> QED BY <2>1 DEF RegistryInv, ListInv, Registry!EveryToolIsListedOnce
<1>2. Registry!HooksSurroundTheTool
  <2>1. ToolHooks \in Nat BY DEF Registry!ToolRegistryAssumption
  <2>2. ASSUME Eventful PROVE Registry!HooksSurroundTheTool
    <3>1. 1 \in DOMAIN trace \/ trace[1] # "event" \/ trace = <<>> OBVIOUS
    <3> QED BY <2>2, <3>1 DEF Eventful, Registry!HooksSurroundTheTool, Registry!Ran
  <2>3. phase = "pre" => Shaped BY <2>1 DEF RegistryInv, WorkInv, Shaped
  <2>4. phase \in {"lookup", "running"} => Shaped BY <2>1 DEF RegistryInv, WorkInv, Shaped
  <2>5. phase = "post" => Shaped BY <2>1 DEF RegistryInv, WorkInv, Shaped
  <2> QED BY <2>2, <2>3, <2>4, <2>5, ShapedSurrounds DEF RegistryInv, WorkInv
<1>3. Registry!FinishedIsNotFailed
  BY DEF RegistryInv, WorkInv, Registry!FinishedIsNotFailed
<1> QED BY <1>1, <1>2, <1>3 DEF RegistryInv

-----------------------------------------------------------------------------
\* At the start the built-in tools are registered.
LEMMA ListStart == Registry!ToolRegistryAssumption /\ Registry!Init => RegistryInv
<1> SUFFICES ASSUME Registry!ToolRegistryAssumption, Registry!Init PROVE RegistryInv OBVIOUS
<1>1. Read # Write /\ Read # Shell /\ Write # Shell
  <2>1. \A a, b : Cardinality({a, b}) <= 2
    <3> TAKE a, b
    <3>1. Cardinality({a}) = 1 BY FS_Singleton
    <3>2. IsFiniteSet({a}) BY FS_Singleton
    <3>3. Cardinality({a} \cup {b}) <= 2 BY <3>1, <3>2, FS_AddElement
    <3>4. {a, b} = {a} \cup {b} OBVIOUS
    <3> QED BY <3>3, <3>4
  <2>2. ASSUME NEW a, NEW b, Registry!BuiltIn = {a, b} PROVE FALSE
    <3>1. Cardinality({a, b}) = 3 BY <2>2, CountsInstances, Zenon
    <3>2. Cardinality({a, b}) <= 2 BY <2>1, Zenon
    <3>3. 3 <= 2 BY <3>1, <3>2, Zenon
    <3> QED BY <3>3
  <2>3. ASSUME Read = Write PROVE FALSE
    <3>1. Registry!BuiltIn = {Write, Shell} BY <2>3 DEF Registry!BuiltIn
    <3> QED BY <2>2, <3>1
  <2>4. ASSUME Read = Shell \/ Write = Shell PROVE FALSE
    <3>1. Registry!BuiltIn = {Read, Write} BY <2>4 DEF Registry!BuiltIn
    <3> QED BY <2>2, <3>1
  <2> QED BY <2>3, <2>4
<1>2. ListInv
  <2>1. order = <<Read, Write, Shell>> /\ DOMAIN tools = Registry!BuiltIn BY DEF Registry!Init
  <2>2. order \in Seq(Registry!Names) /\ DOMAIN order = {1, 2, 3}
    <3>1. Read \in Registry!Names /\ Write \in Registry!Names /\
            Shell \in Registry!Names BY DEF Registry!Names, Registry!BuiltIn
    <3> QED BY <2>1, <3>1
  <2>3. order[1] = Read /\ order[2] = Write /\ order[3] = Shell BY <2>1
  <2>4. Registry!ToSet(order) = Registry!BuiltIn BY <2>2, <2>3 DEF Registry!ToSet, Registry!BuiltIn
  <2>5. Registry!Distinct(order) BY <1>1, <2>2, <2>3 DEF Registry!Distinct
  <2> QED BY <2>1, <2>2, <2>4, <2>5 DEF ListInv
<1>3. WorkInv
  <2>1. TraceIs(<<>>, 0, 0, 0, 0, 0) BY TraceGrows
  <2>2. Shaped BY <2>1 DEF Shaped, Registry!Init, Registry!ToolRegistryAssumption
  <2> QED BY <2>2 DEF WorkInv, Registry!FinishedIsNotFailed, Registry!Init
<1> QED BY <1>2, <1>3 DEF RegistryInv, Registry!Init, Registry!UndoPointIsLatestWrite

\* A batch that is accepted goes behind what is left.
LEMMA BatchJoins ==
  ASSUME Registry!ToolRegistryAssumption, ListInv, NEW names \in SUBSET Dynamic,
         NEW batch \in Registry!Batches,
         NEW rest \in Seq(Registry!Names), Registry!ToSet(rest) = DOMAIN tools \ names,
               Registry!Distinct(rest),
         Registry!Acceptable(batch, DOMAIN tools \ names),
         tools' = Registry!Registered(DOMAIN tools \ names, batch), order' = rest \o batch
  PROVE  ListInv'
<1> DEFINE D == DOMAIN tools \ names
<1>1. batch \in Seq(Dynamic \cup {NoName, Read}) BY SMTT(30) DEF Registry!Batches, Registry!SeqOf
<1>2. Read \in D /\ Registry!BuiltIn \subseteq D
  <2>1. Registry!BuiltIn \cap Dynamic = {} /\
          Read \in Registry!BuiltIn BY DEF Registry!ToolRegistryAssumption, Registry!BuiltIn
  <2> QED BY <2>1 DEF ListInv
<1>3. \A i \in DOMAIN batch : batch[i] \in Dynamic /\ batch[i] \notin D
  BY <1>1, <1>2 DEF Registry!Acceptable
<1>4. batch \in Seq(Registry!Names)
  <2>1. \A i \in 1..Len(batch) : batch[i] \in Registry!Names BY <1>1, <1>3 DEF Registry!Names
  <2> QED BY <1>1, <2>1
<1> DEFINE both == rest \o batch
<1>5. /\ both \in Seq(Registry!Names) /\ DOMAIN both = 1..Len(rest) + Len(batch)
      /\ Len(rest) \in Nat /\ Len(batch) \in Nat
      /\ DOMAIN rest = 1..Len(rest) /\ DOMAIN batch = 1..Len(batch)
      /\ \A i \in 1..Len(rest) : both[i] = rest[i]
      /\ \A i \in 1..Len(batch) : both[Len(rest) + i] = batch[i]
  BY <1>4
<1> HIDE DEF both
<1>6. \A i \in DOMAIN both : \/ i \in DOMAIN rest /\ both[i] = rest[i]
                             \/ i - Len(rest) \in DOMAIN batch /\ both[i] = batch[i - Len(rest)]
  <2> TAKE i \in DOMAIN both
  <2>1. CASE i <= Len(rest) BY <1>5, <2>1
  <2>2. CASE i > Len(rest)
    <3>1. i - Len(rest) \in 1..Len(batch) /\ Len(rest) + (i - Len(rest)) = i BY <1>5, <2>2
    <3> QED BY <1>5, <3>1
  <2> QED BY <1>5, <2>1, <2>2
<1>7. Registry!ToSet(both) = D \cup Registry!ToSet(batch)
  <2>1. \A x : x \in Registry!ToSet(rest) <=>
          \E i \in DOMAIN rest : x = rest[i] BY DEF Registry!ToSet
  <2>2. \A x : x \in Registry!ToSet(batch) <=>
          \E i \in DOMAIN batch : x = batch[i] BY DEF Registry!ToSet
  <2>3. \A x : x \in Registry!ToSet(both) <=>
          \E i \in DOMAIN both : x = both[i] BY DEF Registry!ToSet
  <2>4. ASSUME NEW x \in Registry!ToSet(both) PROVE x \in D \cup Registry!ToSet(batch)
    BY <1>6, <2>1, <2>2, <2>3
  <2>5. ASSUME NEW x \in D PROVE x \in Registry!ToSet(both)
    <3>1. PICK i \in DOMAIN rest : x = rest[i] BY <2>1
    <3>2. i \in DOMAIN both /\ both[i] = x BY <1>5, <3>1
    <3> QED BY <2>3, <3>2
  <2>6. ASSUME NEW x \in Registry!ToSet(batch) PROVE x \in Registry!ToSet(both)
    <3>1. PICK i \in DOMAIN batch : x = batch[i] BY <2>2
    <3>2. Len(rest) + i \in DOMAIN both /\ both[Len(rest) + i] = x BY <1>5, <3>1
    <3> QED BY <2>3, <3>2
  <2> QED BY <2>4, <2>5, <2>6
<1>8. Registry!Distinct(both)
  <2>1. \A i \in DOMAIN rest, j \in DOMAIN batch : rest[i] # batch[j] BY <1>3 DEF Registry!ToSet
  <2>2. Registry!Distinct(batch) BY DEF Registry!Acceptable
  <2> SUFFICES ASSUME NEW i \in DOMAIN both, NEW j \in DOMAIN both, both[i] = both[j] PROVE i = j
    BY DEF Registry!Distinct
  <2>3. CASE i \in DOMAIN rest /\ j \in DOMAIN rest /\ both[i] = rest[i] /\ both[j] = rest[j]
    BY <2>3 DEF Registry!Distinct
  <2>4. CASE /\ i - Len(rest) \in DOMAIN batch /\ both[i] = batch[i - Len(rest)]
             /\ j - Len(rest) \in DOMAIN batch /\ both[j] = batch[j - Len(rest)]
    <3>1. i - Len(rest) = j - Len(rest) BY <2>2, <2>4 DEF Registry!Distinct
    <3> QED BY <1>5, <3>1
  <2> QED BY <1>6, <2>1, <2>3, <2>4
<1>9. order' = both /\ DOMAIN tools' = D \cup Registry!ToSet(batch) BY DEF Registry!Registered, both
<1> QED BY <1>2, <1>5, <1>7, <1>8, <1>9 DEF ListInv, Registry!Distinct

\* Every step keeps the list and the tools alike.
LEMMA ListStep ==
  Registry!ToolRegistryAssumption /\ ListInv /\ [Registry!Next]_Registry!vars => ListInv'
<1> SUFFICES ASSUME Registry!ToolRegistryAssumption, ListInv, [Registry!Next]_Registry!vars
             PROVE  ListInv' OBVIOUS
<1>0. ASSUME UNCHANGED <<tools, order>> PROVE ListInv' BY <1>0 DEF ListInv, Registry!Distinct
<1>1. ASSUME NEW batch \in Registry!Batches, Registry!AddTools(batch) PROVE ListInv'
  <2>1. CASE Registry!Acceptable(batch, DOMAIN tools)
    <3>1. DOMAIN tools \ {} = DOMAIN tools /\ {} \in SUBSET Dynamic OBVIOUS
    <3>2. tools' = Registry!Registered(DOMAIN tools, batch) /\ order' = order \o batch
      BY <1>1, <2>1 DEF Registry!AddTools
    <3>3. /\ order \in Seq(Registry!Names) /\ Registry!ToSet(order) = DOMAIN tools
          /\ Registry!Distinct(order) BY DEF ListInv
    <3> QED BY <2>1, <3>1, <3>2, <3>3, BatchJoins
  <2> QED BY <1>0, <1>1, <2>1 DEF Registry!AddTools
<1>2. ASSUME NEW names \in SUBSET Dynamic
      PROVE  /\ Registry!Without(names) \in Seq(Registry!Names)
             /\ Registry!Distinct(Registry!Without(names))
             /\ Registry!ToSet(Registry!Without(names)) = DOMAIN tools \ names
  <2>1. /\ order \in Seq(Registry!Names) /\ Registry!ToSet(order) = DOMAIN tools
        /\ Registry!Distinct(order) BY DEF ListInv
  <2> DEFINE rest == Registry!ToSet(order) \ names
  <2>2. Registry!Without(names) = Registry!Filtered(order, rest) BY DEF Registry!Without
  <2> HIDE DEF rest
  <2>3. /\ Registry!Filtered(order, rest) \in Seq(Registry!Names)
        /\ Registry!Distinct(Registry!Filtered(order, rest))
        /\ Registry!ToSet(Registry!Filtered(order, rest)) = Registry!ToSet(order) \cap rest
    BY <2>1, FilteredIs
  <2>4. Registry!ToSet(order) \cap rest = DOMAIN tools \ names BY <2>1 DEF rest
  <2> QED BY <2>2, <2>3, <2>4
<1>3. ASSUME NEW names \in SUBSET Dynamic, Registry!RemoveTools(names) PROVE ListInv'
  <2>1. Registry!BuiltIn \cap Dynamic = {} BY DEF Registry!ToolRegistryAssumption
  <2>2. Registry!ToSet(<<>>) = {} BY DEF Registry!ToSet
  <2>3. order' = Registry!Without(names) /\ DOMAIN tools' = DOMAIN tools \ names
    BY <1>3, <2>2 DEF Registry!RemoveTools, Registry!Registered
  <2> QED BY <1>2, <2>1, <2>3 DEF ListInv, Registry!Distinct
<1>4. ASSUME NEW names \in SUBSET Dynamic, NEW batch \in Registry!Batches,
                 Registry!ReplaceTools(names, batch)
      PROVE  ListInv'
  <2>1. CASE Registry!Acceptable(batch, DOMAIN tools \ names)
    <3>1. /\ tools' = Registry!Registered(DOMAIN tools \ names, batch)
          /\ order' = Registry!Without(names) \o batch
      BY <1>4, <2>1 DEF Registry!ReplaceTools
    <3> QED BY <1>2, <2>1, <3>1, BatchJoins
  <2> QED BY <1>0, <1>4, <2>1 DEF Registry!ReplaceTools
<1>5. ASSUME \/ \E names \in {{}, {Read}, {Read, Write} \cup Dynamic} : Registry!SetAllowed(names)
             \/ \E name \in Registry!Names, query \in BOOLEAN : Registry!Called(name, query)
             \/ Registry!PreHook \/ Registry!PreHooksDone \/ Registry!UnknownTool \/ Registry!Start
             \/ Registry!CheckpointFails \/ Registry!ToolEnds
             \/ Registry!PostHook \/ Registry!PostHooksDone \/ Registry!RunHooks
             \/ Registry!EventCommand \/ UNCHANGED Registry!vars
      PROVE  UNCHANGED <<tools, order>>
  BY <1>5 DEF Registry!SetAllowed, Registry!Called, Registry!PreHook, Registry!PreHooksDone,
    Registry!UnknownTool, Registry!Start, Registry!CheckpointFails, Registry!ToolEnds,
              Registry!PostHook, Registry!PostHooksDone, Registry!RunHooks, Registry!EventCommand,
                Registry!vars, Registry!registry
<1> QED BY <1>0, <1>1, <1>3, <1>4, <1>5 DEF Registry!Next

\* Every step keeps the call or the event under way as it should be, and an
\* event that ends them is the last.
LEMMA WorkStep ==
  Registry!ToolRegistryAssumption /\ WorkInv /\ [Registry!Next]_Registry!vars => WorkInv' /\
    Registry!EveryEventIsRunStep
<1> SUFFICES ASSUME Registry!ToolRegistryAssumption, WorkInv, [Registry!Next]_Registry!vars
             PROVE  WorkInv' /\ Registry!EveryEventIsRunStep
  OBVIOUS
<1>0. ToolHooks \in Nat BY DEF Registry!ToolRegistryAssumption
<1>u. ASSUME UNCHANGED Registry!work PROVE WorkInv' /\ Registry!EveryEventIsRunStep
  <2>1. UNCHANGED <<phase, left, toolOutcome, result, trace>> BY <1>u DEF Registry!work
  <2>2. WorkInv' BY <2>1 DEF WorkInv, TraceIs, Eventful, Shaped, Registry!FinishedIsNotFailed
  <2> QED BY <2>1, <2>2 DEF Registry!EveryEventIsRunStep
<1>1. ASSUME \/ \E batch \in Registry!Batches \ {<<>>} : Registry!AddTools(batch)
             \/ \E names \in SUBSET Dynamic : Registry!RemoveTools(names) \/
                  (\E batch \in Registry!Batches : Registry!ReplaceTools(names, batch))
             \/ \E names \in {{}, {Read}, {Read, Write} \cup Dynamic} : Registry!SetAllowed(names)
             \/ UNCHANGED Registry!vars
      PROVE  WorkInv' /\ Registry!EveryEventIsRunStep
  BY <1>1, <1>u DEF Registry!AddTools, Registry!RemoveTools, Registry!ReplaceTools,
    Registry!SetAllowed, Registry!vars
<1>2. ASSUME NEW name \in Registry!Names, NEW query \in BOOLEAN, Registry!Called(name, query)
      PROVE  WorkInv' /\ Registry!EveryEventIsRunStep
  <2>1. phase = "idle" /\ toolOutcome' = "none" /\ trace' = <<>> BY <1>2 DEF Registry!Called,
          Registry!Begin
  <2>2. \/ phase' = "pre" /\ left' = ToolHooks
        \/ phase' = "idle" /\ left' = 0
    BY <1>2 DEF Registry!Called
  <2>3. TraceIs(trace', 0, 0, 0, 0, 0) BY <2>1, TraceGrows
  <2>4. Shaped' BY <1>0, <2>3 DEF Shaped
  <2>5. ToolHooks - ToolHooks = 0 BY <1>0
  <2> QED BY <1>0, <2>1, <2>2, <2>3, <2>4, <2>5 DEF WorkInv, Registry!FinishedIsNotFailed,
        Registry!EveryEventIsRunStep
<1>3. ASSUME Registry!PreHook PROVE WorkInv' /\ Registry!EveryEventIsRunStep
  <2>1. /\ phase = "pre" /\ left > 0 /\ left \in Nat /\ left <= ToolHooks /\ toolOutcome' = "none"
        /\ TraceIs(trace, ToolHooks - left, 0, 0, 0, 0) /\ ToolHooks - left \in Nat
    BY <1>0, <1>3 DEF Registry!PreHook, WorkInv
  <2>2. CASE left' = left - 1 /\ Registry!Did("pre") /\ UNCHANGED <<phase, result>>
    <3>1. TraceIs(trace', ToolHooks - left + 1, 0, 0, 0, 0) BY <2>1, <2>2,
            TraceGrows DEF Registry!Did
    <3>2. ToolHooks - left + 1 = ToolHooks - left' BY <1>0, <2>1, <2>2
    <3> QED BY <1>0, <2>1, <2>2, <3>1, <3>2 DEF WorkInv, Registry!EveryEventIsRunStep
  <2>3. CASE Registry!PreHookFailed
    <3>1. TraceIs(trace', ToolHooks - left, 1, 0, 0, 0) BY <2>1, <2>3,
            TraceGrows DEF Registry!PreHookFailed, Registry!Did
    <3>2. Shaped' BY <1>0, <2>1, <3>1 DEF Shaped
    <3> QED BY <2>1, <2>3, <3>2 DEF Registry!PreHookFailed, Registry!Fail, WorkInv,
          Registry!FinishedIsNotFailed, Registry!EveryEventIsRunStep
  <2> QED BY <1>3, <2>2, <2>3 DEF Registry!PreHook
<1>4. ASSUME Registry!PreHooksDone PROVE WorkInv' /\ Registry!EveryEventIsRunStep
  <2>1. phase = "pre" /\ left = 0 /\ phase' = "lookup" /\ UNCHANGED <<left, toolOutcome, trace>>
    BY <1>4 DEF Registry!PreHooksDone
  <2>2. ToolHooks - left = ToolHooks BY <1>0, <2>1
  <2> QED BY <2>1, <2>2 DEF WorkInv, Registry!EveryEventIsRunStep
<1>5. ASSUME Registry!UnknownTool \/ Registry!CheckpointFails
      PROVE  WorkInv' /\ Registry!EveryEventIsRunStep
  <2>1. /\ phase = "lookup" /\ phase' = "post" /\ left' = ToolHooks /\ toolOutcome' = "failed"
        /\ trace' = trace
    BY <1>5 DEF Registry!UnknownTool, Registry!CheckpointFails, Registry!Finish
  <2>2. ToolHooks - ToolHooks = 0 /\ 0 \in 0..1 BY <1>0
  <2>3. TraceIs(trace', ToolHooks, 0, 0, 0, 0) BY <2>1 DEF WorkInv
  <2> QED BY <1>0, <2>1, <2>2, <2>3 DEF WorkInv, Registry!EveryEventIsRunStep
<1>6. ASSUME Registry!Start PROVE WorkInv' /\ Registry!EveryEventIsRunStep
  <2>1. /\ phase = "lookup" /\ phase' = "running" /\ Registry!Did("tool")
        /\ UNCHANGED <<left, toolOutcome>>
    BY <1>6 DEF Registry!Start
  <2>2. TraceIs(trace', ToolHooks, 0, 1, 0, 0) BY <1>0, <2>1, TraceGrows DEF WorkInv, Registry!Did
  <2> QED BY <2>1, <2>2 DEF WorkInv, Registry!EveryEventIsRunStep
<1>7. ASSUME Registry!ToolEnds PROVE WorkInv' /\ Registry!EveryEventIsRunStep
  <2>1. /\ phase = "running" /\ phase' = "post" /\ left' = ToolHooks
        /\ toolOutcome' \in {"ok", "failed"}
        /\ trace' = trace
    BY <1>7 DEF Registry!ToolEnds, Registry!Finish
  <2>2. ToolHooks - ToolHooks = 0 /\ 1 \in 0..1 BY <1>0
  <2>3. TraceIs(trace', ToolHooks, 0, 1, 0, 0) BY <2>1 DEF WorkInv
  <2> QED BY <1>0, <2>1, <2>2, <2>3 DEF WorkInv, Registry!EveryEventIsRunStep
<1>8. ASSUME Registry!PostHook PROVE WorkInv' /\ Registry!EveryEventIsRunStep
  <2>1. /\ phase = "post" /\ left > 0 /\ left \in Nat /\ left <= ToolHooks
        /\ toolOutcome \in {"ok", "failed"} /\ toolOutcome' = toolOutcome
        /\ ToolHooks - left \in Nat
    BY <1>0, <1>8 DEF Registry!PostHook, WorkInv
  <2>2. PICK t \in 0..1 : TraceIs(trace, ToolHooks, 0, t, ToolHooks - left, 0) BY <2>1 DEF WorkInv
  <2>3. CASE left' = left - 1 /\ Registry!Did("post") /\ UNCHANGED <<phase, result>>
    <3>1. TraceIs(trace', ToolHooks, 0, t, ToolHooks - left + 1, 0)
      BY <1>0, <2>1, <2>2, <2>3, TraceGrows DEF Registry!Did
    <3>2. ToolHooks - left + 1 = ToolHooks - left' BY <1>0, <2>1, <2>3
    <3> QED BY <1>0, <2>1, <2>3, <3>1, <3>2 DEF WorkInv, Registry!EveryEventIsRunStep
  <2>4. CASE /\ Registry!Did("postFailed") /\ left' = 0 /\ phase' = "idle"
             /\ result' = Registry!Result(toolOutcome, TRUE)
    <3>1. TraceIs(trace', ToolHooks, 0, t, ToolHooks - left, 1)
      BY <1>0, <2>1, <2>2, <2>4, TraceGrows DEF Registry!Did
    <3>2. Shaped' BY <1>0, <2>1, <3>1 DEF Shaped
    <3> QED BY <2>1, <2>4, <3>2 DEF WorkInv, Registry!FinishedIsNotFailed, Registry!Result,
          Registry!EveryEventIsRunStep
  <2> QED BY <1>8, <2>3, <2>4 DEF Registry!PostHook
<1>9. ASSUME Registry!PostHooksDone PROVE WorkInv' /\ Registry!EveryEventIsRunStep
  <2>1. /\ phase = "post" /\ left = 0 /\ toolOutcome \in {"ok", "failed"} /\ phase' = "idle"
        /\ result' = Registry!Result(toolOutcome, FALSE) /\ UNCHANGED <<left, toolOutcome, trace>>
    BY <1>9 DEF Registry!PostHooksDone, WorkInv
  <2>2. PICK t \in 0..1 : TraceIs(trace, ToolHooks, 0, t, ToolHooks - left, 0) BY <2>1 DEF WorkInv
  <2>3. ToolHooks - left = ToolHooks BY <1>0, <2>1
  <2>4. Shaped' BY <1>0, <2>1, <2>2, <2>3 DEF Shaped
  <2> QED BY <2>1, <2>4 DEF WorkInv, Registry!FinishedIsNotFailed, Registry!Result,
        Registry!EveryEventIsRunStep
<1>10. ASSUME Registry!RunHooks PROVE WorkInv' /\ Registry!EveryEventIsRunStep
  <2>1. Events \in Seq(Nat \ {0}) /\ Events # <<>> BY <1>10 DEF Registry!RunHooks,
          Registry!ToolRegistryAssumption
  <2>2. Events[1] \in Nat /\ 1 \in 1..Len(Events) BY <2>1
  <2>3. /\ phase = "idle" /\ phase' = "event" /\ left' = Events[1] /\ trace' = <<"event">>
        /\ toolOutcome' = "none"
    BY <1>10 DEF Registry!RunHooks, Registry!Begin
  <2>4. <<"event">> \in Seq(Marks) /\ Len(<<"event">>) = 1 /\ <<"event">>[1] = "event"
    BY DEF Marks
  <2> QED BY <2>2, <2>3, <2>4 DEF WorkInv, Eventful, Registry!EveryEventIsRunStep
<1>11. ASSUME Registry!EventCommand PROVE WorkInv' /\ Registry!EveryEventIsRunStep
  <2>1. /\ phase = "event" /\ toolOutcome = "none" /\ toolOutcome' = "none" /\ left \in Nat
        /\ trace \in Seq(Marks) /\ trace # <<>> /\ trace[1] = "event"
        /\ Len(trace) \in 1..Len(Events)
    BY <1>11 DEF Registry!EventCommand, WorkInv, Eventful
  <2>2. CASE left > 1 /\ left' = left - 1 /\ UNCHANGED <<phase, trace, result>>
    BY <2>1, <2>2 DEF WorkInv, Eventful, Registry!EveryEventIsRunStep
  <2>3. ASSUME NEW how, Registry!NextEvent(how) PROVE WorkInv' /\ Registry!EveryEventIsRunStep
    <3>1. CASE Len(trace) = Len(Events)
      BY <2>1, <2>3, <3>1 DEF Registry!NextEvent, WorkInv, Eventful, Registry!FinishedIsNotFailed,
        Registry!EveryEventIsRunStep
    <3>2. CASE Len(trace) # Len(Events)
      <4>1. Events \in Seq(Nat \ {0}) BY DEF Registry!ToolRegistryAssumption
      <4>2. Len(trace) + 1 \in 1..Len(Events) BY <2>1, <3>2, <4>1
      <4>3. Events[Len(trace) + 1] \in Nat BY <4>1, <4>2
      <4>4. "event" \in Marks BY DEF Marks
      <4>5. /\ Append(trace, "event") \in Seq(Marks) /\ Len(Append(trace, "event")) = Len(trace) + 1
            /\ Append(trace, "event")[1] = "event"
        BY <2>1, <4>4
      <4>6. phase' = phase /\ left' = Events[Len(trace) + 1] /\ trace' = Append(trace, "event")
        BY <2>3, <3>2 DEF Registry!NextEvent, Registry!Did
      <4> QED BY <2>1, <4>2, <4>3, <4>5, <4>6 DEF WorkInv, Eventful, Registry!EveryEventIsRunStep
    <3> QED BY <3>1, <3>2
  <2> QED BY <1>11, <2>2, <2>3 DEF Registry!EventCommand
<1> QED BY <1>1, <1>2, <1>3, <1>4, <1>5, <1>6, <1>7, <1>8, <1>9, <1>10, <1>11 DEF Registry!Next

\* Every step keeps the invariant.
LEMMA RegistryStep ==
  Registry!ToolRegistryAssumption /\ RegistryInv /\ [Registry!Next]_Registry!vars => RegistryInv' /\
    Registry!EveryEventIsRunStep
<1> SUFFICES ASSUME Registry!ToolRegistryAssumption, RegistryInv, [Registry!Next]_Registry!vars
             PROVE  RegistryInv' /\ Registry!EveryEventIsRunStep
  OBVIOUS
<1>1. ListInv' BY ListStep DEF RegistryInv
<1>2. WorkInv' /\ Registry!EveryEventIsRunStep BY WorkStep DEF RegistryInv
<1>3. Write \in Registry!Risky BY DEF Registry!Risky
<1>4. Registry!UndoPointIsLatestWrite'
  BY <1>3 DEF RegistryInv, Registry!UndoPointIsLatestWrite, Registry!Next, Registry!vars,
    Registry!undo, Registry!AddTools, Registry!RemoveTools, Registry!ReplaceTools,
              Registry!SetAllowed, Registry!Called, Registry!PreHook, Registry!PreHooksDone,
                Registry!UnknownTool, Registry!Start, Registry!Tracks, Registry!CheckpointFails,
              Registry!ToolEnds, Registry!PostHook, Registry!PostHooksDone, Registry!RunHooks,
                Registry!EventCommand
<1> QED BY <1>1, <1>2, <1>4 DEF RegistryInv

\* However the calls, the hooks, the events and the changes of the registry fall:
\* every registered tool is listed once, a tool runs between its hooks, a call
\* that finished is not failed by a hook, and the undo point is the latest write.
THEOREM ToolRuns ==
  Registry!ToolRegistryAssumption /\ Registry!Spec =>
    [](Registry!EveryToolIsListedOnce /\ Registry!HooksSurroundTheTool /\
      Registry!FinishedIsNotFailed /\ Registry!UndoPointIsLatestWrite)
<1> SUFFICES ASSUME Registry!ToolRegistryAssumption
             PROVE  Registry!Spec =>
                      [](Registry!EveryToolIsListedOnce /\ Registry!HooksSurroundTheTool
                                                      /\ Registry!FinishedIsNotFailed
                                                      /\ Registry!UndoPointIsLatestWrite)
  OBVIOUS
<1>1. Registry!Init => RegistryInv BY ListStart
<1>2. RegistryInv /\ [Registry!Next]_Registry!vars => RegistryInv' BY RegistryStep
<1>3. RegistryInv =>
        /\ Registry!EveryToolIsListedOnce /\ Registry!HooksSurroundTheTool
        /\ Registry!FinishedIsNotFailed /\ Registry!UndoPointIsLatestWrite
  BY RegistryPromise
<1> QED BY <1>1, <1>2, <1>3, PTL DEF Registry!Spec

\* Every lifecycle event is run, whatever failed before it.
THEOREM EventsRun == Registry!ToolRegistryAssumption /\ Registry!Spec => Registry!EveryEventIsRun
<1> SUFFICES ASSUME Registry!ToolRegistryAssumption PROVE Registry!Spec => Registry!EveryEventIsRun
  OBVIOUS
<1>1. Registry!Init => RegistryInv BY ListStart
<1>2. RegistryInv /\ [Registry!Next]_Registry!vars => RegistryInv' /\
        [Registry!EveryEventIsRunStep]_Registry!vars
  BY RegistryStep
<1> QED BY <1>1, <1>2, PTL DEF Registry!Spec, Registry!EveryEventIsRun
=============================================================================
