---------------------------- MODULE ToolRegistry ----------------------------
(***************************************************************************)
(* The tools of a session: the registry (tools/registry.py), the filter of *)
(* the active agent (app/agents.py), the extension hooks around a call     *)
(* (app/session.py, app/workflows.py) and the checkpoint before a call     *)
(* that writes (runtime/session/checkpoint.py).                            *)
(*                                                                         *)
(* A call awaits its hooks and its tool; the tools of an MCP server may be *)
(* added, removed and replaced meanwhile.  A tool is the number of its     *)
(* registration.  A hook is a command run by the tool Shell, without hooks *)
(* of its own; how commands run is in RunExec.tla.                         *)
(***************************************************************************)
EXTENDS Integers, Sequences, FiniteSets, SequencesExt

CONSTANTS
  Read, Write, Shell,   \* built-in tools: one that reads, one that writes a file, run_command
  Dynamic,              \* names of discovered tools
  NoName,               \* a discovered tool without a name
  ToolHooks,            \* commands of pre_tool, and of post_tool
  Events,               \* lifecycle events, a sequence: the number of commands of each
  MaxCalls, MaxChanges  \* bounds: calls and runs of the events; changes of the registry

BuiltIn == {Read, Write, Shell}
Risky == {Write, Shell} \cup Dynamic
Names == BuiltIn \cup Dynamic

ToolRegistryAssumption ==
  /\ Cardinality(BuiltIn) = 3 /\ BuiltIn \cap Dynamic = {} /\ NoName \notin Names
  /\ ToolHooks \in Nat /\ Events \in Seq(Nat \ {0})
  /\ MaxCalls \in Nat /\ MaxChanges \in Nat

VARIABLES
  tools, order,   \* Registry._tools and _order
  allowed,        \* filteredToolRunner._allowed, {} when nothing is restricted
  changes,        \* registrations so far
  phase,          \* of the call or event under way: "idle", "pre", "lookup", "running", "post", "event"
  call,           \* the name called
  left,           \* hook commands left of the event under way
  held,           \* the tool that runs
  outcome,        \* of the tool: "none", "ok" or "failed"
  result,         \* of the call: "none", "ok", "noted" a failed hook, or "failed"
  trace,          \* what the call or the events have run, for the properties
  undoPoint,      \* the call the newest checkpoint with files was taken for
  written,        \* the latest call that may have written a file, for the properties
  calls           \* calls and runs of the events so far

registry == <<tools, order, allowed, changes>>
work == <<phase, call, left, held, outcome, result, trace>>
undo == <<undoPoint, written>>
vars == <<registry, work, undo, calls>>

Init ==
  /\ order = <<Read, Write, Shell>> /\ tools = [name \in BuiltIn |-> 0]
  /\ allowed = {} /\ changes = 0
  /\ phase = "idle" /\ call = Read /\ left = 0 /\ held = 0
  /\ outcome = "none" /\ result = "none" /\ trace = <<>>
  /\ undoPoint = 0 /\ written = 0 /\ calls = 0

-----------------------------------------------------------------------------
(* The registry.  Every change is one step of the event loop.              *)

Batches == SeqOf(Dynamic \cup {NoName, Read}, 2)
Distinct(batch) == \A i, j \in DOMAIN batch : batch[i] = batch[j] => i = j

\* Mutant: a batch is only compared with what is registered.
AcceptableAmongOthers(batch, taken) ==
  \A i \in DOMAIN batch : batch[i] # NoName /\ batch[i] \notin taken

\* The whole batch is looked through before anything is changed.
Acceptable(batch, taken) ==
  /\ \A i \in DOMAIN batch : batch[i] # NoName /\ batch[i] \notin taken
  /\ Distinct(batch)

Registered(kept, batch) ==
  [name \in kept \cup ToSet(batch) |->
    IF name \in ToSet(batch) THEN changes + 1 ELSE tools[name]]

Change == changes < MaxChanges /\ changes' = changes + 1

AddTools(batch) ==
  /\ Change
  /\ IF Acceptable(batch, DOMAIN tools)
     THEN tools' = Registered(DOMAIN tools, batch) /\ order' = order \o batch
     ELSE UNCHANGED <<tools, order>>
  /\ UNCHANGED <<allowed, work, undo, calls>>

\* A recursive function, and not SelectSeq, so that it can be reasoned about.
Filtered(seq, names) ==
  LET kept[i \in 0..Len(seq)] ==
        IF i = 0 THEN <<>>
        ELSE IF seq[i] \in names THEN Append(kept[i - 1], seq[i]) ELSE kept[i - 1]
  IN  kept[Len(seq)]

Without(names) == Filtered(order, ToSet(order) \ names)

RemoveTools(names) ==
  /\ Change
  /\ tools' = Registered(DOMAIN tools \ names, <<>>) /\ order' = Without(names)
  /\ UNCHANGED <<allowed, work, undo, calls>>

ReplaceTools(names, batch) ==
  /\ Change
  /\ IF Acceptable(batch, DOMAIN tools \ names)
     THEN tools' = Registered(DOMAIN tools \ names, batch) /\ order' = Without(names) \o batch
     ELSE UNCHANGED <<tools, order>>
  /\ UNCHANGED <<allowed, work, undo, calls>>

SetAllowed(names) ==
  /\ phase = "idle" /\ allowed' = names
  /\ UNCHANGED <<tools, order, changes, work, undo, calls>>

\* What the model is told of.
Specs == Filtered(order, IF allowed = {} THEN ToSet(order) ELSE allowed)

-----------------------------------------------------------------------------
(* A call of the model, or a query of the interface, which no filter sees. *)

Begin == phase = "idle" /\ calls < MaxCalls /\ calls' = calls + 1
Did(event) == trace' = Append(trace, event)

Called(name, query) ==
  /\ Begin /\ call' = name /\ held' = 0 /\ outcome' = "none" /\ trace' = <<>>
  /\ IF query \/ allowed = {} \/ name \in allowed
     THEN phase' = "pre" /\ left' = ToolHooks /\ result' = "none"
     ELSE phase' = "idle" /\ left' = 0 /\ result' = "failed"
  /\ UNCHANGED <<registry, undo>>

Fail == phase' = "idle" /\ left' = 0 /\ result' = "failed"

\* Mutant: a failed command of pre_tool is passed over.
PreHookPassed == Did("preFailed") /\ left' = left - 1 /\ UNCHANGED <<phase, result>>

PreHookFailed == Did("preFailed") /\ Fail

\* One command of pre_tool; the first that fails fails the call.
PreHook ==
  /\ phase = "pre" /\ left > 0
  /\ \/ left' = left - 1 /\ Did("pre") /\ UNCHANGED <<phase, result>>
     \/ PreHookFailed
  /\ UNCHANGED <<registry, undo, call, held, outcome, calls>>

PreHooksDone ==
  /\ phase = "pre" /\ left = 0 /\ phase' = "lookup"
  /\ UNCHANGED <<registry, undo, call, left, held, outcome, result, trace, calls>>

\* What follows the tool: its post_tool hooks, whatever came of it.
Finish(how) == outcome' = how /\ phase' = "post" /\ left' = ToolHooks

UnknownTool ==
  /\ phase = "lookup" /\ call \notin DOMAIN tools
  /\ Finish("failed")
  /\ UNCHANGED <<registry, undo, call, held, result, trace, calls>>

\* Mutant: every risky call is given a checkpoint, whatever it touches.
TracksAnyRisky(name) == name \in Risky

\* The calls whose argument names the file they write.
Tracks(name) == name = Write

\* A risky call is offered to the checkpoint first, which may refuse it.
Start ==
  /\ phase = "lookup" /\ call \in DOMAIN tools
  /\ phase' = "running" /\ held' = tools[call] /\ Did("tool")
  /\ undoPoint' = IF call \in Risky /\ Tracks(call) THEN calls ELSE undoPoint
  /\ written' = IF call = Write THEN calls ELSE written
  /\ UNCHANGED <<registry, call, left, outcome, result, calls>>

CheckpointFails ==
  /\ phase = "lookup" /\ call \in DOMAIN tools /\ call \in Risky /\ Tracks(call)
  /\ Finish("failed")
  /\ UNCHANGED <<registry, undo, call, held, result, trace, calls>>

ToolEnds ==
  /\ phase = "running" /\ \E how \in {"ok", "failed"} : Finish(how)
  /\ UNCHANGED <<registry, undo, call, held, result, trace, calls>>

\* Mutant: a failed hook fails the call.
ResultOfHook(how, hookFailed) == IF hookFailed THEN "failed" ELSE how

\* The tool's own error stands; a failed hook is noted in the output.
Result(how, hookFailed) == IF how = "ok" /\ hookFailed THEN "noted" ELSE how

PostHook ==
  /\ phase = "post" /\ left > 0
  /\ \/ left' = left - 1 /\ Did("post") /\ UNCHANGED <<phase, result>>
     \/ /\ Did("postFailed") /\ left' = 0
        /\ phase' = "idle" /\ result' = Result(outcome, TRUE)
  /\ UNCHANGED <<registry, undo, call, held, outcome, calls>>

PostHooksDone ==
  /\ phase = "post" /\ left = 0
  /\ phase' = "idle" /\ result' = Result(outcome, FALSE)
  /\ UNCHANGED <<registry, undo, call, left, held, outcome, trace, calls>>

-----------------------------------------------------------------------------
(* Lifecycle events, one after another.                                    *)

RunHooks ==
  /\ Begin /\ Events # <<>>
  /\ phase' = "event" /\ left' = Events[1] /\ trace' = <<"event">> /\ result' = "ok"
  /\ outcome' = "none" /\ call' = Shell /\ held' = 0
  /\ UNCHANGED <<registry, undo>>

\* Mutant: a failure ends the run.
NextEventUnlessFailed(how) ==
  IF how = "failed" \/ Len(trace) = Len(Events)
  THEN phase' = "idle" /\ left' = 0 /\ trace' = trace
  ELSE phase' = phase /\ left' = Events[Len(trace) + 1] /\ Did("event")

\* The next event begins, or the run ends with the failures joined.
NextEvent(how) ==
  IF Len(trace) = Len(Events)
  THEN phase' = "idle" /\ left' = 0 /\ trace' = trace
  ELSE phase' = phase /\ left' = Events[Len(trace) + 1] /\ Did("event")

\* A command that fails keeps the rest of its event from running.
EventCommand ==
  /\ phase = "event"
  /\ \/ left > 1 /\ left' = left - 1 /\ UNCHANGED <<phase, trace, result>>
     \/ left = 1 /\ NextEvent("ok") /\ result' = result
     \/ NextEvent("failed") /\ result' = "failed"
  /\ UNCHANGED <<registry, undo, call, held, outcome, calls>>

Next ==
  \/ \E batch \in Batches \ {<<>>} : AddTools(batch)
  \/ \E names \in SUBSET Dynamic : RemoveTools(names) \/ (\E batch \in Batches : ReplaceTools(names, batch))
  \/ \E names \in {{}, {Read}, {Read, Write} \cup Dynamic} : SetAllowed(names)
  \/ \E name \in Names, query \in BOOLEAN : Called(name, query)
  \/ PreHook \/ PreHooksDone \/ UnknownTool \/ Start \/ CheckpointFails \/ ToolEnds
  \/ PostHook \/ PostHooksDone
  \/ RunHooks \/ EventCommand

Spec == Init /\ [][Next]_vars

-----------------------------------------------------------------------------
(* Properties.                                                             *)

\* Whatever was added, removed and replaced, and however a batch was refused,
\* the order lists every registered tool once: what the model is told of can
\* be called.
EveryToolIsListedOnce ==
  /\ ToSet(order) = DOMAIN tools /\ Distinct(order) /\ BuiltIn \subseteq DOMAIN tools
  /\ ToSet(Specs) \subseteq DOMAIN tools

Ran(event) == \E i \in DOMAIN trace : trace[i] = event
Count(event) == Cardinality({i \in DOMAIN trace : trace[i] = event})

\* A tool runs once, after all its pre_tool commands have succeeded, and its
\* post_tool commands come after it; hooks do not run for hooks.
HooksSurroundTheTool ==
  ~Ran("event") =>
    /\ Ran("tool") => Count("pre") = ToolHooks /\ ~Ran("preFailed") /\ Count("tool") = 1
    /\ \A i, j \in DOMAIN trace :
         trace[i] \in {"post", "postFailed"} /\ trace[j] \in {"pre", "tool"} => j < i
    /\ Len(trace) <= 2 * ToolHooks + 1

\* A call whose tool has finished is not failed by a hook, and the error of a
\* tool that failed is not covered by one.
FinishedIsNotFailed ==
  (phase = "idle" /\ outcome # "none") => (result \in {"ok", "noted"}) = (outcome = "ok")

\* The checkpoint an undo goes back to is that of the latest call that may have
\* written a file, whatever commands and hooks have run since.
UndoPointIsLatestWrite == undoPoint = written

\* Every lifecycle event is run, whatever failed before it.
EveryEventIsRunStep ==
  phase = "event" /\ phase' = "idle" => Len(trace') = Len(Events)

EveryEventIsRun == [][EveryEventIsRunStep]_vars
=============================================================================
