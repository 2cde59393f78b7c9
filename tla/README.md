# super-agent: specifications, model checks and proofs

This directory holds TLA+ specifications of super-agent (`src/super_agent`), a
coding agent for the terminal: a conversation with a language model in which the
model asks for tools, the user approves them, and the results go back to the
model. Everything runs on one asyncio event loop. The specifications are written
from the code; where a document says something else, the code is what is
modelled and the difference is recorded (*Findings*, *Other divergences*).

`tlc -config MCRuntime.cfg MCRuntime.tla` checks an instance, `tlapm EngineProofs.tla`
checks the proofs of a module. `PROJECT.json` lists components, runs, mutants, the
map from definitions to source lines, hazards and theorems.

| files | what they are |
|---|---|
| `AgentMachine`, `Engine` | the pure state machine, and the queue, runs, loop and commands around it |
| `Store`, `DurableLog` | the session store with crashes and short writes, and the log it promises |
| `SessionMeta`, `Codec` | the metadata beside each log, write by write, and how values are stored |
| `Session`, `History` | turns, emissions and their queue; resume, fork, compact, undo, memory |
| `Policy`, `CommandAnalyzer` | permissions, always-allow, the class of a command |
| `ModelStream`, `ProviderMessages` | what a provider streams, and what it is sent |
| `ToolRegistry`, `WorkspaceFiles`, `RunExec`, `WebFetch` | the tools: names and hooks, files, commands, pages |
| `RunContext` | the tree of cancellable contexts |
| `McpManager`, `McpSession`, `LspManager`, `LspClient` | servers: who owns them, and one connection |
| `TerminalTurn`, `Scrollback`, `Transcript`, `Composer`, `Commands` | the terminal |
| `Configuration`, `SettingsFile`, `Extensions`, `Instructions`, `Startup`, `Delegation` | the application around the runtime |
| `MCAgentMachine`, `MCEngine`, `MCStore` | small instances of one module each |
| `MCRuntime`, `MCInterface`, `MCLiveness` | suites: small instances of many modules, side by side |
| `EngineProofs` | theorems about the machine, the engine and the store, checked by TLAPS |
| `ToolsProofs`, `ServersProofs`, `ApplicationProofs`, `SetupProofs` | theorems about the components of the suites, several to a module |
| `RuntimeProofs`, `InterfaceProofs`, `SessionProofs` | what these say of the two suites, as the runs check them |

## Inventory

| component (source) | state | what is hard | correct when | modules |
|---|---|---|---|---|
| State machine (`runtime/machine`) | state, messages, pending and running call, open batch and index, streamed text | three slots and an index say how far a batch has come; a cancel or failure in between answers what is left from all of them | every call in the transcript has its answer directly behind it whenever a request may be sent; no handler builds data the validation rejects | `AgentMachine` |
| Engine and loop (`runtime/engine`, `execution`) | action queue, run id and context, observers | `cancel` and `reset` come while a turn is suspended in an action or in the observer and run the same loop; late completions | queue and action in flight belong to the current run and state; cancelling reaches the action; a turn ends | `Engine` |
| Run context (`runtime/protocol/run_context.py`) | event, children and values of each context | a child has its own event, a derived context shares one; cancel before or after the child is made | whoever waits under a cancelled context is woken | `RunContext` |
| Permission policy (`execution/policy.py`, `approval_store.py`, `command_analyzer.py`) | mode, rules, always-allowed keys, pending call | precedence of rules, modes and earlier decisions, over a sequence of both | nothing denied runs, nothing risky runs unasked, a decision is for the command shown | `Policy`, `CommandAnalyzer` |
| Session (`runtime/session`: turn, session, emitter) | turn lock, count of emitted messages, bounded queue, approvals, staged attachments | `emit` suspends in the middle and is entered by the turn and by `cancel`/`reset`; saves fail; the queue fills | each message is saved once, in order, and shown | `Session` |
| History (`runtime/session/history.py`, `checkpoint.py`) | active session, logs, memory, checkpoints, tracked files | several steps each of which can fail; a summary awaited while a reset comes | log, conversation, workspace and files tell one story | `History` |
| Session store (`store/`, `jsonutil.py`, `timeutil.py`) | JSON-lines log and metadata per session | crashes inside writes, torn tails, short writes; every record rewrites the whole metadata | what was saved is what is loaded, less at most the record being written; no change of the metadata undoes another | `Store`, `DurableLog`, `SessionMeta`, `Codec` |
| Registry, hooks (`tools/registry.py`, `app/session.py`, `app/workflows.py`) | registered tools, order, filter, call under way | a call awaits its hooks while the tools of a server are replaced | what is offered can be called; a tool runs once, between its hooks, after its checkpoint | `ToolRegistry` |
| Files, workspace boundary (`tools/files.py`, `workspace/`) | roots, context, checkpoint | links, missing directories, a path replaced between check and use | nothing outside the roots is read or written; undo restores | `WorkspaceFiles` |
| Command execution (`tools/commands.py`, `bash.py`, `proc_unix.py`, `output.py`) | process group, pipe, capped buffer | exit, timeout, cancellation, reader and job race | output is whole or marked, the group is gone, a cut command is an error | `RunExec` |
| Web (`tools/web.py`) | target, hop, connection | resolvers and redirects change their minds | only checked public addresses are dialled | `WebFetch` |
| MCP (`tools/mcp`, `app/mcp.py`) | servers, tools, pending requests, configuration | manager, registry and settings change in steps that fail; restart and close race; late answers | the three agree; nothing refused, replaced or rolled back is left running; an answer is for its request | `McpManager`, `McpSession` |
| LSP (`tools/lsp`) | clients and their root, pending requests, write lock | a move of the workspace replaces the servers one by one; a pipe wedges | each process has an owner; nobody waits on a dead pipe | `LspManager`, `LspClient` |
| Model providers (`llm/`) | accumulators of a stream | fragments of several calls interleave; streams end early | a response is the whole reply; both providers get the same conversation | `ModelStream`, `ProviderMessages` |
| Terminal (`tui/`, `app/tui_adapter.py`) | inbox, turn, menu, channels, draft, transcript, what is printed | a listener, a bridge, a turn and a read loop; Ctrl+C anywhere; chunks lost | one turn at a time, a decision is for its call, a reply is printed once as it arrives, what is shown is so | `TerminalTurn`, `Scrollback`, `Transcript`, `Composer`, `Commands` |
| Configuration, agents (`cli.py`, `app/config.py`, `app/agents.py`) | flags, environment, settings, active profile | merging; a switch of agents assigns four things in steps | a mode is off only on request; prompt, model, tools and name belong together | `Configuration`, `SettingsFile` |
| Extensions, instructions (`app/extensions.py`, `app/instructions`) | commands, hooks, sources | precedence, duplicates, directories on the path | nothing is overridden silently, every layer is heard once | `Extensions`, `Instructions` |
| Sub-agents (`app/subagents.py`) | chain of delegations, worktrees, denier | every step fails or is cancelled | depth is bounded, no worktree and no child is left | `Delegation` |
| Startup and shutdown (`__main__.py`, `app/session.py`) | what was opened and who will close it | a dozen steps, any of which raises | what was opened is closed | `Startup` |
| Prompts, sandbox wrapping, telemetry | none of their own | formatting, process arguments, logging | - | not modelled |

The hazards of each part, at the lines where they bite, are listed in
`PROJECT.json` with the properties that would catch them going wrong.

## How the project is built

Every module models one component: its state as variables, one action per operation,
handler or step between two suspensions of the event loop, bounds as constants. A module
states its properties in its last section, each below a comment. Components that are the
larger state machines have an MC module and a run of their own. The others are
checked in *suites*: `MCRuntime`, `MCInterface` and `MCLiveness` instantiate each module
with a small instance of its own (`INSTANCE ... WITH`), over shared variables `v1`, `v2`, ...
named in the order of the instance. `component` is chosen in the initial state, by
`component \in Checked`, and never changes: a behaviour of the suite is a behaviour of *one*
component, and the states of the suite are those of its components side by side, not their
product. Nothing composes there, and nothing is claimed of a composition. To check one
component only, give `Checked` that one. A property of a suite says, for each component it
is about, that its own properties hold, as a step property `[][component = "x" => P' /\ A]_vars`
where one of them is an action property (invariants are then looked at in the
state a step leads to, and not in the initial states, where nothing has happened yet).

Composition, where it matters, is by refinement and by assumption:

- `Engine` extends `AgentMachine` and is proved to implement it; `Store` is proved to implement
  `DurableLog`. The store on a full disk is checked against the same `DurableLog` (`DurableLogStep`),
  together with what it may lose there (`LossOnFullDiskStep`).
- `Session` reduces the engine to what a session sees of it, `TerminalTurn` the session to what
  a terminal sees, `Delegation` the child to what its parent sees. `Scrollback` takes from
  `TerminalTurn` that all of a turn is drained before the next prompt (`PromptIsLast`),
  `ProviderMessages` from `AgentMachine` that a request is sent with an answered transcript.
- `CommandAnalyzer` is extended by `Policy`.

## AgentMachine

Each variable is a field of `RuntimeData`, and `plan` is the `ActionPlan` of the last
decision. Each action is one handler of `machine/transition.py` together with
what `runtime_data_change_applier.py` does for the changes it returns. An event that
the registry has no row for, or whose guard fails, raises in the code and changes
nothing: there is no step for it. Actions take *any* call, not only the right one,
as an event could carry.

| action | code |
|---|---|
| `EngineReady` ... `ToolCallDenied` | the handler of that name; `ApprovalGranted` is also `ApprovalAlwaysGranted` (they share `_approve_tool`) |
| `ErrorOccurred`, `CancelRequested` | one `Abandon`: flush the interrupted text, answer what is outstanding, clear, Idle |
| `ResetRequested` | keeps the system messages |
| `RecordStreamChunk` | `_record_stream_chunk`, which changes the data without an event |
| `ReplaceMessages` | the data `replace_messages` installs |

Abstractions. A message is its role, the calls it makes, the call it answers and one
of six outcomes (said, interrupted, result, denied, aborted, skipped); the streamed
text is a Boolean. `pending_permission` is not a variable: it is set and cleared with
`pending_tool`. Name and input of a call are one value, since `same_tool_call` tells
calls apart by id and, without one, by both.

`validate_runtime_data` is an invariant, `ValidRuntimeData`, and not a guard. The code
throws away a candidate that fails; a model that did the same would hide every bug in
a handler. That the invariant holds shows the validation never fires on a
handler's candidate. (For a stream chunk it does act as a guard, and there it is one.)

`TranscriptAssumption` says the conversations handed to `replace_messages` are well
answered. It is a real restriction: `undo` cuts the log at a checkpoint, a checkpoint
is taken while a tool call runs, and the conversation before it ends in a call
without an answer. `undo` is in `History`; the
results here are about a session in which it is not used.

## Engine

The engine runs on one event loop, so a step is what happens between two suspensions.
Tasks: one `Turn`, which runs one turn after the other, and any number of `Commands`,
which cancel and reset. A task is `idle`; or in the observer after a commit
(`notify`); or inside an action (`running`); or, a turn only, publishing its last
snapshot (`closing`). The state lock is never held across a suspension, so it has no
variable.

| variable | code |
|---|---|
| `queue` | `ActionQueue`, each entry with the run it was scheduled for |
| `runId`, `context` | `DefaultRunController._run_id`, `_context`; a context is named by its run |
| `turnContext`, `parentCancelled` | the context `run_turn` derived, and whether its caller cancelled the parent |
| `pc`, `action`, `loopRun`, `failing` | where the coroutine of each task is, and its locals |

| action | code |
|---|---|
| `RunTurn` | `run_turn` and `_dispatch_event` up to the observer |
| `Finish`, `TakeAction`, `CheckToolQueue` | an iteration of `_run_scheduled_actions`: idle with nothing to do; pop and execute; pop a queue check, which never suspends and commits in the same step |
| `Complete` | the action returns: staleness check, resolver, commit |
| `Abort`, `Fail` | it raises `Cancelled`, or anything else; both dispatch their event with everything suppressed and leave the loop with the exception |
| `StreamChunk` | `teed` and `_record_stream_chunk` |
| `Cancel`, `Reset`, `Replace`, `Ready` | `commands.py` |
| `CancelContext` | the interface cancels the context it passed in, and nothing else |
| `EndTurn` | the session's last snapshot, and the observer is removed |

The policy's answer to `CheckToolQueue` is a free choice of the three events. The
observer publishes and never raises. A tool never fails: what it raises becomes its
result. An approval that is `running` may end in `Abort` at any time, since the
interface may close its queue.

`RunTurn` needs all tasks idle. Two turns exclude each other by the session's lock; a
command that is still in the observer of the last turn is done before the next one,
because the interface drains the turn's queue before it lets the turn return
(`tui_adapter.py`, 276-284); `PromptIsLast` of `TerminalTurn` is that drain.

`InvariantViolationError` is no action: `LoopNeverStarves` says it is unreachable.

## Store

`store/store.py` takes one lock per method, so a method is one step, and what comes
between its writes is a crash: `CrashInX` is `X` with the process or the machine
stopping in the middle. A log file is its lines and what follows the last newline,
`Clean` (nothing), `Torn` (part of a record) or a record without its newline; a line
that is not exactly one record is `Corrupt`.

| variable | code |
|---|---|
| `files` | `events.jsonl` of each session, or `NoFile` |
| `meta` | whether its `meta.json` exists |
| `up`, `opened` | whether the process runs, and the sessions it has created or loaded and may append to |

| action | code |
|---|---|
| `Create` | `create`: the log line by line, then the metadata. That it removes the directory when a write raises leaves everything as before, so that is no step |
| `AppendRecord`, `ShortAppend` | `append`; the file is created if it is not there (a session deleted under a running child). `ShortAppend` is the same when `os.write` writes less than it was given |
| `Load` | any reader: `_records_unlocked` reads, heals a torn tail by truncating, or raises (then nothing changes). A session is opened when its metadata is there too |
| `TruncateAfter`, `ShortTruncate` | `truncate_after`: read and heal, write the shorter log aside, rename. `n` counts the records kept, at least two: the last is a checkpoint and the first is `session_started` |
| `Delete` | `delete` |

`Residues` is what a crash may leave of the line in flight: nothing, a part of it, all of
it but the newline, or all. `Next` has no short writes, `NextOnFullDisk` adds them. The `store`
run and the theorems leave out `"noNewline"` and short writes; `store_newline` and `store_short`
have one of them each, and there the code does not keep what it promises (see *Findings*);
the component `full_disk` of `MCRuntime` has both and checks what is still kept (`LossOnFullDiskStep`). The steps that may
take records away are a deletion, a cut (a short one keeps a record less than asked), and an append behind a line that has no
newline or is no record; such an append loses the one record it is glued to, or makes the log unreadable, and an
unreadable log stays so.

`DurableLog` is the promise: a log per session that is created, appended to, cut and
deleted, and no crash. `LogOf` is the mapping: what opening the session would return now,
`NoLog` if it cannot be found or read. `DurableLog` lets a cut happen at any time, so the
refinement alone does not say who cuts; `RecordsStay` does, and on a full disk `LossOnFullDiskStep`.

Taken for granted: a rename and a directory entry survive a power loss (the code syncs
files and not directories); one process per session (the lock is a thread's); ids from
the clock are new. The replay of records into messages and `_memory.json` are in `History`, what metadata holds is in
`SessionMeta`; the 20 MiB read cap is left out.

## SessionMeta and Codec

`SessionMeta` is the same store with a smaller step: a method enters by taking the lock (`Enter`) and reading the
metadata it goes by, and its writes follow one by one (`WriteTemporary`, `ReplaceMeta`, `WriteRecord`, and the removals of a
deletion, in any order). In its place a write may fail (`RefreshFails`, which an append survives; `WriteFails`, which
raises; `CreateFails`, which removes the directory; `RemovalFails`, which nobody is told of), and the process may crash.

| variable | code |
|---|---|
| `meta`, `log`, `temps` | `meta.json`, the turn of each record of `events.jsonl`, and the `.meta-*.json` files beside them |
| `lock`, `call` | `Store._lock`, and what each caller in a method has read and still has to write |
| `session`, `running` | the session a caller has open, and the turn it was told to run |
| `kept`, `deleted`, `crashes` | what was last written on purpose, for the properties |

`Create` (new sessions and forks), `AppendRecord` (every `save_*` of the repository), `AssignNewTurn`, `RenameSession`, `Delete`,
`SaveWorkspaceDescription` and `Resume` are the methods; in the initial state any session may be one of an older
version, with a working directory only. Properties: `NoChangeIsUndone` (a title, a turn or an upgraded workspace
survives whoever rewrites the file after it), `RecordsAreOfTheirTurn` (a record carries the turn its writer runs),
`FoundIsWhole` (what is listed has its beginning), `NothingIsLeftBehind` (without a crash neither a temporary file nor a log
without metadata). That records are whole lines is `Store`'s subject; a session that was being deleted when a removal failed
or the process died may stay in the list without its log, and the properties leave it out. The copy of the metadata a session holds in memory is not in the model: a session renamed while it
is open keeps its old title there (`runtime/session/history.py`, 189-192), for an export and for a fork without a title.

`Codec` is `jsonutil.py` with the timestamps of `timeutil.py`: types as data, `ToJson` and `FromJson` over them, an
instant as its digits. `Edit` is another version of the program, which leaves out a field, adds one, or writes null.
`RewriteIsLossless`: what was written is read as it was, to the last digit, and written again it is the same file;
`OtherVersionsAreKept`: a rewrite keeps every field this version knows, and refuses a file only for a null where there must be a
value. The suite takes both as a step property on the state a step leaves (`RecordsAreKeptStep`), and every state has a step.
A field this version does not know is dropped by the next rewrite, and an empty list that may be absent comes back absent.

## Session

`runtime/session` around the engine, on one event loop: `holder` is the task the loop is running
and nobody else takes a step until it gives way, which `await queue.put` does only when the
queue is full. The engine is reduced to appending messages, waiting for a decision,
failing, and being idle.

| variable | code |
|---|---|
| `messages`, `state`, `pending`, `retired`, `made` | the engine as a session sees it; a message is numbered by the commit that adds it |
| `emitted`, `hasApproval`, `lastApproval` | `SnapshotEmitter` |
| `log`, `queue`, `staged` | the records, the notification queue of the turn, attachments for the next turn |
| `shown` | what the reader of the queue has been told |
| `pc`, `emit`, `holder` | where each task and its emission is |

`RunTurn`, `Loop`, `Complete`, `Decide`, `Fail`, `FailTurn`, `EndTurn` are the stages of `turn.py`;
`EmitState`, `EmitApproval`, `EmitMessage`, `EmitEnd` those of `emit`, each of which may `Block`; `Cancel`,
`CancelEnds`, `Reset`, `ResetEnds`, `ReplaceConversation`, `Attach` the commands; `Receive` the interface.
Chunks and usage reports, dropped when the queue is full, and the closers are left out.

Properties: `LogReplaysToConversation` (between turns the log replays to the conversation),
`DecisionIsRecordedStep` (a decision is in the log before the run moves on), `ScreenSettles`,
`WaitIsAsked`, `AttachmentsLeaveWithMessageStep`, and on a full queue `NoMessageIsLost`.

## History

`history.py` and `checkpoint.py` over the logs of all sessions (`store.py` through `repository.py`).
`live` is the conversation, `logs` the records, `Replay` what `messages_from_records` makes of them,
`step` where a turn or a compaction is, `file` the version of a tracked file, `memory` and `promised`
the memory file and what was reported as remembered. `Fork`, `Delete`, `Remember`, `Forget`, `Resume`,
`CompactBegin`/`CompactEnd`/`CompactFails`, `Undo`/`UndoFails` are the commands with a step of their own for each
failure that leaves something behind; a message is emitted and saved as it is appended, because what may
come between is the subject of `Session`, as crashes are of `Store`. Titles and the upgrade of old metadata
are in `SessionMeta`.

Properties: `LogMatchesTranscript`, `CheckpointKeepsItsMoment` (the log before a checkpoint replays to the
transcript of its moment), `NoOrphanResult`, `WorkspaceOfSession`, `UndoReturnsToCheckpointStep`.

## Policy and CommandAnalyzer

A command is the sequence of its fields; what the analysis looks for in the characters of a field is given by
sets of fields (`UrlWords`, `RedirectWords`, `PathWords`, `EnvWords`). `ClassifyToolCall` is `classify_tool_call` in the
order of its returns, `ApprovalKey` the five fields that are hashed, `Decision` the always-allow set before the
policy. `ResolveToolCall`, `ResolveApproval` and `SetPermissionMode` are the operations; `ran` and `granted` are
history variables for the properties.

`NothingRunsUngranted`: no call that a deny rule or a protected path forbids runs in any mode or by any earlier
decision; outside bypass what is always asked for ran because this command was granted; a grant for one call
does not extend to another. `LongerIsNotMilderStep` (of the suite) says that a command's class never gets
milder by what is added after it, over every command of up to three of fifteen words.

## ModelStream and ProviderMessages

`ModelStream` is one request: the provider says a reply in pieces and fragments (`sent`), the adapter accumulates
them (`got`, `current`) as `openai.py` and `claude.py` do: OpenAI by index in any order, Claude one block after
another. It ends by `Finish`, `Fail` or `Refusal`. `ResponseIsTheReply`: what `next` returns is the whole reply, each
call under its own identity; `ChunksAreTheResponse`: nothing is in it that was not handed over as a chunk. Token
counts are left out.

`ProviderMessages` grows a transcript as the machine makes it, with a compaction wherever the calls are answered
(`Compact`: every system message, the summary, and a window of the newest that is widened off a result), and translates
it for both providers. `CallsAnsweredNext`: no window leaves a result without its call. `RolesAlternate` is what Claude
refuses otherwise; that the conversation starts with the user is said only where the transcript does, since the window a
compaction keeps may start with a reply. `SameConversation`: both get the same texts, calls and results, but that Claude
gets an empty object where the input of a call is not JSON (`parsed`), and OpenAI the text as it is.

## RunExec

One command with its process group. The shell, the job it may leave with or without the pipe, the reader task,
the capped buffer, the exit becoming known (`Reap`), the cancellation, the deadline. `Finish`, `Cut` and `Settle` are the
three ways out of `run_exec`; `TaskCancelled` is the cancellation of its task. `CommandIsAccountedFor`: what is returned is
all that was written, or as much as the limit allows and the mark; a command cut short while its shell runs leaves
nothing of its group, and is an error to the model. `Ended` is reached although a job may hold its pipe for ever.

## ToolRegistry

A tool is the number of its registration. `AddTools`, `RemoveTools`, `ReplaceTools` (a batch is accepted as a
whole or not at all), `SetAllowed`, and one call: `Called`, `PreHook`, `Start` with its checkpoint, `ToolEnds`, `PostHook`; or
the lifecycle events (`RunHooks`, `EventCommand`). A registry change may overlap a call. `EveryToolIsListedOnce`,
`HooksSurroundTheTool`, `FinishedIsNotFailed` (a failing post hook is a note, not a verdict), `EveryEventIsRunStep`,
`UndoPointIsLatestWrite`. The registry's observer is set by no code under `src/super_agent` and is left out.

## WorkspaceFiles

A file system with links, against which `realpath`, `canonicalNearest` and `canAccess` are run. A call resolves
its path (`resolve_path`), and only then opens it without following a link at the end (`read_file`, `write_file`,
`apply_patch`, `search_files`, `write_export`); `Swap` is another process in between. `activate` adopts a saved workspace,
`restore` is the undo of a checkpoint. `ToolsStayInside`, `ActiveIsSaved`, `UndoRestoresStep`. A *directory* replaced between
check and open is left out, as `docs/tools.md:46` does; so is reading an attachment, which changes no state.

## WebFetch

One fetch: `Begin`, `Send`, `Resolve` (the resolver may answer differently each time), `Dial`, `Redirected`, `Success`, `Read`,
`Answer`, `Breaks`, `Timeout`, `Tick`, `Cancel`. `FetchIsGuarded`: what is dialled is an address that was checked and whose
fellow answers were all public; a hop has one connection, a refused target none; an answer fits, and cost one request
for each allowed redirect and one more. The run context is looked at only between hops, so it is the
deadline of the whole fetch that ends a stall.

## RunContext

`NewRoot`, `NewChild`, `with_value`, `cancel`, with `event` naming the context whose event each one waits on. A child registers
with its parent and has its own event; a derived context shares the event and is registered nowhere.
`CancellationFollowsTheRun` says what holds of contexts as the program makes them: a run is never live under a
cancelled caller, an action is cancelled with its run and carries its values. What does not hold of a run
started from a derived context is under *Findings* (`delegation_cancel`).

## McpManager and McpSession

`McpManager` has manager, registry, configuration and settings in one module, since its subject is that they
agree. The controller's lock is held through an operation (`op`), the manager's is not held while a server connects, and
`Close` may fall anywhere; a step runs from one suspension to the next. `AddBegin`, `ConnectServer`, `ConnectFails`, `AddEnd`,
`RemoveBegin`, `RemoveEnd`, `ReconnectEnd`, `RestartBegin`, `RestartEnd`, `RestartRefused`, `CloseServer`, `ServerStops`.
`RegistryMatchesManager` and `SettingsMatchServers` between operations when settings can be saved. When they may not be
(`mcp_unsaved`): `NoProcessIsOrphanedStep`, `OnlyRemovalDivergesStep`, `FailedRestartKeepsServerStep`. `Owned` is what somebody
will still close: the servers of a manager that is open, those a close has read, and what an operation has connected. A manager
that was closed closes nothing more, so what a restart installs in one is an orphan; this step, which the code takes, is
excepted in `NoProcessIsOrphanedStep` and stated by `NoProcessOutlivesClose` (*Other divergences*).

`McpSession` is one connection: a request runs in a task of its own, its caller waits for task, deadline or
cancellation (`Deadline`, `CancelLands`); answers come late, twice, in any order or never (`Dispatch`); the write lock has an
order (`writers`). `PendingIsAwaited`, `LockIsHeldByWriters`, `AnswersAreOwn`.

## LspManager and LspClient

`LspManager`: a call that finds the directory moved starts servers one by one, installs them and closes the old ones;
nothing in the manager locks this, and the model lets two calls be in it; the program
runs one tool at a time and does not overlap them. `EveryServerIsOwned`, `InstalledServersRun`, `NoServerOutlivesClose`.
`LspClient`: requests without a deadline, writes with one that poisons the connection, `shutdown` then kill.
`PendingIsAwaited`, `NobodyWaitsForDeadPipe`. Diagnostics and texts are left out. `wedged` is cleared when the read loop
fails, although the process may still live then.

## TerminalTurn, Scrollback, Transcript, Composer, Commands

`TerminalTurn` is the read loop, the update function, the channels and `run_turn` of the adapter around one
conversation. `mode` is where the loop awaits, `inbox` its messages, `channel` and `produced` the notifications on the two
halves of the bridge, `menu`, `held` and `approvals` the question, the call the runtime holds and the answers on their way.
`DecisionIsForItsCall`: an answer, given twice or to a call that died with its turn, reaches no other call.
`PromptIsLast`: when the terminal blocks on a prompt the last turn is over and all it said was shown.

`Scrollback` is what `_render` writes: a reply while it streams (chunks may be lost), the committed messages, and what
follows the first `rendered` messages of a transcript that a command installed. A text is its length. `refreshSnapshot`
installs the conversation the engine holds: all of it, with the system messages (`Heading`) and perhaps messages of an
earlier run (`Stored`) that no notification told of; its beginning, after an `/undo` or `/reset`; system messages, `Summary` and a window
of the newest, after a `/compact`; or the messages of another session, after a `/resume`. `printed` is what was written on
account of notifications, `replayed` what a command had written. `NothingTwice` and `InOrder` are about `printed`,
`EverythingCommittedIsWritten` about the messages shown that came with a notification (`Heard`): whatever is installed in
between, their replies come once and whole. That what a command installs repeats some of it, or is left out, are the divergences `NothingReplayed`
and `EverythingShownIsWritten`. That the reply
of an approved call is delivered before the turn ends is a guard of `finishSubmit`, taken from `TerminalTurn`.

`Transcript`: which messages a key expands, how calls are grouped, what a fold hides and counts, what a copy takes.
`GroupsAreTheCalls`, `FoldCountsTheRest`, `CopyTakesLastBlock`, `ExpandableStaysExpanded`.

`Composer`: the draft, the cursor, the walk through history and the palette, read key by key or by the line. The read loop
decides for itself whether an Enter completes and echoes the draft if not; the composer decides again.
`EchoIsWhatRuns`, `PartialNeverRunsStep`, `DraftComesBackStep`. No key is read while a turn runs, so a turn is one step and the
composer's queue and steering are unreachable.

`Commands`: what each slash command asks of the session and how its outcome reaches what is shown. `actual` and
`shown` are a conversation version, mode and model, and attachments; background operations are `CompactRuns`, `ManageRuns`,
`AttachRuns`, `TurnRuns`. `ShownIsActual`, `NoTurnDuringBackground`. A read in progress delays dispatch.

## Configuration, SettingsFile, Extensions, Instructions

`Configuration`: `Load` (flags, environment, settings), `NewSession`, and `use` in its three steps. `BypassIsAskedFor`,
`SelectedCredentialIsResolved`, `SwitchIsWhole`, `ModeFollowsConversationStep`.

`SettingsFile`: several processes and an editor; a change is one step of its event loop and its system calls are the steps:
`OpenTemp`, `SyncTemp`, `Rename`, `SaveFails`, `Crash`. `FileIsWhole`, `NoTempIsLeft`, `BrokenFileIsKeptStep`,
`OtherSettingsAreKeptStep`. `Together` says whether others may write between a process's read and its rename; the
passing run has none (see *Other divergences*). A crash's temporary file has a name nobody uses again.

`Extensions`: one pass over settings, directories and plugins, one file at a time. `PluginCommandsAreItsOwn`,
`FirstClaimWins`, `HooksRunOnce`, `RefusedForAMistake`. Of skills only the reading is there.

`Instructions`: `Walk` up, `Trim`, then read from the outermost directory in. `OnlyTheProjectIsHeard`, `EveryLayerIsHeard`.

## Startup and Delegation

`Startup` builds a session step by step; `connected`, `starter`, `closers` and `tasks` say who will close what is `open`.
`OneOwner`, `OwnedIsOpen`, `ExitLeavesNothing`.

`Delegation`: level `k` of the chain is the k-th open delegation, with worktree, child session and denier. `Call`, `AskApproval`,
`Step` (the next stage of a level, each of which may fail), `Cancel`. `DelegationLeavesNothing`: no more than `maxSubagentDepth`
children are open, and when the user's call is over every worktree that was added is off the disk and every child
closed. A removal that git refuses deletes the directory and leaves git's entry, and an add that is killed may leave
both; the property is about worktrees that were added and their directories.

## Runs

| run | specification | what it shows |
|---|---|---|
| `agent_machine` | `MachineSpec` | any event with any call at any time: `TypeOK`, `TranscriptIsSound` |
| `engine` | `FairEngineSpec` | a turn against two command tasks: `QueueIsCurrent`, `OneLiveAction`, `CancelReachesLiveAction`, `LoopNeverStarves`, `SuccessIsAnAnswer`, `EveryTurnEnds` |
| `engine_context` | `EngineSpec` | violated: `CancelledContextEndsRun` |
| `store` | `Spec` of `Store` | two sessions and every crash but the one that loses a newline: `LogsAreSound`, `ListedIsWhole`, `StoreIsDurableLog`, `RecordIsKept` |
| `store_newline` | `Spec` of `Store` | violated: `AppendIsKept` |
| `store_short` | `SpecOnFullDisk` of `Store` | violated: `ListedIsWhole` |
| `runtime` | `Spec` of `MCRuntime` | twenty-one components below the interface (about 800 000 states) |
| `interface` | `Spec` of `MCInterface` | sixteen components of the terminal and the application (about 1 500 000 states) |
| `liveness` | `Spec` of `MCLiveness` | eight components that wait, each under its own fairness (about 69 000 states) |
| `session_double` | `Spec` of `Session` | violated: `LogReplaysToConversation` |
| `delegation_cancel` | `Spec` of `Delegation` | violated: `CancellationPropagates` |
| `config_keys` | `Spec` of `MCInterface`, component `agents` | violated: `PlaceholderIsNeverSent` |

The properties of the suites, and the modules' own properties each is made of:

| property | components | parts |
|---|---|---|
| `ConversationIsLogged` | `session`, `full_queue`, `full_disk`, `codec` | `LogReplaysToConversation`, `DecisionIsRecordedStep`; `NoMessageIsLost`; `DurableLogStep`, `LossOnFullDiskStep`; `RewriteIsLossless`, `OtherVersionsAreKept` (`RecordsAreKeptStep`) |
| `ScreenFollowsTurn` | `session`, `full_queue` | `ScreenSettles`, `AttachmentsLeaveWithMessageStep`; `WaitIsAsked` |
| `HistoryIsKept` | `history`, `metadata` | `LogMatchesTranscript`, `CheckpointKeepsItsMoment`, `NoOrphanResult`, `WorkspaceOfSession`, `UndoReturnsToCheckpointStep`; `NoChangeIsUndone`, `RecordsAreOfTheirTurn`, `FoundIsWhole`, `NothingIsLeftBehind` |
| `NothingRunsUngranted` | `policy`, `analyzer` | the module's own; `LongerIsNotMilderStep` |
| `ReplyIsWhole` | `openai`, `claude` | `ResponseIsTheReply`, `ChunksAreTheResponse` |
| `ConversationIsSentWhole` | `messages` | `CallsAnsweredNext`, `RolesAlternate`, `SameConversation` |
| `CommandIsAccountedFor`, `FetchIsGuarded`, `CancellationFollowsTheRun` | `run_exec`, `web_fetch`, `run_context` | the module's own |
| `ToolRunsBetweenItsHooks` | `registry` | `EveryToolIsListedOnce`, `HooksSurroundTheTool`, `FinishedIsNotFailed`, `UndoPointIsLatestWrite`, `EveryEventIsRunStep` |
| `ToolsStayInside` | `files` | `ToolsStayInside`, `ActiveIsSaved`, `UndoRestoresStep` |
| `McpServersAreAccountedFor` | `mcp`, `mcp_unsaved`, `mcp_session` | `RegistryMatchesManager`, `SettingsMatchServers`; `NoProcessIsOrphanedStep`, `OnlyRemovalDivergesStep`, `FailedRestartKeepsServerStep`; `PendingIsAwaited`, `LockIsHeldByWriters`, `AnswersAreOwn` |
| `LanguageServersAreOwned` | `lsp_client`, `lsp_manager` | `PendingIsAwaited`, `NobodyWaitsForDeadPipe`; `EveryServerIsOwned`, `InstalledServersRun`, `NoServerOutlivesClose` |
| `DecisionIsForItsCall` | `terminal` | `DecisionIsForItsCall`, `PromptIsLast` |
| `ReplyIsPrintedOnce` | `scrollback`, `reasoning` | `NothingTwice`, `InOrder`, `EverythingCommittedIsWritten` |
| `FoldedIsWhatExpands` | `transcript` | `GroupsAreTheCalls`, `FoldCountsTheRest`, `CopyTakesLastBlock`, `ExpandableStaysExpanded` |
| `EnteredIsSubmitted` | `composer`, `recall` | `EchoIsWhatRuns`, `PartialNeverRunsStep`, `DraftComesBackStep` |
| `ShownIsActual` | `commands` | `ShownIsActual`, `NoTurnDuringBackground` |
| `SessionIsAsConfigured` | `flags`, `agents` | `BypassIsAskedFor`; `SelectedCredentialIsResolved`, `SwitchIsWhole`, `ModeFollowsConversationStep` |
| `SettingsSurvive` | `settings` | `FileIsWhole`, `NoTempIsLeft`, `BrokenFileIsKeptStep`, `OtherSettingsAreKeptStep` |
| `ConfiguredIsHeard` | `extensions`, `one_plugin`, `instructions`, `layers` | `PluginCommandsAreItsOwn`, `FirstClaimWins`, `HooksRunOnce`, `RefusedForAMistake`; `OnlyTheProjectIsHeard`, `EveryLayerIsHeard` |
| `ExitLeavesNothing` | `startup` | `OneOwner`, `OwnedIsOpen`, `ExitLeavesNothing` |
| `DelegationLeavesNothing` | `delegation` | the module's own |
| `TurnsReturn` | `terminal`, `session`, `delegation`, `commands` | a submitted prompt comes back to a prompt or the terminal stops; an emission goes on; a delegation ends; submissions are accepted again |
| `RequestsEnd` | `mcp_session`, `lsp_client`, `run_exec`, `web_fetch` | a request, a call whose run is cancelled or whose server is gone, a command, a fetch comes to an end |

Properties of the single modules, in words:

- `TranscriptIsSound`: `ValidRuntimeData` (what `validate_runtime_data` accepts), `TranscriptMatchesBatch` (the message that
  opened the batch is the last assistant message, its answers so far follow it in order with nothing between, every earlier
  call is answered directly behind it, no answer stands alone), and what that comes to when a turn is over
  (`AnsweredWhenIdle`) and when a request is sent (`ModelSeesAnsweredTranscript`).
- `OneLiveAction`: an active state has exactly one action, queued or in flight for the
  current run, and it is the one the state waits for, for the same call. `QueueIsCurrent`: no queued work of a run that is over.
- `CancelReachesLiveAction`: what is in flight for the current run runs under the context that `cancel` cancels.
- `SuccessIsAnAnswer`: a turn that returns without an exception and was not retired ends with the model's answer.
- `EveryTurnEnds`: after a cancel or reset the turn returns, even if the user never
  answers (`RetiredTurnEnds`), and every turn ends or waits for the user (`TurnEndsOrAsks`).
- `LogsAreSound`: no line is corrupt, at most a tail is torn, and never that of a
  session that may be appended to. `ListedIsWhole`: what can be found can be read from
  its first record on. `StoreIsDurableLog`: the store refines `DurableLog`.
- `RecordIsKept`: an append that returns has its record at the end of what will be read (`AppendIsKept`), and only a
  deletion or a cut takes a record away; no crash and no healing does (`RecordsStay`).

### Bounds

*Machine and engine.* `MaxMessages` (5; 4 in `engine_context`) stops new user messages and batches at a length: one
complete batch and the start of the next, so a cancel can hit every stage of a batch that is not the first. `MaxRuns` (4;
2 in `engine_context`) stops new turns and commands: four runs let a turn be cancelled and reset while its action
is in flight and the next turn start before a late completion. `MCAgentMachine` has batches of none to three
calls in which an id repeats, all ids are missing, or some are; the engine treats calls alike, so `MCEngine` has two
batches with distinct ids. Two command tasks let two commands be in the observer at once.

*Store.* `MaxRecords` 3 (4 on a full disk): a log of three can be torn, healed, cut and appended to
again, and a corrupt line can have one before and one behind it. Sessions share nothing but the crash, so two are enough.

*Suites.* The instances, with their constants, are in the MC modules, each below a comment. In general two of a kind
are there where two may meet: callers, processes, turns, sessions, plugins, calls of a reply, hooks. In particular:

- `session` has a queue of 20, which never fills, one canceller, three commits; `full_queue` a queue of 1, a canceller and
  a resetter, two commits. The real queue holds 100: what matters is that an emission can be stopped at every put, and
  with room for one it is. Both stop starting work on a log of four records.
- `history`: a log of seven records holds a turn with a tool, a checkpoint, its undo or a compaction, and a command behind it;
  `KeepNewest` 1 stands for the four messages a compaction keeps by default.
- `metadata`: four calls and a crash: a session is created or resumed, a turn assigned, and two callers write beside each
  other (a lost update takes a read and two writes); `codec`: an instant of three digits of which a datetime holds two, and
  lists of one.
- `policy`: ten calls, one of every class and kind of path, and five rule sets, one of every kind of rule. Calls are
  classified one at a time, so more of them add nothing. `MaxGranted` 1 is the sequence "allow always, then change
  the mode, then call the like again".
- `openai`, `claude`: one piece of content, two calls of two fragments (the least that can interleave), a second request.
- `messages`: replies of up to two calls, four calls in all (`MaxIds`), so that the newest can begin at
  the first or the second result of a reply, and widening has to pass both; a compaction may follow another.
- `run_exec`: up to five bytes against limits of two and three: less than, equal to and more than the limit.
- `web_fetch`: three redirects (the code allows five), three hosts, two public addresses and a private one, a deadline of three ticks.
- `run_context`: four contexts make a caller, its run, an action of it and a run started from that.
- `mcp`: four processes are two servers that have been restarted; `mcp_session` four requests of two callers.
- `lsp_manager`: eight processes are two calls that both replace both servers, twice.
- `files`: a root that may be written, one that may be read, one directory outside, every entry at two paths, one change
  by another process and two calls.
- `terminal`: two turns, three calls and two presses of Ctrl+C: the second turn is what a late answer could reach.
- `scrollback`: two messages of two pieces, so a cut can be inside and between, one system message, and two commands that replace the
  transcript: the first finds the hidden messages, the second what the first has shown. `reasoning`: the same with reasoning, two
  system messages.
- `composer`: drafts of three letters over a palette in which one name begins the other; `recall` walks a history of two.
- `flags`: every command line of up to three tokens. `settings`: two processes, four operations, two edits.
- `delegation`: depth two, so a child has a child; two delegations, so what the first leaves is met by the second.

`MCRuntime` uses that sessions and workspaces are alike, `MCInterface` that the two processes are; `MCLiveness` and the
engine run, which check liveness, use no symmetry. The configurations say `CHECK_DEADLOCK FALSE` where
components stop at their bounds or programs end; the `store` runs and `agent_machine` do not.

### Fairness

*Engine.* Weak fairness of the loop and of the end of a turn: the event loop resumes a coroutine that can run, and the
interface reads the queue that the observer writes to. Weak fairness of the end of an action, for a model call and a
tool always (both have timeouts or end with their process) and for an approval *only* once its context is cancelled: a user may
leave a question open for ever. Nothing is assumed of users, commands, cancels or stream chunks.
`TurnEndsOrAsks` also rests on `MaxMessages`: that a model stops asking for tools is nothing the code enforces.

*Suite.* `MCLiveness` states for each component the fairness of the component's own specification:

| component | fairness | why |
|---|---|---|
| `session` | strong, of `Receive` and of the next step of each task | the bridge reads the queue as long as the turn lasts; `asyncio.Queue` wakes its putters in order, so none is passed over for ever |
| `mcp_session` | weak, of each caller's task and of its deadline | tasks are scheduled, `asyncio.wait_for` runs out. Nothing of the server |
| `lsp_client` | weak, of each caller and of the kill | the same; a write has its deadline, a reply has none, so only calls that are cancelled or whose server is gone must end |
| `run_exec` | weak, of `Cut`, `Finish`, `Settle` | the deadline runs out; the shell, its job and the reader need not move |
| `terminal` | weak, of turn, bridge, closing, listener and read loop; strong, of `Answer` | one event loop; a user who is asked again and again answers. Commands, keys and Ctrl+C are not assumed |
| `delegation` | weak, of the step of each level | git is killed at its timeout, a model call ends, the denier is a task of the same loop |
| `commands` | weak, of background operations, of dispatch, and of the end of a key read | live keys are read with a timeout of 0.1 s; a line-oriented terminal has none, and there nothing is claimed |
| `web_fetch` | weak, of `Begin`, `Send`, `Tick`, `Timeout` | the program's own steps and time; neither resolver nor server has to answer |

## Findings

What the code does not keep, each found by a run.

`CancelledContextEndsRun` (`engine_context`). `docs/runtime.md` says that when the context is cancelled
`CancelRequested` is submitted and the loop returns. The loop does not look at the
context: only an action that raises `Cancelled` ends the run. When the interface cancels
the turn's context (Ctrl+C outside an approval) and the model's reply still arrives, the
reply is committed, its tool calls are classified and run, and the next request is sent.
The shipped model adapters do not read the context, so this is the ordinary case
during a model call. `Session.cancel`, which goes through the engine, is not affected:
it retires the run, and that is what `CancelReachesLiveAction` and `EveryTurnEnds` are about.

`AppendIsKept` (`store_newline`). Healing looks for a last line that does not parse. A
crash that loses only the newline leaves one that does: it is read as good, the file is
left as it is, and the next record is written behind it on the same line. The append
was synced and returned, but the next read finds one corrupt line and truncates both
records away; after another append it is no longer the last line and the session cannot
be read at all.

`ListedIsWhole` (`store_short`). `_append_unlocked` ignores the result of `os.write`. On
a full disk a write may be partial without raising; the append returns, the next one is
glued to the torn line, and one later the log is unreadable, without any crash.
`truncate_after` has the same flaw in the last record it keeps (`ShortTruncate`).

`LogReplaysToConversation` (`session_double`). `emit` slices the messages by a count that it writes back only at
its end, and waits at every put while the queue is full. A cancel takes no turn lock and emits through the same
emitter: when it does so while the turn's emission is blocked, both save the same messages.

`CancellationPropagates` (`delegation_cancel`). The child's turn is started on a context derived with `with_value`, which
shares the event of the caller but has children of its own; the child's run is registered there, where the cancel of the
caller does not look. A child at work when the user cancels goes on, and the cancelled turn waits for it.
`CancelReachesAll` of `RunContext` is the same in the tree of contexts.

`PlaceholderIsNeverSent` (`config_keys`). Only the provider the settings select has its key resolved. An agent that names
another provider gets its model from the entry as the file has it: the template's placeholder, even when the
environment holds that provider's key.

### Other divergences

The modules state these too; no run is kept for them, but each is violated with the module's own specification and the
constants given (the others as in the suites). The quotation is what the repository says.

| property | constants | the code, and what is said of it |
|---|---|---|
| `Session!LogReplaysToConversation` | a resetter, no canceller | a reset during a turn emits before the emitter is re-armed, and the system message is saved twice: "a restart does not resurrect a reset conversation" (`docs/session.md:189`) |
| `Session!UnwrittenTranscriptKeepsTurn` | `SavesFail` TRUE | a save that raises in the observer ends the turn in the middle of its run: "must not fail the turn the user is watching" (`runtime/session/persistence.py:3`) |
| `Session!FailureReachesCaller` | `Capacity` 2 | `put_nowait` on a full queue replaces the turn's error by `QueueFull`, which `turn.py:145` guards against for the close of the same queue |
| `Policy!PlanRunsReadOnly` | `MaxGranted` 3 | an always-allowed call runs in plan mode: "plan mode (read-only safe tools only, everything else denied)" (`runtime/execution/policy.py:140`) |
| `History!RememberedIsInContext` | - | a `remember` whose second write failed is later taken for done: "a failure leaves one consistent side" (`runtime/session/history.py:5`) |
| `History!EveryCallAnswered` | `WritesFail` FALSE | `undo` installs a conversation that ends in a call without an answer: "Every tool call the model asked for must be answered" (`runtime/machine/transition.py:368`) |
| `History!LogMatchesTranscript` | `ActivationFails` TRUE | `resume` saves before it activates: "a resume that cannot succeed leaves the current session untouched" (`runtime/session/history.py:140`) |
| `McpManager!NoProcessOutlivesClose` | - | `restart` does not look whether the manager was closed while it connected (the step `NoProcessIsOrphanedStep` excepts): "Close every server" (`tools/mcp/client.py:506`) |
| `McpManager!RegistryMatchesManager` | `SavesFail` TRUE | a reconnected server whose tools the registry refuses stays without them: "a failure at any step restores the ones before it" (`app/mcp.py:3`) |
| `McpSession!ResultIsReply` | `ServerAsks` TRUE | a request of the server with a number in use is taken for the answer: "return its result" (`tools/mcp/client.py:224`) |
| `LspClient!ErrorReachesWaiters` | `FairSpec` | `fail` sets the error and wakes nobody: "the error every waiter should observe" (`tools/lsp/client.py:197`) |
| `LspManager!NoServerOutlivesClose` | `Cancels` TRUE | a call cancelled while it replaces servers leaves them to nobody: "Close every connected server." (`tools/lsp/client.py:395`) |
| `RunExec!GrandchildDies` | - | a job that outlives its shell is not killed at the deadline: "a grandchild that outlived the direct child dies with it" (`tools/proc_unix.py:34`) |
| `RunExec!NothingRunsAfterCancellation` | `TaskCancels` TRUE | a cancelled task leaves its group running (`tools/proc_unix.py:10`) |
| `RunExec!ReasonMeansCut` | - | a non-zero exit has a reason too: "``None`` on a normal exit and on a non-zero exit" (`tools/commands.py:269`) |
| `WorkspaceFiles!UndoReturnsTheWorkspace` | `MaxSwaps` 0 | a file that is no UTF-8 comes back changed: "the workspace and the model's context return to the state they shared" (`docs/session.md:204`) |
| `TerminalTurn!AskedCallIsHeld` | `FairSpec`, `Live` FALSE | a question may appear after its turn was cancelled: "The runtime is holding a tool call until the user decides." (`tui/conversation.py:168`) |
| `TerminalTurn!CtrlCCancels`, `IdlePressExits` | `Live` FALSE | Ctrl+C waits for the answer, or for the line: "`Ctrl+C` cancels an active turn and exits when idle" (`docs/terminal.md:24`) |
| `Scrollback!ToolActivityIsWritten` | - | the calls of a reply that was streamed are not written: "Replies, tool activity, errors ... append to stdout" (`docs/terminal.md:6`) |
| `Scrollback!NothingReplayed` | - | after `/fork` the system messages come to the front, and the replies the count no longer covers are written again: "without printing its streamed text twice" (`docs/terminal.md:13`) |
| `Scrollback!EverythingShownIsWritten` | - | after `/resume` the first messages of the session, as many as were shown before, are not written: "Replies ... append to stdout" (`docs/terminal.md:6`) |
| `Composer!SelectionIsAMatch` | - | the selection outlives its matches and the read loop raises `IndexError`: "scrolled to keep the selection visible" (`tui/composer/model.py:257`) |
| `Composer!SecondEnterRuns` | - | a completed name that begins another is completed again: "before a second Enter runs it" (`docs/terminal.md:17`) |
| `Commands!ListedIsQueued` | - | a turn that did not start keeps attachments nobody lists: "`/attachments` lists the queue" (`docs/session.md:216`) |
| `Commands!EveryFailureIsShown` | - | the same error twice is printed once (`docs/terminal.md:8`) |
| `Commands!RefusedOnlyWhileRunning` | - | a line is refused after the compaction is over: "Whether ``/compact`` is still running." (`tui/commands/model.py:54`) |
| `SettingsFile!OtherSettingsAreKept`, `BrokenFileIsKept` | `Together` TRUE | what was written between the read and the rename is lost: "a concurrent edit outside the app is not silently overwritten" (`app/mcp.py:7`), "An existing file is never overwritten" (`app/config.py:484`) |
| `SettingsFile!UnknownKeysAreKept` | `UnknownKeys` TRUE | keys the program does not know are dropped: "without touching the rest" (`app/mcp.py:125`) |
| `Instructions!StrayIsNotHeard` | - | without a `.git` a file in `/` is the topmost one: "a stray ``AGENTS.md`` in ``/`` cannot change what a project sees" (`app/instructions/__init__.py:12`) |
| `Instructions!NothingVanishes` | `MayBeShut` TRUE | files below a directory that cannot be searched are left out: "instructions must never vanish silently" (`app/instructions/__init__.py:138`) |
| `Startup!ExitLeavesNothing` | `HooksFail` or `SavesFail` TRUE | a failing start hook, or a failing record of the cancellation, leaves servers running: "release every closer in reverse order" (`runtime/session/session.py:105`) |
| `Delegation!NothingAccumulates` | `CutsFail` TRUE | a killed `git worktree add` leaves directory and entry: "Every exit path tears the worktree down" (`app/subagents.py:154`) |
| `Delegation!ReportedIsRetained` | `CutsFail` FALSE | the worktree is removed before its path is reported: "the reported path is retained for inspection" (`docs/session.md:224`) |

## Proofs

TLC checks the small instances; the theorems hold for every value of the constants.

**Assumptions.** `CallAssumption`, `EngineAssumption`, `StoreAssumption`: the null values are not data, and `Turn` is not a command.
`InputAssumption`: batches and transcripts are sequences of calls and messages, and an engine is created with
system messages. `TranscriptAssumption`: see *AgentMachine*. The modules checked in suites have theirs as a definition
(`PolicyAssumption`: a call is what its five fields say; the others: bounds are numbers, public addresses are addresses, and the like), which is the hypothesis of
their theorems and which the suites assume of each instance (`ComponentsAssumption`). TLC evaluates all of them.

**The machine.** Inductive invariant `Coherent == TypeOK /\ ValidRuntimeData /\ TranscriptMatchesBatch`. The transcript part alone is not
inductive: that the answers to what is outstanding are the rest of the batch needs the slots to hold the entry
just consumed (`ValidRuntimeData`) and the index to be in range (`TypeOK`). The lemmas
about transcripts (`AnswersExtend`, `TranscriptOpened`, `TranscriptAnswered`,
`TranscriptComplete`, `OutstandingAnswers`, `TranscriptAbandoned`) say what one kind of
change does to it and are used by the handlers that make it. `TypeCorrect`,
`ValidAlways`, `TranscriptAlways`, `AnsweredAlways`, and together `TranscriptAlwaysSound`, follow.
`SystemMessages` is a recursive function. That the function exists, and that it returns
system messages only, is proved by taking a least counterexample (`Least`), since
induction over an operator parameter is beyond the installed provers.

**The engine.** `EngineInv == Coherent /\ Scheduling`, with the parts of `Scheduling` named:
only the turn executes actions, and a command is in its observer only while the machine
is idle (`CommandsQuiet`); an active state has one action, queued for the turn's loop
or executed by the turn, for the current run and under its context (`BusyWhenActive`); an
idle one has none of the current run (`QuietWhenIdle`). The properties of the `engine`
run are too weak to be inductive: none says which task will pop the queue, and it
is because this is always the turn that a command's loop never starves and a cancel
reaches every action. `EngineStep` shows that a step keeps `EngineInv` and is a step of
the machine or leaves it alone; hence `EngineImplementsMachine` (`EngineSpec =>
MachineSpec`; the machine's variables are the engine's, so the mapping is the identity),
and what holds of the machine holds of the engine (`EngineTranscript`).
`SuccessIsAlwaysAnAnswer` needs a second invariant, `EndingInv`: the turn's run is the current one unless a command retired it (`OwnRun`), and a
machine that is idle in a run that is still the turn's got there by an answer (`IdleByAnswer`).

**The store.** For any sessions and records and logs of any length, with `WritesHold` as
hypothesis (a crash does not lose just a newline) and for `Spec`, which has no short write. Without them the
findings above are counterexamples. `StoreInv == LogsAreSound /\ ListedStarted`:
`ListedIsWhole` speaks of what a reader would return, and the invariant says it of the
lines; `LogsAreSound` has the clause that closes the circle, that an open session ends in
a newline, since without it an append could corrupt a line. `SoundReads` reduces reading a
sound file to its lines, `ChangeKeeps` and `WriteKeeps` say what a step that writes one
session does, and there is a lemma per action. `StepKeeps` collects them; then
`SoundAlways`, `ListedAlwaysWhole`, `StoreImplementsLog` (`Spec => Log!LogSpec`),
`RecordAlwaysKept`.

**The components of the suites.** `ToolsProofs`, `ServersProofs`, `ApplicationProofs` and `SetupProofs` instantiate the components under
variables of their own, so that several fit in one module, and prove each of them for all values of its constants.

| component | inductive invariant | theorem |
|---|---|---|
| `Policy` | `PolicyInv`: what *may* run. A call that waits, every grant and every key of the always-allow set stand for a call no rule denies. A key is not a call, so the proof needs that rules see of a call only what its key holds (`SameKey`) | `NothingEverRunsUngranted` |
| `CommandAnalyzer` | none: it is about two lines, one a word longer than the other. What is found in the shorter is found in the longer (`LongerHolds`), and the classes are tried from the harshest down | `LongerIsNotMilder`, for any words |
| `RunExec` | `CommandInv`: what is kept against what was read and the limit (`OutputInv`), each stage against what is alive (`StageInv`) | `CommandIsAlwaysAccountedFor` |
| `WebFetch` | `FetchInv`: where a connection may be open, and requests counted against redirects | `OnlyPublicIsDialledAlways`, `OneConnectionAlways`, `AnswerIsBoundedAlways`; their sum `FetchAlwaysGuarded` |
| `RunContext` | `ContextInv`: what contexts look like (`Shapes`), what derivation copies (`Derivation`), only runs are registered (`RunsOnly`), a live run is registered with its caller (`Registered`) | `CancellationAlwaysFollows` |
| `LspClient` | `LspInv`: who writes is at the head of the lock's queue, and an error while the connection is still read means a wedged pipe | `RequestsAlwaysAwaited` |
| `LspManager` | `ManagerInv`: what each call holds in each of its stages (`Held`), no server twice | `ServersAlwaysOwned` |
| `McpManager` | `McpOwned`: every live process is a server's, an operation's, or waits to be killed, whether that will be closed or not (`EveryProcessIsHeld`), so that the only step that makes one an orphan is that of a restart a close has overtaken; `SettingsNameIt`: the settings name a server until its removal is over; `McpKept`: tools, registry and settings against the servers, *inside* an operation too, where they differ by what it has done so far | `NoProcessIsEverOrphaned`, `OnlyRemovalEverDiverges`, `FailedRestartAlwaysKeeps`, `OfferIsAlwaysConnected` |
| `McpSession` | `SessionInv`: numbers are given out upwards, and a future holds nothing, a request of the server, or the answer to its own number (`Numbers`); no task is twice in the queue of the lock (`Queue`) | `AnswersAreAlwaysOwn`, whatever the server sends |
| `Delegation` | `DelegationInv`: the open delegations are a chain whose depths count up (`Chain`, `Shallow`), an open child is in its turn (`OpenInTurn`), a worktree belongs to a level that will remove it (`TreesAreHeld`) | `DelegationAlwaysLeavesNothing` |
| `Startup` | `StartInv`: what step has opened what (`Progress`), and what is open is exactly what the starter, the session, a connecting manager or a dying task holds (`OpenIsOwned`); ownership needs that no process belongs to two of them (`Apart`) | `OpenHasOneOwner`, `NoOwnerClosesTwice`, `NothingOutlivesTheProgram` |
| `Commands` | `ScreenInv`: one piece of work at a time (`OneWork`), and what the screen is behind by while a message is still in the inbox (`Behind`) | `ScreenAlwaysTrue` |
| `SettingsFile` | `SettingsInv`: one process saves at a time (`OneSaves`), and what it holds is the template where nothing was or its change on top of what the file holds *now* (`HeldIsChange`), while it writes and between the template and the change; temporary files belong to whoever writes (`TempsAreMine`). That a change done twice is done once (`AppliedIs`) ends the loop | `SettingsFileSurvives` |
| `TerminalTurn` | `TerminalInv`: what is asked is in one place at a time on its way from the runtime over the bridge, the channel, the inbox and the menu back to the runtime (`AskedOnce`); the listener has one notification in the inbox or waits for the next (`ListenerBrings`); while a turn is under way something is left to say so (`TurnIsUnderWay`, `ChannelFollows`), and the last word of it closes the menu, wherever that word is (`LastWordCloses`). The prompt needs all four: the re-check sees an empty inbox, the rest must follow | `DecisionAlwaysForItsCall` |
| `Scrollback` | `ReplyInv`: the notifications on their way come in the order they were made and say no more than their reply will (`ChannelOK`, `Within`); what has been streamed is a chunk that comes before all of them (`StreamedIs`); of a reply whose commit is still on its way nothing is written but what has been streamed (`PartOK`); what is written is without doubles and gaps (`Printable`). The case that needs it is an answered approval: the chunk is no longer shown, but what was streamed must be kept until the commit completes it. What a command installs is made of messages that were shown and of such as no notification brought (`Known`) | `ReplyPrintedOnce` |
| `ModelStream` | `StreamInv`: what has been sent is part of the reply (`SentOK`), and what was put together of it is just that: OpenAI's builders, whose calls begin in order (`BuildersFollow`), or Claude's finished calls and the one open block (`BlocksFollow`) | `ReplyWhole`, for replies of any length |
| `ToolRegistry` | `RegistryInv`: the list is that of the tools, each once (`ListInv`); how far a call is says what its trace holds, counted by commands (`TraceIs`, `WorkInv`); and the undo point. Whether a `pre_tool` hook that fails ends the call is in the shape | `ToolRuns`, `EventsRun` |
| `Extensions` | `ExtensionsInv`: what has not been read has claimed nothing (`Unread`); a name belongs to the first of those read that claims it, and what a plugin claims is the plugin's (`Settled`); the hooks are those of the settings, then of the plugins read, no owner twice (`Hooked`); the queue and what has been read are together what the settings list and the directories hold (`Queued`). `ListedAll` is about `SetToSeq`: some order, each once | `ExtensionsAlwaysHeard` |
| `Instructions` | `InstructionsInv`: the walk has not left the project and no directory above it guides (`NothingAbove`); what is left to read runs from some directory inwards, and of all beyond it exactly the guiding file has been read, in order (`ReadBeyond`) | `InstructionsAlwaysHeard` |
| `Composer` | `ComposerInv`: the cursor is in the draft, the index in the history, and the draft that was set aside is the one the walk left. A beginning of a name matches something (`MatchesAre`), and the read loop and the composer look at the same row of it (`CompletionIs`) unless the row is missing, where the loop raises | `EnteredAlwaysSubmitted`, for any palette and any history |
| `Configuration` | `ConfigurationInv`: what the session runs with is what the command line, the environment and the settings resolve to (`Loaded`, `Opened`), and the steps of a switch that have been made belong to its profile (`Switching`). `ParseIs` relates the parser, a fold over the tokens, to what was *given*: a mode read from the line has a flag that says it, before the first word that is none | `SessionAlwaysAsConfigured` |

`Rows` and `parse` are recursive functions over a palette and a command line of any length. That they exist, and what they return, is shown as for
`SystemMessages`: the least index at which it failed would have a predecessor.

None of the properties is inductive: each speaks of the moment at which something is seen, and the invariant of the
steps that lead there. Five hypotheses are about failures and interference, each because its absence is a divergence or a hazard recorded above:

- `~SavesFail` in `OfferIsAlwaysConnected` and, with `~HooksFail`, in `NothingOutlivesTheProgram`: a change of the servers whose
  settings cannot be saved, and a start whose hooks fail, do leave the two apart or the servers running (*Other divergences*). What holds even
  then (`NoProcessIsEverOrphaned`, `OnlyRemovalEverDiverges`, `FailedRestartAlwaysKeeps`, `OpenHasOneOwner`, `NoOwnerClosesTwice`) is stated without them.
- `~Cancels` in `ServersAlwaysOwned`: a task cancelled inside a call forgets the servers it has connected. Only quitting the terminal does that.
- `~Together` in `SettingsFileSurvives`: nobody else writes the file between a read and its rename; what is lost otherwise is in *Other divergences*.
- `~MayBeShut` in `InstructionsAlwaysHeard`: the files below a directory that cannot be searched are left out (*Other divergences*).

**The suites.** `RuntimeProofs`, `InterfaceProofs` and `SessionProofs` carry these results to the properties the runs check, under their names there. A
component's instance in the suite and in the theory are the same formulas (`Same...`); the suite begins as the component it chose
(`Begins`) and moves as that one does (`Moves`, `Runs`); so the theory's invariant is an invariant of the suite. The constants of the suites are
parameters, and the configurations give them values: `CommandIsAccountedFor`, `FetchIsGuarded`,
`CancellationFollowsTheRun`, `LanguageServersAreOwned`, `McpServersAreAccountedFor`, `ExitLeavesNothing`, `DelegationLeavesNothing`, `ShownIsActual`, `SettingsSurvive`, `DecisionIsForItsCall`, `ReplyIsPrintedOnce`,
`ReplyIsWhole`, `ToolRunsBetweenItsHooks`, `ConfiguredIsHeard`, `EnteredIsSubmitted` and `SessionIsAsConfigured` hold for all of them that satisfy `ComponentsAssumption`, and `NothingRunsUngranted` for the words and calls of the suite, while the
theorems of `ToolsProofs` have any. A second instance of a component (`layers`, `recall`, `agents`) has the values the suite fixes for it. An action property follows from the invariant before and after a step.

**Only model-checked**: `EveryTurnEnds`,
`TurnsReturn`, `RequestsEnd`, since liveness under fairness is out of the prover's reach, as is `ENABLED`; what is computed by
induction over data (`ConversationIsSentWhole`, `ConversationIsLogged`, `HistoryIsKept`, `RecordsAreKeptStep`, `FoldedIsWhatExpands`,
`ToolsStayInside`: replay of a log, fragments joined, path resolution); the component `full_disk`; the other properties of the suites; and the violations.

## Not modelled

- Of the engine: the usage observer and telemetry. An observer that raises is in `Session`.
- Of the store: the 20 MiB read cap, directory entries lost by a power cut, two processes on one session, the order of the list.
- Diagnostics, the mapping of tool descriptors and results to text, the decoding of tool arguments, the text of exit statuses and pages, the
  arguments of git and of the sandbox, token counts: formatting.
- The read of an attachment, a directory swapped below a checked path, skills beyond being read, workflow files, prompts.
- A `/resume` of the session the program is in, or was in before: what is resumed is another run's.
- Colours, Markdown and wording of the terminal; the composer's queue and steering, which no key reaches.
- Telemetry and sandbox wrapping: logging and process arguments, with no state of their own.
- The whole program in one model: components meet only as said under *How the project is built*.
