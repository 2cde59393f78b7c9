------------------------------ MODULE History -------------------------------
(***************************************************************************)
(* The history commands of a session (runtime/session/history.py and       *)
(* checkpoint.py): fork, remember, forget, resume, compact and undo, with  *)
(* the turns and resets between them, over the logs of the stored sessions *)
(* (store/store.py through store/repository.py).                           *)
(*                                                                         *)
(* A message is emitted and saved as it is appended; what comes between    *)
(* the two is the subject of module Session, and a crash that of Store.    *)
(* The tracked file has a version; tools that write it are checkpointed.   *)
(***************************************************************************)
EXTENDS Integers, Sequences, SequencesExt, FiniteSets

CONSTANTS
  Sessions,         \* session ids
  Roots,            \* workspace roots
  Values,           \* what may be remembered
  KeepNewest,       \* messages a compaction keeps
  WritesFail,       \* whether a write of the store or of a restore may raise
  ActivationFails,  \* whether a validated workspace may fail to be activated
  MaxTranscript,    \* bound: messages, and versions of the file
  MaxRecords,       \* bound: no command appends to a log of this length
  MaxCommands       \* bound: commands in all, and failures of them

HistoryAssumption ==
  /\ KeepNewest \in Nat \ {0} /\ MaxTranscript \in Nat /\ MaxRecords \in Nat /\ MaxCommands \in Nat
  /\ WritesFail \in BOOLEAN /\ ActivationFails \in BOOLEAN

VARIABLES
  active,     \* meta.id
  live,       \* the messages of the engine
  emitted,    \* emitter.emittedMessages
  step,       \* "idle", "turn", "running" a tool, or "summarizing"
  pending,    \* calls of the last reply without an answer
  current,    \* the messages compact has read
  logs,       \* the records of each stored session, <<>> when it is not stored
  spec,       \* the workspace saved with each session
  where,      \* the workspace that is active
  memory,     \* _memory.json
  promised,   \* what remember reported as remembered
  file,       \* the version of the tracked file, 0 when it is half written
  commands    \* commands so far

vars == <<active, live, emitted, step, pending, current, logs, spec, where, memory, promised, file,
          commands>>
transcript == <<live, emitted, logs>>
place == <<active, spec, where>>
recall == <<memory, promised>>

-----------------------------------------------------------------------------
(* Messages.                                                               *)

Message(role) == [role |-> role, items |-> {}, calls |-> 0]
Calls(n) == [Message("assistant") EXCEPT !.calls = n]
MemoryMessage(items) == [Message("memory") EXCEPT !.items = items]

IsSystem(m) == m.role \in {"system", "memory", "summary"}
IsTool(m) == m.role = "tool"

SystemMessages(ms) == SelectSeq(ms, IsSystem)
Rest(ms) == SelectSeq(ms, LAMBDA m : ~IsSystem(m))

WithMemoryContext(ms, items) ==
  LET kept == SelectSeq(ms, LAMBDA m : m.role # "memory")
  IN IF items = {} THEN kept ELSE <<MemoryMessage(items)>> \o kept

(* Mutant: the window starts where it falls.                               *)
CompactedBlindly(ms) ==
  SystemMessages(ms) \o <<Message("summary")>>
    \o SubSeq(Rest(ms), Len(Rest(ms)) - KeepNewest + 1, Len(Rest(ms)))

(* The window is widened to a message that is no tool result.              *)
Compacted(ms) ==
  LET rest  == Rest(ms)
      first == Len(rest) - KeepNewest + 1
      starts == { i \in 1..first : ~IsTool(rest[i]) } \cup {1}
      start == CHOOSE i \in starts : \A j \in starts : j <= i
  IN SystemMessages(ms) \o <<Message("summary")>> \o SubSeq(rest, start, Len(rest))

-----------------------------------------------------------------------------
(* Records.  A checkpoint carries the version of the file and, for the     *)
(* properties only, the transcript of its moment.                          *)

Record(type, ms) == [type |-> type, messages |-> ms, version |-> 0]
Appended(m) == Record("message", <<m>>)
CheckpointRecord == [Record("checkpoint", live) EXCEPT !.version = file]

(* Mutant: a reset is an audit record.                                     *)
AppliedWithoutReset(ms, r) ==
  CASE r.type = "message"              -> ms \o r.messages
    [] r.type \in {"compact", "replaced"} -> r.messages
    [] r.type \in {"reset", "checkpoint"} -> ms

Applied(ms, r) ==
  CASE r.type = "message"              -> ms \o r.messages
    [] r.type = "reset"                -> SystemMessages(ms)
    [] r.type \in {"compact", "replaced"} -> r.messages
    [] r.type = "checkpoint"           -> ms

Replay(records) == FoldLeft(Applied, <<>>, records)

Checkpoints(records) == { i \in DOMAIN records : records[i].type = "checkpoint" }

Stored(s) == logs[s] # <<>>
HasRoom == Len(logs[active]) < MaxRecords
Saved(s, r) == [logs EXCEPT ![s] = Append(@, r)]

(* emit: what the engine holds beyond the count is saved.                  *)
Emit(ms) ==
  LET from == IF emitted > Len(ms) THEN 0 ELSE emitted
      new  == SubSeq(ms, from + 1, Len(ms))
  IN /\ live' = ms
     /\ emitted' = Len(ms)
     /\ logs' = [logs EXCEPT ![active] = @ \o [i \in DOMAIN new |-> Appended(new[i])]]

Say(m) == Len(live) < MaxTranscript /\ HasRoom /\ Emit(Append(live, m))

Command == commands < MaxCommands /\ commands' = commands + 1

(* A conversation that is already in the log.                              *)
Hold(ms) == live' = ms /\ emitted' = Len(ms)

-----------------------------------------------------------------------------
(* A turn.                                                                 *)

Ask ==
  /\ step = "idle"
  /\ Say(Message("user"))
  /\ step' = "turn"
  /\ UNCHANGED <<place, recall, pending, current, file, commands>>

Answer ==
  /\ step = "turn" /\ pending = 0
  /\ Say(Message("assistant"))
  /\ step' = "idle"
  /\ UNCHANGED <<place, recall, pending, current, file, commands>>

CallTools(n) ==
  /\ step = "turn" /\ pending = 0
  /\ Len(live) + n < MaxTranscript /\ Say(Calls(n))
  /\ pending' = n
  /\ UNCHANGED <<place, recall, step, current, file, commands>>

(* Mutant: taken before the reply has been saved.                          *)
CheckpointEarly ==
  /\ step = "turn" /\ pending > 0 /\ HasRoom
  /\ logs' = [logs EXCEPT ![active] = Front(@) \o <<CheckpointRecord, Last(@)>>]
  /\ step' = "running"
  /\ UNCHANGED <<place, recall, live, emitted, pending, current, file, commands>>

(* Before a tool that writes the file.                                     *)
Checkpoint ==
  /\ step = "turn" /\ pending > 0 /\ HasRoom
  /\ logs' = Saved(active, CheckpointRecord)
  /\ step' = "running"
  /\ UNCHANGED <<place, recall, live, emitted, pending, current, file, commands>>

ToolWrites ==
  /\ step = "running" /\ file < MaxTranscript
  /\ Say(Message("tool"))
  /\ file' = file + 1
  /\ step' = "turn" /\ pending' = pending - 1
  /\ UNCHANGED <<place, recall, current, commands>>

(* A tool that changes nothing, or fails.                                  *)
ToolAnswers ==
  /\ step \in {"turn", "running"} /\ pending > 0
  /\ Say(Message("tool"))
  /\ step' = "turn" /\ pending' = pending - 1
  /\ UNCHANGED <<place, recall, current, file, commands>>

(* The run is cancelled or fails: every call is answered.                  *)
Cancel ==
  /\ step \in {"turn", "running"}
  /\ Len(logs[active]) + pending <= MaxRecords + 1
  /\ Emit(live \o [i \in 1..pending |-> Message("tool")])
  /\ step' = "idle" /\ pending' = 0
  /\ UNCHANGED <<place, recall, current, file, commands>>

(* Allowed at any time.  A run is retired by it, a summary goes on.        *)
Reset ==
  /\ Command
  /\ HasRoom
  /\ logs' = Saved(active, Record("reset", <<>>))
  /\ Hold(SystemMessages(live))
  /\ step' = IF step = "summarizing" THEN "summarizing" ELSE "idle"
  /\ pending' = 0
  /\ UNCHANGED <<place, recall, current, file>>

(* An agent is chosen: replace_conversation.                               *)
ReplaceConversation ==
  LET ms == WithMemoryContext(<<Message("system")>>, memory)
  IN /\ Command
     /\ step = "idle" /\ HasRoom
     /\ logs' = Saved(active, Record("replaced", ms))
     /\ Hold(ms)
     /\ UNCHANGED <<place, recall, step, pending, current, file>>

-----------------------------------------------------------------------------
(* Sessions.                                                               *)

Fork(s) ==
  /\ Command
  /\ step = "idle" /\ ~Stored(s)
  /\ logs' = [logs EXCEPT ![s] = [i \in DOMAIN live |-> Appended(live[i])]]
  /\ active' = s
  /\ spec' = [spec EXCEPT ![s] = where]
  /\ Hold(live)
  /\ UNCHANGED <<where, recall, step, pending, current, file>>

Delete(s) ==
  /\ Command
  /\ s # active /\ Stored(s)
  /\ logs' = [logs EXCEPT ![s] = <<>>]
  /\ UNCHANGED <<place, recall, live, emitted, step, pending, current, file>>

(* Mutant: the conversation is taken over and the workspace kept.          *)
ResumeInPlace(s) ==
  LET ms == WithMemoryContext(Replay(logs[s]), memory)
  IN /\ Command
     /\ step = "idle" /\ Stored(s) /\ Len(logs[s]) < MaxRecords
     /\ logs' = Saved(s, Record("replaced", ms))
     /\ active' = s /\ Hold(ms) /\ promised' = memory
     /\ UNCHANGED <<where, spec, memory, step, pending, current, file>>

(* The replaced conversation is saved, the saved workspace activated, and  *)
(* then the session taken over.  What fails before changes nothing.        *)
Resume(s) ==
  LET ms == WithMemoryContext(Replay(logs[s]), memory)
  IN /\ Command
     /\ step = "idle" /\ Stored(s) /\ Len(logs[s]) < MaxRecords
     /\ logs' = Saved(s, Record("replaced", ms))
     /\ where' = spec[s]
     /\ active' = s /\ Hold(ms) /\ promised' = memory
     /\ UNCHANGED <<spec, memory, step, pending, current, file>>

ResumeNotActivated(s) ==
  LET ms == WithMemoryContext(Replay(logs[s]), memory)
  IN /\ Command
     /\ ActivationFails /\ step = "idle" /\ Stored(s) /\ Len(logs[s]) < MaxRecords
     /\ logs' = Saved(s, Record("replaced", ms))
     /\ UNCHANGED <<place, recall, live, emitted, step, pending, current, file>>

-----------------------------------------------------------------------------
(* Memory.  The file is written first, then the log, then the engine.      *)

ReplaceMemoryContext(items) ==
  LET ms == WithMemoryContext(live, items)
  IN HasRoom /\ logs' = Saved(active, Record("replaced", ms)) /\ Hold(ms)

Remember(v) ==
  /\ Command
  /\ step = "idle"
  /\ IF v \in memory
       THEN UNCHANGED <<transcript, memory>>
       ELSE memory' = memory \cup {v} /\ ReplaceMemoryContext(memory')
  /\ promised' = promised \cup {v}
  /\ UNCHANGED <<place, step, pending, current, file>>

RememberNotSaved(v) ==
  /\ Command
  /\ WritesFail /\ step = "idle" /\ v \notin memory
  /\ memory' = memory \cup {v}
  /\ UNCHANGED <<place, transcript, promised, step, pending, current, file>>

Forget ==
  /\ Command
  /\ step = "idle"
  /\ memory' = {} /\ promised' = {}
  /\ ReplaceMemoryContext({})
  /\ UNCHANGED <<place, step, pending, current, file>>

ForgetNotSaved ==
  /\ Command
  /\ WritesFail /\ step = "idle" /\ memory # {}
  /\ memory' = {} /\ promised' = {}
  /\ UNCHANGED <<place, transcript, step, pending, current, file>>

-----------------------------------------------------------------------------
(* Compaction.                                                             *)

CompactBegin ==
  /\ Command
  /\ step = "idle" /\ Len(Rest(live)) > KeepNewest
  /\ step' = "summarizing" /\ current' = live
  /\ UNCHANGED <<place, recall, transcript, pending, file>>

CompactFails ==
  /\ step = "summarizing"
  /\ step' = "idle" /\ current' = <<>>
  /\ UNCHANGED <<place, recall, transcript, pending, file, commands>>

(* Mutant: the emitter is left at its old count.                           *)
CompactEndUncounted ==
  /\ step = "summarizing" /\ HasRoom
  /\ logs' = Saved(active, Record("compact", Compacted(current)))
  /\ live' = Compacted(current)
  /\ step' = "idle" /\ current' = <<>>
  /\ UNCHANGED <<place, recall, emitted, pending, file, commands>>

CompactEnd ==
  /\ step = "summarizing" /\ HasRoom
  /\ logs' = Saved(active, Record("compact", Compacted(current)))
  /\ Hold(Compacted(current))
  /\ step' = "idle" /\ current' = <<>>
  /\ UNCHANGED <<place, recall, pending, file, commands>>

-----------------------------------------------------------------------------
(* Undo: the file, the log up to the checkpoint, the messages before it.   *)

UndoPoint == CHOOSE i \in Checkpoints(logs[active]) : \A j \in Checkpoints(logs[active]) : j <= i

(* Mutant: the file is left as it is.                                      *)
UndoKeepsFile ==
  /\ Command
  /\ step = "idle" /\ Checkpoints(logs[active]) # {}
  /\ logs' = [logs EXCEPT ![active] = SubSeq(@, 1, UndoPoint)]
  /\ Hold(Replay(SubSeq(logs[active], 1, UndoPoint - 1)))
  /\ promised' = {}
  /\ UNCHANGED <<place, memory, step, pending, current, file>>

Undo ==
  /\ Command
  /\ step = "idle" /\ Checkpoints(logs[active]) # {}
  /\ file' = logs[active][UndoPoint].version
  /\ logs' = [logs EXCEPT ![active] = SubSeq(@, 1, UndoPoint)]
  /\ Hold(Replay(SubSeq(logs[active], 1, UndoPoint - 1)))
  /\ promised' = {}
  /\ UNCHANGED <<place, memory, step, pending, current>>

(* The file was emptied and not written, or the log not rewritten.         *)
UndoFails ==
  /\ Command
  /\ WritesFail /\ step = "idle" /\ Checkpoints(logs[active]) # {}
  /\ file' \in {0, logs[active][UndoPoint].version}
  /\ UNCHANGED <<place, recall, transcript, step, pending, current>>

-----------------------------------------------------------------------------
Init ==
  \E s \in Sessions, r \in Roots, other \in Sessions \X Roots :
    /\ active = s /\ where = r
    /\ live = <<Message("system")>> /\ emitted = 1
    /\ step = "idle" /\ pending = 0 /\ current = <<>>
    /\ logs = [t \in Sessions |->
                 IF t \in {s, other[1]} THEN <<Appended(Message("system"))>> ELSE <<>>]
    /\ spec = [t \in Sessions |-> IF t = s THEN r ELSE other[2]]
    /\ memory = {} /\ promised = {} /\ file = 1 /\ commands = 0

Next ==
  \/ Ask \/ Answer \/ (\E n \in 1..2 : CallTools(n))
  \/ Checkpoint \/ ToolWrites \/ ToolAnswers \/ Cancel \/ Reset \/ ReplaceConversation
  \/ \E s \in Sessions : Fork(s) \/ Delete(s) \/ Resume(s) \/ ResumeNotActivated(s)
  \/ \E v \in Values : Remember(v) \/ RememberNotSaved(v)
  \/ Forget \/ ForgetNotSaved
  \/ CompactBegin \/ CompactFails \/ CompactEnd
  \/ Undo \/ UndoFails

Spec == Init /\ [][Next]_vars

-----------------------------------------------------------------------------
HistoryTypeOK ==
  /\ active \in Sessions /\ Stored(active) /\ where \in Roots
  /\ step \in {"idle", "turn", "running", "summarizing"}
  /\ pending \in 0..2 /\ file \in 0..MaxTranscript /\ promised \subseteq Values
  /\ emitted = Len(live) /\ (current # <<>>) = (step = "summarizing")

(* The log of the active session replays to what the engine holds: after   *)
(* every command, a failed write, and a reset while a summary is made.     *)
LogMatchesTranscript == Replay(logs[active]) = live

(* The log before a checkpoint replays to the transcript of the moment the *)
(* checkpoint was taken, whatever came after it.                           *)
CheckpointKeepsItsMoment ==
  \A s \in Sessions : \A i \in Checkpoints(logs[s]) :
    Replay(SubSeq(logs[s], 1, i - 1)) = logs[s][i].messages

(* An undo brings the file and the conversation back to one moment.        *)
UndoReturnsToCheckpointStep ==
  step = "idle" /\ step' = "idle" /\ Len(logs'[active]) < Len(logs[active]) /\ active' = active
     => LET r == logs[active][Len(logs'[active])]
        IN r.type = "checkpoint" /\ file' = r.version /\ live' = r.messages

UndoReturnsToCheckpoint == [][UndoReturnsToCheckpointStep]_vars

Answers(ms, i) == Cardinality({ j \in DOMAIN ms :
  j > i /\ \A k \in (i + 1)..j : IsTool(ms[k]) })

(* A tool result follows the reply that asked for it, with no more of them *)
(* than it has calls: a provider rejects any other.                        *)
NoOrphanResult ==
  \A i \in DOMAIN live : IsTool(live[i]) =>
    \E j \in 1..(i - 1) : /\ live[j].calls >= i - j
                          /\ \A k \in (j + 1)..i : IsTool(live[k])

(* The workspace that is active is the one saved with the active session.  *)
WorkspaceOfSession == where = spec[active]

(* What remember reported is before the model: "a failure leaves one       *)
(* consistent side".                                                       *)
RememberedIsInContext ==
  \A v \in promised : \E i \in DOMAIN live : v \in live[i].items

(* "Every tool call the model asked for must be answered."                 *)
EveryCallAnswered ==
  \A i \in DOMAIN live :
    live[i].calls > 0 /\ (i < Len(live) /\ pending = 0) => Answers(live, i) = live[i].calls
=============================================================================
