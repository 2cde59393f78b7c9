------------------------------ MODULE Session ------------------------------
(***************************************************************************)
(* The session (runtime/session) around the engine: one turn at a time,    *)
(* the emitter that turns snapshots into notifications and saved messages, *)
(* the bounded notification queue and the interface that drains it, the    *)
(* log the messages are saved to, and cancel and reset, which take no turn *)
(* lock and emit through the observer of the turn they run into.           *)
(*                                                                         *)
(* Everything runs on one event loop, and `await queue.put(...)' gives way *)
(* only when the queue is full: "holder" is the task the loop is running,  *)
(* and a step of any other task waits until it is released.  The engine is *)
(* reduced to what a session sees of it (Engine.tla models it in full): it *)
(* appends messages, waits for a decision, fails, and ends up idle.        *)
(***************************************************************************)
EXTENDS Integers, Sequences, FiniteSets, SequencesExt

CONSTANTS
  Turn,         \* the task that runs the turns
  Cancellers,   \* tasks that call Session.cancel
  Resetters,    \* tasks that call Session.reset
  Calls,        \* tool calls that need an approval
  Attachments,  \* files the user may stage
  NoCall, NoTask,
  Capacity,     \* size of the notification queue
  SavesFail,    \* whether a write to the log may raise
  MaxCommits,   \* bound: commits of the engine that advance a run
  MaxLog        \* bound: no turn or command starts on a log this long

Commands == Cancellers \cup Resetters
Tasks == {Turn} \cup Commands

SessionAssumption ==
  /\ Turn \notin Commands /\ NoTask \notin Tasks /\ NoCall \notin Calls
  /\ Capacity \in Nat \ {0} /\ MaxCommits \in Nat /\ MaxLog \in Nat
  /\ SavesFail \in BOOLEAN

System == 0   \* the system message; the others are numbered as they are made

VARIABLES
  messages, state, pending,  \* the engine: conversation, coarse state, call waiting for approval
  retired,      \* whether a command has retired the run of the current turn
  made,         \* commits so far; a message is numbered by the commit that adds it
  emitted, hasApproval, lastApproval,  \* SnapshotEmitter
  log,          \* the records of the session
  queue,        \* the notifications of the current turn
  shown,        \* what the interface shows: state, and whether it asks for approval
  staged,       \* attachments staged for the next turn
  pc,           \* where each task is
  emit,         \* the emission each task is in
  holder,       \* the task the event loop is running, NoTask when it is free
  raised        \* how the last turn ended

engine == <<messages, state, pending, retired, made>>
emitter == <<emitted, hasApproval, lastApproval>>
vars == <<engine, emitter, log, queue, shown, staged, pc, emit, holder, raised>>

-----------------------------------------------------------------------------
(* Notifications and records.                                              *)

StateChanged(s) == [kind |-> "StateChanged", state |-> s]
MessageAppended(m) == [kind |-> "MessageAppended", message |-> m]
ToolApprovalRequested == [kind |-> "ToolApprovalRequested"]
ToolApprovalCleared == [kind |-> "ToolApprovalCleared"]
SessionError == [kind |-> "SessionError"]
NotificationsClosed == [kind |-> "NotificationsClosed"]

Record(kind) == [kind |-> kind]
MessageRecord(m) == [kind |-> "message", message |-> m]

(* Mutant: one place of the queue is never used.                           *)
HasRoomOffByOne == Len(queue) + 1 < Capacity

HasRoom == Len(queue) < Capacity
Put(n) == HasRoom /\ queue' = Append(queue, n)

(* A write to the log either appends or raises.                            *)
Saved(r) == log' = Append(log, r)
SaveRaises == SavesFail /\ UNCHANGED log

-----------------------------------------------------------------------------
(* The emitter.  An emission keeps the snapshot it was called with.        *)

NotEmitting == [stage |-> "none"]

(* Starting one: `then' names where the task goes on afterwards.           *)
Emit(t, msgs, s, call, then) ==
  /\ emit' = [emit EXCEPT ![t] = [stage |-> "state", messages |-> msgs, state |-> s,
                                  pending |-> call, todo |-> <<>>]]
  /\ pc' = [pc EXCEPT ![t] = then]
  /\ holder' = t

EmitSnapshot(t, then) == Emit(t, messages', state', pending', then)

Runs(t) == holder \in {NoTask, t}
Continues(t) == Runs(t) /\ emit[t].stage = "none"

EmitState(t) ==
  /\ Runs(t) /\ emit[t].stage = "state"
  /\ Put(StateChanged(emit[t].state))
  /\ emit' = [emit EXCEPT ![t].stage = "approval"]
  /\ holder' = t
  /\ UNCHANGED <<engine, emitter, log, shown, staged, pc, raised>>

(* The approval change.                                                    *)
NewApproval(call) == call # NoCall /\ (~hasApproval \/ lastApproval # call)

(* Mutant: a cleared approval is not announced.                            *)
ApprovalChangeSilent(call) ==
  \/ /\ NewApproval(call)
     /\ Put(ToolApprovalRequested)
     /\ lastApproval' = call /\ hasApproval' = TRUE
  \/ /\ ~NewApproval(call)
     /\ UNCHANGED <<queue, lastApproval, hasApproval>>

(* Mutant: a request that does not fit is dropped like a stream chunk.     *)
ApprovalChangeDropped(call) ==
  \/ /\ NewApproval(call)
     /\ IF HasRoom THEN Put(ToolApprovalRequested) ELSE UNCHANGED queue
     /\ lastApproval' = call /\ hasApproval' = TRUE
  \/ /\ call # NoCall /\ ~NewApproval(call)
     /\ UNCHANGED <<queue, lastApproval, hasApproval>>
  \/ /\ call = NoCall
     /\ IF hasApproval THEN Put(ToolApprovalCleared) ELSE UNCHANGED queue
     /\ lastApproval' = NoCall /\ hasApproval' = FALSE

ApprovalChange(call) ==
  \/ /\ NewApproval(call)
     /\ Put(ToolApprovalRequested)
     /\ lastApproval' = call /\ hasApproval' = TRUE
  \/ /\ call # NoCall /\ ~NewApproval(call)
     /\ UNCHANGED <<queue, lastApproval, hasApproval>>
  \/ /\ call = NoCall
     /\ IF hasApproval THEN Put(ToolApprovalCleared) ELSE UNCHANGED queue
     /\ lastApproval' = NoCall /\ hasApproval' = FALSE

(* Where the messages not yet emitted begin.                               *)
EmittedWithin(msgs) == IF emitted > Len(msgs) THEN 0 ELSE emitted

EmitApproval(t) ==
  /\ Runs(t) /\ emit[t].stage = "approval"
  /\ ApprovalChange(emit[t].pending)
  /\ LET from == EmittedWithin(emit[t].messages)
     IN  /\ emitted' = from
         /\ emit' = [emit EXCEPT ![t].stage = "messages",
                       ![t].todo = SubSeq(emit[t].messages, from + 1, Len(emit[t].messages))]
  /\ holder' = t
  /\ UNCHANGED <<engine, log, shown, staged, pc, raised>>

EmitMessage(t) ==
  /\ Runs(t) /\ emit[t].stage = "messages" /\ emit[t].todo # <<>>
  /\ Put(MessageAppended(Head(emit[t].todo)))
  /\ Saved(MessageRecord(Head(emit[t].todo)))
  /\ emit' = [emit EXCEPT ![t].todo = Tail(@)]
  /\ holder' = t
  /\ UNCHANGED <<engine, emitter, shown, staged, pc, raised>>

(* Mutant: the count is not advanced.                                      *)
EmitEndForgets(t) ==
  /\ Runs(t) /\ emit[t].stage = "messages" /\ emit[t].todo = <<>>
  /\ emit' = [emit EXCEPT ![t] = NotEmitting]
  /\ holder' = t
  /\ UNCHANGED <<engine, emitter, log, queue, shown, staged, pc, raised>>

EmitEnd(t) ==
  /\ Runs(t) /\ emit[t].stage = "messages" /\ emit[t].todo = <<>>
  /\ emitted' = Len(emit[t].messages)
  /\ emit' = [emit EXCEPT ![t] = NotEmitting]
  /\ holder' = t
  /\ UNCHANGED <<engine, hasApproval, lastApproval, log, queue, shown, staged, pc, raised>>

(* Saving a message raises out of the observer.  Out of a command it goes  *)
(* to the caller; out of the dispatch of a failure it is suppressed; out   *)
(* of anything else it becomes the failure of the turn.                    *)
AfterRaise(t) ==
  CASE pc[t] = "loop" -> "failturn"
    [] pc[t] = "failturn" -> "failturn"
    [] pc[t] = "end" -> "end"
    [] OTHER -> "idle"

EmitRaises(t) ==
  /\ Runs(t) /\ emit[t].stage = "messages" /\ emit[t].todo # <<>>
  /\ Put(MessageAppended(Head(emit[t].todo)))
  /\ SaveRaises
  /\ emit' = [emit EXCEPT ![t] = NotEmitting]
  /\ pc' = [pc EXCEPT ![t] = AfterRaise(t)]
  /\ raised' = IF pc[t] \in {"loop", "end"} THEN "save" ELSE raised
  /\ holder' = IF t = Turn THEN t ELSE NoTask
  /\ UNCHANGED <<engine, emitter, shown, staged>>

EmitStep(t) == EmitState(t) \/ EmitApproval(t) \/ EmitMessage(t) \/ EmitEnd(t) \/ EmitRaises(t)

(* Mutant: the count of emitted messages survives the reset.               *)
EmitterKeepsCount(n) == UNCHANGED emitted /\ hasApproval' = FALSE /\ lastApproval' = NoCall

(* Session.reset re-arms the emitter on what the engine still holds.       *)
EmitterReset(n) == emitted' = n /\ hasApproval' = FALSE /\ lastApproval' = NoCall

-----------------------------------------------------------------------------
(* What the engine commits: at most one message, a state, the pending call.*)

EngineCommits(n, s, call) ==
  /\ made < MaxCommits
  /\ messages' = IF n = 1 THEN Append(messages, made + 1) ELSE messages
  /\ made' = made + 1
  /\ state' = s
  /\ pending' = call

EngineUnchanged == UNCHANGED <<messages, made, state, pending>>

(* Mutant: the abandoned call stays pending.                               *)
EngineAbandonsKeepsPending ==
  IF state = "Idle" THEN EngineUnchanged
  ELSE state' = "Idle" /\ UNCHANGED <<messages, made, pending>>

(* An abandoned run is idle, its outstanding calls answered.               *)
EngineAbandons ==
  IF state = "Idle" THEN EngineUnchanged
  ELSE \/ EngineCommits(1, "Idle", NoCall)
       \/ state' = "Idle" /\ pending' = NoCall /\ UNCHANGED <<messages, made>>

(* A completed action: the model answers or asks for tools, the queue is   *)
(* checked, a tool returns.                                                *)
EngineAdvances ==
  \/ \E s \in {"Idle", "Working"} : EngineCommits(1, s, NoCall)
  \/ EngineCommits(0, "Working", NoCall)
  \/ \E call \in Calls : EngineCommits(0, "Approval", call)

-----------------------------------------------------------------------------
(* The turn.                                                               *)

(* run_turn to the first suspension of the engine.  The interface drains   *)
(* the queue of a turn before it starts the next.                          *)
RunTurn ==
  /\ \A t \in Tasks : pc[t] = "idle"
  /\ holder = NoTask /\ Len(log) < MaxLog
  /\ queue = <<>>
  /\ state = "Idle"
  /\ EngineCommits(1, "Working", NoCall)
  /\ retired' = FALSE
  /\ staged' = {}
  /\ raised' = "none"
  /\ EmitSnapshot(Turn, "loop")
  /\ UNCHANGED <<emitter, log, queue, shown>>

(* An engine left in the middle of a run refuses the message.              *)
RunTurnRefused ==
  /\ \A t \in Tasks : pc[t] = "idle"
  /\ holder = NoTask /\ Len(log) < MaxLog
  /\ queue = <<>>
  /\ state # "Idle"
  /\ staged' = {}
  /\ raised' = "failure"
  /\ pc' = [pc EXCEPT ![Turn] = "failturn"]
  /\ holder' = Turn
  /\ UNCHANGED <<engine, emitter, log, queue, shown, emit>>

(* The loop: the run is over, or its next action starts.                   *)
Loop ==
  /\ pc[Turn] = "loop" /\ Continues(Turn)
  /\ \/ /\ state = "Idle"
        /\ Emit(Turn, messages, state, pending, "end")
     \/ /\ state # "Idle"
        /\ pc' = [pc EXCEPT ![Turn] = IF state = "Approval" THEN "approve" ELSE "work"]
        /\ holder' = NoTask
        /\ UNCHANGED emit
  /\ UNCHANGED <<engine, emitter, log, queue, shown, staged, raised>>

Complete ==
  /\ pc[Turn] = "work" /\ holder = NoTask
  /\ IF retired THEN EngineUnchanged ELSE EngineAdvances
  /\ EmitSnapshot(Turn, "loop")
  /\ UNCHANGED <<retired, emitter, log, queue, shown, staged, raised>>

(* Mutant: the decision is applied and not recorded.                       *)
DecideUnrecorded ==
  /\ pc[Turn] = "approve" /\ holder = NoTask
  /\ UNCHANGED log
  /\ lastApproval' = NoCall
  /\ IF retired THEN EngineUnchanged
     ELSE \E n \in 0..1 : EngineCommits(n, "Working", NoCall)
  /\ EmitSnapshot(Turn, "loop")
  /\ UNCHANGED <<retired, emitted, hasApproval, queue, shown, staged, raised>>

(* A decision is saved, then applied if the run is still current.          *)
Decide ==
  /\ pc[Turn] = "approve" /\ holder = NoTask
  /\ Saved(Record("approval"))
  /\ lastApproval' = NoCall
  /\ IF retired THEN EngineUnchanged
     ELSE \E n \in 0..1 : EngineCommits(n, "Working", NoCall)
  /\ EmitSnapshot(Turn, "loop")
  /\ UNCHANGED <<retired, emitted, hasApproval, queue, shown, staged, raised>>

(* The action raises: a failure, a cancelled context, an interface that    *)
(* went away, a decision that cannot be saved.                             *)
Fail ==
  /\ pc[Turn] \in {"work", "approve"} /\ holder = NoTask
  /\ EngineAbandons
  /\ raised' = "failure"
  /\ EmitSnapshot(Turn, "failturn")
  /\ UNCHANGED <<retired, emitter, log, queue, shown, staged>>

(* failTurn, then the last emission.  A full queue raises QueueFull, which *)
(* replaces the failure; so does an error that cannot be saved.            *)
FailTurn ==
  /\ pc[Turn] = "failturn" /\ Continues(Turn)
  /\ \/ /\ Put(SessionError)
        /\ \/ Saved(Record("error")) /\ Emit(Turn, messages, state, pending, "end")
              /\ UNCHANGED raised
           \/ /\ SaveRaises /\ raised' = "save"
              /\ pc' = [pc EXCEPT ![Turn] = "end"] /\ holder' = Turn /\ UNCHANGED emit
     \/ /\ ~HasRoom
        /\ raised' = "masked"
        /\ pc' = [pc EXCEPT ![Turn] = "end"]
        /\ holder' = Turn
        /\ UNCHANGED <<log, queue, emit>>
  /\ UNCHANGED <<engine, emitter, shown, staged>>

(* Mutant: what is staged is cleared when the turn ends.                   *)
EndTurnClearsStaged ==
  /\ pc[Turn] = "end" /\ Continues(Turn)
  /\ queue' = IF HasRoom THEN Append(queue, NotificationsClosed) ELSE queue
  /\ staged' = {}
  /\ pc' = [pc EXCEPT ![Turn] = "idle"]
  /\ holder' = NoTask
  /\ UNCHANGED <<engine, emitter, log, shown, emit, raised>>

(* The observer is removed, the lock released, the close put if it fits.   *)
EndTurn ==
  /\ pc[Turn] = "end" /\ Continues(Turn)
  /\ queue' = IF HasRoom THEN Append(queue, NotificationsClosed) ELSE queue
  /\ pc' = [pc EXCEPT ![Turn] = "idle"]
  /\ holder' = NoTask
  /\ UNCHANGED <<engine, emitter, log, shown, staged, emit, raised>>

-----------------------------------------------------------------------------
(* The commands.  With a turn running they emit on its queue.              *)

ObserverInstalled == pc[Turn] # "idle"

Dispatched(c, then) ==
  IF ObserverInstalled THEN EmitSnapshot(c, then)
  ELSE /\ pc' = [pc EXCEPT ![c] = then]
       /\ holder' = c
       /\ UNCHANGED emit

Cancel(c) ==
  /\ pc[c] = "idle" /\ holder = NoTask /\ Len(log) < MaxLog
  /\ EngineAbandons
  /\ retired' = TRUE
  /\ Dispatched(c, "cancelled")
  /\ UNCHANGED <<emitter, log, queue, shown, staged, raised>>

CancelEnds(c) ==
  /\ pc[c] = "cancelled" /\ Continues(c)
  /\ Saved(Record("cancel")) \/ SaveRaises
  /\ pc' = [pc EXCEPT ![c] = "idle"]
  /\ holder' = NoTask
  /\ UNCHANGED <<engine, emitter, queue, shown, staged, emit, raised>>

(* The reset is saved first: one that cannot be saved changes nothing.     *)
Reset(c) ==
  /\ pc[c] = "idle" /\ holder = NoTask /\ Len(log) < MaxLog
  /\ Saved(Record("reset"))
  /\ messages' = <<System>> /\ state' = "Idle" /\ pending' = NoCall
  /\ retired' = TRUE
  /\ Dispatched(c, "reset")
  /\ UNCHANGED <<made, emitter, queue, shown, staged, raised>>

ResetEnds(c) ==
  /\ pc[c] = "reset" /\ Continues(c)
  /\ EmitterReset(Len(messages))
  /\ pc' = [pc EXCEPT ![c] = "idle"]
  /\ holder' = NoTask
  /\ UNCHANGED <<engine, log, queue, shown, staged, emit, raised>>

(* replace_conversation takes the turn lock, and saves before it replaces. *)
ReplaceConversation ==
  /\ \A t \in Tasks : pc[t] = "idle"
  /\ holder = NoTask /\ Len(log) < MaxLog
  /\ Saved(Record("replaced"))
  /\ messages' = <<System>> /\ state' = "Idle" /\ pending' = NoCall
  /\ EmitterReset(1)
  /\ UNCHANGED <<retired, made, queue, shown, staged, pc, emit, holder, raised>>

Attach(a) ==
  /\ holder = NoTask
  /\ staged' = staged \cup {a}
  /\ UNCHANGED <<engine, emitter, log, queue, shown, pc, emit, holder, raised>>

(* The interface takes one notification.                                   *)
Receive ==
  /\ holder = NoTask
  /\ queue # <<>>
  /\ queue' = Tail(queue)
  /\ shown' = [state |-> IF Head(queue).kind = "StateChanged" THEN Head(queue).state ELSE shown.state,
               asks |-> CASE Head(queue).kind = "ToolApprovalRequested" -> TRUE
                          [] Head(queue).kind = "ToolApprovalCleared" -> FALSE
                          [] OTHER -> shown.asks]
  /\ UNCHANGED <<engine, emitter, log, staged, pc, emit, holder, raised>>

(* A task whose put finds the queue full lets the loop go.                 *)
NextPut(t) ==
  \/ emit[t].stage = "state"
  \/ emit[t].stage = "approval" /\ (NewApproval(emit[t].pending) \/ (emit[t].pending = NoCall /\ hasApproval))
  \/ emit[t].stage = "messages" /\ emit[t].todo # <<>>

Block(t) ==
  /\ holder = t /\ NextPut(t) /\ ~HasRoom
  /\ holder' = NoTask
  /\ UNCHANGED <<engine, emitter, log, queue, shown, staged, pc, emit, raised>>

-----------------------------------------------------------------------------
Init ==
  /\ messages = <<System>> /\ state = "Idle" /\ pending = NoCall /\ retired = TRUE /\ made = 0
  /\ emitted = 1 /\ hasApproval = FALSE /\ lastApproval = NoCall
  /\ log = << MessageRecord(System) >>
  /\ queue = <<>>
  /\ shown = [state |-> "Idle", asks |-> FALSE]
  /\ staged = {}
  /\ pc = [t \in Tasks |-> "idle"]
  /\ emit = [t \in Tasks |-> NotEmitting]
  /\ holder = NoTask
  /\ raised = "none"

Next ==
  \/ RunTurn \/ RunTurnRefused \/ Loop \/ Complete \/ Decide \/ Fail \/ FailTurn \/ EndTurn
  \/ \E c \in Cancellers : Cancel(c) \/ CancelEnds(c)
  \/ \E c \in Resetters : Reset(c) \/ ResetEnds(c)
  \/ ReplaceConversation
  \/ \E a \in Attachments : Attach(a)
  \/ \E t \in Tasks : EmitStep(t) \/ Block(t)
  \/ Receive

Spec == Init /\ [][Next]_vars

(* The event loop resumes what can run, and the interface reads what is    *)
(* there.                                                                  *)
Advance(t) ==
  \/ EmitStep(t) \/ Block(t)
  \/ t = Turn /\ (Loop \/ FailTurn \/ EndTurn)
  \/ t \in Cancellers /\ CancelEnds(t)
  \/ t \in Resetters /\ ResetEnds(t)

Fairness == SF_vars(Receive) /\ \A t \in Tasks : SF_vars(Advance(t))

FairSpec == Spec /\ Fairness

-----------------------------------------------------------------------------
(* Every variable has its type, and a call is pending exactly in the state *)
(* that waits for its approval.                                            *)
SessionTypeOK ==
  /\ (pending # NoCall) = (state = "Approval")
  /\ messages \in Seq(0..MaxCommits) /\ made \in 0..MaxCommits
  /\ state \in {"Idle", "Working", "Approval"} /\ pending \in Calls \cup {NoCall}
  /\ retired \in BOOLEAN /\ hasApproval \in BOOLEAN
  /\ emitted \in 0..(MaxCommits + 1) /\ lastApproval \in Calls \cup {NoCall}
  /\ Len(queue) <= Capacity
  /\ staged \subseteq Attachments
  /\ pc \in [Tasks -> {"idle", "loop", "work", "approve", "failturn", "end", "cancelled", "reset"}]
  /\ holder \in Tasks \cup {NoTask}
  /\ raised \in {"none", "failure", "save", "masked"}

(* Nothing is under way: no turn, no command.                              *)
Quiet == \A t \in Tasks : pc[t] = "idle"

(* What a restart would make of the log (messages_from_records).           *)
Apply(msgs, r) ==
  CASE r.kind = "message" -> Append(msgs, r.message)
    [] r.kind = "reset" -> SelectSeq(msgs, LAMBDA m : m = System)
    [] r.kind = "replaced" -> <<System>>
    [] OTHER -> msgs

Replay == FoldLeft(Apply, <<>>, log)

(* Between turns the log replays to the conversation the model will see:   *)
(* nothing lost, nothing written twice, nothing out of order.              *)
LogReplaysToConversation == Quiet => Replay = messages

(* No message is ever missing from the log once its turn is over, even     *)
(* when emissions overlap on a full queue.                                 *)
NoMessageIsLost ==
  Quiet => ToSet(messages) \subseteq ToSet(Replay)

(* What the user has been told last about approvals, queue included.       *)
LastAsks ==
  LET told == SelectSeq(queue, LAMBDA n : n.kind \in {"ToolApprovalRequested", "ToolApprovalCleared"})
  IN  IF told = <<>> THEN shown.asks ELSE Last(told).kind = "ToolApprovalRequested"

(* A turn never waits for a decision nobody was asked for: when a live run *)
(* waits, the last word on its way to the interface is the request.        *)
WaitIsAsked == pc[Turn] = "approve" /\ emit[Turn].stage = "none" /\ ~retired => LastAsks

(* When a turn is over and its queue drained, the interface shows the      *)
(* engine's state and asks for nothing.                                    *)
ScreenSettles ==
  Quiet /\ queue = <<>> /\ state = "Idle" /\ raised \in {"none", "failure"}
    => ~shown.asks /\ shown.state = "Idle"

(* An attachment leaves the staging only with a user message that is       *)
(* committed in the same step.                                             *)
AttachmentsLeaveWithMessageStep ==
  staged' # staged /\ ~(staged \subseteq staged') => Len(messages') = Len(messages) + 1

AttachmentsLeaveWithMessage == [][AttachmentsLeaveWithMessageStep]_vars

(* A decision is in the log before the run moves on ("an audit record      *)
(* exists even if the run is cancelled in the next instant").              *)
DecisionIsRecordedStep ==
  state = "Approval" /\ state' = "Working" => Last(log').kind = "approval"

DecisionIsRecorded == [][DecisionIsRecordedStep]_vars

Emitting(t) == emit[t].stage # "none"

(* An emission blocked on a full queue goes on: with an interface that     *)
(* reads, every emission ends.                                             *)
EmissionEnds == \A t \in Tasks : Emitting(t) ~> ~Emitting(t)

(* "a transcript that cannot be written must not fail the turn the user is *)
(* watching" (persistence.py).                                             *)
UnwrittenTranscriptKeepsTurn == raised # "save"

(* "the error the caller must see" is not "masked by a delivery detail"    *)
(* (turn.py).                                                              *)
FailureReachesCaller == raised # "masked"
=============================================================================
