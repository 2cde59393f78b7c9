----------------------------- MODULE LspClient -----------------------------
(***************************************************************************)
(* One connection to a language server (tools/lsp/client.py, _Client).     *)
(* Requests wait for their answer, the end of the connection or the        *)
(* cancellation of their run, without a deadline; a write has one, and     *)
(* when it passes the connection is poisoned.  Diagnostics are pushed.     *)
(***************************************************************************)
EXTENDS Integers, Sequences, FiniteSets

CONSTANTS
  Callers,      \* those that may use the connection at the same time
  MaxRequests,  \* bound: requests in one behaviour
  PipeWedges    \* whether the server may stop reading its input

ClientAssumption == MaxRequests \in Nat /\ PipeWedges \in BOOLEAN

VARIABLES
  nextId,     \* _next_id
  pending,    \* the keys of _pending
  answered,   \* the ids whose future has a result
  writers,    \* holders and waiters of _write_lock, in its order
  wedged,     \* the server no longer reads
  sent,       \* the requests the server has got
  done,       \* _done: the read loop has ended
  err,        \* whether _err is set
  stage,      \* where each caller is
  id,         \* the id of its request
  cancelled,  \* the run of the caller is cancelled
  closing     \* the stage of close: "no", "shutdown" or "killed"

vars == <<nextId, pending, answered, writers, wedged, sent, done, err, stage, id, cancelled, closing>>

Ids == 1..MaxRequests

-----------------------------------------------------------------------------
(* Mutant: the number is taken before it is counted up.                    *)
UncountedId == nextId

FreshId == nextId + 1

Request(c) ==
  /\ stage[c] = "idle" /\ nextId < MaxRequests /\ ~err
  /\ nextId' = nextId + 1
  /\ id' = [id EXCEPT ![c] = FreshId]
  /\ pending' = pending \cup {FreshId}
  /\ writers' = Append(writers, c)
  /\ stage' = [stage EXCEPT ![c] = "locking"]
  /\ cancelled' = [cancelled EXCEPT ![c] = FALSE]
  /\ UNCHANGED <<answered, wedged, sent, done, err, closing>>

(* Mutant: a request that ends otherwise than by its answer stays.         *)
EndKeeps(c) ==
  /\ stage' = [stage EXCEPT ![c] = "idle"]
  /\ UNCHANGED <<pending, id, cancelled>>

End(c) ==
  /\ stage' = [stage EXCEPT ![c] = "idle"]
  /\ pending' = pending \ {id[c]}
  /\ UNCHANGED <<id, cancelled>>

(* Mutant: the error is looked for before the lock only.                   *)
WriteFrameUnchecked(c) ==
  /\ stage[c] = "locking" /\ writers # <<>> /\ Head(writers) = c
  /\ stage' = [stage EXCEPT ![c] = "draining"]
  /\ sent' = IF wedged THEN sent ELSE sent \cup {id[c]}
  /\ UNCHANGED <<nextId, pending, answered, writers, wedged, done, err, id, cancelled, closing>>

(* A connection that was poisoned meanwhile is not written to.             *)
WriteFrame(c) ==
  /\ stage[c] = "locking" /\ writers # <<>> /\ Head(writers) = c
  /\ IF err
       THEN End(c) /\ writers' = Tail(writers) /\ UNCHANGED sent
       ELSE /\ stage' = [stage EXCEPT ![c] = "draining"]
            /\ sent' = IF wedged THEN sent ELSE sent \cup {id[c]}
            /\ UNCHANGED <<pending, writers, id, cancelled>>
  /\ UNCHANGED <<nextId, answered, wedged, done, err, closing>>

Drained(c) ==
  /\ stage[c] = "draining" /\ ~wedged
  /\ writers' = Tail(writers)
  /\ stage' = [stage EXCEPT ![c] = "waiting"]
  /\ UNCHANGED <<nextId, pending, answered, wedged, sent, done, err, id, cancelled, closing>>

(* The deadline of a write, the only one a request has.                    *)
WriteTimesOut(c) ==
  /\ stage[c] = "draining" /\ wedged
  /\ End(c)
  /\ writers' = Tail(writers)
  /\ err' = TRUE
  /\ UNCHANGED <<nextId, answered, wedged, sent, done, closing>>

Dispatch(i) ==
  /\ ~done /\ i \in sent /\ i \in pending
  /\ pending' = pending \ {i}
  /\ answered' = answered \cup {i}
  /\ UNCHANGED <<nextId, writers, wedged, sent, done, err, stage, id, cancelled, closing>>

ReadLoopFails ==
  /\ ~done
  /\ done' = TRUE /\ err' = TRUE /\ wedged' = FALSE
  /\ UNCHANGED <<nextId, pending, answered, writers, sent, stage, id, cancelled, closing>>

PipeFills ==
  /\ PipeWedges /\ ~wedged /\ ~done
  /\ wedged' = TRUE
  /\ UNCHANGED <<nextId, pending, answered, writers, sent, done, err, stage, id, cancelled, closing>>

(* Mutant: the end of the connection wakes nobody.                         *)
WakeOnAnswer(c) ==
  /\ stage[c] = "waiting"
  /\ id[c] \in answered \/ cancelled[c]
  /\ End(c)
  /\ UNCHANGED <<nextId, answered, writers, wedged, sent, done, err, closing>>

(* A waiter sees its answer, the end of the connection, or its run.        *)
Wake(c) ==
  /\ stage[c] = "waiting"
  /\ id[c] \in answered \/ done \/ cancelled[c]
  /\ End(c)
  /\ UNCHANGED <<nextId, answered, writers, wedged, sent, done, err, closing>>

(* Cancelling the run does not interrupt a write.                          *)
CancelRun(c) ==
  /\ stage[c] # "idle" /\ ~cancelled[c]
  /\ cancelled' = [cancelled EXCEPT ![c] = TRUE]
  /\ UNCHANGED <<nextId, pending, answered, writers, wedged, sent, done, err, stage, id, closing>>

(* close asks the server to shut down, with a deadline, and then kills it: *)
(* the read loop ends, by itself or cancelled.                             *)
CloseBegin ==
  /\ closing = "no"
  /\ closing' = "shutdown"
  /\ UNCHANGED <<nextId, pending, answered, writers, wedged, sent, done, err, stage, id, cancelled>>

CloseKills ==
  /\ closing = "shutdown"
  /\ closing' = "killed"
  /\ done' = TRUE /\ wedged' = FALSE
  /\ err' \in IF err THEN {TRUE} ELSE BOOLEAN
  /\ UNCHANGED <<nextId, pending, answered, writers, sent, stage, id, cancelled>>

-----------------------------------------------------------------------------
Init ==
  /\ nextId = 0 /\ pending = {} /\ answered = {} /\ writers = <<>>
  /\ wedged = FALSE /\ sent = {} /\ done = FALSE /\ err = FALSE
  /\ stage = [c \in Callers |-> "idle"]
  /\ id = [c \in Callers |-> 0]
  /\ cancelled = [c \in Callers |-> FALSE]
  /\ closing = "no"

CallerStep(c) == WriteFrame(c) \/ Drained(c) \/ WriteTimesOut(c) \/ Wake(c)

Next ==
  \/ \E c \in Callers : Request(c) \/ CallerStep(c) \/ CancelRun(c)
  \/ \E i \in Ids : Dispatch(i)
  \/ ReadLoopFails \/ PipeFills \/ CloseBegin \/ CloseKills

Spec == Init /\ [][Next]_vars

(* Tasks are scheduled, a write has its deadline and so has the shutdown.  *)
FairSpec ==
  Spec /\ (\A c \in Callers : WF_vars(CallerStep(c))) /\ WF_vars(CloseKills)

-----------------------------------------------------------------------------
ClientTypeOK ==
  /\ nextId \in 0..MaxRequests
  /\ pending \subseteq 1..nextId /\ answered \subseteq sent /\ sent \subseteq 1..nextId
  /\ wedged \in BOOLEAN /\ done \in BOOLEAN /\ err \in BOOLEAN
  /\ stage \in [Callers -> {"idle", "locking", "draining", "waiting"}]
  /\ id \in [Callers -> 0..nextId] /\ cancelled \in [Callers -> BOOLEAN]
  /\ closing \in {"no", "shutdown", "killed"}

(* A registered request is one somebody waits with.                        *)
PendingIsAwaited == \A i \in pending : \E c \in Callers : stage[c] # "idle" /\ id[c] = i

(* "The pipe is wedged; this client is unrecoverable": once a write has    *)
(* timed out, nobody is held up by that pipe again.                        *)
NobodyWaitsForDeadPipe == err /\ wedged => \A c \in Callers : stage[c] # "draining"

Calling(c) == stage[c] # "idle"
IsToEnd(c) == Calling(c) /\ (cancelled[c] \/ done)

(* A call whose run is cancelled ends, and so does every call once the     *)
(* server is gone: no write holds it for ever.                             *)
CancelledCallEnds ==
  \A c \in Callers : IsToEnd(c) ~> ~Calling(c)

(* "Record the error every waiter should observe."                         *)
ErrorReachesWaiters == \A c \in Callers : (err /\ stage[c] = "waiting") ~> stage[c] # "waiting"
=============================================================================
