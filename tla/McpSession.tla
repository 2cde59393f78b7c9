----------------------------- MODULE McpSession -----------------------------
(***************************************************************************)
(* One connection to an MCP server: requests numbered and kept until they  *)
(* are answered, a lock around the writes, a loop that reads the answers,  *)
(* and a deadline around every request (tools/mcp/client.py).              *)
(*                                                                         *)
(* A request runs in a task of its own; its caller waits for the task, the *)
(* deadline or the cancellation of the turn, and cancels the task when it  *)
(* did not end by itself.  The server may answer late, twice, in any order *)
(* or never, send requests of its own, stop, or write nonsense.            *)
(***************************************************************************)
EXTENDS Integers, Sequences, FiniteSets

CONSTANTS
  Callers,      \* those that may use the connection at the same time
  Connector,    \* the caller that makes the handshake
  MaxRequests,  \* bound: requests in one behaviour
  ServerAsks    \* whether the server sends requests of its own

SessionAssumption == Connector \in Callers /\ MaxRequests \in Nat /\ ServerAsks \in BOOLEAN

VARIABLES
  phase,      \* "initialize", "list", "ready" or "closed"
  nextId,     \* _next_id
  pending,    \* the keys of _pending
  future,     \* what was delivered for each id: Nothing, an answer or Asked
  writers,    \* holders and waiters of _write_lock, in its order
  sent,       \* the requests the server has got, as <<id, nth>>
  reading,    \* whether the read loop runs; its end sets _done
  err,        \* whether _err is set
  stage,      \* where the task of each caller is
  id,         \* the id of the request each caller has made
  nth,        \* the same request, counted: an answer names what it answers
  expired,    \* whether the caller has given up its task
  answer      \* how the last request of each caller ended

vars == <<phase, nextId, pending, future, writers, sent, reading, err, stage, id, nth, expired, answer>>
connection == <<phase, sent, reading, err>>

Ids == 1..MaxRequests
Nothing == 0    \* an answer is the number of the request it answers
Asked == -1     \* the message was a request of the server's

-----------------------------------------------------------------------------
(* Sending.                                                                *)

Allowed(c) == IF phase = "ready" THEN TRUE ELSE phase # "closed" /\ c = Connector

(* Mutant: a number is free again when its request has ended.              *)
SmallestFreeId == CHOOSE i \in Ids : i \notin pending /\ \A j \in 1..(i - 1) : j \in pending

(* Mutant: the number is taken before it is counted up.                   *)
UncountedId == nextId

FreshId == nextId + 1

Request(c) ==
  /\ stage[c] = "idle" /\ nextId < MaxRequests
  /\ Allowed(c)
  /\ IF err
       THEN /\ answer' = [answer EXCEPT ![c] = "error"]
            /\ UNCHANGED <<nextId, pending, future, writers, stage, id, nth, expired>>
       ELSE /\ nextId' = nextId + 1
            /\ nth' = [nth EXCEPT ![c] = nextId + 1]
            /\ id' = [id EXCEPT ![c] = FreshId]
            /\ pending' = pending \cup {FreshId}
            /\ future' = [future EXCEPT ![FreshId] = Nothing]
            /\ writers' = Append(writers, c)
            /\ stage' = [stage EXCEPT ![c] = "locking"]
            /\ expired' = [expired EXCEPT ![c] = FALSE]
            /\ answer' = [answer EXCEPT ![c] = "none"]
  /\ UNCHANGED connection

(* The queue of the lock once a caller has left it: it is there once.      *)
Without(queue, c) ==
  IF \E k \in DOMAIN queue : queue[k] = c
    THEN LET place == CHOOSE k \in DOMAIN queue : queue[k] = c
         IN  [i \in 1..(Len(queue) - 1) |-> IF i < place THEN queue[i] ELSE queue[i + 1]]
    ELSE queue

(* Mutant: an abandoned request stays registered.                          *)
EndKeepsPending(c, how) ==
  /\ stage' = [stage EXCEPT ![c] = "idle"]
  /\ answer' = [answer EXCEPT ![c] = how]
  /\ writers' = Without(writers, c)
  /\ UNCHANGED <<pending, expired, id, nth>>

(* Mutant: a caller that gives up keeps the lock.                          *)
EndKeepsLock(c, how) ==
  /\ stage' = [stage EXCEPT ![c] = "idle"]
  /\ answer' = [answer EXCEPT ![c] = how]
  /\ pending' = pending \ {id[c]}
  /\ UNCHANGED <<writers, expired, id, nth>>

(* However the task ends, its request is no longer registered.             *)
End(c, how) ==
  /\ stage' = [stage EXCEPT ![c] = "idle"]
  /\ answer' = [answer EXCEPT ![c] = how]
  /\ pending' = pending \ {id[c]}
  /\ writers' = Without(writers, c)
  /\ UNCHANGED <<expired, id, nth>>

WriteFrame(c) ==
  /\ stage[c] = "locking" /\ ~expired[c]
  /\ writers # <<>> /\ Head(writers) = c
  /\ IF err
       THEN End(c, "error") /\ UNCHANGED sent
       ELSE /\ sent' = sent \cup {<<id[c], nth[c]>>}
            /\ stage' = [stage EXCEPT ![c] = "draining"]
            /\ UNCHANGED <<pending, writers, id, nth, expired, answer>>
  /\ UNCHANGED <<phase, nextId, future, reading, err>>

Drained(c) ==
  /\ stage[c] = "draining" /\ ~expired[c]
  /\ \/ /\ writers' = Tail(writers)
        /\ stage' = [stage EXCEPT ![c] = "waiting"]
        /\ UNCHANGED <<pending, id, nth, expired, answer>>
     \/ ~reading /\ End(c, "error")
  /\ UNCHANGED <<nextId, future, connection>>

-----------------------------------------------------------------------------
(* Receiving.                                                              *)

Deliver(i, what) ==
  IF i \in pending
    THEN /\ pending' = pending \ {i}
         /\ future' = [future EXCEPT ![i] = what]
    ELSE UNCHANGED <<pending, future>>

(* Any message with a number is taken for an answer to that request.       *)
Dispatch(i) ==
  /\ reading
  /\ \/ \E m \in sent : m[1] = i /\ Deliver(i, m[2])
     \/ ServerAsks /\ Deliver(i, Asked)
  /\ UNCHANGED <<nextId, writers, stage, id, nth, expired, answer, connection>>

(* The server stops, or sends a header that cannot be read.                *)
ReadLoopFails ==
  /\ reading
  /\ reading' = FALSE /\ err' = TRUE
  /\ UNCHANGED <<phase, nextId, pending, future, writers, sent, stage, id, nth, expired, answer>>

-----------------------------------------------------------------------------
(* Waiting.                                                                *)

(* The task sees an answer or the end of the connection, and waits for the *)
(* helper task it started to be gone.                                      *)
Wake(c) ==
  /\ stage[c] = "waiting" /\ ~expired[c]
  /\ future[id[c]] # Nothing \/ ~reading
  /\ stage' = [stage EXCEPT ![c] = "ending"]
  /\ UNCHANGED <<nextId, pending, future, writers, id, nth, expired, answer, connection>>

Outcome(c) ==
  IF future[id[c]] = Nothing THEN "error"
  ELSE IF expired[c] THEN "timeout"
  ELSE IF future[id[c]] = Asked THEN "asked" ELSE "reply"

(* A cancellation that arrives in this stage is swallowed.                 *)
Finish(c) ==
  /\ stage[c] = "ending"
  /\ End(c, Outcome(c))
  /\ phase' = IF c # Connector \/ phase \in {"ready", "closed"} THEN phase
              ELSE IF Outcome(c) \in {"error", "timeout"} THEN "closed"
              ELSE IF phase = "initialize" THEN "list" ELSE "ready"
  /\ UNCHANGED <<nextId, future, sent, reading, err>>

(* The time is up, or the turn was cancelled, before the task has ended.   *)
Deadline(c) ==
  /\ stage[c] # "idle" /\ ~expired[c]
  /\ expired' = [expired EXCEPT ![c] = TRUE]
  /\ UNCHANGED <<nextId, pending, future, writers, stage, id, nth, answer, connection>>

(* Mutant: a write cannot be cancelled.                                    *)
CancelLandsOnWait(c) ==
  /\ expired[c] /\ stage[c] = "waiting"
  /\ End(c, "timeout")
  /\ phase' = IF c = Connector /\ phase \in {"initialize", "list"} THEN "closed" ELSE phase
  /\ UNCHANGED <<nextId, future, sent, reading, err>>

(* The cancellation reaches the task where it waits.                       *)
CancelLands(c) ==
  /\ expired[c] /\ stage[c] \in {"locking", "draining", "waiting"}
  /\ End(c, "timeout")
  /\ phase' = IF c = Connector /\ phase \in {"initialize", "list"} THEN "closed" ELSE phase
  /\ UNCHANGED <<nextId, future, sent, reading, err>>

-----------------------------------------------------------------------------
(* The session is closed; also after a handshake that failed.  The loop    *)
(* sees the end of the stream or is cancelled, which leaves no error.      *)
Close ==
  /\ phase \in {"ready", "closed"} /\ reading
  /\ phase' = "closed"
  /\ reading' = FALSE
  /\ err' \in BOOLEAN
  /\ UNCHANGED <<nextId, pending, future, writers, sent, stage, id, nth, expired, answer>>

-----------------------------------------------------------------------------
Init ==
  /\ phase = "initialize"
  /\ nextId = 0 /\ pending = {} /\ future = [i \in Ids |-> Nothing]
  /\ writers = <<>> /\ sent = {}
  /\ reading = TRUE /\ err = FALSE
  /\ stage = [c \in Callers |-> "idle"]
  /\ id = [c \in Callers |-> 0] /\ nth = [c \in Callers |-> 0]
  /\ expired = [c \in Callers |-> FALSE]
  /\ answer = [c \in Callers |-> "none"]

TaskStep(c) == WriteFrame(c) \/ Drained(c) \/ Wake(c) \/ Finish(c) \/ CancelLands(c)

Next ==
  \/ \E c \in Callers : Request(c) \/ TaskStep(c) \/ Deadline(c)
  \/ \E i \in Ids : Dispatch(i)
  \/ ReadLoopFails \/ Close

Spec == Init /\ [][Next]_vars

(* Tasks are scheduled, and a deadline runs out, whatever the server does. *)
FairSpec == Spec /\ \A c \in Callers : WF_vars(TaskStep(c)) /\ WF_vars(Deadline(c))

-----------------------------------------------------------------------------
SessionTypeOK ==
  /\ phase \in {"initialize", "list", "ready", "closed"}
  /\ nextId \in 0..MaxRequests
  /\ pending \subseteq 1..nextId /\ sent \subseteq (1..nextId) \X (1..nextId)
  /\ future \in [Ids -> Ids \cup {Nothing, Asked}]
  /\ reading \in BOOLEAN /\ err \in BOOLEAN
  /\ stage \in [Callers -> {"idle", "locking", "draining", "waiting", "ending"}]
  /\ id \in [Callers -> 0..nextId] /\ nth \in [Callers -> 0..nextId]
  /\ expired \in [Callers -> BOOLEAN]
  /\ answer \in [Callers -> {"none", "error", "timeout", "reply", "asked"}]

(* A registered request is one a task still waits with: nothing that was   *)
(* given up, answered or refused stays behind for a late answer to find.   *)
PendingIsAwaited ==
  \A i \in pending : \E c \in Callers : stage[c] # "idle" /\ id[c] = i

(* The lock belongs to a task that is writing, and only its head has       *)
(* written without having drained.                                         *)
LockIsHeldByWriters ==
  /\ \A k \in DOMAIN writers : stage[writers[k]] \in {"locking", "draining"}
  /\ \A c \in Callers : stage[c] = "draining" => writers # <<>> /\ Head(writers) = c

(* What is delivered to a request is the answer to that request: one that  *)
(* comes late, twice or out of order never becomes the answer to another.  *)
AnswersAreOwn ==
  \A c \in Callers :
    stage[c] # "idle" /\ future[id[c]] \notin {Nothing, Asked} => future[id[c]] = nth[c]

(* "Send method and return its result": what is returned is an answer.     *)
ResultIsReply == \A c \in Callers : answer[c] # "asked"

Calling(c) == stage[c] # "idle"

(* Every request ends, whether or not the server reads, writes or lives.   *)
RequestsEnd == \A c \in Callers : Calling(c) ~> ~Calling(c)
=============================================================================
