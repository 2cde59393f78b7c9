------------------------------ MODULE RunContext ------------------------------
(***************************************************************************)
(* Contexts of runs (runtime/protocol/run_context.py) as the program makes *)
(* them: a caller makes a root, the run controller a child of what it is   *)
(* given, and an action or a delegation a derived context that carries one *)
(* more value.  A derived context shares the event of the one it comes     *)
(* from; a child has an event of its own and follows its parent's.         *)
(***************************************************************************)
EXTENDS Integers, FiniteSets

CONSTANTS
  Keys,         \* keys of values: the identity of an action, the depth
  MaxContexts   \* bound: contexts made

RunContextAssumption == MaxContexts \in Nat

NoContext == 0
Contexts == 1..MaxContexts

VARIABLES
  made,      \* contexts made so far
  parent,    \* the context each was made from, or NoContext
  derived,   \* whether it was made by with_value
  event,     \* the context whose event it waits on: itself, unless derived
  isSet,     \* the events that are set, each named by its first context
  children,  \* the contexts each one cancels with itself
  values     \* the keys each one carries

vars == <<made, parent, derived, event, isSet, children, values>>

Init ==
  /\ made = 0
  /\ parent = [c \in Contexts |-> NoContext]
  /\ derived = [c \in Contexts |-> FALSE]
  /\ event = [c \in Contexts |-> c]
  /\ isSet = {}
  /\ children = [c \in Contexts |-> {}]
  /\ values = [c \in Contexts |-> {}]

cancelled(c) == event[c] \in isSet

(* RunContext(), without a parent.                                         *)
NewRoot ==
  /\ made < MaxContexts
  /\ made' = made + 1
  /\ UNCHANGED <<parent, derived, event, isSet, children, values>>

(* Mutant: a child of a cancelled context is only registered.              *)
adoptAnyway(p, c) == children' = [children EXCEPT ![p] = @ \cup {c}] /\ UNCHANGED isSet

(* A cancelled context cancels what it adopts; a new child has none of its *)
(* own yet.                                                                *)
adopt(p, c) ==
  IF cancelled(p)
  THEN isSet' = isSet \cup {event[c]} /\ UNCHANGED children
  ELSE children' = [children EXCEPT ![p] = @ \cup {c}] /\ UNCHANGED isSet

(* RunContext(parent), start_run of the controller.                        *)
NewChild(p) ==
  /\ made < MaxContexts /\ p <= made
  /\ made' = made + 1
  /\ parent' = [parent EXCEPT ![made + 1] = p]
  /\ adopt(p, made + 1)
  /\ UNCHANGED <<derived, event, values>>

(* Mutant: the values of the context it comes from are dropped.            *)
OnlyValue(c, key) == {key}

WithValue(c, key) == values[c] \cup {key}

(* Mutant: the derived context is registered as a child as well.           *)
registered(c, d) == [children EXCEPT ![c] = @ \cup {d}]

heldAfterDerive(c, d) == children

(* Mutants: an event of its own; the event by the name of a context that   *)
(* has none.                                                               *)
ownEvent(c) == made + 1
eventOfContext(c) == c

sharedEvent(c) == event[c]

with_value(c, key) ==
  /\ made < MaxContexts /\ c <= made
  /\ made' = made + 1
  /\ parent' = [parent EXCEPT ![made + 1] = c]
  /\ derived' = [derived EXCEPT ![made + 1] = TRUE]
  /\ event' = [event EXCEPT ![made + 1] = sharedEvent(c)]
  /\ values' = [values EXCEPT ![made + 1] = WithValue(c, key)]
  /\ children' = heldAfterDerive(c, made + 1)
  /\ UNCHANGED isSet

(* What a cancel of c reaches: c, and in turn every registered child that  *)
(* is not cancelled yet; the least set that holds c and is so closed.      *)
FollowsChildren(S) == \A x \in S : \A d \in children[x] : cancelled(d) \/ d \in S

Reached(c) ==
  {d \in Contexts : \A S \in SUBSET Contexts : c \in S /\ FollowsChildren(S) => d \in S}

(* A cancelled one is left alone.  What is derived is lent to actions,     *)
(* which do not cancel it.                                                 *)
cancel(c) ==
  /\ c <= made /\ ~derived[c] /\ ~cancelled(c)
  /\ isSet' = isSet \cup {event[d] : d \in Reached(c)}
  /\ UNCHANGED <<made, parent, derived, event, children, values>>

Done == made = MaxContexts /\ (\A c \in Contexts : derived[c] \/ cancelled(c)) /\ UNCHANGED vars

Next ==
  \/ NewRoot
  \/ \E c \in Contexts :
        \/ NewChild(c) \/ cancel(c)
        \/ \E key \in Keys : with_value(c, key)
  \/ Done

Spec == Init /\ [][Next]_vars

-----------------------------------------------------------------------------
(* Properties.                                                             *)

TypeOK ==
  /\ made \in 0..MaxContexts
  /\ parent \in [Contexts -> 0..made] /\ derived \in [Contexts -> BOOLEAN]
  /\ event \in [Contexts -> Contexts] /\ (\A c \in Contexts : event[event[c]] = event[c])
  /\ isSet \subseteq {event[c] : c \in 1..made}
  /\ children \in [Contexts -> SUBSET (1..made)] /\ values \in [Contexts -> SUBSET Keys]

(* A run is never live under a caller whose own context is cancelled,      *)
(* whichever came first: "a turn's context is derived from the caller's,   *)
(* so cancelling the caller stops the run" (run_context.py:31-33).  The    *)
(* caller's context is one that was not made by with_value.                *)
CallerStopsRun ==
  \A c \in 1..made :
    (parent[c] # NoContext /\ ~derived[c] /\ ~derived[parent[c]] /\ cancelled(parent[c]))
      => cancelled(c)

(* An action is cancelled with its run and never apart from it: neither    *)
(* outlives the other's cancel (with_value, run_context.py:48-52).         *)
ActionIsItsRun ==
  \A c \in 1..made : derived[c] => (cancelled(c) <=> cancelled(parent[c]))

(* What an outer context carries is found on every context derived from it *)
(* by with_value: the depth of a delegation stays readable under the       *)
(* identity of an action (subagents.py:125, telemetry.py:112-118).         *)
ValuesAreKept == \A c \in 1..made : derived[c] => values[parent[c]] \subseteq values[c]

(* "registering a per-action context would leak one entry per action for   *)
(* the life of the run" (run_context.py:50-52): a context holds runs only. *)
NoActionIsHeld == \A c \in 1..made : \A d \in children[c] : ~derived[d]

(* A cancel reaches what it is about, and a context costs its run nothing. *)
CancellationFollowsTheRun ==
  CallerStopsRun /\ ActionIsItsRun /\ ValuesAreKept /\ NoActionIsHeld

(* "Cancelling the parent cancels every context derived from it"           *)
(* (run_context.py:30-31).                                                 *)
CancelReachesAll ==
  \A c \in 1..made : parent[c] # NoContext /\ cancelled(parent[c]) => cancelled(c)

=============================================================================
