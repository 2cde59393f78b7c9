----------------------------- MODULE SessionMeta ----------------------------
(***************************************************************************)
(* The metadata by which a session is found, named and resumed             *)
(* (store/store.py): meta.json beside the log of each session.  Store has  *)
(* a method as one step; here a method is its reads and writes, taken one  *)
(* by one under the store's lock, for what only they show: a change undone *)
(* by one that was read before it, a write that fails halfway, and what a  *)
(* crash leaves lying about.                                               *)
(*                                                                         *)
(* A record is the turn it was written under.  What it says, and lines     *)
(* that are cut short, are Store's.                                        *)
(***************************************************************************)
EXTENDS Naturals, Sequences, FiniteSets

LOCAL INSTANCE SequencesExt

CONSTANTS
  Sessions,    \* the session ids
  Callers,     \* the tasks and threads that share the store
  Titles,      \* what a session may be called
  NumInitial,  \* the records a new session starts with
  NoOne,       \* no caller
  NoSession,   \* no session
  NoMeta,      \* there is no meta.json
  Idle,        \* a caller that is in no method
  WritesFail,  \* whether the disk may refuse a write
  MaxCalls,    \* bound: calls of the store
  MaxCrashes   \* bound: crashes

Specs == {"legacy", "exact"}  \* only a working directory is saved, or the whole workspace

Metas == [title : Titles, turn : Nat, spec : Specs]

SessionMetaAssumption ==
  /\ NoOne \notin Callers
  /\ NoSession \notin Sessions
  /\ NoMeta \notin Metas
  /\ NumInitial \in Nat \ {0}
  /\ WritesFail \in BOOLEAN
  /\ {MaxCalls, MaxCrashes} \subseteq Nat

VARIABLES
  meta,     \* meta.json of each session
  log,      \* its records
  temps,    \* how many temporary files lie beside it
  lock,     \* who is in a method of the store
  call,     \* what each caller has left to do there
  session,  \* the session each caller has open
  running,  \* the turn it was told to run in it, 0 when none
  kept,     \* what was last written of each session on purpose
  deleted,  \* the sessions that were told to go
  calls, crashes

mvars == <<meta, log, temps, lock, call, session, running, kept,
           deleted, calls, crashes>>

disk == <<meta, log, temps>>

-----------------------------------------------------------------------------
(* The list has the sessions whose metadata can be read.                   *)
Found == { s \in Sessions : meta[s] # NoMeta }

-----------------------------------------------------------------------------
(* A call of the store: what it has read or was given, and the writes it   *)
(* is going to make.                                                       *)

WriteMeta == <<"temporary", "replace">>

Initial == [i \in 1 .. NumInitial |-> "record"]

(* Mutant: the metadata comes first, and the records behind it.            *)
WritesMetaFirst(op) ==
  CASE op \in {"append", "resume"} -> {WriteMeta \o <<"record">>}
    [] op = "create" -> {WriteMeta \o Initial}
    [] op = "delete" -> SetToSeqs({"meta", "log", "temporaries"})
    [] OTHER -> {WriteMeta}

(* A directory is removed in any order.                                    *)
Writes(op) ==
  CASE op \in {"append", "resume"} -> {WriteMeta \o <<"record">>}
    [] op = "create" -> {Initial \o WriteMeta}
    [] op = "delete" -> SetToSeqs({"meta", "log", "temporaries"})
    [] OTHER -> {WriteMeta}

(* Mutant: nobody takes the lock.                                          *)
Unlocked(t) == TRUE

Free(t) == lock = NoOne

(* The method enters, and has read the metadata m it goes by.              *)
Enter(t, op, s, m) ==
  /\ call[t] = Idle
  /\ Free(t)
  /\ calls < MaxCalls
  /\ lock' = t
  /\ calls' = calls + 1
  /\ \E todo \in IF op = "append" /\ m = NoMeta THEN {<<"record">>} ELSE Writes(op) :
       call' = [call EXCEPT ![t] =
         [op |-> op, session |-> s, todo |-> todo, meta |-> m]]

Leave(t) ==
  /\ lock' = NoOne
  /\ call' = [call EXCEPT ![t] = Idle]

-----------------------------------------------------------------------------
(* The methods.                                                            *)

(* A session that is new, or a fork.  Ids are taken from the clock: nothing *)
(* of it is on disk.                                                       *)
Create(t, s, title) ==
  /\ meta[s] = NoMeta /\ log[s] = <<>> /\ temps[s] = 0 /\ s \notin deleted
  /\ ~ \E u \in Callers : call[u] # Idle /\ call[u].session = s
  /\ Enter(t, "create", s, [title |-> title, turn |-> 0, spec |-> "exact"])
  /\ UNCHANGED <<disk, session, running, kept, deleted, crashes>>

(* Mutant: a record is written without a look at the turn it belongs to.   *)
AppendUnderNoTurn(t) ==
  /\ session[t] # NoSession
  /\ Enter(t, "append", session[t], IF meta[session[t]] = NoMeta THEN NoMeta
                                    ELSE [meta[session[t]] EXCEPT !.turn = 0])
  /\ UNCHANGED <<disk, session, running, kept, deleted, crashes>>

(* Everything a turn and the commands save: a record, and the time of the  *)
(* change beside it.                                                       *)
AppendRecord(t) ==
  /\ session[t] # NoSession
  /\ Enter(t, "append", session[t], meta[session[t]])
  /\ UNCHANGED <<disk, session, running, kept, deleted, crashes>>

(* A turn starts when its id is stored, and not at all when it cannot be.  *)
AssignNewTurn(t) ==
  /\ session[t] # NoSession
  /\ meta[session[t]] # NoMeta
  /\ Enter(t, "turn", session[t], [meta[session[t]] EXCEPT !.turn = calls + 1])
  /\ UNCHANGED <<disk, session, running, kept, deleted, crashes>>

RenameSession(t, s, title) ==
  /\ meta[s] # NoMeta
  /\ Enter(t, "rename", s, [meta[s] EXCEPT !.title = title])
  /\ UNCHANGED <<disk, session, running, kept, deleted, crashes>>

(* A session that is open cannot be deleted.                               *)
Delete(t, s) ==
  /\ \A u \in Callers : session[u] # s
  /\ s \in Found
  /\ Enter(t, "delete", s, meta[s])
  /\ deleted' = deleted \cup {s}
  /\ UNCHANGED <<disk, session, running, kept, crashes>>

(* The first half of a resume, of a session from before the workspace was  *)
(* saved: its directory is resolved and written back, once.                *)
SaveWorkspaceDescription(t, s) ==
  /\ s \in Found
  /\ meta[s].spec = "legacy"
  /\ Enter(t, "upgrade", s, [meta[s] EXCEPT !.spec = "exact"])
  /\ UNCHANGED <<disk, session, running, kept, deleted, crashes>>

(* The other half: the conversation as it was loaded is recorded, and the  *)
(* session is open.  Commands come one at a time, so the session cannot go *)
(* between the two; and one that another has open is not resumed.          *)
Resume(t, s) ==
  /\ s \in Found
  /\ log[s] # <<>>
  /\ meta[s].spec = "exact"
  /\ \A u \in Callers \ {t} : session[u] # s
  /\ Enter(t, "resume", s, meta[s])
  /\ UNCHANGED <<disk, session, running, kept, deleted, crashes>>

-----------------------------------------------------------------------------
(* The writes.                                                             *)

(* What a call has in hand when it does its next write.                    *)
Doing(t, write) == call[t] # Idle /\ Head(call[t].todo) = write

(* The rest is still to be done, or the method returns.                    *)
Proceed(t) ==
  LET c == call[t]
  IN IF Len(c.todo) > 1
     THEN /\ call' = [call EXCEPT ![t].todo = Tail(@)]
          /\ UNCHANGED <<lock, session, running>>
     ELSE /\ Leave(t)
          /\ session' = IF c.op \in {"create", "resume"}
                        THEN [session EXCEPT ![t] = c.session] ELSE session
          /\ running' = CASE c.op \in {"create", "resume"} -> [running EXCEPT ![t] = 0]
                          [] c.op = "turn" -> [running EXCEPT ![t] = c.meta.turn]
                          [] OTHER         -> running

WriteTemporary(t) ==
  /\ Doing(t, "temporary")
  /\ temps' = [temps EXCEPT ![call[t].session] = @ + 1]
  /\ Proceed(t)
  /\ UNCHANGED <<meta, log, kept, deleted, calls, crashes>>

(* What the writer means to change: an append means nothing but the time.  *)
Meant(k, c) ==
  CASE c.op = "create"  -> [title |-> c.meta.title, turn |-> c.meta.turn, spec |-> c.meta.spec]
    [] c.op = "turn"    -> [k EXCEPT !.turn = c.meta.turn]
    [] c.op = "rename"  -> [k EXCEPT !.title = c.meta.title]
    [] c.op = "upgrade" -> [k EXCEPT !.spec = c.meta.spec]
    [] OTHER            -> k

ReplaceMeta(t) ==
  /\ Doing(t, "replace")
  /\ temps' = [temps EXCEPT ![call[t].session] = @ - 1]
  /\ meta' = [meta EXCEPT ![call[t].session] = call[t].meta]
  /\ kept' = [kept EXCEPT ![call[t].session] = Meant(@, call[t])]
  /\ Proceed(t)
  /\ UNCHANGED <<log, deleted, calls, crashes>>

(* The record carries the turn the metadata names.                         *)
WriteRecord(t) ==
  /\ Doing(t, "record")
  /\ log' = [log EXCEPT ![call[t].session] =
       Append(@, [turn |-> IF call[t].meta = NoMeta THEN 0 ELSE call[t].meta.turn,
                  of   |-> IF call[t].op = "append" THEN running[t] ELSE 0])]
  /\ Proceed(t)
  /\ UNCHANGED <<meta, temps, kept, deleted, calls, crashes>>

RemoveMeta(t) ==
  /\ Doing(t, "meta")
  /\ meta' = [meta EXCEPT ![call[t].session] = NoMeta]
  /\ Proceed(t)
  /\ UNCHANGED <<log, temps, kept, deleted, calls, crashes>>

RemoveLog(t) ==
  /\ Doing(t, "log")
  /\ log' = [log EXCEPT ![call[t].session] = <<>>]
  /\ Proceed(t)
  /\ UNCHANGED <<meta, temps, kept, deleted, calls, crashes>>

RemoveTemporaries(t) ==
  /\ Doing(t, "temporaries")
  /\ temps' = [temps EXCEPT ![call[t].session] = 0]
  /\ Proceed(t)
  /\ UNCHANGED <<meta, log, kept, deleted, calls, crashes>>

-----------------------------------------------------------------------------
(* Failures.  A temporary file that cannot be put in place is removed.     *)

GivesUp(t, write) ==
  IF write = "replace" THEN [temps EXCEPT ![call[t].session] = @ - 1] ELSE temps

(* The time beside a record is best effort: without it the record is       *)
(* written all the same.                                                   *)
RefreshFails(t) ==
  \E write \in {"temporary", "replace"} :
    /\ WritesFail
    /\ Doing(t, write)
    /\ call[t].op \in {"append", "resume"}
    /\ temps' = GivesUp(t, write)
    /\ call' = [call EXCEPT ![t].todo = <<"record">>]
    /\ UNCHANGED <<meta, log, lock, session, running, kept, deleted, calls, crashes>>

(* Mutant: the temporary file of a failed write stays.                     *)
WriteFailsUncleaned(t) ==
  \E write \in {"temporary", "replace"} :
    /\ WritesFail
    /\ Doing(t, write)
    /\ call[t].op \in {"turn", "rename", "upgrade"}
    /\ Leave(t)
    /\ UNCHANGED <<disk, session, running, kept, deleted, calls, crashes>>

(* Any other write that fails raises, and the rest is not done.            *)
WriteFails(t) ==
  \E write \in {"temporary", "replace", "record"} :
    /\ WritesFail
    /\ Doing(t, write)
    /\ call[t].op \in {"turn", "rename", "upgrade"} \/ (call[t].op # "create" /\ write = "record")
    /\ temps' = GivesUp(t, write)
    /\ Leave(t)
    /\ UNCHANGED <<meta, log, session, running, kept, deleted, calls, crashes>>

(* Mutant: what was created so far stays.                                  *)
CreateFailsUncleaned(t) ==
  /\ WritesFail
  /\ call[t] # Idle /\ call[t].op = "create"
  /\ temps' = [temps EXCEPT ![call[t].session] = 0]
  /\ Leave(t)
  /\ UNCHANGED <<meta, log, session, running, kept, deleted, calls, crashes>>

(* A session that cannot be created whole is removed.                      *)
CreateFails(t) ==
  /\ WritesFail
  /\ call[t] # Idle /\ call[t].op = "create"
  /\ log' = [log EXCEPT ![call[t].session] = <<>>]
  /\ temps' = [temps EXCEPT ![call[t].session] = 0]
  /\ Leave(t)
  /\ UNCHANGED <<meta, session, running, kept, deleted, calls, crashes>>

(* A file that cannot be removed stays, and nobody is told.                *)
RemovalFails(t) ==
  /\ WritesFail
  /\ call[t] # Idle /\ call[t].op = "delete"
  /\ Proceed(t)
  /\ UNCHANGED <<disk, kept, deleted, calls, crashes>>

(* The process dies, and another one is started.                           *)
Crash ==
  /\ crashes < MaxCrashes
  /\ crashes' = crashes + 1
  /\ lock' = NoOne
  /\ call' = [t \in Callers |-> Idle]
  /\ session' = [t \in Callers |-> NoSession]
  /\ running' = [t \in Callers |-> 0]
  /\ UNCHANGED <<disk, kept, deleted, calls>>

-----------------------------------------------------------------------------
(* What an older version left: sessions with a working directory only.     *)
Legacy == [title : Titles, turn : {0}, spec : {"legacy"}]

Init ==
  /\ meta \in [Sessions -> Legacy \cup {NoMeta}]
  /\ log = [s \in Sessions |-> IF meta[s] = NoMeta THEN <<>>
                               ELSE [i \in 1 .. NumInitial |-> [turn |-> 0, of |-> 0]]]
  /\ temps = [s \in Sessions |-> 0]
  /\ lock = NoOne
  /\ call = [t \in Callers |-> Idle]
  /\ session = [t \in Callers |-> NoSession]
  /\ running = [t \in Callers |-> 0]
  /\ kept = meta
  /\ deleted = {}
  /\ calls = 0 /\ crashes = 0

Next ==
  \/ \E t \in Callers :
       \/ AppendRecord(t) \/ AssignNewTurn(t)
       \/ \E s \in Sessions :
            \/ \E title \in Titles : Create(t, s, title) \/ RenameSession(t, s, title)
            \/ Delete(t, s) \/ SaveWorkspaceDescription(t, s) \/ Resume(t, s)
       \/ WriteTemporary(t) \/ ReplaceMeta(t) \/ WriteRecord(t)
       \/ RemoveMeta(t) \/ RemoveLog(t) \/ RemoveTemporaries(t)
       \/ RefreshFails(t) \/ WriteFails(t) \/ CreateFails(t) \/ RemovalFails(t)
  \/ Crash

Spec == Init /\ [][Next]_mvars

-----------------------------------------------------------------------------
SessionMetaTypeOK ==
  /\ meta \in [Sessions -> Metas \cup {NoMeta}]
  /\ log \in [Sessions -> Seq([turn : Nat, of : Nat])]
  /\ temps \in [Sessions -> Nat]
  /\ lock \in Callers \cup {NoOne}
  /\ session \in [Callers -> Sessions \cup {NoSession}]
  /\ running \in [Callers -> Nat]
  /\ kept \in [Sessions -> Metas \cup {NoMeta}]
  /\ deleted \subseteq Sessions
  /\ \A t \in Callers : lock = t => call[t] # Idle

(* Whoever writes a session's metadata writes all of it, as it was when it *)
(* was read, with one field changed.  Still no title, no turn and no       *)
(* upgraded workspace is undone by a record, a failed write or a crash.    *)
NoChangeIsUndone ==
  lock = NoOne => \A s \in Found : meta[s] = kept[s]

(* A record is of the turn its writer is running, as assign_new_turn_id    *)
(* told it: the turn is found in the metadata, and so many others write    *)
(* that file.                                                              *)
RecordsAreOfTheirTurn ==
  \A s \in Sessions : \A i \in DOMAIN log[s] : log[s][i].of \in {0, log[s][i].turn}

(* A session in the list has its whole beginning, unless it was being      *)
(* deleted: "an interrupted creation cannot leave an orphan that looks     *)
(* complete".                                                              *)
FoundIsWhole ==
  \A s \in Found \ deleted : Len(log[s]) >= NumInitial

(* As long as nothing crashed, a log has its metadata and no temporary     *)
(* file lies beside it, whatever failed; a crash leaves one at most.       *)
NothingIsLeftBehind ==
  lock = NoOne =>
    \A s \in Sessions \ deleted :
      /\ temps[s] <= crashes
      /\ crashes = 0 => (log[s] # <<>> <=> meta[s] # NoMeta)
=============================================================================
