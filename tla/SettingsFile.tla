---------------------------- MODULE SettingsFile ----------------------------
(***************************************************************************)
(* ~/.superagent/settings.json: how it is read, made when it is missing    *)
(* and replaced (app/config.py), and how the MCP commands of a session     *)
(* change one server in it (app/mcp.py), with several processes and an     *)
(* editor that share the file, and crashes.                                *)
(*                                                                         *)
(* Inside a process a change is one step of the event loop; its system     *)
(* calls are the steps here.  What the change does to the running servers  *)
(* is in McpSession.tla.                                                   *)
(***************************************************************************)
EXTENDS Integers, FiniteSets

CONSTANTS
  Apps,          \* processes
  Servers,       \* names of MCP servers
  Values,        \* the rest of the settings, as far as the program knows them
  Default,       \* the value of the template
  UnknownKeys,   \* whether an editor may state keys the program does not know
  Together,      \* whether processes and the editor may act between a read and its write
  MaxOps,        \* bound: commands and starts
  MaxEdits       \* bound: edits

SettingsFileAssumption ==
  /\ Default \in Values /\ {UnknownKeys, Together} \subseteq BOOLEAN
  /\ MaxOps \in Nat /\ MaxEdits \in Nat

Content == [kind : {"whole"}, servers : SUBSET Servers, rest : Values, unknown : BOOLEAN]
Entry(kind) == [kind |-> kind]
Absent == Entry("absent")
Unparsable == Entry("unparsable")
Partial == Entry("partial")
Template == [kind |-> "whole", servers |-> {}, rest |-> Default, unknown |-> FALSE]

VARIABLES
  file,     \* the settings file
  temps,    \* temporary files beside it: [app, content]
  at,       \* of each process: "dead", "idle", "reading", "saving" or "writing"
  wanted,   \* of each process: its change, [op, name]
  held,     \* of each process: the settings it holds while it saves
  known,    \* of each process: the servers its session runs with
  ops, edits

process == <<at, wanted, held, known>>
vars == <<file, temps, process, ops, edits>>

Start == [op |-> "start", name |-> ""]
Change(op, name) == [op |-> op, name |-> name]

Init ==
  /\ file = Absent /\ temps = {}
  /\ at = [a \in Apps |-> "dead"] /\ wanted = [a \in Apps |-> Start]
  /\ held = [a \in Apps |-> Template] /\ known = [a \in Apps |-> {}]
  /\ ops = 0 /\ edits = 0

-----------------------------------------------------------------------------
(* Processes.                                                              *)

Quiet == \A a \in Apps : at[a] \in {"dead", "idle"}

Begin(a, change) ==
  /\ (Together \/ Quiet) /\ ops < MaxOps /\ ops' = ops + 1
  /\ wanted' = [wanted EXCEPT ![a] = change]
  /\ at' = [at EXCEPT ![a] = "reading"]
  /\ UNCHANGED <<file, temps, held, known, edits>>

Launch(a) == at[a] = "dead" /\ Begin(a, Start)
AddServer(a, name) == at[a] = "idle" /\ name \notin known[a] /\ Begin(a, Change("add", name))
RemoveServer(a, name) == at[a] = "idle" /\ name \in known[a] /\ Begin(a, Change("remove", name))

\* normalizeSettings and the codec: keys the program does not know are dropped.
Decoded(content) == [content EXCEPT !.unknown = FALSE]

\* Mutant: the servers saved are those of the session.
AppliedToKnown(a, content) ==
  CASE wanted[a].op = "add"    -> [content EXCEPT !.servers = known[a] \cup {wanted[a].name}]
    [] wanted[a].op = "remove" -> [content EXCEPT !.servers = known[a] \ {wanted[a].name}]

\* persist: one server, on top of what the file holds now.
Applied(a, content) ==
  CASE wanted[a].op = "add"    -> [content EXCEPT !.servers = @ \cup {wanted[a].name}]
    [] wanted[a].op = "remove" -> [content EXCEPT !.servers = @ \ {wanted[a].name}]

Finish(a, servers) ==
  /\ at' = [at EXCEPT ![a] = "idle"]
  /\ known' = [known EXCEPT ![a] = servers]

\* The change is rolled back, or the start is given up.
GiveUp(a) ==
  /\ at' = [at EXCEPT ![a] = IF wanted[a].op = "start" THEN "dead" ELSE "idle"]
  /\ UNCHANGED known

Hold(a, content) ==
  /\ held' = [held EXCEPT ![a] = content]
  /\ at' = [at EXCEPT ![a] = "saving"]

\* What a read finds makes it go on.  A file that is there is never replaced
\* because it cannot be read.
Readable == file.kind = "whole"

\* Mutant: a file that cannot be parsed is taken for a missing one.
MissingOrBroken == file.kind \in {"absent", "unparsable"}

Missing == file = Absent

ReadSettings(a) ==
  /\ at[a] = "reading" /\ Readable
  /\ IF wanted[a].op = "start"
     THEN Finish(a, file.servers) /\ UNCHANGED held
     ELSE Hold(a, Applied(a, Decoded(file))) /\ UNCHANGED known
  /\ UNCHANGED <<file, temps, wanted, ops, edits>>

MakeTemplate(a) ==
  /\ at[a] = "reading" /\ Missing
  /\ Hold(a, Template)
  /\ UNCHANGED <<file, temps, wanted, known, ops, edits>>

ReadFails(a) ==
  /\ at[a] = "reading" /\ ~Missing
  /\ GiveUp(a)
  /\ UNCHANGED <<file, temps, wanted, held, ops, edits>>

\* A temporary file of its own, written bit by bit.
OpenTemp(a) ==
  /\ at[a] = "saving" /\ at' = [at EXCEPT ![a] = "writing"]
  /\ temps' = temps \cup {[app |-> a, content |-> Partial]}
  /\ UNCHANGED <<file, wanted, held, known, ops, edits>>

Mine(a) == {t \in temps : t.app = a /\ (t.content = Partial \/ t.content = held[a])}

\* Mutant: the file itself is opened and written.
SyncTempInPlace(a) ==
  /\ at[a] = "writing" /\ \E t \in Mine(a) : t.content = Partial
  /\ temps' = (temps \ Mine(a)) \cup {[app |-> a, content |-> held[a]]}
  /\ file' = Partial
  /\ UNCHANGED <<process, ops, edits>>

SyncTemp(a) ==
  /\ at[a] = "writing" /\ \E t \in Mine(a) : t.content = Partial
  /\ temps' = (temps \ Mine(a)) \cup {[app |-> a, content |-> held[a]]}
  /\ UNCHANGED <<file, process, ops, edits>>

\* os.replace.  After the template a change is put on top of it.
Rename(a) ==
  /\ at[a] = "writing" /\ \E t \in Mine(a) : t.content = held[a]
  /\ file' = held[a] /\ temps' = temps \ Mine(a)
  /\ IF wanted[a].op # "start" /\ held[a] # Applied(a, held[a])
     THEN Hold(a, Applied(a, held[a])) /\ UNCHANGED known
     ELSE /\ Finish(a, CASE wanted[a].op = "start"  -> held[a].servers
                         [] wanted[a].op = "add"    -> known[a] \cup {wanted[a].name}
                         [] wanted[a].op = "remove" -> known[a] \ {wanted[a].name})
          /\ UNCHANGED held
  /\ UNCHANGED <<wanted, ops, edits>>

\* Mutant: what was written stays.
SaveFailsUncleaned(a) ==
  /\ at[a] \in {"saving", "writing"} /\ GiveUp(a)
  /\ UNCHANGED <<file, temps, wanted, held, ops, edits>>

\* Any of these calls fails: the temporary file is removed.
SaveFails(a) ==
  /\ at[a] \in {"saving", "writing"} /\ GiveUp(a)
  /\ temps' = temps \ Mine(a)
  /\ UNCHANGED <<file, wanted, held, ops, edits>>

\* The process ends, anywhere.  The temporary file it may leave has a name that
\* nobody uses again, so it is not followed further.
Crash(a) ==
  /\ at[a] # "dead" /\ at' = [at EXCEPT ![a] = "dead"]
  /\ temps' = {t \in temps : t.app # a}
  /\ UNCHANGED <<file, wanted, held, known, ops, edits>>

-----------------------------------------------------------------------------
(* The editor, or another program that replaces the file.                  *)

Edit(content) ==
  /\ (Together \/ Quiet) /\ edits < MaxEdits /\ edits' = edits + 1
  /\ content # file /\ file' = content
  /\ UNCHANGED <<temps, process, ops>>

Edited == {Absent, Unparsable} \cup {c \in Content : c.unknown => UnknownKeys}

AppNext(a) ==
  \/ Launch(a) \/ (\E name \in Servers : AddServer(a, name) \/ RemoveServer(a, name))
  \/ ReadSettings(a) \/ MakeTemplate(a) \/ ReadFails(a)
  \/ OpenTemp(a) \/ SyncTemp(a) \/ Rename(a) \/ SaveFails(a) \/ Crash(a)

Next == (\E a \in Apps : AppNext(a)) \/ (\E content \in Edited : Edit(content))

Spec == Init /\ [][Next]_vars

-----------------------------------------------------------------------------
(* Properties.                                                             *)

\* Whatever crashes or fails, and whenever it is looked at, the file is one
\* that was written to its end, so that the next start can read it.
FileIsWhole == file \in {Absent, Unparsable} \cup Content

\* A process that lives and is not saving has left no temporary file behind,
\* however its saves ended.
NoTempIsLeft == \A t \in temps : at[t.app] = "writing"

Saved(a) == at[a] = "writing" /\ file' # file /\ edits' = edits

\* A process never replaces a file it could not parse; that is left to whoever
\* wrote it.
BrokenFileIsKeptStep == file = Unparsable => edits' # edits \/ file' = Unparsable

BrokenFileIsKept == [][BrokenFileIsKeptStep]_vars

\* app/mcp.py:7-8 and 125: a command changes its one server in the file and
\* nothing else, although others have written the file since it was last read.
OtherSettingsAreKeptStep ==
  \A a \in Apps : Saved(a) /\ Readable =>
     /\ file'.rest = file.rest
     /\ wanted[a].op # "start"
     /\ file'.servers \ {wanted[a].name} = file.servers \ {wanted[a].name}

OtherSettingsAreKept == [][OtherSettingsAreKeptStep]_vars

\* app/mcp.py:125: without touching the rest.
UnknownKeysAreKept ==
  [][\A a \in Apps : Saved(a) /\ Readable => file'.unknown = file.unknown]_vars
=============================================================================
