---------------------------- MODULE Instructions ----------------------------
(***************************************************************************)
(* app/instructions: which AGENTS.md and CLAUDE.md files guide a session.  *)
(* The directories from the working directory up to the root of the file   *)
(* system are numbered from 1 to Depth; number 0 is the directory of the   *)
(* user's own file.  The files do not change while they are read.          *)
(***************************************************************************)
EXTENDS Integers, SequencesExt

CONSTANTS
  Depth,       \* directories on the path, the root included
  Files,       \* what may lie at one path
  MayBeShut    \* whether a directory may have become unsearchable

InstructionsAssumption ==
  /\ Depth \in Nat \ {0} /\ MayBeShut \in BOOLEAN
  /\ {"absent", "text"} \subseteq Files
  /\ Files \subseteq {"absent", "empty", "text", "large", "directory"}

Dirs == 1..Depth
User == 0
Names == {"AGENTS.md", "CLAUDE.md"}

VARIABLES
  git,       \* of each directory: "none", "dir" or "file"
  agents,    \* AGENTS.md of each directory, and of the user
  claude,    \* CLAUDE.md of each directory
  shut,      \* those that cannot be searched, and all below them on the path
  at,        \* "walk", "trim", "user", "read", "loaded" or "failed"
  top,       \* the last directory of the walk
  left,      \* the directories still to be read, outermost first
  sources    \* Bundle.sources: <<directory, name>>

files == <<git, agents, claude, shut>>
vars == <<files, at, top, left, sources>>

\* A working directory that cannot be reached is taken for a file.
First == IF 2 \in shut THEN 2 ELSE 1

Init ==
  /\ git \in [Dirs -> {"none", "dir", "file"}]
  /\ agents \in [Dirs \cup {User} -> Files]
  /\ claude \in [Dirs -> Files]
  /\ shut \in IF MayBeShut THEN {1..d : d \in 0..Depth} \cup {(1..d) \cup {User} : d \in 0..Depth} ELSE {{}}
  /\ at = "walk" /\ top = First /\ left = <<>> /\ sources = <<>>

-----------------------------------------------------------------------------
(* What the program sees.                                                  *)

File(d, name) == IF name = "AGENTS.md" THEN agents[d] ELSE claude[d]

\* Mutant: a worktree's .git file does not count.
GitDirOnly(d) == git[d] = "dir" /\ d \notin shut

\* os.path.isdir and isfile answer no when the directory cannot be searched.
HasGit(d) == git[d] # "none" /\ d \notin shut

\* os.stat raises.
Unchecked(d) == d \in shut

HasInstructionFile(d) ==
  \E name \in Names : File(d, name) \notin {"absent", "directory"}

\* os.path.exists answers no.
Exists(d, name) == d \notin shut /\ File(d, name) \notin {"absent", "directory"}

TooLarge(d, name) == Exists(d, name) /\ File(d, name) = "large"

\* Mutant: an empty file is guidance.
ContributesIfThere(d, name) == Exists(d, name) /\ File(d, name) # "large"

Contributes(d, name) == Exists(d, name) /\ File(d, name) = "text"

-----------------------------------------------------------------------------
\* ancestorDirs.
Walk ==
  /\ at = "walk"
  /\ IF HasGit(top) \/ top = Depth
     THEN at' = "trim" /\ UNCHANGED top
     ELSE top' = top + 1 /\ UNCHANGED at
  /\ UNCHANGED <<files, left, sources>>

Downward(from) == [i \in 1..(from + 1 - First) |-> from + 1 - i]

\* From the outermost directory inwards, up to the first that holds a file; when
\* none does, the working directory alone is left.
Trim ==
  /\ at = "trim"
  /\ IF Unchecked(top) THEN at' = "failed" /\ UNCHANGED <<top, left>>
     ELSE IF HasInstructionFile(top) \/ top = First
          THEN at' = "user" /\ left' = Downward(top) /\ UNCHANGED top
          ELSE top' = top - 1 /\ UNCHANGED <<at, left>>
  /\ UNCHANGED <<files, sources>>

\* The user's file comes first.
ReadUser ==
  /\ at = "user"
  /\ at' = IF TooLarge(User, "AGENTS.md") THEN "failed" ELSE "read"
  /\ sources' = IF Contributes(User, "AGENTS.md") THEN <<<<User, "AGENTS.md">>>> ELSE <<>>
  /\ UNCHANGED <<files, top, left>>

\* CLAUDE.md is looked at when AGENTS.md contributed nothing.
Chosen(d) == {name \in Names :
                /\ Contributes(d, name)
                /\ name = "CLAUDE.md" => ~Contributes(d, "AGENTS.md")}

ReadDirectory ==
  /\ at = "read" /\ left # <<>>
  /\ LET d == Head(left)
     IN IF \/ TooLarge(d, "AGENTS.md")
           \/ ~Contributes(d, "AGENTS.md") /\ TooLarge(d, "CLAUDE.md")
        THEN at' = "failed" /\ UNCHANGED sources
        ELSE /\ sources' = sources \o SetToSeq({<<d, name>> : name \in Chosen(d)})
             /\ UNCHANGED at
  /\ left' = Tail(left)
  /\ UNCHANGED <<files, top>>

Loaded ==
  /\ at = "read" /\ left = <<>> /\ at' = "loaded"
  /\ UNCHANGED <<files, top, left, sources>>

Next == Walk \/ Trim \/ ReadUser \/ ReadDirectory \/ Loaded

Spec == Init /\ [][Next]_vars

-----------------------------------------------------------------------------
(* Properties.                                                             *)

Heard == Range(sources)
Project == {d \in Dirs : \A e \in 1..(d - 1) : git[e] = "none"}

\* instructions/__init__.py:12: nothing from beyond the nearest .git, whichever
\* kind of file it is, and the layers come outermost first, each once, the
\* user's own before all of them.
OnlyTheProjectIsHeard ==
  at = "loaded" =>
    /\ \A s \in Heard : s[1] \in Project \cup {User}
    /\ \A i, j \in DOMAIN sources :
         i < j => sources[j][1] # User /\ (sources[i][1] = User \/ sources[i][1] > sources[j][1])

\* instructions/__init__.py:5-10: every directory of the project that has
\* guidance is heard, by its AGENTS.md, or by its CLAUDE.md when AGENTS.md is
\* missing or empty, although directories are dropped at the top.
EveryLayerIsHeard ==
  at = "loaded" /\ shut = {} =>
    /\ (agents[User] = "text") = (<<User, "AGENTS.md">> \in Heard)
    /\ \A d \in Project :
         /\ (agents[d] = "text") = (<<d, "AGENTS.md">> \in Heard)
         /\ (agents[d] # "text" /\ claude[d] = "text") = (<<d, "CLAUDE.md">> \in Heard)

\* instructions/__init__.py:138-140: instructions never vanish because a
\* directory became unreadable.
NothingVanishes ==
  at = "loaded" =>
    \A d \in (Project \cup {User}) \cap shut : agents[d] # "text"

\* instructions/__init__.py:12-14: a stray AGENTS.md in the root of the file
\* system, which is no project's directory, changes nothing.
StrayIsNotHeard ==
  at = "loaded" /\ Depth > 1 /\ git[Depth] = "none" => \A s \in Heard : s[1] # Depth
=============================================================================
