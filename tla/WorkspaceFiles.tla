---------------------------- MODULE WorkspaceFiles ----------------------------
(***************************************************************************)
(* The workspace boundary (workspace/context.py, workspace/workspace.py)   *)
(* and the tools that read and write files behind it (tools/files.py).     *)
(* A call resolves its path, is allowed or refused, and only then opens    *)
(* it: between the two, another process may put something else in its      *)
(* place.  A path is a sequence of names, a link names an absolute path.   *)
(***************************************************************************)
EXTENDS Integers, Sequences, SequencesExt, FiniteSets

CONSTANTS
  Paths,      \* bound: the paths something may be at
  Links,      \* the paths links point to
  Requests,   \* what calls name: [absolute, parts], the parts with ".."
  Spec0,      \* the workspace the session began with
  FileSystems,\* the file systems it may begin in
  Swaps,      \* what other processes put at a path: [path, entry]
  MaxCalls,   \* bound: calls
  MaxSwaps    \* bound: changes by other processes

Contents == {"old", "new", "raw"}  \* "raw" holds bytes that are no UTF-8
File(c) == [kind |-> "file", content |-> c]
Link(p) == [kind |-> "link", target |-> p]
Directory == [kind |-> "directory"]
Nothing == [kind |-> "nothing"]
Entries == {File(c) : c \in Contents} \union {Link(p) : p \in Links} \union {Directory, Nothing}

WorkspaceFilesAssumption ==
  /\ Paths \subseteq Seq(STRING) /\ Links \subseteq Paths
  /\ \A p \in Paths : p # <<>> => Front(p) \in Paths
  /\ FileSystems \subseteq [Paths -> Entries]
  /\ MaxCalls \in Nat /\ MaxSwaps \in Nat

VARIABLES
  fs,          \* what is at each path
  context,     \* the context the tools are bound to
  call,        \* the call that runs: its operation, its path once resolved
  checkpoint,  \* what the last checkpoint captured
  touched,     \* [op, path, content]: what the call before read or wrote, and where
  calls, swaps,
  disturbed    \* something else than its call wrote since the checkpoint

vars == <<fs, context, call, checkpoint, touched, calls, swaps, disturbed>>

-----------------------------------------------------------------------------
(* Paths.                                                                  *)

At(p) == IF p \in Paths THEN fs[p] ELSE Nothing
Failed(why) == [error |-> why]
Ok(p) == [error |-> "none", path |-> p]
MaxLinks == Cardinality(Paths)

(* Every link on the way is followed; the last component too.              *)
realpath[n \in 0..MaxLinks, p \in Seq(STRING)] ==
  IF p = <<>> THEN Ok(p)
  ELSE LET parent == realpath[n, Front(p)]
           here == IF parent.error = "none" THEN Append(parent.path, Last(p)) ELSE p
       IN  CASE parent.error # "none" -> parent
             [] At(parent.path).kind # "directory" -> Failed("not a directory")
             [] At(here).kind = "nothing" -> Failed("not found")
             [] At(here).kind = "link" -> IF n = 0 THEN Failed("loop") ELSE realpath[n - 1, At(here).target]
             [] OTHER -> Ok(here)

Real(p) == realpath[MaxLinks, p]

(* ".." is taken out of the text, before any link is looked at.            *)
abspath(request) ==
  FoldLeft(LAMBDA p, name : IF name = ".." THEN (IF p = <<>> THEN p ELSE Front(p)) ELSE Append(p, name),
           IF request.absolute THEN <<>> ELSE context.cwd, request.parts)

(* What does not exist is where its nearest existing ancestor is; only a   *)
(* missing component is passed over, any other failure is the caller's.    *)
(* Mutant: a path that does not exist is taken as it is spelled.           *)
canonicalNearestSpelled(path) == IF Real(path).error = "not found" THEN Ok(path) ELSE Real(path)

canonicalNearest(path) ==
  LET there(k) == Real(SubSeq(path, 1, Len(path) - k))
      k == CHOOSE j \in 0..Len(path) : /\ there(j).error # "not found"
                                       /\ \A i \in 0..(j - 1) : there(i).error = "not found"
      rest(n, found) == IF found.error # "none" THEN found
                        ELSE Ok(found.path \o SubSeq(path, Len(path) - n + 1, Len(path)))
  IN  rest(k, there(k))

Inside(p, roots, write) ==
  \E r \in ToSet(roots) : IsPrefix(r.path, p) /\ (write => r.access = "read_write")

(* Mutant: any root may be written to.                                     *)
canAccessAny(path, write) == Inside(path, context.roots, FALSE)

canAccess(path, write) == Inside(path, context.roots, write)

(* The path is resolved, and resolved again before it is allowed.          *)
resolve(request, write) ==
  LET allowed(resolved, again) ==
        CASE again.error # "none" -> again
          [] ~canAccess(again.path, write) -> Failed("outside")
          [] OTHER -> resolved
      twice(resolved) ==
        IF resolved.error = "none" THEN allowed(resolved, canonicalNearest(resolved.path)) ELSE resolved
  IN  twice(canonicalNearest(abspath(request)))

-----------------------------------------------------------------------------
(* The context.                                                            *)

IsDirectory(p) == Real(p).error = "none" /\ At(Real(p).path).kind = "directory"

(* Mutant: a saved path only has to lead to a directory.                   *)
samePathAny(saved, resolved) == TRUE

samePath(saved, resolved) == saved = resolved

(* A context is built from what is saved and every path of it must still   *)
(* be where it was; primary root and cwd must be readable.                 *)
Rebuilt(spec) ==
  [primary |-> Real(spec.primary).path, cwd |-> Real(spec.cwd).path,
   roots |-> [i \in DOMAIN spec.roots |-> [spec.roots[i] EXCEPT !.path = Real(@).path]]]

contextFromSpec(spec) ==
  /\ IsDirectory(spec.primary) /\ IsDirectory(spec.cwd)
  /\ \A r \in ToSet(spec.roots) : IsDirectory(r.path)
  /\ LET c == Rebuilt(spec)
     IN  /\ Inside(c.primary, c.roots, FALSE) /\ Inside(c.cwd, c.roots, FALSE)
         /\ samePath(spec.primary, c.primary) /\ samePath(spec.cwd, c.cwd)
         /\ \A i \in DOMAIN spec.roots : samePath(spec.roots[i].path, c.roots[i].path)

Idle == call.phase = "idle"
NoCall == [phase |-> "idle"]

Init ==
  /\ fs \in FileSystems
  /\ context = Spec0 /\ contextFromSpec(Spec0)
  /\ call = NoCall /\ checkpoint = [of |-> "none"] /\ touched = {}
  /\ calls = 0 /\ swaps = 0 /\ disturbed = FALSE

activate ==
  /\ Idle /\ contextFromSpec(Spec0)
  /\ context' = Rebuilt(Spec0)
  /\ UNCHANGED <<fs, call, checkpoint, touched, calls, swaps, disturbed>>

-----------------------------------------------------------------------------
(* A call: the checkpoint of a risky one, its check, what it does.         *)

Writes(op) == op \in {"write_file", "apply_patch", "write_export"}
Checkpointed(op) == op \in {"write_file", "apply_patch"}

Stored(content) == IF content = "raw" THEN "replaced" ELSE content

capture(path) ==
  [of |-> path,
   exists |-> Real(path).error = "none",
   content |-> IF Real(path).error = "none" /\ At(Real(path).path).kind = "file"
               THEN Stored(At(Real(path).path).content) ELSE "old",
   before |-> fs]  \* for UndoRestores

(* Registry.run_direct: a path that cannot be captured refuses the call.   *)
run_direct(op, request) ==
  /\ Idle /\ calls < MaxCalls
  /\ calls' = calls + 1
  /\ LET resolved == resolve(request, TRUE)
         captured == IF resolved.error = "none" THEN capture(resolved.path) ELSE [exists |-> FALSE]
         unreadable == captured.exists /\ At(Real(resolved.path).path).kind = "directory"
     IN  IF ~Checkpointed(op)
         THEN call' = [phase |-> "check", op |-> op, request |-> request] /\ UNCHANGED <<checkpoint, disturbed>>
         ELSE IF resolved.error = "none" /\ ~unreadable
         THEN /\ call' = [phase |-> "check", op |-> op, request |-> request]
              /\ checkpoint' = captured /\ disturbed' = FALSE
         ELSE UNCHANGED <<call, checkpoint, disturbed>>
  /\ touched' = {}
  /\ UNCHANGED <<fs, context, swaps>>

resolve_path ==
  /\ call.phase = "check"
  /\ LET resolved == resolve(call.request, Writes(call.op))
     IN  call' = IF resolved.error # "none" THEN NoCall
                 ELSE [phase |-> "open", op |-> call.op, path |-> resolved.path]
  /\ UNCHANGED <<fs, context, checkpoint, touched, calls, swaps, disturbed>>

(* The kernel opens a path: directories on the way may be links; what is   *)
(* at its end is not followed.                                             *)
Place(path) ==
  LET parent == Real(Front(path))
  IN  IF path = <<>> THEN Ok(path)
      ELSE IF parent.error # "none" THEN parent
      ELSE IF At(parent.path).kind # "directory" THEN Failed("not a directory")
      ELSE Ok(Append(parent.path, Last(path)))

(* Mutant: the open follows a link.                                        *)
NoFollowFollows(path) == Real(path)

(* O_NOFOLLOW: a link at the end is refused.                               *)
NoFollow(path) ==
  LET place == Place(path)
  IN  IF place.error = "none" /\ At(place.path).kind = "link" THEN Failed("loop") ELSE place

IsFile(place) == place.error = "none" /\ At(place.path).kind = "file"
Touch(op, place) == [op |-> op, path |-> place.path]

read_file ==
  /\ call.phase = "open" /\ call.op = "read_file"
  /\ call' = NoCall
  /\ touched' = IF IsFile(NoFollow(call.path)) THEN {Touch(call.op, NoFollow(call.path))} ELSE {}
  /\ UNCHANGED <<fs, context, checkpoint, calls, swaps, disturbed>>

(* The entries below a directory, links not followed; what is not readable *)
(* is left out.                                                            *)
collect_files(root) ==
  LET below == {p \in Paths : IsPrefix(root, p) /\ ~IsDirectory(p) /\ At(p).kind # "nothing"}
      shown == {canonicalNearest(p) : p \in below}
  IN  {s.path : s \in {x \in shown : x.error = "none" /\ canAccess(x.path, FALSE)}}

(* Each is resolved again, and skipped when it cannot be read.             *)
search_files ==
  /\ call.phase = "open" /\ call.op = "search"
  /\ call' = NoCall
  /\ touched' = {Touch(call.op, NoFollow(p)) : p \in
                   {q \in collect_files(call.path) : IsFile(NoFollow(q))}}
  /\ UNCHANGED <<fs, context, checkpoint, calls, swaps, disturbed>>

(* A write where the parent is a directory and nothing but a file, or      *)
(* nothing, is at the end; write_file and export make the parents first.   *)
(* Mutant: the parents of a file are not made.                             *)
MadeNone(path) == fs

MadeParents(path) ==
  [p \in Paths |-> IF IsStrictPrefix(p, path) /\ fs[p].kind = "nothing" THEN Directory ELSE fs[p]]

CanMake(path) ==
  \A p \in Paths : IsStrictPrefix(p, path) => fs[p].kind = "nothing" \/ IsDirectory(p)

Written(files, path, content) == [files EXCEPT ![path] = File(content)]

write_file ==
  /\ call.phase = "open" /\ call.op = "write_file"
  /\ call' = NoCall
  /\ LET made == IF CanMake(call.path) THEN MadeParents(call.path) ELSE fs
         place == IF made # fs THEN Ok(call.path) ELSE NoFollow(call.path)
     IN  IF /\ place.error = "none" /\ place.path \in Paths
            /\ At(place.path).kind \in {"file", "nothing"}
         THEN fs' = Written(made, place.path, "new") /\ touched' = {Touch(call.op, place)}
         ELSE fs' = made /\ touched' = {}
  /\ UNCHANGED <<context, checkpoint, calls, swaps, disturbed>>

(* The text that is there is decoded, patched and written back.            *)
apply_patch ==
  /\ call.phase = "open" /\ call.op = "apply_patch"
  /\ call' = NoCall
  /\ LET place == NoFollow(call.path)
     IN  IF IsFile(place) /\ At(place.path).content # "new"
         THEN fs' = Written(fs, place.path, "new") /\ touched' = {Touch(call.op, place)}
         ELSE UNCHANGED fs /\ touched' = {}
  /\ UNCHANGED <<context, checkpoint, calls, swaps, disturbed>>

(* An export is written beside its place and then moved there, whatever    *)
(* file or link is there by then.                                          *)
write_export ==
  /\ call.phase = "open" /\ call.op = "write_export"
  /\ call' = NoCall
  /\ LET made == IF CanMake(call.path) THEN MadeParents(call.path) ELSE fs
         place == IF made # fs THEN Ok(call.path) ELSE Place(call.path)
     IN  IF /\ place.error = "none" /\ place.path \in Paths
            /\ At(place.path).kind # "directory"
         THEN fs' = Written(made, place.path, "new") /\ touched' = {Touch(call.op, place)}
         ELSE fs' = made /\ touched' = {}
  /\ disturbed' = TRUE
  /\ UNCHANGED <<context, checkpoint, calls, swaps>>

-----------------------------------------------------------------------------
(* Undo, and other processes.                                              *)

(* Mutant: what did not exist is left standing.                            *)
RestoredLeft(files, path, snapshot) == [files EXCEPT ![path] = File(snapshot.content)]

Restored(files, path, snapshot) ==
  [files EXCEPT ![path] = IF snapshot.exists THEN File(snapshot.content) ELSE Nothing]

(* The captured path is resolved once more, its parents are made, and what *)
(* is at its end is followed; a file that was not there is removed.        *)
restore ==
  /\ Idle /\ checkpoint.of # "none"
  /\ LET resolved == resolve([absolute |-> TRUE, parts |-> checkpoint.of], TRUE)
         path == IF resolved.error = "none" /\ checkpoint.exists /\ At(resolved.path).kind = "link"
                 THEN canonicalNearest(At(resolved.path).target) ELSE resolved
     IN  /\ path.error = "none" /\ path.path \in Paths
         /\ At(path.path).kind # "directory"
         /\ checkpoint.exists => CanMake(resolved.path)
         /\ path # resolved => IsDirectory(Front(path.path))
         /\ fs' = Restored(IF checkpoint.exists THEN MadeParents(resolved.path) ELSE fs, path.path, checkpoint)
  /\ touched' = {[op |-> "restore", path |-> checkpoint.of]}
  /\ checkpoint' = [checkpoint EXCEPT !.of = "none"]
  /\ UNCHANGED <<context, call, calls, swaps, disturbed>>

(* Another process: at any moment it changes a file, between calls also a  *)
(* directory.  A directory that changes between the check of a call and    *)
(* its open is left out: the code accepts it (docs/tools.md:46).           *)
Swap(s) ==
  /\ swaps < MaxSwaps
  /\ swaps' = swaps + 1 /\ disturbed' = TRUE
  /\ fs[s.path] # s.entry
  /\ fs[s.path].kind = "directory" => Idle
  /\ call.phase = "open" => ~IsStrictPrefix(s.path, call.path)
  /\ fs' = [p \in Paths |-> IF p = s.path THEN s.entry
                            ELSE IF IsStrictPrefix(s.path, p) THEN Nothing ELSE fs[p]]
  /\ UNCHANGED <<context, call, checkpoint, touched, calls>>

Done == calls = MaxCalls /\ Idle /\ UNCHANGED vars

Ops == {"read_file", "search", "write_file", "apply_patch", "write_export"}

Next ==
  \/ \E op \in Ops, r \in Requests : run_direct(op, r)
  \/ resolve_path \/ read_file \/ search_files \/ write_file \/ apply_patch \/ write_export
  \/ activate \/ restore \/ Done
  \/ \E s \in Swaps : Swap(s)

Spec == Init /\ [][Next]_vars

-----------------------------------------------------------------------------
(* Properties.                                                             *)

(* The file system stays a tree, and a call has what its step needs.       *)
TypeOK ==
  /\ \A p \in Paths \ {<<>>} : fs[p].kind # "nothing" => fs[Front(p)].kind = "directory"
  /\ call.phase \in {"idle", "check", "open"}
  /\ call.phase = "open" => call.path \in Seq(STRING)

(* No tool reads or writes a file outside the roots it may read or write,  *)
(* by whatever spelling, link or missing directory its path leads there,   *)
(* also when the file is replaced by a link after the check                *)
(* (docs/tools.md:39-46).                                                  *)
ToolsStayInside ==
  \A t \in touched : t.op # "restore" => Inside(t.path, context.roots, Writes(t.op))

(* A resume adopts the directories that were saved, or nothing             *)
(* (workspace.py:180-182).                                                 *)
ActiveIsSaved == context = Spec0

(* Undo puts the workspace back to what it was when the checkpoint was     *)
(* taken, if nothing else changed it: also when the call created the file. *)
(* Files that are no text come back changed, a link to nothing is gone,    *)
(* and directories made on the way stay.                                   *)
Returned(before, after, p) ==
  \/ after[p] = before[p]
  \/ before[p] = Nothing /\ after[p] = Directory
  \/ p = checkpoint.of /\ before[p] = File("raw") /\ after[p] = File("replaced")
  \/ p = checkpoint.of /\ before[p].kind = "link" /\ after[p] = Nothing

UndoRestoresStep ==
  restore /\ ~disturbed => \A p \in Paths : Returned(checkpoint.before, fs', p)

UndoRestores == [][UndoRestoresStep]_vars

(* docs/session.md:204-206: "The result is that the workspace and the      *)
(* model's context return to the state they shared before the operation."  *)
UndoReturnsTheWorkspace ==
  [][restore /\ ~disturbed => fs' = checkpoint.before]_vars

=============================================================================
