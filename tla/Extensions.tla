----------------------------- MODULE Extensions -----------------------------
(***************************************************************************)
(* app/extensions.py: the custom commands and hooks of a session, from the *)
(* settings, the user's and the project's directory and the plugins.  One  *)
(* pass when a session is configured, one file at a time; what a file      *)
(* holds is decided when it is read.  Of a skill only its reading is here. *)
(*                                                                         *)
(* A plugin is named by its resolved path; Home says under which of the    *)
(* two roots it lies.  Hooks are those of one event.                       *)
(***************************************************************************)
EXTENDS Integers, SequencesExt

CONSTANTS
  Names,       \* command names
  Reserved,    \* those of the built-in catalogue, and invalid ones
  Plugins,     \* directories that hold a plugin
  Home         \* of each plugin: "user", "project" or "elsewhere"

ExtensionsAssumption ==
  /\ Reserved \subseteq Names
  /\ IsFiniteSet(Plugins)
  /\ Plugins \cap {"settings", "user", "project", "nobody"} = {}
  /\ Home \in [Plugins -> {"user", "project", "elsewhere"}]

Nobody == "nobody"
Roots == <<"user", "project">>
\* What a file says of commands: each name with a prompt, which may be blank.
\* A manifest may spell a name with a slash and without.
Claims == [Names -> {"none", "blank", "prompt"}]
NoClaims == [n \in Names |-> "none"]
Claimed(claims) == {n \in Names : claims[n] # "none"}
Manifest == [commands : Claims, twice : SUBSET Names, typo : BOOLEAN]

VARIABLES
  same,       \* whether the program runs in the home directory: the roots are one
  at,         \* "settings", "roots", "plugins", "checks", "loaded" or "failed"
  roots,      \* the roots still to be searched
  queue,      \* the plugin paths still to be read
  seen,       \* seen_plugins
  commands,   \* of each name: the source of its prompt
  hooks,      \* the sources of the commands of a hook, in order
  stated,     \* of each source that was read: its claims
  listed,     \* the plugins the settings list
  mistakes    \* what was wrong in the files, whatever the program made of it

vars == <<same, at, roots, queue, seen, commands, hooks, stated, listed, mistakes>>

Sources == {"settings", "user", "project"} \cup Plugins

Directory(root) == IF same THEN "user" ELSE root

Init ==
  /\ same \in BOOLEAN
  /\ at = "settings" /\ roots = Roots /\ queue = <<>> /\ seen = {}
  /\ commands = [n \in Names |-> Nobody] /\ hooks = <<>>
  /\ stated = [s \in Sources |-> NoClaims]
  /\ listed = <<>> /\ mistakes = {}

-----------------------------------------------------------------------------
Settle(source, claims) ==
  [n \in Names |-> IF commands[n] = Nobody /\ claims[n] # "none" THEN source ELSE commands[n]]

\* Mutant: a later root wins.
DiscoveredLast(source, claims) ==
  [n \in Names |-> IF claims[n] # "none" THEN source ELSE commands[n]]

\* commands.setdefault.
Discovered(source, claims) == Settle(source, claims)

\* The settings, whose names are taken as a user would write them.
ReadSettings(claims, paths, typo) ==
  /\ at = "settings" /\ at' = "roots"
  /\ commands' = Settle("settings", claims)
  /\ stated' = [stated EXCEPT !["settings"] = claims]
  /\ hooks' = <<"settings">>
  /\ queue' = paths /\ listed' = paths
  /\ mistakes' = IF typo THEN {"typo"} ELSE {}
  /\ UNCHANGED <<same, roots, seen>>

\* The *.md files of one root.  A root that is both is read twice.
Discover(claims) ==
  /\ at = "roots" /\ roots # <<>>
  /\ LET directory == Directory(Head(roots))
         reread == directory # Head(roots)
         found == IF reread THEN stated[directory] ELSE claims
     IN /\ commands' = Discovered(directory, found)
        /\ stated' = [stated EXCEPT ![directory] = found]
  /\ roots' = Tail(roots)
  /\ UNCHANGED <<same, at, queue, seen, hooks, listed, mistakes>>

Found(root) == {q \in Plugins : IF same THEN Home[q] # "elsewhere" ELSE Home[q] = root}

\* Mutant: the plugins the settings list are taken instead of those found.
UnderUnlessListed(root) == IF listed = <<>> THEN SetToSeq(Found(root)) ELSE <<>>

\* The plugin directories under the roots come after those the settings list.
Under(root) == SetToSeq(Found(root))

DiscoverPlugins ==
  /\ at = "roots" /\ roots = <<>> /\ at' = "plugins"
  /\ queue' = queue \o Under("user") \o Under("project")
  /\ UNCHANGED <<same, roots, seen, commands, hooks, stated, listed, mistakes>>

Seen(path) == path \in seen

\* The same plugin under another path, or in both places.
SkipSeen ==
  /\ at = "plugins" /\ queue # <<>> /\ Seen(Head(queue))
  /\ queue' = Tail(queue)
  /\ UNCHANGED <<same, at, roots, seen, commands, hooks, stated, listed, mistakes>>

\* Mutant: plugins are compared with the settings and the roots only.
RedeclaredOutsidePlugins(manifest) ==
  {n \in Claimed(manifest.commands) : commands[n] \notin Plugins \cup {Nobody}} \cup manifest.twice

\* Names a plugin declares that somebody has declared, itself included.
Redeclared(manifest) ==
  {n \in Claimed(manifest.commands) : commands[n] # Nobody} \cup manifest.twice

ReadPlugin(manifest) ==
  /\ at = "plugins" /\ queue # <<>> /\ ~Seen(Head(queue))
  /\ manifest.twice \subseteq Claimed(manifest.commands)
  /\ LET plugin == Head(queue)
     IN /\ seen' = seen \cup {plugin}
        /\ stated' = [stated EXCEPT ![plugin] = manifest.commands]
        /\ mistakes' = mistakes \cup (IF manifest.typo THEN {"typo"} ELSE {})
                                \cup (IF manifest.twice # {} THEN {"twice"} ELSE {})
        /\ IF Redeclared(manifest) # {}
           THEN at' = "failed" /\ UNCHANGED <<commands, hooks>>
           ELSE /\ commands' = [n \in Names |->
                                 IF manifest.commands[n] # "none" THEN plugin ELSE commands[n]]
                /\ hooks' = Append(hooks, plugin)
                /\ UNCHANGED at
  /\ queue' = Tail(queue)
  /\ UNCHANGED <<same, roots, listed>>

\* A file that is too large, cannot be read or cannot be decoded.
ReadFails ==
  /\ at \in {"roots", "plugins"} /\ at' = "failed"
  /\ mistakes' = mistakes \cup {"unreadable"}
  /\ UNCHANGED <<same, roots, queue, seen, commands, hooks, stated, listed>>

\* Mutant: every prompt is checked, the ones nobody will use included.
InvalidAnywhere ==
  {n \in Names : commands[n] # Nobody /\
     (n \in Reserved \/ \E s \in Sources : stated[s][n] = "blank")}

\* _validate: what the session would use.
Invalid ==
  {n \in Names : commands[n] # Nobody /\
     (n \in Reserved \/ stated[commands[n]][n] = "blank")}

Validate ==
  /\ at = "plugins" /\ queue = <<>>
  /\ at' = IF Invalid # {} \/ "typo" \in mistakes THEN "failed" ELSE "checks"
  /\ UNCHANGED <<same, roots, queue, seen, commands, hooks, stated, listed, mistakes>>

\* The SKILL.md files, read last.
LoadSkills ==
  /\ at = "checks" /\ at' = "loaded"
  /\ UNCHANGED <<same, roots, queue, seen, commands, hooks, stated, listed, mistakes>>

SkillFails ==
  /\ at = "checks" /\ at' = "failed" /\ mistakes' = mistakes \cup {"unreadable"}
  /\ UNCHANGED <<same, roots, queue, seen, commands, hooks, stated, listed>>

Paths == UNION {[1..n -> Plugins] : n \in 0..2}

Next ==
  \/ \E claims \in Claims, paths \in Paths, typo \in BOOLEAN : ReadSettings(claims, paths, typo)
  \/ (\E claims \in Claims : Discover(claims)) \/ DiscoverPlugins
  \/ SkipSeen \/ (\E manifest \in Manifest : ReadPlugin(manifest))
  \/ ReadFails \/ Validate \/ LoadSkills \/ SkillFails

Spec == Init /\ [][Next]_vars

-----------------------------------------------------------------------------
(* Properties.                                                             *)

Order == <<"settings", "user", "project">>
ClaimsFirst(i, n) ==
  stated[Order[i]][n] # "none" /\ \A j \in 1..(i - 1) : stated[Order[j]][n] = "none"

\* extensions.py:7-8: an explicitly configured command wins over a discovered
\* one, and the user root over the project root, in whatever order the files
\* are read and whichever plugins are read after them.
FirstClaimWins ==
  at = "loaded" =>
    \A n \in Names : \A i \in DOMAIN Order : ClaimsFirst(i, n) => commands[n] = Order[i]

\* extensions.py:8-10: a plugin overrides nothing and is overridden by nothing.
PluginCommandsAreItsOwn ==
  at = "loaded" =>
    \A q \in Plugins : \A n \in Claimed(stated[q]) : commands[n] = q

\* A plugin that is found under several paths runs its hooks once, after those
\* of the settings, and every plugin that was found runs them.
HooksRunOnce ==
  at = "loaded" =>
    /\ hooks[1] = "settings" /\ IsInjective(hooks)
    /\ Range(Tail(hooks)) = Range(listed) \cup Found("user") \cup Found("project")

\* Configuration is refused for a mistake in what the session would use, and
\* for nothing else.
RefusedForAMistake ==
  at = "failed" =>
    \/ mistakes # {}
    \/ \E n \in Names :
         \/ commands[n] # Nobody /\ (n \in Reserved \/ stated[commands[n]][n] = "blank")
         \/ \E q \in Plugins : \E s \in Sources \ {q} :
              stated[q][n] # "none" /\ stated[s][n] # "none"
=============================================================================
