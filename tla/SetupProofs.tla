---------------------------- MODULE SetupProofs ----------------------------
(***************************************************************************)
(* What a session is set up with -- its commands and hooks, its            *)
(* instruction files, its configuration and agents -- and the prompt it is *)
(* entered at, for every value of their constants: the plugins and names,  *)
(* the directories, the palette, the command lines and the settings files. *)
(* Each part has an inductive invariant over its own variables.            *)
(***************************************************************************)
EXTENDS Integers, Sequences, FiniteSets, FiniteSetTheorems, WellFoundedInduction,
  NaturalsInduction, TLAPS

CONSTANTS
  Names, Reserved, Plugins, Home,
  Depth, Files, MayBeShut,
  Slash, Space, Letters, Palette, MaxLength, MaxTyped, MaxHistory,
  CommandLines, SettingsFiles, Environments, Selected, Default, SaveFails

VARIABLES
  same, scanning, roots, queue, pluginsSeen, commands, hooks, stated, listed, mistakes,
  git, agents, claude, shut, collecting, top, unreadDirs, sources,
  live, reading, value, cursor, history, historyIndex, historyDraft, selection, busy, typed,
  lastKey, leftDraft,
  phase, args, env, settings, config, profiles, providers, conversation, mode, model, allowed,
  current, turn, using, chosen

\* The components, by the names InterfaceProofs gives them in the suite.
Extensions == INSTANCE Extensions WITH at <- scanning, seen <- pluginsSeen
Instructions == INSTANCE Instructions WITH at <- collecting, left <- unreadDirs
Composer == INSTANCE Composer WITH left <- leftDraft, seen <- lastKey
Configuration == INSTANCE Configuration

\* The instances have copies of the library's operators.
LEMMA CountedAlike ==
  /\ \A S : Extensions!Cardinality(S) = Cardinality(S)
  /\ \A S : Instructions!Cardinality(S) = Cardinality(S)
  /\ \A S : Extensions!IsFiniteSet(S) <=> IsFiniteSet(S)
BY DEF Cardinality, Extensions!Cardinality, Instructions!Cardinality, IsFiniteSet,
  Extensions!IsFiniteSet

\* A set of numbers has a least one.
LEMMA Least ==
  ASSUME NEW T, T \subseteq Nat, T # {} PROVE \E x \in T : \A y \in T : x <= y
<1>1. \E x \in T : \A y \in T : ~(<<y, x>> \in OpToRel(<, Nat)) BY NatLessThanWellFounded, WFMin
<1>2. PICK x \in T : \A y \in T : ~(<<y, x>> \in OpToRel(<, Nat)) BY <1>1
<1>3. ASSUME NEW y \in T PROVE x <= y
  <2>1. <<y, x>> \in Nat \X Nat OBVIOUS
  <2>2. ~(y < x) BY <1>2, <2>1 DEF OpToRel
  <2> QED BY <2>2
<1> QED BY <1>3

-----------------------------------------------------------------------------
(* The commands and hooks of a session.                                    *)

\* Whose prompt of the settings and the directories a name has.
Winner(n) ==
  IF stated["settings"][n] # "none" THEN "settings"
  ELSE IF stated["user"][n] # "none" THEN "user"
  ELSE IF stated["project"][n] # "none" THEN "project"
  ELSE Extensions!Nobody

\* The variables keep to their types; the plugins named lie in Plugins.
ExtensionTypes ==
  /\ same \in BOOLEAN /\ scanning \in {"settings", "roots", "plugins", "checks", "loaded", "failed"}
  /\ roots \in {Extensions!Roots, <<"project">>, <<>>}
  /\ queue \in Seq(Plugins) /\ listed \in Seq(Plugins) /\ pluginsSeen \subseteq Plugins
  /\ commands \in [Names -> Extensions!Sources \cup {Extensions!Nobody}]
  /\ hooks \in Seq(Extensions!Sources)
  /\ stated \in [Extensions!Sources -> Extensions!Claims]

\* What has not been read has claimed nothing.
Unread ==
  /\ scanning = "settings" => roots = Extensions!Roots /\ stated["settings"] = Extensions!NoClaims
  /\ roots = Extensions!Roots => stated["user"] = Extensions!NoClaims
  /\ roots # <<>> => stated["project"] = Extensions!NoClaims
  /\ scanning \notin {"settings", "roots"} => roots = <<>>
  /\ scanning \in {"settings", "roots"} => pluginsSeen = {}
  /\ \A q \in Plugins \ pluginsSeen : stated[q] = Extensions!NoClaims

\* A name belongs to whoever claimed it first, and a plugin's to the plugin.
Settled(n) ==
  /\ Winner(n) # Extensions!Nobody => commands[n] = Winner(n)
  /\ \A q \in Plugins : stated[q][n] # "none" => commands[n] = q
  /\ commands[n] # Extensions!Nobody => stated[commands[n]][n] # "none"

\* The hooks are those of the settings and of the plugins read so far.
Hooked ==
  /\ Len(hooks) > 0 /\ hooks[1] = "settings" /\ Extensions!IsInjective(hooks)
  /\ \A i \in 2..Len(hooks) : hooks[i] \in pluginsSeen
  /\ \A q \in pluginsSeen : \E i \in 2..Len(hooks) : hooks[i] = q

\* The plugins to be read are those the settings list, then those found as well.
Queued ==
  /\ scanning = "roots" => queue = listed
  /\ scanning \in {"plugins", "checks", "loaded"} =>
       pluginsSeen \cup Extensions!Range(queue) =
         Extensions!Range(listed) \cup Extensions!Found("user") \cup Extensions!Found("project")
  /\ scanning \in {"checks", "loaded"} => queue = <<>>

\* The inductive invariant of the extensions.
ExtensionsInv ==
  /\ ExtensionTypes
  /\ scanning # "failed" => Unread /\ (\A n \in Names : Settled(n)) /\ Queued
  /\ scanning \notin {"settings", "failed"} => Hooked
  /\ Extensions!RefusedForAMistake

\* The files found are listed in some order, each of them.
LEMMA ListedAll ==
  ASSUME NEW S, IsFiniteSet(S)
  PROVE  Extensions!SetToSeq(S) \in Seq(S) /\ Extensions!Range(Extensions!SetToSeq(S)) = S
<1> DEFINE n == Cardinality(S)
<1>1. n \in Nat /\ ExistsBijection(1..n, S) BY FS_CardinalityType
<1>2. PICK f : f \in Bijection(1..n, S) BY <1>1 DEF ExistsBijection
<1>3. f \in [1..n -> S] /\ Extensions!IsInjective(f)
  BY <1>2 DEF Bijection, Injection, Surjection, Extensions!IsInjective, IsInjective
<1> DEFINE s == Extensions!SetToSeq(S)
<1>4. s \in [1..n -> S] /\ Extensions!IsInjective(s) BY <1>3, CountedAlike DEF Extensions!SetToSeq
<1>5. s \in Injection(1..n, S) BY <1>4 DEF Injection, Extensions!IsInjective, IsInjective
<1>6. s \in Surjection(1..n, S)
  <2>1. IsFiniteSet(1..n) /\ Cardinality(1..n) = n BY <1>1, FS_Interval
  <2> QED BY <1>5, <2>1, FS_Injection
<1> QED BY <1>1, <1>4, <1>6 DEF Surjection, Extensions!Range

\* What a sequence holds when others are put behind it, or its head is taken.
LEMMA Ranges ==
  ASSUME NEW S, NEW s \in Seq(S), NEW t \in Seq(S)
  PROVE  /\ s \o t \in Seq(S)
         /\ Extensions!Range(s \o t) = Extensions!Range(s) \cup Extensions!Range(t)
         /\ s # <<>> => /\ Head(s) \in S /\ Tail(s) \in Seq(S)
                        /\ Extensions!Range(s) = {Head(s)} \cup Extensions!Range(Tail(s))
<1>1. Extensions!Range(s \o t) = Extensions!Range(s) \cup Extensions!Range(t)
  <2> DEFINE u == s \o t
  <2>1. /\ u \in Seq(S) /\ Len(u) = Len(s) + Len(t) /\ Len(s) \in Nat /\ Len(t) \in Nat
        /\ DOMAIN s = 1..Len(s) /\ DOMAIN t = 1..Len(t) /\ DOMAIN u = 1..Len(u)
        /\ \A i \in 1..Len(s) : u[i] = s[i]
        /\ \A i \in 1..Len(t) : u[Len(s) + i] = t[i]
    OBVIOUS
  <2> HIDE DEF u
  <2>2. ASSUME NEW x \in Extensions!Range(u)
        PROVE  x \in Extensions!Range(s) \cup Extensions!Range(t)
    <3>1. PICK i \in 1..Len(u) : u[i] = x BY <2>1, <2>2 DEF Extensions!Range
    <3>2. CASE i <= Len(s) BY <2>1, <3>1, <3>2 DEF Extensions!Range
    <3>3. CASE i > Len(s)
      <4>1. i - Len(s) \in 1..Len(t) /\ Len(s) + (i - Len(s)) = i BY <2>1, <3>1, <3>3
      <4>2. u[Len(s) + (i - Len(s))] = t[i - Len(s)] BY <2>1, <4>1
      <4> QED BY <2>1, <3>1, <4>1, <4>2 DEF Extensions!Range
    <3> QED BY <2>1, <3>1, <3>2, <3>3
  <2>3. ASSUME NEW x \in Extensions!Range(s) PROVE x \in Extensions!Range(u)
    <3>1. PICK i \in 1..Len(s) : s[i] = x BY <2>1, <2>3 DEF Extensions!Range
    <3> QED BY <2>1, <3>1 DEF Extensions!Range
  <2>4. ASSUME NEW x \in Extensions!Range(t) PROVE x \in Extensions!Range(u)
    <3>1. PICK i \in 1..Len(t) : t[i] = x BY <2>1, <2>4 DEF Extensions!Range
    <3>2. Len(s) + i \in 1..Len(u) BY <2>1, <3>1
    <3> QED BY <2>1, <3>1, <3>2 DEF Extensions!Range
  <2> QED BY <2>2, <2>3, <2>4 DEF u
<1>2. ASSUME s # <<>>
      PROVE  /\ Head(s) \in S /\ Tail(s) \in Seq(S)
             /\ Extensions!Range(s) = {Head(s)} \cup Extensions!Range(Tail(s))
  <2>1. /\ Len(s) \in Nat \ {0} /\ DOMAIN s = 1..Len(s) /\ Head(s) = s[1] /\ s[1] \in S
        /\ Tail(s) \in Seq(S) /\ DOMAIN Tail(s) = 1..Len(s) - 1
        /\ \A i \in 1..Len(s) - 1 : Tail(s)[i] = s[i + 1]
    BY <1>2
  <2>2. ASSUME NEW x \in Extensions!Range(s) PROVE x \in {Head(s)} \cup Extensions!Range(Tail(s))
    <3>1. PICK i \in 1..Len(s) : s[i] = x BY <2>1, <2>2 DEF Extensions!Range
    <3>2. CASE i = 1 BY <2>1, <3>1, <3>2
    <3>3. CASE i > 1
      <4>1. i - 1 \in 1..Len(s) - 1 /\ (i - 1) + 1 = i BY <2>1, <3>1, <3>3
      <4>2. Tail(s)[i - 1] = x BY <2>1, <3>1, <4>1
      <4> QED BY <2>1, <4>1, <4>2 DEF Extensions!Range
    <3> QED BY <2>1, <3>1, <3>2, <3>3
  <2>3. ASSUME NEW x \in {Head(s)} \cup Extensions!Range(Tail(s)) PROVE x \in Extensions!Range(s)
    <3>1. CASE x = Head(s) BY <2>1, <3>1 DEF Extensions!Range
    <3>2. CASE x \in Extensions!Range(Tail(s))
      <4>1. PICK i \in 1..Len(s) - 1 : Tail(s)[i] = x BY <2>1, <3>2 DEF Extensions!Range
      <4>2. i + 1 \in 1..Len(s) /\ s[i + 1] = x BY <2>1, <4>1
      <4> QED BY <2>1, <4>2 DEF Extensions!Range
    <3> QED BY <2>3, <3>1, <3>2
  <2> QED BY <2>1, <2>2, <2>3
<1> QED BY <1>1, <1>2

\* The plugins under a root.
LEMMA UnderFacts ==
  ASSUME Extensions!ExtensionsAssumption, NEW root
  PROVE  /\ Extensions!Under(root) \in Seq(Plugins)
         /\ Extensions!Range(Extensions!Under(root)) = Extensions!Found(root)
<1>1. Extensions!Found(root) \subseteq Plugins /\ IsFiniteSet(Extensions!Found(root))
  <2>1. Extensions!Found(root) \subseteq Plugins BY DEF Extensions!Found
  <2> QED BY <2>1, FS_Subset, CountedAlike DEF Extensions!ExtensionsAssumption
<1>2. /\ Extensions!Under(root) \in Seq(Extensions!Found(root))
      /\ Extensions!Range(Extensions!Under(root)) = Extensions!Found(root)
  BY <1>1, ListedAll DEF Extensions!Under
<1> QED BY <1>1, <1>2

\* At the start nothing is read and nobody has a name.
LEMMA ExtensionsInit ==
  ASSUME Extensions!ExtensionsAssumption, Extensions!Init
  PROVE  ExtensionsInv
<1> USE DEF Extensions!ExtensionsAssumption, Extensions!Init, Extensions!Sources, Extensions!Roots,
      Extensions!Nobody
<1>1. ExtensionTypes BY DEF ExtensionTypes, Extensions!NoClaims, Extensions!Claims
<1>2. Unread BY DEF Unread, Extensions!NoClaims
<1>3. ASSUME NEW n \in Names PROVE Settled(n) BY DEF Settled, Winner, Extensions!NoClaims
<1>4. Queued BY DEF Queued
<1> QED BY <1>1, <1>2, <1>3, <1>4 DEF ExtensionsInv, Extensions!RefusedForAMistake

\* The lists of plugins the settings may hold.
LEMMA PathsAre ==
  ASSUME NEW paths \in Extensions!Paths
  PROVE  paths \in Seq(Plugins)
<1>1. PICK n \in 0..2 : paths \in [1..n -> Plugins] BY DEF Extensions!Paths
<1> QED BY <1>1

\* Whoever claims a free name gets it, and those that have theirs keep them.
LEMMA SettleKeeps ==
  ASSUME ExtensionsInv, NEW source \in Extensions!Sources, NEW claims \in Extensions!Claims
  PROVE  Extensions!Settle(source,
           claims) \in [Names -> Extensions!Sources \cup {Extensions!Nobody}]
BY DEF Extensions!Settle, ExtensionsInv, ExtensionTypes

\* The settings come first, so they get what they name.
LEMMA StepSettings ==
  ASSUME Extensions!ExtensionsAssumption, ExtensionsInv, NEW claims \in Extensions!Claims,
         NEW paths \in Extensions!Paths,
         NEW typo \in BOOLEAN, Extensions!ReadSettings(claims, paths, typo)
  PROVE  ExtensionsInv'
<1> USE DEF Extensions!ExtensionsAssumption, Extensions!ReadSettings, Extensions!Roots,
      Extensions!Nobody
<1>0. /\ scanning = "settings" /\ scanning' = "roots" /\ ExtensionTypes /\ Unread
      /\ (\A n \in Names : Settled(n)) /\ paths \in Seq(Plugins) /\ pluginsSeen = {}
  BY PathsAre DEF ExtensionsInv, Unread
<1>1. ExtensionTypes' BY <1>0, SettleKeeps DEF ExtensionTypes, Extensions!Sources
<1>2. Unread' BY <1>0 DEF Unread, ExtensionTypes, Extensions!Sources
<1>3. ASSUME NEW n \in Names PROVE Settled(n)'
  <2>0. \A s \in Extensions!Sources : stated[s][n] = "none" BY <1>0, <1>3 DEF Unread,
          Extensions!NoClaims, Extensions!Sources
  <2>1. commands[n] = Extensions!Nobody BY <1>0, <1>3, <2>0 DEF Settled, ExtensionTypes
  <2>2. /\ stated'["settings"] = claims
        /\ \A s \in Extensions!Sources \ {"settings"} : stated'[s] = stated[s]
        /\ commands'[n] = IF claims[n] # "none" THEN "settings" ELSE Extensions!Nobody
    BY <1>0, <2>1 DEF ExtensionTypes, Extensions!Settle, Extensions!Sources
  <2>3. \A s \in Extensions!Sources \ {"settings"} : stated'[s][n] = "none" BY <2>0, <2>2
  <2>4. Winner(n)' = IF claims[n] # "none" THEN "settings" ELSE Extensions!Nobody
    BY <2>2, <2>3 DEF Winner, Extensions!Sources
  <2>5. /\ "settings" \in Extensions!Sources
        /\ \A q \in Plugins : q \in Extensions!Sources \ {"settings"} BY DEF Extensions!Sources
  <2> QED BY <2>2, <2>3, <2>4, <2>5 DEF Settled
<1>4. Queued' BY <1>0 DEF Queued
<1>5. Hooked' BY <1>0 DEF Hooked, Extensions!IsInjective
<1> QED BY <1>0, <1>1, <1>2, <1>3, <1>4, <1>5 DEF ExtensionsInv, Extensions!RefusedForAMistake

\* A root gets what neither the settings nor a root before it claimed; one that is
\* both the user's and the project's says the same twice.
LEMMA StepDiscover ==
  ASSUME Extensions!ExtensionsAssumption, ExtensionsInv, NEW claims \in Extensions!Claims,
         Extensions!Discover(claims)
  PROVE  ExtensionsInv'
<1> USE DEF Extensions!ExtensionsAssumption, Extensions!Nobody
<1> DEFINE directory == Extensions!Directory(Head(roots))
           found == IF directory # Head(roots) THEN stated[directory] ELSE claims
<1>0. /\ scanning = "roots" /\ roots # <<>> /\ ExtensionTypes /\ Unread /\ Queued /\ Hooked
      /\ (\A n \in Names : Settled(n)) /\ pluginsSeen = {}
      /\ commands' = Extensions!Settle(directory, found)
      /\ stated' = [stated EXCEPT ![directory] = found]
      /\ roots' = Tail(roots)
      /\ UNCHANGED <<same, scanning, queue, pluginsSeen, hooks, listed, mistakes>>
  BY DEF ExtensionsInv, Unread, Extensions!Discover, Extensions!Discovered
<1>1. /\ directory \in {"user", "project"} /\ found \in Extensions!Claims
      /\ roots = Extensions!Roots => directory = "user" /\ roots' = <<"project">>
      /\ roots = <<"project">> => roots' = <<>> /\ directory = IF same THEN "user" ELSE "project"
      /\ roots \in {Extensions!Roots, <<"project">>}
      /\ stated[directory] = Extensions!NoClaims \/ found = stated[directory]
  <2>1. roots \in {Extensions!Roots, <<"project">>} BY <1>0 DEF ExtensionTypes
  <2>2. CASE roots = Extensions!Roots
    <3>1. Head(roots) = "user" /\ directory = "user" /\ Tail(roots) = <<"project">>
      BY <2>2 DEF Extensions!Roots, Extensions!Directory
    <3> QED BY <1>0, <2>2, <3>1 DEF Extensions!Roots, Unread
  <2>3. CASE roots = <<"project">>
    <3>1. /\ Head(roots) = "project" /\ directory = (IF same THEN "user" ELSE "project")
          /\ Tail(roots) = <<>>
      BY <2>3 DEF Extensions!Directory
    <3>2. stated["user"] \in Extensions!Claims BY <1>0 DEF ExtensionTypes, Extensions!Sources
    <3> QED BY <1>0, <2>3, <3>1, <3>2 DEF Extensions!Roots, Unread
  <2> QED BY <2>1, <2>2, <2>3
<1> HIDE DEF directory, found
<1>2. directory \in Extensions!Sources BY <1>1 DEF Extensions!Sources
<1>3. ExtensionTypes' BY <1>0, <1>1, <1>2, SettleKeeps DEF ExtensionTypes, Extensions!Roots,
        ExtensionsInv
<1>4. Unread'
  <2>1. \A s \in Extensions!Sources \ {directory} : stated'[s] = stated[s]
    BY <1>0, <1>1 DEF ExtensionTypes
  <2>2. roots' # Extensions!Roots BY <1>1 DEF Extensions!Roots
  <2>3. roots' # <<>> => directory = "user" BY <1>1
  <2>4. \A q \in Plugins : q \in Extensions!Sources \ {directory} BY <1>1 DEF Extensions!Sources
  <2>5. "project" \in Extensions!Sources BY DEF Extensions!Sources
  <2> QED BY <1>0, <2>1, <2>2, <2>3, <2>4, <2>5 DEF Unread
<1>5. ASSUME NEW n \in Names PROVE Settled(n)'
  <2>1. /\ stated'[directory] = found
        /\ \A s \in Extensions!Sources \ {directory} : stated'[s] = stated[s]
        /\ commands'[n] = IF commands[n] = Extensions!Nobody /\
             found[n] # "none" THEN directory ELSE commands[n]
        /\ commands[n] \in Extensions!Sources \cup {Extensions!Nobody}
    BY <1>0, <1>1, <1>2 DEF ExtensionTypes, Extensions!Settle
  <2>2. \A q \in Plugins : stated[q][n] = "none" BY <1>0 DEF Unread, Extensions!NoClaims
  <2>3. directory = "user" /\ stated["user"] # found => stated["project"][n] = "none" /\
          stated["user"][n] = "none"
    BY <1>0, <1>1 DEF Unread, Extensions!NoClaims, Extensions!Roots
  <2>4. directory = "project" => stated["project"][n] = "none" \/ found = stated["project"]
    BY <1>1 DEF Extensions!NoClaims
  <2> QED BY <1>0, <1>1, <1>2, <2>1, <2>2, <2>3, <2>4 DEF Settled, Winner, Extensions!Sources
<1>6. Queued' BY <1>0 DEF Queued, Extensions!Found
<1>7. Hooked' BY <1>0 DEF Hooked
<1> QED BY <1>0, <1>3, <1>4, <1>5, <1>6, <1>7 DEF ExtensionsInv, Extensions!RefusedForAMistake

\* The parts that depend neither on where the pass is nor on the queue.
LEMMA StepPlugins ==
  ASSUME Extensions!ExtensionsAssumption, ExtensionsInv, Extensions!DiscoverPlugins
  PROVE  ExtensionsInv'
<1> USE DEF Extensions!DiscoverPlugins
<1>0. /\ scanning = "roots" /\ scanning' = "plugins" /\ roots = <<>> /\ ExtensionTypes /\ Unread
      /\ Queued /\ Hooked
      /\ (\A n \in Names : Settled(n)) /\ pluginsSeen = {} /\ queue = listed
  BY DEF ExtensionsInv, Unread, Queued
<1> DEFINE user == Extensions!Under("user")
           project == Extensions!Under("project")
<1>1. /\ user \in Seq(Plugins) /\ project \in Seq(Plugins) /\ queue \in Seq(Plugins)
      /\ Extensions!Range(user) = Extensions!Found("user")
      /\ Extensions!Range(project) = Extensions!Found("project")
  BY <1>0, UnderFacts DEF ExtensionTypes
<1>2. queue' = queue \o user \o project BY <1>0
<1> HIDE DEF user, project
<1>3. /\ queue \o user \in Seq(Plugins)
      /\ Extensions!Range(queue \o user) = Extensions!Range(queue) \cup Extensions!Range(user)
  BY <1>1, Ranges
<1>4. /\ queue' \in Seq(Plugins)
      /\ Extensions!Range(queue') = Extensions!Range(queue \o user) \cup Extensions!Range(project)
  <2> DEFINE u == queue \o user
  <2>1. u \in Seq(Plugins) /\ queue' = u \o project BY <1>2, <1>3
  <2> HIDE DEF u
  <2>2. /\ u \o project \in Seq(Plugins)
        /\ Extensions!Range(u \o project) = Extensions!Range(u) \cup Extensions!Range(project)
    BY <1>1, <2>1, Ranges
  <2> QED BY <2>1, <2>2 DEF u
<1>5. /\ Extensions!Found("user")' = Extensions!Found("user")
      /\ Extensions!Found("project")' = Extensions!Found("project") BY <1>0 DEF Extensions!Found
<1>6. ExtensionTypes' BY <1>0, <1>4 DEF ExtensionTypes
<1>7. Unread' BY <1>0 DEF Unread, Extensions!Roots
<1>8. \A n \in Names : Settled(n)' BY <1>0 DEF Settled, Winner
<1>9. Queued' BY <1>0, <1>1, <1>3, <1>4, <1>5 DEF Queued
<1>10. Hooked' BY <1>0 DEF Hooked
<1> QED BY <1>0, <1>6, <1>7, <1>8, <1>9, <1>10 DEF ExtensionsInv, Extensions!RefusedForAMistake

\* A plugin that was read already changes nothing.
LEMMA StepSkip ==
  ASSUME Extensions!ExtensionsAssumption, ExtensionsInv, Extensions!SkipSeen
  PROVE  ExtensionsInv'
<1> USE DEF Extensions!SkipSeen
<1>0. /\ scanning = "plugins" /\ scanning' = scanning /\ queue # <<>> /\ ExtensionTypes /\ Unread
      /\ Queued /\ Hooked
      /\ (\A n \in Names : Settled(n)) /\ Head(queue) \in pluginsSeen /\ queue' = Tail(queue)
  BY DEF ExtensionsInv, Extensions!Seen
<1>1. /\ queue' \in Seq(Plugins)
      /\ Extensions!Range(queue) = {Head(queue)} \cup Extensions!Range(queue')
  BY <1>0, Ranges DEF ExtensionTypes
<1>5. /\ Extensions!Found("user")' = Extensions!Found("user")
      /\ Extensions!Found("project")' = Extensions!Found("project") BY <1>0 DEF Extensions!Found
<1>6. ExtensionTypes' BY <1>0, <1>1 DEF ExtensionTypes
<1>7. Unread' BY <1>0 DEF Unread
<1>8. \A n \in Names : Settled(n)' BY <1>0 DEF Settled, Winner
<1>9. Queued' BY <1>0, <1>1, <1>5 DEF Queued
<1>10. Hooked' BY <1>0 DEF Hooked
<1> QED BY <1>0, <1>6, <1>7, <1>8, <1>9, <1>10 DEF ExtensionsInv, Extensions!RefusedForAMistake

\* A plugin claims only free names, or the load fails.
LEMMA StepRead ==
  ASSUME Extensions!ExtensionsAssumption, ExtensionsInv, NEW manifest \in Extensions!Manifest,
         Extensions!ReadPlugin(manifest)
  PROVE  ExtensionsInv'
<1> DEFINE q == Head(queue)
           claims == manifest.commands
<1>0. /\ scanning = "plugins" /\ queue # <<>> /\ ExtensionTypes /\ Unread /\ Queued /\ Hooked
      /\ (\A n \in Names : Settled(n)) /\ q \notin pluginsSeen /\ queue' = Tail(queue)
      /\ claims \in Extensions!Claims
  BY DEF ExtensionsInv, Extensions!Seen, Extensions!ReadPlugin, Extensions!Manifest
<1>1. /\ queue' \in Seq(Plugins) /\ Extensions!Range(queue) = {q} \cup Extensions!Range(queue')
      /\ q \in Plugins
      /\ q \in Extensions!Sources
  BY <1>0, Ranges DEF ExtensionTypes, Extensions!Sources
<1>2. /\ pluginsSeen' = pluginsSeen \cup {q} /\ stated' = [stated EXCEPT ![q] = claims]
      /\ UNCHANGED <<same, roots, listed>>
      /\ mistakes' = mistakes \cup (IF manifest.typo THEN {"typo"} ELSE {})
                              \cup (IF manifest.twice # {} THEN {"twice"} ELSE {})
      /\ Extensions!Redeclared(manifest) # {} => scanning' = "failed" /\
           UNCHANGED <<commands, hooks>>
      /\ Extensions!Redeclared(manifest) = {} =>
           /\ commands' = [n \in Names |-> IF claims[n] # "none" THEN q ELSE commands[n]]
           /\ hooks' = Append(hooks, q) /\ scanning' = scanning
  BY DEF Extensions!ReadPlugin
<1> HIDE DEF q, claims
<1>3. /\ stated'[q] = claims /\ \A s \in Extensions!Sources \ {q} : stated'[s] = stated[s]
      /\ stated' \in [Extensions!Sources -> Extensions!Claims]
      /\ \A n \in Names : stated[q][n] = "none"
  BY <1>0, <1>1, <1>2 DEF ExtensionTypes, Unread, Extensions!NoClaims
<1>4. ExtensionTypes'
  <2>1. commands' \in [Names -> Extensions!Sources \cup {Extensions!Nobody}]
    BY <1>0, <1>1, <1>2, Zenon DEF ExtensionTypes
  <2>2. hooks' \in Seq(Extensions!Sources)
    <3>1. hooks \in Seq(Extensions!Sources) BY <1>0 DEF ExtensionTypes
    <3> QED BY <1>1, <1>2, <3>1, SMTT(30)
  <2>3. scanning' \in {"plugins", "failed"} BY <1>0, <1>2
  <2>4. /\ same' = same /\ roots' = roots /\ listed' = listed /\ pluginsSeen' \subseteq Plugins
        /\ same \in BOOLEAN /\ roots \in {Extensions!Roots, <<"project">>, <<>>}
        /\ listed \in Seq(Plugins)
    BY <1>0, <1>1, <1>2 DEF ExtensionTypes
  <2> QED BY <1>1, <1>3, <2>1, <2>2, <2>3, <2>4 DEF ExtensionTypes
<1>5. CASE Extensions!Redeclared(manifest) # {}
  <2>1. Extensions!RefusedForAMistake'
    <3>1. CASE manifest.twice # {} BY <1>2, <3>1 DEF Extensions!RefusedForAMistake
    <3>2. CASE manifest.twice = {}
      <4>1. PICK n \in Names : claims[n] # "none" /\ commands[n] # Extensions!Nobody
        BY <1>5, <3>2 DEF Extensions!Redeclared, Extensions!Claimed, claims
      <4>2. /\ commands[n] \in Extensions!Sources /\ stated[commands[n]][n] # "none"
        BY <1>0, <4>1 DEF Settled, ExtensionTypes
      <4>3. commands[n] # q BY <1>3, <4>1, <4>2
      <4>4. stated'[q][n] # "none" /\ stated'[commands[n]][n] # "none" BY <1>3, <4>1, <4>2, <4>3
      <4> QED BY <1>1, <4>1, <4>2, <4>3, <4>4 DEF Extensions!RefusedForAMistake, Extensions!Sources
    <3> QED BY <3>1, <3>2
  <2> QED BY <1>2, <1>4, <1>5, <2>1 DEF ExtensionsInv
<1>6. CASE Extensions!Redeclared(manifest) = {}
  <2>1. Unread'
    <3>1. \A s \in {"settings", "user", "project"} : s \in Extensions!Sources /\ s # q
      BY <1>1 DEF Extensions!Sources, Extensions!ExtensionsAssumption
    <3>2. \A p \in Plugins \ pluginsSeen' : p \in Extensions!Sources \ {q} /\
            p \notin pluginsSeen BY <1>2 DEF Extensions!Sources
    <3> QED BY <1>0, <1>2, <1>3, <1>6, <3>1, <3>2 DEF Unread
  <2>2. ASSUME NEW n \in Names PROVE Settled(n)'
    <3>1. \A s \in {"settings", "user", "project"} : s \in Extensions!Sources \ {q}
      BY <1>1 DEF Extensions!Sources, Extensions!ExtensionsAssumption
    <3>2. Winner(n)' = Winner(n) BY <1>3, <3>1 DEF Winner
    <3>3. claims[n] # "none" => commands[n] = Extensions!Nobody
      BY <1>6 DEF Extensions!Redeclared, Extensions!Claimed, claims
    <3>4. commands'[n] = IF claims[n] # "none" THEN q ELSE commands[n] BY <1>2, <1>6
    <3>5. \A p \in Plugins : p # Extensions!Nobody BY DEF Extensions!ExtensionsAssumption,
            Extensions!Nobody
    <3>6. \A p \in Plugins : p \in Extensions!Sources BY DEF Extensions!Sources
    <3>7. commands[n] # Extensions!Nobody =>
            commands[n] \in Extensions!Sources BY <1>0 DEF ExtensionTypes
    <3> QED BY <1>0, <1>1, <1>3, <3>2, <3>3, <3>4, <3>5, <3>6, <3>7 DEF Settled
  <2>3. Queued'
    <3>1. /\ Extensions!Found("user")' = Extensions!Found("user")
          /\ Extensions!Found("project")' = Extensions!Found("project") BY <1>2 DEF Extensions!Found
    <3> QED BY <1>0, <1>1, <1>2, <1>6, <3>1 DEF Queued
  <2>4. Hooked'
    <3>1. /\ hooks \in Seq(Extensions!Sources) /\ Len(hooks) \in Nat /\ Len(hooks) > 0
          /\ DOMAIN hooks = 1..Len(hooks) /\ Len(hooks') = Len(hooks) + 1
          /\ DOMAIN hooks' = 1..Len(hooks) + 1 /\ hooks'[Len(hooks) + 1] = q
          /\ \A i \in 1..Len(hooks) : hooks'[i] = hooks[i]
      <4>1. hooks \in Seq(Extensions!Sources) /\ Len(hooks) > 0 BY <1>0 DEF ExtensionTypes, Hooked
      <4>2. hooks' = Append(hooks, q) BY <1>2, <1>6
      <4> QED BY <1>1, <4>1, <4>2
    <3>2. \A i \in 1..Len(hooks) : hooks[i] # q
      <4>1. q # "settings" BY <1>1 DEF Extensions!ExtensionsAssumption
      <4> QED BY <1>0, <3>1, <4>1 DEF Hooked
    <3>3. Extensions!IsInjective(hooks') BY <1>0, <3>1, <3>2 DEF Hooked, Extensions!IsInjective
    <3>4. /\ Len(hooks) + 1 \in 2..Len(hooks')
          /\ \A i \in 2..Len(hooks') : i \in 2..Len(hooks) \/ i = Len(hooks) + 1
      BY <3>1
    <3>5. \A i \in 2..Len(hooks) : i \in 2..Len(hooks') /\ i \in 1..Len(hooks) BY <3>1
    <3>6. \A i \in 2..Len(hooks') : hooks'[i] \in pluginsSeen'
      BY <1>0, <1>2, <3>1, <3>4, <3>5 DEF Hooked
    <3>7. \A p \in pluginsSeen' : \E i \in 2..Len(hooks') : hooks'[i] = p
      BY <1>0, <1>2, <3>1, <3>4, <3>5 DEF Hooked
    <3> QED BY <1>0, <3>1, <3>3, <3>6, <3>7 DEF Hooked
  <2> QED BY <1>0, <1>2, <1>4, <1>6, <2>1, <2>2, <2>3, <2>4 DEF ExtensionsInv,
        Extensions!RefusedForAMistake
<1> QED BY <1>5, <1>6

\* The plugins found under the roots are queued, and the load ends.
LEMMA StepEnd ==
  ASSUME Extensions!ExtensionsAssumption, ExtensionsInv,
         \/ Extensions!ReadFails \/ Extensions!Validate \/ Extensions!LoadSkills
         \/ Extensions!SkillFails
  PROVE  ExtensionsInv'
<1>0. /\ UNCHANGED <<same, roots, queue, pluginsSeen, commands, hooks, stated, listed>>
      /\ scanning # "failed" /\ scanning # "settings"
      /\ scanning' \in {"failed", "checks", "loaded"}
      /\ scanning' # "failed" => scanning \in {"plugins", "checks"} /\ queue = <<>>
      /\ ExtensionTypes /\ Unread /\ (\A n \in Names : Settled(n)) /\ Queued /\ Hooked
  BY DEF Extensions!ReadFails, Extensions!Validate, Extensions!LoadSkills, Extensions!SkillFails,
    ExtensionsInv, Queued
<1>1. ExtensionTypes' BY <1>0 DEF ExtensionTypes
<1>2. \A n \in Names : Settled(n)' BY <1>0 DEF Settled, Winner
<1>3. Hooked' BY <1>0 DEF Hooked
<1>4. scanning' # "failed" => Unread' BY <1>0 DEF Unread
<1>5. scanning' # "failed" => Queued'
  <2>1. /\ Extensions!Found("user")' = Extensions!Found("user")
        /\ Extensions!Found("project")' = Extensions!Found("project") BY <1>0 DEF Extensions!Found
  <2> QED BY <1>0, <2>1 DEF Queued
<1>6. Extensions!RefusedForAMistake'
  <2>1. CASE Extensions!ReadFails \/ Extensions!SkillFails BY <2>1 DEF Extensions!ReadFails,
               Extensions!SkillFails, Extensions!RefusedForAMistake
  <2>2. CASE Extensions!LoadSkills BY <2>2 DEF Extensions!LoadSkills, Extensions!RefusedForAMistake
  <2>3. CASE Extensions!Validate
    <3>1. CASE "typo" \in mistakes BY <2>3, <3>1 DEF Extensions!Validate,
                 Extensions!RefusedForAMistake
    <3>2. CASE Extensions!Invalid # {}
      <4>1. PICK n \in Names : /\ commands[n] # Extensions!Nobody
                               /\ n \in Reserved \/ stated[commands[n]][n] = "blank"
        BY <3>2 DEF Extensions!Invalid
      <4> QED BY <1>0, <4>1 DEF Extensions!RefusedForAMistake
    <3> QED BY <2>3, <3>1, <3>2 DEF Extensions!Validate, Extensions!RefusedForAMistake
  <2> QED BY <2>1, <2>2, <2>3
<1> QED BY <1>0, <1>1, <1>2, <1>3, <1>4, <1>5, <1>6 DEF ExtensionsInv

\* Every step keeps the invariant.
LEMMA ExtensionsStep ==
  ASSUME Extensions!ExtensionsAssumption, ExtensionsInv, [Extensions!Next]_Extensions!vars
  PROVE  ExtensionsInv'
<1>1. CASE UNCHANGED Extensions!vars
  BY <1>1 DEF Extensions!vars, ExtensionsInv, ExtensionTypes, Unread, Settled, Winner, Queued,
    Hooked, Extensions!Found,
    Extensions!RefusedForAMistake
<1>2. CASE Extensions!Next
  BY <1>2, StepSettings, StepDiscover, StepPlugins, StepSkip, StepRead, StepEnd DEF Extensions!Next
<1> QED BY <1>1, <1>2

\* What the run checks of the extensions.
LEMMA ExtensionsPromise ==
  ASSUME ExtensionsInv
  PROVE  /\ Extensions!PluginCommandsAreItsOwn /\ Extensions!FirstClaimWins
         /\ Extensions!HooksRunOnce /\ Extensions!RefusedForAMistake
<1> SUFFICES ASSUME scanning = "loaded"
             PROVE  /\ Extensions!PluginCommandsAreItsOwn /\ Extensions!FirstClaimWins
                    /\ Extensions!HooksRunOnce
  BY DEF ExtensionsInv, Extensions!PluginCommandsAreItsOwn, Extensions!FirstClaimWins,
    Extensions!HooksRunOnce
<1>0. /\ ExtensionTypes /\ (\A n \in Names : Settled(n)) /\ Queued /\ Hooked
  BY DEF ExtensionsInv
<1>1. Extensions!PluginCommandsAreItsOwn BY <1>0 DEF Extensions!PluginCommandsAreItsOwn,
        Extensions!Claimed, Settled
<1>2. Extensions!FirstClaimWins
  <2> SUFFICES ASSUME NEW n \in Names, NEW i \in DOMAIN Extensions!Order,
                          Extensions!ClaimsFirst(i, n)
               PROVE  commands[n] = Extensions!Order[i]
    BY DEF Extensions!FirstClaimWins
  <2>1. /\ i \in 1..3 /\ Extensions!Order[1] = "settings" /\ Extensions!Order[2] = "user"
        /\ Extensions!Order[3] = "project" BY DEF Extensions!Order
  <2>2. Winner(n) = Extensions!Order[i] BY <2>1 DEF Winner, Extensions!ClaimsFirst
  <2>3. Winner(n) # Extensions!Nobody BY <2>1, <2>2 DEF Extensions!Nobody
  <2> QED BY <1>0, <2>2, <2>3 DEF Settled
<1>3. Extensions!HooksRunOnce
  <2>1. /\ hooks # <<>> /\ Len(hooks) \in Nat /\ DOMAIN Tail(hooks) = 1..Len(hooks) - 1
        /\ \A i \in 1..Len(hooks) - 1 : Tail(hooks)[i] = hooks[i + 1]
    BY <1>0 DEF ExtensionTypes, Hooked
  <2>2. ASSUME NEW q \in Extensions!Range(Tail(hooks)) PROVE q \in pluginsSeen
    <3>1. PICK i \in 1..Len(hooks) - 1 : hooks[i + 1] = q BY <2>1, <2>2 DEF Extensions!Range
    <3>2. i + 1 \in 2..Len(hooks) BY <2>1
    <3> QED BY <1>0, <3>1, <3>2 DEF Hooked
  <2>3. ASSUME NEW q \in pluginsSeen PROVE q \in Extensions!Range(Tail(hooks))
    <3>1. PICK i \in 2..Len(hooks) : hooks[i] = q BY <1>0, <2>3 DEF Hooked
    <3>2. i - 1 \in 1..Len(hooks) - 1 /\ (i - 1) + 1 = i BY <2>1
    <3>3. Tail(hooks)[i - 1] = q BY <2>1, <3>1, <3>2
    <3> QED BY <2>1, <3>2, <3>3 DEF Extensions!Range
  <2>4. Extensions!Range(queue) = {} BY <1>0 DEF Queued, Extensions!Range
  <2> QED BY <1>0, <2>2, <2>3, <2>4 DEF Extensions!HooksRunOnce, Hooked, Queued
<1> QED BY <1>1, <1>2, <1>3

\* app/extensions.py: a name belongs to the first that claims it, the settings
\* before the user's directory before the project's, a plugin's to the plugin; a
\* plugin is read once, its hooks once and behind those of the settings; and a
\* mistake in a file is not passed over.
THEOREM ExtensionsAlwaysHeard ==
  ASSUME Extensions!ExtensionsAssumption
  PROVE  Extensions!Spec =>
           [](Extensions!PluginCommandsAreItsOwn /\ Extensions!FirstClaimWins /\
           Extensions!HooksRunOnce /\ Extensions!RefusedForAMistake)
BY ExtensionsInit, ExtensionsStep, ExtensionsPromise, PTL DEF Extensions!Spec

-----------------------------------------------------------------------------
(* The instruction files of a session.                                     *)

\* Nothing is shut off.
InstructionTypes ==
  /\ git \in [Instructions!Dirs -> {"none", "dir", "file"}]
  /\ agents \in [Instructions!Dirs \cup {Instructions!User} -> Files]
  /\ claude \in [Instructions!Dirs -> Files] /\ shut = {}
  /\ collecting \in {"walk", "trim", "user", "read", "loaded", "failed"}
  /\ top \in Instructions!Dirs

\* The walk has not left the project, and no directory above it guides.
NothingAbove ==
  top \in Instructions!Project /\ \A d \in Instructions!Project : d > top =>
    ~Instructions!HasInstructionFile(d)

\* Of the directories up to the outermost all beyond k have been read.
ReadBeyond(k) ==
  /\ sources \in Seq((0..Depth) \X Instructions!Names)
  /\ \A s \in Instructions!Heard : s[1] = Instructions!User \/ s[1] \in k + 1..top
  /\ \A i, j \in DOMAIN sources :
       i < j => sources[j][1] # Instructions!User /\
         (sources[i][1] = Instructions!User \/ sources[i][1] > sources[j][1])
  /\ (agents[Instructions!User] = "text") = (<<Instructions!User,
       "AGENTS.md">> \in Instructions!Heard)
  /\ \A d \in k + 1..top :
       /\ (agents[d] = "text") = (<<d, "AGENTS.md">> \in Instructions!Heard)
       /\ (agents[d] # "text" /\ claude[d] = "text") = (<<d, "CLAUDE.md">> \in Instructions!Heard)

\* The directories from k down to the working directory.
Inward(k) == [i \in 1..k |-> k + 1 - i]

\* The inductive invariant of the instructions.
InstructionsInv ==
  /\ InstructionTypes
  /\ collecting = "walk" => top \in Instructions!Project
  /\ collecting \notin {"walk", "failed"} => NothingAbove
  /\ collecting = "user" => unreadDirs = Inward(top)
  /\ collecting = "read" => \E k \in 0..top : unreadDirs = Inward(k) /\ ReadBeyond(k)
  /\ collecting = "loaded" => ReadBeyond(0)

\* A set of one element, or none, is listed in one way.
LEMMA ListedOne ==
  Instructions!SetToSeq({}) = <<>> /\ \A x : Instructions!SetToSeq({x}) = <<x>>
<1>1. Instructions!SetToSeq({}) = <<>>
  <2>1. Instructions!Cardinality({}) = 0 BY FS_EmptySet, CountedAlike
  <2>2. \A f \in [1..0 -> {}] : f = <<>> OBVIOUS
  <2>3. <<>> \in [1..0 -> {}] /\ Instructions!IsInjective(<<>>) BY DEF Instructions!IsInjective
  <2> QED BY <2>1, <2>2, <2>3 DEF Instructions!SetToSeq
<1>2. ASSUME NEW x PROVE Instructions!SetToSeq({x}) = <<x>>
  <2>1. Instructions!Cardinality({x}) = 1 BY FS_Singleton, CountedAlike
  <2>2. \A f \in [1..1 -> {x}] : f = <<x>> OBVIOUS
  <2>3. <<x>> \in [1..1 -> {x}] /\ Instructions!IsInjective(<<x>>) BY DEF Instructions!IsInjective
  <2> QED BY <2>1, <2>2, <2>3 DEF Instructions!SetToSeq
<1> QED BY <1>1, <1>2

\* When nothing is shut the program sees what there is.
LEMMA FirstIsOne ==
  ASSUME InstructionTypes
  PROVE  Instructions!First = 1 /\ \A d : /\ Instructions!HasGit(d) <=> git[d] # "none"
                                          /\ ~Instructions!Unchecked(d)
                                          /\ \A name : Instructions!Contributes(d, name) <=>
                                               Instructions!File(d, name) = "text"
BY DEF InstructionTypes, Instructions!First, Instructions!HasGit, Instructions!Unchecked,
  Instructions!Contributes, Instructions!Exists

\* The walk begins at the working directory.
LEMMA InstructionsInit ==
  ASSUME Instructions!InstructionsAssumption, ~MayBeShut, Instructions!Init
  PROVE  InstructionsInv
<1>1. shut = {} BY DEF Instructions!Init
<1>2. Instructions!First = 1 /\ top = 1 /\ collecting = "walk" BY <1>1 DEF Instructions!First,
        Instructions!Init
<1>3. 1 \in Instructions!Dirs BY DEF Instructions!InstructionsAssumption, Instructions!Dirs
<1>4. InstructionTypes BY <1>1, <1>2, <1>3 DEF InstructionTypes, Instructions!Init
<1>5. top \in Instructions!Project BY <1>2, <1>3 DEF Instructions!Project
<1> QED BY <1>2, <1>4, <1>5 DEF InstructionsInv

\* What the files are does not change, nor what follows from them.
LEMMA SameFiles ==
  ASSUME UNCHANGED Instructions!files
  PROVE  /\ Instructions!Project' = Instructions!Project
         /\ \A d : Instructions!HasInstructionFile(d)' = Instructions!HasInstructionFile(d)
BY DEF Instructions!files, Instructions!Project, Instructions!HasInstructionFile, Instructions!File

\* One directory up, up to the root of the project.
LEMMA StepWalk ==
  ASSUME Instructions!InstructionsAssumption, InstructionsInv, Instructions!Walk
  PROVE  InstructionsInv'
<1>0. /\ collecting = "walk" /\ top \in Instructions!Project /\ InstructionTypes
      /\ UNCHANGED Instructions!files
      /\ Depth \in Nat \ {0} /\ top \in Instructions!Dirs
  BY DEF InstructionsInv, Instructions!Walk, Instructions!InstructionsAssumption, InstructionTypes
<1>1. CASE Instructions!HasGit(top) \/ top = Depth
  <2>1. collecting' = "trim" /\ top' = top BY <1>1 DEF Instructions!Walk
  <2>2. \A d \in Instructions!Project : ~(d > top)
    <3> SUFFICES ASSUME NEW d \in Instructions!Project, d > top PROVE FALSE OBVIOUS
    <3>1. d \in 1..Depth /\ top \in 1..d - 1 BY <1>0 DEF Instructions!Project, Instructions!Dirs
    <3>2. git[top] = "none" BY <3>1 DEF Instructions!Project
    <3> QED BY <1>0, <1>1, <3>1, <3>2, FirstIsOne
  <2>3. NothingAbove' BY <1>0, <2>1, <2>2, SameFiles DEF NothingAbove
  <2>4. InstructionTypes' BY <1>0, <2>1 DEF InstructionTypes, Instructions!files
  <2> QED BY <2>1, <2>3, <2>4 DEF InstructionsInv
<1>2. CASE ~(Instructions!HasGit(top) \/ top = Depth)
  <2>1. collecting' = "walk" /\ top' = top + 1 BY <1>0, <1>2 DEF Instructions!Walk
  <2>2. git[top] = "none" BY <1>0, <1>2, FirstIsOne
  <2>3. top + 1 \in Instructions!Dirs BY <1>0, <1>2 DEF Instructions!Dirs
  <2>4. \A e \in 1..(top + 1) - 1 : git[e] = "none"
    <3> SUFFICES ASSUME NEW e \in 1..(top + 1) - 1 PROVE git[e] = "none" OBVIOUS
    <3>1. e = top \/ e \in 1..top - 1 BY <1>0 DEF Instructions!Dirs
    <3> QED BY <1>0, <2>2, <3>1 DEF Instructions!Project
  <2>5. top' \in Instructions!Project' BY <1>0, <2>1, <2>3, <2>4, SameFiles DEF Instructions!Project
  <2>6. InstructionTypes' BY <1>0, <2>1, <2>3 DEF InstructionTypes, Instructions!files
  <2> QED BY <2>1, <2>5, <2>6 DEF InstructionsInv
<1> QED BY <1>1, <1>2

\* The directories above the outermost file are given up.
LEMMA StepTrim ==
  ASSUME Instructions!InstructionsAssumption, InstructionsInv, Instructions!Trim
  PROVE  InstructionsInv'
<1>0. /\ collecting = "trim" /\ NothingAbove /\ InstructionTypes /\ UNCHANGED Instructions!files
      /\ Depth \in Nat \ {0} /\ top \in 1..Depth /\ Instructions!First = 1
      /\ ~Instructions!Unchecked(top)
  BY FirstIsOne DEF InstructionsInv, Instructions!Trim, Instructions!InstructionsAssumption,
    InstructionTypes, Instructions!Dirs
<1>1. CASE Instructions!HasInstructionFile(top) \/ top = Instructions!First
  <2>1. collecting' = "user" /\ top' = top /\ unreadDirs' = Instructions!Downward(top) BY <1>0,
          <1>1 DEF Instructions!Trim
  <2>2. Instructions!Downward(top) = Inward(top) BY <1>0 DEF Instructions!Downward, Inward
  <2>3. NothingAbove' BY <1>0, <2>1, SameFiles DEF NothingAbove
  <2>4. InstructionTypes' BY <1>0, <2>1 DEF InstructionTypes, Instructions!files
  <2> QED BY <2>1, <2>2, <2>3, <2>4 DEF InstructionsInv, Inward
<1>2. CASE ~(Instructions!HasInstructionFile(top) \/ top = Instructions!First)
  <2>1. collecting' = "trim" /\ top' = top - 1 BY <1>0, <1>2 DEF Instructions!Trim
  <2>2. top - 1 \in Instructions!Project /\ top - 1 \in Instructions!Dirs
    BY <1>0, <1>2 DEF NothingAbove, Instructions!Project, Instructions!Dirs
  <2>3. \A d \in Instructions!Project : d > top - 1 => d > top \/
          d = top BY <1>0 DEF Instructions!Project, Instructions!Dirs
  <2>4. NothingAbove' BY <1>0, <1>2, <2>1, <2>2, <2>3, SameFiles DEF NothingAbove
  <2>5. InstructionTypes' BY <1>0, <2>1, <2>2 DEF InstructionTypes, Instructions!files
  <2> QED BY <2>1, <2>4, <2>5 DEF InstructionsInv
<1> QED BY <1>1, <1>2

\* The user's own file comes first.
LEMMA StepUser ==
  ASSUME Instructions!InstructionsAssumption, InstructionsInv, Instructions!ReadUser
  PROVE  InstructionsInv'
<1>0. /\ collecting = "user" /\ NothingAbove /\ InstructionTypes
      /\ UNCHANGED <<Instructions!files, top, unreadDirs>>
      /\ unreadDirs = Inward(top) /\ Depth \in Nat \ {0} /\ top \in 1..Depth
      /\ collecting' \in {"failed", "read"}
      /\ sources' = IF agents[Instructions!User] = "text" THEN <<<<Instructions!User,
           "AGENTS.md">>>> ELSE <<>>
  BY FirstIsOne DEF InstructionsInv, Instructions!ReadUser, Instructions!InstructionsAssumption,
    InstructionTypes, Instructions!Dirs, Instructions!File
<1>1. NothingAbove' BY <1>0, SameFiles DEF NothingAbove
<1>2. InstructionTypes' BY <1>0 DEF InstructionTypes, Instructions!files
<1> PICK k \in 1..Depth : k = top BY <1>0
<1>3. ReadBeyond(k)'
  <2>1. agents' = agents /\ claude' = claude /\ top' = top BY <1>0 DEF Instructions!files
  <2>2. CASE agents[Instructions!User] = "text"
    <3>1. sources' = <<<<Instructions!User, "AGENTS.md">>>> BY <1>0, <2>2
    <3>2. /\ sources' \in Seq((0..Depth) \X Instructions!Names) /\ DOMAIN sources' = {1}
          /\ sources'[1] = <<Instructions!User, "AGENTS.md">>
          /\ Instructions!Heard' = {<<Instructions!User, "AGENTS.md">>}
      <4> DEFINE one == <<Instructions!User, "AGENTS.md">>
      <4>1. one \in (0..Depth) \X Instructions!Names BY <1>0 DEF Instructions!User,
              Instructions!Names
      <4> HIDE DEF one
      <4>2. /\ <<one>> \in Seq((0..Depth) \X Instructions!Names) /\ DOMAIN <<one>> = {1}
            /\ <<one>>[1] = one
            /\ Instructions!Range(<<one>>) = {one}
        BY <4>1 DEF Instructions!Range
      <4>3. sources' = <<one>> BY <3>1 DEF one
      <4> QED BY <4>2, <4>3 DEF Instructions!Heard, one
    <3> QED BY <1>0, <2>1, <2>2, <3>2 DEF ReadBeyond, Instructions!User
  <2>3. CASE agents[Instructions!User] # "text"
    <3>1. sources' = <<>> BY <1>0, <2>3
    <3>2. /\ sources' \in Seq((0..Depth) \X Instructions!Names) /\ DOMAIN sources' = {}
          /\ Instructions!Heard' = {}
      BY <3>1 DEF Instructions!Heard, Instructions!Range
    <3> QED BY <1>0, <2>1, <2>3, <3>2 DEF ReadBeyond
  <2> QED BY <2>2, <2>3
<1>5. \E j \in 0..top' : unreadDirs' = Inward(j) /\ ReadBeyond(j)'
  <2>1. k \in 0..top' /\ unreadDirs' = Inward(k) BY <1>0
  <2> QED BY <1>3, <2>1
<1> QED BY <1>0, <1>1, <1>2, <1>5 DEF InstructionsInv, Inward

\* What one directory adds.
LEMMA OneMore ==
  ASSUME InstructionTypes, NEW k \in 1..top, ReadBeyond(k), Depth \in Nat \ {0},
         UNCHANGED <<agents, claude, top>>,
         \/ /\ sources' = Append(sources, <<k, "AGENTS.md">>) /\ agents[k] = "text"
         \/ /\ sources' = Append(sources, <<k, "CLAUDE.md">>) /\ agents[k] # "text" /\
              claude[k] = "text"
         \/ /\ sources' = sources /\ agents[k] # "text" /\ claude[k] # "text"
  PROVE  ReadBeyond(k - 1)'
<1>1. /\ top \in 1..Depth /\ k \in 1..Depth /\ k \in 0..Depth
      /\ sources \in Seq((0..Depth) \X Instructions!Names)
      /\ (k - 1) + 1 = k /\ \A d : d \in k..top <=> d = k \/ d \in k + 1..top
  BY DEF InstructionTypes, Instructions!Dirs, ReadBeyond
<1>2. \A name : <<k, name>> \notin Instructions!Heard
  <2> SUFFICES ASSUME NEW name, <<k, name>> \in Instructions!Heard PROVE FALSE OBVIOUS
  <2>1. k = Instructions!User \/ k \in k + 1..top BY DEF ReadBeyond
  <2> QED BY <1>1, <2>1 DEF Instructions!User
<1>3. CASE sources' = sources /\ agents[k] # "text" /\ claude[k] # "text"
  <2>1. Instructions!Heard' = Instructions!Heard BY <1>3 DEF Instructions!Heard
  <2> QED BY <1>1, <1>2, <1>3, <2>1 DEF ReadBeyond
<1>4. ASSUME NEW name \in Instructions!Names, sources' = Append(sources, <<k, name>>),
             name = "AGENTS.md" => agents[k] = "text",
             name = "CLAUDE.md" => agents[k] # "text" /\ claude[k] = "text"
      PROVE  ReadBeyond(k - 1)'
  <2> DEFINE n == Len(sources)
             new == <<k, name>>
  <2>1. /\ n \in Nat /\ DOMAIN sources = 1..n /\ DOMAIN sources' = 1..n + 1 /\ sources'[n + 1] = new
        /\ \A i \in 1..n : sources'[i] = sources[i]
        /\ sources' \in Seq((0..Depth) \X Instructions!Names)
    <3>1. new \in (0..Depth) \X Instructions!Names BY <1>1
    <3> HIDE DEF new
    <3> QED BY <1>1, <1>4, <3>1 DEF new
  <2>2. new[1] = k /\ k # Instructions!User BY <1>1 DEF Instructions!User
  <2> HIDE DEF n
  <2>3. Instructions!Heard' = Instructions!Heard \cup {new}
    <3>1. \A x : x \in Instructions!Heard' <=>
            \E i \in 1..n + 1 : x = sources'[i] BY <2>1 DEF Instructions!Heard, Instructions!Range
    <3>2. \A x : x \in Instructions!Heard <=>
            \E i \in 1..n : x = sources[i] BY <2>1 DEF Instructions!Heard, Instructions!Range
    <3>3. \A i : i \in 1..n + 1 <=> i = n + 1 \/ i \in 1..n BY <2>1
    <3> HIDE DEF new
    <3> QED BY <2>1, <3>1, <3>2, <3>3
  <2>4. \A s \in Instructions!Heard' : s[1] = Instructions!User \/ s[1] \in k..top
    <3>1. k \in k..top BY <1>1
    <3> HIDE DEF new
    <3> QED BY <1>1, <2>2, <2>3, <3>1 DEF ReadBeyond
  <2>5. ASSUME NEW i \in DOMAIN sources', NEW j \in DOMAIN sources', i < j
        PROVE  /\ sources'[j][1] # Instructions!User
               /\ (sources'[i][1] = Instructions!User \/ sources'[i][1] > sources'[j][1])
    <3>1. i \in 1..n BY <2>1, <2>5
    <3>2. CASE j \in 1..n BY <2>1, <2>5, <3>1, <3>2 DEF ReadBeyond
    <3>3. CASE j = n + 1
      <4>1. sources[i] \in Instructions!Heard BY <2>1, <3>1 DEF Instructions!Heard,
              Instructions!Range
      <4>2. sources[i][1] = Instructions!User \/ sources[i][1] > k BY <1>1, <4>1 DEF ReadBeyond
      <4>3. sources'[i] = sources[i] /\ sources'[j] = new BY <2>1, <3>1, <3>3
      <4> QED BY <2>2, <4>2, <4>3
    <3> QED BY <2>1, <2>5, <3>2, <3>3
  <2>6. (agents[Instructions!User] = "text") = (<<Instructions!User,
          "AGENTS.md">> \in Instructions!Heard')
    <3>1. <<Instructions!User, "AGENTS.md">> # new BY <2>2
    <3> HIDE DEF new
    <3> QED BY <2>3, <3>1 DEF ReadBeyond
  <2>7. \A d \in k + 1..top, m \in Instructions!Names : <<d, m>> \in Instructions!Heard' <=>
          <<d, m>> \in Instructions!Heard
    <3>1. \A d \in k + 1..top, m \in Instructions!Names : <<d, m>> # new BY <1>1, <2>2
    <3> HIDE DEF new
    <3> QED BY <2>3, <3>1
  <2>8. /\ <<k, "AGENTS.md">> \in Instructions!Heard' <=> name = "AGENTS.md"
        /\ <<k, "CLAUDE.md">> \in Instructions!Heard' <=> name = "CLAUDE.md"
    BY <1>2, <2>3
  <2>9. name = "AGENTS.md" \/ name = "CLAUDE.md" BY <1>4 DEF Instructions!Names
  <2>10. \A d \in k..top :
           /\ (agents[d] = "text") = (<<d, "AGENTS.md">> \in Instructions!Heard')
           /\ (agents[d] # "text" /\
                claude[d] = "text") = (<<d, "CLAUDE.md">> \in Instructions!Heard')
    <3> SUFFICES ASSUME NEW d \in k..top
                 PROVE  /\ (agents[d] = "text") = (<<d, "AGENTS.md">> \in Instructions!Heard')
                        /\ (agents[d] # "text" /\
                             claude[d] = "text") = (<<d, "CLAUDE.md">> \in Instructions!Heard')
      OBVIOUS
    <3>1. CASE d = k BY <1>4, <2>8, <2>9, <3>1
    <3>2. CASE d \in k + 1..top
      <4>1. /\ <<d, "AGENTS.md">> \in Instructions!Heard' <=>
                 <<d, "AGENTS.md">> \in Instructions!Heard
            /\ <<d, "CLAUDE.md">> \in Instructions!Heard' <=>
                 <<d, "CLAUDE.md">> \in Instructions!Heard
        BY <2>7, <3>2 DEF Instructions!Names
      <4> QED BY <3>2, <4>1 DEF ReadBeyond
    <3> QED BY <1>1, <3>1, <3>2
  <2> QED BY <1>1, <2>1, <2>4, <2>5, <2>6, <2>10 DEF ReadBeyond
<1> QED BY <1>3, <1>4 DEF Instructions!Names

\* The files of the next directory inward.
LEMMA StepDirectory ==
  ASSUME Instructions!InstructionsAssumption, InstructionsInv, Instructions!ReadDirectory
  PROVE  InstructionsInv'
<1>0. /\ collecting = "read" /\ NothingAbove /\ InstructionTypes
      /\ UNCHANGED <<Instructions!files, top>>
      /\ unreadDirs # <<>> /\ unreadDirs' = Tail(unreadDirs) /\ Depth \in Nat \ {0}
      /\ top \in 1..Depth
  BY DEF InstructionsInv, Instructions!ReadDirectory, Instructions!InstructionsAssumption,
    InstructionTypes, Instructions!Dirs
<1>1. PICK k \in 0..top : unreadDirs = Inward(k) /\ ReadBeyond(k) BY <1>0 DEF InstructionsInv
<1>2. k \in 1..top /\ Head(unreadDirs) = k /\ Tail(unreadDirs) = Inward(k - 1) /\ k - 1 \in 0..top
  <2>1. k # 0 BY <1>0, <1>1 DEF Inward
  <2>2. k \in 1..top /\ k \in Nat /\ k - 1 \in 0..top BY <1>0, <1>1, <2>1
  <2>3. unreadDirs \in Seq(Int) /\ Len(unreadDirs) = k /\ \A i \in 1..k : unreadDirs[i] = k + 1 - i
    BY <1>1, <2>2 DEF Inward
  <2>4. /\ Tail(unreadDirs) \in Seq(Int) /\ DOMAIN Tail(unreadDirs) = 1..k - 1
        /\ \A i \in 1..k - 1 : Tail(unreadDirs)[i] = unreadDirs[i + 1]
    <3>1. unreadDirs # <<>> /\ unreadDirs \in Seq(Int) BY <1>0, <2>3
    <3> HIDE <1>1
    <3> QED BY <2>2, <2>3, <3>1
  <2>5. Tail(unreadDirs) = Inward(k - 1)
    <3>1. \A i \in 1..k - 1 : Tail(unreadDirs)[i] = (k - 1) + 1 - i BY <2>2, <2>3, <2>4
    <3>2. Tail(unreadDirs) = [i \in 1..k - 1 |-> Tail(unreadDirs)[i]]
      <4> DEFINE u == Tail(unreadDirs)
      <4>1. u \in Seq(Int) /\ DOMAIN u = 1..k - 1 BY <2>4
      <4> HIDE DEF u
      <4>3. u = [i \in DOMAIN u |-> u[i]] BY <4>1
      <4> QED BY <4>1, <4>3 DEF u
    <3> QED BY <3>1, <3>2 DEF Inward
  <2> QED BY <1>0, <2>2, <2>3, <2>5
<1>3. NothingAbove' BY <1>0, SameFiles DEF NothingAbove
<1>4. CASE collecting' = "failed"
  BY <1>0, <1>3, <1>4 DEF InstructionsInv, InstructionTypes, Instructions!files
<1>5. CASE collecting' # "failed"
  <2>1. /\ collecting' = "read"
        /\ sources' = sources \o Instructions!SetToSeq({<<k,
             name>> : name \in Instructions!Chosen(k)})
    BY <1>0, <1>2, <1>5 DEF Instructions!ReadDirectory
  <2>2. \A name \in Instructions!Names : Instructions!Contributes(k, name) <=>
          Instructions!File(k, name) = "text" BY <1>0, FirstIsOne
  <2>3. Instructions!Chosen(k) = IF agents[k] = "text" THEN {"AGENTS.md"}
                    ELSE IF claude[k] = "text" THEN {"CLAUDE.md"} ELSE {}
    BY <2>2 DEF Instructions!Chosen, Instructions!Names, Instructions!File
  <2>4. sources \in Seq((0..Depth) \X Instructions!Names) BY <1>1 DEF ReadBeyond
  <2>5. \/ /\ sources' = Append(sources, <<k, "AGENTS.md">>) /\ agents[k] = "text"
        \/ /\ sources' = Append(sources, <<k, "CLAUDE.md">>) /\ agents[k] # "text" /\
             claude[k] = "text"
        \/ /\ sources' = sources /\ agents[k] # "text" /\ claude[k] # "text"
    <3>1. ASSUME NEW name, Instructions!Chosen(k) = {name}
          PROVE  sources' = Append(sources, <<k, name>>)
      <4>1. {<<k, m>> : m \in Instructions!Chosen(k)} = {<<k, name>>} BY <3>1
      <4>2. sources' = sources \o <<<<k, name>>>> BY <2>1, <4>1, ListedOne
      <4> QED BY <2>4, <4>2
    <3>2. ASSUME Instructions!Chosen(k) = {} PROVE sources' = sources
      <4>1. {<<k, m>> : m \in Instructions!Chosen(k)} = {} BY <3>2
      <4>2. sources' = sources \o <<>> BY <2>1, <4>1, ListedOne
      <4> QED BY <2>4, <4>2
    <3> QED BY <2>3, <3>1, <3>2
  <2>6. UNCHANGED <<agents, claude, top>> BY <1>0 DEF Instructions!files
  <2>7. ReadBeyond(k - 1)' BY <1>0, <1>1, <1>2, <2>5, <2>6, OneMore
  <2>8. \E j \in 0..top' : unreadDirs' = Inward(j) /\ ReadBeyond(j)'
    <3>1. k - 1 \in 0..top' /\ unreadDirs' = Inward(k - 1) BY <1>0, <1>2
    <3> QED BY <2>7, <3>1
  <2> QED BY <1>0, <1>3, <2>1, <2>8 DEF InstructionsInv, InstructionTypes, Instructions!files,
        Inward
<1> QED BY <1>4, <1>5

\* All are read.
LEMMA StepLoaded ==
  ASSUME Instructions!InstructionsAssumption, InstructionsInv, Instructions!Loaded
  PROVE  InstructionsInv'
<1>0. /\ collecting = "read" /\ collecting' = "loaded" /\ NothingAbove /\ InstructionTypes
      /\ UNCHANGED <<Instructions!files, top, unreadDirs, sources>> /\ unreadDirs = <<>>
  BY DEF InstructionsInv, Instructions!Loaded
<1>1. PICK k \in 0..top : unreadDirs = Inward(k) /\ ReadBeyond(k) BY <1>0 DEF InstructionsInv
<1>2. k = 0
  <2>1. top \in Nat /\ k \in Nat BY <1>0, <1>1 DEF InstructionTypes,
          Instructions!InstructionsAssumption, Instructions!Dirs
  <2>2. DOMAIN unreadDirs = 1..k BY <1>1 DEF Inward
  <2> QED BY <1>0, <2>1, <2>2
<1>3. ReadBeyond(0)' BY <1>0, <1>1, <1>2 DEF ReadBeyond, Instructions!Heard, Instructions!files
<1>4. NothingAbove' BY <1>0, SameFiles DEF NothingAbove
<1> QED BY <1>0, <1>3, <1>4 DEF InstructionsInv, InstructionTypes, Instructions!files

\* Every step keeps the invariant.
LEMMA InstructionsStep ==
  ASSUME Instructions!InstructionsAssumption, InstructionsInv, [Instructions!Next]_Instructions!vars
  PROVE  InstructionsInv'
<1>1. CASE UNCHANGED Instructions!vars
  BY <1>1 DEF Instructions!vars, Instructions!files, InstructionsInv, InstructionTypes,
    NothingAbove, Instructions!Project,
    Instructions!HasInstructionFile, Instructions!File, ReadBeyond, Instructions!Heard, Inward
<1>2. CASE Instructions!Next BY <1>2, StepWalk, StepTrim, StepUser, StepDirectory,
             StepLoaded DEF Instructions!Next
<1> QED BY <1>1, <1>2

\* What the run checks of the instructions.
LEMMA InstructionsPromise ==
  ASSUME Instructions!InstructionsAssumption, InstructionsInv
  PROVE  Instructions!OnlyTheProjectIsHeard /\ Instructions!EveryLayerIsHeard
<1> SUFFICES ASSUME collecting = "loaded"
             PROVE  Instructions!OnlyTheProjectIsHeard /\ Instructions!EveryLayerIsHeard
  BY DEF Instructions!OnlyTheProjectIsHeard, Instructions!EveryLayerIsHeard
<1>0. ReadBeyond(0) /\ NothingAbove /\ InstructionTypes /\ Depth \in Nat \ {0} /\ top \in 1..Depth
  BY DEF InstructionsInv, Instructions!InstructionsAssumption, InstructionTypes, Instructions!Dirs
<1>1. \A d \in 1..top : d \in Instructions!Project
  <2> SUFFICES ASSUME NEW d \in 1..top PROVE d \in Instructions!Project OBVIOUS
  <2>1. d \in 1..Depth /\ \A e \in 1..d - 1 : e \in 1..top - 1 BY <1>0
  <2> QED BY <1>0, <2>1 DEF NothingAbove, Instructions!Project, Instructions!Dirs
<1>2. Instructions!OnlyTheProjectIsHeard
  <2>1. 0 + 1 = 1 OBVIOUS
  <2> QED BY <1>0, <1>1, <2>1 DEF Instructions!OnlyTheProjectIsHeard, ReadBeyond
<1>3. Instructions!EveryLayerIsHeard
  <2>1. 0 + 1 = 1 OBVIOUS
  <2>2. ASSUME NEW d \in Instructions!Project
        PROVE  /\ (agents[d] = "text") = (<<d, "AGENTS.md">> \in Instructions!Heard)
               /\ (agents[d] # "text" /\
                    claude[d] = "text") = (<<d, "CLAUDE.md">> \in Instructions!Heard)
    <3>0. d \in 1..Depth BY DEF Instructions!Project, Instructions!Dirs
    <3>1. CASE d <= top BY <1>0, <2>1, <3>0, <3>1 DEF ReadBeyond
    <3>2. CASE d > top
      <4>1. ~Instructions!HasInstructionFile(d) BY <1>0, <3>2 DEF NothingAbove
      <4>2. agents[d] # "text" /\ claude[d] # "text" BY <4>1 DEF Instructions!HasInstructionFile,
              Instructions!File, Instructions!Names
      <4>3. ASSUME NEW name, <<d, name>> \in Instructions!Heard PROVE FALSE
        <5>1. d = Instructions!User \/ d \in 1..top BY <1>0, <2>1, <4>3 DEF ReadBeyond
        <5> QED BY <1>0, <3>0, <3>2, <5>1 DEF Instructions!User
      <4> QED BY <4>2, <4>3
    <3> QED BY <1>0, <3>0, <3>1, <3>2
  <2> QED BY <1>0, <2>2 DEF Instructions!EveryLayerIsHeard, ReadBeyond
<1> QED BY <1>2, <1>3

\* app/instructions: when every directory can be searched, the sources are the
\* guiding files of the project from the outermost to the working directory, the
\* user's own first, none twice and none left out.
THEOREM InstructionsAlwaysHeard ==
  ASSUME Instructions!InstructionsAssumption, ~MayBeShut
  PROVE  Instructions!Spec =>
           [](Instructions!OnlyTheProjectIsHeard /\ Instructions!EveryLayerIsHeard)
BY InstructionsInit, InstructionsStep, InstructionsPromise, PTL DEF Instructions!Spec

-----------------------------------------------------------------------------
(* The prompt: its draft, its palette and its history.                     *)


\* g is what has been kept after each of the first n.
KeptTo(names, n, g) ==
  g = [i \in 0..n |-> IF i = 0 THEN <<>>
                      ELSE IF Palette[i] \in names THEN Append(g[i - 1], Palette[i]) ELSE g[i - 1]]

\* There is such a function, for every n.
LEMMA KeptExists ==
  ASSUME NEW names, NEW n \in Nat PROVE \E g : KeptTo(names, n, g)
<1> DEFINE Bad == {k \in Nat : ~\E g : KeptTo(names, k, g)}
<1> SUFFICES ASSUME Bad # {} PROVE FALSE OBVIOUS
<1>1. PICK k \in Bad : \A y \in Bad : k <= y
  <2>1. Bad \subseteq Nat OBVIOUS
  <2> QED BY <2>1, Least
<1>2. k # 0
  <2> DEFINE z == [i \in 0..0 |-> <<>>]
  <2>1. KeptTo(names, 0, z) BY DEF KeptTo
  <2> QED BY <2>1
<1>3. k - 1 \in Nat /\ k - 1 \notin Bad BY <1>1, <1>2
<1>4. PICK g : KeptTo(names, k - 1, g) BY <1>3
<1> DEFINE h == [i \in 0..k |-> IF i < k THEN g[i]
                   ELSE IF Palette[i] \in names THEN Append(g[i - 1], Palette[i]) ELSE g[i - 1]]
<1>5. KeptTo(names, k, h)
  <2> DEFINE r == [i \in 0..k |-> IF i = 0 THEN <<>>
                     ELSE IF Palette[i] \in names THEN Append(h[i - 1], Palette[i]) ELSE h[i - 1]]
  <2>1. ASSUME NEW i \in 0..k PROVE h[i] = r[i]
    <3>1. CASE i = 0
      <4>1. h[i] = g[i] BY <3>1, <1>2
      <4>2. g[i] = <<>> BY <3>1, <1>4, <1>3 DEF KeptTo
      <4> QED BY <4>1, <4>2, <3>1
    <3>2. CASE i # 0 /\ i < k
      <4>1. h[i] = g[i] /\ h[i - 1] = g[i - 1] BY <3>2, <1>3
      <4>2. i \in 0..(k - 1) BY <3>2, <1>3
      <4>3. g[i] = IF Palette[i] \in names THEN Append(g[i - 1], Palette[i]) ELSE g[i - 1]
        BY <3>2, <4>2, <1>4 DEF KeptTo
      <4> QED BY <4>1, <4>3, <3>2
    <3>3. CASE i = k
      <4>1. h[i - 1] = g[i - 1] BY <3>3, <1>2
      <4> QED BY <4>1, <3>3, <1>2
    <3> QED BY <3>1, <3>2, <3>3
  <2>2. h = r BY <2>1, Zenon
  <2> QED BY <2>2 DEF KeptTo
<1> QED BY <1>5, <1>1


\* The rows are names of the palette, and there are some when there is a name.
LEMMA RowsAre ==
  ASSUME NEW S, Palette \in Seq(S), NEW names
  PROVE  /\ Composer!Rows(names) \in Seq(S)
         /\ \A j \in DOMAIN Composer!Rows(names) :
               Composer!Rows(names)[j] \in Composer!Range(Palette)
         /\ \A i \in DOMAIN Palette : Palette[i] \in names => Composer!Rows(names) # <<>>
<1> DEFINE n == Len(Palette)
           K == CHOOSE g : KeptTo(names, n, g)
<1>0. n \in Nat /\ DOMAIN Palette = 1..n OBVIOUS
<1>1. KeptTo(names, n, K) BY KeptExists, <1>0
<1>2. Composer!Rows(names) = K[n] BY DEF Composer!Rows, KeptTo
<1> HIDE DEF K
<1> DEFINE Ok(k) == /\ K[k] \in Seq(S) /\ \A j \in DOMAIN K[k] : K[k][j] \in Composer!Range(Palette)
                    /\ \A i \in 1..k : Palette[i] \in names => K[k] # <<>>
           Bad == {k \in 0..n : ~Ok(k)}
<1>3. Bad = {}
  <2> SUFFICES ASSUME Bad # {} PROVE FALSE OBVIOUS
  <2>1. PICK k \in Bad : \A y \in Bad : k <= y
    <3>1. Bad \subseteq Nat BY <1>0
    <3> QED BY <3>1, Least
  <2>2. k # 0
    <3>1. K[0] = <<>> BY <1>0, <1>1 DEF KeptTo
    <3>2. Ok(0) BY <3>1
    <3> QED BY <2>1, <3>2
  <2>8. k \in 0..n OBVIOUS
  <2>3. k \in 1..n /\ k \in 0..n /\ k - 1 \in 0..n /\ k - 1 \notin Bad
    <3> HIDE DEF Bad
    <3> QED BY <1>0, <2>1, <2>2, <2>8
  <2>4. Ok(k - 1) BY <2>3
  <2>5. K[k] = IF Palette[k] \in names THEN Append(K[k - 1], Palette[k]) ELSE K[k - 1]
    <3> HIDE DEF n
    <3>1. \A i \in 0..n : K[i] = IF i = 0 THEN <<>>
                                 ELSE IF Palette[i] \in names THEN Append(K[i - 1], Palette[i])
                                 ELSE K[i - 1]
      BY <1>1, Zenon DEF KeptTo
    <3> QED BY <2>2, <2>3, <3>1
  <2>6. CASE Palette[k] \notin names
    <3>1. \A i \in 1..k : i = k \/ i \in 1..k - 1 BY <2>3
    <3>2. Ok(k) BY <2>4, <2>5, <2>6, <3>1
    <3> QED BY <2>1, <3>2
  <2>7. CASE Palette[k] \in names
    <3> DEFINE old == K[k - 1]
               new == Append(old, Palette[k])
    <3>1. K[k] = new /\ old \in Seq(S) /\ Palette[k] \in S /\ Palette[k] \in Composer!Range(Palette)
      <4>1. K[k] = new BY <2>5, <2>7
      <4>2. Palette[k] \in S BY <1>0, <2>3
      <4>3. Palette[k] \in Composer!Range(Palette) BY <1>0, <2>3 DEF Composer!Range
      <4> QED BY <2>4, <4>1, <4>2, <4>3
    <3>2. /\ new \in Seq(S) /\ new # <<>> /\ DOMAIN new = DOMAIN old \cup {Len(old) + 1}
          /\ new[Len(old) + 1] = Palette[k] /\ \A j \in DOMAIN old : new[j] = old[j]
      BY <3>1
    <3>3. \A j \in DOMAIN new : new[j] \in Composer!Range(Palette) BY <2>4, <3>1, <3>2
    <3> HIDE DEF new
    <3>4. Ok(k) BY <3>1, <3>2, <3>3
    <3> QED BY <2>1, <3>4
  <2> QED BY <2>6, <2>7
<1>4. Ok(n) BY <1>0, <1>3
<1> QED BY <1>0, <1>2, <1>4

\* A word holds no space and its beginning is a slash.
Word(text) ==
  text \in Composer!Texts /\ Len(text) > 1 /\ text[1] = Slash /\ ~Composer!Contains(text, Space)

\* The names of the palette are words.
LEMMA PaletteIs ==
  ASSUME Composer!ComposerAssumption
  PROVE  Palette \in Seq(Composer!Texts) /\ \A name \in Composer!Range(Palette) : Word(name)
<1>1. Palette \in Seq(Seq(Letters \ {Space})) BY DEF Composer!ComposerAssumption
<1>2. DOMAIN Palette = 1..Len(Palette) /\ Len(Palette) \in Nat BY <1>1
<1>3. ASSUME NEW i \in DOMAIN Palette PROVE Palette[i] \in Composer!Texts /\ Word(Palette[i])
  <2>1. Palette[i] \in Seq(Letters \ {Space}) BY <1>1, <1>2
  <2> DEFINE t == Palette[i]
  <2>2. /\ t \in Seq(Letters \ {Space}) /\ Len(t) > 1
        /\ t[1] = Slash BY <2>1 DEF Composer!ComposerAssumption
  <2> HIDE DEF t
  <2>3. /\ t \in Seq(Letters) /\ \A j \in 1..Len(t) : t[j] # Space
    BY <2>2
  <2> QED BY <2>2, <2>3 DEF Word, Composer!Texts, Composer!Contains, t
<1>4. Palette \in Seq(Composer!Texts)
  <2>1. Palette \in [1..Len(Palette) -> Composer!Texts] BY <1>1, <1>2, <1>3
  <2> QED BY <1>2, <2>1
<1> QED BY <1>3, <1>4 DEF Composer!Range

\* Bounded sets of numbers have their least and their greatest.
LEMMA Extremes ==
  /\ \A n \in Nat : \A T \in SUBSET (1..n) : T # {} =>
       /\ Composer!Min(T) \in T /\ \A x \in T : Composer!Min(T) <= x
       /\ Composer!Max(T) \in T /\ \A x \in T : x <= Composer!Max(T)
  /\ \A a, b \in Int : Composer!Max({a, b}) = IF a > b THEN a ELSE b
  /\ \A a, b \in Int : Composer!Min({a, b}) = IF a < b THEN a ELSE b
<1>1. ASSUME NEW n \in Nat, NEW T \in SUBSET (1..n), T # {}
      PROVE  Composer!Min(T) \in T /\ \A x \in T : Composer!Min(T) <= x
  <2>1. T \subseteq Nat
    <3>1. 1..n \subseteq Nat OBVIOUS
    <3> QED BY <3>1
  <2>2. \E x \in T : \A y \in T : x <= y BY <1>1, <2>1, Least
  <2> QED BY <2>2 DEF Composer!Min
<1>2. ASSUME NEW n \in Nat, NEW T \in SUBSET (1..n), T # {}
      PROVE  Composer!Max(T) \in T /\ \A x \in T : x <= Composer!Max(T)
  <2>0. \A x \in T : x \in 1..n /\ n - x \in Nat /\ x \in Int
    <3>1. \A x \in 1..n : n - x \in Nat /\ x \in Int OBVIOUS
    <3> QED BY <3>1
  <2> DEFINE U == {n - x : x \in T}
  <2>1. U \subseteq Nat /\ U # {} BY <1>2, <2>0
  <2>2. PICK u \in U : \A v \in U : u <= v
    <3> HIDE DEF U
    <3> QED BY <2>1, Least
  <2>3. PICK x \in T : u = n - x BY <2>2
  <2>4. ASSUME NEW y \in T PROVE x >= y
    <3>1. n - y \in U BY <2>4
    <3>2. n - x <= n - y BY <2>2, <2>3, <3>1
    <3>3. x \in Int /\ y \in Int BY <2>0
    <3> QED BY <3>2, <3>3
  <2>5. \E z \in T : \A y \in T : z >= y BY <2>4
  <2>6. Composer!Max(T) \in T /\ \A y \in T : Composer!Max(T) >= y BY <2>5 DEF Composer!Max
  <2>7. T \subseteq Int BY <2>0
  <2> QED BY <2>6, <2>7
<1>3. ASSUME NEW a \in Int, NEW b \in Int
      PROVE  /\ Composer!Max({a, b}) = (IF a > b THEN a ELSE b)
             /\ Composer!Min({a, b}) = (IF a < b THEN a ELSE b)
  <2>1. \E x \in {a, b} : \A y \in {a, b} : x >= y OBVIOUS
  <2>2. \E x \in {a, b} : \A y \in {a, b} : x =< y OBVIOUS
  <2>3. /\ Composer!Max({a, b}) \in {a, b}
        /\ \A y \in {a, b} : Composer!Max({a, b}) >= y BY <2>1 DEF Composer!Max
  <2>4. /\ Composer!Min({a, b}) \in {a, b}
        /\ \A y \in {a, b} : Composer!Min({a, b}) =< y BY <2>2 DEF Composer!Min
  <2> QED BY <2>3, <2>4
<1> QED BY <1>1, <1>2, <1>3

\* What stripping leaves.
LEMMA Stripped ==
  /\ Composer!Strip(<<>>) = <<>>
  /\ \A text \in Composer!Texts : Composer!Strip(text) \in Composer!Texts
  /\ \A text \in Composer!Texts : ~Composer!Contains(text, Space) => Composer!Strip(text) = text
<1>1. Composer!Strip(<<>>) = <<>> BY DEF Composer!Strip
<1>2. ASSUME NEW text \in Composer!Texts
      PROVE  /\ Composer!Strip(text) \in Composer!Texts
             /\ (~Composer!Contains(text, Space) => Composer!Strip(text) = text)
  <2> DEFINE solid == {i \in DOMAIN text : text[i] # Space}
  <2>1. /\ text \in Seq(Letters) /\ Len(text) \in Nat
        /\ DOMAIN text = 1..Len(text) BY DEF Composer!Texts
  <2>2. solid \subseteq 1..Len(text) BY <2>1
  <2>3. CASE solid = {}
    <3>1. Composer!Strip(text) = <<>> BY <2>3 DEF Composer!Strip
    <3>2. ~Composer!Contains(text, Space) => text = <<>> BY <2>1, <2>3 DEF Composer!Contains
    <3> QED BY <3>1, <3>2 DEF Composer!Texts
  <2>4. CASE solid # {}
    <3> DEFINE low == Composer!Min(solid)
               high == Composer!Max(solid)
    <3>1. Composer!Strip(text) = SubSeq(text, low, high) BY <2>4 DEF Composer!Strip
    <3> HIDE DEF solid
    <3>2. low \in solid /\ high \in solid /\ \A x \in solid : low <= x /\ x <= high
      BY <2>1, <2>2, <2>4, Extremes
    <3>3. low \in 1..Len(text) /\ high \in 1..Len(text) BY <2>2, <3>2
    <3> HIDE DEF low, high
    <3>4. Composer!Strip(text) \in Composer!Texts BY <2>1, <3>1, <3>3 DEF Composer!Texts
    <3>5. ASSUME ~Composer!Contains(text, Space) PROVE Composer!Strip(text) = text
      <4>1. \A i \in 1..Len(text) : i \in solid BY <2>1, <3>5 DEF Composer!Contains, solid
      <4>2. 1 \in 1..Len(text) /\ Len(text) \in 1..Len(text) BY <2>1, <3>3
      <4>3. low <= 1 /\ Len(text) <= high BY <3>2, <4>1, <4>2
      <4>4. low \in Nat /\ high \in Nat /\ low >= 1 /\ high <= Len(text)
        <5> HIDE <2>4
        <5> QED BY <2>1, <3>3
      <4>6. \A i, j \in Nat : i <= j /\ j <= i => i = j OBVIOUS
      <4>7. low \in Nat /\ high \in Nat /\ Len(text) \in Nat /\ 1 \in Nat BY <2>1, <4>4
      <4>8. 1 <= low /\ high <= Len(text) BY <4>4
      <4>5. low = 1 /\ high = Len(text) BY <4>3, <4>6, <4>7, <4>8
      <4> QED BY <2>1, <3>1, <4>5
    <3> QED BY <3>4, <3>5
  <2> QED BY <2>3, <2>4
<1> QED BY <1>1, <1>2

\* What a draft matches, and that a beginning of a name matches something.
LEMMA MatchesAre ==
  ASSUME Composer!ComposerAssumption, NEW text \in Composer!Texts
  PROVE  /\ Composer!Matches(text) \in Seq(Composer!Texts)
         /\ \A j \in DOMAIN Composer!Matches(text) :
               Composer!Matches(text)[j] \in Composer!Range(Palette)
         /\ text # <<>> => \A name \in Composer!Range(Palette) : Composer!IsPrefix(text, name) =>
              Composer!Matches(text) # <<>>
<1> DEFINE names == {name \in Composer!Range(Palette) : Composer!IsPrefix(text, name)}
<1>1. /\ Palette \in Seq(Composer!Texts)
      /\ \A name \in Composer!Range(Palette) : Word(name) BY PaletteIs
<1>2. /\ Composer!Rows(names) \in Seq(Composer!Texts)
      /\ \A j \in DOMAIN Composer!Rows(names) : Composer!Rows(names)[j] \in Composer!Range(Palette)
      /\ \A i \in DOMAIN Palette : Palette[i] \in names => Composer!Rows(names) # <<>>
  <2> HIDE DEF names
  <2> QED BY <1>1, RowsAre
<1>3. Composer!Matches(text) = IF text = <<>> \/ Head(text) # Slash \/
        Composer!Contains(text, Space) THEN <<>> ELSE Composer!Rows(names)
  BY DEF Composer!Matches
<1>4. ASSUME text # <<>>, NEW name \in Composer!Range(Palette), Composer!IsPrefix(text, name)
      PROVE  Composer!Matches(text) # <<>>
  <2>1. /\ text \in Seq(Letters) /\ name \in Seq(Letters) /\ Len(text) \in Nat \ {0}
        /\ Len(name) \in Nat
        /\ Len(text) <= Len(name) /\ name[1] = Slash /\ ~Composer!Contains(name, Space)
        /\ SubSeq(text, 1, Len(text)) = SubSeq(name, 1, Len(text))
    BY <1>1, <1>4 DEF Word, Composer!Texts, Composer!IsPrefix
  <2>2. \A j \in 1..Len(text) : text[j] = name[j] /\ j \in 1..Len(name)
    <3> SUFFICES ASSUME NEW j \in 1..Len(text) PROVE text[j] = name[j] /\ j \in 1..Len(name) OBVIOUS
    <3>1. SubSeq(text, 1, Len(text))[j] = text[j] BY <2>1
    <3>2. SubSeq(name, 1, Len(text))[j] = name[j] BY <2>1
    <3> QED BY <2>1, <3>1, <3>2
  <2>3. Head(text) = Slash BY <2>1, <2>2
  <2>4. ~Composer!Contains(text, Space) BY <2>1, <2>2 DEF Composer!Contains
  <2>5. PICK i \in DOMAIN Palette : Palette[i] = name BY DEF Composer!Range
  <2>6. name \in names BY <1>4
  <2> QED BY <1>2, <1>3, <1>4, <2>3, <2>4, <2>5, <2>6
<1> HIDE DEF names
<1>5. /\ <<>> \in Seq(Composer!Texts)
      /\ \A j \in DOMAIN <<>> : <<>>[j] \in Composer!Range(Palette) OBVIOUS
<1> QED BY <1>2, <1>3, <1>4, <1>5

\* The inductive invariant of the prompt.
ComposerInv ==
  /\ value \in Composer!Texts /\ cursor \in 0..Len(value)
  /\ history \in Seq(Composer!Texts) /\ historyIndex \in 0..Len(history)
  /\ historyDraft \in Composer!Texts /\ leftDraft = historyDraft
  /\ selection \in Nat /\ Composer!EchoIsWhatRuns

\* What Enter and Tab complete to, and that the read loop finds the same.
LEMMA CompletionIs ==
  ASSUME Composer!ComposerAssumption, value \in Composer!Texts, selection \in Nat
  PROVE  /\ Composer!Matches(value) # <<>> => Composer!Clamped(Composer!Matches(value)) \in Nat
         /\ Composer!Completion \in Composer!Texts
         /\ Composer!Completion = <<>> /\ Composer!Matches(value) # <<>> =>
              value \in Composer!Range(Palette)
         /\ ~Composer!RowMissing => (Composer!Completing <=> Composer!Completion # <<>>)
<1> DEFINE m == Composer!Matches(value)
           row == Composer!Clamped(m)
<1>1. /\ m \in Seq(Composer!Texts)
      /\ \A j \in DOMAIN m : m[j] \in Composer!Range(Palette) BY MatchesAre
<1>2. \A name \in Composer!Range(Palette) : name \in Composer!Texts /\ name # <<>>
  <2> SUFFICES ASSUME NEW name \in Composer!Range(Palette)
               PROVE  name \in Composer!Texts /\ name # <<>> OBVIOUS
  <2>1. name \in Seq(Letters) /\ Len(name) > 1 BY PaletteIs DEF Word, Composer!Texts
  <2> QED BY <2>1 DEF Composer!Texts
<1> HIDE DEF m
<1>3. CASE m = <<>>
  <2>1. Composer!Completion = <<>> /\ ~Composer!Completing BY <1>3 DEF Composer!Completion,
          Composer!Completing, m
  <2> QED BY <1>3, <2>1 DEF Composer!Texts, m
<1>4. CASE m # <<>>
  <2>1. Len(m) \in Nat \ {0} /\ DOMAIN m = 1..Len(m) BY <1>1, <1>4
  <2>2. row \in 0..Len(m) - 1 /\ (selection < Len(m) => row = selection)
    <3>1. row = IF selection >= Len(m) THEN Len(m) - 1 ELSE selection BY DEF Composer!Clamped
    <3>2. selection \in Nat /\ Len(m) \in Nat \ {0} BY <2>1
    <3> HIDE DEF row
    <3>3. CASE selection >= Len(m) BY <3>1, <3>2, <3>3
    <3>4. CASE ~(selection >= Len(m)) BY <3>1, <3>2, <3>4
    <3> QED BY <3>3, <3>4
  <2>3. row + 1 \in DOMAIN m /\ row \in Nat BY <2>1, <2>2
  <2>4. m[row + 1] \in Composer!Range(Palette) BY <1>1, <2>3
  <2>5. Composer!Completion = IF m[row + 1] = value THEN <<>> ELSE m[row + 1]
    BY <1>4 DEF Composer!Completion, m
  <2>6. Composer!Completing <=> m[selection + 1] # value BY <1>4 DEF Composer!Completing, m
  <2>7. Composer!RowMissing <=> selection >= Len(m) BY <1>4 DEF Composer!RowMissing, m
  <2>8. ~Composer!RowMissing => row = selection BY <2>1, <2>2, <2>7
  <2>9. <<>> \in Composer!Texts BY DEF Composer!Texts
  <2> HIDE DEF row
  <2>10. Composer!Completion \in Composer!Texts BY <1>2, <2>4, <2>5, <2>9
  <2>11. Composer!Completion = <<>> => value \in Composer!Range(Palette) BY <1>2, <2>4, <2>5
  <2>12. ~Composer!RowMissing => (Composer!Completing <=> Composer!Completion # <<>>) BY <1>2, <2>4,
           <2>5, <2>6, <2>8
  <2> QED BY <2>3, <2>10, <2>11, <2>12 DEF m, row
<1> QED BY <1>3, <1>4

\* The prompt begins empty.
LEMMA ComposerInit ==
  ASSUME Composer!ComposerAssumption, Composer!Init
  PROVE  ComposerInv
BY Stripped DEF Composer!Init, ComposerInv, Composer!EchoIsWhatRuns, Composer!Texts

\* A key that is read prints what it runs.
LEMMA KeyEchoes ==
  ASSUME Composer!ComposerAssumption, ComposerInv, NEW key, Composer!Key(key)
  PROVE  Composer!EchoIsWhatRuns'
<1>1. ~Composer!RowMissing =>
        (Composer!Completing <=> Composer!Completion # <<>>) BY CompletionIs DEF ComposerInv
<1>2. /\ lastKey'.echoed = IF key = "enter" /\ ~Composer!Completing THEN value ELSE <<>>
      /\ lastKey'.ran = IF key = "enter" /\
           Composer!Completion = <<>> THEN Composer!Strip(value) ELSE <<>>
      /\ ~Composer!RowMissing
  BY DEF Composer!Key
<1>3. Composer!Strip(<<>>) = <<>> BY Stripped
<1>4. Composer!Strip(lastKey'.echoed) = lastKey'.ran BY <1>1, <1>2, <1>3
<1> QED BY <1>4 DEF Composer!EchoIsWhatRuns, Composer!Strip

\* What is remembered is one more text, or none.
LEMMA RememberedIs ==
  ASSUME history \in Seq(Composer!Texts), NEW text \in Composer!Texts
  PROVE  Composer!Remembered(text) \in Seq(Composer!Texts)
BY DEF Composer!Remembered

\* An Enter completes or submits.
LEMMA Entered ==
  ASSUME Composer!ComposerAssumption, ComposerInv, NEW began, Composer!Enter(began)
  PROVE  /\ value' \in Composer!Texts /\ cursor' \in 0..Len(value')
         /\ history' \in Seq(Composer!Texts) /\ historyIndex' \in 0..Len(history')
         /\ historyDraft' \in Composer!Texts /\ leftDraft' = historyDraft' /\ selection' \in Nat
<1>0. /\ value \in Composer!Texts /\ cursor \in 0..Len(value) /\ history \in Seq(Composer!Texts)
      /\ historyIndex \in 0..Len(history) /\ historyDraft \in Composer!Texts
      /\ leftDraft = historyDraft
      /\ selection \in Nat
  BY DEF ComposerInv
<1>1. /\ Composer!Completion \in Composer!Texts
      /\ (Composer!Matches(value) # <<>> => Composer!Clamped(Composer!Matches(value)) \in Nat)
  BY <1>0, CompletionIs
<1>2. \A text \in Composer!Texts : Len(text) \in 0..Len(text) BY DEF Composer!Texts
<1>3. CASE Composer!Completion # <<>>
  <2>1. /\ value' = Composer!Completion /\ cursor' = Len(Composer!Completion) /\ selection' = 0
        /\ UNCHANGED Composer!walk
    BY <1>3 DEF Composer!Enter, Composer!Complete, Composer!SetValue
  <2> QED BY <1>0, <1>1, <1>2, <2>1 DEF Composer!walk
<1>4. CASE Composer!Completion = <<>>
  <2>1. /\ selection' = (IF Composer!Matches(value) = <<>> THEN selection
                       ELSE Composer!Clamped(Composer!Matches(value)))
        /\ Composer!Submit(Composer!Strip(value), began)
    BY <1>4 DEF Composer!Enter
  <2>2. selection' \in Nat BY <1>0, <1>1, <2>1
  <2>3. Composer!Strip(value) \in Composer!Texts BY <1>0, Stripped
  <2>4. CASE Composer!Strip(value) = <<>>
    <3>1. UNCHANGED <<Composer!draft, Composer!walk>> BY <2>1, <2>4 DEF Composer!Submit
    <3> QED BY <1>0, <2>2, <3>1 DEF Composer!draft, Composer!walk
  <2>5. CASE Composer!Strip(value) # <<>>
    <3>1. /\ history' = Composer!Remembered(Composer!Strip(value)) /\ historyIndex' = Len(history')
          /\ historyDraft' = <<>> /\ leftDraft' = <<>>
          /\ (UNCHANGED Composer!draft \/ (value' = <<>> /\ cursor' = 0))
      BY <2>1, <2>5 DEF Composer!Submit, Composer!SetValue
    <3>2. history' \in Seq(Composer!Texts) BY <1>0, <2>3, <3>1, RememberedIs
    <3>3. <<>> \in Composer!Texts /\ Len(<<>>) = 0 BY DEF Composer!Texts
    <3>4. historyIndex' \in 0..Len(history') BY <3>1, <3>2
    <3> QED BY <1>0, <2>2, <3>1, <3>2, <3>3, <3>4 DEF Composer!draft
  <2> QED BY <2>4, <2>5
<1> QED BY <1>3, <1>4


\* Lifting types through the edits of a draft.
LEMMA Edits ==
  ASSUME value \in Composer!Texts, cursor \in 0..Len(value)
  PROVE  /\ \A letter \in Letters : LET new == Composer!InsertAt(value, cursor + 1, letter)
                                    IN  new \in Composer!Texts /\ cursor + 1 \in 0..Len(new)
         /\ cursor > 0 => LET new == Composer!RemoveAt(value, cursor)
                          IN  new \in Composer!Texts /\ cursor - 1 \in 0..Len(new)
         /\ {Composer!Max({0, cursor - 1}),
              Composer!Min({Len(value), cursor + 1})} \subseteq 0..Len(value)
<1>0. value \in Seq(Letters) /\ Len(value) \in Nat /\ cursor \in Nat /\ cursor <= Len(value)
  BY DEF Composer!Texts
<1>1. ASSUME NEW letter \in Letters
      PROVE  LET new == Composer!InsertAt(value, cursor + 1, letter)
             IN  new \in Composer!Texts /\ cursor + 1 \in 0..Len(new)
  <2> DEFINE before == SubSeq(value, 1, (cursor + 1) - 1)
             after == SubSeq(value, cursor + 1, Len(value))
  <2>1. /\ before \in Seq(Letters) /\ Len(before) = cursor
        /\ after \in Seq(Letters) /\ Len(after) \in Nat
    BY <1>0
  <2>2. Composer!InsertAt(value, cursor + 1,
          letter) = before \o <<letter>> \o after BY DEF Composer!InsertAt
  <2> HIDE DEF before, after
  <2>3. /\ before \o <<letter>> \o after \in Seq(Letters)
        /\ Len(before \o <<letter>> \o after) = cursor + 1 + Len(after)
    BY <1>0, <2>1
  <2>4. cursor + 1 \in 0..(cursor + 1 + Len(after)) BY <1>0, <2>1
  <2>5. /\ Composer!InsertAt(value, cursor + 1, letter) \in Composer!Texts
        /\ cursor + 1 \in 0..Len(Composer!InsertAt(value, cursor + 1, letter))
    BY <2>2, <2>3, <2>4 DEF Composer!Texts
  <2> QED BY <2>5
<1>2. ASSUME cursor > 0
      PROVE  LET new == Composer!RemoveAt(value, cursor) IN new \in Composer!Texts /\
               cursor - 1 \in 0..Len(new)
  <2> DEFINE before == SubSeq(value, 1, cursor - 1)
             after == SubSeq(value, cursor + 1, Len(value))
  <2>1. /\ before \in Seq(Letters) /\ Len(before) = cursor - 1
        /\ after \in Seq(Letters) /\ Len(after) \in Nat
    BY <1>0, <1>2
  <2>2. Composer!RemoveAt(value, cursor) = before \o after BY DEF Composer!RemoveAt
  <2> HIDE DEF before, after
  <2>3. before \o after \in Seq(Letters) /\ Len(before \o after) = cursor - 1 + Len(after)
    BY <1>0, <2>1
  <2>4. cursor - 1 \in 0..(cursor - 1 + Len(after)) BY <1>0, <1>2, <2>1
  <2>5. /\ Composer!RemoveAt(value, cursor) \in Composer!Texts
        /\ cursor - 1 \in 0..Len(Composer!RemoveAt(value, cursor))
    BY <2>2, <2>3, <2>4 DEF Composer!Texts
  <2> QED BY <2>5
<1>3. {Composer!Max({0, cursor - 1}),
        Composer!Min({Len(value), cursor + 1})} \subseteq 0..Len(value)
  BY <1>0, Extremes
<1> QED BY <1>1, <1>2, <1>3

\* Every key keeps the invariant.
LEMMA ComposerStep ==
  ASSUME Composer!ComposerAssumption, ComposerInv, [Composer!Next]_Composer!vars
  PROVE  ComposerInv'
<1>0. /\ value \in Composer!Texts /\ cursor \in 0..Len(value) /\ history \in Seq(Composer!Texts)
      /\ historyIndex \in 0..Len(history) /\ historyDraft \in Composer!Texts
      /\ leftDraft = historyDraft
      /\ selection \in Nat /\ Composer!EchoIsWhatRuns
  BY DEF ComposerInv
<1>1. /\ <<>> \in Composer!Texts /\ Len(<<>>) = 0
      /\ \A text \in Composer!Texts : Len(text) \in 0..Len(text)
  BY DEF Composer!Texts
<1>2. UNCHANGED <<live, lastKey>> => Composer!EchoIsWhatRuns' BY <1>0 DEF Composer!EchoIsWhatRuns,
        Composer!Strip
<1>3. CASE UNCHANGED Composer!vars
  BY <1>0, <1>3, <1>2 DEF Composer!vars, Composer!draft, Composer!walk, ComposerInv
<1>4. ASSUME NEW letter \in Letters, Composer!Type(letter) PROVE ComposerInv'
  <2>1. /\ Composer!Key("other") /\ value' = Composer!InsertAt(value, cursor + 1, letter)
        /\ cursor' = cursor + 1
        /\ selection' = 0 /\ UNCHANGED Composer!walk
    BY <1>4 DEF Composer!Type
  <2> QED BY <1>0, <2>1, Edits, KeyEchoes DEF ComposerInv, Composer!walk
<1>5. CASE Composer!Backspace
  <2>1. /\ Composer!Key("other") /\ cursor > 0 /\ value' = Composer!RemoveAt(value, cursor)
        /\ cursor' = cursor - 1
        /\ UNCHANGED <<Composer!walk, selection>>
    BY <1>5 DEF Composer!Backspace
  <2> QED BY <1>0, <2>1, Edits, KeyEchoes DEF ComposerInv, Composer!walk
<1>6. CASE Composer!Move
  <2>1. /\ Composer!Key("other") /\ value' = value /\ UNCHANGED <<Composer!walk, selection>>
        /\ cursor' \in {Composer!Max({0, cursor - 1}), Composer!Min({Len(value), cursor + 1})}
    BY <1>6 DEF Composer!Move
  <2> QED BY <1>0, <2>1, Edits, KeyEchoes DEF ComposerInv, Composer!walk
<1>7. CASE Composer!OtherKey
  BY <1>0, <1>7, KeyEchoes DEF Composer!OtherKey, ComposerInv, Composer!draft, Composer!walk
<1>8. CASE Composer!Clear
  <2>1. /\ Composer!Key("other") /\ value' = <<>> /\ cursor' = 0 /\ historyIndex' = Len(history)
        /\ historyDraft' = <<>> /\ leftDraft' = <<>> /\ UNCHANGED <<history, selection>>
    BY <1>8 DEF Composer!Clear, Composer!SetValue
  <2>2. Len(history) \in 0..Len(history) BY <1>0
  <2> QED BY <1>0, <1>1, <2>1, <2>2, KeyEchoes DEF ComposerInv
<1>9. CASE Composer!Tab
  <2>1. /\ Composer!Key("other") /\ value' = Composer!Completion
        /\ cursor' = Len(Composer!Completion) /\ selection' = 0
        /\ UNCHANGED Composer!walk
    BY <1>9 DEF Composer!Tab, Composer!Complete, Composer!SetValue
  <2>2. Composer!Completion \in Composer!Texts BY <1>0, CompletionIs
  <2> QED BY <1>0, <1>1, <2>1, <2>2, KeyEchoes DEF ComposerInv, Composer!walk
<1>10. CASE Composer!SelectUp
  BY <1>0, <1>10, KeyEchoes DEF Composer!SelectUp, ComposerInv, Composer!draft, Composer!walk
<1>11. CASE Composer!SelectDown
  BY <1>0, <1>11, KeyEchoes DEF Composer!SelectDown, ComposerInv, Composer!draft, Composer!walk
<1>12. CASE Composer!RecallUp
  <2>1. /\ Composer!Key("other") /\ historyIndex > 0 /\ historyIndex' = historyIndex - 1
        /\ historyDraft' = (IF historyIndex = Len(history) THEN value ELSE historyDraft)
        /\ leftDraft' = (IF historyIndex = Len(history) THEN value ELSE leftDraft)
        /\ value' = history[historyIndex] /\ cursor' = Len(history[historyIndex])
        /\ UNCHANGED <<history, selection>>
    BY <1>12 DEF Composer!RecallUp, Composer!SetValue
  <2>2. historyIndex \in 1..Len(history) /\ historyIndex - 1 \in 0..Len(history) BY <1>0, <2>1
  <2>3. history[historyIndex] \in Composer!Texts BY <1>0, <2>2
  <2> QED BY <1>0, <1>1, <2>1, <2>2, <2>3, KeyEchoes DEF ComposerInv
<1>13. CASE Composer!RecallDown
  <2> DEFINE text == IF historyIndex' = Len(history) THEN historyDraft
                     ELSE history[historyIndex' + 1]
  <2>1. /\ Composer!Key("down") /\ historyIndex < Len(history) /\ historyIndex' = historyIndex + 1
        /\ value' = text /\ cursor' = Len(text)
        /\ UNCHANGED <<history, historyDraft, leftDraft, selection>>
    BY <1>13 DEF Composer!RecallDown, Composer!SetValue
  <2>2. historyIndex' \in 0..Len(history)
        /\ (historyIndex' # Len(history) => historyIndex' + 1 \in 1..Len(history))
    BY <1>0, <2>1
  <2>3. text \in Composer!Texts BY <1>0, <2>2
  <2> HIDE DEF text
  <2> QED BY <1>0, <1>1, <2>1, <2>2, <2>3, KeyEchoes DEF ComposerInv
<1>14. CASE Composer!PressEnter
  <2>1. PICK began \in BOOLEAN : Composer!Enter(began) BY <1>14 DEF Composer!PressEnter
  <2>2. Composer!Key("enter") BY <1>14 DEF Composer!PressEnter
  <2> QED BY <2>1, <2>2, Entered, KeyEchoes DEF ComposerInv
<1>15. CASE Composer!IndexError
  BY <1>0, <1>15, <1>2 DEF Composer!IndexError, ComposerInv, Composer!draft, Composer!walk
<1>16. ASSUME NEW text \in Composer!SeqOf(Letters, MaxLength), Composer!PutLine(text)
       PROVE  ComposerInv'
  <2>1. /\ ~live' /\ value' = text /\ cursor' = Len(text) /\ UNCHANGED <<Composer!walk, selection>>
    BY <1>16 DEF Composer!PutLine, Composer!SetValue
  <2>2. text \in Composer!Texts
    <3>1. PICK n \in 0..MaxLength : text \in [1..n -> Letters] BY <1>16 DEF Composer!SeqOf
    <3> QED BY <3>1 DEF Composer!Texts, Composer!ComposerAssumption
  <2> QED BY <1>0, <1>1, <2>1, <2>2 DEF ComposerInv, Composer!walk, Composer!EchoIsWhatRuns
<1>17. CASE Composer!EnterLine
  <2>1. PICK began \in BOOLEAN : Composer!Enter(began) BY <1>17 DEF Composer!EnterLine
  <2>2. ~live' BY <1>17 DEF Composer!EnterLine
  <2> QED BY <2>1, <2>2, Entered DEF ComposerInv, Composer!EchoIsWhatRuns
<1>18. CASE Composer!BackgroundEnds
  BY <1>0, <1>18, <1>2 DEF Composer!BackgroundEnds, ComposerInv, Composer!draft, Composer!walk
<1> QED
  BY <1>3, <1>4, <1>5, <1>6, <1>7, <1>8, <1>9, <1>10, <1>11, <1>12, <1>13, <1>14, <1>15, <1>16,
    <1>17,
     <1>18
  DEF Composer!Next

\* The name is complete before it runs.
LEMMA NamesRun ==
  ASSUME Composer!ComposerAssumption, ComposerInv, Composer!Completion = <<>>,
         Composer!Strip(value) # <<>>,
         NEW i \in DOMAIN Palette, Composer!IsPrefix(value, Palette[i])
  PROVE  Composer!Strip(value) \in Composer!Range(Palette)
<1>1. value \in Composer!Texts /\ selection \in Nat BY DEF ComposerInv
<1>2. value # <<>> BY Stripped
<1>3. Palette[i] \in Composer!Range(Palette) BY DEF Composer!Range
<1>4. Composer!Matches(value) # <<>> BY <1>1, <1>2, <1>3, MatchesAre
<1>5. value \in Composer!Range(Palette) BY <1>1, <1>4, CompletionIs
<1>6. Composer!Strip(value) = value BY <1>1, <1>5, Stripped, PaletteIs DEF Word
<1> QED BY <1>5, <1>6

\* What the run checks of the prompt.
LEMMA ComposerPromise ==
  ASSUME Composer!ComposerAssumption, ComposerInv, ComposerInv', [Composer!Next]_Composer!vars
  PROVE  Composer!EchoIsWhatRuns' /\ Composer!PartialNeverRunsStep /\ Composer!DraftComesBackStep
<1>1. Composer!EchoIsWhatRuns' BY DEF ComposerInv
<1>2. Composer!PartialNeverRunsStep
  <2> SUFFICES ASSUME lastKey' # lastKey, lastKey'.ran # <<>>,
                      NEW i \in DOMAIN Palette, Composer!IsPrefix(value, Palette[i])
               PROVE  lastKey'.ran \in Composer!Range(Palette)
    BY DEF Composer!PartialNeverRunsStep, Composer!Range
  <2>1. Composer!Completion = <<>> /\ lastKey'.ran = Composer!Strip(value)
    <3>1. ASSUME NEW key, Composer!Key(key)
          PROVE  Composer!Completion = <<>> /\ lastKey'.ran = Composer!Strip(value)
      BY <3>1 DEF Composer!Key
    <3>2. CASE Composer!EnterLine BY <3>2 DEF Composer!EnterLine
    <3>3. ASSUME NEW text, Composer!PutLine(text) PROVE FALSE BY <3>3 DEF Composer!PutLine
    <3>4. CASE UNCHANGED lastKey BY <3>4
    <3> QED
      BY <3>1, <3>2, <3>3, <3>4
      DEF Composer!Next, Composer!vars, Composer!Type, Composer!Backspace, Composer!Move,
        Composer!OtherKey, Composer!Clear, Composer!Tab, Composer!SelectUp, Composer!SelectDown,
        Composer!RecallUp,
        Composer!RecallDown, Composer!PressEnter, Composer!IndexError, Composer!BackgroundEnds
  <2> QED BY <2>1, NamesRun
<1>3. Composer!DraftComesBackStep
  <2> SUFFICES ASSUME lastKey'.key = "down", historyIndex < Len(history),
                      historyIndex' = Len(history)
               PROVE  value' = leftDraft
    BY DEF Composer!DraftComesBackStep
  <2>1. historyIndex' # historyIndex BY DEF ComposerInv
  <2>2. CASE Composer!RecallDown BY <2>2 DEF Composer!RecallDown, Composer!SetValue, ComposerInv
  <2>3. ASSUME NEW key, key # "down", Composer!Key(key) PROVE FALSE BY <2>3 DEF Composer!Key
  <2>4. CASE Composer!EnterLine BY <2>4 DEF Composer!EnterLine
  <2>5. CASE UNCHANGED historyIndex BY <2>1, <2>5
  <2> QED
    BY <2>2, <2>3, <2>4, <2>5
    DEF Composer!Next, Composer!vars, Composer!walk, Composer!Type, Composer!Backspace,
      Composer!Move, Composer!OtherKey, Composer!Clear, Composer!Tab, Composer!SelectUp,
      Composer!SelectDown, Composer!RecallUp,
      Composer!PressEnter, Composer!IndexError, Composer!BackgroundEnds, Composer!PutLine
<1> QED BY <1>1, <1>2, <1>3

\* tui/composer/model.py, tui/terminal.py: what is shown as entered is what is
\* submitted; the beginning of a command is completed before it runs; and the draft
\* a walk through the history began with is there again when it ends.
THEOREM EnteredAlwaysSubmitted ==
  ASSUME Composer!ComposerAssumption
  PROVE  Composer!Spec =>
           [][Composer!EchoIsWhatRuns' /\ Composer!PartialNeverRunsStep /\
           Composer!DraftComesBackStep]_Composer!vars
<1>1. Composer!Init => ComposerInv BY ComposerInit
<1>2. ComposerInv /\ [Composer!Next]_Composer!vars => ComposerInv' BY ComposerStep
<1>3. ComposerInv /\ ComposerInv' /\ [Composer!Next]_Composer!vars =>
        Composer!EchoIsWhatRuns' /\ Composer!PartialNeverRunsStep /\ Composer!DraftComesBackStep
  BY ComposerPromise
<1> QED BY <1>1, <1>2, <1>3, PTL DEF Composer!Spec

-----------------------------------------------------------------------------
(* The command line, the configuration and the switch of agents.           *)



\* g is what has been read after each of the first n tokens.
ReadTo(tokens, n, g) ==
  g = [i \in 0..n |-> IF i = 0 THEN [flags |-> Configuration!NoFlags,
    next |-> "flag"] ELSE Configuration!Read(g[i - 1], tokens, i)]

\* There is such a function, for every n.
LEMMA ReadExists ==
  ASSUME NEW tokens, NEW n \in Nat PROVE \E g : ReadTo(tokens, n, g)
<1> DEFINE Bad == {k \in Nat : ~\E g : ReadTo(tokens, k, g)}
           start == [flags |-> Configuration!NoFlags, next |-> "flag"]
<1> SUFFICES ASSUME Bad # {} PROVE FALSE OBVIOUS
<1>1. PICK k \in Bad : \A y \in Bad : k <= y
  <2>1. Bad \subseteq Nat OBVIOUS
  <2> QED BY <2>1, Least
<1>2. k # 0
  <2> DEFINE z == [i \in 0..0 |-> start]
  <2>1. ReadTo(tokens, 0, z) BY DEF ReadTo
  <2> QED BY <2>1
<1>3. k - 1 \in Nat /\ k - 1 \notin Bad BY <1>1, <1>2
<1>4. PICK g : ReadTo(tokens, k - 1, g) BY <1>3
<1> DEFINE h == [i \in 0..k |-> IF i < k THEN g[i] ELSE Configuration!Read(g[i - 1], tokens, i)]
<1>5. ReadTo(tokens, k, h)
  <2> DEFINE r == [i \in 0..k |-> IF i = 0 THEN start ELSE Configuration!Read(h[i - 1], tokens, i)]
  <2>1. ASSUME NEW i \in 0..k PROVE h[i] = r[i]
    <3>1. CASE i = 0
      <4>1. h[i] = g[i] BY <3>1, <1>2
      <4>2. g[i] = start BY <3>1, <1>4, <1>3 DEF ReadTo
      <4> QED BY <4>1, <4>2, <3>1
    <3>2. CASE i # 0 /\ i < k
      <4>1. h[i] = g[i] /\ h[i - 1] = g[i - 1] BY <3>2, <1>3
      <4>2. i \in 0..(k - 1) BY <3>2, <1>3
      <4>3. g[i] = Configuration!Read(g[i - 1], tokens, i)
        BY <3>2, <4>2, <1>4 DEF ReadTo
      <4> QED BY <4>1, <4>3, <3>2
    <3>3. CASE i = k
      <4>1. h[i - 1] = g[i - 1] BY <3>3, <1>2
      <4> QED BY <4>1, <3>3, <1>2
    <3> QED BY <3>1, <3>2, <3>3
  <2>2. h = r BY <2>1, Zenon
  <2> QED BY <2>2 DEF ReadTo
<1> QED BY <1>5, <1>1

\* g says of the first n tokens which are read as flags.
ReachedTo(n, g) ==
  g = [i \in 1..n |->
         \/ i = 1
         \/ i > 1 /\ g[i - 1] /\ args[i - 1].kind = "flag" /\ ~Configuration!TakesNext(args, i - 1)
         \/ i > 2 /\ g[i - 2] /\ Configuration!TakesNext(args, i - 2)]

\* There is such a function, for every n.
LEMMA ReachedExists ==
  ASSUME NEW n \in Nat PROVE \E g : ReachedTo(n, g)
<1> DEFINE Bad == {k \in Nat : ~\E g : ReachedTo(k, g)}
           At(f, i) == \/ i = 1
                       \/ i > 1 /\ f[i - 1] /\ args[i - 1].kind = "flag" /\
                            ~Configuration!TakesNext(args, i - 1)
                       \/ i > 2 /\ f[i - 2] /\ Configuration!TakesNext(args, i - 2)
<1> SUFFICES ASSUME Bad # {} PROVE FALSE OBVIOUS
<1>1. PICK k \in Bad : \A y \in Bad : k <= y
  <2>1. Bad \subseteq Nat OBVIOUS
  <2> QED BY <2>1, Least
<1>2. k # 0
  <2> DEFINE z == [i \in 1..0 |-> TRUE]
  <2>1. ReachedTo(0, z) BY DEF ReachedTo
  <2> QED BY <2>1
<1>3. k - 1 \in Nat /\ k - 1 \notin Bad /\ k \in Nat BY <1>1, <1>2
<1>4. PICK g : ReachedTo(k - 1, g) BY <1>3
<1> DEFINE h == [i \in 1..k |-> IF i < k THEN g[i] ELSE At(g, i)]
<1>5. ReachedTo(k, h)
  <2> DEFINE r == [i \in 1..k |-> At(h, i)]
  <2> HIDE DEF Bad
  <2>1. \A i \in 1..k : h[i] = IF i < k THEN g[i] ELSE At(g, i) OBVIOUS
  <2>2. \A i \in 1..k - 1 : i \in 1..k /\ i < k BY <1>3
  <2>3. \A i \in 1..k - 1 : h[i] = g[i]
    <3> HIDE DEF h, At
    <3> QED BY <2>2, <2>1
  <2>4. ASSUME NEW i \in 1..k PROVE h[i] = r[i]
    <3>1. /\ i > 1 => i - 1 \in 1..k - 1
          /\ i > 2 => i - 2 \in 1..k - 1
      BY <1>3
    <3>2. r[i] = At(h, i) OBVIOUS
    <3> HIDE DEF h, r
    <3>3. At(h, i) = At(g, i) BY <2>3, <3>1
    <3>4. CASE i < k
      <4>1. i \in 1..k - 1 BY <1>3, <3>4
      <4>2. g[i] = At(g, i) BY <4>1, <1>4, Zenon DEF ReachedTo
      <4> QED BY <2>3, <3>2, <3>3, <4>1, <4>2
    <3>5. CASE i = k
      <4>0. i \in 1..k /\ ~(i < k) BY <1>3, <3>5
      <4> HIDE DEF At
      <4>1. h[i] = At(g, i) BY <2>1, <4>0
      <4> QED BY <3>2, <3>3, <4>1
    <3> QED BY <1>3, <3>4, <3>5
  <2>5. h = r BY <2>4, Zenon
  <2> QED BY <2>5 DEF ReachedTo
<1> QED BY <1>5, <1>1

\* The flags before the end of the line has been seen.
FlagsRecord == [yolo : BOOLEAN, mode : {"", "bad"} \cup Configuration!Modes, error : {FALSE}]

\* The token is a mode flag, the other flag, or asks for no prompts.
ModeFlag(i) == args[i].kind = "flag" /\ args[i].name = "approval-mode"
YoloFlag(i) == args[i].kind = "flag" /\ args[i].name = "yolo"
AsksBypass(i) ==
  /\ ModeFlag(i)
  /\ (args[i].value = "bypass" \/ (Configuration!TakesNext(args, i) /\ args[i + 1].name = "bypass"))

\* What has been read after token k, and why.
ReadSoFar(state, R, k) ==
  /\ state \in [flags : FlagsRecord, next : {"flag", "value", "rest"}]
  /\ k < Len(args) => (R[k + 1] <=> state.next = "flag")
  /\ state.next = "value" <=> (k > 0 /\ R[k] /\ Configuration!TakesNext(args, k))
  /\ state.flags.yolo => \E j \in 1..k : R[j] /\ YoloFlag(j) /\ args[j].value # "false"
  /\ state.flags.mode = "bypass" => \E j \in 1..k : R[j] /\ AsksBypass(j)
  /\ state.flags.mode = "" => \A j \in 1..k : R[j] /\ ModeFlag(j) => j = k /\ state.next = "value"

\* Whether the next token is read as a flag depends on how this one was read.
ReachedNext(R, k) ==
  R[k + 1] <=> \/ R[k] /\ args[k].kind = "flag" /\ ~Configuration!TakesNext(args, k)
               \/ k > 1 /\ R[k - 1] /\ Configuration!TakesNext(args, k - 1)

\* Reading one more token keeps that.
LEMMA OneTokenRead ==
  ASSUME NEW k \in 1..Len(args), Len(args) \in Nat, NEW R, NEW old, ReadSoFar(old, R, k - 1),
         args[k].kind = "flag" => args[k].name \in {"yolo", "approval-mode"},
         k < Len(args) => ReachedNext(R, k)
  PROVE  ReadSoFar(Configuration!Read(old, args, k), R, k)
<1> DEFINE new == Configuration!Read(old, args, k)
           token == args[k]
<1>0. /\ old \in [flags : FlagsRecord, next : {"flag", "value", "rest"}]
      /\ (k - 1) + 1 = k /\ k - 1 < Len(args) /\ k - 1 \in Nat /\ k \in Nat
      /\ R[k] <=> old.next = "flag"
      /\ old.next = "value" <=> (k - 1 > 0 /\ R[k - 1] /\ Configuration!TakesNext(args, k - 1))
  <2>1. (k - 1) + 1 = k /\ k - 1 < Len(args) /\ k - 1 \in Nat /\ k \in Nat OBVIOUS
  <2>2. k - 1 < Len(args) => (R[(k - 1) + 1] <=> old.next = "flag") BY DEF ReadSoFar
  <2>3. R[k] <=> old.next = "flag" BY <2>1, <2>2
  <2>4. /\ old \in [flags : FlagsRecord, next : {"flag", "value", "rest"}]
        /\ old.next = "value" <=> (k - 1 > 0 /\ R[k - 1] /\ Configuration!TakesNext(args, k - 1))
    BY DEF ReadSoFar
  <2> QED BY <2>1, <2>3, <2>4
<1>1. \A j : j \in 1..k <=> j = k \/ j \in 1..k - 1 BY <1>0
<1>2. Configuration!TakesNext(args, k) => ModeFlag(k) BY DEF Configuration!TakesNext, ModeFlag
<1>3. \A given : Configuration!WithMode(old.flags, given) \in FlagsRecord
                 /\ Configuration!WithMode(old.flags, given).yolo = old.flags.yolo
                 /\ Configuration!WithMode(old.flags,
                      given).mode = (IF given \in Configuration!Modes THEN given ELSE "bad")
  BY <1>0 DEF Configuration!WithMode, FlagsRecord, Configuration!Modes
<1>4. k < Len(args) =>
        (R[k + 1] <=> \/ /\ old.next = "flag" /\ token.kind = "flag"
                         /\ ~Configuration!TakesNext(args, k)
                      \/ old.next = "value")
  BY <1>0 DEF ReachedNext
<1>5. CASE old.next = "rest"
  <2>1. new = old BY <1>5 DEF Configuration!Read
  <2> HIDE DEF new
  <2> QED BY <1>0, <1>1, <1>4, <1>5, <2>1 DEF ReadSoFar, new
<1>6. CASE old.next = "value"
  <2>1. new = [flags |-> Configuration!WithMode(old.flags, token.name),
          next |-> "flag"] BY <1>6 DEF Configuration!Read
  <2>2. new.flags = Configuration!WithMode(old.flags, token.name) /\ new.next = "flag" BY <2>1
  <2>3. new \in [flags : FlagsRecord, next : {"flag", "value", "rest"}] BY <1>3, <2>1
  <2>4. new.flags.mode = "bypass" => R[k - 1] /\ AsksBypass(k - 1) /\ k - 1 \in 1..k
    <3>1. R[k - 1] /\ Configuration!TakesNext(args, k - 1) /\ k - 1 \in 1..k BY <1>0, <1>6
    <3>2. new.flags.mode = "bypass" => token.name = "bypass" BY <1>3, <2>2
    <3> QED BY <1>0, <3>1, <3>2 DEF AsksBypass, ModeFlag, Configuration!TakesNext
  <2>5. new.flags.mode # "" BY <1>3, <2>2 DEF Configuration!Modes
  <2>6. new.flags.yolo = old.flags.yolo BY <1>3, <2>2
  <2>7. ~R[k] BY <1>0, <1>6
  <2> HIDE DEF new
  <2> QED BY <1>0, <1>1, <1>4, <1>6, <2>2, <2>3, <2>4, <2>5, <2>6, <2>7 DEF ReadSoFar, new
<1>7. CASE old.next = "flag" /\ token.kind # "flag"
  <2>1. new = [old EXCEPT !.next = "rest"] BY <1>7 DEF Configuration!Read, Configuration!TakesNext
  <2>2. new.flags = old.flags /\ new.next = "rest" BY <1>0, <2>1
  <2>3. new \in [flags : FlagsRecord, next : {"flag", "value", "rest"}] BY <1>0, <2>1
  <2>4. ~ModeFlag(k) /\ ~Configuration!TakesNext(args, k) BY <1>7 DEF ModeFlag,
          Configuration!TakesNext
  <2> HIDE DEF new
  <2> QED BY <1>0, <1>1, <1>4, <1>7, <2>2, <2>3, <2>4 DEF ReadSoFar, new
<1>8. CASE old.next = "flag" /\ Configuration!TakesNext(args, k)
  <2>0. token.kind = "flag" BY <1>8 DEF Configuration!TakesNext
  <2>1. new = [old EXCEPT !.next = "value"] BY <1>8, <2>0 DEF Configuration!Read
  <2>2. new.flags = old.flags /\ new.next = "value" BY <1>0, <2>1
  <2>3. new \in [flags : FlagsRecord, next : {"flag", "value", "rest"}] BY <1>0, <2>1
  <2>4. R[k] /\ k > 0 BY <1>0, <1>8
  <2>5. k < Len(args) => ~R[k + 1] BY <1>4, <1>8
  <2>6. ASSUME NEW j \in 1..k, new.flags.mode = "", R[j], ModeFlag(j) PROVE j = k
    <3>1. j \in 1..k - 1 => j = k - 1 /\ old.next = "value" BY <2>2, <2>6 DEF ReadSoFar
    <3> QED BY <1>1, <1>8, <3>1
  <2>7. /\ new.flags.yolo => \E j \in 1..k : R[j] /\ YoloFlag(j) /\ args[j].value # "false"
        /\ new.flags.mode = "bypass" => \E j \in 1..k : R[j] /\ AsksBypass(j)
    <3> HIDE DEF new
    <3> QED BY <1>1, <2>2 DEF ReadSoFar
  <2> HIDE DEF new
  <2>8. ReadSoFar(new, R, k) BY <1>8, <2>2, <2>3, <2>4, <2>5, <2>6, <2>7 DEF ReadSoFar
  <2> QED BY <2>8 DEF new
<1>9. CASE old.next = "flag" /\ token.kind = "flag" /\ ~Configuration!TakesNext(args, k)
  <2>1. new = [old EXCEPT !.flags = IF token.name = "yolo"
                                    THEN [old.flags EXCEPT !.yolo = token.value # "false"]
                                    ELSE Configuration!WithMode(old.flags, token.value)]
    BY <1>9 DEF Configuration!Read
  <2>2. /\ new.next = "flag"
        /\ new.flags = IF token.name = "yolo" THEN [old.flags EXCEPT !.yolo = token.value # "false"]
                       ELSE Configuration!WithMode(old.flags, token.value)
    BY <1>0, <1>9, <2>1
  <2>3. R[k] BY <1>0, <1>9
  <2>4. CASE token.name = "yolo"
    <3>1. /\ new.flags \in FlagsRecord /\ new.flags.yolo = (token.value # "false")
          /\ new.flags.mode = old.flags.mode
      BY <1>0, <2>2, <2>4 DEF FlagsRecord
    <3>2. new \in [flags : FlagsRecord, next : {"flag", "value", "rest"}] BY <1>0, <2>1, <2>2, <3>1
    <3>3. YoloFlag(k) /\ ~ModeFlag(k) BY <1>9, <2>4 DEF YoloFlag, ModeFlag
    <3> HIDE DEF new
    <3> QED BY <1>0, <1>1, <1>4, <1>9, <2>2, <2>3, <3>1, <3>2, <3>3 DEF ReadSoFar, new
  <2>5. CASE token.name # "yolo"
    <3>1. /\ new.flags \in FlagsRecord /\ new.flags.yolo = old.flags.yolo
          /\ new.flags.mode = IF token.value \in Configuration!Modes THEN token.value ELSE "bad"
      BY <1>3, <2>2, <2>5
    <3>2. new \in [flags : FlagsRecord, next : {"flag", "value", "rest"}] BY <1>0, <2>1, <2>2, <3>1
    <3>3. ModeFlag(k) BY <1>9, <2>5 DEF ModeFlag
    <3>4. new.flags.mode = "bypass" => AsksBypass(k) BY <3>1, <3>3 DEF AsksBypass
    <3>5. new.flags.mode # "" BY <3>1 DEF Configuration!Modes
    <3> HIDE DEF new
    <3> QED BY <1>0, <1>1, <1>4, <1>9, <2>2, <2>3, <3>1, <3>2, <3>4, <3>5 DEF ReadSoFar, new
  <2> QED BY <2>4, <2>5
<1> QED BY <1>0, <1>5, <1>6, <1>7, <1>8, <1>9

\* What the flags say somebody has said, and an explicit mode is not lost.
FlagsAreGiven(flags) ==
  /\ flags.yolo => \E i \in Configuration!Given("yolo") : args[i].value # "false"
  /\ flags.mode = "bypass" =>
       \E i \in Configuration!Given("approval-mode") :
         \/ args[i].value = "bypass"
         \/ (Configuration!TakesNext(args, i) /\ args[i + 1].name = "bypass")
  /\ flags.mode = "" => Configuration!Given("approval-mode") = {}

\* The flags of a whole command line are those somebody gave.
LEMMA ParseIs ==
  ASSUME Configuration!ConfigurationAssumption, args \in CommandLines,
         ~Configuration!parse(args).error
  PROVE  FlagsAreGiven(Configuration!parse(args))
<1> DEFINE n == Len(args)
           K == CHOOSE g : ReadTo(args, n, g)
           R == CHOOSE g : ReachedTo(n, g)
<1>1. /\ n \in Nat /\ DOMAIN args = 1..n
      /\ \A i \in 1..n : args[i].kind = "flag" => args[i].name \in {"yolo", "approval-mode"}
  <2>1. args \in Seq(Configuration!Range(args)) BY DEF Configuration!ConfigurationAssumption
  <2> QED BY <2>1 DEF Configuration!ConfigurationAssumption
<1>2. ReadTo(args, n, K) BY ReadExists, <1>1
<1>3. ReachedTo(n, R) BY ReachedExists, <1>1
<1>4. Configuration!Reached = R BY <1>1 DEF Configuration!Reached, ReachedTo
<1>5. Configuration!parse(args) = [K[n].flags EXCEPT !.error = K[n].next = "value"]
  BY DEF Configuration!parse, ReadTo
<1> HIDE DEF K, R, n
<1>6. \A k \in 0..n : K[k] = IF k = 0 THEN [flags |-> Configuration!NoFlags,
        next |-> "flag"] ELSE Configuration!Read(K[k - 1], args, k)
  BY <1>2, Zenon DEF ReadTo
<1>7. \A k \in 1..n :
        R[k] <=> \/ k = 1
                 \/ k > 1 /\ R[k - 1] /\ args[k - 1].kind = "flag" /\
                      ~Configuration!TakesNext(args, k - 1)
                 \/ k > 2 /\ R[k - 2] /\ Configuration!TakesNext(args, k - 2)
  BY <1>3, Zenon DEF ReachedTo
<1> DEFINE Bad == {k \in 0..n : ~ReadSoFar(K[k], R, k)}
<1>8. Bad = {}
  <2> SUFFICES ASSUME Bad # {} PROVE FALSE OBVIOUS
  <2>1. PICK k \in Bad : \A y \in Bad : k <= y
    <3>1. Bad \subseteq Nat BY <1>1
    <3> QED BY <3>1, Least
  <2>2. k \in 0..n /\ ~ReadSoFar(K[k], R, k) OBVIOUS
  <2>3. k # 0
    <3> SUFFICES ASSUME k = 0 PROVE FALSE OBVIOUS
    <3>1. K[0] = [flags |-> Configuration!NoFlags, next |-> "flag"] BY <1>1, <1>6
    <3> DEFINE start == [flags |-> Configuration!NoFlags, next |-> "flag"]
    <3>3. /\ start \in [flags : FlagsRecord, next : {"flag", "value", "rest"}]
          /\ start.next = "flag" /\ ~start.flags.yolo /\ start.flags.mode = ""
      BY DEF Configuration!NoFlags, FlagsRecord
    <3> HIDE DEF start
    <3>2. 0 < n => R[1] BY <1>1, <1>7
    <3>5. 0 + 1 = 1 /\ ~(0 > 0) /\ \A j \in 1..0 : FALSE OBVIOUS
    <3>6. ReadSoFar(start, R, 0) BY <3>2, <3>3, <3>5 DEF ReadSoFar, n
    <3> QED BY <2>2, <3>1, <3>6 DEF start
  <2>4. k \in 1..n /\ k - 1 \in 0..n
    <3> HIDE DEF Bad
    <3> QED BY <1>1, <2>2, <2>3
  <2>5. ReadSoFar(K[k - 1], R, k - 1)
    <3>1. k - 1 \notin Bad
      <4> HIDE DEF Bad
      <4> QED BY <1>1, <2>1, <2>4
    <3> QED BY <2>4, <3>1
  <2>6. K[k] = Configuration!Read(K[k - 1], args, k)
    <3> HIDE DEF Bad
    <3> QED BY <1>6, <2>2, <2>3
  <2>7. k < n => ReachedNext(R, k)
    <3> HIDE DEF Bad
    <3> SUFFICES ASSUME k < n PROVE ReachedNext(R, k) OBVIOUS
    <3>1. k + 1 \in 1..n /\ k + 1 # 1 /\ k + 1 > 1 /\ (k + 1) - 1 = k /\ (k + 1) - 2 = k - 1
          /\ (k + 1 > 2 <=> k > 1)
      BY <1>1, <2>4
    <3>2. R[k + 1] <=> \/ k + 1 = 1
                       \/ k + 1 > 1 /\ R[(k + 1) - 1] /\ args[(k + 1) - 1].kind = "flag"
                          /\ ~Configuration!TakesNext(args, (k + 1) - 1)
                       \/ k + 1 > 2 /\ R[(k + 1) - 2] /\ Configuration!TakesNext(args, (k + 1) - 2)
      BY <1>7, <3>1
    <3> QED BY <3>1, <3>2 DEF ReachedNext
  <2>8. ReadSoFar(Configuration!Read(K[k - 1], args, k), R, k)
    <3> HIDE DEF Bad
    <3> QED BY <1>1, <2>4, <2>5, <2>7, OneTokenRead DEF n
  <2> QED BY <2>2, <2>6, <2>8
<1>9. ReadSoFar(K[n], R, n)
  <2>1. n \in 0..n BY <1>1
  <2> QED BY <1>8, <2>1
<1> DEFINE flags == Configuration!parse(args)
<1>10. /\ K[n] \in [flags : FlagsRecord, next : {"flag", "value", "rest"}]
       /\ K[n].flags \in FlagsRecord
  BY <1>9 DEF ReadSoFar
<1>11. /\ flags.yolo = K[n].flags.yolo /\ flags.mode = K[n].flags.mode
       /\ flags.error = (K[n].next = "value")
  BY <1>5, <1>10 DEF FlagsRecord
<1>12. K[n].next # "value" BY <1>11
<1>13. /\ \A i : i \in Configuration!Given("yolo") <=> i \in 1..n /\ R[i] /\ YoloFlag(i)
       /\ \A i : i \in Configuration!Given("approval-mode") <=> i \in 1..n /\ R[i] /\ ModeFlag(i)
  BY <1>1, <1>4 DEF Configuration!Given, YoloFlag, ModeFlag
<1> HIDE DEF flags
<1> QED BY <1>9, <1>11, <1>12, <1>13 DEF FlagsAreGiven, ReadSoFar, AsksBypass, flags

\* The phases, and that only a running session switches agents.
ConfigurationTypes ==
  /\ args \in CommandLines
  /\ phase \in {"start", "loaded", "failed", "running"}
  /\ \/ using = Configuration!NotUsing
     \/ \E p : using \in [profile : {p}, step : {"replace", "mode", "rest"}]
  /\ phase # "running" => using = Configuration!NotUsing

\* What the program runs with was read from its command line, and passed.
Loaded ==
  phase \in {"loaded", "running"} =>
    /\ ~Configuration!LoadFails(Configuration!parse(args), env, settings)
    /\ config = Configuration!load_config(Configuration!parse(args), env, settings)

\* The model is one of the resolved providers.
Opened ==
  phase = "running" =>
    /\ providers = Configuration!Providers(config)
    /\ \E p : model = [provider |-> p, key |-> providers[p]]

\* The steps of a switch that have been made belong to its profile.
Switching ==
  /\ Configuration!SwitchIsWhole
  /\ using.step = "mode" => conversation = using.profile
  /\ using.step = "rest" => conversation = using.profile /\ mode = profiles[using.profile].mode

\* The inductive invariant of the configuration.
ConfigurationInv == ConfigurationTypes /\ Loaded /\ Opened /\ Switching

\* At the start nothing is loaded.
LEMMA ConfigurationStarts ==
  ASSUME Configuration!Init PROVE ConfigurationInv
<1>1. using = Configuration!NotUsing /\ using.step = "none" /\
        phase = "start" BY DEF Configuration!Init, Configuration!NotUsing
<1>2. args \in CommandLines BY DEF Configuration!Init
<1> QED BY <1>1, <1>2 DEF ConfigurationInv, ConfigurationTypes, Loaded, Opened, Switching,
      Configuration!SwitchIsWhole

\* Every step keeps the invariant.
LEMMA ConfigurationStep ==
  ASSUME ConfigurationInv, [Configuration!Next]_Configuration!vars PROVE ConfigurationInv'
<1> USE DEF ConfigurationInv, ConfigurationTypes
<1>0. Configuration!NotUsing.step = "none" BY DEF Configuration!NotUsing
<1>1. CASE Configuration!Load
  <2>1. /\ phase = "start" /\ phase' \in {"loaded", "failed"}
        /\ phase' = "loaded" =>
             /\ ~Configuration!LoadFails(Configuration!parse(args), env, settings)
                                /\ config' = Configuration!load_config(Configuration!parse(args),
                                     env, settings)
        /\ UNCHANGED <<args, env, settings, using>>
    BY <1>1 DEF Configuration!Load
  <2>2. Loaded' BY <2>1 DEF Loaded, Configuration!LoadFails, Configuration!ResolvedMode,
          Configuration!Credential, Configuration!load_config
  <2> QED BY <2>1, <2>2, <1>0 DEF Opened, Switching, Configuration!SwitchIsWhole
<1>2. CASE Configuration!NewSession
  <2>0. /\ phase = "loaded"
        /\ UNCHANGED <<args, env, settings, config, using>>
    BY <1>2 DEF Configuration!NewSession
  <2>1. Loaded' BY <2>0, <1>2 DEF Loaded, Configuration!NewSession
  <2>2. CASE phase' = "failed" BY <2>0, <2>1, <2>2, <1>0 DEF Opened, Switching,
               Configuration!SwitchIsWhole
  <2>3. CASE phase' = "running"
    <3>1. /\ providers' = Configuration!Providers(config) /\ current' = config.agent
          /\ conversation' = config.agent
          /\ mode' = profiles'[config.agent].mode
          /\ allowed' = Configuration!Allowed(profiles'[config.agent].tools)
          /\ model' = [provider |-> profiles'[config.agent].provider,
                       key |-> providers'[profiles'[config.agent].provider]]
      BY <1>2, <2>3 DEF Configuration!NewSession
    <3>2. Opened' BY <3>1, <2>0 DEF Opened, Configuration!Providers
    <3>3. Configuration!SwitchIsWhole' BY <3>1, Zenon DEF Configuration!SwitchIsWhole,
            Configuration!new_model, Configuration!Allowed
    <3> QED BY <2>0, <2>1, <2>3, <3>2, <3>3, <1>0 DEF Switching
  <2> QED BY <2>2, <2>3, <1>2 DEF Configuration!NewSession
<1>3. ASSUME NEW n \in Configuration!Reserved \cup DOMAIN settings.agents,
                 Configuration!UseStarts(n)
      PROVE  ConfigurationInv'
  <2>1. /\ phase = "running" /\ using = Configuration!NotUsing
        /\ using' = [profile |-> n, step |-> "replace"]
        /\ UNCHANGED <<phase, args, env, settings, config, profiles, providers>>
        /\ UNCHANGED <<conversation, mode, model, allowed, current, turn, chosen>>
    BY <1>3 DEF Configuration!UseStarts, Configuration!Idle, Configuration!started,
      Configuration!agent
  <2> QED BY <2>1, <1>0 DEF Loaded, Opened, Switching, Configuration!SwitchIsWhole,
        Configuration!new_model
<1>4. CASE Configuration!UseReplaces
  <2>1. /\ using.step = "replace" /\ phase = "running"
        /\ UNCHANGED <<phase, args, env, settings, config, profiles, providers>>
        /\ UNCHANGED <<mode, model, allowed, current, turn, chosen>>
        /\ \/ conversation' = using.profile /\ using' = [using EXCEPT !.step = "mode"]
           \/ conversation' = conversation /\ using' = Configuration!NotUsing
    BY <1>4, <1>0 DEF Configuration!UseReplaces, Configuration!started
  <2>2. using' = Configuration!NotUsing \/ using' = [profile |-> using.profile, step |-> "mode"]
    <3>1. using # Configuration!NotUsing BY <2>1, <1>0
    <3>2. PICK p : using \in [profile : {p}, step : {"replace", "mode", "rest"}] BY <3>1
    <3>3. [using EXCEPT !.step = "mode"] = [profile |-> using.profile, step |-> "mode"] BY <3>2
    <3> QED BY <2>1, <3>3
  <2>3. ConfigurationTypes'
    <3>1. [profile |-> using.profile, step |-> "mode"]
             \in [profile : {using.profile}, step : {"replace", "mode", "rest"}]
      OBVIOUS
    <3> QED BY <2>2, <2>1, <3>1
  <2>4. ConfigurationTypes' /\ Loaded' /\ Opened' BY <2>1, <2>3 DEF Loaded, Opened
  <2>5. CASE using' = Configuration!NotUsing /\ conversation' = conversation
    BY <2>1, <2>4, <2>5, <1>0 DEF Switching, Configuration!SwitchIsWhole, Configuration!new_model
  <2>6. CASE conversation' = using.profile /\ using' = [profile |-> using.profile, step |-> "mode"]
    BY <2>1, <2>4, <2>6 DEF Switching, Configuration!SwitchIsWhole
  <2>7. \/ using' = Configuration!NotUsing /\ conversation' = conversation
        \/ conversation' = using.profile /\ using' = [profile |-> using.profile, step |-> "mode"]
    BY <2>1, <2>2, <1>0
  <2> QED BY <2>5, <2>6, <2>7
<1>5. CASE Configuration!UseSetsMode
  <2>1. /\ using.step = "mode" /\ phase = "running"
        /\ UNCHANGED <<phase, args, env, settings, config, profiles, providers>>
        /\ UNCHANGED <<conversation, model, allowed, current, turn>>
        /\ mode' = profiles[using.profile].mode /\ using' = [using EXCEPT !.step = "rest"]
    BY <1>5, <1>0 DEF Configuration!UseSetsMode, Configuration!started
  <2>2. using' = [profile |-> using.profile, step |-> "rest"]
    <3>1. using # Configuration!NotUsing BY <2>1, <1>0
    <3>2. PICK p : using \in [profile : {p}, step : {"replace", "mode", "rest"}] BY <3>1
    <3>3. [using EXCEPT !.step = "rest"] = [profile |-> using.profile, step |-> "rest"] BY <3>2
    <3> QED BY <2>1, <3>3
  <2>3. [profile |-> using.profile, step |-> "rest"]
          \in [profile : {using.profile}, step : {"replace", "mode", "rest"}]
    OBVIOUS
  <2>4. ConfigurationTypes' BY <2>1, <2>2, <2>3
  <2>5. Loaded' /\ Opened' BY <2>1 DEF Loaded, Opened
  <2>6. conversation = using.profile BY <2>1 DEF Switching
  <2>7. Switching' BY <2>1, <2>2, <2>6 DEF Switching, Configuration!SwitchIsWhole
  <2> QED BY <2>4, <2>5, <2>7
<1>6. CASE Configuration!UseEnds
  <2>1. /\ using.step = "rest" /\ phase = "running"
        /\ UNCHANGED <<phase, args, env, settings, config, profiles, providers>>
        /\ UNCHANGED <<conversation, mode, turn, chosen>>
        /\ model' = Configuration!new_model(using.profile) /\ using' = Configuration!NotUsing
        /\ allowed' = Configuration!Allowed(profiles[using.profile].tools)
        /\ current' = using.profile
    BY <1>6, <1>0 DEF Configuration!UseEnds, Configuration!started
  <2>2. Opened' BY <2>1 DEF Opened, Configuration!new_model
  <2>3. Switching' BY <2>1, <1>0 DEF Switching, Configuration!SwitchIsWhole, Configuration!new_model
  <2> QED BY <2>1, <2>2, <2>3 DEF Loaded
<1>7. CASE Configuration!SetPermissionMode
  <2>1. /\ using = Configuration!NotUsing /\ chosen' = TRUE
        /\ UNCHANGED <<phase, args, env, settings, config, profiles, providers>>
        /\ UNCHANGED <<conversation, model, allowed, current, turn, using>>
    BY <1>7 DEF Configuration!SetPermissionMode, Configuration!Idle, Configuration!started
  <2> QED BY <2>1, <1>0 DEF Loaded, Opened, Switching, Configuration!SwitchIsWhole,
        Configuration!new_model
<1>8. CASE \/ Configuration!TakeTurn \/ Configuration!EndTurn \/ Configuration!Failed
           \/ UNCHANGED Configuration!vars
  <2>1. /\ UNCHANGED <<phase, args, env, settings, config, profiles, providers>>
        /\ UNCHANGED <<conversation, mode, model, allowed, current, using, chosen>>
    BY <1>8 DEF Configuration!TakeTurn, Configuration!EndTurn, Configuration!Failed,
      Configuration!vars, Configuration!started, Configuration!agent
  <2> QED BY <2>1 DEF Loaded, Opened, Switching, Configuration!SwitchIsWhole,
        Configuration!new_model
<1> QED BY <1>1, <1>2, <1>3, <1>4, <1>5, <1>6, <1>7, <1>8 DEF Configuration!Next

\* The mode and the credential of a configuration that was loaded.
LEMMA LoadIs ==
  ASSUME NEW flags, NEW e, NEW s
  PROVE  /\ Configuration!load_config(flags, e, s).mode = Configuration!ResolvedMode(flags, e, s)
         /\ Configuration!load_config(flags, e, s).key = Configuration!Credential(s, e)
BY DEF Configuration!load_config

\* What the run checks of a state.
LEMMA SessionIs ==
  ASSUME Configuration!ConfigurationAssumption, ConfigurationInv
  PROVE  /\ Configuration!BypassIsAskedFor /\ Configuration!SelectedCredentialIsResolved
         /\ Configuration!SwitchIsWhole
<1> USE DEF ConfigurationInv
<1>1. Configuration!BypassIsAskedFor
  <2> SUFFICES ASSUME phase \in {"loaded", "running"}, config.mode = "bypass"
               PROVE  Configuration!BypassIsAskedFor
    BY DEF Configuration!BypassIsAskedFor
  <2> DEFINE flags == Configuration!parse(args)
  <2>0. /\ config = Configuration!load_config(flags, env, settings)
        /\ ~Configuration!LoadFails(flags, env, settings) BY DEF Loaded
  <2>1. ~flags.error /\ Configuration!ResolvedMode(flags, env, settings) = "bypass"
    <3> HIDE DEF flags
    <3>1. config.mode = Configuration!ResolvedMode(flags, env, settings) BY <2>0, LoadIs
    <3> QED BY <3>1, <2>0 DEF Configuration!LoadFails
  <2>2. FlagsAreGiven(flags) BY <2>1, ParseIs DEF ConfigurationTypes
  <2> HIDE DEF flags
  <2>3. \/ flags.yolo
        \/ flags.mode = "" /\ env.yolo
        \/ flags.mode = "bypass"
        \/ flags.mode = "" /\ settings.mode = "bypass"
    BY <2>1 DEF Configuration!ResolvedMode, Configuration!firstNonEmpty
  <2> QED BY <2>2, <2>3 DEF FlagsAreGiven, Configuration!BypassIsAskedFor
<1>2. Configuration!SelectedCredentialIsResolved
  <2> SUFFICES ASSUME phase = "running", model.provider = Selected
               PROVE  model.key \notin {"", Configuration!Placeholder}
    BY DEF Configuration!SelectedCredentialIsResolved
  <2>1. /\ config.key = Configuration!Credential(settings, env)
        /\ Configuration!Credential(settings, env) # ""
    BY LoadIs DEF Loaded, Configuration!LoadFails
  <2>2. config.key \notin {"", Configuration!Placeholder} BY <2>1 DEF Configuration!Credential,
          Configuration!Placeholder
  <2>3. model.key = Configuration!Providers(config)[Selected] BY DEF Opened
  <2>4. Configuration!Providers(config)[Selected] = config.key BY DEF Configuration!Providers
  <2> QED BY <2>2, <2>3, <2>4
<1> QED BY <1>1, <1>2 DEF Switching

\* What it checks of a step.
LEMMA ModeFollows ==
  ASSUME ConfigurationInv, [Configuration!Next]_Configuration!vars
  PROVE  Configuration!ModeFollowsConversationStep
<1> SUFFICES ASSUME using # Configuration!NotUsing, mode' # mode PROVE conversation = using.profile
  BY DEF Configuration!ModeFollowsConversationStep
<1>1. phase = "running" BY DEF ConfigurationInv, ConfigurationTypes
<1>2. ~Configuration!Load /\ ~Configuration!NewSession BY <1>1 DEF Configuration!Load,
        Configuration!NewSession
<1>3. \A n : ~Configuration!UseStarts(n) BY DEF Configuration!UseStarts, Configuration!Idle
<1>4. ~Configuration!UseReplaces /\ ~Configuration!UseEnds BY DEF Configuration!UseReplaces,
        Configuration!UseEnds
<1>5. ~Configuration!SetPermissionMode BY DEF Configuration!SetPermissionMode, Configuration!Idle
<1>6. ~(Configuration!TakeTurn \/ Configuration!EndTurn \/ Configuration!Failed \/
        UNCHANGED Configuration!vars)
  BY DEF Configuration!TakeTurn, Configuration!EndTurn, Configuration!Failed, Configuration!vars,
    Configuration!agent
<1>7. Configuration!UseSetsMode BY <1>2, <1>3, <1>4, <1>5, <1>6 DEF Configuration!Next
<1> QED BY <1>7 DEF Configuration!UseSetsMode, ConfigurationInv, Switching

\* All of it together.
AsConfiguredStep ==
  /\ Configuration!BypassIsAskedFor' /\ Configuration!SelectedCredentialIsResolved'
  /\ Configuration!SwitchIsWhole'
  /\ Configuration!ModeFollowsConversationStep

\* cli.py, app/config.py, app/agents.py: prompts are off only when somebody asked
\* for that; a model of the selected provider has the resolved credential; between
\* two switches prompt, model, tools and name belong to one profile; and the mode
\* of a profile is never in force over the conversation of another.
THEOREM SessionAlwaysAsConfigured ==
  ASSUME Configuration!ConfigurationAssumption
  PROVE  Configuration!Spec => [][AsConfiguredStep]_Configuration!vars
<1>1. Configuration!Init => ConfigurationInv BY ConfigurationStarts
<1>2. ConfigurationInv /\ [Configuration!Next]_Configuration!vars =>
        ConfigurationInv' BY ConfigurationStep
<1>3. ConfigurationInv => Configuration!BypassIsAskedFor /\
        Configuration!SelectedCredentialIsResolved /\ Configuration!SwitchIsWhole BY SessionIs
<1>4. (ConfigurationInv => Configuration!BypassIsAskedFor /\
        Configuration!SelectedCredentialIsResolved /\ Configuration!SwitchIsWhole)'
  BY <1>3, PTL
<1>5. ConfigurationInv /\ ConfigurationInv' /\ [Configuration!Next]_Configuration!vars =>
        [AsConfiguredStep]_Configuration!vars
  BY <1>4, ModeFollows DEF AsConfiguredStep
<1> QED BY <1>1, <1>2, <1>5, PTL DEF Configuration!Spec
=============================================================================
