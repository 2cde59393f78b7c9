---------------------------- MODULE Configuration ----------------------------
(***************************************************************************)
(* From the command line to a running agent, and the switch of agents      *)
(* afterwards: the flags (cli.py), the configuration resolved from flags,  *)
(* environment and settings (app/config.py), the agent profiles and the    *)
(* model the session starts with (app/session.py, app/agents.py), and      *)
(* AgentController.use, which replaces conversation, mode, model and tools *)
(* one after another.                                                      *)
(***************************************************************************)
EXTENDS Integers, Sequences, FiniteSets, SequencesExt

CONSTANTS
  CommandLines,   \* the command lines that may be given: sequences of tokens
  SettingsFiles,  \* the contents settings.json may have
  Environments,   \* the environments
  Selected,       \* the provider the settings select
  Default,        \* value of the flags that were not given
  SaveFails       \* whether a write to the log may fail

Modes == {"ask", "accept-edits", "plan", "bypass"}
Reserved == {"build", "plan"}
All == "all"

ConfigurationAssumption ==
  /\ SaveFails \in BOOLEAN
  /\ \A line \in CommandLines :
       /\ line \in Seq(Range(line))
       /\ \A i \in DOMAIN line : line[i].kind = "flag" => line[i].name \in {"yolo", "approval-mode"}
  /\ \A s \in SettingsFiles : DOMAIN s.agents \subseteq STRING

VARIABLES
  phase,         \* "start", "loaded", "failed", "running"
  args, env, settings,  \* what the program was started with
  config,        \* the Config load_config returned
  profiles, providers,  \* what the session builds from it
  conversation,  \* the profile whose prompt opens the conversation
  mode, model, allowed, current,  \* policy mode, routed model, tool filter, controller
  turn,          \* whether a turn holds the lock of the session
  using,         \* the profile use() is switching to, and how far it is
  chosen         \* whether the mode was set by hand since the last switch

started == <<args, env, settings, config, profiles, providers>>
agent == <<conversation, mode, model, allowed, current>>
vars == <<phase, started, agent, turn, using, chosen>>

-----------------------------------------------------------------------------
(* The flags.  A token is a word, "--", or a flag with or without a value. *)

Flag(name, value) == [kind |-> "flag", name |-> name, value |-> value]
Word(text) == [kind |-> "word", name |-> text, value |-> Default]

(* A mode without a value takes the token after it, whatever that is; the  *)
(* flags end at "--", at a word, or past the last token.                   *)
TakesNext(tokens, i) ==
  tokens[i].kind = "flag" /\ tokens[i].name = "approval-mode" /\ tokens[i].value = Default

NoFlags == [yolo |-> FALSE, mode |-> "", error |-> FALSE]

WithMode(flags, given) == [flags EXCEPT !.mode = IF given \in Modes THEN given ELSE "bad"]

(* What the token makes of what was read before; a later flag overrides.   *)
Read(before, tokens, i) ==
  CASE before.next = "rest" -> before
    [] before.next = "value" ->
         [flags |-> WithMode(before.flags, tokens[i].name), next |-> "flag"]
    [] before.next = "flag" /\ tokens[i].kind # "flag" -> [before EXCEPT !.next = "rest"]
    [] before.next = "flag" /\ TakesNext(tokens, i) -> [before EXCEPT !.next = "value"]
    [] OTHER ->
         [before EXCEPT !.flags =
            IF tokens[i].name = "yolo" THEN [@ EXCEPT !.yolo = tokens[i].value # "false"]
            ELSE WithMode(@, tokens[i].value)]

parse(tokens) ==
  LET after[i \in 0..Len(tokens)] ==
        IF i = 0 THEN [flags |-> NoFlags, next |-> "flag"] ELSE Read(after[i - 1], tokens, i)
      end == after[Len(tokens)]
  IN  [end.flags EXCEPT !.error = end.next = "value"]

-----------------------------------------------------------------------------
(* load_config.                                                            *)

firstNonEmpty(a, b) == IF a # "" THEN a ELSE b

Placeholder == "sk-..."

(* The credential of the selected provider: the settings, or the           *)
(* environment when the settings leave it unset; "" when there is none.    *)
Credential(s, e) ==
  LET key == s.providers[Selected]
  IN  IF key \in {"", Placeholder} THEN (IF Selected \in e.keys THEN "environment" ELSE "") ELSE key

(* Mutant: the YOLO variable beats an explicit mode.                       *)
ResolvedModeYoloWins(flags, e, s) ==
  IF flags.yolo \/ e.yolo THEN "bypass" ELSE firstNonEmpty(flags.mode, firstNonEmpty(s.mode, "ask"))

ResolvedMode(flags, e, s) ==
  IF flags.yolo \/ (flags.mode = "" /\ e.yolo) THEN "bypass"
  ELSE firstNonEmpty(flags.mode, firstNonEmpty(s.mode, "ask"))

LoadFails(flags, e, s) ==
  \/ flags.error
  \/ flags.yolo /\ flags.mode # ""
  \/ ResolvedMode(flags, e, s) \notin Modes
  \/ Selected \notin DOMAIN s.providers
  \/ Credential(s, e) = ""

load_config(flags, e, s) ==
  [mode |-> ResolvedMode(flags, e, s), key |-> Credential(s, e), providers |-> s.providers,
   agents |-> s.agents, agent |-> firstNonEmpty(s.agent, "build")]

-----------------------------------------------------------------------------
(* The session: providers, profiles, and the first model.                  *)

Profile(provider, m, tools) == [provider |-> provider, mode |-> m, tools |-> tools]

(* The entry of the selected provider is the resolved one; an empty map    *)
(* has at least that.                                                      *)
(* Mutant: the providers are taken as the settings have them.              *)
ProvidersRaw(c) == c.providers

Providers(c) == [p \in DOMAIN c.providers \cup {Selected} |->
                   IF p = Selected THEN c.key ELSE c.providers[p]]

(* Mutant: the permission mode of an agent is not checked.                 *)
AgentsMayHaveAnyMode(c) ==
  \A n \in DOMAIN c.agents :
    /\ n \notin Reserved \cup {""}
    /\ firstNonEmpty(c.agents[n].provider, Selected) \in DOMAIN Providers(c)

AgentsAreValid(c) ==
  \A n \in DOMAIN c.agents :
    /\ n \notin Reserved \cup {""}
    /\ firstNonEmpty(c.agents[n].provider, Selected) \in DOMAIN Providers(c)
    /\ firstNonEmpty(c.agents[n].mode, c.mode) \in Modes

buildAgentProfiles(c) ==
  [n \in Reserved \cup DOMAIN c.agents |->
     CASE n = "build" -> Profile(Selected, c.mode, {})
       [] n = "plan" -> Profile(Selected, "plan", {})
       [] OTHER -> Profile(firstNonEmpty(c.agents[n].provider, Selected),
                           firstNonEmpty(c.agents[n].mode, c.mode), c.agents[n].tools)]

(* An empty list lifts the restriction.                                    *)
Allowed(tools) == IF tools = {} THEN All ELSE tools

new_model(p) == [provider |-> profiles[p].provider, key |-> providers[profiles[p].provider]]

NotUsing == [profile |-> "", step |-> "none"]

Init ==
  /\ phase = "start"
  /\ args \in CommandLines /\ env \in Environments /\ settings \in SettingsFiles
  /\ config = {} /\ profiles = {} /\ providers = {}
  /\ conversation = "" /\ mode = "" /\ model = {} /\ allowed = All /\ current = ""
  /\ turn = FALSE /\ using = NotUsing /\ chosen = FALSE

Load ==
  /\ phase = "start"
  /\ LET flags == parse(args)
     IN  IF LoadFails(flags, env, settings)
         THEN phase' = "failed" /\ UNCHANGED config
         ELSE phase' = "loaded" /\ config' = load_config(flags, env, settings)
  /\ UNCHANGED <<args, env, settings, profiles, providers, agent, turn, using, chosen>>

NewSession ==
  /\ phase = "loaded"
  /\ IF ~AgentsAreValid(config) \/ config.agent \notin Reserved \cup DOMAIN config.agents
     THEN phase' = "failed" /\ UNCHANGED <<profiles, providers, agent>>
     ELSE /\ phase' = "running"
          /\ profiles' = buildAgentProfiles(config)
          /\ providers' = Providers(config)
          /\ current' = config.agent /\ conversation' = config.agent
          /\ mode' = profiles'[config.agent].mode
          /\ allowed' = Allowed(profiles'[config.agent].tools)
          /\ model' = [provider |-> profiles'[config.agent].provider,
                       key |-> providers'[profiles'[config.agent].provider]]
  /\ UNCHANGED <<args, env, settings, config, turn, using, chosen>>

-----------------------------------------------------------------------------
(* AgentController.use.                                                    *)

Idle == phase = "running" /\ using = NotUsing

(* Mutant: the controller takes the name before the switch is made.        *)
UseStartsNamed(n) ==
  /\ Idle /\ n \in DOMAIN profiles
  /\ using' = [profile |-> n, step |-> "replace"]
  /\ current' = n
  /\ UNCHANGED <<phase, started, conversation, mode, model, allowed, turn, chosen>>

UseStarts(n) ==
  /\ Idle /\ n \in DOMAIN profiles
  /\ using' = [profile |-> n, step |-> "replace"]
  /\ UNCHANGED <<phase, started, agent, turn, chosen>>

(* Mutant: a replacement that fails is only reported.                      *)
UseReplacesAnyway ==
  /\ using.step = "replace"
  /\ \/ ~turn /\ conversation' = using.profile
     \/ (turn \/ SaveFails) /\ UNCHANGED conversation
  /\ using' = [using EXCEPT !.step = "mode"]
  /\ UNCHANGED <<phase, started, mode, model, allowed, current, turn, chosen>>

(* The conversation is replaced, or refused while a turn runs, or its      *)
(* record cannot be written: then use() raises and nothing else changes.   *)
UseReplaces ==
  /\ using.step = "replace"
  /\ \/ /\ ~turn
        /\ conversation' = using.profile
        /\ using' = [using EXCEPT !.step = "mode"]
     \/ /\ turn \/ SaveFails
        /\ UNCHANGED conversation
        /\ using' = NotUsing
  /\ UNCHANGED <<phase, started, mode, model, allowed, current, turn, chosen>>

UseSetsMode ==
  /\ using.step = "mode"
  /\ mode' = profiles[using.profile].mode
  /\ chosen' = FALSE
  /\ using' = [using EXCEPT !.step = "rest"]
  /\ UNCHANGED <<phase, started, conversation, model, allowed, current, turn>>

UseEnds ==
  /\ using.step = "rest"
  /\ model' = new_model(using.profile)
  /\ allowed' = Allowed(profiles[using.profile].tools)
  /\ current' = using.profile
  /\ using' = NotUsing
  /\ UNCHANGED <<phase, started, conversation, mode, turn, chosen>>

(* /permissions sets the mode by hand.                                     *)
SetPermissionMode ==
  /\ Idle
  /\ \E m \in Modes : mode' = m
  /\ chosen' = TRUE
  /\ UNCHANGED <<phase, started, conversation, model, allowed, current, turn, using>>

(* Something takes the turn lock of the session, and gives it back; once   *)
(* the mode is set, use() awaits nothing more.                             *)
TakeTurn ==
  /\ phase = "running" /\ ~turn /\ using.step # "rest"
  /\ turn' = TRUE
  /\ UNCHANGED <<phase, started, agent, using, chosen>>

EndTurn ==
  /\ turn
  /\ turn' = FALSE
  /\ UNCHANGED <<phase, started, agent, using, chosen>>

Failed == phase = "failed" /\ UNCHANGED vars

Next ==
  \/ Load \/ NewSession
  \/ \E n \in Reserved \cup DOMAIN settings.agents : UseStarts(n)
  \/ UseReplaces \/ UseSetsMode \/ UseEnds
  \/ SetPermissionMode \/ TakeTurn \/ EndTurn
  \/ Failed

Spec == Init /\ [][Next]_vars

-----------------------------------------------------------------------------
(* Properties.                                                             *)

TypeOK ==
  /\ phase \in {"start", "loaded", "failed", "running"}
  /\ mode \in Modes \cup {""}
  /\ phase = "running" => /\ profiles[current].mode \in Modes
                          /\ profiles[current].provider \in DOMAIN providers
                          /\ model.provider \in DOMAIN providers
  /\ using.step \in {"none", "replace", "mode", "rest"}
  /\ turn \in BOOLEAN /\ chosen \in BOOLEAN

(* Prompts are off only when somebody asked for that: --yolo, an explicit  *)
(* bypass, or -- when no mode is given on the command line -- the YOLO     *)
(* variable or the settings.  An explicit mode, wherever it stands among   *)
(* the flags, wins over the environment (config.py:301-303).               *)
Reached[i \in DOMAIN args] ==   \* token i is read as a flag, not as a value or an argument
  \/ i = 1
  \/ i > 1 /\ Reached[i - 1] /\ args[i - 1].kind = "flag" /\ ~TakesNext(args, i - 1)
  \/ i > 2 /\ Reached[i - 2] /\ TakesNext(args, i - 2)

Given(name) == {i \in DOMAIN args : Reached[i] /\ args[i].kind = "flag" /\ args[i].name = name}

BypassIsAskedFor ==
  phase \in {"loaded", "running"} /\ config.mode = "bypass" =>
    \/ \E i \in Given("yolo") : args[i].value # "false"
    \/ \E i \in Given("approval-mode") : \/ args[i].value = "bypass"
                                         \/ TakesNext(args, i) /\ args[i + 1].name = "bypass"
    \/ Given("approval-mode") = {} /\ (env.yolo \/ settings.mode = "bypass")

(* Whatever agents are switched to, a model of the selected provider is    *)
(* built from the resolved credential, never from an empty or template one *)
(* ("the resolved configuration is the one the model is built from",       *)
(* docs/config.md:38).                                                     *)
SelectedCredentialIsResolved ==
  phase = "running" /\ model.provider = Selected => model.key \notin {"", Placeholder}

(* Between two switches, completed or refused, the prompt of the           *)
(* conversation, the model, the tools and the controller's current name    *)
(* belong to one profile, and so does the mode unless it was set by hand.  *)
SwitchIsWhole ==
  phase = "running" /\ using.step \in {"none", "replace"} =>
    /\ conversation = current
    /\ model = new_model(current)
    /\ allowed = Allowed(profiles[current].tools)
    /\ chosen \/ mode = profiles[current].mode

(* The mode of a profile is never in force over the conversation of        *)
(* another one (the docstring of use, agents.py:189).                      *)
ModeFollowsConversationStep ==
  using # NotUsing /\ mode' # mode => conversation = using.profile

ModeFollowsConversation == [][ModeFollowsConversationStep]_vars

(* "It can send the template placeholder `sk-...' as a real bearer token": *)
(* config.py:13-17 calls that a credential bug.                            *)
PlaceholderIsNeverSent == phase = "running" /\ turn => model.key # Placeholder

=============================================================================
