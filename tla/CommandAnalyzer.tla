-------------------------- MODULE CommandAnalyzer --------------------------
(***************************************************************************)
(* The analysis of shell commands (runtime/execution/command_analyzer.py). *)
(* A command is the sequence of its fields.  A field is an atom: what the  *)
(* analysis looks for in its characters is given by the sets of fields.    *)
(***************************************************************************)
EXTENDS Integers, Sequences

CONSTANTS
  UrlWords,       \* fields that contain "://"
  RedirectWords,  \* fields that contain ">"
  PathWords,      \* fields that begin like a path
  EnvWords        \* fields of the form NAME=value

NetworkClients == {"curl", "wget", "ssh", "scp", "rsync", "nc", "ncat", "telnet", "ftp", "lftp", "aria2c"}
NetworkPackageManagers == {"pip", "npm", "go", "git"}
DestructiveTokens == {"rm", "rmdir", "shred", "mkfs", "dd", "chmod", "chown", "sudo"}
WriteTokens == {"touch", "mkdir", "mv", "cp", "sed", "perl", "git"}
ReadOnlyGit == {"status", "diff", "show", "log", "branch"}

HasAnyToken(command, tokens) == \E i \in DOMAIN command : command[i] \in tokens

(* " install", " push", " pull" begin a later field; " get " and " clone " *)
(* are one in the middle; "fetch" may be anywhere.                         *)
ContainsNetworkIntent(command) ==
  \/ HasAnyToken(command, UrlWords \cup NetworkClients)
  \/ /\ HasAnyToken(command, NetworkPackageManagers)
     /\ \/ \E i \in 2..Len(command) : command[i] \in {"install", "push", "pull"}
        \/ \E i \in 2..(Len(command) - 1) : command[i] \in {"get", "clone"}
        \/ HasAnyToken(command, {"fetch"})

CommandMayWrite(command) ==
  \/ HasAnyToken(command, RedirectWords \cup WriteTokens)
  \/ \E i \in 1..(Len(command) - 1) : command[i] = "|" /\ command[i + 1] = "tee"

(* Mutant: the git command is looked for anywhere in the line.             *)
IsReadOnlyGitAnywhere(command) ==
  \E i \in 1..(Len(command) - 1) : command[i] = "git" /\ command[i + 1] \in ReadOnlyGit

IsReadOnlyGitCommand(command) ==
  Len(command) >= 2 /\ command[1] = "git" /\ command[2] \in ReadOnlyGit

CommandClass(command) ==
  CASE command = <<>> -> "unknown"
    [] command # <<>> /\ HasAnyToken(command, DestructiveTokens) -> "destructive"
    [] command # <<>> /\ ~HasAnyToken(command, DestructiveTokens) ->
         IF ContainsNetworkIntent(command) THEN "network"
         ELSE IF CommandMayWrite(command) /\ ~IsReadOnlyGitCommand(command) THEN "write"
         ELSE "read-only"

FieldsIn(command, words) == { command[i] : i \in { j \in DOMAIN command : command[j] \in words } }
CommandPaths(command) == FieldsIn(command, PathWords)
CommandEnv(command) == FieldsIn(command, EnvWords)
=============================================================================
