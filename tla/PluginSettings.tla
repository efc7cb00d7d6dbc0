--------------------------- MODULE PluginSettings ---------------------------
(***************************************************************************)
(* Setup of the plugin: Configure and LoadSettings of                      *)
(* internal/client/settings.go.  "zcode-agent setup" asks a person for the *)
(* installation and for the server, and keeps both answers in one file     *)
(* that every upload reads.                                                *)
(*                                                                         *)
(* Configure reads the file once, asks, and writes what it has in memory:  *)
(* after the first answer and again at the end.  saveSettings renames a    *)
(* temporary file over the old one, so a save is one step.  Nothing stops  *)
(* two setups, one per Agent, from running at the same time.  A server URL *)
(* that validateServerURL refuses ends the call before anything is read.   *)
(***************************************************************************)
EXTENDS FiniteSets

CONSTANTS
  Setup,     \* concurrent "zcode-agent setup" processes, each run repeatedly
  Server,    \* server URLs that are valid, normalised
  NoServer,  \* the empty server_url
  NoFile,    \* no settings file
  Faults     \* "read", "save": file operations that may fail

\* InstallationConfirmedAt and ServerConfirmedAt count only as zero or not.
Settings == [installed : BOOLEAN, server : Server \cup {NoServer},
             confirmed : BOOLEAN]

ASSUME SettingsAssumption ==
  /\ NoServer \notin Server
  /\ NoFile \notin Settings
  /\ Faults \subseteq {"read", "save"}

Zero == [installed |-> FALSE, server |-> NoServer, confirmed |-> FALSE]

VARIABLES
  file,       \* the settings file
  pc,         \* where each setup is
  target,     \* its serverURL argument
  settings,   \* its settings variable
  consented,  \* history: somebody agreed to the installation
  approved,   \* history: servers somebody agreed to
  disturbed   \* history: setups overlapped, or the file was not readable

vars == <<file, pc, target, settings, consented, approved, disturbed>>

Idle == {"idle", "done", "refused", "failed", "killed"}

Init ==
  /\ file = NoFile
  /\ pc = [p \in Setup |-> "idle"]
  /\ target = [p \in Setup |-> NoServer]
  /\ settings = [p \in Setup |-> Zero]
  /\ consented = FALSE
  /\ approved = {}
  /\ disturbed = FALSE

Goto(p, label) == pc' = [pc EXCEPT ![p] = label]

\* Not the code, a mutant: a missing file is not told from an empty one.
LoadMissing(p, s) ==
  /\ pc[p] \in Idle
  /\ target' = [target EXCEPT ![p] = s]
  /\ Goto(p, "loaded")
  /\ settings' = [settings EXCEPT ![p] = file]
  /\ UNCHANGED <<file, consented, approved, disturbed>>

\* loadSettingsIfPresent: every error counts as "no settings yet".
Load(p, s) ==
  /\ pc[p] \in Idle
  /\ target' = [target EXCEPT ![p] = s]
  /\ Goto(p, "loaded")
  /\ \/ /\ settings' = [settings EXCEPT ![p] = IF file = NoFile THEN Zero ELSE file]
        /\ disturbed' = (disturbed \/ \E q \in Setup : pc[q] \notin Idle)
     \/ /\ "read" \in Faults
        /\ settings' = [settings EXCEPT ![p] = Zero]
        /\ disturbed' = TRUE
  /\ UNCHANGED <<file, consented, approved>>

InstallationKnown(p) ==
  /\ pc[p] = "loaded"
  /\ settings[p].installed
  /\ Goto(p, "server")
  /\ UNCHANGED <<file, target, settings, consented, approved, disturbed>>

ConfirmInstallation(p) ==
  /\ pc[p] = "loaded"
  /\ ~settings[p].installed
  /\ settings' = [settings EXCEPT ![p].installed = TRUE]
  /\ consented' = TRUE
  /\ Goto(p, "consented")
  /\ UNCHANGED <<file, target, approved, disturbed>>

\* "Persist the installation decision before asking about the server."
SaveInstallation(p) ==
  /\ pc[p] = "consented"
  /\ file' = settings[p]
  /\ Goto(p, "server")
  /\ UNCHANGED <<target, settings, consented, approved, disturbed>>

ServerChanged(p) == settings[p].server # target[p]

\* Not the code, a mutant: a confirmation counts for every server.
ServerKnownAnyhow(p) ==
  /\ pc[p] = "server"
  /\ settings[p].confirmed
  /\ settings' = [settings EXCEPT ![p].server = target[p]]
  /\ Goto(p, "approved")
  /\ UNCHANGED <<file, target, consented, approved, disturbed>>

ServerKnown(p) ==
  /\ pc[p] = "server"
  /\ ~ServerChanged(p) /\ settings[p].confirmed
  /\ Goto(p, "approved")
  /\ UNCHANGED <<file, target, settings, consented, approved, disturbed>>

ConfirmServer(p) ==
  /\ pc[p] = "server"
  /\ ServerChanged(p) \/ ~settings[p].confirmed
  /\ settings' = [settings EXCEPT ![p].server = target[p], ![p].confirmed = TRUE]
  /\ approved' = approved \cup {target[p]}
  /\ Goto(p, "approved")
  /\ UNCHANGED <<file, target, consented, disturbed>>

\* Not the code, a mutant: whoever refuses the new server loses the old one.
RefuseForgets(p) ==
  /\ \/ pc[p] = "loaded" /\ ~settings[p].installed
     \/ pc[p] = "server" /\ (ServerChanged(p) \/ ~settings[p].confirmed)
  /\ Goto(p, "refused")
  /\ file' = [settings[p] EXCEPT !.confirmed = FALSE]
  /\ UNCHANGED <<target, settings, consented, approved, disturbed>>

\* The answer is no, or there is nobody to answer.
Refuse(p) ==
  /\ \/ pc[p] = "loaded" /\ ~settings[p].installed
     \/ pc[p] = "server" /\ (ServerChanged(p) \/ ~settings[p].confirmed)
  /\ Goto(p, "refused")
  /\ UNCHANGED <<file, target, settings, consented, approved, disturbed>>

\* Not the code, a mutant: the file is emptied before it is written.
SaveServerInPlace(p) ==
  /\ pc[p] = "approved"
  /\ file' = IF file = NoFile THEN settings[p] ELSE NoFile
  /\ Goto(p, "done")
  /\ UNCHANGED <<target, settings, consented, approved, disturbed>>

SaveServer(p) ==
  /\ pc[p] = "approved"
  /\ file' = settings[p]
  /\ Goto(p, "done")
  /\ UNCHANGED <<target, settings, consented, approved, disturbed>>

\* The temporary file or the rename fails; the old file is untouched.
SaveFails(p) ==
  /\ "save" \in Faults
  /\ pc[p] \in {"consented", "approved"}
  /\ Goto(p, "failed")
  /\ UNCHANGED <<file, target, settings, consented, approved, disturbed>>

Kill(p) ==
  /\ pc[p] \notin Idle
  /\ Goto(p, "killed")
  /\ UNCHANGED <<file, target, settings, consented, approved, disturbed>>

Configure(p) ==
  \/ \E s \in Server : Load(p, s)
  \/ InstallationKnown(p) \/ ConfirmInstallation(p) \/ SaveInstallation(p)
  \/ ServerKnown(p) \/ ConfirmServer(p) \/ SaveServer(p)
  \/ Refuse(p) \/ SaveFails(p) \/ Kill(p)

Next == \E p \in Setup : Configure(p)

Spec == Init /\ [][Next]_vars
-----------------------------------------------------------------------------
\* LoadSettings: what an upload needs of the file.
LoadSettings ==
  /\ file # NoFile
  /\ file.installed /\ file.confirmed
  /\ file.server \in Server

\* The type of every variable.
TypeOK ==
  /\ file \in Settings \cup {NoFile}
  /\ pc \in [Setup -> Idle \cup {"loaded", "consented", "server", "approved"}]
  /\ target \in [Setup -> Server \cup {NoServer}]
  /\ settings \in [Setup -> Settings]
  /\ consented \in BOOLEAN
  /\ approved \subseteq Server
  /\ disturbed \in BOOLEAN

\* An upload finds settings only if a person agreed to the installation and to
\* that very server, whatever setups overlap, fail or are killed.
ConsentBeforeUse == LoadSettings => consented /\ file.server \in approved

\* The installation decision, once saved, is never lost: no later setup, killed
\* or refused at whatever point, makes the first prompt come back.
InstallationSticks ==
  [][file # NoFile /\ file.installed => file' # NoFile /\ file'.installed]_vars

\* As long as setups run one after the other and read what is there, a finished
\* setup stays finished.
SetupIsKept == [][LoadSettings /\ ~disturbed => LoadSettings']_vars

\* "Reinstalling with the same settings adds no plugin-specific prompts": when
\* a setup has finished and none is running, an upload finds its settings.
ReinstallIsSilent ==
  (\E p \in Setup : pc[p] = "done") /\ (\A p \in Setup : pc[p] \in Idle)
    => LoadSettings
=============================================================================
