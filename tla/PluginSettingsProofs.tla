------------------------ MODULE PluginSettingsProofs ------------------------
(***************************************************************************)
(* Theorems about PluginSettings, for any number of setups and servers and *)
(* all faults.                                                             *)
(***************************************************************************)
EXTENDS PluginSettings, TLAPS

\* What a setup holds in memory stands for consent, and who asked for the
\* server has the installation confirmed.
MemoryInv ==
  \A p \in Setup :
    /\ pc[p] \notin Idle => target[p] \in Server
    /\ settings[p].installed => consented
    /\ settings[p].confirmed => settings[p].server \in approved
    /\ pc[p] \in {"consented", "server", "approved"} => settings[p].installed
    /\ pc[p] = "approved" => settings[p].confirmed

\* So does the file; and it is never saved before the installation is confirmed.
FileInv ==
  file # NoFile =>
    /\ file.installed /\ consented
    /\ file.confirmed => file.server \in approved

\* One setup after the other: whoever is at work on a finished setup has it in
\* memory, and does not ask for the installation again.
AloneInv ==
  ~disturbed =>
    /\ \A p, q \in Setup : pc[p] \notin Idle /\ pc[q] \notin Idle => p = q
    /\ \A p \in Setup :
         pc[p] \notin Idle /\ LoadSettings =>
           settings[p].installed /\ settings[p].confirmed

IInv == TypeOK /\ MemoryInv /\ FileInv /\ AloneInv

\* The zero value is a value of the settings.
LEMMA ZeroType == Zero \in Settings
  BY DEF Zero, Settings

\* LoadSettings leaves settings in memory, whether there is a file or not.
LEMMA ReadType ==
  ASSUME NEW f \in Settings \cup {NoFile}
  PROVE  (IF f = NoFile THEN Zero ELSE f) \in Settings
  BY ZeroType

\* So does the consent to the installation.
LEMMA InstalledType ==
  ASSUME NEW s \in Settings
  PROVE  [s EXCEPT !.installed = TRUE] \in Settings
  BY Zenon DEF Settings

\* So does the confirmation of a server.
LEMMA ConfirmedType ==
  ASSUME NEW s \in Settings, NEW url \in Server
  PROVE  [s EXCEPT !.server = url, !.confirmed = TRUE] \in Settings
  BY Zenon DEF Settings

\* The initial state satisfies the invariant.
LEMMA InitInv == Init => IInv
<1> SUFFICES ASSUME Init PROVE IInv
  OBVIOUS
<1> USE DEF Init, Idle
<1>1. Zero \in Settings /\ ~Zero.installed /\ ~Zero.confirmed
  BY DEF Zero, Settings
<1>2. TypeOK
  BY <1>1 DEF TypeOK
<1>3. MemoryInv
  BY <1>1 DEF MemoryInv
<1>4. FileInv /\ AloneInv
  BY DEF FileInv, AloneInv, LoadSettings
<1> QED
  BY <1>2, <1>3, <1>4 DEF IInv

\* No step of a setup breaks it.
LEMMA StepInv == IInv /\ [Next]_vars => IInv'
<1> SUFFICES ASSUME IInv, [Next]_vars PROVE IInv'
  OBVIOUS
<1> USE SettingsAssumption
    DEF IInv, TypeOK, MemoryInv, FileInv, AloneInv, Idle, Settings, LoadSettings
<1>1. ASSUME NEW p \in Setup, NEW s \in Server, Load(p, s) PROVE IInv'
  <2> USE <1>1 DEF Load, Goto, Zero
  <2>1. TypeOK'
    <3> HIDE DEF Settings, Zero
    <3>1. (IF file = NoFile THEN Zero ELSE file) \in Settings
      BY ReadType, Zenon
    <3>2. settings' \in [Setup -> Settings]
      BY <3>1, ZeroType
    <3>3. disturbed' \in BOOLEAN
      BY Zenon
    <3> QED
      BY <3>2, <3>3
  <2>2. MemoryInv'
    OBVIOUS
  <2>3. FileInv'
    OBVIOUS
  <2>4. AloneInv'
    OBVIOUS
  <2> QED
    BY <2>1, <2>2, <2>3, <2>4
<1>2. ASSUME NEW p \in Setup, InstallationKnown(p) PROVE IInv'
  BY <1>2 DEF InstallationKnown, Goto
<1>3. ASSUME NEW p \in Setup, ConfirmInstallation(p) PROVE IInv'
  <2> USE <1>3 DEF ConfirmInstallation, Goto
  <2>1. TypeOK'
    <3> HIDE DEF Settings
    <3>1. [settings[p] EXCEPT !.installed = TRUE] \in Settings
      BY InstalledType, Zenon
    <3>2. settings' \in [Setup -> Settings]
      BY <3>1
    <3> QED
      BY <3>2
  <2>2. MemoryInv'
    OBVIOUS
  <2>3. FileInv'
    OBVIOUS
  <2>4. AloneInv'
    OBVIOUS
  <2> QED
    BY <2>1, <2>2, <2>3, <2>4
<1>4. ASSUME NEW p \in Setup, SaveInstallation(p) PROVE IInv'
  BY <1>4 DEF SaveInstallation, Goto
<1>5. ASSUME NEW p \in Setup, ServerKnown(p) PROVE IInv'
  BY <1>5 DEF ServerKnown, Goto
<1>6. ASSUME NEW p \in Setup, ConfirmServer(p) PROVE IInv'
  <2> USE <1>6 DEF ConfirmServer, Goto
  <2>1. TypeOK'
    <3> HIDE DEF Settings
    <3>1. [settings[p] EXCEPT !.server = target[p], !.confirmed = TRUE] \in Settings
      BY ConfirmedType
    <3>2. settings' \in [Setup -> Settings]
      BY <3>1
    <3> QED
      BY <3>2
  <2>2. MemoryInv'
    OBVIOUS
  <2>3. FileInv'
    OBVIOUS
  <2>4. AloneInv'
    OBVIOUS
  <2> QED
    BY <2>1, <2>2, <2>3, <2>4
<1>7. ASSUME NEW p \in Setup, SaveServer(p) PROVE IInv'
  BY <1>7 DEF SaveServer, Goto
<1>8. ASSUME NEW p \in Setup, Refuse(p) \/ SaveFails(p) \/ Kill(p) PROVE IInv'
  BY <1>8 DEF Refuse, SaveFails, Kill, Goto
<1>9. CASE UNCHANGED vars
  BY <1>9 DEF vars
<1> QED
  BY <1>1, <1>2, <1>3, <1>4, <1>5, <1>6, <1>7, <1>8, <1>9 DEF Next, Configure

\* The invariant holds throughout.
THEOREM Inductive == Spec => []IInv
  BY InitInv, StepInv, PTL DEF Spec

\* Every variable has its type; what LoadSettings and Configure hold in memory
\* are settings.
THEOREM TypeCorrect == Spec => []TypeOK
<1>1. IInv => TypeOK
  BY DEF IInv
<1> QED
  BY <1>1, Inductive, PTL

\* LoadSettings lets an upload pass only with a person's consent to the installation
\* and to that server.
THEOREM UseNeedsConsent == Spec => []ConsentBeforeUse
<1>1. IInv => ConsentBeforeUse
  BY DEF IInv, FileInv, ConsentBeforeUse, LoadSettings
<1> QED
  BY <1>1, Inductive, PTL

\* No Configure, whatever becomes of it, takes a saved installation decision back.
THEOREM DecisionSticks == Spec => InstallationSticks
<1>1. IInv /\ [Next]_vars =>
        [file # NoFile /\ file.installed => file' # NoFile /\ file'.installed]_vars
  <2> SUFFICES ASSUME IInv, Next, file # NoFile, file.installed
               PROVE  file' # NoFile /\ file'.installed
    BY DEF vars
  <2> USE SettingsAssumption DEF IInv, TypeOK, MemoryInv, Settings
  <2>1. ASSUME NEW p \in Setup, SaveInstallation(p) \/ SaveServer(p)
        PROVE  file' # NoFile /\ file'.installed
    BY <2>1 DEF SaveInstallation, SaveServer
  <2>2. ASSUME file' = file PROVE file' # NoFile /\ file'.installed
    BY <2>2
  <2> QED
    BY <2>1, <2>2 DEF Next, Configure, Load, InstallationKnown, ConfirmInstallation,
       ServerKnown, ConfirmServer, Refuse, SaveFails, Kill
<1> QED
  BY <1>1, Inductive, PTL DEF Spec, InstallationSticks

\* While setups run one after the other and can read the file, a finished setup
\* is not undone by a later Configure.
THEOREM FinishedStaysFinished == Spec => SetupIsKept
<1>1. IInv /\ [Next]_vars => [LoadSettings /\ ~disturbed => LoadSettings']_vars
  <2> SUFFICES ASSUME IInv, Next, LoadSettings, ~disturbed
               PROVE  LoadSettings'
    BY DEF vars
  <2> USE SettingsAssumption DEF IInv, TypeOK, MemoryInv, AloneInv, Settings, Idle, LoadSettings
  <2>1. ASSUME NEW p \in Setup, SaveInstallation(p) \/ SaveServer(p)
        PROVE  LoadSettings'
    BY <2>1 DEF SaveInstallation, SaveServer
  <2>2. ASSUME file' = file PROVE LoadSettings'
    BY <2>2
  <2> QED
    BY <2>1, <2>2 DEF Next, Configure, Load, InstallationKnown, ConfirmInstallation,
       ServerKnown, ConfirmServer, Refuse, SaveFails, Kill
<1> QED
  BY <1>1, Inductive, PTL DEF Spec, SetupIsKept
=============================================================================
