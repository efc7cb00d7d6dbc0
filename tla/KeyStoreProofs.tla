--------------------------- MODULE KeyStoreProofs ---------------------------
(***************************************************************************)
(* Theorems about KeyStore, for any number of processes and keys and all   *)
(* faults.                                                                 *)
(***************************************************************************)
EXTENDS KeyStore, TLAPS

\* Every key on disk or in the hands of a process was generated.
UsedInv ==
  /\ private \in Key => private \in used
  /\ \A p \in Process :
       /\ pc[p] \in Creating => key[p] \in used
       /\ pc[p] = "serving" => key[p] \in served

\* Without overlapping first starts one process at a time creates the files,
\* and what is on disk is what it has got to.  Whatever was served or published
\* is the private key on disk: a key is served when that file is complete, and
\* a complete file is never written again.
FilesInv ==
  ~raced =>
    /\ \A p, q \in Process : pc[p] \in Creating /\ pc[q] \in Creating => p = q
    /\ \A p \in Process :
         /\ pc[p] = "generated" => private = Absent
         /\ pc[p] = "writing" => private = Torn
         /\ pc[p] \in {"written", "publishing"} => private = key[p]
    /\ served \subseteq {private}
    /\ public \in Key => public = private

IInv == TypeOK /\ UsedInv /\ FilesInv

\* The initial state satisfies the invariant.
LEMMA InitInv == Init => IInv
  BY KeyStoreAssumption DEF Init, IInv, TypeOK, UsedInv, FilesInv, Creating, File

\* No step of a start, and no crash, breaks it.
LEMMA StepInv == IInv /\ [Next]_vars => IInv'
<1> SUFFICES ASSUME IInv, [Next]_vars PROVE IInv'
  OBVIOUS
<1> USE KeyStoreAssumption DEF IInv, TypeOK, UsedInv, FilesInv, Creating, File
<1>1. ASSUME NEW p \in Process, Start(p) PROVE IInv'
  BY <1>1 DEF Start, Goto
<1>2. ASSUME NEW p \in Process, Stop(p) PROVE IInv'
  BY <1>2 DEF Stop, Goto
<1>3. ASSUME NEW p \in Process, Generate(p) PROVE IInv'
  <2> USE <1>3 DEF Generate, Goto
  <2>1. raced' \in BOOLEAN
    BY Zenon
  <2>2. TypeOK'
    BY <2>1
  <2>3. UsedInv'
    OBVIOUS
  <2>4. FilesInv'
    OBVIOUS
  <2> QED
    BY <2>2, <2>3, <2>4
<1>4. ASSUME NEW p \in Process, Load(p) PROVE IInv'
  BY <1>4 DEF Load, Serve, Goto
<1>5. ASSUME NEW p \in Process, LoadFails(p) \/ WriteFails(p) PROVE IInv'
  BY <1>5 DEF LoadFails, WriteFails, Fail, Goto
<1>6. ASSUME NEW p \in Process, CreatePrivate(p) PROVE IInv'
  BY <1>6 DEF CreatePrivate, Goto
<1>7. ASSUME NEW p \in Process, WritePrivate(p) PROVE IInv'
  BY <1>7 DEF WritePrivate, Goto
<1>8. ASSUME NEW p \in Process, CreatePublic(p) PROVE IInv'
  BY <1>8 DEF CreatePublic, Goto
<1>9. ASSUME NEW p \in Process, WritePublic(p) PROVE IInv'
  BY <1>9 DEF WritePublic, Serve, Goto
<1>10. ASSUME NEW p \in Process, SkipPublic(p) PROVE IInv'
  BY <1>10 DEF SkipPublic, Serve, Goto
<1>11. CASE UNCHANGED vars
  BY <1>11 DEF vars
<1> QED
  BY <1>1, <1>2, <1>3, <1>4, <1>5, <1>6, <1>7, <1>8, <1>9, <1>10, <1>11
     DEF Next, LoadOrCreateKeys

\* The invariant holds over every crash and restart.
THEOREM Inductive == Spec => []IInv
  BY InitInv, StepInv, PTL DEF Spec

\* Every variable has its type; no process serves a key it has not read or
\* generated (loadOrCreateKeys).
THEOREM TypeCorrect == Spec => []TypeOK
<1>1. IInv => TypeOK
  BY DEF IInv
<1> QED
  BY <1>1, Inductive, PTL

\* No public key that a server handed out loses its private key, whenever the
\* two os.WriteFile of loadOrCreateKeys are cut off, unless two first starts overlapped.
THEOREM ServedKeysStay == Spec => []Recoverable
<1>1. IInv => Recoverable
  BY DEF IInv, FilesInv, Recoverable
<1> QED
  BY <1>1, Inductive, PTL

\* Two servers that called loadOrCreateKeys on the same files serve the same key, unless they overlapped.
THEOREM OneKey == Spec => []NeverTwoKeys
<1>1. IInv => NeverTwoKeys
  BY DEF IInv, UsedInv, FilesInv, NeverTwoKeys
<1> QED
  BY <1>1, Inductive, PTL

\* A complete public file, which loadOrCreateKeys writes last, belongs to the private key on disk.
THEOREM PublicFollowsPrivate == Spec => []PublicMatches
<1>1. IInv => PublicMatches
  BY DEF IInv, FilesInv, PublicMatches
<1> QED
  BY <1>1, Inductive, PTL
=============================================================================
