-------------------------- MODULE AgentUploadProofs --------------------------
(***************************************************************************)
(* Theorems about AgentUpload, for any number of concurrent uploads, files *)
(* and edits, and all faults.                                              *)
(***************************************************************************)
EXTENDS AgentUpload, TLAPS

\* The files a walk archives.
Regular == {p \in Path \ Skipped : tree[p] = "regular"}

\* What a walk has added are files of the repository that it does not skip;
\* those that have been regular since it began are added or still to come.
WalkInv ==
  \A u \in Upload :
    /\ seen[u] \cup report[u] \subseteq Path \ Skipped
    /\ \A p \in steady[u] : tree[p] = "regular"
    /\ pc[u] \in Walking \cup {"archived", "posting", "answered"} =>
         steady[u] \ Skipped \subseteq seen[u] \cup todo[u]
    /\ pc[u] \in {"archived", "posting", "answered"} => todo[u] = {}

\* The temporary directories on disk, by how far their uploads got.
DirInv ==
  /\ TempDirsAreOwned
  /\ \A u \in Upload : why[u] = "remove" => pc[u] \in {"failed", "done"}

\* In a repository nobody has touched: what was listed is there, every walk
\* comes to the regular files, and so does the report.
UntouchedInv ==
  /\ WalkErrorsAreReal
  /\ \A u \in Upload : pc[u] \in {"answered", "succeeding", "done"} => u \in stored
  /\ edits = 0 =>
       \A u \in Upload :
         /\ \A p \in todo[u] \ (Upload \cup Skipped) : tree[p] # "absent"
         /\ seen[u] \subseteq Regular
         /\ pc[u] \in Walking => Regular \subseteq seen[u] \cup todo[u]
         /\ pc[u] \in {"requesting", "granted", "succeeding", "done"} \cup Building =>
              report[u] = Regular
         /\ pc[u] \in {"archived", "posting", "answered", "succeeding", "done"} =>
              seen[u] = Regular

IInv == TypeOK /\ WalkInv /\ DirInv /\ UntouchedInv

\* What Visit leaves alone, whichever entry it comes to.
Visiting(u) ==
  pc[u] \in Walking /\ UNCHANGED <<now, tree, edits, dirs, stored>>

\* The initial state satisfies the invariant.
LEMMA InitInv == Init => IInv
  BY UploadAssumption
     DEF Init, IInv, TypeOK, WalkInv, DirInv, UntouchedInv, TempDirsAreOwned, WalkErrorsAreReal,
         Regular, Kinds, Labels, Ended, Building, Walking

\* Every step keeps the types.
LEMMA TypeStep == IInv /\ [Next]_vars => TypeOK'
<1> SUFFICES ASSUME IInv, [Next]_vars PROVE TypeOK'
  OBVIOUS
<1> USE UploadAssumption DEF IInv, TypeOK, Kinds, Labels, Ended, Building, Walking
<1>1. ASSUME Tick PROVE TypeOK'
  BY <1>1 DEF Tick
<1>2. ASSUME NEW p \in Path, Edit(p) PROVE TypeOK'
  BY <1>2 DEF Edit, Kinds
<1>3. ASSUME NEW u \in Upload, Kill(u) PROVE TypeOK'
  BY <1>3 DEF Kill, Forget, Goto
<1>4. ASSUME NEW u \in Upload, Begin(u) PROVE TypeOK'
  BY <1>4 DEF Begin, BeginWalk, Goto
<1>5. ASSUME NEW u \in Upload, NEW e \in todo[u], Visiting(u), Skip(u, e)
      PROVE TypeOK'
  BY <1>5 DEF Visiting, Skip, ShouldSkip
<1>6. ASSUME NEW u \in Upload, NEW e \in todo[u], Visiting(u), AddRegular(u, e)
      PROVE TypeOK'
  BY <1>6 DEF Visiting, AddRegular, ShouldSkip
<1>7. ASSUME NEW u \in Upload, NEW e \in todo[u], Visiting(u), PassOverSocket(u, e)
      PROVE TypeOK'
  BY <1>7 DEF Visiting, PassOverSocket, ShouldSkip
<1>8. ASSUME NEW u \in Upload, NEW e \in todo[u], Visiting(u), WalkFails(u, e)
      PROVE TypeOK'
  BY <1>8 DEF Visiting, WalkFails, ShouldSkip, Fail, Forget, Goto
<1>9. ASSUME NEW u \in Upload, WrittenUnderCopy(u) PROVE TypeOK'
  BY <1>9 DEF callVars, WrittenUnderCopy, ShouldSkip, Fail, Forget, Goto
<1>10. ASSUME NEW u \in Upload, Inspected(u) PROVE TypeOK'
  BY <1>10 DEF callVars, Inspected, Goto
<1>11. ASSUME NEW u \in Upload, Granted(u) PROVE TypeOK'
  BY <1>11 DEF callVars, Granted, Goto
<1>12. ASSUME NEW u \in Upload, Denied(u) \/ Expired(u) PROVE TypeOK'
  BY <1>12 DEF callVars, Denied, Expired, Fail, Forget, Goto
<1>13. ASSUME NEW u \in Upload, MakeTempDir(u) PROVE TypeOK'
  BY <1>13 DEF MakeTempDir, BeginWalk, Goto
<1>14. ASSUME NEW u \in Upload, OpenArchive(u) PROVE TypeOK'
  BY <1>14 DEF OpenArchive, BeginWalk, Goto
<1>15. ASSUME NEW u \in Upload, CloseArchive(u) PROVE TypeOK'
  BY <1>15 DEF callVars, CloseArchive, Goto
<1>16. ASSUME NEW u \in Upload, Encrypt(u) PROVE TypeOK'
  BY <1>16 DEF callVars, Encrypt, Fail, Forget, Goto
<1>17. ASSUME NEW u \in Upload, Post(u) PROVE TypeOK'
  BY <1>17 DEF callVars, Post, Fail, Forget, Goto
<1>18. ASSUME NEW u \in Upload, Answer(u) PROVE TypeOK'
  BY <1>18 DEF callVars, Answer, Fail, Forget, Goto
<1>19. ASSUME NEW u \in Upload, RemoveTempDir(u) PROVE TypeOK'
  BY <1>19 DEF callVars, RemoveTempDir, Goto
<1>20. ASSUME NEW u \in Upload, FileFails(u) PROVE TypeOK'
  BY <1>20 DEF FileFails, Fail, Forget, Goto
<1>21. CASE UNCHANGED vars
  BY <1>21 DEF vars
<1> QED
  BY <1>1, <1>2, <1>3, <1>4, <1>5, <1>6, <1>7, <1>8, <1>9, <1>10, <1>11,
     <1>12, <1>13, <1>14, <1>15, <1>16, <1>17, <1>18, <1>19, <1>20, <1>21
     DEF Next, UploadStep, Visit, Visiting

\* Every step keeps what is known of the walks.
LEMMA WalkStep == IInv /\ [Next]_vars => WalkInv'
<1> SUFFICES ASSUME IInv, [Next]_vars PROVE WalkInv'
  OBVIOUS
<1> USE UploadAssumption
    DEF IInv, TypeOK, WalkInv, Regular, Kinds, Labels, Ended, Building, Walking
<1>1. ASSUME Tick PROVE WalkInv'
  BY <1>1 DEF Tick
<1>2. ASSUME NEW p \in Path, Edit(p) PROVE WalkInv'
  BY <1>2 DEF Edit, Kinds
<1>3. ASSUME NEW u \in Upload, Kill(u) PROVE WalkInv'
  BY <1>3 DEF Kill, Forget, Goto
<1>4. ASSUME NEW u \in Upload, Begin(u) PROVE WalkInv'
  BY <1>4 DEF Begin, BeginWalk, Goto
<1>5. ASSUME NEW u \in Upload, NEW e \in todo[u], Visiting(u), Skip(u, e)
      PROVE WalkInv'
  BY <1>5 DEF Visiting, Skip, ShouldSkip
<1>6. ASSUME NEW u \in Upload, NEW e \in todo[u], Visiting(u), AddRegular(u, e)
      PROVE WalkInv'
  BY <1>6 DEF Visiting, AddRegular, ShouldSkip
<1>7. ASSUME NEW u \in Upload, NEW e \in todo[u], Visiting(u), PassOverSocket(u, e)
      PROVE WalkInv'
  BY <1>7 DEF Visiting, PassOverSocket, ShouldSkip
<1>8. ASSUME NEW u \in Upload, NEW e \in todo[u], Visiting(u), WalkFails(u, e)
      PROVE WalkInv'
  BY <1>8 DEF Visiting, WalkFails, ShouldSkip, Fail, Forget, Goto
<1>9. ASSUME NEW u \in Upload, WrittenUnderCopy(u) PROVE WalkInv'
  BY <1>9 DEF callVars, WrittenUnderCopy, ShouldSkip, Fail, Forget, Goto
<1>10. ASSUME NEW u \in Upload, Inspected(u) PROVE WalkInv'
  BY <1>10 DEF callVars, Inspected, Goto
<1>11. ASSUME NEW u \in Upload, Granted(u) PROVE WalkInv'
  BY <1>11 DEF callVars, Granted, Goto
<1>12. ASSUME NEW u \in Upload, Denied(u) \/ Expired(u) PROVE WalkInv'
  BY <1>12 DEF callVars, Denied, Expired, Fail, Forget, Goto
<1>13. ASSUME NEW u \in Upload, MakeTempDir(u) PROVE WalkInv'
  BY <1>13 DEF MakeTempDir, BeginWalk, Goto
<1>14. ASSUME NEW u \in Upload, OpenArchive(u) PROVE WalkInv'
  BY <1>14 DEF OpenArchive, BeginWalk, Goto
<1>15. ASSUME NEW u \in Upload, CloseArchive(u) PROVE WalkInv'
  BY <1>15 DEF callVars, CloseArchive, Goto
<1>16. ASSUME NEW u \in Upload, Encrypt(u) PROVE WalkInv'
  BY <1>16 DEF callVars, Encrypt, Fail, Forget, Goto
<1>17. ASSUME NEW u \in Upload, Post(u) PROVE WalkInv'
  BY <1>17 DEF callVars, Post, Fail, Forget, Goto
<1>18. ASSUME NEW u \in Upload, Answer(u) PROVE WalkInv'
  BY <1>18 DEF callVars, Answer, Fail, Forget, Goto
<1>19. ASSUME NEW u \in Upload, RemoveTempDir(u) PROVE WalkInv'
  BY <1>19 DEF callVars, RemoveTempDir, Goto
<1>20. ASSUME NEW u \in Upload, FileFails(u) PROVE WalkInv'
  BY <1>20 DEF FileFails, Fail, Forget, Goto
<1>21. CASE UNCHANGED vars
  BY <1>21 DEF vars
<1> QED
  BY <1>1, <1>2, <1>3, <1>4, <1>5, <1>6, <1>7, <1>8, <1>9, <1>10, <1>11,
     <1>12, <1>13, <1>14, <1>15, <1>16, <1>17, <1>18, <1>19, <1>20, <1>21
     DEF Next, UploadStep, Visit, Visiting

\* Every step keeps what is known of the temporary directories.
LEMMA DirStep == IInv /\ [Next]_vars => DirInv'
<1> SUFFICES ASSUME IInv, [Next]_vars PROVE DirInv'
  OBVIOUS
<1> USE UploadAssumption
    DEF IInv, TypeOK, DirInv, TempDirsAreOwned, Kinds, Labels, Ended, Building,
        Walking
<1>1. ASSUME Tick PROVE DirInv'
  BY <1>1 DEF Tick
<1>2. ASSUME NEW p \in Path, Edit(p) PROVE DirInv'
  BY <1>2 DEF Edit, Kinds
<1>3. ASSUME NEW u \in Upload, Kill(u) PROVE DirInv'
  BY <1>3 DEF Kill, Forget, Goto
<1>4. ASSUME NEW u \in Upload, Begin(u) PROVE DirInv'
  BY <1>4 DEF Begin, BeginWalk, Goto
<1>5. ASSUME NEW u \in Upload, NEW e \in todo[u], Visiting(u), Skip(u, e)
      PROVE DirInv'
  BY <1>5 DEF Visiting, Skip, ShouldSkip
<1>6. ASSUME NEW u \in Upload, NEW e \in todo[u], Visiting(u), AddRegular(u, e)
      PROVE DirInv'
  BY <1>6 DEF Visiting, AddRegular, ShouldSkip
<1>7. ASSUME NEW u \in Upload, NEW e \in todo[u], Visiting(u), PassOverSocket(u, e)
      PROVE DirInv'
  BY <1>7 DEF Visiting, PassOverSocket, ShouldSkip
<1>8. ASSUME NEW u \in Upload, NEW e \in todo[u], Visiting(u), WalkFails(u, e)
      PROVE DirInv'
  BY <1>8 DEF Visiting, WalkFails, ShouldSkip, Fail, Forget, Goto
<1>9. ASSUME NEW u \in Upload, WrittenUnderCopy(u) PROVE DirInv'
  BY <1>9 DEF callVars, WrittenUnderCopy, ShouldSkip, Fail, Forget, Goto
<1>10. ASSUME NEW u \in Upload, Inspected(u) PROVE DirInv'
  BY <1>10 DEF callVars, Inspected, Goto
<1>11. ASSUME NEW u \in Upload, Granted(u) PROVE DirInv'
  BY <1>11 DEF callVars, Granted, Goto
<1>12. ASSUME NEW u \in Upload, Denied(u) \/ Expired(u) PROVE DirInv'
  BY <1>12 DEF callVars, Denied, Expired, Fail, Forget, Goto
<1>13. ASSUME NEW u \in Upload, MakeTempDir(u) PROVE DirInv'
  BY <1>13 DEF MakeTempDir, BeginWalk, Goto
<1>14. ASSUME NEW u \in Upload, OpenArchive(u) PROVE DirInv'
  BY <1>14 DEF OpenArchive, BeginWalk, Goto
<1>15. ASSUME NEW u \in Upload, CloseArchive(u) PROVE DirInv'
  BY <1>15 DEF callVars, CloseArchive, Goto
<1>16. ASSUME NEW u \in Upload, Encrypt(u) PROVE DirInv'
  BY <1>16 DEF callVars, Encrypt, Fail, Forget, Goto
<1>17. ASSUME NEW u \in Upload, Post(u) PROVE DirInv'
  BY <1>17 DEF callVars, Post, Fail, Forget, Goto
<1>18. ASSUME NEW u \in Upload, Answer(u) PROVE DirInv'
  BY <1>18 DEF callVars, Answer, Fail, Forget, Goto
<1>19. ASSUME NEW u \in Upload, RemoveTempDir(u) PROVE DirInv'
  BY <1>19 DEF callVars, RemoveTempDir, Goto
<1>20. ASSUME NEW u \in Upload, FileFails(u) PROVE DirInv'
  BY <1>20 DEF FileFails, Fail, Forget, Goto
<1>21. CASE UNCHANGED vars
  BY <1>21 DEF vars
<1> QED
  BY <1>1, <1>2, <1>3, <1>4, <1>5, <1>6, <1>7, <1>8, <1>9, <1>10, <1>11,
     <1>12, <1>13, <1>14, <1>15, <1>16, <1>17, <1>18, <1>19, <1>20, <1>21
     DEF Next, UploadStep, Visit, Visiting

\* Every step keeps what is known of an untouched repository.
LEMMA UntouchedStep == IInv /\ [Next]_vars => UntouchedInv'
<1> SUFFICES ASSUME IInv, [Next]_vars PROVE UntouchedInv'
  OBVIOUS
<1> USE UploadAssumption
    DEF IInv, TypeOK, WalkInv, UntouchedInv, WalkErrorsAreReal, Regular, Kinds,
        Labels, Ended, Building, Walking
<1>1. ASSUME Tick PROVE UntouchedInv'
  BY <1>1 DEF Tick
<1>2. ASSUME NEW p \in Path, Edit(p) PROVE UntouchedInv'
  BY <1>2 DEF Edit, Kinds
<1>3. ASSUME NEW u \in Upload, Kill(u) PROVE UntouchedInv'
  BY <1>3 DEF Kill, Forget, Goto
<1>4. ASSUME NEW u \in Upload, Begin(u) PROVE UntouchedInv'
  BY <1>4 DEF Begin, BeginWalk, Goto
<1>5. ASSUME NEW u \in Upload, NEW e \in todo[u], Visiting(u), Skip(u, e)
      PROVE UntouchedInv'
  BY <1>5 DEF Visiting, Skip, ShouldSkip
<1>6. ASSUME NEW u \in Upload, NEW e \in todo[u], Visiting(u), AddRegular(u, e)
      PROVE UntouchedInv'
  BY <1>6 DEF Visiting, AddRegular, ShouldSkip
<1>7. ASSUME NEW u \in Upload, NEW e \in todo[u], Visiting(u), PassOverSocket(u, e)
      PROVE UntouchedInv'
  BY <1>7 DEF Visiting, PassOverSocket, ShouldSkip
<1>8. ASSUME NEW u \in Upload, NEW e \in todo[u], Visiting(u), WalkFails(u, e)
      PROVE UntouchedInv'
  BY <1>8 DEF Visiting, WalkFails, ShouldSkip, Fail, Forget, Goto
<1>9. ASSUME NEW u \in Upload, WrittenUnderCopy(u) PROVE UntouchedInv'
  BY <1>9 DEF callVars, WrittenUnderCopy, ShouldSkip, Fail, Forget, Goto
<1>10. ASSUME NEW u \in Upload, Inspected(u) PROVE UntouchedInv'
  BY <1>10 DEF callVars, Inspected, Goto
<1>11. ASSUME NEW u \in Upload, Granted(u) PROVE UntouchedInv'
  BY <1>11 DEF callVars, Granted, Goto
<1>12. ASSUME NEW u \in Upload, Denied(u) \/ Expired(u) PROVE UntouchedInv'
  BY <1>12 DEF callVars, Denied, Expired, Fail, Forget, Goto
<1>13. ASSUME NEW u \in Upload, MakeTempDir(u) PROVE UntouchedInv'
  BY <1>13 DEF MakeTempDir, BeginWalk, Goto
<1>14. ASSUME NEW u \in Upload, OpenArchive(u) PROVE UntouchedInv'
  BY <1>14 DEF OpenArchive, BeginWalk, Goto
<1>15. ASSUME NEW u \in Upload, CloseArchive(u) PROVE UntouchedInv'
  BY <1>15 DEF callVars, CloseArchive, Goto
<1>16. ASSUME NEW u \in Upload, Encrypt(u) PROVE UntouchedInv'
  BY <1>16 DEF callVars, Encrypt, Fail, Forget, Goto
<1>17. ASSUME NEW u \in Upload, Post(u) PROVE UntouchedInv'
  BY <1>17 DEF callVars, Post, Fail, Forget, Goto
<1>18. ASSUME NEW u \in Upload, Answer(u) PROVE UntouchedInv'
  BY <1>18 DEF callVars, Answer, Fail, Forget, Goto
<1>19. ASSUME NEW u \in Upload, RemoveTempDir(u) PROVE UntouchedInv'
  BY <1>19 DEF callVars, RemoveTempDir, Goto
<1>20. ASSUME NEW u \in Upload, FileFails(u) PROVE UntouchedInv'
  BY <1>20 DEF FileFails, Fail, Forget, Goto
<1>21. CASE UNCHANGED vars
  BY <1>21 DEF vars
<1> QED
  BY <1>1, <1>2, <1>3, <1>4, <1>5, <1>6, <1>7, <1>8, <1>9, <1>10, <1>11,
     <1>12, <1>13, <1>14, <1>15, <1>16, <1>17, <1>18, <1>19, <1>20, <1>21
     DEF Next, UploadStep, Visit, Visiting

\* The invariant holds throughout.
THEOREM Inductive == Spec => []IInv
<1>1. IInv /\ [Next]_vars => IInv'
  BY TypeStep, WalkStep, DirStep, UntouchedStep DEF IInv
<1> QED
  BY InitInv, <1>1, PTL DEF Spec

\* Every variable has its type, in every state of client.Upload.
THEOREM TypeCorrect == Spec => []TypeOK
<1>1. IInv => TypeOK
  BY DEF IInv
<1> QED
  BY <1>1, Inductive, PTL

\* Neither Inspect nor Build takes a temporary directory for a file, be it the
\* upload's own, another's, or one that was left behind.
THEOREM SnapshotsAreClean == Spec => []NeverNested
<1>1. IInv => NeverNested
  BY UploadAssumption DEF IInv, WalkInv, NeverNested
<1> QED
  BY <1>1, Inductive, PTL

\* Build archives every file that was there throughout its walk, but for those
\* that bear a name of the program's own.
THEOREM ArchivesAreComplete == Spec => []ArchiveIsComplete
<1>1. IInv => ArchiveIsComplete
  BY DEF IInv, WalkInv, ArchiveIsComplete
<1> QED
  BY <1>1, Inductive, PTL

\* Inspect and Build never fail because of what they skip, such as another
\* upload's temporary directory that comes or goes.
THEOREM UploadsDoNotDisturb == Spec => []WalkErrorsAreReal
<1>1. IInv => WalkErrorsAreReal
  BY DEF IInv, UntouchedInv
<1> QED
  BY <1>1, Inductive, PTL

\* In an untouched repository the report that Upload returns is that of what
\* was stored.
THEOREM ReportsAreTrue == Spec => []ReportIsWhatWasStored
<1>1. IInv => ReportIsWhatWasStored
  BY DEF IInv, UntouchedInv, ReportIsWhatWasStored
<1> QED
  BY <1>1, Inductive, PTL

\* A temporary directory outlives its upload only after a kill or when its
\* removal failed.
THEOREM DirsAreOwned == Spec => []TempDirsAreOwned
<1>1. IInv => TempDirsAreOwned
  BY DEF IInv, DirInv
<1> QED
  BY <1>1, Inductive, PTL
=============================================================================
