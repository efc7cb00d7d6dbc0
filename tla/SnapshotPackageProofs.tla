----------------------- MODULE SnapshotPackageProofs -----------------------
(***************************************************************************)
(* From the repository to the store and back, for every repository, every  *)
(* configuration, any number of uploads and of changes made meanwhile, and *)
(* files of any length: what the six invariants of the Package run say.    *)
(***************************************************************************)
EXTENDS SnapshotPackage, ArchiverProofs

(***************************************************************************)
(* The invariant                                                           *)
(***************************************************************************)

\* A limit is a checked one, and without a limit nobody has begun.
ServerInv ==
  /\ server.mode = "down" => server.max = 0
  /\ \/ server.max = 0 /\ \A u \in Upload : pc[u] = "idle"
     \/ /\ server.mode \in {"development", "cloud-oss"}
        /\ server.max \in MiB .. MaxInt

Building == Walking \cup {"idle", "resolving", "hashing"}

AnyPiece ==
  {E!Prefix, E!Piece("noise", "none", "none")}
    \cup {E!Header(u, id) : u \in Upload, id \in Upload}
    \cup {E!Piece("body", u, i) : u \in Upload, i \in Nat}
    \cup {E!Tag(u) : u \in Upload}

\* A file starts the way Pieces does.
Starts(file, u) ==
  /\ file \in Seq(AnyPiece)
  /\ Len(file) <= Len(archive[u]) + 3
  /\ \A i \in DOMAIN file : file[i] = E!Pieces(u)[i]

IsWhole(file, u) == Starts(file, u) /\ Len(file) = Len(archive[u]) + 3

\* The MAC has seen what was written, but for the tag; what it saw outlives
\* the file.
MacInv(u) ==
  /\ output[u] # << >> =>
       Len(macced[u]) = IF IsWhole(output[u], u) THEN Len(output[u]) - 1 ELSE Len(output[u])
  /\ output[u] = << >> /\ pc[u] \in {"built", "writing"} => macced[u] = << >>

\* Build comes before any of it.
EmptyInv(u) == pc[u] \in Building => output[u] = << >> /\ macced[u] = << >>

\* Only a call that is writing, or was killed, leaves a part of a file.
WholeInv(u) ==
  /\ pc[u] \in {"encrypted", "stored", "refused"} => IsWhole(output[u], u)
  /\ pc[u] \in {"failed", "toolarge"} => output[u] = << >> \/ IsWhole(output[u], u)
  /\ pc[u] = "stored" => stored[u] = output[u]

LimitInv(u) ==
  /\ Len(output[u]) <= server.max
  /\ pc[u] = "toolarge" => Len(archive[u]) + 3 > server.max

RefusedInv(u) ==
  pc[u] = "refused" => server.mode = "development" /\ server.max > MaxInt - 2 * MiB

FileInv(u) ==
  /\ Starts(output[u], u) /\ Starts(macced[u], u)
  /\ MacInv(u) /\ EmptyInv(u) /\ WholeInv(u) /\ LimitInv(u) /\ RefusedInv(u)

PackageTypeOK ==
  /\ server \in [mode : {"down", "failed", "development", "cloud-oss"}, max : Int]
  /\ output \in [Upload -> Seq(AnyPiece)]
  /\ macced \in [Upload -> Seq(AnyPiece)]
  /\ stored \in [Upload -> Seq(AnyPiece)]

PackageInv ==
  /\ ArchiverInv
  /\ PackageTypeOK
  /\ ServerInv
  /\ \A u \in Upload : FileInv(u)
-----------------------------------------------------------------------------
(***************************************************************************)
(* Lemmas about the pieces of a file                                       *)
(***************************************************************************)

\* What an archive is, as a sequence.
LEMMA ArchiveTyped ==
  ASSUME ArchiverInv, NEW u \in Upload
  PROVE  /\ Len(archive[u]) \in Nat
         /\ DOMAIN archive[u] = 1 .. Len(archive[u])
         /\ archive[u] = [i \in 1 .. Len(archive[u]) |-> archive[u][i]]
<1>1. archive[u] \in Seq([path : Path \cup {0}, ver : Nat])
  BY DEF ArchiverInv, ArchiverTypeOK
<1> QED
  BY <1>1, LenProperties

\* A file is the prefix, the header, the entries of the archive, and the tag.
LEMMA PiecesShape ==
  ASSUME NEW u \in Upload, Len(archive[u]) \in Nat, DOMAIN archive[u] = 1 .. Len(archive[u])
  PROVE  /\ E!Pieces(u) \in Seq(AnyPiece)
         /\ Len(E!Pieces(u)) = Len(archive[u]) + 3
         /\ DOMAIN E!Pieces(u) = 1 .. Len(archive[u]) + 3
         /\ E!Pieces(u)[1] = E!Prefix /\ E!Pieces(u)[2] = E!Header(u, u)
         /\ \A i \in 1 .. Len(archive[u]) : E!Pieces(u)[i + 2] = E!Piece("body", u, i)
         /\ E!Pieces(u)[Len(archive[u]) + 3] = E!Tag(u)
<1> DEFINE n == Len(archive[u])
           head == <<E!Prefix, E!Header(u, u)>>
           body == [i \in 1 .. n |-> E!Piece("body", u, i)]
           tag == <<E!Tag(u)>>
<1>1. E!Prefix \in AnyPiece /\ E!Header(u, u) \in AnyPiece /\ E!Tag(u) \in AnyPiece
      /\ \A i \in 1 .. n : E!Piece("body", u, i) \in AnyPiece
  BY DEF AnyPiece
<1>2. E!Pieces(u) = (head \o body) \o tag
  BY DEF E!Pieces
<1> HIDE DEF AnyPiece
<1>3. head \in Seq(AnyPiece) /\ Len(head) = 2 /\ head[1] = E!Prefix /\ head[2] = E!Header(u, u)
  BY <1>1
<1>4. tag \in Seq(AnyPiece) /\ Len(tag) = 1 /\ tag[1] = E!Tag(u)
  BY <1>1
<1>5. body \in Seq(AnyPiece) /\ Len(body) = n /\ \A i \in 1 .. n : body[i] = E!Piece("body", u, i)
  BY <1>1
<1> HIDE DEF n, head, body, tag
<1>6. /\ head \o body \in Seq(AnyPiece) /\ Len(head \o body) = n + 2
      /\ (head \o body)[1] = E!Prefix /\ (head \o body)[2] = E!Header(u, u)
      /\ \A i \in 1 .. n : (head \o body)[i + 2] = E!Piece("body", u, i)
      /\ n \in Nat
  <2>1. /\ head \o body \in Seq(AnyPiece) /\ Len(head \o body) = Len(head) + Len(body)
        /\ \A i \in 1 .. Len(head) + Len(body) :
             (head \o body)[i] = IF i <= Len(head) THEN head[i] ELSE body[i - Len(head)]
    BY <1>3, <1>5, ConcatProperties
  <2>2. n \in Nat
    BY DEF n
  <2>3. \A i \in 1 .. n : i + 2 \in 1 .. 2 + n /\ ~(i + 2 <= 2) /\ (i + 2) - 2 = i
    BY <2>2
  <2> QED
    BY <1>3, <1>5, <2>1, <2>2, <2>3
<1>7. /\ E!Pieces(u) \in Seq(AnyPiece) /\ Len(E!Pieces(u)) = n + 3
      /\ \A i \in 1 .. n + 3 :
           E!Pieces(u)[i] = IF i <= n + 2 THEN (head \o body)[i] ELSE tag[i - (n + 2)]
  <2> DEFINE front == head \o body
  <2>1. front \in Seq(AnyPiece) /\ Len(front) = n + 2 /\ E!Pieces(u) = front \o tag
    BY <1>2, <1>6
  <2> HIDE DEF front
  <2>2. /\ front \o tag \in Seq(AnyPiece) /\ Len(front \o tag) = Len(front) + Len(tag)
        /\ \A i \in 1 .. Len(front) + Len(tag) :
             (front \o tag)[i] = IF i <= Len(front) THEN front[i] ELSE tag[i - Len(front)]
    BY <1>4, <2>1, ConcatProperties
  <2>3. (n + 2) + 1 = n + 3
    BY <1>6
  <2> QED
    BY <1>4, <2>1, <2>2, <2>3 DEF front
<1>8. DOMAIN E!Pieces(u) = 1 .. n + 3
  BY <1>7, LenProperties
<1>9. /\ \A i \in 1 .. n : i + 2 \in 1 .. n + 3 /\ i + 2 <= n + 2
      /\ 1 \in 1 .. n + 3 /\ 1 <= n + 2 /\ 2 \in 1 .. n + 3 /\ 2 <= n + 2
      /\ n + 3 \in 1 .. n + 3 /\ ~(n + 3 <= n + 2) /\ (n + 3) - (n + 2) = 1
  BY <1>6
<1>10. E!Pieces(u)[1] = E!Prefix /\ E!Pieces(u)[2] = E!Header(u, u)
  BY <1>6, <1>7, <1>9
<1>11. \A i \in 1 .. n : E!Pieces(u)[i + 2] = E!Piece("body", u, i)
  BY <1>6, <1>7, <1>9
<1>12. E!Pieces(u)[n + 3] = E!Tag(u)
  BY <1>4, <1>7, <1>9
<1> QED
  BY <1>7, <1>8, <1>10, <1>11, <1>12 DEF n

\* The tag is the last piece and no other; the header is the second.
LEMMA PiecesKinds ==
  ASSUME ArchiverInv, NEW u \in Upload, NEW i \in 1 .. Len(archive[u]) + 3
  PROVE  /\ E!Pieces(u)[i][1] = "tag" <=> i = Len(archive[u]) + 3
         /\ E!Pieces(u)[i][1] = "header" <=> i = 2
         /\ E!Pieces(u)[i][1] = "prefix" <=> i = 1
         /\ i > 1 => E!Pieces(u)[i][2] = u
         /\ E!Pieces(u)[i][1] # "noise"
<1> DEFINE n == Len(archive[u])
<1>1. /\ E!Pieces(u)[1] = <<"prefix", "none", "none">>
      /\ E!Pieces(u)[2] = <<"header", u, u>>
      /\ \A j \in 1 .. n : E!Pieces(u)[j + 2] = <<"body", u, j>>
      /\ E!Pieces(u)[n + 3] = <<"tag", u, "mac">>
      /\ n \in Nat
  BY ArchiveTyped, PiecesShape DEF E!Prefix, E!Header, E!Piece, E!Tag
<1>2. i = 1 \/ i = 2 \/ i = n + 3 \/ (i - 2 \in 1 .. n /\ (i - 2) + 2 = i)
  BY <1>1
<1> HIDE DEF n
<1>3. CASE i - 2 \in 1 .. n /\ (i - 2) + 2 = i
  <2>1. E!Pieces(u)[i] = <<"body", u, i - 2>>
    BY <1>1, <1>3
  <2> QED
    BY <1>1, <1>3, <2>1 DEF n
<1>4. CASE i = 1 \/ i = 2 \/ i = n + 3
  BY <1>1, <1>4 DEF n
<1> QED
  BY <1>2, <1>3, <1>4
-----------------------------------------------------------------------------
(***************************************************************************)
(* The steps                                                               *)
(***************************************************************************)

\* A step that leaves the repository and every Build alone.
LEMMA ArchiverStays ==
  ASSUME ArchiverInv, UNCHANGED archiverVars
  PROVE  ArchiverInv'
<1>1. ArchiverTypeOK' /\ TreeInv'
  BY DEF ArchiverInv, ArchiverTypeOK, TreeInv, archiverVars
<1>2. \A u \in Upload : BuildInv(u)'
  BY OthersStay DEF ArchiverInv, archiverVars
<1> QED
  BY <1>1, <1>2 DEF ArchiverInv

\* What is known of a call's files stays while nobody touches them.
LEMMA FilesStay ==
  ASSUME NEW u \in Upload, FileInv(u), server' = server,
         pc'[u] = pc[u], archive'[u] = archive[u],
         output'[u] = output[u], macced'[u] = macced[u], stored'[u] = stored[u]
  PROVE  FileInv(u)'
<1>1. E!Pieces(u)' = E!Pieces(u)
  BY DEF E!Pieces
<1>2. AnyPiece' = AnyPiece
  BY DEF AnyPiece, E!Prefix, E!Header, E!Tag, E!Piece
<1>3. /\ Starts(output[u], u)' <=> Starts(output[u], u)
      /\ Starts(macced[u], u)' <=> Starts(macced[u], u)
  BY <1>1, <1>2 DEF Starts
<1> QED
  BY <1>3 DEF FileInv, MacInv, IsWhole, EmptyInv, WholeInv, LimitInv, RefusedInv

\* It is enough, then, to look at the call that takes the step.
LEMMA OwnFileStep ==
  ASSUME PackageInv, NEW u \in Upload, ArchiverInv', PackageTypeOK',
         server' = server, server.max # 0,
         \A v \in Upload \ {u} :
           /\ pc'[v] = pc[v] /\ archive'[v] = archive[v]
           /\ output'[v] = output[v] /\ macced'[v] = macced[v] /\ stored'[v] = stored[v],
         FileInv(u)'
  PROVE  PackageInv'
<1>1. ServerInv'
  BY DEF PackageInv, ServerInv
<1>2. \A v \in Upload : FileInv(v)'
  BY FilesStay DEF PackageInv
<1> QED
  BY <1>1, <1>2 DEF PackageInv

\* Somebody changes a file of the repository.
LEMMA EditKeeps ==
  ASSUME PackageInv, NEW p \in File, Edit(p), UNCHANGED <<server, output, macced, stored>>
  PROVE  PackageInv'
<1>1. ArchiverInv'
  BY EditStep DEF PackageInv
<1>2. UNCHANGED <<pc, archive>>
  BY DEF Edit, walkVars
<1>3. PackageTypeOK' /\ ServerInv'
  BY <1>2 DEF PackageInv, PackageTypeOK, ServerInv, AnyPiece, E!Prefix, E!Header, E!Tag, E!Piece
<1>4. \A u \in Upload : FileInv(u)'
  BY <1>2, FilesStay DEF PackageInv
<1> QED
  BY <1>1, <1>3, <1>4 DEF PackageInv

\* The limit of a server that runs is at least one MiB, and an int64.
LEMMA LimitChecked ==
  ASSUME NEW c \in Config, Accepted(c)
  PROVE  /\ ApplyDefaults(c).mode \in {"development", "cloud-oss"}
         /\ ApplyDefaults(c).max \in MiB .. MaxInt
<1>1. c \in ConfigFile
  BY PackageAssumption
<1>2. c.max \in -MaxInt - 1 .. MaxInt
  BY <1>1 DEF ConfigFile
<1>3. /\ ApplyDefaults(c).max = IF c.max = 0 THEN DefaultMax ELSE c.max
      /\ ApplyDefaults(c).mode = IF c.mode = "" THEN "development" ELSE c.mode
  BY <1>1 DEF ApplyDefaults, ConfigFile
<1>4. ApplyDefaults(c).max >= MiB /\ ApplyDefaults(c).mode \in {"development", "cloud-oss"}
  BY DEF Accepted, Valid
<1>5. MaxInt \in Nat /\ MiB \in Nat /\ DefaultMax \in Int /\ DefaultMax <= MaxInt
  BY ConfigAssumption
<1>6. ApplyDefaults(c).max \in Int /\ ApplyDefaults(c).max <= MaxInt
  <2>1. CASE c.max = 0
    BY <1>3, <1>5, <2>1
  <2>2. CASE c.max # 0
    <3>1. ApplyDefaults(c).max = c.max
      BY <1>3, <2>2
    <3>2. c.max \in Int /\ c.max <= MaxInt
      BY <1>2, <1>5
    <3> QED
      BY <3>1, <3>2
  <2> QED
    BY <2>1, <2>2
<1> QED
  BY <1>4, <1>5, <1>6

\* The server starts, or refuses to.
LEMMA StartKeeps ==
  ASSUME PackageInv, StartServer
  PROVE  PackageInv'
<1>1. PICK c \in Config :
        server' = IF Accepted(c)
                  THEN [mode |-> ApplyDefaults(c).mode, max |-> ApplyDefaults(c).max]
                  ELSE [mode |-> "failed", max |-> 0]
  BY DEF StartServer
<1>2. /\ UNCHANGED <<archiverVars, output, macced, stored>>
      /\ \A u \in Upload : pc[u] = "idle"
  <2>1. server.mode = "down" /\ UNCHANGED <<archiverVars, output, macced, stored>>
    BY DEF StartServer
  <2> QED
    BY <2>1 DEF PackageInv, ServerInv
<1>3. /\ server' \in [mode : {"down", "failed", "development", "cloud-oss"}, max : Int]
      /\ server'.mode # "down" /\ server'.max >= 0
      /\ \/ server'.max = 0
         \/ server'.mode \in {"development", "cloud-oss"} /\ server'.max \in MiB .. MaxInt
  <2>1. CASE Accepted(c)
    BY <1>1, <2>1, LimitChecked, ConfigAssumption
  <2>2. CASE ~Accepted(c)
    BY <1>1, <2>2
  <2> QED
    BY <2>1, <2>2
<1>4. ArchiverInv' /\ PackageTypeOK' /\ ServerInv'
  BY <1>2, <1>3, ArchiverStays
     DEF PackageInv, PackageTypeOK, ServerInv, archiverVars,
         AnyPiece, E!Prefix, E!Header, E!Tag, E!Piece
<1>5. ASSUME NEW u \in Upload
      PROVE  FileInv(u)'
  <2>1. pc[u] = "idle" /\ FileInv(u) /\ output[u] = << >> /\ macced[u] = << >>
    BY <1>2 DEF PackageInv, FileInv, EmptyInv, Building
  <2>2. UNCHANGED <<pc, archive, output, macced, stored>>
    BY <1>2 DEF archiverVars
  <2>3. E!Pieces(u)' = E!Pieces(u) /\ AnyPiece' = AnyPiece
    BY <2>2 DEF E!Pieces, AnyPiece, E!Prefix, E!Header, E!Tag, E!Piece
  <2>4. Starts(output[u], u)' /\ Starts(macced[u], u)'
    BY <2>1, <2>2, <2>3 DEF FileInv, Starts
  <2>5. LimitInv(u)'
    BY <1>3, <2>1, <2>2 DEF LimitInv
  <2> QED
    BY <2>1, <2>2, <2>4, <2>5 DEF FileInv, MacInv, EmptyInv, WholeInv, RefusedInv
<1> QED
  BY <1>4, <1>5 DEF PackageInv

\* Where a step of Build leads, and that it is of one call.
LEMMA BuildPlaces ==
  ASSUME ArchiverInv, NEW u \in Upload, Build(u)
  PROVE  /\ pc[u] \in Building /\ pc'[u] \in Building \cup {"built", "failed"}
         /\ \A v \in Upload \ {u} : pc'[v] = pc[v] /\ archive'[v] = archive[v]
<1>1. pc[u] \in Building
  BY DEF Build, BeginBuild, StatCandidate, HashCandidate, OpenOutput, Skip, AddHeader, OpenFile,
         CopyFile, CloseArchive, IoFails, Visit, Building, Walking
<1>2. pc \in [Upload -> Label] /\ DOMAIN archive = Upload
  BY DEF ArchiverInv, ArchiverTypeOK
<1>3. /\ \/ BuildFails(u)
         \/ \E label \in Building \cup {"built"} : Goto(u, label)
         \/ pc' = pc
      /\ \/ archive' = archive
         \/ \E s : archive' = [archive EXCEPT ![u] = s]
  BY DEF Build, BeginBuild, StatCandidate, HashCandidate, OpenOutput, Skip, AddHeader, OpenFile,
         CopyFile, CloseArchive, IoFails, BuildFails, walkVars, Building, Walking
<1> QED
  BY <1>1, <1>2, <1>3 DEF Goto, BuildFails

\* Build, before any file is encrypted.
LEMMA BuildKeeps ==
  ASSUME PackageInv, NEW u \in Upload, server.max > 0, Build(u),
         UNCHANGED <<server, output, macced, stored>>
  PROVE  PackageInv'
<1>1. ArchiverInv'
  BY BuildStep DEF PackageInv
<1>2. /\ pc[u] \in Building /\ pc'[u] \in Building \cup {"built", "failed"}
      /\ \A v \in Upload \ {u} : pc'[v] = pc[v] /\ archive'[v] = archive[v]
  BY BuildPlaces DEF PackageInv
<1>3. PackageTypeOK'
  BY DEF PackageInv, PackageTypeOK, AnyPiece, E!Prefix, E!Header, E!Tag, E!Piece
<1>4. /\ output'[u] = << >> /\ macced'[u] = << >>
      /\ server' = server /\ server.max \in Int /\ server.max > 0
  BY <1>2 DEF PackageInv, FileInv, EmptyInv, PackageTypeOK
<1>5. FileInv(u)'
  <2>1. archive'[u] \in Seq([path : Path \cup {0}, ver : Nat])
    BY <1>1 DEF ArchiverInv, ArchiverTypeOK
  <2>2. Len(archive'[u]) \in Nat
    BY <2>1, LenProperties
  <2>3. << >> \in Seq(AnyPiece')
    BY EmptySeq
  <2>4. Starts(output[u], u)' /\ Starts(macced[u], u)'
    BY <1>4, <2>2, <2>3 DEF Starts
  <2>5. pc'[u] \notin {"toolarge", "encrypted", "stored", "refused"}
    BY <1>2 DEF Building, Walking
  <2> QED
    BY <1>4, <2>4, <2>5
       DEF FileInv, MacInv, EmptyInv, WholeInv, LimitInv, RefusedInv
<1> QED
  BY <1>1, <1>2, <1>3, <1>5, OwnFileStep

\* After Build, a call that moves on without touching its files.
LEMMA MoveKeeps ==
  ASSUME PackageInv, NEW u \in Upload,
         NEW label \in {"failed", "toolarge", "writing", "encrypted", "stored", "refused", "killed"},
         Goto(u, label), pc[u] # "idle",
         label \in {"writing", "encrypted", "stored"} => pc[u] \in Whole,
         label = "writing" => pc[u] = "built",
         label \in {"encrypted", "stored", "refused", "failed"} => IsWhole(output[u], u),
         label = "stored" => stored'[u] = output[u],
         label = "refused" => server.mode = "development" /\ server.max > MaxInt - 2 * MiB,
         label # "toolarge",
         stored' \in [Upload -> Seq(AnyPiece)], \A v \in Upload \ {u} : stored'[v] = stored[v],
         UNCHANGED <<tree, edited, manifest, statted, todo, copying, archive, server, output, macced>>
  PROVE  PackageInv'
<1>1. ArchiverInv'
  <2>1. label \in Label \ (Walking \cup {"idle", "resolving", "hashing", "built"})
    BY DEF Label, Whole, Walking
  <2>2. label \in Whole => pc[u] \in Whole
    BY DEF Whole
  <2> QED
    BY <2>1, <2>2, MoveOn DEF PackageInv
<1>2. \A v \in Upload : pc'[v] = IF v = u THEN label ELSE pc[v]
  BY DEF Goto, PackageInv, ArchiverInv, ArchiverTypeOK
<1>3. AnyPiece' = AnyPiece /\ E!Pieces(u)' = E!Pieces(u)
  BY DEF E!Pieces, AnyPiece, E!Prefix, E!Header, E!Tag, E!Piece
<1>4. PackageTypeOK'
  BY <1>3 DEF PackageInv, PackageTypeOK
<1>5. server.max # 0
  BY ConfigAssumption DEF PackageInv, ServerInv
<1>6. FileInv(u)'
  <2>1. /\ Starts(output[u], u)' <=> Starts(output[u], u)
        /\ Starts(macced[u], u)' <=> Starts(macced[u], u)
    BY <1>3 DEF Starts
  <2>2. FileInv(u)
    BY DEF PackageInv
  <2>3. MacInv(u)' /\ EmptyInv(u)'
    BY <1>2, <2>1, <2>2 DEF FileInv, MacInv, EmptyInv, IsWhole, Building, Walking
  <2>4. WholeInv(u)' /\ LimitInv(u)' /\ RefusedInv(u)'
    BY <1>2, <2>1, <2>2 DEF FileInv, WholeInv, IsWhole, LimitInv, RefusedInv
  <2> QED
    BY <2>1, <2>2, <2>3, <2>4 DEF FileInv
<1>7. /\ server' = server
      /\ \A v \in Upload \ {u} :
           /\ pc'[v] = pc[v] /\ archive'[v] = archive[v]
           /\ output'[v] = output[v] /\ macced'[v] = macced[v] /\ stored'[v] = stored[v]
  BY <1>2
<1> QED
  BY <1>1, <1>4, <1>5, <1>6, <1>7, OwnFileStep

\* An error return of EncryptFile.
LEMMA EncryptFailsKeeps ==
  ASSUME PackageInv, NEW u \in Upload, NEW label \in {"failed", "toolarge"},
         E!EncryptFails(u, label), server.max > 0,
         label = "toolarge" => Len(archive[u]) + 3 > server.max,
         UNCHANGED <<server, stored, tree, edited, manifest, statted, todo, copying>>
  PROVE  PackageInv'
<1>1. /\ Goto(u, label)
      /\ output' = [output EXCEPT ![u] = << >>]
      /\ UNCHANGED <<archive, macced>>
  BY DEF E!EncryptFails, E!Leave, Goto
<1>2. ArchiverInv'
  <2>1. label \in Label \ (Walking \cup {"idle", "resolving", "hashing", "built"}) /\ label \notin Whole
    BY DEF Label, Whole, Walking
  <2> QED
    BY <1>1, <2>1, MoveOn DEF PackageInv
<1>3. /\ \A v \in Upload : pc'[v] = IF v = u THEN label ELSE pc[v]
      /\ \A v \in Upload : output'[v] = IF v = u THEN << >> ELSE output[v]
  BY <1>1 DEF Goto, PackageInv, PackageTypeOK, ArchiverInv, ArchiverTypeOK
<1>4. AnyPiece' = AnyPiece /\ E!Pieces(u)' = E!Pieces(u)
  BY <1>1 DEF E!Pieces, AnyPiece, E!Prefix, E!Header, E!Tag, E!Piece
<1>5. PackageTypeOK'
  <2>1. << >> \in Seq(AnyPiece)
    BY EmptySeq
  <2> QED
    BY <1>1, <1>4, <2>1 DEF PackageInv, PackageTypeOK
<1>6. FileInv(u)'
  <2>1. FileInv(u) /\ Len(archive[u]) \in Nat /\ server.max \in Int
    BY ArchiveTyped DEF PackageInv, PackageTypeOK
  <2>2. Starts(macced[u], u)' <=> Starts(macced[u], u)
    BY <1>1, <1>4 DEF Starts
  <2>3. output'[u] = << >> /\ << >> \in Seq(AnyPiece') /\ archive'[u] = archive[u]
    BY <1>1, <1>3, EmptySeq
  <2>4. Starts(output[u], u)'
    BY <2>1, <2>3 DEF Starts
  <2>5. pc'[u] = label
    BY <1>3
  <2>6. MacInv(u)' /\ EmptyInv(u)' /\ WholeInv(u)'
    BY <2>3, <2>5 DEF MacInv, EmptyInv, WholeInv, Building, Walking
  <2>7. LimitInv(u)' /\ RefusedInv(u)'
    BY <1>1, <2>1, <2>3, <2>5 DEF LimitInv, RefusedInv
  <2> QED
    BY <2>1, <2>2, <2>4, <2>6, <2>7 DEF FileInv
<1> QED
  BY <1>1, <1>2, <1>3, <1>5, <1>6, OwnFileStep

\* One more piece of a file that starts right.
LEMMA NextStarts ==
  ASSUME ArchiverInv, NEW u \in Upload, NEW file, Starts(file, u),
         Len(file) < Len(archive[u]) + 3
  PROVE  /\ Starts(Append(file, E!Pieces(u)[Len(file) + 1]), u)
         /\ Len(Append(file, E!Pieces(u)[Len(file) + 1])) = Len(file) + 1
<1> DEFINE n == Len(archive[u])
           x == E!Pieces(u)[Len(file) + 1]
           longer == Append(file, x)
<1>1. n \in Nat /\ E!Pieces(u) \in Seq(AnyPiece) /\ Len(E!Pieces(u)) = n + 3
  BY ArchiveTyped, PiecesShape
<1>2. file \in Seq(AnyPiece) /\ Len(file) \in Nat /\ DOMAIN file = 1 .. Len(file)
  BY LenProperties DEF Starts
<1>3. Len(file) + 1 \in 1 .. n + 3
  BY <1>1, <1>2
<1>4. x \in AnyPiece
  BY <1>1, <1>3, ElementOfSeq
<1> HIDE DEF x
<1>5. /\ longer \in Seq(AnyPiece) /\ Len(longer) = Len(file) + 1
      /\ \A i \in 1 .. Len(file) : longer[i] = file[i]
      /\ longer[Len(file) + 1] = x
  BY <1>2, <1>4, AppendProperties
<1> HIDE DEF longer
<1>6. \A i \in DOMAIN longer : longer[i] = E!Pieces(u)[i]
  <2>1. DOMAIN longer = 1 .. Len(file) + 1
    BY <1>5, LenProperties
  <2> SUFFICES ASSUME NEW i \in 1 .. Len(file) + 1 PROVE longer[i] = E!Pieces(u)[i]
    BY <2>1
  <2>2. CASE i \in 1 .. Len(file)
    BY <1>2, <1>5, <2>2 DEF Starts
  <2>3. CASE i = Len(file) + 1
    BY <1>5, <2>3 DEF x
  <2> QED
    BY <1>2, <2>2, <2>3
<1> QED
  BY <1>3, <1>5, <1>6 DEF Starts, longer, x

\* A piece is written: it is right, and the MAC sees it unless it is the tag.
LEMMA WriteKeeps ==
  ASSUME PackageInv, NEW u \in Upload, server.max > 0, E!WriteBoth(u),
         UNCHANGED <<server, stored, tree, edited, manifest, statted, todo, copying>>
  PROVE  PackageInv'
<1> DEFINE n == Len(archive[u])
           k == Len(output[u])
           x == E!Pieces(u)[k + 1]
<1>1. /\ pc[u] = "writing" /\ UNCHANGED <<pc, archive>>
      /\ k < Len(E!Pieces(u)) /\ k + 1 <= server.max
      /\ output' = [output EXCEPT ![u] = Append(output[u], x)]
      /\ macced' = IF x = E!Tag(u) THEN macced ELSE [macced EXCEPT ![u] = Append(macced[u], x)]
  BY DEF E!WriteBoth, E!Fits, E!NextPiece
<1>2. /\ ArchiverInv /\ PackageTypeOK /\ FileInv(u)
      /\ Starts(output[u], u) /\ Starts(macced[u], u) /\ MacInv(u)
  BY DEF PackageInv, FileInv
<1>3. n \in Nat /\ Len(E!Pieces(u)) = n + 3
  BY <1>2, ArchiveTyped, PiecesShape
<1>4. output[u] \in Seq(AnyPiece) /\ macced[u] \in Seq(AnyPiece) /\ k \in Nat /\ Len(macced[u]) \in Nat
  BY <1>2, LenProperties DEF Starts
<1>5. Starts(Append(output[u], x), u) /\ Len(Append(output[u], x)) = k + 1
  BY <1>1, <1>2, <1>3, NextStarts
<1>6. Len(macced[u]) = k
  <2>1. CASE output[u] = << >>
    <3>1. macced[u] = << >>
      BY <1>1, <1>2, <2>1 DEF MacInv
    <3> QED
      BY <2>1, <3>1
  <2>2. CASE output[u] # << >>
    BY <1>1, <1>2, <1>3, <1>4, <2>2 DEF MacInv, IsWhole
  <2> QED
    BY <2>1, <2>2
<1>7. Starts(Append(macced[u], x), u) /\ Len(Append(macced[u], x)) = k + 1
  BY <1>1, <1>2, <1>3, <1>6, NextStarts
<1>8. x = E!Tag(u) <=> k + 1 = n + 3
  <2>1. k + 1 \in 1 .. n + 3
    BY <1>1, <1>3, <1>4
  <2>2. E!Pieces(u)[k + 1][1] = "tag" <=> k + 1 = n + 3
    BY <1>2, <2>1, PiecesKinds
  <2>3. E!Tag(u)[1] = "tag" /\ E!Pieces(u)[n + 3] = E!Tag(u)
    BY <1>2, ArchiveTyped, PiecesShape DEF E!Tag, E!Piece
  <2> QED
    BY <2>2, <2>3
<1> HIDE DEF x
<1>9. /\ \A v \in Upload : output'[v] = IF v = u THEN Append(output[u], x) ELSE output[v]
      /\ output' \in [Upload -> Seq(AnyPiece)]
  BY <1>1, <1>2, <1>5 DEF PackageTypeOK, Starts
<1>10. /\ Starts(macced'[u], u)
       /\ \A v \in Upload \ {u} : macced'[v] = macced[v]
       /\ macced' \in [Upload -> Seq(AnyPiece)]
       /\ Len(macced'[u]) = IF k + 1 = n + 3 THEN k ELSE k + 1
  BY <1>1, <1>2, <1>6, <1>7, <1>8 DEF PackageTypeOK, Starts
<1>11. ArchiverInv'
  BY <1>1, <1>2, ArchiverStays DEF archiverVars
<1>12. AnyPiece' = AnyPiece /\ E!Pieces(u)' = E!Pieces(u)
  BY <1>1 DEF E!Pieces, AnyPiece, E!Prefix, E!Header, E!Tag, E!Piece
<1>13. PackageTypeOK'
  BY <1>2, <1>9, <1>10, <1>12 DEF PackageTypeOK
<1>14. FileInv(u)'
  <2>1. output'[u] = Append(output[u], x) /\ archive'[u] = archive[u] /\ pc'[u] = "writing"
    BY <1>1, <1>9
  <2>2. Starts(output[u], u)' /\ Starts(macced[u], u)' /\ Len(output'[u]) = k + 1
    BY <1>5, <1>10, <1>12, <2>1 DEF Starts
  <2>3. IsWhole(output[u], u)' <=> k + 1 = n + 3
    BY <2>1, <2>2 DEF IsWhole
  <2>4. output'[u] # << >>
    BY <1>4, <2>2
  <2>5. MacInv(u)'
    BY <1>4, <1>10, <2>2, <2>3, <2>4 DEF MacInv
  <2>6. EmptyInv(u)' /\ WholeInv(u)' /\ LimitInv(u)' /\ RefusedInv(u)'
    BY <1>1, <2>1, <2>2 DEF EmptyInv, WholeInv, LimitInv, RefusedInv, Building, Walking
  <2> QED
    BY <2>2, <2>5, <2>6 DEF FileInv
<1>15. /\ server' = server /\ server.max # 0
       /\ \A v \in Upload \ {u} :
            /\ pc'[v] = pc[v] /\ archive'[v] = archive[v]
            /\ output'[v] = output[v] /\ macced'[v] = macced[v] /\ stored'[v] = stored[v]
  BY <1>1, <1>9, <1>10
<1> QED
  BY <1>11, <1>13, <1>14, <1>15, OwnFileStep

\* EncryptFile.
LEMMA EncryptKeeps ==
  ASSUME PackageInv, NEW u \in Upload, server.max > 0, E!EncryptFile(u),
         UNCHANGED <<server, stored, tree, edited, manifest, statted, todo, copying>>
  PROVE  PackageInv'
<1>1. stored \in [Upload -> Seq(AnyPiece)] /\ server.max \in Int
  BY DEF PackageInv, PackageTypeOK
<1>2. CASE E!BeginEncrypt(u)
  <2>1. CASE E!EncryptFails(u, "failed")
    BY <2>1, EncryptFailsKeeps
  <2>2. CASE Goto(u, "writing") /\ UNCHANGED <<archive, output, macced>>
    BY <1>1, <1>2, <2>2, MoveKeeps DEF E!BeginEncrypt, Whole
  <2> QED
    BY <1>2, <2>1, <2>2 DEF E!BeginEncrypt, E!Leave, Goto, E!fileVars
<1>3. CASE E!WriteBoth(u)
  BY <1>3, WriteKeeps
<1>4. CASE E!WriteFails(u)
  <2>1. CASE E!EncryptFails(u, "failed")
    BY <2>1, EncryptFailsKeeps
  <2>2. CASE /\ Len(output[u]) < Len(E!Pieces(u)) /\ ~E!Fits(u)
             /\ E!EncryptFails(u, "toolarge")
    <3>1. Len(output[u]) + 1 > server.max
      BY <1>1, <2>2 DEF E!Fits
    <3>2. Len(E!Pieces(u)) = Len(archive[u]) + 3 /\ Len(archive[u]) \in Nat /\ Len(output[u]) \in Nat
      BY ArchiveTyped, PiecesShape, LenProperties DEF PackageInv, PackageTypeOK
    <3>3. Len(archive[u]) + 3 > server.max
      BY <1>1, <2>2, <3>1, <3>2
    <3> QED
      BY <2>2, <3>3, EncryptFailsKeeps
  <2> QED
    BY <1>4, <2>1, <2>2 DEF E!WriteFails
<1>5. CASE E!FinishEncrypt(u)
  <2>1. /\ pc[u] = "writing" /\ Len(output[u]) = Len(E!Pieces(u))
        /\ Goto(u, "encrypted") \/ Goto(u, "failed")
        /\ UNCHANGED <<archive, output, macced>>
    BY <1>5 DEF E!FinishEncrypt, E!Leave, Goto, E!fileVars
  <2>2. IsWhole(output[u], u)
    BY <2>1, ArchiveTyped, PiecesShape DEF PackageInv, FileInv, IsWhole
  <2>3. CASE Goto(u, "encrypted")
    BY <1>1, <2>1, <2>2, <2>3, MoveKeeps DEF Whole
  <2>4. CASE Goto(u, "failed")
    BY <1>1, <2>1, <2>2, <2>4, MoveKeeps DEF Whole
  <2> QED
    BY <2>1, <2>3, <2>4
<1> QED
  BY <1>2, <1>3, <1>4, <1>5 DEF E!EncryptFile
-----------------------------------------------------------------------------
(***************************************************************************)
(* The sums of two int64 in the store's limits                             *)
(***************************************************************************)

\* A sum that an int64 holds is exact.
LEMMA WrapFits ==
  ASSUME NEW n \in -MaxInt - 1 .. MaxInt
  PROVE  Wrap(n) = n
<1>1. \A m \in Nat \ {0} : \A x \in 0 .. m - 1 : x % m = x
  OBVIOUS
<1>2. 2 * (MaxInt + 1) \in Nat \ {0} /\ n + MaxInt + 1 \in 0 .. 2 * (MaxInt + 1) - 1
  BY ConfigAssumption
<1> QED
  BY <1>1, <1>2, ConfigAssumption DEF Wrap

\* One that it does not hold comes out too small by 2^64, and negative.
LEMMA WrapOver ==
  ASSUME NEW n \in MaxInt + 1 .. 2 * MaxInt + 1
  PROVE  Wrap(n) = n - 2 * (MaxInt + 1)
<1>1. \A m \in Nat \ {0} : \A x \in m .. 2 * m - 1 : x % m = x - m
  OBVIOUS
<1>2. /\ 2 * (MaxInt + 1) \in Nat \ {0}
      /\ n + MaxInt + 1 \in 2 * (MaxInt + 1) .. 2 * (2 * (MaxInt + 1)) - 1
  BY ConfigAssumption
<1> QED
  BY <1>1, <1>2, ConfigAssumption DEF Wrap

\* The store takes a file within the limit as a whole or, in development and
\* with a limit near the largest int64, not at all.
LEMMA TakesWithinLimit ==
  ASSUME NEW max \in MiB .. MaxInt, NEW size \in Nat, size > 0, size <= max
  PROVE  /\ CloudTakes(max, size) = size
         /\ \/ DevelopmentTakes(max, size) = size
            \/ DevelopmentTakes(max, size) = -1 /\ max > MaxInt - 2 * MiB
<1>1. /\ MaxInt \in Nat /\ MiB \in Nat /\ MiB > 0 /\ 3 * MiB <= MaxInt
      /\ Framing \in Nat /\ Framing <= 2 * MiB /\ max \in Nat /\ max <= MaxInt
  BY ConfigAssumption
<1>2. CloudTakes(max, size) = size
  BY <1>1 DEF CloudTakes
<1>3. CASE max <= MaxInt - 2 * MiB
  <2>1. max + 2 * MiB \in -MaxInt - 1 .. MaxInt /\ max + 1 \in -MaxInt - 1 .. MaxInt
    BY <1>1, <1>3
  <2>2. Wrap(max + 2 * MiB) = max + 2 * MiB /\ Wrap(max + 1) = max + 1
    BY <2>1, WrapFits
  <2>3. BodyLimit(max) = max + 2 * MiB
    BY <1>1, <2>2 DEF BodyLimit
  <2>4. Copied(max, size) = size
    <3>1. ~(max + 1 < 0) /\ ~(max + 1 < size)
      BY <1>1
    <3> QED
      BY <2>2, <3>1 DEF Copied
  <2>5. ~(Copied(max, size) > max)
    BY <1>1, <2>4
  <2>6. ~(size + Framing > BodyLimit(max))
    <3>1. ~(size + Framing > max + 2 * MiB)
      BY <1>1
    <3> QED
      BY <2>3, <3>1
  <2> QED
    BY <1>2, <2>4, <2>5, <2>6 DEF DevelopmentTakes
<1>4. CASE max > MaxInt - 2 * MiB
  <2>1. max + 2 * MiB \in MaxInt + 1 .. 2 * MaxInt + 1
    BY <1>1, <1>4
  <2>2. Wrap(max + 2 * MiB) = (max + 2 * MiB) - 2 * (MaxInt + 1)
    BY <2>1, WrapOver
  <2>3. BodyLimit(max) = 0
    BY <1>1, <2>2 DEF BodyLimit
  <2>4. size + Framing > 0
    BY <1>1
  <2> QED
    BY <1>2, <1>4, <2>3, <2>4 DEF DevelopmentTakes
<1> QED
  BY <1>1, <1>3, <1>4

\* The store takes a file, or refuses it.
LEMMA StoreKeeps ==
  ASSUME PackageInv, NEW u \in Upload, Store(u)
  PROVE  PackageInv'
<1> DEFINE size == Len(output[u])
           taken == IF server.mode = "development"
                    THEN DevelopmentTakes(server.max, size)
                    ELSE CloudTakes(server.max, size)
<1>1. /\ pc[u] = "encrypted"
      /\ IF taken = -1
         THEN Goto(u, "refused") /\ UNCHANGED stored
         ELSE /\ Goto(u, "stored")
              /\ stored' = [stored EXCEPT ![u] = SubSeq(output[u], 1, taken)]
      /\ UNCHANGED <<tree, edited, manifest, statted, todo, copying, archive, server, output, macced>>
  BY DEF Store, walkVars
<1>2. /\ IsWhole(output[u], u) /\ size <= server.max
      /\ output[u] \in Seq(AnyPiece) /\ stored \in [Upload -> Seq(AnyPiece)]
  BY <1>1 DEF PackageInv, FileInv, WholeInv, LimitInv, PackageTypeOK
<1>3. size \in Nat /\ size > 0
  BY <1>2, ArchiveTyped DEF IsWhole, PackageInv
<1>4. server.max \in MiB .. MaxInt
  BY <1>1 DEF PackageInv, ServerInv
<1>5. taken = size \/ (taken = -1 /\ server.mode = "development" /\ server.max > MaxInt - 2 * MiB)
  BY <1>2, <1>3, <1>4, TakesWithinLimit
<1>6. SubSeq(output[u], 1, size) = output[u]
  BY <1>2, SubSeqFull
<1> HIDE DEF taken, size
<1>7. CASE taken = -1
  <2>1. server.mode = "development" /\ server.max > MaxInt - 2 * MiB
    BY <1>3, <1>5, <1>7
  <2> QED
    BY <1>1, <1>2, <1>7, <2>1, MoveKeeps
<1>8. CASE taken # -1
  <2>1. Goto(u, "stored") /\ stored' = [stored EXCEPT ![u] = output[u]]
    BY <1>1, <1>5, <1>6, <1>8
  <2>2. /\ stored' \in [Upload -> Seq(AnyPiece)] /\ stored'[u] = output[u]
        /\ \A v \in Upload \ {u} : stored'[v] = stored[v]
    BY <1>2, <2>1
  <2>3. pc[u] \in Whole /\ pc[u] # "idle"
    BY <1>1 DEF Whole
  <2> QED
    BY <1>1, <1>2, <2>1, <2>2, <2>3, MoveKeeps
<1> QED
  BY <1>7, <1>8
-----------------------------------------------------------------------------
\* Every step preserves the invariant.
LEMMA PackageStep ==
  ASSUME PackageInv, [PackageNext]_packageVars
  PROVE  PackageInv'
<1>1. ASSUME NEW p \in File, Edit(p), UNCHANGED <<server, output, macced, stored>>
      PROVE  PackageInv'
  BY <1>1, EditKeeps
<1>2. CASE StartServer
  BY <1>2, StartKeeps
<1>3. ASSUME NEW u \in Upload, UploadStep(u)
      PROVE  PackageInv'
  <2>1. server.max > 0 /\ UNCHANGED <<server, stored>>
    BY <1>3 DEF UploadStep
  <2>2. CASE Build(u) /\ UNCHANGED <<output, macced>>
    BY <2>1, <2>2, BuildKeeps
  <2>3. CASE E!EncryptFile(u) /\ UNCHANGED <<tree, edited, manifest, statted, todo, copying>>
    BY <2>1, <2>3, EncryptKeeps
  <2> QED
    BY <1>3, <2>2, <2>3 DEF UploadStep
<1>4. ASSUME NEW u \in Upload, Store(u)
      PROVE  PackageInv'
  BY <1>4, StoreKeeps
<1>5. ASSUME NEW u \in Upload, Kill(u)
      PROVE  PackageInv'
  <2>1. stored \in [Upload -> Seq(AnyPiece)]
    BY DEF PackageInv, PackageTypeOK
  <2> QED
    BY <1>5, <2>1, MoveKeeps DEF Kill, walkVars
<1>6. CASE UNCHANGED packageVars
  <2>1. UNCHANGED archiverVars /\ UNCHANGED <<pc, archive, server, output, macced, stored>>
    BY <1>6 DEF packageVars, archiverVars
  <2>2. ArchiverInv'
    BY <2>1, ArchiverStays DEF PackageInv
  <2>3. PackageTypeOK' /\ ServerInv'
    BY <2>1 DEF PackageInv, PackageTypeOK, ServerInv, AnyPiece, E!Prefix, E!Header, E!Tag, E!Piece
  <2>4. \A u \in Upload : FileInv(u)'
    BY <2>1, FilesStay DEF PackageInv
  <2> QED
    BY <2>2, <2>3, <2>4 DEF PackageInv
<1> QED
  BY <1>1, <1>2, <1>3, <1>4, <1>5, <1>6 DEF PackageNext

\* It holds before the server starts.
LEMMA PackageStart ==
  ASSUME PackageInit
  PROVE  PackageInv
<1>1. ArchiverInv
  BY ArchiverStart DEF PackageInit
<1>2. << >> \in Seq(AnyPiece)
  BY EmptySeq
<1>3. PackageTypeOK /\ ServerInv
  BY <1>2 DEF PackageInit, PackageTypeOK, ServerInv, ArchiverInit, E!EnvelopeInit
<1>4. ASSUME NEW u \in Upload
      PROVE  FileInv(u)
  <2>1. /\ pc[u] = "idle" /\ output[u] = << >> /\ macced[u] = << >> /\ server.max = 0
        /\ Len(archive[u]) \in Nat
    BY <1>1, ArchiveTyped DEF PackageInit, ArchiverInit, E!EnvelopeInit
  <2>2. Starts(output[u], u) /\ Starts(macced[u], u)
    BY <1>2, <2>1 DEF Starts
  <2> QED
    BY <2>1, <2>2 DEF FileInv, MacInv, EmptyInv, WholeInv, LimitInv, RefusedInv
<1> QED
  BY <1>1, <1>3, <1>4 DEF PackageInv

\* The invariant of the package: Build's, and what there is of each file.
THEOREM PackageInductive == PackageSpec => []PackageInv
<1>1. PackageInit => PackageInv
  BY PackageStart
<1>2. PackageInv /\ [PackageNext]_packageVars => PackageInv'
  BY PackageStep
<1> QED
  BY <1>1, <1>2, PTL DEF PackageSpec
-----------------------------------------------------------------------------
(***************************************************************************)
(* The properties                                                          *)
(***************************************************************************)

\* A manifest is never ahead of its archive, nor, for a file nobody wrote
\* during the call, different from it.
THEOREM ManifestOlder == PackageSpec => []ManifestIsOlder
<1>1. PackageInv => ManifestIsOlder
  BY DEF PackageInv, ArchiverInv, BuildInv, HashedInv, ArchivedInv, ManifestIsOlder
<1> QED
  BY <1>1, PackageInductive, PTL

\* A finished archive has every file of its manifest, but for those removed
\* during the call and those the walk passes over.
THEOREM ManifestCovered == PackageSpec => []ManifestIsCovered
<1>1. PackageInv => ManifestIsCovered
  <2> SUFFICES ASSUME PackageInv, NEW u \in Upload, pc[u] \in Whole, NEW i \in DOMAIN manifest[u]
               PROVE  LET p == manifest[u][i].path
                      IN  \/ \E j \in DOMAIN archive[u] : archive[u][j].path = p
                          \/ p \in edited.during[u]
                          \/ p \in Skipped
    BY DEF ManifestIsCovered, Whole
  <2>1. Named(u, manifest[u][i].path)
    BY DEF Named
  <2> QED
    BY <2>1, NamedAreArchived DEF PackageInv, Archived
<1> QED
  BY <1>1, PackageInductive, PTL

\* The limit of the credential binds the whole file and refuses nothing less.
THEOREM LimitExact == PackageSpec => []LimitIsExact
<1>1. PackageInv => LimitIsExact
  BY DEF PackageInv, FileInv, LimitInv, LimitIsExact
<1> QED
  BY <1>1, PackageInductive, PTL

\* What was encrypted within the limit is stored, but near the largest int64.
THEOREM AllowedStored == PackageSpec => []AllowedIsStored
<1>1. PackageInv => AllowedIsStored
  BY DEF PackageInv, FileInv, RefusedInv, AllowedIsStored
<1> QED
  BY <1>1, PackageInductive, PTL
-----------------------------------------------------------------------------
(***************************************************************************)
(* What Decrypt accepts                                                    *)
(***************************************************************************)

\* What is known of the pieces of a file, and of those its MAC has seen.
LEMMA FileKnown ==
  ASSUME PackageInv, NEW u \in Upload
  PROVE  /\ Len(archive[u]) \in Nat /\ Len(output[u]) \in Nat /\ Len(macced[u]) \in Nat
         /\ output[u] \in Seq(AnyPiece) /\ macced[u] \in Seq(AnyPiece)
         /\ DOMAIN output[u] = 1 .. Len(output[u]) /\ DOMAIN macced[u] = 1 .. Len(macced[u])
         /\ Len(output[u]) <= Len(archive[u]) + 3 /\ Len(macced[u]) <= Len(archive[u]) + 3
         /\ \A i \in 1 .. Len(output[u]) : output[u][i] = E!Pieces(u)[i]
         /\ \A i \in 1 .. Len(macced[u]) : macced[u][i] = E!Pieces(u)[i]
         /\ Len(output[u]) > 0 =>
              Len(macced[u]) = IF Len(output[u]) = Len(archive[u]) + 3
                               THEN Len(output[u]) - 1 ELSE Len(output[u])
<1>1. Starts(output[u], u) /\ Starts(macced[u], u) /\ MacInv(u) /\ Len(archive[u]) \in Nat
  BY ArchiveTyped DEF PackageInv, FileInv
<1>2. /\ output[u] \in Seq(AnyPiece) /\ macced[u] \in Seq(AnyPiece)
      /\ Len(output[u]) \in Nat /\ Len(macced[u]) \in Nat
      /\ DOMAIN output[u] = 1 .. Len(output[u]) /\ DOMAIN macced[u] = 1 .. Len(macced[u])
  BY <1>1, LenProperties DEF Starts
<1>3. Len(output[u]) > 0 => output[u] # << >>
  OBVIOUS
<1>4. Len(output[u]) > 0 =>
        Len(macced[u]) = IF Len(output[u]) = Len(archive[u]) + 3
                         THEN Len(output[u]) - 1 ELSE Len(output[u])
  BY <1>1, <1>3 DEF MacInv, IsWhole
<1> QED
  BY <1>1, <1>2, <1>4 DEF Starts

\* A file whose tag holds is what the MAC of its call has seen, and the tag.
LEMMA AuthenticShape ==
  ASSUME PackageInv, NEW g \in Seq(AnyPiece), E!Authentic(g)
  PROVE  /\ Len(g) \in Nat /\ Len(g) >= 3 /\ g[1] = E!Prefix
         /\ g[2][1] = "header" /\ g[2][2] \in Upload
         /\ Len(g) = Len(macced[g[2][2]]) + 1
         /\ g[Len(g)] = E!Tag(g[2][2])
         /\ \A i \in 1 .. Len(g) - 1 : g[i] = E!Pieces(g[2][2])[i]
<1> DEFINE v == g[2][2]
<1>1. /\ Len(g) >= 3 /\ g[1] = E!Prefix /\ g[2][1] = "header"
      /\ g[Len(g)] = E!Tag(v) /\ SubSeq(g, 1, Len(g) - 1) = macced[v]
  BY DEF E!Authentic, E!Last, E!Front
<1>2. Len(g) \in Nat /\ \A i \in 1 .. Len(g) : g[i] \in AnyPiece
  BY LenProperties, ElementOfSeq
<1>3. g[2] \in AnyPiece
  BY <1>1, <1>2
<1>4. v \in Upload
  BY <1>1, <1>3 DEF AnyPiece, E!Prefix, E!Piece, E!Header, E!Tag
<1>5. /\ Len(SubSeq(g, 1, Len(g) - 1)) = Len(g) - 1
      /\ \A i \in 1 .. Len(g) - 1 : SubSeq(g, 1, Len(g) - 1)[i] = g[i]
  BY <1>1, <1>2
<1>6. /\ Len(macced[v]) \in Nat
      /\ \A i \in 1 .. Len(macced[v]) : macced[v][i] = E!Pieces(v)[i]
  BY <1>4, FileKnown
<1> HIDE DEF v
<1>7. Len(macced[v]) = Len(g) - 1 /\ \A i \in 1 .. Len(g) - 1 : g[i] = E!Pieces(v)[i]
  BY <1>1, <1>5, <1>6
<1> QED
  BY <1>1, <1>2, <1>4, <1>7 DEF v

\* A beginning of a file has no tag, unless it is all of it.
LEMMA BeginningIsRefused ==
  ASSUME PackageInv, NEW u \in Upload, NEW g, Starts(g, u), E!Authentic(g)
  PROVE  Len(g) = Len(archive[u]) + 3
<1>1. g \in Seq(AnyPiece) /\ DOMAIN g = 1 .. Len(g)
  BY LenProperties DEF Starts
<1>2. Len(g) \in Nat /\ Len(g) >= 3 /\ g[Len(g)] = E!Tag(g[2][2])
  BY <1>1, AuthenticShape
<1>3. Len(g) \in 1 .. Len(archive[u]) + 3 /\ g[Len(g)] = E!Pieces(u)[Len(g)]
  BY <1>1, <1>2, FileKnown DEF Starts
<1>4. E!Pieces(u)[Len(g)][1] = "tag"
  BY <1>2, <1>3 DEF E!Tag, E!Piece
<1> QED
  BY <1>3, <1>4, PiecesKinds DEF PackageInv

\* A file with another piece in the place of one of its own is refused.
LEMMA ReplacedIsRefused ==
  ASSUME PackageInv, NEW u \in Upload, NEW k \in DOMAIN output[u],
         NEW x \in AnyPiece, x # output[u][k]
  PROVE  ~E!Authentic([output[u] EXCEPT ![k] = x])
<1> DEFINE g == [output[u] EXCEPT ![k] = x]
           n == Len(archive[u])
           size == Len(output[u])
<1> SUFFICES ASSUME E!Authentic(g) PROVE FALSE
  OBVIOUS
<1>1. /\ n \in Nat /\ size \in Nat /\ size <= n + 3 /\ k \in 1 .. size
      /\ output[u] \in Seq(AnyPiece) /\ DOMAIN output[u] = 1 .. size
      /\ \A i \in 1 .. size : output[u][i] = E!Pieces(u)[i]
      /\ Len(macced[u]) = IF size = n + 3 THEN size - 1 ELSE size
  BY FileKnown
<1>2. /\ g \in Seq(AnyPiece) /\ Len(g) = size
      /\ \A i \in 1 .. size : g[i] = IF i = k THEN x ELSE output[u][i]
  BY <1>1, ExceptSeq
<1>3. /\ size >= 3 /\ g[2][2] \in Upload /\ size = Len(macced[g[2][2]]) + 1
      /\ g[size] = E!Tag(g[2][2])
      /\ \A i \in 1 .. size - 1 : g[i] = E!Pieces(g[2][2])[i]
  BY <1>2, AuthenticShape
<1>4. \A i \in 2 .. size : output[u][i][2] = u
  BY <1>1, PiecesKinds DEF PackageInv
<1> HIDE DEF g, n, size
<1>5. g[2][2] = u
  <2>1. CASE k = 2
    <3>1. g[size] = output[u][size] /\ output[u][size][2] = u
      BY <1>1, <1>2, <1>3, <1>4, <2>1
    <3>2. E!Tag(g[2][2])[2] = g[2][2]
      BY DEF E!Tag, E!Piece
    <3> QED
      BY <1>3, <3>1, <3>2
  <2>2. CASE k # 2
    BY <1>1, <1>2, <1>3, <1>4, <2>2
  <2> QED
    BY <2>1, <2>2
<1>6. size = n + 3
  BY <1>1, <1>3, <1>5
<1>7. E!Pieces(u)[n + 3] = E!Tag(u)
  BY ArchiveTyped, PiecesShape DEF PackageInv, n
<1>8. \A i \in 1 .. size : g[i] = output[u][i]
  BY <1>1, <1>3, <1>5, <1>6, <1>7
<1> QED
  BY <1>1, <1>2, <1>8

\* A file that lost a piece is refused.
LEMMA RemovedIsRefused ==
  ASSUME PackageInv, NEW u \in Upload, NEW k \in DOMAIN output[u]
  PROVE  ~E!Authentic(RemoveAt(output[u], k))
<1> DEFINE s == output[u]
           left == SubSeq(s, 1, k - 1)
           right == SubSeq(s, k + 1, Len(s))
           g == left \o right
           n == Len(archive[u])
<1> SUFFICES ASSUME E!Authentic(g) PROVE FALSE
  BY DEF RemoveAt
<1>1. /\ n \in Nat /\ Len(s) \in Nat /\ Len(s) <= n + 3 /\ k \in 1 .. Len(s)
      /\ s \in Seq(AnyPiece)
      /\ \A i \in 1 .. Len(s) : s[i] = E!Pieces(u)[i]
      /\ Len(macced[u]) = IF Len(s) = n + 3 THEN Len(s) - 1 ELSE Len(s)
  BY FileKnown
<1>2. ASSUME NEW i \in 1 .. Len(s)
      PROVE  (s[i][1] = "header" <=> i = 2) /\ (s[i][1] = "prefix" <=> i = 1)
  <2>1. i \in 1 .. n + 3 /\ s[i] = E!Pieces(u)[i]
    BY <1>1
  <2> QED
    BY <2>1, PiecesKinds DEF PackageInv
<1>3. 2 <= Len(s) => s[2][2] = u
  BY <1>1, PiecesKinds DEF PackageInv
<1> HIDE DEF s, n
<1>4. /\ left \in Seq(AnyPiece) /\ Len(left) = k - 1 /\ \A i \in 1 .. k - 1 : left[i] = s[i]
      /\ right \in Seq(AnyPiece) /\ Len(right) = Len(s) - k
      /\ \A i \in 1 .. Len(s) - k : right[i] = s[k + i]
  <2>1. \A i \in 1 .. Len(s) : s[i] \in AnyPiece
    BY <1>1, ElementOfSeq
  <2> QED
    BY <1>1, <2>1, SubSeqProperties
<1> HIDE DEF left, right
<1>5. /\ g \in Seq(AnyPiece) /\ Len(g) = Len(s) - 1
      /\ \A i \in 1 .. Len(s) - 1 : g[i] = IF i < k THEN s[i] ELSE s[i + 1]
  <2>1. /\ g \in Seq(AnyPiece) /\ Len(g) = Len(left) + Len(right)
        /\ \A i \in 1 .. Len(left) + Len(right) :
             g[i] = IF i <= Len(left) THEN left[i] ELSE right[i - Len(left)]
    BY <1>4, ConcatProperties
  <2>2. Len(left) + Len(right) = Len(s) - 1
    BY <1>1, <1>4
  <2> SUFFICES ASSUME NEW i \in 1 .. Len(s) - 1
               PROVE  g[i] = IF i < k THEN s[i] ELSE s[i + 1]
    BY <2>1, <2>2
  <2>3. CASE i < k
    BY <1>1, <1>4, <2>1, <2>2, <2>3
  <2>4. CASE ~(i < k)
    <3>1. i - (k - 1) \in 1 .. Len(s) - k /\ k + (i - (k - 1)) = i + 1 /\ ~(i <= k - 1)
      BY <1>1, <2>4
    <3>2. g[i] = right[i - (k - 1)]
      BY <1>4, <2>1, <2>2, <3>1
    <3> QED
      BY <1>4, <2>4, <3>1, <3>2
  <2> QED
    BY <2>3, <2>4
<1> HIDE DEF g
<1>6. /\ Len(s) >= 4 /\ g[1] = E!Prefix /\ g[2][1] = "header"
      /\ Len(s) - 1 = Len(macced[g[2][2]]) + 1
  BY <1>1, <1>5, AuthenticShape
<1>7. E!Prefix[1] = "prefix"
  BY DEF E!Prefix, E!Piece
<1>8. CASE k = 1
  <2>1. g[1] = s[2]
    BY <1>5, <1>6, <1>8
  <2> QED
    BY <1>2, <1>6, <1>7, <2>1
<1>9. CASE k = 2
  <2>1. g[2] = s[3]
    BY <1>5, <1>6, <1>9
  <2> QED
    BY <1>2, <1>6, <2>1
<1>10. CASE k > 2
  <2>1. g[2] = s[2]
    BY <1>1, <1>5, <1>6, <1>10
  <2> QED
    BY <1>1, <1>3, <1>6, <2>1
<1> QED
  BY <1>1, <1>8, <1>9, <1>10

\* A file that is whole decrypts to its archive and its snapshot ID.
LEMMA WholeIsAccepted ==
  ASSUME PackageInv, NEW u \in Upload, IsWhole(output[u], u)
  PROVE  E!Decrypt(output[u]) = [ok |-> TRUE, id |-> u, plain |-> archive[u]]
<1> DEFINE s == output[u]
           n == Len(archive[u])
<1>1. /\ n \in Nat /\ Len(s) = n + 3
      /\ s \in Seq(AnyPiece) /\ macced[u] \in Seq(AnyPiece)
      /\ \A i \in 1 .. n + 3 : s[i] = E!Pieces(u)[i]
      /\ Len(macced[u]) = n + 2 /\ \A i \in 1 .. n + 2 : macced[u][i] = E!Pieces(u)[i]
  BY FileKnown DEF IsWhole
<1>2. /\ s[1] = E!Prefix /\ s[2] = E!Header(u, u) /\ s[n + 3] = E!Tag(u)
      /\ \A i \in 1 .. n : s[i + 2] = E!Piece("body", u, i)
  <2>1. /\ E!Pieces(u)[1] = E!Prefix /\ E!Pieces(u)[2] = E!Header(u, u)
        /\ \A i \in 1 .. n : E!Pieces(u)[i + 2] = E!Piece("body", u, i)
        /\ E!Pieces(u)[n + 3] = E!Tag(u)
    BY ArchiveTyped, PiecesShape DEF PackageInv
  <2>2. /\ 1 \in 1 .. n + 3 /\ 2 \in 1 .. n + 3 /\ n + 3 \in 1 .. n + 3
        /\ \A i \in 1 .. n : i + 2 \in 1 .. n + 3
    BY <1>1
  <2> QED
    BY <1>1, <2>1, <2>2
<1>3. archive[u] = [i \in 1 .. n |-> archive[u][i]]
  BY ArchiveTyped DEF PackageInv
<1> HIDE DEF n, s
<1>4. SubSeq(s, 1, Len(s) - 1) = macced[u]
  <2> DEFINE front == SubSeq(s, 1, n + 2)
  <2>1. \A i \in 1 .. n + 2 : s[i] \in AnyPiece
    BY <1>1, ElementOfSeq
  <2>2. /\ front \in Seq(AnyPiece) /\ Len(front) = n + 2
        /\ \A i \in 1 .. n + 2 : front[i] = s[i]
    BY <1>1, <2>1, SubSeqProperties
  <2> HIDE DEF front
  <2>3. \A i \in 1 .. Len(front) : front[i] = macced[u][i]
    BY <1>1, <2>2
  <2>4. front = macced[u]
    BY <1>1, <2>2, <2>3, SeqEqual
  <2> QED
    BY <1>1, <2>4 DEF front
<1>5. /\ s[2][1] = "header" /\ s[2][2] = u /\ s[2][3] = u
      /\ \A i \in 1 .. n : s[i + 2][3] = i
  BY <1>2 DEF E!Header, E!Piece
<1>6. E!Authentic(s)
  BY <1>1, <1>2, <1>4, <1>5 DEF E!Authentic, E!Last, E!Front
<1>7. [i \in 1 .. Len(s) - 3 |-> archive[u][s[i + 2][3]]] = archive[u]
  <2>1. Len(s) - 3 = n
    BY <1>1
  <2>2. [i \in 1 .. n |-> archive[u][s[i + 2][3]]] = [i \in 1 .. n |-> archive[u][i]]
    BY <1>5
  <2> QED
    BY <1>3, <2>1, <2>2
<1>8. E!Decrypt(s) = [ok |-> TRUE, id |-> u, plain |-> archive[u]]
  BY <1>5, <1>6, <1>7 DEF E!Decrypt
<1> QED
  BY <1>8 DEF s

\* What a call leaves, in its directory or in the store, decrypts to the
\* archive that Build made, or is nothing.
THEOREM RoundTrips == PackageSpec => []RoundTrip
<1>1. PackageInv => RoundTrip
  <2> SUFFICES ASSUME PackageInv, NEW u \in Upload
               PROVE  LET whole == [ok |-> TRUE, id |-> u, plain |-> archive[u]]
                      IN  /\ pc[u] \in {"failed", "toolarge", "encrypted", "refused", "stored"}
                               /\ output[u] # << >> => E!Decrypt(output[u]) = whole
                          /\ pc[u] = "stored" => E!Decrypt(stored[u]) = whole
    BY DEF RoundTrip
  <2>1. WholeInv(u)
    BY DEF PackageInv, FileInv
  <2> QED
    BY <2>1, WholeIsAccepted DEF WholeInv
<1> QED
  BY <1>1, PackageInductive, PTL

\* Nothing is decrypted but a file as it was written, to its last piece: not
\* one that is cut short or being written, that lost a piece or has another in
\* its place, its own or another call's, or that has another snapshot ID.
THEOREM OnlyWholeAccepted == PackageSpec => []OnlyWholeIsAccepted
<1>1. ASSUME PackageInv, NEW u \in Upload, E!Decrypt(output[u]).ok
      PROVE  output[u] = E!Pieces(u)
  <2>1. E!Authentic(output[u])
    BY <1>1 DEF E!Decrypt, E!Rejected
  <2>2. Starts(output[u], u)
    BY <1>1 DEF PackageInv, FileInv
  <2>3. Len(output[u]) = Len(archive[u]) + 3
    BY <1>1, <2>1, <2>2, BeginningIsRefused
  <2>4. E!Pieces(u) \in Seq(AnyPiece) /\ Len(E!Pieces(u)) = Len(archive[u]) + 3
    BY <1>1, ArchiveTyped, PiecesShape DEF PackageInv
  <2>5. /\ output[u] \in Seq(AnyPiece)
        /\ \A i \in 1 .. Len(output[u]) : output[u][i] = E!Pieces(u)[i]
    BY <1>1, FileKnown
  <2> QED
    BY <2>3, <2>4, <2>5, SeqEqual
<1>2. ASSUME PackageInv, NEW u \in Upload, NEW k \in 0 .. Len(output[u]) - 1
      PROVE  ~E!Authentic(SubSeq(output[u], 1, k))
  <2> DEFINE g == SubSeq(output[u], 1, k)
  <2>1. /\ Len(output[u]) \in Nat /\ Len(output[u]) <= Len(archive[u]) + 3
        /\ Len(archive[u]) \in Nat /\ output[u] \in Seq(AnyPiece)
        /\ \A i \in 1 .. Len(output[u]) : output[u][i] = E!Pieces(u)[i]
    BY <1>2, FileKnown
  <2>2. \A i \in 1 .. k : output[u][i] \in AnyPiece
    BY <2>1, ElementOfSeq
  <2>3. g \in Seq(AnyPiece) /\ Len(g) = k /\ \A i \in 1 .. k : g[i] = output[u][i]
    BY <2>1, <2>2, SubSeqProperties
  <2> HIDE DEF g
  <2>4. DOMAIN g = 1 .. k
    BY <2>3, LenProperties
  <2>5. Starts(g, u)
    BY <2>1, <2>3, <2>4 DEF Starts
  <2>6. Len(g) # Len(archive[u]) + 3
    BY <2>1, <2>3
  <2>7. ~E!Authentic(g)
    BY <1>2, <2>5, <2>6, BeginningIsRefused
  <2> QED
    BY <2>7 DEF g
<1>3. ASSUME PackageInv, NEW u \in Upload, NEW k \in DOMAIN output[u]
      PROVE  ~E!Authentic([output[u] EXCEPT ![k] = E!Piece("noise", "none", "none")])
  <2>1. output[u][k][1] # "noise"
    <3>1. k \in 1 .. Len(archive[u]) + 3 /\ output[u][k] = E!Pieces(u)[k]
      BY <1>3, FileKnown
    <3> QED
      BY <1>3, <3>1, PiecesKinds DEF PackageInv
  <2>2. E!Piece("noise", "none", "none") \in AnyPiece /\ E!Piece("noise", "none", "none")[1] = "noise"
    BY DEF AnyPiece, E!Piece
  <2> QED
    BY <1>3, <2>1, <2>2, ReplacedIsRefused
<1>4. ASSUME PackageInv, NEW u \in Upload, NEW w \in Upload,
             NEW k \in DOMAIN output[u] \cap DOMAIN output[w], output[w][k] # output[u][k]
      PROVE  ~E!Authentic([output[u] EXCEPT ![k] = output[w][k]])
  <2>1. output[w] \in Seq(AnyPiece) /\ k \in 1 .. Len(output[w])
    BY <1>4, FileKnown
  <2>2. output[w][k] \in AnyPiece
    BY <2>1, ElementOfSeq
  <2> QED
    BY <1>4, <2>2, ReplacedIsRefused
<1>5. ASSUME PackageInv, NEW u \in Upload, NEW w \in Upload,
             Len(output[u]) > 1, w # output[u][2][3]
      PROVE  ~E!Authentic([output[u] EXCEPT ![2] = E!Header(@[2], w)])
  <2>1. 2 \in DOMAIN output[u] /\ output[u][2] = E!Header(u, u)
    <3>1. /\ Len(output[u]) \in Nat /\ DOMAIN output[u] = 1 .. Len(output[u])
          /\ \A i \in 1 .. Len(output[u]) : output[u][i] = E!Pieces(u)[i]
      BY <1>5, FileKnown
    <3>2. E!Pieces(u)[2] = E!Header(u, u)
      BY <1>5, ArchiveTyped, PiecesShape DEF PackageInv
    <3> QED
      BY <1>5, <3>1, <3>2
  <2>2. output[u][2][2] = u /\ E!Header(u, w) \in AnyPiece /\ E!Header(u, w) # output[u][2]
    BY <1>5, <2>1 DEF AnyPiece, E!Header, E!Piece
  <2>3. ~E!Authentic([output[u] EXCEPT ![2] = E!Header(u, w)])
    BY <1>5, <2>1, <2>2, ReplacedIsRefused
  <2> QED
    BY <2>2, <2>3
<1>6. PackageInv => OnlyWholeIsAccepted
  <2>1. ASSUME PackageInv, NEW u \in Upload, NEW file \in Damaged(output[u])
        PROVE  ~E!Authentic(file)
    <3>1. ASSUME NEW k \in 0 .. Len(output[u]) - 1, file = SubSeq(output[u], 1, k)
          PROVE  ~E!Authentic(file)
      BY <1>2, <2>1, <3>1
    <3>2. ASSUME NEW k \in DOMAIN output[u], file = RemoveAt(output[u], k)
          PROVE  ~E!Authentic(file)
      BY <2>1, <3>2, RemovedIsRefused
    <3>3. ASSUME NEW k \in DOMAIN output[u],
                 file = [output[u] EXCEPT ![k] = E!Piece("noise", "none", "none")]
          PROVE  ~E!Authentic(file)
      BY <1>3, <2>1, <3>3
    <3>4. ASSUME NEW w \in Upload, NEW k \in DOMAIN output[u] \cap DOMAIN output[w],
                 output[w][k] # output[u][k], file = [output[u] EXCEPT ![k] = output[w][k]]
          PROVE  ~E!Authentic(file)
      BY <1>4, <2>1, <3>4
    <3>5. ASSUME NEW w \in Upload, Len(output[u]) > 1, w # output[u][2][3],
                 file = [output[u] EXCEPT ![2] = E!Header(@[2], w)]
          PROVE  ~E!Authentic(file)
      BY <1>5, <2>1, <3>5
    <3>6. \/ \E k \in 0 .. Len(output[u]) - 1 : file = SubSeq(output[u], 1, k)
          \/ \E k \in DOMAIN output[u] : file = RemoveAt(output[u], k)
          \/ \E k \in DOMAIN output[u] :
               file = [output[u] EXCEPT ![k] = E!Piece("noise", "none", "none")]
          \/ \E w \in Upload : \E k \in DOMAIN output[u] \cap DOMAIN output[w] :
               output[w][k] # output[u][k] /\ file = [output[u] EXCEPT ![k] = output[w][k]]
          \/ \E w \in Upload :
               /\ Len(output[u]) > 1 /\ w # output[u][2][3]
               /\ file = [output[u] EXCEPT ![2] = E!Header(@[2], w)]
      <4> DEFINE s == output[u]
                 Swaps(w) == {[s EXCEPT ![k] = output[w][k]] :
                                k \in {j \in DOMAIN s \cap DOMAIN output[w] :
                                         output[w][j] # s[j]}}
                 Renamed == {[s EXCEPT ![2] = E!Header(@[2], w)] :
                               w \in {x \in Upload : Len(s) > 1 /\ x # s[2][3]}}
      <4>1. \/ file \in {SubSeq(s, 1, k) : k \in 0 .. Len(s) - 1}
            \/ file \in {RemoveAt(s, k) : k \in DOMAIN s}
            \/ file \in {[s EXCEPT ![k] = E!Piece("noise", "none", "none")] : k \in DOMAIN s}
            \/ \E w \in Upload : file \in Swaps(w)
            \/ file \in Renamed
        BY <2>1 DEF Damaged
      <4>2. ASSUME NEW w \in Upload, file \in Swaps(w)
            PROVE  \E k \in DOMAIN s \cap DOMAIN output[w] :
                     output[w][k] # s[k] /\ file = [s EXCEPT ![k] = output[w][k]]
        BY <4>2
      <4>3. ASSUME file \in Renamed
            PROVE  \E w \in Upload :
                     /\ Len(s) > 1 /\ w # s[2][3]
                     /\ file = [s EXCEPT ![2] = E!Header(@[2], w)]
        BY <4>3
      <4> HIDE DEF Swaps, Renamed
      <4> QED
        BY <4>1, <4>2, <4>3
    <3> QED
      BY <3>1, <3>2, <3>3, <3>4, <3>5, <3>6, Zenon
  <2>2. \A file : ~E!Authentic(file) => ~E!Decrypt(file).ok
    BY DEF E!Decrypt, E!Rejected
  <2> QED
    BY <1>1, <2>1, <2>2 DEF OnlyWholeIsAccepted
<1> QED
  BY <1>6, PackageInductive, PTL
=============================================================================
