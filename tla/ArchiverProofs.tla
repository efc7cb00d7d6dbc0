--------------------------- MODULE ArchiverProofs ---------------------------
(***************************************************************************)
(* Build, for every repository, every set of calls and any number of       *)
(* changes made meanwhile: what its steps preserve about an archive and    *)
(* the manifest in it.  SnapshotPackageProofs puts this to use.            *)
(***************************************************************************)
EXTENDS Archiver, SequenceTheorems, WellFoundedInduction, TLAPS

(***************************************************************************)
(* The invariant                                                           *)
(***************************************************************************)

Walking == {"walking", "copying"}

\* The archive is complete, and what is made of it.
Whole == {"built", "writing", "encrypted", "stored"}

Label == Walking \cup Whole
  \cup {"idle", "resolving", "hashing", "failed", "toolarge", "refused", "killed"}

Node == [ver : Nat, size : Nat]

ArchiverTypeOK ==
  /\ tree \in [File -> Node]
  /\ edited \in [count : Nat, during : [Upload -> SUBSET File]]
  /\ pc \in [Upload -> Label]
  /\ manifest \in [Upload -> Seq([path : File, ver : Nat, size : Nat])]
  /\ statted \in [Upload -> Nat]
  /\ todo \in [Upload -> SUBSET Path]
  /\ copying \in [Upload -> Node]
  /\ archive \in [Upload -> Seq([path : Path \cup {0}, ver : Nat])]

\* Versions go up, and a file that is there has a version and a content.
TreeInv ==
  \A f \in File :
    /\ tree[f].ver <= edited.count + 1
    /\ tree[f] = Nothing \/ (tree[f].ver > 0 /\ tree[f].size > 0)

Named(u, p) == \E i \in DOMAIN manifest[u] : manifest[u][i].path = p

Archived(u, p) == \E j \in DOMAIN archive[u] : archive[u][j].path = p

\* A manifest entry is of a version that was there, and of the one that is
\* there if nobody wrote the file since the call began.
HashedInv(u) ==
  \A i \in DOMAIN manifest[u] :
    LET m == manifest[u][i]
        now == tree[m.path]
    IN  /\ m.ver > 0 /\ m.ver <= edited.count + 1
        /\ now = Nothing \/ m.ver <= now.ver
        /\ m.path \notin edited.during[u] => m.ver = now.ver /\ m.size = now.size

\* The size taken before hashing is that of the file, unless somebody wrote it.
StatInv(u) ==
  pc[u] = "hashing" =>
    LET real == Resolve(Candidate(u))
    IN  /\ real \in File
        /\ real \notin edited.during[u] => tree[real] # Nothing /\ statted[u] = tree[real].size

\* What is opened for the archive is no older than what was hashed.
CopyInv(u) ==
  pc[u] = "copying" =>
    /\ Current(u) \in File \ Skipped
    /\ copying[u].size > 0
    /\ \A i \in DOMAIN manifest[u] :
         manifest[u][i].path = Current(u) =>
           /\ manifest[u][i].ver <= copying[u].ver
           /\ Current(u) \notin edited.during[u] => copying[u] = tree[Current(u)]

\* Neither is what was archived.
ArchivedInv(u) ==
  \A i \in DOMAIN manifest[u], j \in DOMAIN archive[u] :
    LET m == manifest[u][i]
        a == archive[u][j]
    IN  m.path = a.path =>
          /\ m.ver <= a.ver
          /\ m.path \notin edited.during[u] => a.ver = tree[m.path].ver

\* Nothing is archived before the last candidate is hashed.
OrderInv(u) ==
  /\ pc[u] = "idle" => manifest[u] = << >>
  /\ pc[u] \in {"idle", "resolving", "hashing"} => archive[u] = << >>

\* What lies in a directory that was visited is archived or on the list, if
\* the walk goes there and it is not a file that was removed.
WalkInv(u) ==
  /\ pc[u] \in Walking \cup Whole =>
       \A p \in Path \ Skipped :
         Parent[p] = 0 \/ Archived(u, Parent[p]) =>
           \/ p \in todo[u]
           \/ Archived(u, p)
           \/ p \in File /\ (p \in edited.during[u] \/ ~Named(u, p))
  /\ pc[u] \in Whole => todo[u] = {}

BuildInv(u) ==
  /\ HashedInv(u) /\ StatInv(u) /\ CopyInv(u)
  /\ ArchivedInv(u) /\ OrderInv(u) /\ WalkInv(u)

ArchiverInv == ArchiverTypeOK /\ TreeInv /\ \A u \in Upload : BuildInv(u)
-----------------------------------------------------------------------------
(***************************************************************************)
(* Lemmas about the operators                                              *)
(***************************************************************************)

\* What is in a sequence that was appended to.
LEMMA Appended ==
  ASSUME NEW S, NEW s \in Seq(S), NEW e \in S
  PROVE  /\ Append(s, e) \in Seq(S)
         /\ \A i \in DOMAIN s : i \in DOMAIN Append(s, e) /\ Append(s, e)[i] = s[i]
         /\ \A i \in DOMAIN Append(s, e) :
              (i \in DOMAIN s /\ Append(s, e)[i] = s[i]) \/ Append(s, e)[i] = e
         /\ \E i \in DOMAIN Append(s, e) : Append(s, e)[i] = e
<1>1. /\ Append(s, e) \in Seq(S) /\ Len(Append(s, e)) = Len(s) + 1 /\ Len(s) \in Nat
      /\ \A i \in 1 .. Len(s) : Append(s, e)[i] = s[i]
      /\ Append(s, e)[Len(s) + 1] = e
  BY AppendProperties
<1>2. DOMAIN s = 1 .. Len(s) /\ DOMAIN Append(s, e) = 1 .. Len(s) + 1
  BY <1>1
<1> QED
  BY <1>1, <1>2

\* Sorting a manifest makes up no entry.
LEMMA Sorted ==
  ASSUME NEW S, NEW s \in Seq(S), NEW t \in Sortings(s)
  PROVE  t \in Seq(S) /\ \A i \in DOMAIN t : \E j \in DOMAIN s : t[i] = s[j]
<1>1. PICK order \in Bijection(DOMAIN s, DOMAIN s) : t = [i \in DOMAIN s |-> s[order[i]]]
  BY DEF Sortings
<1>2. order \in [DOMAIN s -> DOMAIN s]
  BY DEF Bijection, Injection
<1>3. Len(s) \in Nat /\ DOMAIN s = 1 .. Len(s) /\ \A i \in 1 .. Len(s) : s[i] \in S
  BY LenProperties, ElementOfSeq
<1>4. t \in [1 .. Len(s) -> S]
  BY <1>1, <1>2, <1>3
<1> QED
  BY <1>1, <1>2, <1>3, <1>4

\* A set of numbers with a member has a least one.
LEMMA Least ==
  ASSUME NEW S \in SUBSET Nat, S # {}
  PROVE  \E x \in S : \A y \in S : x <= y
<1> DEFINE Less == {pair \in Nat \X Nat : pair[1] < pair[2]}
<1>1. OpToRel(<, Nat) = Less
  BY Zenon DEF OpToRel
<1>2. IsWellFoundedOn(Less, Nat)
  BY <1>1, NatLessThanWellFounded, Zenon
<1> HIDE DEF Less
<1>3. PICK x \in S : \A y \in S : <<y, x>> \notin Less
  BY <1>2, WFMin
<1>4. ASSUME NEW y \in S PROVE x <= y
  <2>1. ~(y < x)
    BY <1>3 DEF Less
  <2> QED
    BY <2>1
<1> QED
  BY <1>4

\* The next path of a walk is one of those listed.
LEMMA CurrentIsListed ==
  ASSUME ArchiverTypeOK, NEW u \in Upload, todo[u] # {}
  PROVE  Current(u) \in todo[u]
<1>1. todo[u] \subseteq Nat
  BY ArchiverAssumption DEF ArchiverTypeOK
<1> QED
  BY <1>1, Least DEF Current, Min

\* The entries of a manifest, and those of an archive.
LEMMA ManifestTyped ==
  ASSUME ArchiverTypeOK, NEW u \in Upload
  PROVE  \A i \in DOMAIN manifest[u] :
           /\ manifest[u][i] \in [path : File, ver : Nat, size : Nat]
           /\ manifest[u][i].path \in File /\ manifest[u][i].ver \in Nat
<1>1. manifest[u] \in Seq([path : File, ver : Nat, size : Nat])
  BY DEF ArchiverTypeOK
<1>2. \A i \in DOMAIN manifest[u] : manifest[u][i] \in [path : File, ver : Nat, size : Nat]
  BY <1>1, ElementOfSeq, LenProperties
<1> QED
  BY <1>2
-----------------------------------------------------------------------------
(***************************************************************************)
(* The steps                                                               *)
(***************************************************************************)

\* Somebody changes a file.
LEMMA EditStep ==
  ASSUME ArchiverInv, NEW p \in File, Edit(p)
  PROVE  ArchiverInv'
<1> USE DEF ArchiverInv
<1>1. PICK node \in {Nothing} \cup [ver : {edited.count + 2}, size : 1 .. 2] :
        tree' = [tree EXCEPT ![p] = node]
  BY DEF Edit
<1>2. /\ node \in Node /\ (node = Nothing \/ (node.ver = edited.count + 2 /\ node.size > 0))
      /\ edited.count \in Nat
  BY DEF Node, Nothing, ArchiverTypeOK
<1>3. /\ edited'.count = edited.count + 1
      /\ edited' \in [count : Nat, during : [Upload -> SUBSET File]]
      /\ \A u \in Upload : edited'.during[u] = edited.during[u] \cup IF pc[u] = "idle" THEN {} ELSE {p}
      /\ UNCHANGED <<pc, manifest, statted, todo, copying, archive>>
  BY DEF Edit, walkVars, ArchiverTypeOK
<1>4. ArchiverTypeOK'
  BY <1>1, <1>2, <1>3 DEF ArchiverTypeOK
<1>5. /\ tree'[p] = node
      /\ \A f \in File : f # p => tree'[f] = tree[f]
      /\ \A f \in File : tree[f].ver \in Nat
  BY <1>1 DEF ArchiverTypeOK, Node
<1>6. TreeInv'
  <2> SUFFICES ASSUME NEW f \in File
               PROVE  /\ tree'[f].ver <= edited.count + 2
                      /\ tree'[f] = Nothing \/ (tree'[f].ver > 0 /\ tree'[f].size > 0)
    BY <1>2, <1>3 DEF TreeInv
  <2>1. CASE f = p
    BY <1>2, <1>5, <2>1 DEF Nothing
  <2>2. CASE f # p
    BY <1>2, <1>5, <2>2 DEF TreeInv
  <2> QED
    BY <2>1, <2>2
<1>7. ASSUME NEW u \in Upload
      PROVE  BuildInv(u)'
  <2> USE DEF BuildInv
  <2>1. CASE pc[u] = "idle"
    <3>1. manifest[u] = << >> /\ archive[u] = << >>
      BY <2>1 DEF OrderInv
    <3> QED
      BY <1>3, <2>1, <3>1 DEF HashedInv, StatInv, CopyInv, ArchivedInv, OrderInv, WalkInv, Walking, Whole
  <2>2. CASE pc[u] # "idle"
    <3>1. edited'.during[u] = edited.during[u] \cup {p}
      BY <1>3, <2>2
    <3>2. \A i \in DOMAIN manifest[u] : manifest[u][i].path \in File /\ manifest[u][i].ver \in Nat
      BY ManifestTyped
    <3>3. HashedInv(u)'
      <4> SUFFICES ASSUME NEW i \in DOMAIN manifest[u]
                   PROVE  LET m == manifest[u][i]
                              node_ == tree'[m.path]
                          IN  /\ m.ver > 0 /\ m.ver <= edited'.count + 1
                              /\ node_ = Nothing \/ m.ver <= node_.ver
                              /\ m.path \notin edited'.during[u] =>
                                   m.ver = node_.ver /\ m.size = node_.size
        BY <1>3 DEF HashedInv
      <4> DEFINE q == manifest[u][i].path
                 v == manifest[u][i].ver
      <4>1. /\ q \in File /\ v \in Nat /\ v > 0 /\ v <= edited.count + 1
            /\ tree[q] = Nothing \/ v <= tree[q].ver
            /\ q \notin edited.during[u] => v = tree[q].ver /\ manifest[u][i].size = tree[q].size
        BY <3>2 DEF HashedInv
      <4>2. v <= edited'.count + 1
        BY <1>2, <1>3, <4>1
      <4>3. CASE q = p
        BY <1>2, <1>5, <3>1, <4>1, <4>2, <4>3
      <4>4. CASE q # p
        BY <1>5, <3>1, <4>1, <4>2, <4>4
      <4> QED
        BY <4>3, <4>4
    <3>4. StatInv(u)'
      BY <1>3, <1>5, <3>1 DEF StatInv, Candidate, Resolve
    <3>5. CopyInv(u)'
      BY <1>3, <1>5, <3>1 DEF CopyInv, Current
    <3>6. ArchivedInv(u)'
      BY <1>3, <1>5, <3>1, <3>2 DEF ArchivedInv
    <3>7. OrderInv(u)' /\ WalkInv(u)'
      BY <1>3, <3>1 DEF OrderInv, WalkInv, Archived, Named
    <3> QED
      BY <3>3, <3>4, <3>5, <3>6, <3>7
  <2> QED
    BY <2>1, <2>2
<1> QED
  BY <1>4, <1>6, <1>7

\* A step of one call leaves what is known of the others.
LEMMA OthersStay ==
  ASSUME NEW v \in Upload, BuildInv(v), UNCHANGED <<tree, edited>>,
         pc'[v] = pc[v], manifest'[v] = manifest[v], statted'[v] = statted[v],
         todo'[v] = todo[v], copying'[v] = copying[v], archive'[v] = archive[v]
  PROVE  BuildInv(v)'
<1> USE DEF BuildInv
<1>1. HashedInv(v)' /\ ArchivedInv(v)'
  BY DEF HashedInv, ArchivedInv
<1>2. StatInv(v)'
  BY DEF StatInv, Candidate
<1>3. CopyInv(v)'
  BY DEF CopyInv, Current
<1>4. OrderInv(v)' /\ WalkInv(v)'
  BY DEF OrderInv, WalkInv, Archived, Named
<1> QED
  BY <1>1, <1>2, <1>3, <1>4

\* It is enough, then, to look at the call that takes the step.
LEMMA OwnStep ==
  ASSUME ArchiverInv, NEW u \in Upload, UNCHANGED <<tree, edited>>, ArchiverTypeOK',
         \A v \in Upload \ {u} :
           /\ pc'[v] = pc[v] /\ manifest'[v] = manifest[v] /\ statted'[v] = statted[v]
           /\ todo'[v] = todo[v] /\ copying'[v] = copying[v] /\ archive'[v] = archive[v],
         BuildInv(u)'
  PROVE  ArchiverInv'
<1>1. TreeInv'
  BY DEF ArchiverInv, TreeInv
<1>2. \A v \in Upload : BuildInv(v)'
  BY OthersStay DEF ArchiverInv
<1> QED
  BY <1>1, <1>2 DEF ArchiverInv

\* After Build a call moves on with its archive, its manifest as they are.
LEMMA MoveOn ==
  ASSUME ArchiverInv, NEW u \in Upload,
         UNCHANGED <<tree, edited, manifest, statted, todo, copying, archive>>,
         NEW label \in Label \ (Walking \cup {"idle", "resolving", "hashing", "built"}),
         Goto(u, label), label \in Whole => pc[u] \in Whole
  PROVE  ArchiverInv'
<1> USE DEF ArchiverInv
<1>1. ArchiverTypeOK' /\ \A v \in Upload : pc'[v] = IF v = u THEN label ELSE pc[v]
  BY DEF ArchiverTypeOK, Goto
<1>2. BuildInv(u)'
  <2>1. HashedInv(u)' /\ ArchivedInv(u)'
    BY DEF BuildInv, HashedInv, ArchivedInv
  <2>2. StatInv(u)' /\ CopyInv(u)' /\ OrderInv(u)'
    BY <1>1 DEF StatInv, CopyInv, OrderInv, Walking
  <2>3. WalkInv(u)'
    BY <1>1 DEF BuildInv, WalkInv, Archived, Named, Walking
  <2> QED
    BY <2>1, <2>2, <2>3 DEF BuildInv
<1> QED
  BY <1>1, <1>2, OwnStep

\* An error leaves nothing that could be wrong.
LEMMA BuildFailsStep ==
  ASSUME ArchiverInv, NEW u \in Upload, BuildFails(u)
  PROVE  ArchiverInv'
<1> USE DEF ArchiverInv
<1>1. /\ UNCHANGED <<tree, edited, manifest, statted, todo, copying>>
      /\ \A v \in Upload : pc'[v] = IF v = u THEN "failed" ELSE pc[v]
      /\ \A v \in Upload : archive'[v] = IF v = u THEN << >> ELSE archive[v]
      /\ ArchiverTypeOK'
  BY EmptySeq DEF BuildFails, Goto, ArchiverTypeOK, Label
<1>2. BuildInv(u)'
  BY <1>1 DEF BuildInv, HashedInv, StatInv, CopyInv, ArchivedInv, OrderInv, WalkInv, Walking, Whole
<1> QED
  BY <1>1, <1>2, OwnStep

\* Build starts.
LEMMA BeginStep ==
  ASSUME ArchiverInv, NEW u \in Upload, BeginBuild(u)
  PROVE  ArchiverInv'
<1> USE DEF ArchiverInv
<1>1. /\ UNCHANGED <<tree, edited, manifest, statted, todo, copying, archive>>
      /\ \A v \in Upload : pc'[v] = IF v = u THEN "resolving" ELSE pc[v]
      /\ pc[u] = "idle" /\ ArchiverTypeOK'
  BY DEF BeginBuild, walkVars, Goto, ArchiverTypeOK, Label
<1>2. BuildInv(u)'
  BY <1>1 DEF BuildInv, HashedInv, StatInv, CopyInv, ArchivedInv, OrderInv, WalkInv, Walking, Whole
<1> QED
  BY <1>1, <1>2, OwnStep

\* The size of a candidate is taken.
LEMMA StatStep ==
  ASSUME ArchiverInv, NEW u \in Upload, StatCandidate(u)
  PROVE  ArchiverInv'
<1> USE DEF ArchiverInv
<1> DEFINE real == Resolve(Candidate(u))
<1>1. CASE BuildFails(u)
  BY <1>1, BuildFailsStep
<1>2. CASE ~BuildFails(u)
  <2>1. /\ real \in File /\ tree[real] # Nothing
        /\ statted' = [statted EXCEPT ![u] = tree[real].size]
        /\ Goto(u, "hashing")
        /\ UNCHANGED <<tree, edited, manifest, todo, copying, archive>>
        /\ pc[u] = "resolving"
    BY <1>2 DEF StatCandidate, Resolvable, walkVars
  <2>2. tree[real].size \in Nat
    BY <2>1 DEF ArchiverTypeOK, Node
  <2>3. /\ \A v \in Upload : pc'[v] = IF v = u THEN "hashing" ELSE pc[v]
        /\ \A v \in Upload : statted'[v] = IF v = u THEN tree[real].size ELSE statted[v]
        /\ ArchiverTypeOK'
    BY <2>1, <2>2 DEF Goto, ArchiverTypeOK, Label
  <2>4. StatInv(u)'
    BY <2>1, <2>3 DEF StatInv, Candidate, Resolve
  <2>5. BuildInv(u)'
    BY <2>1, <2>3, <2>4
       DEF BuildInv, HashedInv, CopyInv, ArchivedInv, OrderInv, WalkInv, Walking, Whole
  <2> QED
    BY <2>1, <2>3, <2>5, OwnStep
<1> QED
  BY <1>1, <1>2

\* A candidate is hashed.
LEMMA HashStep ==
  ASSUME ArchiverInv, NEW u \in Upload, HashCandidate(u)
  PROVE  ArchiverInv'
<1> USE DEF ArchiverInv
<1> DEFINE real == Resolve(Candidate(u))
           e == [path |-> real, ver |-> tree[real].ver, size |-> statted[u]]
           old == manifest[u]
<1>1. CASE BuildFails(u)
  BY <1>1, BuildFailsStep
<1>2. CASE ~BuildFails(u)
  <2>1. /\ Resolvable(real)
        /\ manifest' = [manifest EXCEPT ![u] = Append(old, e)]
        /\ Goto(u, "resolving")
        /\ UNCHANGED <<tree, edited, statted, todo, copying, archive>>
        /\ pc[u] = "hashing"
    BY <1>2 DEF HashCandidate, HashedAsResolved, Hashed, walkVars
  <2>2. /\ real \in File /\ tree[real] # Nothing
        /\ real \notin edited.during[u] => statted[u] = tree[real].size
    BY <2>1 DEF BuildInv, StatInv, Resolvable
  <2>3. /\ tree[real].ver \in Nat /\ tree[real].ver > 0 /\ tree[real].ver <= edited.count + 1
        /\ statted[u] \in Nat
    BY <2>2 DEF ArchiverTypeOK, Node, TreeInv
  <2>4. old \in Seq([path : File, ver : Nat, size : Nat]) /\ e \in [path : File, ver : Nat, size : Nat]
    BY <2>2, <2>3 DEF ArchiverTypeOK
  <2> HIDE DEF e, old
  <2>5. /\ Append(old, e) \in Seq([path : File, ver : Nat, size : Nat])
        /\ \A i \in DOMAIN Append(old, e) :
             (i \in DOMAIN old /\ Append(old, e)[i] = old[i]) \/ Append(old, e)[i] = e
    BY <2>4, Appended
  <2>6. /\ \A v \in Upload : pc'[v] = IF v = u THEN "resolving" ELSE pc[v]
        /\ \A v \in Upload : manifest'[v] = IF v = u THEN Append(old, e) ELSE manifest[v]
        /\ ArchiverTypeOK'
    BY <2>1, <2>5 DEF Goto, ArchiverTypeOK, Label
  <2>7. HashedInv(u)'
    <3> SUFFICES ASSUME NEW i \in DOMAIN Append(old, e)
                 PROVE  LET m == Append(old, e)[i]
                            now == tree[m.path]
                        IN  /\ m.ver > 0 /\ m.ver <= edited.count + 1
                            /\ now = Nothing \/ m.ver <= now.ver
                            /\ m.path \notin edited.during[u] => m.ver = now.ver /\ m.size = now.size
      <4>1. manifest'[u] = Append(old, e) /\ tree' = tree /\ edited' = edited
        BY <2>1, <2>6
      <4> QED
        BY <4>1, Zenon DEF HashedInv
    <3>1. CASE i \in DOMAIN old /\ Append(old, e)[i] = old[i]
      BY <3>1 DEF BuildInv, HashedInv, old
    <3>2. CASE Append(old, e)[i] = e
      BY <2>2, <2>3, <3>2 DEF e
    <3> QED
      BY <2>5, <3>1, <3>2
  <2>8. archive[u] = << >>
    BY <2>1 DEF BuildInv, OrderInv
  <2>9. BuildInv(u)'
    BY <2>1, <2>6, <2>7, <2>8
       DEF BuildInv, StatInv, CopyInv, ArchivedInv, OrderInv, WalkInv, Walking, Whole
  <2> QED
    BY <2>1, <2>6, <2>9, OwnStep
<1> QED
  BY <1>1, <1>2

\* A file that is not there is not listed: if the manifest names it, it was
\* removed during the call.
LEMMA UnlistedIsGone ==
  ASSUME ArchiverInv, NEW u \in Upload, NEW p \in Path, ~Resolvable(p)
  PROVE  p \in File /\ (p \in edited.during[u] \/ ~Named(u, p))
BY ManifestTyped DEF Resolvable, Nothing, Named, ArchiverInv, BuildInv, HashedInv

\* The manifest is sorted, and the root is listed.
LEMMA OpenOutputStep ==
  ASSUME ArchiverInv, NEW u \in Upload, OpenOutput(u)
  PROVE  ArchiverInv'
<1> USE DEF ArchiverInv
<1> DEFINE old == manifest[u]
<1>1. PICK sorted \in Sortings(old) : manifest' = [manifest EXCEPT ![u] = sorted]
  BY DEF OpenOutput
<1>2. /\ todo' = [todo EXCEPT ![u] = Listing(0)]
      /\ Goto(u, "walking")
      /\ UNCHANGED <<tree, edited, statted, copying, archive>>
      /\ pc[u] = "resolving"
  BY DEF OpenOutput
<1>3. old \in Seq([path : File, ver : Nat, size : Nat])
  BY DEF ArchiverTypeOK
<1>4. sorted \in Seq([path : File, ver : Nat, size : Nat]) /\ \A i \in DOMAIN sorted : \E j \in DOMAIN old : sorted[i] = old[j]
  BY <1>3, Sorted
<1>5. /\ \A v \in Upload : pc'[v] = IF v = u THEN "walking" ELSE pc[v]
      /\ \A v \in Upload : manifest'[v] = IF v = u THEN sorted ELSE manifest[v]
      /\ \A v \in Upload : todo'[v] = IF v = u THEN Listing(0) ELSE todo[v]
      /\ ArchiverTypeOK'
  BY <1>1, <1>2, <1>4 DEF Goto, ArchiverTypeOK, Label, Walking, Listing
<1>6. archive[u] = << >>
  BY <1>2 DEF BuildInv, OrderInv
<1>7. HashedInv(u)'
  <2>1. manifest'[u] = sorted /\ tree' = tree /\ edited' = edited
    BY <1>2, <1>5
  <2>2. \A i \in DOMAIN sorted : \E j \in DOMAIN manifest[u] : sorted[i] = manifest[u][j]
    BY <1>4
  <2>3. HashedInv(u)
    BY DEF BuildInv
  <2> QED
    BY <2>1, <2>2, <2>3 DEF HashedInv
<1>8. WalkInv(u)'
  <2> SUFFICES ASSUME NEW p \in Path \ Skipped, Parent[p] = 0
               PROVE  \/ p \in Listing(0)
                      \/ p \in File /\ (p \in edited.during[u] \/ ~Named(u, p)')
    BY <1>2, <1>5, <1>6 DEF WalkInv, Archived, Walking, Whole
  <2>1. Named(u, p)' => Named(u, p)
    BY <1>4, <1>5 DEF Named
  <2> QED
    BY <2>1, UnlistedIsGone DEF Listing
<1>9. BuildInv(u)'
  BY <1>2, <1>5, <1>6, <1>7, <1>8
     DEF BuildInv, StatInv, CopyInv, ArchivedInv, OrderInv, Walking, Whole
<1> QED
  BY <1>2, <1>5, <1>9, OwnStep

\* The walk passes over a path.
LEMMA SkipStep ==
  ASSUME ArchiverInv, NEW u \in Upload, Skip(u)
  PROVE  ArchiverInv'
<1> USE DEF ArchiverInv
<1>1. /\ UNCHANGED <<tree, edited, pc, manifest, statted, copying, archive>>
      /\ pc[u] = "walking" /\ Current(u) \in Skipped
      /\ \A v \in Upload : todo'[v] = IF v = u THEN todo[u] \ {Current(u)} ELSE todo[v]
      /\ ArchiverTypeOK'
  BY DEF Skip, Visit, ArchiverTypeOK
<1>2. WalkInv(u)'
  BY <1>1 DEF BuildInv, WalkInv, Archived, Named, Walking, Whole
<1>3. BuildInv(u)'
  BY <1>1, <1>2 DEF BuildInv, HashedInv, StatInv, CopyInv, ArchivedInv, OrderInv
<1> QED
  BY <1>1, <1>3, OwnStep

\* What is archived after an entry was appended.
LEMMA ArchiveGrows ==
  ASSUME ArchiverInv, NEW u \in Upload,
         NEW p \in Path \cup {0}, NEW ver \in Nat,
         archive' = [archive EXCEPT ![u] = Append(@, Entry(p, ver))]
  PROVE  /\ archive' \in [Upload -> Seq([path : Path \cup {0}, ver : Nat])]
         /\ \A v \in Upload \ {u} : archive'[v] = archive[v]
         /\ \A j \in DOMAIN archive'[u] :
              \/ j \in DOMAIN archive[u] /\ archive'[u][j] = archive[u][j]
              \/ archive'[u][j] = Entry(p, ver)
         /\ \A q : Archived(u, q)' <=> Archived(u, q) \/ q = p
<1> DEFINE old == archive[u]
           e == Entry(p, ver)
<1>1. old \in Seq([path : Path \cup {0}, ver : Nat]) /\ e \in [path : Path \cup {0}, ver : Nat]
  BY DEF ArchiverInv, ArchiverTypeOK, Entry
<1>2. e.path = p
  BY DEF Entry
<1>3. /\ \A v \in Upload : archive'[v] = IF v = u THEN Append(old, e) ELSE archive[v]
      /\ Append(old, e) \in Seq([path : Path \cup {0}, ver : Nat])
         => archive' \in [Upload -> Seq([path : Path \cup {0}, ver : Nat])]
  BY DEF ArchiverInv, ArchiverTypeOK
<1> HIDE DEF e, old
<1>4. /\ Append(old, e) \in Seq([path : Path \cup {0}, ver : Nat])
      /\ \A i \in DOMAIN old : i \in DOMAIN Append(old, e) /\ Append(old, e)[i] = old[i]
      /\ \A i \in DOMAIN Append(old, e) :
           (i \in DOMAIN old /\ Append(old, e)[i] = old[i]) \/ Append(old, e)[i] = e
      /\ \E i \in DOMAIN Append(old, e) : Append(old, e)[i] = e
  BY <1>1, Appended
<1>5. archive'[u] = Append(old, e) /\ archive[u] = old
  BY <1>3 DEF old
<1>6. \A q : Archived(u, q)' <=> Archived(u, q) \/ q = p
  BY <1>2, <1>4, <1>5 DEF Archived
<1> QED
  BY <1>3, <1>4, <1>5, <1>6 DEF e

\* A directory or a link is archived, and a directory is listed.
LEMMA AddHeaderStep ==
  ASSUME ArchiverInv, NEW u \in Upload, AddHeader(u)
  PROVE  ArchiverInv'
<1> USE DEF ArchiverInv
<1> DEFINE p == Current(u)
<1>1. /\ p \in Path /\ p \notin Skipped \cup File
      /\ pc[u] = "walking"
      /\ todo' = [todo EXCEPT ![u] = (@ \ {p}) \cup Listing(p)]
      /\ archive' = [archive EXCEPT ![u] = Append(@, Entry(p, 0))]
      /\ UNCHANGED <<tree, edited, pc, manifest, statted, copying>>
  BY CurrentIsListed DEF AddHeader, Visit, ArchiverTypeOK
<1> HIDE DEF p
<1>2. /\ archive' \in [Upload -> Seq([path : Path \cup {0}, ver : Nat])]
      /\ \A v \in Upload \ {u} : archive'[v] = archive[v]
      /\ \A j \in DOMAIN archive'[u] :
           \/ j \in DOMAIN archive[u] /\ archive'[u][j] = archive[u][j]
           \/ archive'[u][j] = Entry(p, 0)
      /\ \A q : Archived(u, q)' <=> Archived(u, q) \/ q = p
  BY <1>1, ArchiveGrows
<1>3. /\ \A v \in Upload : todo'[v] = IF v = u THEN (todo[u] \ {p}) \cup Listing(p) ELSE todo[v]
      /\ ArchiverTypeOK'
  BY <1>1, <1>2 DEF ArchiverTypeOK, Listing
<1>4. ArchivedInv(u)'
  <2>1. \A i \in DOMAIN manifest[u] : manifest[u][i].path \in File
    BY ManifestTyped
  <2>2. Entry(p, 0).path \notin File
    BY <1>1 DEF Entry
  <2>3. ArchivedInv(u) /\ UNCHANGED <<tree, edited, manifest>>
    BY <1>1 DEF BuildInv
  <2>4. \A i \in DOMAIN manifest[u] : \A j \in DOMAIN archive'[u] :
          manifest[u][i].path = archive'[u][j].path =>
            j \in DOMAIN archive[u] /\ archive'[u][j] = archive[u][j]
    BY <1>2, <2>1, <2>2
  <2> QED
    BY <2>3, <2>4 DEF ArchivedInv
<1>5. WalkInv(u)'
  <2> SUFFICES ASSUME NEW q \in Path \ Skipped,
                      Parent[q] = 0 \/ Archived(u, Parent[q]) \/ Parent[q] = p
               PROVE  \/ q \in (todo[u] \ {p}) \cup Listing(p)
                      \/ Archived(u, q) \/ q = p
                      \/ q \in File /\ (q \in edited.during[u] \/ ~Named(u, q))
    <3>1. /\ pc'[u] \notin Whole /\ edited' = edited /\ manifest' = manifest
          /\ todo'[u] = (todo[u] \ {p}) \cup Listing(p)
      BY <1>1, <1>3 DEF Whole
    <3> QED
      BY <1>2, <3>1 DEF WalkInv, Named
  <2>1. CASE Parent[q] = p
    BY <2>1, UnlistedIsGone DEF Listing
  <2>2. CASE Parent[q] # p
    BY <1>1, <2>2 DEF BuildInv, WalkInv, Walking
  <2> QED
    BY <2>1, <2>2
<1>6. BuildInv(u)'
  BY <1>1, <1>4, <1>5 DEF BuildInv, HashedInv, StatInv, CopyInv, OrderInv
<1> QED
  BY <1>1, <1>2, <1>3, <1>6, OwnStep

\* A file is opened for the archive.
LEMMA OpenFileStep ==
  ASSUME ArchiverInv, NEW u \in Upload, OpenFile(u)
  PROVE  ArchiverInv'
<1> USE DEF ArchiverInv
<1> DEFINE p == Current(u)
<1>1. CASE BuildFails(u)
  BY <1>1, BuildFailsStep
<1>2. CASE ~BuildFails(u)
  <2>1. /\ p \in File \ Skipped /\ tree[p] # Nothing
        /\ copying' = [copying EXCEPT ![u] = tree[p]]
        /\ Goto(u, "copying")
        /\ UNCHANGED <<tree, edited, manifest, statted, todo, archive>>
        /\ pc[u] = "walking"
    BY <1>2 DEF OpenFile, Visit, Resolvable
  <2>2. tree[p] \in Node /\ tree[p].size > 0
    BY <2>1 DEF ArchiverTypeOK, TreeInv
  <2>3. /\ \A v \in Upload : pc'[v] = IF v = u THEN "copying" ELSE pc[v]
        /\ \A v \in Upload : copying'[v] = IF v = u THEN tree[p] ELSE copying[v]
        /\ ArchiverTypeOK'
    BY <2>1, <2>2 DEF Goto, ArchiverTypeOK, Label, Walking
  <2>4. CopyInv(u)'
    BY <2>1, <2>2, <2>3 DEF CopyInv, Current, BuildInv, HashedInv
  <2>5. WalkInv(u)'
    BY <2>1, <2>3 DEF BuildInv, WalkInv, Walking, Whole, Archived, Named
  <2>6. BuildInv(u)'
    BY <2>1, <2>3, <2>4, <2>5 DEF BuildInv, HashedInv, StatInv, ArchivedInv, OrderInv
  <2> QED
    BY <2>1, <2>3, <2>6, OwnStep
<1> QED
  BY <1>1, <1>2

\* Its content is archived.
LEMMA CopyFileStep ==
  ASSUME ArchiverInv, NEW u \in Upload, CopyFile(u)
  PROVE  ArchiverInv'
<1> USE DEF ArchiverInv
<1> DEFINE p == Current(u)
<1>1. CASE BuildFails(u)
  BY <1>1, BuildFailsStep
<1>2. CASE ~BuildFails(u)
  <2>1. PICK end \in {copying[u], tree[p]} :
          /\ end.size = copying[u].size
          /\ archive' = [archive EXCEPT ![u] = Append(@, Entry(p, end.ver))]
          /\ todo' = [todo EXCEPT ![u] = @ \ {p}]
          /\ Goto(u, "walking")
          /\ UNCHANGED <<tree, edited, manifest, statted, copying>>
    BY <1>2 DEF CopyFile
  <2>2. pc[u] = "copying" /\ p \in File \ Skipped /\ copying[u].size > 0
    BY DEF CopyFile, BuildInv, CopyInv
  <2>3. end \in Node /\ end.ver \in Nat /\ tree[p] \in Node
    BY <2>2 DEF ArchiverTypeOK, Node
  <2>4. \A i \in DOMAIN manifest[u] :
          manifest[u][i].path = p =>
            /\ manifest[u][i].ver <= end.ver
            /\ p \notin edited.during[u] => end.ver = tree[p].ver
    <3>1. CASE end = copying[u]
      BY <2>2, <3>1 DEF BuildInv, CopyInv
    <3>2. CASE end = tree[p]
      <4>1. tree[p] # Nothing
        BY <2>1, <2>2, <3>2 DEF Nothing
      <4> QED
        BY <3>2, <4>1 DEF BuildInv, HashedInv
    <3> QED
      BY <3>1, <3>2
  <2>5. p \in Path /\ p \notin Dir \cup {0}
    BY <2>2, ArchiverAssumption DEF File
  <2> HIDE DEF p
  <2>6. /\ archive' \in [Upload -> Seq([path : Path \cup {0}, ver : Nat])]
        /\ \A v \in Upload \ {u} : archive'[v] = archive[v]
        /\ \A j \in DOMAIN archive'[u] :
             \/ j \in DOMAIN archive[u] /\ archive'[u][j] = archive[u][j]
             \/ archive'[u][j] = Entry(p, end.ver)
        /\ \A q : Archived(u, q)' <=> Archived(u, q) \/ q = p
    BY <2>1, <2>3, <2>5, ArchiveGrows
  <2>7. /\ \A v \in Upload : pc'[v] = IF v = u THEN "walking" ELSE pc[v]
        /\ \A v \in Upload : todo'[v] = IF v = u THEN todo[u] \ {p} ELSE todo[v]
        /\ ArchiverTypeOK'
    BY <2>1, <2>6 DEF Goto, ArchiverTypeOK, Label, Walking
  <2>8. ArchivedInv(u)'
    BY <2>1, <2>4, <2>6 DEF BuildInv, ArchivedInv, Entry
  <2>9. WalkInv(u)'
    <3> SUFFICES ASSUME NEW q \in Path \ Skipped, Parent[q] = 0 \/ Archived(u, Parent[q])
                 PROVE  \/ q \in todo[u] \/ Archived(u, q)
                        \/ q \in File /\ (q \in edited.during[u] \/ ~Named(u, q))
      <4>1. \A q \in Path : Parent[q] # p
        BY <2>5, ArchiverAssumption
      <4> QED
        BY <2>1, <2>6, <2>7, <4>1 DEF WalkInv, Named, Walking, Whole
    <3> QED
      BY <2>2 DEF BuildInv, WalkInv, Walking
  <2>10. HashedInv(u)'
    BY <2>1 DEF BuildInv, HashedInv
  <2>11. BuildInv(u)'
    BY <2>7, <2>8, <2>9, <2>10 DEF BuildInv, StatInv, CopyInv, OrderInv
  <2> QED
    BY <2>1, <2>6, <2>7, <2>11, OwnStep
<1> QED
  BY <1>1, <1>2

\* The archive is closed.
LEMMA CloseStep ==
  ASSUME ArchiverInv, NEW u \in Upload, CloseArchive(u)
  PROVE  ArchiverInv'
<1> USE DEF ArchiverInv
<1>1. CASE BuildFails(u)
  BY <1>1, BuildFailsStep
<1>2. CASE ~BuildFails(u)
  <2>1. /\ pc[u] = "walking" /\ todo[u] = {}
        /\ Goto(u, "built")
        /\ archive' = archive \/ archive' = [archive EXCEPT ![u] = Append(@, Entry(0, 0))]
        /\ UNCHANGED <<tree, edited, manifest, statted, todo, copying>>
    BY <1>2 DEF CloseArchive, ArchiverTypeOK
  <2>2. /\ archive' \in [Upload -> Seq([path : Path \cup {0}, ver : Nat])]
        /\ \A v \in Upload \ {u} : archive'[v] = archive[v]
        /\ \A j \in DOMAIN archive'[u] :
             \/ j \in DOMAIN archive[u] /\ archive'[u][j] = archive[u][j]
             \/ archive'[u][j] = Entry(0, 0)
        /\ \A q : Archived(u, q)' => Archived(u, q) \/ q = 0
        /\ \A q : Archived(u, q) => Archived(u, q)'
    <3>1. CASE archive' = archive
      BY <3>1 DEF ArchiverTypeOK, Archived
    <3>2. CASE archive' = [archive EXCEPT ![u] = Append(@, Entry(0, 0))]
      <4>1. 0 \in Path \cup {0} /\ 0 \in Nat
        OBVIOUS
      <4>2. /\ archive' \in [Upload -> Seq([path : Path \cup {0}, ver : Nat])]
            /\ \A v \in Upload \ {u} : archive'[v] = archive[v]
            /\ \A j \in DOMAIN archive'[u] :
                 \/ j \in DOMAIN archive[u] /\ archive'[u][j] = archive[u][j]
                 \/ archive'[u][j] = Entry(0, 0)
            /\ \A q : Archived(u, q)' <=> Archived(u, q) \/ q = 0
        BY <3>2, <4>1, ArchiveGrows
      <4> QED
        BY <4>2
    <3> QED
      BY <2>1, <3>1, <3>2
  <2>3. /\ \A v \in Upload : pc'[v] = IF v = u THEN "built" ELSE pc[v]
        /\ ArchiverTypeOK'
    BY <2>1, <2>2 DEF Goto, ArchiverTypeOK, Label, Whole
  <2>4. ArchivedInv(u)'
    <3>1. \A i \in DOMAIN manifest[u] : manifest[u][i].path # 0
      BY ManifestTyped, ArchiverAssumption DEF File
    <3>2. ArchivedInv(u) /\ UNCHANGED <<tree, edited, manifest>>
      BY <2>1 DEF BuildInv
    <3>3. Entry(0, 0).path = 0
      BY DEF Entry
    <3> QED
      BY <2>2, <3>1, <3>2, <3>3 DEF ArchivedInv
  <2>5. WalkInv(u)'
    BY <2>1, <2>2, <2>3 DEF BuildInv, WalkInv, Named, Walking, Whole
  <2>6. HashedInv(u)'
    BY <2>1 DEF BuildInv, HashedInv
  <2>7. BuildInv(u)'
    BY <2>3, <2>4, <2>5, <2>6 DEF BuildInv, StatInv, CopyInv, OrderInv
  <2> QED
    BY <2>1, <2>2, <2>3, <2>7, OwnStep
<1> QED
  BY <1>1, <1>2

\* Build preserves the invariant, step by step.
LEMMA BuildStep ==
  ASSUME ArchiverInv, NEW u \in Upload, Build(u)
  PROVE  ArchiverInv'
BY BeginStep, StatStep, HashStep, OpenOutputStep, SkipStep, AddHeaderStep, OpenFileStep,
   CopyFileStep, CloseStep, BuildFailsStep DEF Build, IoFails

\* It holds before any call.
LEMMA ArchiverStart ==
  ASSUME ArchiverInit
  PROVE  ArchiverInv
<1>1. ArchiverTypeOK
  BY EmptySeq DEF ArchiverInit, ArchiverTypeOK, Node, Nothing, Label
<1>2. TreeInv
  BY DEF ArchiverInit, TreeInv, Nothing
<1>3. ASSUME NEW u \in Upload
      PROVE  BuildInv(u)
  BY DEF ArchiverInit, BuildInv, HashedInv, StatInv, CopyInv, ArchivedInv, OrderInv, WalkInv,
         Walking, Whole
<1> QED
  BY <1>1, <1>2, <1>3 DEF ArchiverInv
-----------------------------------------------------------------------------
(***************************************************************************)
(* What the invariant says of a finished archive                           *)
(***************************************************************************)

\* It has every directory that the walk does not pass over.
LEMMA DirsAreArchived ==
  ASSUME ArchiverInv, NEW u \in Upload, pc[u] \in Whole, NEW d \in Dir \ Skipped
  PROVE  Archived(u, d)
<1> DEFINE Missing == {x \in Dir \ Skipped : ~Archived(u, x)}
<1>1. SUFFICES ASSUME Missing # {} PROVE FALSE
  OBVIOUS
<1>2. Missing \in SUBSET Nat
  BY ArchiverAssumption
<1>3. PICK x \in Missing : \A y \in Missing : x <= y
  BY <1>1, <1>2, Least
<1>4. x \in Path \ Skipped /\ x \notin File /\ x \in Nat
  BY ArchiverAssumption DEF File
<1>5. /\ Parent[x] \in Dir \cup {0} /\ Parent[x] \notin Skipped
      /\ Parent[x] < x /\ Parent[x] \in Nat
  <2>1. Parent[x] \in Dir \cup {0} /\ Parent[x] \notin Skipped /\ Parent[x] < x
    BY <1>4, ArchiverAssumption
  <2>2. \A z \in Dir \cup {0} : z \in Nat
    BY ArchiverAssumption
  <2> QED
    BY <2>1, <2>2, Zenon
<1>6. Parent[x] = 0 \/ Archived(u, Parent[x])
  <2>1. Parent[x] \notin Missing
    BY <1>3, <1>4, <1>5
  <2> QED
    BY <1>5, <2>1
<1>7. WalkInv(u)
  BY DEF ArchiverInv, BuildInv
<1> QED
  BY <1>4, <1>6, <1>7 DEF WalkInv

\* It has every file of the manifest, unless that was removed meanwhile or the
\* walk passes over it.
LEMMA NamedAreArchived ==
  ASSUME ArchiverInv, NEW u \in Upload, pc[u] \in Whole, NEW p, Named(u, p)
  PROVE  Archived(u, p) \/ p \in edited.during[u] \/ p \in Skipped
<1>1. p \in File /\ p \in Path
  BY ManifestTyped DEF ArchiverInv, Named, File
<1>2. SUFFICES ASSUME p \notin Skipped PROVE Archived(u, p) \/ p \in edited.during[u]
  OBVIOUS
<1>3. Parent[p] = 0 \/ Parent[p] \in Dir \ Skipped
  BY <1>1, <1>2, ArchiverAssumption
<1>4. Parent[p] = 0 \/ Archived(u, Parent[p])
  BY <1>3, DirsAreArchived
<1>5. WalkInv(u)
  BY DEF ArchiverInv, BuildInv
<1> QED
  BY <1>1, <1>2, <1>4, <1>5 DEF WalkInv
=============================================================================
