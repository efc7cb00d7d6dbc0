------------------------------ MODULE Archiver ------------------------------
(***************************************************************************)
(* Build of internal/snapshot/snapshot.go: the extra manifest is hashed,   *)
(* then the repository is walked into a tar.gz whose last entry is the     *)
(* manifest, while people keep working in the repository.                  *)
(*                                                                         *)
(* A path is a number: WalkDir visits a directory before what is in it and *)
(* names in lexical order, and the numbers follow that order.  A file is   *)
(* its version and its size; directories and links stay what they are.     *)
(* AgentUpload models the walks of several uploads over one flat tree;     *)
(* here it is what one archive and its manifest say of a file.             *)
(***************************************************************************)
EXTENDS Naturals, Sequences, FiniteSets, FiniteSetsExt, Functions, SequencesExt

CONSTANTS
  Upload,     \* calls of Build, each with a temporary directory of its own
  Path,       \* paths of the repository, in the order of a walk
  Dir,        \* those that are directories
  Parent,     \* the directory a path is in; 0 is the root
  Link,       \* those that are symbolic links, with their targets
  Skipped,    \* those that shouldSkip tells the walk to pass over: it looks at the
              \* whole path, so what is in a skipped directory is skipped too
  Extra,      \* extraManifestPaths
  Present,    \* files that are there at the start
  MaxEdits,   \* bound: changes made to the repository
  Faults      \* "io": a file operation, though not the removal of an output
              \* file, fails; "close": the Close of an output does

File == Path \ (Dir \cup DOMAIN Link)

ASSUME ArchiverAssumption ==
  /\ Path \subseteq Nat \ {0} /\ IsFiniteSet(Path)
  /\ Dir \subseteq Path /\ Skipped \subseteq Path
  /\ \A p \in Path : Parent[p] \in Skipped => p \in Skipped
  /\ DOMAIN Link \subseteq Path
  /\ \A p \in DOMAIN Link : Link[p] \in Path \cup {0}
  /\ Parent \in [Path -> Dir \cup {0}]
  /\ \A p \in Path : Parent[p] < p
  /\ Extra \in Seq(Path)
  /\ Present \subseteq File
  /\ MaxEdits \in Nat
  /\ Faults \subseteq {"io", "close"}

VARIABLES
  tree,       \* version and size of each file; version 0 is no file
  edited,     \* history: changes made, and the files changed during each call
  pc,         \* where each call is
  manifest,   \* its manifest entries
  statted,    \* size os.Stat gave for the candidate that is hashed next
  todo,       \* paths the walk has listed and not visited
  copying,    \* the file whose content is being copied, as it was opened
  archive     \* entries of its tar.gz

archiverVars == <<tree, edited, pc, manifest, statted, todo, copying, archive>>
walkVars == <<todo, copying, archive>>

Nothing == [ver |-> 0, size |-> 0]

ArchiverInit ==
  /\ tree = [p \in File |-> IF p \in Present THEN [ver |-> 1, size |-> 1] ELSE Nothing]
  /\ edited = [count |-> 0, during |-> [u \in Upload |-> {}]]
  /\ pc = [u \in Upload |-> "idle"]
  /\ manifest = [u \in Upload |-> << >>]
  /\ statted = [u \in Upload |-> 0]
  /\ todo = [u \in Upload |-> {}]
  /\ copying = [u \in Upload |-> Nothing]
  /\ archive = [u \in Upload |-> << >>]

Goto(u, label) == pc' = [pc EXCEPT ![u] = label]

\* Somebody writes, creates or removes a file.  Every content is a new version.
Edit(p) ==
  /\ edited.count < MaxEdits
  /\ \E node \in {Nothing} \cup [ver : {edited.count + 2}, size : 1 .. 2] :
       /\ node # tree[p]
       /\ tree' = [tree EXCEPT ![p] = node]
  /\ edited' = [count |-> edited.count + 1,
                during |-> [u \in Upload |->
                  edited.during[u] \cup IF pc[u] = "idle" THEN {} ELSE {p}]]
  /\ UNCHANGED <<pc, manifest, statted, walkVars>>

\* An error: the deferred function removes the output file, if it is open.
BuildFails(u) ==
  /\ Goto(u, "failed")
  /\ archive' = [archive EXCEPT ![u] = << >>]
  /\ UNCHANGED <<tree, edited, manifest, statted, todo, copying>>
-----------------------------------------------------------------------------
(***************************************************************************)
(* buildManifest                                                           *)
(***************************************************************************)

\* Inspect has succeeded; buildManifest starts.
BeginBuild(u) ==
  /\ pc[u] = "idle"
  /\ Goto(u, "resolving")
  /\ UNCHANGED <<tree, edited, manifest, statted, walkVars>>

Candidate(u) == Extra[Len(manifest[u]) + 1]

\* EvalSymlinks; 0 is a path outside the repository.
Resolve(p) == IF p \in DOMAIN Link THEN Link[p] ELSE p

Resolvable(p) == p \in File => tree[p] # Nothing

\* The size of the entry is what os.Stat says, before the file is opened.
StatCandidate(u) ==
  /\ pc[u] = "resolving"
  /\ Len(manifest[u]) < Len(Extra)
  /\ LET real == Resolve(Candidate(u))
     IN  IF real \in File /\ Resolvable(real)
         THEN /\ statted' = [statted EXCEPT ![u] = tree[real].size]
              /\ Goto(u, "hashing")
              /\ UNCHANGED <<tree, edited, manifest, walkVars>>
         ELSE BuildFails(u)

Hashed(u, named) ==
  LET real == Resolve(Candidate(u))
  IN  [path |-> named, ver |-> tree[real].ver, size |-> statted[u]]

\* Not the code, a mutant: the entry is named as the candidate was.
HashedAsNamed(u) == Hashed(u, Candidate(u))

HashedAsResolved(u) == Hashed(u, Resolve(Candidate(u)))

HashCandidate(u) ==
  /\ pc[u] = "hashing"
  /\ IF Resolvable(Resolve(Candidate(u)))
     THEN /\ manifest' = [manifest EXCEPT ![u] = Append(@, HashedAsResolved(u))]
          /\ Goto(u, "resolving")
          /\ UNCHANGED <<tree, edited, statted, walkVars>>
     ELSE BuildFails(u)
-----------------------------------------------------------------------------
(***************************************************************************)
(* The walk                                                                *)
(***************************************************************************)

\* ReadDir of a directory, 0 being the root.
Listing(d) == {p \in Path : Parent[p] = d /\ Resolvable(p)}

\* sort.Slice: entries of one path, named twice, may change places.
Sortings(entries) ==
  {[i \in DOMAIN entries |-> entries[order[i]]] :
     order \in {b \in Bijection(DOMAIN entries, DOMAIN entries) :
                 \A i, j \in DOMAIN entries :
                   i < j => entries[b[i]].path <= entries[b[j]].path}}

\* The end of buildManifest, which sorts; the output is created, the walk starts.
OpenOutput(u) ==
  /\ pc[u] = "resolving"
  /\ Len(manifest[u]) = Len(Extra)
  /\ \E sorted \in Sortings(manifest[u]) : manifest' = [manifest EXCEPT ![u] = sorted]
  /\ todo' = [todo EXCEPT ![u] = Listing(0)]
  /\ Goto(u, "walking")
  /\ UNCHANGED <<tree, edited, statted, copying, archive>>

Current(u) == Min(todo[u])

Visit(u) == pc[u] = "walking" /\ todo[u] # {}

Entry(p, ver) == [path |-> p, ver |-> ver]

\* Not the code, a mutant: SkipDir is returned for a file too, and ends the
\* directory it is in.
SkipSiblings(u) ==
  /\ Visit(u)
  /\ Current(u) \in Skipped
  /\ todo' = [todo EXCEPT ![u] = {p \in @ : Parent[p] # Parent[Current(u)]}]
  /\ UNCHANGED <<tree, edited, pc, manifest, statted, copying, archive>>

\* What is in a skipped directory is never listed.
Skip(u) ==
  /\ Visit(u)
  /\ Current(u) \in Skipped
  /\ todo' = [todo EXCEPT ![u] = @ \ {Current(u)}]
  /\ UNCHANGED <<tree, edited, pc, manifest, statted, copying, archive>>

\* A directory's header, and its entries; a link's header, with its target.
AddHeader(u) ==
  /\ Visit(u)
  /\ Current(u) \notin Skipped \cup File
  /\ LET p == Current(u)
     IN  /\ todo' = [todo EXCEPT ![u] = (@ \ {p}) \cup Listing(p)]
         /\ archive' = [archive EXCEPT ![u] = Append(@, Entry(p, 0))]
  /\ UNCHANGED <<tree, edited, pc, manifest, statted, copying>>

\* d.Info gives the size for the header; then the file is opened.
OpenFile(u) ==
  /\ Visit(u)
  /\ Current(u) \in File \ Skipped
  /\ IF Resolvable(Current(u))
     THEN /\ copying' = [copying EXCEPT ![u] = tree[Current(u)]]
          /\ Goto(u, "copying")
          /\ UNCHANGED <<tree, edited, manifest, statted, todo, archive>>
     ELSE BuildFails(u)

\* What is copied ends as it was opened, or as it is by now: written in place,
\* replaced, or gone before os.Open.  tar refuses a content that is longer or
\* shorter than its header says.
CopyFile(u) ==
  /\ pc[u] = "copying"
  /\ \E end \in {copying[u], tree[Current(u)]} :
       IF end.size = copying[u].size
       THEN /\ archive' = [archive EXCEPT ![u] = Append(@, Entry(Current(u), end.ver))]
            /\ todo' = [todo EXCEPT ![u] = @ \ {Current(u)}]
            /\ Goto(u, "walking")
            /\ UNCHANGED <<tree, edited, manifest, statted, copying>>
       ELSE BuildFails(u)

\* The manifest's own entry, and the three Close calls, each of them checked.
CloseArchive(u) ==
  /\ pc[u] = "walking" /\ todo[u] = {}
  /\ \/ /\ Goto(u, "built")
        /\ archive' = [archive EXCEPT ![u] =
             IF Extra = << >> THEN @ ELSE Append(@, Entry(0, 0))]
        /\ UNCHANGED <<tree, edited, manifest, statted, todo, copying>>
     \/ "close" \in Faults /\ BuildFails(u)

\* Any other operation of Inspect, buildManifest or the walk fails.
IoFails(u) ==
  /\ "io" \in Faults
  /\ pc[u] \in {"idle", "resolving", "hashing", "walking", "copying"}
  /\ BuildFails(u)

Build(u) ==
  \/ BeginBuild(u) \/ StatCandidate(u) \/ HashCandidate(u)
  \/ OpenOutput(u) \/ Skip(u) \/ AddHeader(u) \/ OpenFile(u) \/ CopyFile(u)
  \/ CloseArchive(u) \/ IoFails(u)
=============================================================================
