---------------------------- MODULE AgentUpload ----------------------------
(***************************************************************************)
(* One upload of the plugin: client.Upload with the Inspect and Build it   *)
(* calls (internal/client/client.go, internal/snapshot/snapshot.go), while *)
(* other uploads of the same repository run, the person keeps working in   *)
(* it, and the Agent may abort the tool call.                              *)
(*                                                                         *)
(* A walk lists the repository and then visits the entries one by one, so  *)
(* the tree can change in between.  The repository is flat; the entry of   *)
(* an upload's temporary directory is written as the upload itself.  Paths *)
(* of the person's own that shouldSkip takes for the program's are in      *)
(* Skipped.  Only "regular" and "socket" files are told apart.  The        *)
(* credential server and the object store are external: they answer or     *)
(* fail, and the store takes an upload while its credential lasts.         *)
(***************************************************************************)
EXTENDS Naturals, FiniteSets

CONSTANTS
  Upload,    \* tool calls
  Path,      \* files of the repository
  Skipped,   \* those with a name of the program's: .tmp-test, .zcode-snapshot-*
  TTL,       \* lifetime of a credential
  MaxTime,   \* bound: the clock stops here
  MaxEdits,  \* bound: changes made to the repository
  Faults     \* "service": an answer fails; "size": too large; "io"; "remove"; "kill"

ASSUME UploadAssumption ==
  /\ Upload \cap Path = {}
  /\ Skipped \subseteq Path
  /\ TTL \in Nat /\ MaxTime \in Nat /\ MaxEdits \in Nat
  /\ Faults \subseteq {"service", "size", "io", "remove", "kill"}

VARIABLES
  now,      \* the clock
  tree,     \* what is at each path
  edits,    \* changes made to the tree
  dirs,     \* temporary directories on disk
  pc,       \* where each upload is
  todo,     \* entries its walk has listed and not visited
  seen,     \* entries its walk has added
  report,   \* result of the first Inspect
  steady,   \* history: paths regular ever since the walk listed them
  expires,  \* the credential's expires_at
  stored,   \* uploads the object store took
  why       \* history: the step that failed

vars == <<now, tree, edits, dirs, pc, todo, seen, report, steady, expires,
          stored, why>>
callVars == <<todo, seen, report, steady, expires>>

Kinds == {"regular", "socket", "absent"}

Walking == {"inspecting", "reinspecting", "archiving"}
Building == {"reinspecting", "archiving", "archived", "posting", "answered"}
Ended == {"done", "failed", "killed"}
Labels == Ended \cup Building \cup
          {"idle", "inspecting", "requesting", "granted", "failing", "succeeding"}

Init ==
  /\ now = 0
  /\ tree \in [Path -> {"regular", "socket"}]
  /\ edits = 0
  /\ dirs = {}
  /\ pc = [u \in Upload |-> "idle"]
  /\ todo = [u \in Upload |-> {}]
  /\ seen = [u \in Upload |-> {}]
  /\ report = [u \in Upload |-> {}]
  /\ steady = [u \in Upload |-> {}]
  /\ expires = [u \in Upload |-> 0]
  /\ stored = {}
  /\ why = [u \in Upload |-> "nothing"]

Goto(u, label) == pc' = [pc EXCEPT ![u] = label]

\* What a call has worked out goes with it when it fails or is killed.
Forget(u) ==
  /\ todo' = [todo EXCEPT ![u] = {}]
  /\ seen' = [seen EXCEPT ![u] = {}]
  /\ report' = [report EXCEPT ![u] = {}]
  /\ steady' = [steady EXCEPT ![u] = {}]
  /\ expires' = [expires EXCEPT ![u] = 0]

\* Not the code, a mutant: errors of Build and later return past the defer.
FailAtOnce(u, reason) ==
  /\ Goto(u, "failed")
  /\ why' = [why EXCEPT ![u] = reason]
  /\ Forget(u)

\* An error return; the deferred RemoveAll is still to come once it is armed.
Fail(u, reason) ==
  /\ Goto(u, IF pc[u] \in Building THEN "failing" ELSE "failed")
  /\ why' = [why EXCEPT ![u] = reason]
  /\ Forget(u)
-----------------------------------------------------------------------------
(***************************************************************************)
(* The surroundings                                                        *)
(***************************************************************************)

Tick ==
  /\ now < MaxTime
  /\ now' = now + 1
  /\ UNCHANGED <<tree, edits, dirs, pc, todo, seen, report, steady, expires,
                 stored, why>>

\* Somebody writes or removes a file, or git opens a socket.
Edit(p) ==
  /\ edits < MaxEdits
  /\ edits' = edits + 1
  /\ \E kind \in Kinds \ {tree[p]} : tree' = [tree EXCEPT ![p] = kind]
  /\ steady' = [u \in Upload |-> steady[u] \ {p}]
  /\ UNCHANGED <<now, dirs, pc, todo, seen, report, expires, stored, why>>

\* The Agent aborts the call: SIGTERM, which zcode-agent does not handle.
Kill(u) ==
  /\ "kill" \in Faults
  /\ pc[u] \notin Ended \cup {"idle"}
  /\ Goto(u, "killed")
  /\ Forget(u)
  /\ UNCHANGED <<now, tree, edits, dirs, stored, why>>
-----------------------------------------------------------------------------
(***************************************************************************)
(* The walks of Inspect and Build                                          *)
(***************************************************************************)

BeginWalk(u, label) ==
  /\ Goto(u, label)
  /\ todo' = [todo EXCEPT ![u] = {p \in Path : tree[p] # "absent"} \cup dirs']
  /\ seen' = [seen EXCEPT ![u] = {}]
  /\ steady' = [steady EXCEPT ![u] = {p \in Path : tree[p] = "regular"}]

\* LoadSettings succeeded; the first Inspect starts.
Begin(u) ==
  /\ pc[u] = "idle"
  /\ UNCHANGED <<now, tree, edits, dirs, report, expires, stored, why>>
  /\ BeginWalk(u, "inspecting")

\* What the walks leave out: the temporary directories, and whatever of the
\* person's bears such a name.
ShouldSkip(e) == e \in Upload \cup Skipped

\* Not the code, a mutant: a path that is skipped ends the walk.
SkipTheRest(u, e) ==
  /\ ShouldSkip(e)
  /\ todo' = [todo EXCEPT ![u] = {}]
  /\ UNCHANGED <<seen, pc, why, report, steady, expires>>

\* Not the code, a mutant: paths are looked at before they are skipped.
SkipAfterInfo(u, e) ==
  /\ ShouldSkip(e)
  /\ IF e \in dirs \/ (e \in Path /\ tree[e] # "absent")
     THEN /\ todo' = [todo EXCEPT ![u] = @ \ {e}]
          /\ UNCHANGED <<seen, pc, why, report, steady, expires>>
     ELSE Fail(u, "walk")

\* Not the code, a mutant: what is skipped is included all the same.
SkipAndCount(u, e) ==
  /\ ShouldSkip(e)
  /\ todo' = [todo EXCEPT ![u] = @ \ {e}]
  /\ seen' = [seen EXCEPT ![u] = @ \cup {e}]
  /\ UNCHANGED <<pc, why, report, steady, expires>>

\* shouldSkip comes before d.Info: what it matches may be gone, or a socket.
Skip(u, e) ==
  /\ ShouldSkip(e)
  /\ todo' = [todo EXCEPT ![u] = @ \ {e}]
  /\ UNCHANGED <<seen, pc, why, report, steady, expires>>

AddRegular(u, e) ==
  /\ ~ShouldSkip(e)
  /\ tree[e] = "regular"
  /\ todo' = [todo EXCEPT ![u] = @ \ {e}]
  /\ seen' = [seen EXCEPT ![u] = @ \cup {e}]
  /\ UNCHANGED <<pc, why, report, steady, expires>>

\* Inspect passes over a socket without a word.
PassOverSocket(u, e) ==
  /\ ~ShouldSkip(e)
  /\ tree[e] = "socket"
  /\ pc[u] \in {"inspecting", "reinspecting"}
  /\ todo' = [todo EXCEPT ![u] = @ \ {e}]
  /\ UNCHANGED <<seen, pc, why, report, steady, expires>>

\* d.Info of a file that is gone; tar.FileInfoHeader of a socket.
WalkFails(u, e) ==
  /\ ~ShouldSkip(e)
  /\ \/ tree[e] = "absent"
     \/ tree[e] = "socket" /\ pc[u] = "archiving"
  /\ Fail(u, "walk")

Visit(u) ==
  /\ pc[u] \in Walking
  /\ \E e \in todo[u] :
       \/ Skip(u, e) \/ AddRegular(u, e)
       \/ PassOverSocket(u, e) \/ WalkFails(u, e)
  /\ UNCHANGED <<now, tree, edits, dirs, stored>>

\* Somebody writes the file between d.Info and the end of io.Copy: too many or
\* too few bytes for the header that is already out.
WrittenUnderCopy(u) ==
  /\ pc[u] = "archiving"
  /\ edits < MaxEdits
  /\ edits' = edits + 1
  /\ \E p \in todo[u] : ~ShouldSkip(p) /\ tree[p] = "regular"
  /\ Fail(u, "walk")
  /\ UNCHANGED <<now, tree, dirs, stored>>

\* The error returns of the file operations: of a walk, of MkdirTemp, of the
\* manifest, and of the two output files.
FileFails(u) ==
  /\ "io" \in Faults
  /\ pc[u] \in Walking \cup {"granted", "archived"}
  /\ pc[u] = "granted" => now <= expires[u]
  /\ Fail(u, "io")
  /\ UNCHANGED <<now, tree, edits, dirs, stored>>
-----------------------------------------------------------------------------
(***************************************************************************)
(* The steps of Upload                                                     *)
(***************************************************************************)

\* Not the code, a mutant: the whole walk is one entry of the report.
InspectedAsOne(u) ==
  /\ pc[u] = "inspecting" /\ todo[u] = {}
  /\ report' = [report EXCEPT ![u] = {seen[u]}]
  /\ Goto(u, "requesting")
  /\ UNCHANGED <<now, tree, edits, dirs, todo, seen, steady, expires, stored, why>>

Inspected(u) ==
  /\ pc[u] = "inspecting" /\ todo[u] = {}
  /\ report' = [report EXCEPT ![u] = seen[u]]
  /\ Goto(u, "requesting")
  /\ UNCHANGED <<now, tree, edits, dirs, todo, seen, steady, expires, stored, why>>

Granted(u) ==
  /\ pc[u] = "requesting"
  /\ expires' = [expires EXCEPT ![u] = now + TTL]
  /\ Goto(u, "granted")
  /\ UNCHANGED <<now, tree, edits, dirs, todo, seen, report, steady, stored, why>>

\* No answer, an error status, an undecodable or an incomplete credential.
Denied(u) ==
  /\ "service" \in Faults
  /\ pc[u] = "requesting"
  /\ Fail(u, "credential")
  /\ UNCHANGED <<now, tree, edits, dirs, stored>>

\* The one look at expires_at, before anything is built.
Expired(u) ==
  /\ pc[u] = "granted"
  /\ now > expires[u]
  /\ Fail(u, "expired")
  /\ UNCHANGED <<now, tree, edits, dirs, stored>>

\* MkdirTemp inside the repository; Build begins with an Inspect of its own.
MakeTempDir(u) ==
  /\ pc[u] = "granted"
  /\ now <= expires[u]
  /\ dirs' = dirs \cup {u}
  /\ BeginWalk(u, "reinspecting")
  /\ UNCHANGED <<now, tree, edits, report, expires, stored, why>>

OpenArchive(u) ==
  /\ pc[u] = "reinspecting" /\ todo[u] = {}
  /\ UNCHANGED <<now, tree, edits, dirs, report, expires, stored, why>>
  /\ BeginWalk(u, "archiving")

CloseArchive(u) ==
  /\ pc[u] = "archiving" /\ todo[u] = {}
  /\ Goto(u, "archived")
  /\ UNCHANGED <<now, tree, edits, dirs, callVars, stored, why>>

Encrypt(u) ==
  /\ pc[u] = "archived"
  /\ \/ Goto(u, "posting") /\ UNCHANGED <<why, callVars>>
     \/ "size" \in Faults /\ Fail(u, "size")
  /\ UNCHANGED <<now, tree, edits, dirs, stored>>

Post(u) ==
  /\ pc[u] = "posting"
  /\ \/ /\ now < expires[u]
        /\ stored' = stored \cup {u}
        /\ Goto(u, "answered")
        /\ UNCHANGED <<why, callVars>>
     \/ /\ now >= expires[u]
        /\ Fail(u, "expired")
        /\ UNCHANGED stored
     \/ /\ "service" \in Faults
        /\ Fail(u, "post")
        /\ UNCHANGED stored
  /\ UNCHANGED <<now, tree, edits, dirs>>

\* The answer of the store arrives, or is lost on the way.
Answer(u) ==
  /\ pc[u] = "answered"
  /\ \/ Goto(u, "succeeding") /\ UNCHANGED <<why, callVars>>
     \/ "service" \in Faults /\ Fail(u, "answer")
  /\ UNCHANGED <<now, tree, edits, dirs, stored>>

\* The deferred RemoveAll, its error ignored.
RemoveTempDir(u) ==
  /\ pc[u] \in {"failing", "succeeding"}
  /\ \/ dirs' = dirs \ {u} /\ UNCHANGED why
     \/ "remove" \in Faults /\ why' = [why EXCEPT ![u] = "remove"] /\ UNCHANGED dirs
  /\ Goto(u, IF pc[u] = "failing" THEN "failed" ELSE "done")
  /\ UNCHANGED <<now, tree, edits, callVars, stored>>

UploadStep(u) ==
  \/ Begin(u) \/ Visit(u) \/ WrittenUnderCopy(u) \/ FileFails(u) \/ Inspected(u)
  \/ Granted(u) \/ Denied(u) \/ Expired(u) \/ MakeTempDir(u)
  \/ OpenArchive(u) \/ CloseArchive(u) \/ Encrypt(u) \/ Post(u) \/ Answer(u) \/ RemoveTempDir(u)

Next ==
  \/ Tick
  \/ \E p \in Path : Edit(p)
  \/ \E u \in Upload : UploadStep(u) \/ Kill(u)

Spec == Init /\ [][Next]_vars
-----------------------------------------------------------------------------
\* The type of every variable.
TypeOK ==
  /\ now \in 0 .. MaxTime
  /\ tree \in [Path -> Kinds]
  /\ edits \in 0 .. MaxEdits
  /\ dirs \subseteq Upload
  /\ pc \in [Upload -> Labels]
  /\ todo \in [Upload -> SUBSET (Path \cup Upload)]
  /\ seen \in [Upload -> SUBSET (Path \cup Upload)]
  /\ report \in [Upload -> SUBSET (Path \cup Upload)]
  /\ steady \in [Upload -> SUBSET Path]
  /\ expires \in [Upload -> Nat]
  /\ stored \subseteq Upload
  /\ why \in [Upload -> {"nothing", "walk", "io", "credential", "expired", "size",
                         "post", "answer", "remove"}]

\* No snapshot, and no report, holds a temporary directory: not its own, not
\* that of a concurrent upload, not one that an aborted upload left behind.
NeverNested == \A u \in Upload : (seen[u] \cup report[u]) \cap Upload = {}

\* Whatever changes meanwhile, a file that was there from the first to the last
\* step of the walk is in the archive that is uploaded, unless shouldSkip takes
\* its name for one of the program's own: such a file is left out, unsaid.
ArchiveIsComplete ==
  \A u \in Upload :
    pc[u] \in {"archived", "posting", "answered"} => steady[u] \ Skipped \subseteq seen[u]

\* A walk fails because of a change or of a socket that it has to archive, never
\* because of what it skips: another upload whose temporary directory comes and
\* goes under it, or whatever else has such a name.
WalkErrorsAreReal ==
  \A u \in Upload :
    why[u] = "walk" => edits > 0 \/ \E p \in Path \ Skipped : tree[p] = "socket"

\* In a repository nobody touches, the report an upload returns, taken before
\* the archive was built, is the report of what was stored.
ReportIsWhatWasStored ==
  \A u \in Upload : pc[u] = "done" /\ edits = 0 => u \in stored /\ report[u] = seen[u]

\* A temporary directory has an upload at work in it, unless that was killed or
\* the removal itself failed.
TempDirsAreOwned ==
  \A u \in dirs :
    \/ pc[u] \in Building \cup {"failing", "succeeding", "killed"}
    \/ why[u] = "remove"

\* "Temporary archives are removed after success or failure."
TempDirsRemoved == \A u \in Upload : pc[u] \in Ended => u \notin dirs
=============================================================================
