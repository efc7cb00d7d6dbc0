# ZPUG: models, checks and proofs

ZPUG packs a Git repository, encrypts it and uploads it with a short-lived form
that a small server issues. This directory holds TLA+ models of that program,
the TLC runs that check them on small instances, and theorems about every part
that TLAPS proves for every instance. Paths below are relative to the
repository; line numbers are in `PROJECT.json` (`map`).

## The system

| Component | State it keeps | Operations | What is hard about it |
| --- | --- | --- | --- |
| Snapshot server (`internal/server/server.go`) | `pending` and `receipts` in memory under one mutex; the object directory; the upload log | issue a credential, development upload, OSS callback, read the log, start and stop | one goroutine per request, two critical sections per upload with file operations between them, failing file operations, repeated callbacks, expiry, restarts that lose the maps |
| Key store (`internal/server/keys.go`) | private and public key file | load or create at every start | crash between two non-atomic writes, two servers on the same files |
| Plugin settings (`internal/client/settings.go`) | one JSON file | setup (two prompts, two saves), load | setups of several Agents overlap, are refused or killed; read errors |
| Plugin upload (`internal/client/client.go`) | a temporary directory in the repository | inspect, request a credential, build, encrypt, post, clean up | the repository changes meanwhile, other uploads run in it, the Agent aborts, the credential expires |
| Archiver (`internal/snapshot/snapshot.go`) | none of its own | `Inspect`, `Build`, extra manifest | a walk is not atomic |
| Envelope (`internal/envelope/envelope.go`) | the output file while it is written | encrypt with a size limit, decrypt | limit boundary, truncated input, order of `ok` and `Close` |
| MCP server (`internal/mcp/server.go`) | the request in hand | one request after the other from stdin | a long upload blocks the loop, and so does a write to a pipe nobody reads; lines it cannot read |
| Configuration (`internal/server/config.go`) | none | load, default, validate | accepts zero and negative lifetimes, and limits near the end of int64 |
| Programs, pi extension, scripts, manifests | none | start the above | `zcode-agent` handles no signal; the extension aborts with SIGTERM |

They meet in five places. The plugin asks the server for a credential and posts
to the object storage: the server itself (`development`) or a cloud store that
calls the server back (`cloud-oss`). All server handlers share `Server.mu`, the
object directory and the log; `zcode-server logs` reads the log from another
process. Uploads of one repository share its tree, in which each makes its
temporary directory. All Agents of a user share one settings file. The limit of the server's
configuration travels in the credential to the plugin's `EncryptFile` and returns
as the size of what the store is asked to take.

What makes each part correct:

- server: one writer per object; an upload that was acknowledged is logged and stored
  for good; one line per upload; nothing is left behind by an upload that failed; a
  credential is refused only for a reason, and never completed after it is dead; every
  request is answered;
- key store: no key that was handed out is lost, over crashes and restarts; the public
  file never names another key than the private one;
- settings: no upload without a person's consent to that very server; consent once
  given is kept;
- call: a success means that the snapshot is kept, an error from before the post that
  nothing is; every line the MCP server reads is answered once, in order, and the loop
  gets through;
- package: the manifest is never ahead of the archive; the limit is exact, and the
  store takes what the limit allowed; what is stored decrypts to the archive, what is
  cut short or damaged is refused;
- upload and archiver: the archive holds every file that was there throughout, but for
  names `shouldSkip` claims, and no temporary directory; uploads do not disturb one
  another; nothing is left in the repository.

`PROJECT.json` lists the hazards behind these, each at its line.

## Modules

| Module | Models | Runs |
| --- | --- | --- |
| `UploadLedger` | what the server promises, without handlers, mutex or files | (property of `server_dev`, `server_cloud`) |
| `SnapshotServer` | the server, both storage modes | `server_dev`, `server_cloud`, `log_order`, `log_listing` |
| `MCSnapshotServer` | its small instances | the same |
| `SnapshotServerProofs` | its inductive invariant and theorems | TLAPS |
| `UploadOutcome` | what an Agent may conclude from the end of a call | (property of `agent_session`) |
| `McpServer` | the request loop | (part of `agent_session`) |
| `AgentSession` | `SnapshotServer`, `McpServer` and the plugin's calls together | `agent_session` |
| `MCAgentSession` | its small instance | the same |
| `AgentSessionProofs` | their inductive invariant and theorems, on those of the server | TLAPS |
| `KeyStore` | `loadOrCreateKeys` over starts and crashes | `key_store`, `key_publication` |
| `KeyStoreProofs` | its inductive invariant and theorems | TLAPS |
| `PluginSettings` | `Configure`, `LoadSettings` | `plugin_settings`, `setup_race` |
| `PluginSettingsProofs` | its inductive invariant and theorems | TLAPS |
| `AgentUpload` | `client.Upload` with the walks of `Inspect` and `Build` | `agent_upload`, `temp_dirs` |
| `AgentUploadProofs` | its inductive invariant and theorems | TLAPS |
| `MCAgentUpload` | its symmetry | the same |
| `Archiver` | `Build` and `buildManifest` | (part of `package`) |
| `Envelope` | `EncryptFile` and `Decrypt` | (part of `package`) |
| `ServerConfig` | `LoadConfig`, and the limits that follow from it | (part of `package`) |
| `SnapshotPackage` | these three, the store and whoever decrypts | `package` |
| `MCSnapshotPackage` | its small repository and its configurations | the same |
| `ArchiverProofs` | what every step of `Build` preserves, and what follows for a finished archive | TLAPS |
| `SnapshotPackageProofs` | the inductive invariant of the package and its theorems | TLAPS |

A definition whose comment begins "Not the code, a mutant" is a plausible bug
kept beside the definition it would replace; no specification uses it. Each
property of a passing run is violated when its mutant (`PROJECT.json`,
`mutants`) takes the place of the code's definition.

### SnapshotServer

A step is what another goroutine or process cannot see half done: a section
under `Server.mu`, or one file operation. `pc[r]` is where the goroutine of
request `r` is: `parsed` (body read) → `admitted` (past `validPending`) →
`copying` (object file created) → `stored` (receipt stamped) → `recorded` →
`done`; `discard` is the `os.Remove` of an error path, `posted` an upload the
cloud store took and has not called back for, `lost` a goroutine that ended with
the process.

| Variable | Code |
| --- | --- |
| `pending`, `expires`, `receipts` | `Server.pending` with `ExpiresAt`, `Server.receipts` |
| `log` | writes to `upload_log_file`, each with how much of it reached the disk |
| `objects` | files under `development_storage_dir`, or the cloud store |
| `form`, `receivedAt`, `status` | request fields, `CallbackReceipt.ReceivedAt`, HTTP answer |
| `delivered`, `voided` | history: credentials that reached an agent; those a restart dropped |

`HandleCredential` is `handleCredential` with `makeUploadForm`: the pending
entry is stored before the form is made, and stays if that fails.
`ReceiveUpload` and `ReceiveCallback` begin the two upload handlers;
`RejectMalformed` is their early return. `Admit`/`Refuse` are `validPending`.
`CreateObject` … `Discard` are the body of `handleDevelopmentOSS`;
`StampCallback`, `UnusableSize` that of `handleCallback`; `Record`,
`RecordAgain`, `RecordFails` are `recordReceipt`; `Restart` is the end of the
process and the empty maps of the next `New`. `PostObject`, the cloud store, is
external and does what the signed policy allows. A token and an object key are
written as the identifier they were generated with, an ETag as the body.
`Faults` says what may go wrong in an instance:

- `create`, `copy`, `remove`: operations on the object file;
- `open`: the log write fails as a whole; `short`: part of a line is written;
  `close`: the line is written and an error returned all the same;
- `secret`: no OSS secret; `size`: the store reports an unusable size;
- `restart`.

The prefix check of `handleDevelopmentOSS` (lines 190-196) fails, for every upload,
when `object_prefix` leads out of the storage directory or that directory is `/`; it
is one of the outcomes of `CreateFails` (400, fault `create`), which also leaves the
credential pending and no file. The callback key is the right one: a genuine callback
always verifies.

### KeyStore, PluginSettings, AgentUpload

`KeyStore`: `os.WriteFile` is two steps, truncate and fill, so a `Stop` in
between leaves a `Torn` file. A process may stop and fail anywhere and be
started again; `raced` remembers that two first starts overlapped.

`PluginSettings`: each prompt and each save is a step. `saveSettings` renames a
temporary file, so a save is atomic. Refusal, error and kill are possible at
every prompt and save; `disturbed` remembers that setups overlapped or the file
could not be read, which the code takes for "no settings yet".

`AgentUpload`: a walk lists the tree (`BeginWalk`) and visits one entry per step in
any order (`Visit`); between any two steps `Edit` may change the tree. `steady`
remembers the files that have been regular since the listing. Every error is `Fail`,
followed by the deferred `RemoveTempDir` once that is armed; the call then drops what
it has worked out (`Forget`). `FileFails` (fault `io`) stands for the errors of file
operations: the walks, `os.MkdirTemp`, the manifest and the two output files.
`ShouldSkip` is `shouldSkip`, which goes by name: the temporary directories match it,
and so do paths of the person's own called `.tmp-test` or `.zcode-snapshot-…`, the set
`Skipped`. `Skip` passes over both before `d.Info`, as `Inspect` and `Build` do. The
repository is flat, and only regular files, sockets and temporary directories are told
apart; symbolic links pass a walk like regular files.

### AgentSession, McpServer, UploadOutcome

`AgentSession` extends `SnapshotServer`: a call (`Call`) is also the request it
posts. `phase` follows `client.Upload`: `running` → `granted` (`Ask`) → `posted`
(`Post`) → `succeeded`, `failed` or `unknown`. `Begin` is an MCP line taken by the
loop, or the process the pi extension starts. `AskInVain`, `PackFails`,
`PostBreaks`, `NoAnswer` are the error returns, `AbortCall` and `EndMcp` the ends
from outside, `Redeliver` a second delivery of a post. What happens in the
repository meanwhile is `AgentUpload`'s subject and only takes time here.

`McpServer`: `Scan` takes a line, and one that is due an answer is then in hand
(`loop`) until `Reply`, `encoder.Encode` of its answer, has written that. The pipe
is the Agent's (`TurnStdout`): `open`, `full` while the Agent has it open and does not
read, which blocks `Encode`, or `broken`, which ends `Serve`. `asked` remembers the
lines that are due an answer, in the order they were read. `TakeGarbage`/`ParseError`
is the one answer whose error is ignored, `SkipNotification` a line without id,
`TakeRequest`/`AnswerRequest` what needs no tool, `CallTool`/`ReturnTool` a tool call,
`ScanFails` a line above 4 MiB, which ends the process. In a session `ServeMcp` is the
loop's own work: all of these but the call itself, the writing of its answer included.

`UploadOutcome` is the abstract specification: `kept` grows on its own, a call
ends `succeeded` only when kept, `failed` only when not, and a failed one is never
kept later; `unknown` promises nothing. The mapping takes `kept` as the calls
whose credential has a whole line and an object no handler owns (`Kept`).

### SnapshotPackage: ServerConfig, Archiver, Envelope

A server starts with a configuration (`StartServer`); its `max_upload_bytes` is
the limit of every credential. `Build` hashes the candidates
(`StatCandidate`, `HashCandidate`: link resolved, size from `os.Stat`, content
later), sorts (`OpenOutput`; `sort.Slice` is not stable, so `Sortings` are all
sorted orders) and walks in order (`Skip`, `AddHeader`, `OpenFile`,
`CopyFile`, `CloseArchive`), while `Edit` may write, create or remove a file
between any two steps. `tree` has the version and size of each file; an archive
entry has the version it ends with, and tar refuses a content of another length
than its header. `EncryptFile` writes pieces (prefix, header, one per archive
entry, tag), each of one unit, through `Fits` (`limitWriter`) and into `macced`.
`Store` is the size decision of the store: `DevelopmentTakes` has the three limits
of `handleDevelopmentOSS` in int64 arithmetic (`Wrap`, with `MaxInt` for 2^63-1),
`CloudTakes` the signed range. `Decrypt` is what recovery makes of a file, and
`Damaged` the files it is tried on.

`io` faults do not include the `os.Remove` of an output file: its error is
ignored, and the file lies in the temporary directory, whose removal and its
failure `AgentUpload` models.

## Runs

Passing runs:

| Run | Instance | Shows |
| --- | --- | --- |
| `server_dev` | 2 credentials, 3 requests; one credential with a plain, an oversize and a missing body, one with a plain body; TTL 1, clock 0-2; faults `create copy open restart` | all safety properties of the development storage, and that it implements `UploadLedger`; forms with the token or the key of another credential are among the inputs |
| `server_cloud` | 2 credentials, 3 posts with their callbacks, TTL 1, clock 0-2; faults `open secret size restart` | the same for callbacks that are late, repeated, racing or refused |
| `agent_session` | 1 credential, 1 call, 1 repeated post, two scripts of MCP lines, TTL 1, clock 0-2, all file faults and `restart` | the call implements `UploadOutcome`; what survives torn lines and files that cannot be removed; liveness of the handlers (`Answered`) and of the loop, with an Agent that stops and resumes reading (`LoopCatchesUp`) |
| `key_store` | 2 processes, 3 keys, failing reads and writes | no served key is lost; private and public file agree |
| `plugin_settings` | 2 setups, each run repeatedly, 2 servers, failing reads and saves | consent before use; the installation decision sticks |
| `package` | 2 uploads of a tree with 3 files, a directory, a link and a skipped path; 2 manifest candidates; 1 edit; failing files, kills; both modes; limits default, too small, just under the size, near 2^63 | manifest, archive, limit, store and decryption agree |
| `agent_upload` | 2 uploads, 2 files and one whose name is skipped, 1 edit, TTL 1, clock 0-2; failing services and file operations, size limit, failing `RemoveAll`, kills | archives, reports and temporary directories |

Runs that end in a violation show where a document of the repository and the
code disagree (`PROJECT.json`, `findings`):

| Run | The document | The code |
| --- | --- | --- |
| `log_order` | "ReadUploadLog returns the newest completed uploads first" | orders by the append; the time was stamped before the lock |
| `log_listing` | the listing shows the completed uploads | one torn line hides all of them |
| `key_publication` | key files are generated when missing | the public file is not, once the private one exists |
| `setup_race` | a confirmed setup is persistent, reinstalling asks nothing | overlapping setups undo each other |
| `temp_dirs` | temporary archives are removed after success or failure | not when the call is aborted |

What the server does when everything fails was once a run of its own;
`agent_session` has the same faults and adds the client, and `SingleWriter` and
`DeadStaysDead`, which hold under all faults, are theorems.

Bounds. Two requests are what a race needs; the third meets the state that race leaves
(a completed, a freed or a dropped credential). Two credentials let a form mix fields
of both. With TTL 1 and the clock at most 2 a request can be admitted before and
recorded after the expiry, and a credential can die while another lives. An edit is
one change of one file at an arbitrary moment; two files let one be stable while the
other changes, and a third path has a skipped name. Three keys allow both processes to
generate one and one to start over. One call with one repeated delivery meets every
order of post, timeout, restart and late completion; a second call shares only the
loop with it, which the scripts keep busy with other lines before and after. In
`package` the archive of an undisturbed repository has five entries, its envelope
eight units: the default limit is eight, one limit is seven, one lies above `MaxInt -
2 * MiB`; 2^63 is scaled to 32 and the MiB to 4, which keeps their order (a MiB above
the framing, the default far from overflow). Requests, and uploads and files, are
interchangeable in the runs that use symmetry; none of these checks liveness.
`CHECK_DEADLOCK FALSE` is set where the system comes to rest: the clock has stopped
and all requests, or uploads, have ended. In `KeyStore` and `PluginSettings` a process
can always stop or start again and deadlock is checked.

Fairness. `Answered` and `LoopCatchesUp` need it. `FairSession` assumes weak
fairness of each goroutine's own steps (`HandlerStep`) and of each call
(`UploadStep`): the Go scheduler runs every runnable goroutine, `Server.mu` is held for
a bounded number of file operations, and `net/http` bounds the reading of a request
(`ReadTimeout`), which is over before `parsed`. A call ends because every file operation
does and because the client's `http.Client` has a timeout of 15 minutes (`NoAnswer`);
without it the loop could wait for ever, which is the mutant of `LoopCatchesUp`. Of the
loop's own work (`ServeMcp`) it assumes strong fairness: a blocked `Encode` is not
enabled while the pipe is full, and is woken as soon as the Agent reads, even if it
stops reading again later. That the Agent reads at all is assumed nowhere:
`LoopCatchesUp` says that the loop catches up again and again *if* the pipe is again and
again not full. Without the condition the property is false: nothing in
`mcp/server.go` puts a limit on the time of a write. No line has to be written, no
process has to live, and nothing is assumed about the store, the clock or restarts.

Properties under conditions, and why:

- `LoggedOnce`, `LogMatchesStore` and `ImplementsLedger` are checked without the
  faults `short` and `close`: when `Close` reports an error after the line was
  written, the server removes the object and answers 500 while the line stays,
  and a retry logs a second one.
- `ImplementsOutcome` promises nothing for an error after the post: the upload may
  be complete, or be completed later. With the fault `close` a kept upload may
  even have two lines.
- `AllowedIsStored` excepts a development server whose limit is within 2 MiB of
  2^63: its body limit becomes negative, which `http.MaxBytesReader` takes for 0,
  and every upload is refused. None is cut (`RoundTrip`).
- `ManifestIsCovered` excepts files that were written or removed during the call
  and candidates under a skipped path, which are hashed and not archived.
  `shouldSkip` looks at the whole path, so `Skipped` has with a directory all that
  is in it (`ArchiverAssumption`).
- `RoundTrip` excepts a call that was killed while it wrote.
- `StoredIsAccountedFor` excepts uploads a restart cut off, whose file is left.
- `Recoverable`, `NeverTwoKeys` and `PublicMatches` except two overlapping first
  starts; `SetupIsKept` excepts overlapping setups and unreadable files.
- `ArchiveIsComplete` excepts paths with a name `shouldSkip` takes for the program's
  (`snapshot.go:224-228`): `.tmp-test` with all below it, and whatever begins with
  `.zcode-snapshot-`. A file of the person's own with such a name is left out of every
  archive and no report says so, although `src/README.md:45` speaks of a complete
  snapshot. No run ends in a violation to show it: it needs no interleaving, and any
  one upload of a repository with such a file does (the hazard at `snapshot.go:226`).
- `WalkErrorsAreReal` counts a socket as a reason: `Inspect` passes over it,
  `tar.FileInfoHeader` in `Build` does not. A socket with a skipped name is none.
- `LoopCatchesUp` excepts an Agent that stops reading for good and keeps the pipe open.

## Proofs

`SnapshotServerProofs` proves, for any set of snapshots, requests, bodies and
forms, any TTL and clock bound, both modes, and any faults unless a theorem says
otherwise:

| Theorem | States | Assumes beyond `ServerAssumption` |
| --- | --- | --- |
| `TypeCorrect` | `[]TypeOK` | |
| `OneWriter` | `[]SingleWriter` | |
| `AckedUploadsAreDurable` | `[]AckedIsDurable` | |
| `RefusalsHaveACause` | `[]RefusedForCause` | |
| `TheDeadStayDead` | `DeadStaysDead` | |
| `NoLeftovers` | `[]StoredIsAccountedFor` | no failing `os.Remove` |
| `LinesAreUnique` | `[]LoggedOnce` | `Reliable`: no `short`, no `close` |
| `LinesMatchStore` | `[]LogMatchesStore` | `Reliable` |
| `ServerIsALedger` | `Spec => ImplementsLedger` | `Reliable` |

`ServerAssumption` (in `SnapshotServer`) says that the constants have the shape
the code gives them; TLC evaluates it in every server run.

The argument is one inductive invariant, `IInv`, each part of which is there for
a reason:

- `FormInv`: what a request carries, by how far it got. `TypeOK` is not
  inductive alone: the line `recordReceipt` writes is well typed because the
  form was admitted.
- `StoreInv`: while a goroutine is between creating and recording or removing a
  file, the file exists and is its own (`O_EXCL` gives exactly one of them the
  key); what it stored is still there when it records.
- `ReceiptInv`: a receipt, and an answer 200, stand for a `Backed` upload: a
  complete object that no goroutine owns and a whole line that describes it.
  Backed uploads stay backed (`BackedGrows`), because only an owner changes an
  object (`ObjectSteps`) and the log only grows (`LogGrows`). The map
  `receipts` may be lost in a restart, the backing is not.
- `IssueInv`: a credential that was delivered is pending, voided or logged; an
  admitted request's credential is pending or has a receipt. This is what makes
  a refusal have a cause, and what keeps a dead credential dead.
- `StatusInv`: 200 and 403 are final answers.
- `LogInv`, under `Reliable`: a line's upload is finished and its credential no
  longer pending, so `Record` never meets one that is logged already.

`TypeFormStep`, `StatusStep`, `StoreStep`, `IssueStep`, `ReceiptStep` and
`LogStep` show that every action keeps its part, one step per action;
`Inductive` puts them together. `ServerIsALedger` maps `granted` to the
credentials that are pending, delivered or voided, `open` to `pending`, and the
ledger to the log; an object step is `Stage` and is allowed because the upload
of an object that changes cannot be logged (`CompletedIsFinished`).

The three parts that do not share the server's state have their own invariant and
theorems, for any number of processes, setups, servers, uploads and files, and
under all faults:

| Module | Theorem | States | Assumes |
| --- | --- | --- | --- |
| `KeyStoreProofs` | `ServedKeysStay` | `[]Recoverable` | `KeyStoreAssumption` |
| | `OneKey` | `[]NeverTwoKeys` | |
| | `PublicFollowsPrivate` | `[]PublicMatches` | |
| `PluginSettingsProofs` | `UseNeedsConsent` | `[]ConsentBeforeUse` | `SettingsAssumption` |
| | `DecisionSticks` | `InstallationSticks` | |
| | `FinishedStaysFinished` | `SetupIsKept` | |
| `AgentUploadProofs` | `SnapshotsAreClean` | `[]NeverNested` | `UploadAssumption` |
| | `ArchivesAreComplete` | `[]ArchiveIsComplete` | |
| | `UploadsDoNotDisturb` | `[]WalkErrorsAreReal` | |
| | `ReportsAreTrue` | `[]ReportIsWhatWasStored` | |
| | `DirsAreOwned` | `[]TempDirsAreOwned` | |

Each module also proves its `TypeOK`. The invariants:

- Key store. `FilesInv` holds while no two first starts have overlapped: at most
  one process is creating the files, `private` is what its `pc` says it has got to,
  and every key that was served or published is the one in `private`. So a process
  that starts over after a `Torn` file has served nothing. `UsedInv` ties memory
  and disk to the keys that were generated.
- Settings. `MemoryInv` says what a setup's copy of the settings stands for,
  `FileInv` the same of the file: a save only copies the one into the other, so
  consent is behind both, whoever saves last. `AloneInv` is why a lone setup that
  starts on a finished file never saves an unfinished one.
- Upload. `WalkInv`: what has been regular since the listing and has no skipped name
  is added or still to come, so it is added when the list is empty. `UntouchedInv`:
  with no edit every walk comes to the same set, `Regular`, the regular files that are
  not skipped; the report, the archive
  and what is stored are each that set. `DirInv`: a directory appears with
  `Building` and only `RemoveTempDir` or a kill ends an upload after that.

The conditions in these properties (no overlap, no edit) are history variables, not
assumptions of the theorems.

### The session

`AgentSessionProofs` proves, under `SessionAssumption` and `ServerAssumption`, for
any number of calls, requests, credentials and lines, and under all faults:

| Theorem | States |
| --- | --- |
| `SessionUsesServer` | `SessionSpec => Spec`: what is proved of the server holds in a session |
| `AnswersInOrder` | `[]AnsweredInOrder` |
| `SessionAckedIsDurable`, `SessionRefusedForCause` | `[]AckedIsDurable`, `[]RefusedForCause` |
| `SessionInductive` | `[]SessionInv`, the invariant below |
| `SessionImplementsOutcome` | `SessionSpec => ImplementsOutcome` |

`SessionInv` is the server's `IInv` and five parts:

- `LoopInv`: what was answered is a beginning of what is due an answer, and while
  stdout is not broken only the line in hand is missing. A step of the loop adds a line at
  both ends or at one of them, so `AnsweredInOrder` needs nothing of the server.
- `CallInv`: a call has a credential from its grant on, and no two have the same.
- `PostInv`: whatever reached the server or its log was posted by a call.
- `SuccessInv`: a call that succeeded is `Kept`. It got a 200, which the server's
  `ReceiptInv` makes a whole line and a complete object.
- `UnpostedInv`: a call that has not posted, or that failed before it did, is not kept.

`OutcomeStep` has one step per action: a call's own step is one of `UploadOutcome`'s,
and a step of a handler can only add to `kept` (`KeptStays`), of a call that was
posted (`UnpostedIsNotKept`).

### The package

`SnapshotPackageProofs` proves the six invariants of the `package` run under
`ArchiverAssumption`, `ConfigAssumption` and `PackageAssumption`: for every finite
tree, every set of links, candidates and skipped paths, every configuration, any
number of uploads and of edits at any moment, and all faults. An archive, and with
it a file, may have any length.

| Theorem | States | Rests on |
| --- | --- | --- |
| `ManifestOlder` | `[]ManifestIsOlder` | `HashedInv`, `ArchivedInv` |
| `ManifestCovered` | `[]ManifestIsCovered` | `NamedAreArchived` |
| `LimitExact` | `[]LimitIsExact` | `LimitInv` |
| `AllowedStored` | `[]AllowedIsStored` | `TakesWithinLimit` |
| `RoundTrips` | `[]RoundTrip` | `WholeIsAccepted` |
| `OnlyWholeAccepted` | `[]OnlyWholeIsAccepted` | `BeginningIsRefused`, `ReplacedIsRefused`, `RemovedIsRefused` |

`PackageInv` (`PackageInductive`) has two halves. `ArchiverInv`, in
`ArchiverProofs`, is about `Build`:

- `TreeInv` and `HashedInv`: versions only grow, so an entry's version is at most
  the one that is there now, and it is that one while nobody has written the file.
  `StatInv` says the same of the size that is taken one step earlier, `CopyInv` of
  the file that is open, `ArchivedInv` of what was archived.
- `WalkInv`: what lies in a directory that was visited is archived, still listed, or
  a file that was not there, which the manifest names only if it was removed during
  the call. When the list is empty, the least directory that is not archived would
  have an archived parent (`DirsAreArchived`, by the well-ordering of the
  paths), so there is none, and each named file is in an archived directory.

`FileInv`, in `SnapshotPackageProofs`, is about the file of a call: `output` and
`macced` begin as `Pieces` does (`Starts`), and `MacInv` ties the length of the one to
that of the other. That is why `Decrypt` refuses whatever was damaged: a file whose
tag holds has the pieces its MAC has seen (`AuthenticShape`), all of them, so a file
of another length or with another piece at one place is not the one. `WholeInv` says
which calls may leave a part of a file, `LimitInv` and `RefusedInv` compare it with the
limit. `ServerInv` is why no call has begun when the limit is set.

`TakesWithinLimit` is the int64 arithmetic of the store, from `WrapFits` and
`WrapOver`: a limit up to `MaxInt - 2 * MiB` takes every file within it, and above
that the body limit is negative and nothing is taken, so no file is ever cut.

### What is only model-checked

`Answered` and `LoopCatchesUp`: liveness under fairness is outside what the installed
provers handle. All other properties of the passing runs are theorems.

## Not modelled

- Cryptography: tokens, signatures, the policy signature and ciphers are taken
  at their meaning (a token is right or wrong, a callback verifies or not).
- Categories and sensitive paths: functions of one path, for the report only.
- The paths of a configuration, which `resolvePaths` makes absolute and nothing
  checks; flags, JSON output, the installer, the container files and plugin
  manifests: no state of their own.
- Calls of the callback route in development mode: the route is registered there
  too, but no part of the program calls it.
- The texts of MCP results and tool schemas.
- Loss of power. A restart or a kill is the end of a process, and what it wrote is
  there for the next one; the code calls no `fsync`, so after the end of the machine an
  acknowledged upload, a key or a setting may be gone.
- The size of `pending` and `receipts`, which nothing bounds and nothing purges.

## Plan

Done: `UploadLedger` and `SnapshotServer`, `KeyStore`, `PluginSettings` and
`AgentUpload`, each with its proofs; then the compositions `AgentSession` (server, MCP
loop and plugin, implementing `UploadOutcome`) and `SnapshotPackage`
(configuration, archiver, envelope and store), with theirs. What is left:

1. `UploadLog`: `ReadUploadLog` as a function of the log's bytes, with its limit,
   line buffer and a reader that runs while the server appends.
