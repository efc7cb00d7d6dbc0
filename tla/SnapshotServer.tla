--------------------------- MODULE SnapshotServer ---------------------------
(***************************************************************************)
(* The credential server of internal/server/server.go.  It hands out       *)
(* upload credentials, accepts the upload itself (development storage) or  *)
(* the object store's callback (cloud-oss), and appends one receipt per    *)
(* completed upload to a JSON-lines log that outlives the process.         *)
(*                                                                         *)
(* net/http runs every request in a goroutine of its own.  A step is what  *)
(* another goroutine or another process cannot see half done: a section    *)
(* under Server.mu, or one operation on the file system.  Everything kept  *)
(* in maps is lost when the process ends; the log and the objects are not. *)
(*                                                                         *)
(* A token and an object key are written as the identifier of the snapshot *)
(* they were generated for: both are fixed when the credential is issued   *)
(* and unique to it.  A body is a model value; Oversize holds the bodies   *)
(* longer than max_upload_bytes.  The ETag of a body is the body.          *)
(***************************************************************************)
EXTENDS Naturals, Sequences

CONSTANTS
  Snapshot,   \* identifiers randomHex(16) can return, none of them twice
  Request,    \* upload or callback requests, each served by one goroutine
  Content,    \* bodies an agent can upload
  Oversize,   \* those above max_upload_bytes
  Form,       \* the forms that reach the server
  Mode,       \* oss.mode
  TTL,        \* credential_ttl, in ticks of the clock
  MaxTime,    \* bound: the clock stops here
  Faults,     \* what may go wrong in this instance
  Absent,     \* no object under a key
  Partial,    \* an object that is still being written
  NoFile      \* a form without the "file" part

Body == Content \cup {Absent, Partial}

FormFields == [id : Snapshot, token : Snapshot, key : Snapshot,
               body : Content \cup {NoFile}]

\* "create", "copy", "remove": operations on the object file fail.
\* "open", "short", "close": opening the log, writing the line, closing it.
\* "secret": the OSS secret is not in the environment.
\* "size": the store reports a size the server cannot use.
\* "restart": the process ends (crash, or SIGTERM and a drain that ran out
\* of its ten seconds) and is started again.
FaultKinds == {"create", "copy", "remove", "open", "short", "close",
               "secret", "size", "restart"}

ASSUME ServerAssumption ==
  /\ Oversize \subseteq Content
  /\ Form \subseteq FormFields
  /\ Mode \in {"development", "cloud-oss"}
  /\ TTL \in Nat
  /\ MaxTime \in Nat
  /\ Faults \subseteq FaultKinds
  /\ Absent \notin Content /\ Partial \notin Content /\ NoFile \notin Content
  /\ Absent # Partial

\* A write to the log: the receipt, and how much of its line reached the disk.
Line == [id : Snapshot, key : Snapshot, etag : Content, at : 0 .. MaxTime,
         part : {"line", "unterminated", "fragment"}]

VARIABLES
  now,         \* the server's clock
  pending,     \* keys of Server.pending
  expires,     \* pendingSnapshot.ExpiresAt, by snapshot
  receipts,    \* keys of Server.receipts
  delivered,   \* credentials an agent received
  voided,      \* history: credentials a restart dropped while pending
  log,         \* the writes to upload_log_file, oldest first
  objects,     \* the object storage, by object key
  pc,          \* where the goroutine of each request is
  form,        \* the form each request carries
  receivedAt,  \* CallbackReceipt.ReceivedAt, once stamped
  status       \* the HTTP status of the answer, 0 until it is known

issueVars == <<pending, expires, receipts, delivered, voided>>
handlerVars == <<pc, form, receivedAt, status>>
vars == <<now, pending, expires, receipts, delivered, voided, log, objects,
          pc, form, receivedAt, status>>

\* A request nobody has sent yet carries no form.
NoForm == [id |-> Absent, token |-> Absent, key |-> Absent, body |-> NoFile]

Admitted == {"admitted", "copying", "stored", "discard", "recorded"}
InFlight == Admitted \cup {"parsed"}
Labels == InFlight \cup {"idle", "posted", "done", "lost"}

Init ==
  /\ now = 0
  /\ pending = {}
  /\ expires = [id \in Snapshot |-> 0]
  /\ receipts = {}
  /\ delivered = {}
  /\ voided = {}
  /\ log = << >>
  /\ objects = [key \in Snapshot |-> Absent]
  /\ pc = [r \in Request |-> "idle"]
  /\ form = [r \in Request |-> NoForm]
  /\ receivedAt = [r \in Request |-> 0]
  /\ status = [r \in Request |-> 0]

Goto(r, label) == pc' = [pc EXCEPT ![r] = label]

Answer(r, code) ==
  /\ Goto(r, "done")
  /\ status' = [status EXCEPT ![r] = code]

Tick ==
  /\ now < MaxTime
  /\ now' = now + 1
  /\ UNCHANGED <<issueVars, log, objects, handlerVars>>
-----------------------------------------------------------------------------
(***************************************************************************)
(* Credentials                                                             *)
(***************************************************************************)

\* The pending entry is registered before the form is made; without the OSS
\* secret the form fails, the agent gets an error and the entry stays.
HandleCredential(id) ==
  /\ id \notin pending \cup delivered \cup voided
  /\ pending' = pending \cup {id}
  /\ expires' = [expires EXCEPT ![id] = now + TTL]
  /\ \/ delivered' = delivered \cup {id}
     \/ /\ Mode = "cloud-oss"
        /\ "secret" \in Faults
        /\ UNCHANGED delivered
  /\ UNCHANGED <<now, receipts, voided, log, objects, handlerVars>>

\* Not the code, a mutant: the expiry is not looked at.
ValidPendingForever(f) ==
  /\ f.id \in pending
  /\ f.token = f.id
  /\ f.key = f.id

\* Not the code, a mutant: the key of the form is believed.
ValidPendingAnyKey(f) ==
  /\ f.id \in pending
  /\ now < expires[f.id]
  /\ f.token = f.id

ValidPending(f) ==
  /\ f.id \in pending
  /\ now < expires[f.id]
  /\ f.token = f.id
  /\ f.key = f.id
-----------------------------------------------------------------------------
(***************************************************************************)
(* Arrival of a request                                                    *)
(***************************************************************************)

\* Development storage: a multipart form arrives with the whole body; its
\* fields come from credentials that were handed out.
ReceiveUpload(r) ==
  /\ Mode = "development"
  /\ pc[r] = "idle"
  /\ \E f \in Form :
       /\ {f.id, f.token, f.key} \subseteq delivered
       /\ form' = [form EXCEPT ![r] = f]
  /\ Goto(r, "parsed")
  /\ UNCHANGED <<now, issueVars, log, objects, receivedAt, status>>

\* The object store accepts a form whose signed policy holds: not expired,
\* the issued key, a length within range.  An agent posts one encrypted file
\* per credential, so a second post of a form carries the same body.
PostObject(r) ==
  /\ Mode = "cloud-oss"
  /\ pc[r] = "idle"
  /\ \E f \in Form :
       /\ f.id \in delivered /\ f.token = f.id /\ f.key = f.id
       /\ f.body \in Content \ Oversize
       /\ now < expires[f.id]
       /\ objects[f.key] \in {Absent, f.body}
       /\ form' = [form EXCEPT ![r] = f]
       /\ objects' = [objects EXCEPT ![f.key] = f.body]
  /\ Goto(r, "posted")
  /\ UNCHANGED <<now, issueVars, log, receivedAt, status>>

\* The store's callback reaches the server and its signature verifies.
ReceiveCallback(r) ==
  /\ pc[r] = "posted"
  /\ Goto(r, "parsed")
  /\ UNCHANGED <<now, issueVars, log, objects, form, receivedAt, status>>

\* A body that does not parse; a callback whose signature does not verify.
RejectMalformed(r) ==
  /\ pc[r] = "idle"
  /\ \/ Answer(r, 400)
     \/ Mode = "cloud-oss" /\ Answer(r, 403)
  /\ UNCHANGED <<now, issueVars, log, objects, form, receivedAt>>
-----------------------------------------------------------------------------
(***************************************************************************)
(* Admission                                                               *)
(***************************************************************************)

Admit(r) ==
  /\ pc[r] = "parsed"
  /\ ValidPending(form[r])
  /\ Goto(r, "admitted")
  /\ UNCHANGED <<now, issueVars, log, objects, form, receivedAt, status>>

Refuse(r) ==
  /\ pc[r] = "parsed"
  /\ ~ValidPending(form[r])
  /\ Answer(r, 403)
  /\ UNCHANGED <<now, issueVars, log, objects, form, receivedAt>>
-----------------------------------------------------------------------------
(***************************************************************************)
(* Development storage: create, copy, discard                              *)
(***************************************************************************)

MissingFile(r) ==
  /\ Mode = "development"
  /\ pc[r] = "admitted"
  /\ form[r].body = NoFile
  /\ Answer(r, 400)
  /\ UNCHANGED <<now, issueVars, log, objects, form, receivedAt>>

\* Not the code, a mutant: O_EXCL is missing.
CreateObjectShared(r) ==
  /\ Mode = "development"
  /\ pc[r] = "admitted"
  /\ form[r].body # NoFile
  /\ objects' = [objects EXCEPT ![form[r].key] = Partial]
  /\ Goto(r, "copying")
  /\ UNCHANGED <<now, issueVars, log, form, receivedAt, status>>

\* Not the code, a mutant: the file is created before the form is looked into.
CreateObjectEarly(r) ==
  /\ Mode = "development"
  /\ pc[r] = "admitted"
  /\ objects[form[r].key] = Absent
  /\ objects' = [objects EXCEPT ![form[r].key] = Partial]
  /\ Goto(r, "copying")
  /\ UNCHANGED <<now, issueVars, log, form, receivedAt, status>>

\* O_CREATE|O_EXCL: one goroutine gets the key, the others a conflict.
CreateObject(r) ==
  /\ Mode = "development"
  /\ pc[r] = "admitted"
  /\ form[r].body # NoFile
  /\ objects[form[r].key] = Absent
  /\ objects' = [objects EXCEPT ![form[r].key] = Partial]
  /\ Goto(r, "copying")
  /\ UNCHANGED <<now, issueVars, log, form, receivedAt, status>>

\* Not the code, a mutant: who finds the key taken waits until it is free.
CreateFailsWaits(r) ==
  /\ Mode = "development"
  /\ pc[r] = "admitted"
  /\ form[r].body # NoFile
  /\ objects[form[r].key] = Absent
  /\ "create" \in Faults /\ \E code \in {400, 409, 500} : Answer(r, code)
  /\ UNCHANGED <<now, issueVars, log, objects, form, receivedAt>>

\* The key is taken, it leads out of the storage directory (an object_prefix with
\* .., or / as directory), or the directory or the file cannot be made.
CreateFails(r) ==
  /\ Mode = "development"
  /\ pc[r] = "admitted"
  /\ form[r].body # NoFile
  /\ \/ objects[form[r].key] # Absent /\ Answer(r, 409)
     \/ "create" \in Faults /\ \E code \in {400, 409, 500} : Answer(r, code)
  /\ UNCHANGED <<now, issueVars, log, objects, form, receivedAt>>

\* The whole body is on disk and the receipt is made, with its time stamp.
CopyBody(r) ==
  /\ pc[r] = "copying"
  /\ form[r].body \notin Oversize
  /\ objects' = [objects EXCEPT ![form[r].key] = form[r].body]
  /\ receivedAt' = [receivedAt EXCEPT ![r] = now]
  /\ Goto(r, "stored")
  /\ UNCHANGED <<now, issueVars, log, form, status>>

\* Not the code, a mutant: a failed copy leaves the file where it is.
CopyFailsKeep(r) ==
  /\ pc[r] = "copying"
  /\ \/ form[r].body \in Oversize
     \/ "copy" \in Faults
  /\ Answer(r, 413)
  /\ UNCHANGED <<now, issueVars, log, objects, form, receivedAt>>

CopyFails(r) ==
  /\ pc[r] = "copying"
  /\ \/ form[r].body \in Oversize
     \/ "copy" \in Faults
  /\ Goto(r, "discard")
  /\ status' = [status EXCEPT ![r] = 413]
  /\ UNCHANGED <<now, issueVars, log, objects, form, receivedAt>>

\* os.Remove, its error ignored, and then the answer decided before.
Discard(r) ==
  /\ pc[r] = "discard"
  /\ \/ objects' = [objects EXCEPT ![form[r].key] = Absent]
     \/ "remove" \in Faults /\ UNCHANGED objects
  /\ Goto(r, "done")
  /\ UNCHANGED <<now, issueVars, log, form, receivedAt, status>>
-----------------------------------------------------------------------------
(***************************************************************************)
(* Callback: the reported size, then the receipt                           *)
(***************************************************************************)

StampCallback(r) ==
  /\ Mode = "cloud-oss"
  /\ pc[r] = "admitted"
  /\ receivedAt' = [receivedAt EXCEPT ![r] = now]
  /\ Goto(r, "stored")
  /\ UNCHANGED <<now, issueVars, log, objects, form, status>>

UnusableSize(r) ==
  /\ Mode = "cloud-oss"
  /\ pc[r] = "admitted"
  /\ "size" \in Faults
  /\ Answer(r, 400)
  /\ UNCHANGED <<now, issueVars, log, objects, form, receivedAt>>
-----------------------------------------------------------------------------
(***************************************************************************)
(* recordReceipt                                                           *)
(***************************************************************************)

ReceiptOf(r, part) ==
  [id |-> form[r].id, key |-> form[r].key, etag |-> form[r].body,
   at |-> receivedAt[r], part |-> part]

\* Not the code, a mutant: the receipts are not consulted.
RecordTwice(r) ==
  /\ pc[r] = "stored"
  /\ log' = Append(log, ReceiptOf(r, "line"))
  /\ receipts' = receipts \cup {form[r].id}
  /\ pending' = pending \ {form[r].id}
  /\ Goto(r, "recorded")
  /\ UNCHANGED <<now, expires, delivered, voided, objects, form, receivedAt, status>>

\* Not the code, a mutant: the pending entry survives its receipt.
RecordKeepsPending(r) ==
  /\ pc[r] = "stored"
  /\ form[r].id \notin receipts
  /\ log' = Append(log, ReceiptOf(r, "line"))
  /\ receipts' = receipts \cup {form[r].id}
  /\ Goto(r, "recorded")
  /\ UNCHANGED <<now, pending, expires, delivered, voided, objects, form,
                 receivedAt, status>>

Record(r) ==
  /\ pc[r] = "stored"
  /\ form[r].id \notin receipts
  /\ log' = Append(log, ReceiptOf(r, "line"))
  /\ receipts' = receipts \cup {form[r].id}
  /\ pending' = pending \ {form[r].id}
  /\ Goto(r, "recorded")
  /\ UNCHANGED <<now, expires, delivered, voided, objects, form, receivedAt, status>>

\* A receipt that exists already is not written again, and not an error.
RecordAgain(r) ==
  /\ pc[r] = "stored"
  /\ form[r].id \in receipts
  /\ Goto(r, "recorded")
  /\ UNCHANGED <<now, issueVars, log, objects, form, receivedAt, status>>

\* What is left of the line when opening, writing or closing the log fails:
\* nothing; a prefix, up to the line without its newline; or the line.
FailedWrites ==
  {p \in {"fragment", "unterminated"} : "short" \in Faults}
    \cup {p \in {"line"} : "close" \in Faults}

\* Not the code, a mutant: an error of recordReceipt is not looked at.
RecordFailsIgnored(r) ==
  /\ pc[r] = "stored"
  /\ form[r].id \notin receipts
  /\ \/ "open" \in Faults /\ UNCHANGED log
     \/ \E part \in FailedWrites : log' = Append(log, ReceiptOf(r, part))
  /\ Goto(r, "recorded")
  /\ UNCHANGED <<now, issueVars, objects, form, receivedAt, status>>

\* Not the code, a mutant: the pending entry is deleted before the write.
RecordFailsForgets(r) ==
  /\ pc[r] = "stored"
  /\ form[r].id \notin receipts
  /\ \/ "open" \in Faults /\ UNCHANGED log
     \/ \E part \in FailedWrites : log' = Append(log, ReceiptOf(r, part))
  /\ pending' = pending \ {form[r].id}
  /\ status' = [status EXCEPT ![r] = 500]
  /\ Goto(r, IF Mode = "development" THEN "discard" ELSE "done")
  /\ UNCHANGED <<now, expires, receipts, delivered, voided, objects, form, receivedAt>>

\* Not the code, a mutant: the error is found after the line was written.
RecordFailsLate(r) ==
  /\ pc[r] = "stored"
  /\ form[r].id \notin receipts
  /\ "open" \in Faults
  /\ log' = Append(log, ReceiptOf(r, "line"))
  /\ status' = [status EXCEPT ![r] = 500]
  /\ Goto(r, IF Mode = "development" THEN "discard" ELSE "done")
  /\ UNCHANGED <<now, issueVars, objects, form, receivedAt>>

RecordFails(r) ==
  /\ pc[r] = "stored"
  /\ form[r].id \notin receipts
  /\ \/ "open" \in Faults /\ UNCHANGED log
     \/ \E part \in FailedWrites : log' = Append(log, ReceiptOf(r, part))
  /\ status' = [status EXCEPT ![r] = 500]
  /\ Goto(r, IF Mode = "development" THEN "discard" ELSE "done")
  /\ UNCHANGED <<now, issueVars, objects, form, receivedAt>>

Respond(r) ==
  /\ pc[r] = "recorded"
  /\ Answer(r, 200)
  /\ UNCHANGED <<now, issueVars, log, objects, form, receivedAt>>
-----------------------------------------------------------------------------
\* The maps and the goroutines are gone; New starts with empty maps.  A
\* callback still on its way is delivered to the new process.
Restart ==
  /\ "restart" \in Faults
  /\ pending' = {}
  /\ receipts' = {}
  /\ voided' = voided \cup pending
  /\ pc' = [r \in Request |-> IF pc[r] \in InFlight THEN "lost" ELSE pc[r]]
  /\ UNCHANGED <<now, expires, delivered, log, objects, form, receivedAt, status>>

\* The steps a goroutine takes once its request has arrived.
HandlerStep(r) ==
  \/ Admit(r) \/ Refuse(r)
  \/ MissingFile(r) \/ CreateObject(r) \/ CreateFails(r)
  \/ CopyBody(r) \/ CopyFails(r) \/ Discard(r)
  \/ StampCallback(r) \/ UnusableSize(r)
  \/ Record(r) \/ RecordAgain(r) \/ RecordFails(r) \/ Respond(r)

Arrival(r) ==
  \/ ReceiveUpload(r) \/ PostObject(r) \/ ReceiveCallback(r) \/ RejectMalformed(r)

Next ==
  \/ Tick
  \/ \E id \in Snapshot : HandleCredential(id)
  \/ \E r \in Request : Arrival(r) \/ HandlerStep(r)
  \/ Restart

Spec == Init /\ [][Next]_vars

\* A goroutine that can run is run: the Go scheduler is fair to runnable
\* goroutines and Server.mu is held for a bounded number of file operations.
FairSpec == Spec /\ \A r \in Request : WF_vars(HandlerStep(r))
-----------------------------------------------------------------------------
(***************************************************************************)
(* What makes the server correct                                           *)
(***************************************************************************)

Handler == [id : Snapshot \cup {Absent}, token : Snapshot \cup {Absent},
            key : Snapshot \cup {Absent}, body : Content \cup {NoFile}]

\* The type of every variable.
TypeOK ==
  /\ now \in 0 .. MaxTime
  /\ pending \subseteq Snapshot
  /\ expires \in [Snapshot -> Nat]
  /\ receipts \subseteq Snapshot
  /\ delivered \subseteq Snapshot
  /\ voided \subseteq Snapshot
  /\ log \in Seq(Line)
  /\ objects \in [Snapshot -> Body]
  /\ pc \in [Request -> Labels]
  /\ form \in [Request -> Handler]
  /\ receivedAt \in [Request -> 0 .. MaxTime]
  /\ status \in [Request -> {0, 200, 400, 403, 409, 413, 500}]

Writing == {"copying", "stored", "discard"}

Logged(id) == \E i \in DOMAIN log : log[i].id = id /\ log[i].part = "line"

Genuine(f) == f.token = f.id /\ f.key = f.id

\* Of the development uploads that race for one object, at most one goroutine
\* is between creating the file and recording or removing it: no os.Remove
\* ever takes away a file that another goroutine created.
SingleWriter ==
  Mode = "development" =>
    \A r, q \in Request :
      r # q /\ pc[r] \in Writing /\ pc[q] \in Writing => form[r].key # form[q].key

\* Whoever was answered 200 has a whole line in the log and the body that was
\* sent under the key, from then on: whatever fails, races or restarts.
AckedIsDurable ==
  \A r \in Request :
    status[r] = 200 =>
      /\ objects[form[r].key] = form[r].body
      /\ \E i \in DOMAIN log :
           /\ log[i].id = form[r].id /\ log[i].key = form[r].key
           /\ log[i].etag = form[r].body /\ log[i].part = "line"

\* Development storage holds no leftovers: an object is logged, or a goroutine
\* still owns it, or the process ended in the middle of that upload.  A failed
\* attempt therefore never blocks the retry of a credential still pending.
StoredIsAccountedFor ==
  Mode = "development" =>
    \A key \in Snapshot :
      objects[key] # Absent =>
        \/ Logged(key)
        \/ \E r \in Request : pc[r] \in Writing /\ form[r].key = key
        \/ key \in voided

\* One completed upload is one line, across concurrent and repeated uploads,
\* repeated callbacks and restarts.
LoggedOnce ==
  \A i, j \in DOMAIN log : i # j => log[i].id # log[j].id

\* Every line of the log describes the object stored under its key.
LogMatchesStore ==
  \A i \in DOMAIN log :
    log[i].key = log[i].id /\ objects[log[i].key] = log[i].etag

\* A credential that was handed out is refused for a reason its holder can
\* name: it expired, its upload is complete, or the server was restarted.
RefusedForCause ==
  \A r \in Request :
    status[r] = 403 /\ form[r] # NoForm /\ Genuine(form[r]) =>
      \/ now >= expires[form[r].id]
      \/ Logged(form[r].id)
      \/ form[r].id \in voided

\* Dead: expired or voided with no handler past validPending and no line.
Dead(id) ==
  /\ id \in delivered
  /\ now >= expires[id] \/ id \in voided
  /\ ~Logged(id)
  /\ \A r \in Request : pc[r] \in Admitted => form[r].id # id

\* A dead credential stays dead: validPending and recordReceipt are two
\* critical sections, yet nothing is ever recorded under it again.
DeadStaysDead == [][\A id \in Snapshot : Dead(id) => Dead(id)']_vars

\* The server, all its concurrency and restarts included, is a ledger.
Ledger == INSTANCE UploadLedger
  WITH granted <- pending \cup delivered \cup voided, open <- pending,
       ledger <- log, store <- objects, Entry <- Line, Nothing <- Absent

ImplementsLedger == Ledger!LedgerSpec

\* Every request that reached a handler is answered, unless the process ends.
Answered ==
  \A r \in Request : pc[r] \in InFlight ~> pc[r] \in {"done", "lost"}

\* ReadUploadLog: lines are what stands between two newlines, so a write that
\* was cut short swallows the start of the next one, and one line that does
\* not decode fails the whole reading.  The last line needs no newline.
LogDecodes ==
  \A i \in DOMAIN log :
    \/ log[i].part = "line"
    \/ log[i].part = "unterminated" /\ i = Len(log)

ReadUploadLog(limit) ==
  LET n == Len(log)
      size == IF n < limit THEN n ELSE limit
  IN  [i \in 1 .. size |-> log[n - i + 1]]

\* "ReadUploadLog returns the newest completed uploads first."
NewestFirst ==
  LogDecodes =>
    LET page == ReadUploadLog(Len(log))
    IN  \A i, j \in DOMAIN page : i < j => page[i].at >= page[j].at

\* Every upload that was answered 200 is among those ReadUploadLog returns.
AckedIsListed ==
  \A r \in Request :
    status[r] = 200 =>
      /\ LogDecodes
      /\ LET page == ReadUploadLog(Len(log))
         IN  \E i \in DOMAIN page : page[i].id = form[r].id
=============================================================================
