------------------------ MODULE SnapshotServerProofs ------------------------
(***************************************************************************)
(* Theorems about SnapshotServer, for every set of snapshots and requests, *)
(* every TTL and every combination of faults.                              *)
(***************************************************************************)
EXTENDS SnapshotServer, SequenceTheorems, TLAPS

(***************************************************************************)
(* The inductive invariant                                                 *)
(***************************************************************************)

Owns(r, key) == pc[r] \in Writing /\ form[r].key = key

\* A whole line says that body b was uploaded under snapshot id.
LineFor(id, b) ==
  \E i \in DOMAIN log : /\ log[i].id = id /\ log[i].key = id
                        /\ log[i].etag = b /\ log[i].part = "line"

\* Complete objects no goroutine can touch any more, and the logged ones.
Finished ==
  {id \in Snapshot :
     /\ objects[id] \in Content
     /\ Mode = "development" => \A r \in Request : ~Owns(r, id)}

Backed == {id \in Finished : LineFor(id, objects[id])}

\* What the form of a request is known to be, by how far the request got.
FormInv ==
  \A r \in Request :
    /\ pc[r] \in InFlight \cup {"posted"} =>
         form[r] \in FormFields /\ form[r].id \in delivered
    /\ pc[r] \in Admitted => Genuine(form[r])
    /\ pc[r] \in Writing \cup {"recorded"} => form[r].body \in Content
    /\ Mode = "cloud-oss" /\ pc[r] \in InFlight \cup {"posted"} =>
         /\ Genuine(form[r])
         /\ form[r].body \in Content
         /\ pc[r] \notin {"copying", "discard"}
    /\ Mode = "development" => pc[r] # "posted"
    /\ pc[r] = "idle" => form[r] = NoForm

StatusInv ==
  \A r \in Request :
    /\ status[r] = 200 => pc[r] = "done"
    /\ status[r] = 403 =>
         pc[r] = "done" /\ (form[r] = NoForm \/ form[r].id \in delivered)

IssueInv ==
  /\ pending \cap voided = {}
  /\ delivered \subseteq {id \in Snapshot : id \in pending \cup voided \/ Logged(id)}
  /\ \A r \in Request : pc[r] \in Admitted => form[r].id \in pending \cup receipts

StoreInv ==
  /\ SingleWriter
  /\ \A r \in Request :
       /\ Mode = "development" /\ pc[r] \in Writing => objects[form[r].key] # Absent
       /\ pc[r] = "stored" => objects[form[r].key] = form[r].body
       /\ Mode = "cloud-oss" /\ pc[r] \in InFlight \cup {"posted"} =>
            objects[form[r].key] = form[r].body

ReceiptInv ==
  /\ receipts \subseteq Backed
  /\ \A r \in Request :
       pc[r] = "recorded" \/ status[r] = 200 =>
         /\ Genuine(form[r])
         /\ form[r].id \in Backed
         /\ objects[form[r].id] = form[r].body

Reliable == Faults \cap {"short", "close"} = {}

\* With a log that fails only as a whole, its lines are final.
LogInv ==
  Reliable =>
    /\ LoggedOnce
    /\ \A i \in DOMAIN log :
         /\ log[i].key = log[i].id /\ log[i].part = "line"
         /\ log[i].id \in Finished /\ objects[log[i].id] = log[i].etag
         /\ log[i].id \notin pending
         /\ log[i].id \in delivered

IInv == TypeOK /\ FormInv /\ StatusInv /\ IssueInv /\ StoreInv /\ ReceiptInv /\ LogInv
-----------------------------------------------------------------------------
(***************************************************************************)
(* Types and forms                                                         *)
(***************************************************************************)

\* What recordReceipt writes is a line of the log.
LEMMA ReceiptTyped ==
  ASSUME TypeOK, FormInv, NEW r \in Request, pc[r] = "stored",
         NEW part \in {"line", "unterminated", "fragment"}
  PROVE  ReceiptOf(r, part) \in Line
BY DEF TypeOK, FormInv, ReceiptOf, Line, FormFields, Writing, InFlight, Admitted

\* The type invariant needs the forms: what a handler writes to the log and to
\* the store is well typed because of how far its request got.
LEMMA TypeFormStep ==
  ASSUME TypeOK, FormInv, [Next]_vars
  PROVE  TypeOK' /\ FormInv'
<1> USE ServerAssumption
<1>1. CASE Tick
  BY <1>1 DEF TypeOK, FormInv, Tick, issueVars, handlerVars
<1>2. ASSUME NEW id \in Snapshot, HandleCredential(id)
      PROVE  TypeOK' /\ FormInv'
  BY <1>2 DEF TypeOK, FormInv, HandleCredential, handlerVars
<1>3. ASSUME NEW r \in Request, ReceiveUpload(r)
      PROVE  TypeOK' /\ FormInv'
  BY <1>3 DEF TypeOK, FormInv, ReceiveUpload, issueVars, Goto, Answer, Handler, FormFields,
    NoForm, Genuine, Admitted, InFlight, Labels, Writing, Body, Line, ReceiptOf, FailedWrites
<1>4. ASSUME NEW r \in Request, PostObject(r)
      PROVE  TypeOK' /\ FormInv'
  BY <1>4 DEF TypeOK, FormInv, PostObject, issueVars, Goto, Answer, Handler, FormFields,
    NoForm, Genuine, Admitted, InFlight, Labels, Writing, Body, Line, ReceiptOf, FailedWrites
<1>5. ASSUME NEW r \in Request, ReceiveCallback(r)
      PROVE  TypeOK' /\ FormInv'
  BY <1>5 DEF TypeOK, FormInv, ReceiveCallback, issueVars, Goto, Answer, Handler, FormFields,
    NoForm, Genuine, Admitted, InFlight, Labels, Writing, Body, Line, ReceiptOf, FailedWrites
<1>6. ASSUME NEW r \in Request, RejectMalformed(r)
      PROVE  TypeOK' /\ FormInv'
  <2>1. PICK code \in {400, 403} : Answer(r, code)
    BY <1>6 DEF RejectMalformed
  <2> QED
    BY <1>6, <2>1 DEF TypeOK, FormInv, RejectMalformed, issueVars, Goto, Answer,
      Admitted, InFlight, Labels, Writing
<1>7. ASSUME NEW r \in Request, Admit(r)
      PROVE  TypeOK' /\ FormInv'
  <2>1. TypeOK'
    BY <1>7 DEF TypeOK, FormInv, Admit, issueVars, Goto, Answer, Handler, FormFields,
    NoForm, Genuine, Admitted, InFlight, Labels, Writing, Body, Line, ReceiptOf, FailedWrites
  <2>2. FormInv'
    BY <1>7 DEF TypeOK, FormInv, Admit, ValidPending, Goto, issueVars, Genuine,
      Admitted, InFlight, Writing
  <2> QED  BY <2>1, <2>2
<1>8. ASSUME NEW r \in Request, Refuse(r)
      PROVE  TypeOK' /\ FormInv'
  BY <1>8 DEF TypeOK, FormInv, Refuse, issueVars, Goto, Answer, Handler, FormFields,
    NoForm, Genuine, Admitted, InFlight, Labels, Writing, Body, Line, ReceiptOf, FailedWrites
<1>9. ASSUME NEW r \in Request, MissingFile(r)
      PROVE  TypeOK' /\ FormInv'
  BY <1>9 DEF TypeOK, FormInv, MissingFile, issueVars, Goto, Answer, Handler, FormFields,
    NoForm, Genuine, Admitted, InFlight, Labels, Writing, Body, Line, ReceiptOf, FailedWrites
<1>10. ASSUME NEW r \in Request, CreateObject(r)
      PROVE  TypeOK' /\ FormInv'
  BY <1>10 DEF TypeOK, FormInv, CreateObject, issueVars, Goto, Answer, Handler, FormFields,
    NoForm, Genuine, Admitted, InFlight, Labels, Writing, Body, Line, ReceiptOf, FailedWrites
<1>11. ASSUME NEW r \in Request, CreateFails(r)
      PROVE  TypeOK' /\ FormInv'
  <2>1. TypeOK'
    <3>1. PICK code \in {400, 409, 500} : Answer(r, code)
      BY <1>11 DEF CreateFails
    <3> QED
      BY <1>11, <3>1 DEF TypeOK, CreateFails, Answer, Goto, issueVars, Labels
  <2>2. pc' = [pc EXCEPT ![r] = "done"] /\ UNCHANGED <<form, delivered>>
    BY <1>11 DEF CreateFails, Goto, Answer, issueVars
  <2>3. FormInv'
    BY <2>2 DEF TypeOK, FormInv, Genuine, Admitted, InFlight, Writing
  <2> QED  BY <2>1, <2>3
<1>12. ASSUME NEW r \in Request, CopyBody(r)
      PROVE  TypeOK' /\ FormInv'
  BY <1>12 DEF TypeOK, FormInv, CopyBody, issueVars, Goto, Answer, Handler, FormFields,
    NoForm, Genuine, Admitted, InFlight, Labels, Writing, Body, Line, ReceiptOf, FailedWrites
<1>13. ASSUME NEW r \in Request, CopyFails(r)
      PROVE  TypeOK' /\ FormInv'
  BY <1>13 DEF TypeOK, FormInv, CopyFails, issueVars, Goto, Answer, Handler, FormFields,
    NoForm, Genuine, Admitted, InFlight, Labels, Writing, Body, Line, ReceiptOf, FailedWrites
<1>14. ASSUME NEW r \in Request, Discard(r)
      PROVE  TypeOK' /\ FormInv'
  <2>1. TypeOK'
    <3>1. objects' \in [Snapshot -> Body]
      BY <1>14 DEF TypeOK, Discard, Body
    <3> QED
      BY <1>14, <3>1 DEF TypeOK, Discard, Goto, issueVars, Labels
  <2>2. pc' = [pc EXCEPT ![r] = "done"] /\ UNCHANGED <<form, delivered>>
    BY <1>14 DEF Discard, Goto, Answer, issueVars
  <2>3. FormInv'
    BY <2>2 DEF TypeOK, FormInv, Genuine, Admitted, InFlight, Writing
  <2> QED  BY <2>1, <2>3
<1>15. ASSUME NEW r \in Request, StampCallback(r)
      PROVE  TypeOK' /\ FormInv'
  BY <1>15 DEF TypeOK, FormInv, StampCallback, issueVars, Goto, Answer, Handler, FormFields,
    NoForm, Genuine, Admitted, InFlight, Labels, Writing, Body, Line, ReceiptOf, FailedWrites
<1>16. ASSUME NEW r \in Request, UnusableSize(r)
      PROVE  TypeOK' /\ FormInv'
  BY <1>16 DEF TypeOK, FormInv, UnusableSize, issueVars, Goto, Answer, Handler, FormFields,
    NoForm, Genuine, Admitted, InFlight, Labels, Writing, Body, Line, ReceiptOf, FailedWrites
<1>17. ASSUME NEW r \in Request, Record(r)
      PROVE  TypeOK' /\ FormInv'
  BY <1>17 DEF TypeOK, FormInv, Record, issueVars, Goto, Answer, Handler, FormFields,
    NoForm, Genuine, Admitted, InFlight, Labels, Writing, Body, Line, ReceiptOf, FailedWrites
<1>18. ASSUME NEW r \in Request, RecordAgain(r)
      PROVE  TypeOK' /\ FormInv'
  BY <1>18 DEF TypeOK, FormInv, RecordAgain, issueVars, Goto, Answer, Handler, FormFields,
    NoForm, Genuine, Admitted, InFlight, Labels, Writing, Body, Line, ReceiptOf, FailedWrites
<1>19. ASSUME NEW r \in Request, RecordFails(r)
      PROVE  TypeOK' /\ FormInv'
  <2>1. TypeOK'
    <3>1. log' \in Seq(Line)
      <4>1. CASE UNCHANGED log
        BY <4>1 DEF TypeOK
      <4>2. ASSUME NEW part \in FailedWrites, log' = Append(log, ReceiptOf(r, part))
            PROVE  log' \in Seq(Line)
        <5>1. pc[r] = "stored" /\ part \in {"line", "unterminated", "fragment"}
          BY <1>19, <4>2 DEF RecordFails, FailedWrites
        <5>2. ReceiptOf(r, part) \in Line
          BY <5>1, ReceiptTyped
        <5> QED
          BY <4>2, <5>2 DEF TypeOK
      <4> QED
        BY <1>19, <4>1, <4>2 DEF RecordFails
    <3>2. pc' \in [Request -> Labels]
      BY <1>19 DEF TypeOK, RecordFails, Goto, InFlight, Admitted, Labels
    <3>3. status' \in [Request -> {0, 200, 400, 403, 409, 413, 500}]
      BY <1>19 DEF TypeOK, RecordFails
    <3>4. UNCHANGED <<now, issueVars, objects, form, receivedAt>>
      BY <1>19 DEF RecordFails
    <3> QED
      BY <3>1, <3>2, <3>3, <3>4 DEF TypeOK, issueVars
  <2>2. /\ UNCHANGED <<form, delivered>>
        /\ \/ Mode = "development" /\ pc' = [pc EXCEPT ![r] = "discard"]
           \/ Mode = "cloud-oss" /\ pc' = [pc EXCEPT ![r] = "done"]
    BY <1>19 DEF RecordFails, Goto, issueVars
  <2>3. pc[r] = "stored"
    BY <1>19 DEF RecordFails
  <2>4. FormInv'
    BY <2>2, <2>3 DEF TypeOK, FormInv, Genuine, Admitted, InFlight, Writing
  <2> QED  BY <2>1, <2>4
<1>20. ASSUME NEW r \in Request, Respond(r)
      PROVE  TypeOK' /\ FormInv'
  BY <1>20 DEF TypeOK, FormInv, Respond, issueVars, Goto, Answer, Handler, FormFields,
    NoForm, Genuine, Admitted, InFlight, Labels, Writing, Body, Line, ReceiptOf, FailedWrites
<1>21. CASE Restart
  BY <1>21 DEF TypeOK, FormInv, Restart, Genuine, Admitted, InFlight, Labels, Writing
<1>22. CASE UNCHANGED vars
  BY <1>22 DEF TypeOK, FormInv, vars
<1>23. ASSUME NEW r \in Request, Arrival(r) PROVE TypeOK' /\ FormInv'
  BY <1>23, <1>3, <1>4, <1>5, <1>6 DEF Arrival
<1>24. ASSUME NEW r \in Request, HandlerStep(r) PROVE TypeOK' /\ FormInv'
  BY <1>24, <1>7, <1>8, <1>9, <1>10, <1>11, <1>12, <1>13, <1>14, <1>15, <1>16,
     <1>17, <1>18, <1>19, <1>20 DEF HandlerStep
<1> QED
  BY <1>1, <1>2, <1>21, <1>22, <1>23, <1>24 DEF Next

\* Statuses 200 and 403 are final answers.
LEMMA StatusStep ==
  ASSUME TypeOK, FormInv, StatusInv, [Next]_vars
  PROVE  StatusInv'
<1> USE ServerAssumption
<1>1. CASE Tick
  BY <1>1 DEF TypeOK, FormInv, StatusInv, InFlight, Admitted, Labels, Tick,
    issueVars, handlerVars
<1>2. ASSUME NEW id \in Snapshot, HandleCredential(id) PROVE StatusInv'
  BY <1>2 DEF TypeOK, FormInv, StatusInv, InFlight, Admitted, Labels,
    HandleCredential, handlerVars
<1>3. ASSUME NEW r \in Request, ReceiveUpload(r) PROVE StatusInv'
  BY <1>3 DEF TypeOK, FormInv, StatusInv, InFlight, Admitted, Labels,
    ReceiveUpload, Goto, issueVars
<1>4. ASSUME NEW r \in Request, PostObject(r) PROVE StatusInv'
  BY <1>4 DEF TypeOK, FormInv, StatusInv, InFlight, Admitted, Labels,
    PostObject, Goto, issueVars
<1>5. ASSUME NEW r \in Request, ReceiveCallback(r) PROVE StatusInv'
  BY <1>5 DEF TypeOK, FormInv, StatusInv, InFlight, Admitted, Labels,
    ReceiveCallback, Goto, issueVars
<1>6. ASSUME NEW r \in Request, RejectMalformed(r) PROVE StatusInv'
  <2>1. PICK code \in {400, 403} : Answer(r, code)
    BY <1>6 DEF RejectMalformed
  <2> QED
    BY <1>6, <2>1 DEF TypeOK, FormInv, StatusInv, RejectMalformed, Answer, Goto,
      issueVars
<1>7. ASSUME NEW r \in Request, Admit(r) PROVE StatusInv'
  BY <1>7 DEF TypeOK, FormInv, StatusInv, InFlight, Admitted, Labels, Admit,
    ValidPending, Goto, issueVars
<1>8. ASSUME NEW r \in Request, Refuse(r) PROVE StatusInv'
  BY <1>8 DEF TypeOK, FormInv, StatusInv, InFlight, Admitted, Labels,
    Refuse, ValidPending, Answer, Goto, issueVars
<1>9. ASSUME NEW r \in Request, MissingFile(r) PROVE StatusInv'
  BY <1>9 DEF TypeOK, FormInv, StatusInv, InFlight, Admitted, Labels,
    MissingFile, Answer, Goto, issueVars
<1>10. ASSUME NEW r \in Request, CreateObject(r) PROVE StatusInv'
  BY <1>10 DEF TypeOK, FormInv, StatusInv, InFlight, Admitted, Labels,
    CreateObject, Goto, issueVars
<1>11. ASSUME NEW r \in Request, CreateFails(r) PROVE StatusInv'
  <2>1. PICK code \in {400, 409, 500} : Answer(r, code)
    BY <1>11 DEF CreateFails
  <2> QED
    BY <1>11, <2>1 DEF TypeOK, FormInv, StatusInv, InFlight, Admitted, Labels,
      CreateFails, Answer, Goto, issueVars
<1>12. ASSUME NEW r \in Request, CopyBody(r) PROVE StatusInv'
  BY <1>12 DEF TypeOK, FormInv, StatusInv, InFlight, Admitted, Labels,
    CopyBody, Goto, issueVars
<1>13. ASSUME NEW r \in Request, CopyFails(r) PROVE StatusInv'
  BY <1>13 DEF TypeOK, FormInv, StatusInv, InFlight, Admitted, Labels,
    CopyFails, Goto, issueVars
<1>14. ASSUME NEW r \in Request, Discard(r) PROVE StatusInv'
  BY <1>14 DEF TypeOK, FormInv, StatusInv, InFlight, Admitted, Labels,
    Discard, Goto, issueVars
<1>15. ASSUME NEW r \in Request, StampCallback(r) PROVE StatusInv'
  BY <1>15 DEF TypeOK, FormInv, StatusInv, InFlight, Admitted, Labels,
    StampCallback, Goto, issueVars
<1>16. ASSUME NEW r \in Request, UnusableSize(r) PROVE StatusInv'
  BY <1>16 DEF TypeOK, FormInv, StatusInv, InFlight, Admitted, Labels,
    UnusableSize, Answer, Goto, issueVars
<1>17. ASSUME NEW r \in Request, Record(r) PROVE StatusInv'
  BY <1>17 DEF TypeOK, FormInv, StatusInv, InFlight, Admitted, Labels,
    Record, ReceiptOf, Goto, issueVars
<1>18. ASSUME NEW r \in Request, RecordAgain(r) PROVE StatusInv'
  BY <1>18 DEF TypeOK, FormInv, StatusInv, InFlight, Admitted, Labels,
    RecordAgain, Goto, issueVars
<1>19. ASSUME NEW r \in Request, RecordFails(r) PROVE StatusInv'
  BY <1>19 DEF TypeOK, FormInv, StatusInv, InFlight, Admitted, Labels,
    RecordFails, ReceiptOf, FailedWrites, Goto, issueVars
<1>20. ASSUME NEW r \in Request, Respond(r) PROVE StatusInv'
  BY <1>20 DEF TypeOK, FormInv, StatusInv, InFlight, Admitted, Labels,
    Respond, Answer, Goto, issueVars
<1>21. CASE Restart
  BY <1>21 DEF TypeOK, FormInv, StatusInv, InFlight, Admitted, Labels,
    Restart
<1>22. CASE UNCHANGED vars
  BY <1>22 DEF TypeOK, FormInv, StatusInv, InFlight, Admitted, Labels, vars
<1>23. ASSUME NEW r \in Request, Arrival(r) PROVE StatusInv'
  BY <1>23, <1>3, <1>4, <1>5, <1>6 DEF Arrival
<1>24. ASSUME NEW r \in Request, HandlerStep(r) PROVE StatusInv'
  BY <1>24, <1>7, <1>8, <1>9, <1>10, <1>11, <1>12, <1>13, <1>14, <1>15, <1>16,
     <1>17, <1>18, <1>19, <1>20 DEF HandlerStep
<1> QED
  BY <1>1, <1>2, <1>21, <1>22, <1>23, <1>24 DEF Next

\* Objects and the goroutines that own them.
LEMMA StoreStep ==
  ASSUME TypeOK, FormInv, StoreInv, [Next]_vars
  PROVE  StoreInv'
<1> USE ServerAssumption
<1>1. CASE Tick
  BY <1>1 DEF TypeOK, FormInv, StoreInv, SingleWriter, Writing, InFlight,
    Admitted, Genuine, FormFields, Body, Tick, issueVars, handlerVars
<1>2. ASSUME NEW id \in Snapshot, HandleCredential(id) PROVE StoreInv'
  BY <1>2 DEF TypeOK, FormInv, StoreInv, SingleWriter, Writing, InFlight,
    Admitted, Genuine, FormFields, Body, HandleCredential, handlerVars
<1>3. ASSUME NEW r \in Request, ReceiveUpload(r) PROVE StoreInv'
  BY <1>3 DEF TypeOK, FormInv, StoreInv, SingleWriter, Writing, InFlight,
    Admitted, Genuine, FormFields, Body, ReceiveUpload, Goto, issueVars
<1>4. ASSUME NEW r \in Request, PostObject(r) PROVE StoreInv'
  BY <1>4 DEF TypeOK, FormInv, StoreInv, SingleWriter, Writing, InFlight,
    Admitted, Genuine, FormFields, Body, PostObject, Goto, issueVars
<1>5. ASSUME NEW r \in Request, ReceiveCallback(r) PROVE StoreInv'
  BY <1>5 DEF TypeOK, FormInv, StoreInv, SingleWriter, Writing, InFlight,
    Admitted, Genuine, FormFields, Body, ReceiveCallback, Goto, issueVars
<1>6. ASSUME NEW r \in Request, RejectMalformed(r) PROVE StoreInv'
  BY <1>6 DEF TypeOK, FormInv, StoreInv, SingleWriter, Writing, InFlight,
    Admitted, Genuine, FormFields, Body, RejectMalformed, Answer, Goto,
    issueVars
<1>7. ASSUME NEW r \in Request, Admit(r) PROVE StoreInv'
  BY <1>7 DEF TypeOK, FormInv, StoreInv, SingleWriter, Writing, InFlight,
    Admitted, Genuine, FormFields, Body, Admit, ValidPending, Goto, issueVars
<1>8. ASSUME NEW r \in Request, Refuse(r) PROVE StoreInv'
  BY <1>8 DEF TypeOK, FormInv, StoreInv, SingleWriter, Writing, InFlight,
    Admitted, Genuine, FormFields, Body, Refuse, ValidPending, Answer, Goto,
    issueVars
<1>9. ASSUME NEW r \in Request, MissingFile(r) PROVE StoreInv'
  BY <1>9 DEF TypeOK, FormInv, StoreInv, SingleWriter, Writing, InFlight,
    Admitted, Genuine, FormFields, Body, MissingFile, Answer, Goto, issueVars
<1>10. ASSUME NEW r \in Request, CreateObject(r) PROVE StoreInv'
  BY <1>10 DEF TypeOK, FormInv, StoreInv, SingleWriter, Writing, InFlight,
    Admitted, Genuine, FormFields, Body, CreateObject, Goto, issueVars
<1>11. ASSUME NEW r \in Request, CreateFails(r) PROVE StoreInv'
  <2>1. PICK code \in {400, 409, 500} : Answer(r, code)
    BY <1>11 DEF CreateFails
  <2> QED
    BY <1>11, <2>1 DEF TypeOK, FormInv, StoreInv, SingleWriter, Writing, InFlight,
      Admitted, Genuine, FormFields, Body, CreateFails, Answer, Goto, issueVars
<1>12. ASSUME NEW r \in Request, CopyBody(r) PROVE StoreInv'
  BY <1>12 DEF TypeOK, FormInv, StoreInv, SingleWriter, Writing, InFlight,
    Admitted, Genuine, FormFields, Body, CopyBody, Goto, issueVars
<1>13. ASSUME NEW r \in Request, CopyFails(r) PROVE StoreInv'
  BY <1>13 DEF TypeOK, FormInv, StoreInv, SingleWriter, Writing, InFlight,
    Admitted, Genuine, FormFields, Body, CopyFails, Goto, issueVars
<1>14. ASSUME NEW r \in Request, Discard(r) PROVE StoreInv'
  BY <1>14 DEF TypeOK, FormInv, StoreInv, SingleWriter, Writing, InFlight,
    Admitted, Genuine, FormFields, Body, Discard, Goto, issueVars
<1>15. ASSUME NEW r \in Request, StampCallback(r) PROVE StoreInv'
  BY <1>15 DEF TypeOK, FormInv, StoreInv, SingleWriter, Writing, InFlight,
    Admitted, Genuine, FormFields, Body, StampCallback, Goto, issueVars
<1>16. ASSUME NEW r \in Request, UnusableSize(r) PROVE StoreInv'
  BY <1>16 DEF TypeOK, FormInv, StoreInv, SingleWriter, Writing, InFlight,
    Admitted, Genuine, FormFields, Body, UnusableSize, Answer, Goto, issueVars
<1>17. ASSUME NEW r \in Request, Record(r) PROVE StoreInv'
  BY <1>17 DEF TypeOK, FormInv, StoreInv, SingleWriter, Writing, InFlight,
    Admitted, Genuine, FormFields, Body, Record, ReceiptOf, Goto, issueVars
<1>18. ASSUME NEW r \in Request, RecordAgain(r) PROVE StoreInv'
  BY <1>18 DEF TypeOK, FormInv, StoreInv, SingleWriter, Writing, InFlight,
    Admitted, Genuine, FormFields, Body, RecordAgain, Goto, issueVars
<1>19. ASSUME NEW r \in Request, RecordFails(r) PROVE StoreInv'
  BY <1>19 DEF TypeOK, FormInv, StoreInv, SingleWriter, Writing, InFlight,
    Admitted, Genuine, FormFields, Body, RecordFails, ReceiptOf, FailedWrites,
    Goto, issueVars
<1>20. ASSUME NEW r \in Request, Respond(r) PROVE StoreInv'
  BY <1>20 DEF TypeOK, FormInv, StoreInv, SingleWriter, Writing, InFlight,
    Admitted, Genuine, FormFields, Body, Respond, Answer, Goto, issueVars
<1>21. CASE Restart
  BY <1>21 DEF TypeOK, FormInv, StoreInv, SingleWriter, Writing, InFlight,
    Admitted, Genuine, FormFields, Body, Restart
<1>22. CASE UNCHANGED vars
  BY <1>22 DEF TypeOK, FormInv, StoreInv, SingleWriter, Writing, InFlight,
    Admitted, Genuine, FormFields, Body, vars
<1>23. ASSUME NEW r \in Request, Arrival(r) PROVE StoreInv'
  BY <1>23, <1>3, <1>4, <1>5, <1>6 DEF Arrival
<1>24. ASSUME NEW r \in Request, HandlerStep(r) PROVE StoreInv'
  BY <1>24, <1>7, <1>8, <1>9, <1>10, <1>11, <1>12, <1>13, <1>14, <1>15, <1>16,
     <1>17, <1>18, <1>19, <1>20 DEF HandlerStep
<1> QED
  BY <1>1, <1>2, <1>21, <1>22, <1>23, <1>24 DEF Next

\* Every step leaves the log alone or appends one write to it.
LEMMA LogGrows ==
  ASSUME TypeOK, FormInv, [Next]_vars
  PROVE  log' = log \/ \E e \in Line : log' = Append(log, e)
<1>1. ASSUME NEW r \in Request, Record(r)
      PROVE  \E e \in Line : log' = Append(log, e)
  BY <1>1, ReceiptTyped DEF Record
<1>2. ASSUME NEW r \in Request, RecordFails(r), log' # log
      PROVE  \E e \in Line : log' = Append(log, e)
  <2>1. PICK part \in FailedWrites : log' = Append(log, ReceiptOf(r, part))
    BY <1>2 DEF RecordFails
  <2>2. pc[r] = "stored" /\ part \in {"line", "unterminated", "fragment"}
    BY <1>2 DEF RecordFails, FailedWrites
  <2> QED
    BY <2>1, <2>2, ReceiptTyped
<1>3. ASSUME \A r \in Request : ~Record(r) /\ ~RecordFails(r)
      PROVE  log' = log
  BY <1>3 DEF Next, Arrival, HandlerStep, Tick, HandleCredential, Restart,
    vars, ReceiveUpload, PostObject, ReceiveCallback, RejectMalformed, Admit,
    Refuse, MissingFile, CreateObject, CreateFails, CopyBody, CopyFails,
    Discard, StampCallback, UnusableSize, RecordAgain, Respond
<1> QED
  BY <1>1, <1>2, <1>3

\* What is in the log stays there.
LEMMA LinesStay ==
  ASSUME TypeOK, log' = log \/ \E e \in Line : log' = Append(log, e)
  PROVE  /\ \A id \in Snapshot : Logged(id) => Logged(id)'
         /\ \A id \in Snapshot, b \in Content : LineFor(id, b) => LineFor(id, b)'
<1>1. DOMAIN log \subseteq DOMAIN log'
  BY DEF TypeOK
<1>2. \A i \in DOMAIN log : log'[i] = log[i]
  <2>1. ASSUME NEW e \in Line, log' = Append(log, e)
        PROVE  \A i \in DOMAIN log : log'[i] = log[i]
    BY <2>1, AppendProperties DEF TypeOK
  <2> QED
    BY <2>1
<1>3. ASSUME NEW id \in Snapshot, Logged(id) PROVE Logged(id)'
  BY <1>1, <1>2, <1>3 DEF Logged
<1>4. ASSUME NEW id \in Snapshot, NEW b \in Content, LineFor(id, b)
      PROVE  LineFor(id, b)'
  BY <1>1, <1>2, <1>4 DEF LineFor
<1> QED
  BY <1>3, <1>4

\* A finished object is never touched again.
LEMMA FinishedStays ==
  ASSUME TypeOK, FormInv, StoreInv, NEW k \in Snapshot, k \in Finished, [Next]_vars
  PROVE  k \in Finished' /\ objects'[k] = objects[k]
<1> USE ServerAssumption
<1>1. CASE Tick
  BY <1>1 DEF TypeOK, FormInv, StoreInv, Finished, Owns, Writing, InFlight,
    Admitted, Genuine, FormFields, Body, Tick, issueVars, handlerVars
<1>2. ASSUME NEW id \in Snapshot, HandleCredential(id) PROVE k \in Finished' /\ objects'[k] = objects[k]
  BY <1>2 DEF TypeOK, FormInv, StoreInv, Finished, Owns, Writing, InFlight,
    Admitted, Genuine, FormFields, Body, HandleCredential, handlerVars
<1>3. ASSUME NEW r \in Request, ReceiveUpload(r) PROVE k \in Finished' /\ objects'[k] = objects[k]
  BY <1>3 DEF TypeOK, FormInv, StoreInv, Finished, Owns, Writing, InFlight,
    Admitted, Genuine, FormFields, Body, ReceiveUpload, Goto, issueVars
<1>4. ASSUME NEW r \in Request, PostObject(r) PROVE k \in Finished' /\ objects'[k] = objects[k]
  <2>1. PICK f \in Form : /\ objects[f.key] \in {Absent, f.body}
                          /\ objects' = [objects EXCEPT ![f.key] = f.body]
    BY <1>4 DEF PostObject
  <2>2. k \in Snapshot /\ objects[k] \in Content
    BY DEF Finished
  <2>3. objects'[k] = objects[k]
    BY <2>1, <2>2 DEF TypeOK
  <2>4. Mode # "development"
    BY <1>4 DEF PostObject
  <2> QED
    BY <2>2, <2>3, <2>4 DEF Finished
<1>5. ASSUME NEW r \in Request, ReceiveCallback(r) PROVE k \in Finished' /\ objects'[k] = objects[k]
  BY <1>5 DEF TypeOK, FormInv, StoreInv, Finished, Owns, Writing, InFlight,
    Admitted, Genuine, FormFields, Body, ReceiveCallback, Goto, issueVars
<1>6. ASSUME NEW r \in Request, RejectMalformed(r) PROVE k \in Finished' /\ objects'[k] = objects[k]
  BY <1>6 DEF TypeOK, FormInv, StoreInv, Finished, Owns, Writing, InFlight,
    Admitted, Genuine, FormFields, Body, RejectMalformed, Answer, Goto,
    issueVars
<1>7. ASSUME NEW r \in Request, Admit(r) PROVE k \in Finished' /\ objects'[k] = objects[k]
  BY <1>7 DEF TypeOK, FormInv, StoreInv, Finished, Owns, Writing, InFlight,
    Admitted, Genuine, FormFields, Body, Admit, ValidPending, Goto, issueVars
<1>8. ASSUME NEW r \in Request, Refuse(r) PROVE k \in Finished' /\ objects'[k] = objects[k]
  BY <1>8 DEF TypeOK, FormInv, StoreInv, Finished, Owns, Writing, InFlight,
    Admitted, Genuine, FormFields, Body, Refuse, ValidPending, Answer, Goto,
    issueVars
<1>9. ASSUME NEW r \in Request, MissingFile(r) PROVE k \in Finished' /\ objects'[k] = objects[k]
  BY <1>9 DEF TypeOK, FormInv, StoreInv, Finished, Owns, Writing, InFlight,
    Admitted, Genuine, FormFields, Body, MissingFile, Answer, Goto, issueVars
<1>10. ASSUME NEW r \in Request, CreateObject(r) PROVE k \in Finished' /\ objects'[k] = objects[k]
  <2>1. k \in Snapshot /\ objects[k] \in Content
    BY DEF Finished
  <2>2. objects[form[r].key] = Absent
    BY <1>10 DEF CreateObject, FormInv, Owns, Writing, InFlight, Admitted
  <2>3. form[r].key # k
    BY <2>1, <2>2 DEF Finished
  <2>4. objects'[k] = objects[k]
    BY <1>10, <2>1, <2>3 DEF CreateObject, TypeOK
  <2>5. \A q \in Request : ~Owns(q, k) => ~Owns(q, k)'
    BY <1>10, <2>3 DEF CreateObject, TypeOK, Goto, Owns, Writing
  <2> QED
    BY <2>1, <2>4, <2>5 DEF Finished
<1>11. ASSUME NEW r \in Request, CreateFails(r) PROVE k \in Finished' /\ objects'[k] = objects[k]
  <2>1. PICK code \in {400, 409, 500} : Answer(r, code)
    BY <1>11 DEF CreateFails
  <2> QED
    BY <1>11, <2>1 DEF TypeOK, FormInv, StoreInv, Finished, Owns, Writing, InFlight,
      Admitted, Genuine, FormFields, Body, CreateFails, Answer, Goto, issueVars
<1>12. ASSUME NEW r \in Request, CopyBody(r) PROVE k \in Finished' /\ objects'[k] = objects[k]
  <2>1. k \in Snapshot /\ objects[k] \in Content
    BY DEF Finished
  <2>2. Owns(r, form[r].key) /\ Mode = "development"
    BY <1>12 DEF CopyBody, FormInv, Owns, Writing, InFlight, Admitted
  <2>3. form[r].key # k
    BY <2>1, <2>2 DEF Finished
  <2>4. objects'[k] = objects[k]
    BY <1>12, <2>1, <2>3 DEF CopyBody, TypeOK
  <2>5. \A q \in Request : ~Owns(q, k) => ~Owns(q, k)'
    BY <1>12, <2>3 DEF CopyBody, TypeOK, Goto, Owns, Writing
  <2> QED
    BY <2>1, <2>4, <2>5 DEF Finished
<1>13. ASSUME NEW r \in Request, CopyFails(r) PROVE k \in Finished' /\ objects'[k] = objects[k]
  BY <1>13 DEF TypeOK, FormInv, StoreInv, Finished, Owns, Writing, InFlight,
    Admitted, Genuine, FormFields, Body, CopyFails, Goto, issueVars
<1>14. ASSUME NEW r \in Request, Discard(r) PROVE k \in Finished' /\ objects'[k] = objects[k]
  <2>1. k \in Snapshot /\ objects[k] \in Content
    BY DEF Finished
  <2>2. Owns(r, form[r].key) /\ Mode = "development"
    BY <1>14 DEF Discard, FormInv, Owns, Writing, InFlight, Admitted
  <2>3. form[r].key # k
    BY <2>1, <2>2 DEF Finished
  <2>4. objects'[k] = objects[k]
    BY <1>14, <2>1, <2>3 DEF Discard, TypeOK
  <2>5. \A q \in Request : ~Owns(q, k) => ~Owns(q, k)'
    BY <1>14, <2>3 DEF Discard, TypeOK, Goto, Owns, Writing
  <2> QED
    BY <2>1, <2>4, <2>5 DEF Finished
<1>15. ASSUME NEW r \in Request, StampCallback(r) PROVE k \in Finished' /\ objects'[k] = objects[k]
  BY <1>15 DEF TypeOK, FormInv, StoreInv, Finished, Owns, Writing, InFlight,
    Admitted, Genuine, FormFields, Body, StampCallback, Goto, issueVars
<1>16. ASSUME NEW r \in Request, UnusableSize(r) PROVE k \in Finished' /\ objects'[k] = objects[k]
  BY <1>16 DEF TypeOK, FormInv, StoreInv, Finished, Owns, Writing, InFlight,
    Admitted, Genuine, FormFields, Body, UnusableSize, Answer, Goto, issueVars
<1>17. ASSUME NEW r \in Request, Record(r) PROVE k \in Finished' /\ objects'[k] = objects[k]
  BY <1>17 DEF TypeOK, FormInv, StoreInv, Finished, Owns, Writing, InFlight,
    Admitted, Genuine, FormFields, Body, Record, ReceiptOf, Goto, issueVars
<1>18. ASSUME NEW r \in Request, RecordAgain(r) PROVE k \in Finished' /\ objects'[k] = objects[k]
  BY <1>18 DEF TypeOK, FormInv, StoreInv, Finished, Owns, Writing, InFlight,
    Admitted, Genuine, FormFields, Body, RecordAgain, Goto, issueVars
<1>19. ASSUME NEW r \in Request, RecordFails(r) PROVE k \in Finished' /\ objects'[k] = objects[k]
  BY <1>19 DEF TypeOK, FormInv, StoreInv, Finished, Owns, Writing, InFlight,
    Admitted, Genuine, FormFields, Body, RecordFails, ReceiptOf, FailedWrites,
    Goto, issueVars
<1>20. ASSUME NEW r \in Request, Respond(r) PROVE k \in Finished' /\ objects'[k] = objects[k]
  BY <1>20 DEF TypeOK, FormInv, StoreInv, Finished, Owns, Writing, InFlight,
    Admitted, Genuine, FormFields, Body, Respond, Answer, Goto, issueVars
<1>21. CASE Restart
  BY <1>21 DEF TypeOK, FormInv, StoreInv, Finished, Owns, Writing, InFlight,
    Admitted, Genuine, FormFields, Body, Restart
<1>22. CASE UNCHANGED vars
  BY <1>22 DEF TypeOK, FormInv, StoreInv, Finished, Owns, Writing, InFlight,
    Admitted, Genuine, FormFields, Body, vars
<1>23. ASSUME NEW r \in Request, Arrival(r) PROVE k \in Finished' /\ objects'[k] = objects[k]
  BY <1>23, <1>3, <1>4, <1>5, <1>6 DEF Arrival
<1>24. ASSUME NEW r \in Request, HandlerStep(r) PROVE k \in Finished' /\ objects'[k] = objects[k]
  BY <1>24, <1>7, <1>8, <1>9, <1>10, <1>11, <1>12, <1>13, <1>14, <1>15, <1>16,
     <1>17, <1>18, <1>19, <1>20 DEF HandlerStep
<1> QED
  BY <1>1, <1>2, <1>21, <1>22, <1>23, <1>24 DEF Next

\* Where the credentials are: no step loses track of one.
LEMMA IssueStep ==
  ASSUME TypeOK, FormInv, IssueInv, ReceiptInv, [Next]_vars
  PROVE  IssueInv'
<1> USE ServerAssumption
<1>0. \A id \in Snapshot : Logged(id) => Logged(id)'
  BY LogGrows, LinesStay
<1>1. CASE Tick
  BY <1>0, <1>1 DEF TypeOK, FormInv, IssueInv, InFlight, Admitted, Labels, Tick,
    issueVars, handlerVars
<1>2. ASSUME NEW id \in Snapshot, HandleCredential(id) PROVE IssueInv'
  BY <1>0, <1>2 DEF TypeOK, FormInv, IssueInv, InFlight, Admitted, Labels,
    HandleCredential, handlerVars
<1>3. ASSUME NEW r \in Request, ReceiveUpload(r) PROVE IssueInv'
  BY <1>0, <1>3 DEF TypeOK, FormInv, IssueInv, InFlight, Admitted, Labels,
    ReceiveUpload, Goto, issueVars
<1>4. ASSUME NEW r \in Request, PostObject(r) PROVE IssueInv'
  BY <1>0, <1>4 DEF TypeOK, FormInv, IssueInv, InFlight, Admitted, Labels,
    PostObject, Goto, issueVars
<1>5. ASSUME NEW r \in Request, ReceiveCallback(r) PROVE IssueInv'
  BY <1>0, <1>5 DEF TypeOK, FormInv, IssueInv, InFlight, Admitted, Labels,
    ReceiveCallback, Goto, issueVars
<1>6. ASSUME NEW r \in Request, RejectMalformed(r) PROVE IssueInv'
  BY <1>0, <1>6 DEF TypeOK, FormInv, IssueInv, InFlight, Admitted, Labels,
    RejectMalformed, Answer, Goto, issueVars
<1>7. ASSUME NEW r \in Request, Admit(r) PROVE IssueInv'
  BY <1>0, <1>7 DEF TypeOK, FormInv, IssueInv, InFlight, Admitted, Labels, Admit,
    ValidPending, Goto, issueVars
<1>8. ASSUME NEW r \in Request, Refuse(r) PROVE IssueInv'
  BY <1>0, <1>8 DEF TypeOK, FormInv, IssueInv, InFlight, Admitted, Labels, Refuse,
    ValidPending, Answer, Goto, issueVars
<1>9. ASSUME NEW r \in Request, MissingFile(r) PROVE IssueInv'
  BY <1>0, <1>9 DEF TypeOK, FormInv, IssueInv, InFlight, Admitted, Labels,
    MissingFile, Answer, Goto, issueVars
<1>10. ASSUME NEW r \in Request, CreateObject(r) PROVE IssueInv'
  BY <1>0, <1>10 DEF TypeOK, FormInv, IssueInv, InFlight, Admitted, Labels,
    CreateObject, Goto, issueVars
<1>11. ASSUME NEW r \in Request, CreateFails(r) PROVE IssueInv'
  <2>1. PICK code \in {400, 409, 500} : Answer(r, code)
    BY <1>11 DEF CreateFails
  <2> QED
    BY <1>0, <1>11, <2>1 DEF TypeOK, FormInv, IssueInv, InFlight, Admitted, Labels,
      CreateFails, Answer, Goto, issueVars
<1>12. ASSUME NEW r \in Request, CopyBody(r) PROVE IssueInv'
  BY <1>0, <1>12 DEF TypeOK, FormInv, IssueInv, InFlight, Admitted, Labels,
    CopyBody, Goto, issueVars
<1>13. ASSUME NEW r \in Request, CopyFails(r) PROVE IssueInv'
  BY <1>0, <1>13 DEF TypeOK, FormInv, IssueInv, InFlight, Admitted, Labels,
    CopyFails, Goto, issueVars
<1>14. ASSUME NEW r \in Request, Discard(r) PROVE IssueInv'
  BY <1>0, <1>14 DEF TypeOK, FormInv, IssueInv, InFlight, Admitted, Labels,
    Discard, Goto, issueVars
<1>15. ASSUME NEW r \in Request, StampCallback(r) PROVE IssueInv'
  BY <1>0, <1>15 DEF TypeOK, FormInv, IssueInv, InFlight, Admitted, Labels,
    StampCallback, Goto, issueVars
<1>16. ASSUME NEW r \in Request, UnusableSize(r) PROVE IssueInv'
  BY <1>0, <1>16 DEF TypeOK, FormInv, IssueInv, InFlight, Admitted, Labels,
    UnusableSize, Answer, Goto, issueVars
<1>17. ASSUME NEW r \in Request, Record(r) PROVE IssueInv'
  <2>1. Logged(form[r].id)'
    <3>1. ReceiptOf(r, "line") \in Line
      BY <1>17, ReceiptTyped DEF Record
    <3>2. log' = Append(log, ReceiptOf(r, "line"))
      BY <1>17 DEF Record
    <3>3. Len(log) + 1 \in DOMAIN log' /\ log'[Len(log) + 1] = ReceiptOf(r, "line")
      BY <3>1, <3>2, AppendProperties DEF TypeOK
    <3> QED
      BY <1>17, <3>3 DEF Logged, ReceiptOf, Record
  <2> QED
    BY <1>0, <1>17, <2>1 DEF TypeOK, FormInv, IssueInv, InFlight, Admitted, Labels,
      Record, Goto
<1>18. ASSUME NEW r \in Request, RecordAgain(r) PROVE IssueInv'
  BY <1>0, <1>18 DEF TypeOK, FormInv, IssueInv, InFlight, Admitted, Labels,
    RecordAgain, Goto, issueVars
<1>19. ASSUME NEW r \in Request, RecordFails(r) PROVE IssueInv'
  BY <1>0, <1>19 DEF TypeOK, FormInv, IssueInv, InFlight, Admitted, Labels,
    RecordFails, ReceiptOf, FailedWrites, Goto, issueVars
<1>20. ASSUME NEW r \in Request, Respond(r) PROVE IssueInv'
  BY <1>0, <1>20 DEF TypeOK, FormInv, IssueInv, InFlight, Admitted, Labels,
    Respond, Answer, Goto, issueVars
<1>21. CASE Restart
  BY <1>0, <1>21 DEF TypeOK, FormInv, IssueInv, InFlight, Admitted, Labels,
    Restart
<1>22. CASE UNCHANGED vars
  BY <1>0, <1>22 DEF TypeOK, FormInv, IssueInv, InFlight, Admitted, Labels, vars
<1>23. ASSUME NEW r \in Request, Arrival(r) PROVE IssueInv'
  BY <1>23, <1>3, <1>4, <1>5, <1>6 DEF Arrival
<1>24. ASSUME NEW r \in Request, HandlerStep(r) PROVE IssueInv'
  BY <1>24, <1>7, <1>8, <1>9, <1>10, <1>11, <1>12, <1>13, <1>14, <1>15, <1>16,
     <1>17, <1>18, <1>19, <1>20 DEF HandlerStep
<1> QED
  BY <1>1, <1>2, <1>21, <1>22, <1>23, <1>24 DEF Next

\* What is logged and finished stays so.
LEMMA BackedGrows ==
  ASSUME TypeOK, FormInv, StoreInv, [Next]_vars
  PROVE  /\ Backed \subseteq Backed'
         /\ \A id \in Backed : objects'[id] = objects[id]
<1>1. ASSUME NEW id \in Snapshot, id \in Backed
      PROVE  id \in Backed' /\ objects'[id] = objects[id]
  <2>1. id \in Finished' /\ objects'[id] = objects[id]
    BY <1>1, FinishedStays DEF Backed
  <2>2. id \in Snapshot /\ objects[id] \in Content /\ LineFor(id, objects[id])
    BY <1>1 DEF Backed, Finished
  <2>3. LineFor(id, objects[id])'
    BY <2>1, <2>2, LogGrows, LinesStay DEF LineFor
  <2> QED
    BY <2>1, <2>3 DEF Backed
<1> QED
  BY <1>1 DEF Backed, Finished

\* Recording an upload gives up the last hold on its object.
LEMMA RecordedIsFinished ==
  ASSUME TypeOK, FormInv, StoreInv, NEW r \in Request, Record(r)
  PROVE  form[r].id \in Finished'
<1>1. /\ form[r] \in FormFields /\ Genuine(form[r])
      /\ form[r].body \in Content
      /\ objects[form[r].id] = form[r].body
  BY DEF Record, FormInv, StoreInv, Genuine, Writing, InFlight, Admitted
<1>2. \A q \in Request : Mode = "development" => ~Owns(q, form[r].id)'
  BY <1>1 DEF Record, TypeOK, StoreInv, SingleWriter, Goto, Owns, Genuine, Writing
<1> QED
  BY <1>1, <1>2 DEF Finished, Record, FormFields

\* Receipts and acknowledgements stay backed by the log and the store.
LEMMA ReceiptStep ==
  ASSUME TypeOK, FormInv, StatusInv, StoreInv, ReceiptInv, [Next]_vars
  PROVE  ReceiptInv'
<1> USE ServerAssumption
<1>0. /\ Backed \subseteq Backed'
      /\ \A id \in Backed : objects'[id] = objects[id]
  BY BackedGrows
<1>1. CASE Tick
  BY <1>0, <1>1 DEF TypeOK, FormInv, StatusInv, ReceiptInv, InFlight, Admitted,
    Genuine, Labels, Tick, issueVars, handlerVars
<1>2. ASSUME NEW id \in Snapshot, HandleCredential(id) PROVE ReceiptInv'
  BY <1>0, <1>2 DEF TypeOK, FormInv, StatusInv, ReceiptInv, InFlight, Admitted,
    Genuine, Labels, HandleCredential, handlerVars
<1>3. ASSUME NEW r \in Request, ReceiveUpload(r) PROVE ReceiptInv'
  BY <1>0, <1>3 DEF TypeOK, FormInv, StatusInv, ReceiptInv, InFlight, Admitted,
    Genuine, Labels, ReceiveUpload, Goto, issueVars
<1>4. ASSUME NEW r \in Request, PostObject(r) PROVE ReceiptInv'
  BY <1>0, <1>4 DEF TypeOK, FormInv, StatusInv, ReceiptInv, InFlight, Admitted,
    Genuine, Labels, PostObject, Goto, issueVars
<1>5. ASSUME NEW r \in Request, ReceiveCallback(r) PROVE ReceiptInv'
  BY <1>0, <1>5 DEF TypeOK, FormInv, StatusInv, ReceiptInv, InFlight, Admitted,
    Genuine, Labels, ReceiveCallback, Goto, issueVars
<1>6. ASSUME NEW r \in Request, RejectMalformed(r) PROVE ReceiptInv'
  BY <1>0, <1>6 DEF TypeOK, FormInv, StatusInv, ReceiptInv, InFlight, Admitted,
    Genuine, Labels, RejectMalformed, Answer, Goto, issueVars
<1>7. ASSUME NEW r \in Request, Admit(r) PROVE ReceiptInv'
  BY <1>0, <1>7 DEF TypeOK, FormInv, StatusInv, ReceiptInv, InFlight, Admitted,
    Genuine, Labels, Admit, ValidPending, Goto, issueVars
<1>8. ASSUME NEW r \in Request, Refuse(r) PROVE ReceiptInv'
  BY <1>0, <1>8 DEF TypeOK, FormInv, StatusInv, ReceiptInv, InFlight, Admitted,
    Genuine, Labels, Refuse, ValidPending, Answer, Goto, issueVars
<1>9. ASSUME NEW r \in Request, MissingFile(r) PROVE ReceiptInv'
  BY <1>0, <1>9 DEF TypeOK, FormInv, StatusInv, ReceiptInv, InFlight, Admitted,
    Genuine, Labels, MissingFile, Answer, Goto, issueVars
<1>10. ASSUME NEW r \in Request, CreateObject(r) PROVE ReceiptInv'
  BY <1>0, <1>10 DEF TypeOK, FormInv, StatusInv, ReceiptInv, InFlight, Admitted,
    Genuine, Labels, CreateObject, Goto, issueVars
<1>11. ASSUME NEW r \in Request, CreateFails(r) PROVE ReceiptInv'
  <2>1. PICK code \in {400, 409, 500} : Answer(r, code)
    BY <1>11 DEF CreateFails
  <2> QED
    BY <1>0, <1>11, <2>1 DEF TypeOK, FormInv, StatusInv, ReceiptInv, InFlight, Admitted,
      Genuine, Labels, CreateFails, Answer, Goto, issueVars
<1>12. ASSUME NEW r \in Request, CopyBody(r) PROVE ReceiptInv'
  BY <1>0, <1>12 DEF TypeOK, FormInv, StatusInv, ReceiptInv, InFlight, Admitted,
    Genuine, Labels, CopyBody, Goto, issueVars
<1>13. ASSUME NEW r \in Request, CopyFails(r) PROVE ReceiptInv'
  BY <1>0, <1>13 DEF TypeOK, FormInv, StatusInv, ReceiptInv, InFlight, Admitted,
    Genuine, Labels, CopyFails, Goto, issueVars
<1>14. ASSUME NEW r \in Request, Discard(r) PROVE ReceiptInv'
  BY <1>0, <1>14 DEF TypeOK, FormInv, StatusInv, ReceiptInv, InFlight, Admitted,
    Genuine, Labels, Discard, Goto, issueVars
<1>15. ASSUME NEW r \in Request, StampCallback(r) PROVE ReceiptInv'
  BY <1>0, <1>15 DEF TypeOK, FormInv, StatusInv, ReceiptInv, InFlight, Admitted,
    Genuine, Labels, StampCallback, Goto, issueVars
<1>16. ASSUME NEW r \in Request, UnusableSize(r) PROVE ReceiptInv'
  BY <1>0, <1>16 DEF TypeOK, FormInv, StatusInv, ReceiptInv, InFlight, Admitted,
    Genuine, Labels, UnusableSize, Answer, Goto, issueVars
<1>17. ASSUME NEW r \in Request, Record(r) PROVE ReceiptInv'
  <2>1. /\ form[r] \in FormFields /\ Genuine(form[r])
        /\ form[r].body \in Content
        /\ objects[form[r].id] = form[r].body
    BY <1>17 DEF Record, FormInv, StoreInv, Genuine, Writing, InFlight, Admitted
  <2>2. form[r].id \in Finished'
    BY <1>17, RecordedIsFinished
  <2>3. LineFor(form[r].id, objects[form[r].id])'
    <3>1. ReceiptOf(r, "line") \in Line
      BY <1>17, ReceiptTyped DEF Record
    <3>2. log' = Append(log, ReceiptOf(r, "line"))
      BY <1>17 DEF Record
    <3>3. Len(log) + 1 \in DOMAIN log' /\ log'[Len(log) + 1] = ReceiptOf(r, "line")
      BY <3>1, <3>2, AppendProperties DEF TypeOK
    <3> QED
      BY <1>17, <2>1, <3>3 DEF Record, LineFor, ReceiptOf, Genuine
  <2>4. form[r].id \in Backed'
    BY <1>17, <2>2, <2>3 DEF Backed, Record
  <2> QED
    BY <1>0, <1>17, <2>1, <2>4 DEF TypeOK, ReceiptInv, StatusInv, Record, Goto
<1>18. ASSUME NEW r \in Request, RecordAgain(r) PROVE ReceiptInv'
  <2>1. /\ Genuine(form[r]) /\ form[r].id \in Backed
        /\ objects[form[r].id] = form[r].body
    BY <1>18 DEF RecordAgain, FormInv, StoreInv, ReceiptInv, Genuine, Writing,
      InFlight, Admitted
  <2> QED
    BY <1>0, <1>18, <2>1 DEF TypeOK, ReceiptInv, RecordAgain, Goto, issueVars
<1>19. ASSUME NEW r \in Request, RecordFails(r) PROVE ReceiptInv'
  BY <1>0, <1>19 DEF TypeOK, FormInv, StatusInv, ReceiptInv, InFlight, Admitted,
    Genuine, Labels, RecordFails, ReceiptOf, FailedWrites, Goto, issueVars
<1>20. ASSUME NEW r \in Request, Respond(r) PROVE ReceiptInv'
  BY <1>0, <1>20 DEF TypeOK, FormInv, StatusInv, ReceiptInv, InFlight, Admitted,
    Genuine, Labels, Respond, Answer, Goto, issueVars
<1>21. CASE Restart
  BY <1>0, <1>21 DEF TypeOK, FormInv, StatusInv, ReceiptInv, InFlight, Admitted,
    Genuine, Labels, Restart
<1>22. CASE UNCHANGED vars
  BY <1>0, <1>22 DEF TypeOK, FormInv, StatusInv, ReceiptInv, InFlight, Admitted,
    Genuine, Labels, vars
<1>23. ASSUME NEW r \in Request, Arrival(r) PROVE ReceiptInv'
  BY <1>23, <1>3, <1>4, <1>5, <1>6 DEF Arrival
<1>24. ASSUME NEW r \in Request, HandlerStep(r) PROVE ReceiptInv'
  BY <1>24, <1>7, <1>8, <1>9, <1>10, <1>11, <1>12, <1>13, <1>14, <1>15, <1>16,
     <1>17, <1>18, <1>19, <1>20 DEF HandlerStep
<1> QED
  BY <1>1, <1>2, <1>21, <1>22, <1>23, <1>24 DEF Next

\* While the log fails only as a whole, it is Record that extends it.
LEMMA LogRecords ==
  ASSUME Reliable, [Next]_vars, log' # log
  PROVE  \E r \in Request : Record(r)
<1>1. \A r \in Request : RecordFails(r) => log' = log
  BY DEF RecordFails, FailedWrites, Reliable
<1>2. ASSUME \A r \in Request : ~Record(r) /\ ~RecordFails(r)
      PROVE  log' = log
  BY <1>2 DEF Next, Arrival, HandlerStep, Tick, HandleCredential, Restart,
    vars, ReceiveUpload, PostObject, ReceiveCallback, RejectMalformed, Admit,
    Refuse, MissingFile, CreateObject, CreateFails, CopyBody, CopyFails,
    Discard, StampCallback, UnusableSize, RecordAgain, Respond
<1> QED
  BY <1>1, <1>2

\* New credentials are new, and a credential handed out stays handed out.
LEMMA CredentialsGrow ==
  ASSUME TypeOK, [Next]_vars
  PROVE  /\ delivered \subseteq delivered'
         /\ pending' \cap delivered \subseteq pending
  BY DEF Next, Arrival, HandlerStep, Tick, HandleCredential, Restart, vars,
    issueVars, handlerVars, ReceiveUpload, PostObject, ReceiveCallback,
    RejectMalformed, Admit, Refuse, MissingFile, CreateObject, CreateFails,
    CopyBody, CopyFails, Discard, StampCallback, UnusableSize, Record,
    RecordAgain, RecordFails, Respond

\* With a log that fails only as a whole, its lines are unique and final.
LEMMA LogStep ==
  ASSUME IInv, [Next]_vars
  PROVE  LogInv'
<1> SUFFICES ASSUME Reliable PROVE LogInv'
  BY DEF LogInv, Reliable
<1> USE DEF IInv
<1>1. ASSUME NEW id \in Snapshot, id \in Finished
      PROVE  id \in Finished' /\ objects'[id] = objects[id]
  BY <1>1, FinishedStays
<1>2. CASE log' = log
  BY <1>1, <1>2, CredentialsGrow DEF LogInv, LoggedOnce, TypeOK, Line
<1>3. ASSUME NEW r \in Request, Record(r) PROVE LogInv'
  <2> DEFINE e == ReceiptOf(r, "line")
  <2>1. e \in Line /\ log' = Append(log, e)
    BY <1>3, ReceiptTyped DEF Record
  <2>2. /\ Len(log') = Len(log) + 1 /\ DOMAIN log' = 1 .. Len(log')
        /\ DOMAIN log = 1 .. Len(log) /\ Len(log) \in Nat
        /\ \A i \in DOMAIN log : log'[i] = log[i]
        /\ log'[Len(log) + 1] = e
    BY <2>1, AppendProperties DEF TypeOK
  <2>3. e.key = e.id /\ e.part = "line"
    BY <1>3 DEF Record, ReceiptOf, FormInv, Admitted, Genuine
  <2>4. e.id \in Finished' /\ objects'[e.id] = e.etag
    BY <1>3, RecordedIsFinished DEF Record, ReceiptOf, FormInv, FormFields,
      StoreInv, Genuine, InFlight, Admitted
  <2>5. e.id \in pending /\ e.id \in delivered /\ e.id \notin pending'
    BY <1>3 DEF Record, ReceiptOf, IssueInv, FormInv, InFlight, Admitted
  <2>6. \A i \in DOMAIN log : log[i].id # e.id
    BY <2>5 DEF LogInv
  <2>7. LoggedOnce'
    BY <2>2, <2>6 DEF LogInv, LoggedOnce
  <2>8. ASSUME NEW i \in DOMAIN log'
        PROVE  /\ log'[i].key = log'[i].id /\ log'[i].part = "line"
               /\ log'[i].id \in Finished' /\ objects'[log'[i].id] = log'[i].etag
               /\ log'[i].id \notin pending' /\ log'[i].id \in delivered'
    <3>1. CASE i \in DOMAIN log
      <4>1. log'[i] = log[i] /\ log[i] \in Line
        BY <2>2, <3>1 DEF TypeOK
      <4>2. log[i].id \in Snapshot
        BY <4>1 DEF Line
      <4>3. /\ log[i].key = log[i].id /\ log[i].part = "line"
            /\ log[i].id \in Finished /\ objects[log[i].id] = log[i].etag
            /\ log[i].id \notin pending /\ log[i].id \in delivered
        BY <3>1 DEF LogInv
      <4>4. log[i].id \in Finished' /\ objects'[log[i].id] = log[i].etag
        BY <1>1, <4>2, <4>3
      <4>5. log[i].id \notin pending' /\ log[i].id \in delivered'
        BY <4>3, CredentialsGrow
      <4> QED
        BY <4>1, <4>3, <4>4, <4>5
    <3>2. CASE i = Len(log) + 1
      BY <2>2, <2>3, <2>4, <2>5, <3>2, CredentialsGrow
    <3> QED
      BY <2>2, <3>1, <3>2
  <2> QED
    BY <2>7, <2>8 DEF LogInv
<1> QED
  BY <1>2, <1>3, LogRecords

\* New starts with empty maps, no request and no object: the invariant holds.
LEMMA InitInv == Init => IInv
<1> SUFFICES ASSUME Init PROVE IInv
  OBVIOUS
<1> USE ServerAssumption DEF Init
<1>1. TypeOK
  BY DEF TypeOK, Labels, InFlight, Admitted, Handler, NoForm, Body
<1>2. FormInv /\ StatusInv
  BY DEF FormInv, StatusInv, InFlight, Admitted, Writing
<1>3. IssueInv /\ StoreInv
  BY DEF IssueInv, StoreInv, SingleWriter, InFlight, Admitted, Writing
<1>4. ReceiptInv /\ LogInv
  BY DEF ReceiptInv, LogInv, LoggedOnce
<1> QED
  BY <1>1, <1>2, <1>3, <1>4 DEF IInv

\* The inductive invariant holds in every reachable state.
THEOREM Inductive == Spec => []IInv
<1>1. Init => IInv
  BY InitInv
<1>2. IInv /\ [Next]_vars => IInv'
  <2> SUFFICES ASSUME IInv, [Next]_vars PROVE IInv'
    OBVIOUS
  <2>1. TypeOK' /\ FormInv'
    BY TypeFormStep DEF IInv
  <2>2. StatusInv' /\ StoreInv'
    BY StatusStep, StoreStep DEF IInv
  <2>3. IssueInv' /\ ReceiptInv'
    BY IssueStep, ReceiptStep DEF IInv
  <2>4. LogInv'
    BY LogStep
  <2> QED
    BY <2>1, <2>2, <2>3, <2>4 DEF IInv
<1> QED
  BY <1>1, <1>2, PTL DEF Spec

-----------------------------------------------------------------------------
(***************************************************************************)
(* Types, owners, acknowledgements, lines                                  *)
(***************************************************************************)

\* Every variable has its type, whatever the handlers interleave to.
THEOREM TypeCorrect == Spec => []TypeOK
<1>1. IInv => TypeOK
  BY DEF IInv
<1> QED
  BY <1>1, Inductive, PTL

\* No two goroutines of the development storage hold the same object, so none
\* removes what another one created.
THEOREM OneWriter == Spec => []SingleWriter
<1>1. IInv => SingleWriter
  BY DEF IInv, StoreInv
<1> QED
  BY <1>1, Inductive, PTL

\* A 200 is backed by a whole line and the stored body for ever: under every
\* combination of failing calls, races and restarts, in both storage modes.
THEOREM AckedUploadsAreDurable == Spec => []AckedIsDurable
<1>1. IInv => AckedIsDurable
  <2> SUFFICES ASSUME IInv, NEW r \in Request, status[r] = 200
               PROVE  /\ objects[form[r].key] = form[r].body
                      /\ \E i \in DOMAIN log :
                           /\ log[i].id = form[r].id /\ log[i].key = form[r].key
                           /\ log[i].etag = form[r].body /\ log[i].part = "line"
    BY DEF AckedIsDurable
  <2>1. /\ Genuine(form[r]) /\ form[r].id \in Backed
        /\ objects[form[r].id] = form[r].body
    BY DEF IInv, ReceiptInv
  <2>2. LineFor(form[r].id, form[r].body)
    BY <2>1 DEF Backed
  <2> QED
    BY <2>1, <2>2 DEF LineFor, Genuine
<1> QED
  BY <1>1, Inductive, PTL

\* While the log fails only as a whole, every upload is logged once: two
\* requests for it find each other's receipt, before and after a restart.
THEOREM LinesAreUnique ==
  ASSUME Reliable
  PROVE  Spec => []LoggedOnce
<1>1. IInv => LoggedOnce
  BY DEF IInv, LogInv
<1> QED
  BY <1>1, Inductive, PTL

\* And every line describes the object that is stored under its key, for good.
THEOREM LinesMatchStore ==
  ASSUME Reliable
  PROVE  Spec => []LogMatchesStore
<1>1. IInv => LogMatchesStore
  BY DEF IInv, LogInv, LogMatchesStore
<1> QED
  BY <1>1, Inductive, PTL
-----------------------------------------------------------------------------
(***************************************************************************)
(* Refusals, dead credentials, leftovers                                   *)
(***************************************************************************)

\* The clock runs forward, and what is known of a credential stays known.
LEMMA Onward ==
  ASSUME IInv, [Next]_vars, NEW id \in delivered
  PROVE  /\ id \in delivered' /\ expires'[id] = expires[id]
         /\ now >= expires[id] => now' >= expires'[id]
         /\ id \in voided => id \in voided'
         /\ Logged(id) => Logged(id)'
<1> USE DEF IInv
<1>1. id \in Snapshot
  BY DEF TypeOK
<1>2. Logged(id) => Logged(id)'
  BY <1>1, LogGrows, LinesStay
<1>3. now' >= now /\ now \in Nat /\ now' \in Nat /\ expires[id] \in Nat
  BY <1>1 DEF TypeOK, Next, Arrival, HandlerStep, vars, issueVars, handlerVars, Goto, Answer,
    Tick, HandleCredential, Restart, ReceiveUpload, PostObject, ReceiveCallback, RejectMalformed, Admit, Refuse, MissingFile,
    CreateObject, CreateFails, CopyBody, CopyFails, Discard, StampCallback, UnusableSize,
    Record, RecordAgain, RecordFails, Respond
<1>4. id \in delivered' /\ expires'[id] = expires[id] /\ (id \in voided => id \in voided')
  BY <1>1 DEF TypeOK, Next, Arrival, HandlerStep, vars, issueVars, handlerVars, Goto, Answer,
    Tick, HandleCredential, Restart, ReceiveUpload, PostObject, ReceiveCallback, RejectMalformed, Admit, Refuse, MissingFile,
    CreateObject, CreateFails, CopyBody, CopyFails, Discard, StampCallback, UnusableSize,
    Record, RecordAgain, RecordFails, Respond
<1> QED
  BY <1>2, <1>3, <1>4

\* The reason for a refusal, once there, stays: expired, logged and voided
\* credentials remain so.
LEMMA RefusedStep ==
  ASSUME IInv, RefusedForCause, [Next]_vars
  PROVE  RefusedForCause'
<1> USE DEF IInv
<1> SUFFICES ASSUME NEW r \in Request, (status[r] = 403 /\ form[r] # NoForm /\ Genuine(form[r]))'
             PROVE  (\/ now >= expires[form[r].id]
                     \/ Logged(form[r].id)
                     \/ form[r].id \in voided)'
  BY DEF RefusedForCause
<1>1. CASE status[r] = 403
  <2>1. form'[r] = form[r]
    BY <1>1 DEF StatusInv, FormInv, TypeOK, Next, Arrival, HandlerStep, vars, issueVars, handlerVars, Goto, Answer,
    Tick, HandleCredential, Restart, ReceiveUpload, PostObject, ReceiveCallback, RejectMalformed, Admit, Refuse, MissingFile,
    CreateObject, CreateFails, CopyBody, CopyFails, Discard, StampCallback, UnusableSize,
    Record, RecordAgain, RecordFails, Respond
  <2>2. form[r].id \in delivered
    BY <1>1, <2>1 DEF StatusInv, NoForm
  <2>3. \/ now >= expires[form[r].id]
        \/ Logged(form[r].id)
        \/ form[r].id \in voided
    BY <1>1, <2>1 DEF RefusedForCause, Genuine, NoForm
  <2> QED
    BY <2>1, <2>2, <2>3, Onward DEF Logged
<1>2. CASE status[r] # 403
  <2>1. Refuse(r)
    BY <1>2 DEF TypeOK, FormInv, Next, Arrival, HandlerStep, vars, issueVars, handlerVars, Goto, Answer,
    Tick, HandleCredential, Restart, ReceiveUpload, PostObject, ReceiveCallback, RejectMalformed, Admit, Refuse, MissingFile,
    CreateObject, CreateFails, CopyBody, CopyFails, Discard, StampCallback, UnusableSize,
    Record, RecordAgain, RecordFails, Respond
  <2>2. form'[r] = form[r] /\ form[r].id \in delivered
    BY <2>1 DEF Refuse, FormInv, InFlight
  <2>3. form[r].id \in Snapshot /\ now \in Nat /\ expires[form[r].id] \in Nat
    BY <2>2 DEF TypeOK
  <2>4. \/ now >= expires[form[r].id]
        \/ Logged(form[r].id)
        \/ form[r].id \in voided
    BY <2>1, <2>2, <2>3 DEF Refuse, ValidPending, Genuine, IssueInv
  <2> QED
    BY <2>2, <2>4, Onward DEF Logged
<1> QED
  BY <1>1, <1>2

\* The holder of a genuine credential is refused only when it has expired, its
\* upload is complete, or a restart dropped it.
THEOREM RefusalsHaveACause == Spec => []RefusedForCause
<1>1. Init => RefusedForCause
  BY DEF Init, RefusedForCause
<1>2. IInv /\ RefusedForCause /\ [Next]_vars => RefusedForCause'
  BY RefusedStep
<1> QED
  BY <1>1, <1>2, Inductive, PTL DEF Spec

\* The two critical sections of an upload leave no gap through which an expired
\* or dropped credential could still be completed.
THEOREM TheDeadStayDead == Spec => DeadStaysDead
<1>1. ASSUME IInv, [Next]_vars, NEW id \in Snapshot, Dead(id)
      PROVE  Dead(id)'
  <2> USE DEF IInv
  <2>1. id \in delivered' /\ (now' >= expires'[id] \/ id \in voided')
    BY <1>1, Onward DEF Dead
  <2>2. \A r \in Request : pc[r] \in Admitted => form[r].id # id
    BY <1>1 DEF Dead
  <2>3. ASSUME NEW r \in Request, pc'[r] \in Admitted PROVE form'[r].id # id
    <3>1. CASE pc[r] \in Admitted
      <4>1. pc[r] # "idle"
        BY <3>1 DEF Admitted
      <4>2. form'[r] = form[r]
        BY <1>1, <4>1 DEF TypeOK, Next, Arrival, HandlerStep, vars, issueVars, handlerVars, Goto, Answer,
    Tick, HandleCredential, Restart, ReceiveUpload, PostObject, ReceiveCallback, RejectMalformed, Admit, Refuse, MissingFile,
    CreateObject, CreateFails, CopyBody, CopyFails, Discard, StampCallback, UnusableSize,
    Record, RecordAgain, RecordFails, Respond
      <4> QED
        BY <2>2, <3>1, <4>2
    <3>2. CASE pc[r] \notin Admitted
      <4>1. Admit(r)
        BY <1>1, <2>3, <3>2 DEF Admitted, TypeOK, Next, Arrival, HandlerStep, vars, issueVars, handlerVars, Goto, Answer,
    Tick, HandleCredential, Restart, ReceiveUpload, PostObject, ReceiveCallback, RejectMalformed, Admit, Refuse, MissingFile,
    CreateObject, CreateFails, CopyBody, CopyFails, Discard, StampCallback, UnusableSize,
    Record, RecordAgain, RecordFails, Respond
      <4> QED
        BY <1>1, <4>1 DEF Admit, ValidPending, Dead, IssueInv, TypeOK
    <3> QED
      BY <3>1, <3>2
  <2>4. ~Logged(id)'
    <3>1. CASE log' = log
      BY <1>1, <3>1 DEF Dead, Logged
    <3>2. CASE log' # log
      <4>1. PICK r \in Request : Record(r) \/ RecordFails(r)
        BY <1>1, <3>2 DEF Next, Arrival, HandlerStep, vars, issueVars, handlerVars, Goto, Answer,
    Tick, HandleCredential, Restart, ReceiveUpload, PostObject, ReceiveCallback, RejectMalformed, Admit, Refuse, MissingFile,
    CreateObject, CreateFails, CopyBody, CopyFails, Discard, StampCallback, UnusableSize,
    Record, RecordAgain, RecordFails, Respond
      <4>2. PICK part \in {"line", "unterminated", "fragment"} :
              log' = Append(log, ReceiptOf(r, part))
        BY <3>2, <4>1 DEF Record, RecordFails, FailedWrites
      <4>3. pc[r] = "stored"
        BY <4>1 DEF Record, RecordFails
      <4>4. ReceiptOf(r, part) \in Line /\ ReceiptOf(r, part).id # id
        <5>1. ReceiptOf(r, part) \in Line
          BY <1>1, <4>3, ReceiptTyped
        <5>2. form[r].id # id
          BY <2>2, <4>3 DEF Admitted
        <5> QED
          BY <5>1, <5>2 DEF ReceiptOf
      <4>5. /\ Len(log) \in Nat /\ DOMAIN log' = 1 .. Len(log) + 1
            /\ \A i \in 1 .. Len(log) : log'[i] = log[i]
            /\ log'[Len(log) + 1] = ReceiptOf(r, part)
            /\ DOMAIN log = 1 .. Len(log)
        BY <4>2, <4>4, AppendProperties DEF TypeOK
      <4> QED
        BY <1>1, <4>4, <4>5 DEF Dead, Logged
    <3> QED
      BY <3>1, <3>2
  <2>5. \A r \in Request : (pc[r] \in Admitted)' => (form[r].id # id)'
    BY <2>3 DEF Admitted
  <2> QED
    BY <2>1, <2>4, <2>5 DEF Dead
<1>2. IInv /\ [Next]_vars => [\A id \in Snapshot : Dead(id) => Dead(id)']_vars
  BY <1>1
<1> QED
  BY <1>2, Inductive, PTL DEF Spec, DeadStaysDead

-----------------------------------------------------------------------------
(***************************************************************************)
(* Leftovers and the ledger                                                *)
(***************************************************************************)

\* An object changes only in the hands of the request that holds its key.
LEMMA ObjectSteps ==
  ASSUME IInv, [Next]_vars, objects' # objects
  PROVE  \E r \in Request :
           \/ PostObject(r) \/ CreateObject(r)
           \/ Owns(r, form[r].key) /\ (CopyBody(r) \/ Discard(r))
  BY DEF Owns, Writing, Next, Arrival, HandlerStep, vars, issueVars, handlerVars, Goto, Answer,
    Tick, HandleCredential, Restart, ReceiveUpload, PostObject, ReceiveCallback, RejectMalformed, Admit, Refuse, MissingFile,
    CreateObject, CreateFails, CopyBody, CopyFails, Discard, StampCallback, UnusableSize,
    Record, RecordAgain, RecordFails, Respond

\* If os.Remove does its work, whatever development storage holds is logged,
\* still in the hands of a goroutine, or the victim of a restart.
THEOREM NoLeftovers ==
  ASSUME "remove" \notin Faults
  PROVE  Spec => []StoredIsAccountedFor
<1> DEFINE Acc(key) == \/ objects[key] = Absent \/ Logged(key) \/ key \in voided
                       \/ \E r \in Request : Owns(r, key)
           Inv == Mode = "development" => \A key \in Snapshot : Acc(key)
<1>1. Inv <=> StoredIsAccountedFor
  BY DEF StoredIsAccountedFor, Owns
<1>2. Init => Inv
  BY DEF Init
<1>3. IInv /\ Inv /\ [Next]_vars => Inv'
  <2> SUFFICES ASSUME IInv, Inv, [Next]_vars, Mode = "development",
                      NEW key \in Snapshot
               PROVE  Acc(key)'
    OBVIOUS
  <2> USE DEF IInv
  <2>1. (Logged(key) => Logged(key)') /\ (key \in voided => key \in voided')
    <3>1. Logged(key) => Logged(key)'
      BY LogGrows, LinesStay
    <3> QED
      BY <3>1 DEF Next, Arrival, HandlerStep, vars, issueVars, handlerVars, Goto, Answer,
    Tick, HandleCredential, Restart, ReceiveUpload, PostObject, ReceiveCallback, RejectMalformed, Admit, Refuse, MissingFile,
    CreateObject, CreateFails, CopyBody, CopyFails, Discard, StampCallback, UnusableSize,
    Record, RecordAgain, RecordFails, Respond
  <2>2. CASE objects[key] = Absent
    <3>1. CASE objects'[key] = Absent
      BY <3>1
    <3>2. CASE objects'[key] # Absent
      <4>1. PICK r \in Request : CreateObject(r) \/ Owns(r, key)
        BY <2>2, <3>2, ObjectSteps DEF TypeOK, PostObject, CopyBody, Discard
      <4>2. CASE Owns(r, key)
        BY <2>2, <4>2 DEF StoreInv, Owns
      <4>3. CASE CreateObject(r)
        <5>1. form[r].key = key
          BY <2>2, <3>2, <4>3 DEF CreateObject, TypeOK
        <5>2. Owns(r, key)'
          BY <4>3, <5>1 DEF CreateObject, Goto, Owns, Writing, TypeOK
        <5> QED
          BY <5>2
      <4> QED
        BY <4>1, <4>2, <4>3
    <3> QED
      BY <3>1, <3>2
  <2>3. ASSUME NEW r \in Request, Owns(r, key), ~Owns(r, key)'
        PROVE  objects'[key] = Absent \/ Logged(key)' \/ key \in voided'
    <3>1. Discard(r) \/ Record(r) \/ RecordAgain(r) \/ Restart
      BY <2>3 DEF TypeOK, Owns, Writing, Next, Arrival, HandlerStep, vars, issueVars, handlerVars, Goto, Answer,
    Tick, HandleCredential, Restart, ReceiveUpload, PostObject, ReceiveCallback, RejectMalformed, Admit, Refuse, MissingFile,
    CreateObject, CreateFails, CopyBody, CopyFails, Discard, StampCallback, UnusableSize,
    Record, RecordAgain, RecordFails, Respond
    <3>2. CASE Discard(r)
      BY <2>3, <3>2 DEF Discard, Owns, TypeOK
    <3>3. CASE Record(r) \/ RecordAgain(r)
      <4>1. form[r].id \in receipts'
        BY <3>3 DEF Record, RecordAgain, issueVars
      <4>2. form[r].id = key /\ form'[r] = form[r]
        BY <2>3, <3>3 DEF Owns, FormInv, Genuine, Admitted, Writing, Record, RecordAgain
      <4>3. ReceiptInv'
        BY ReceiptStep
      <4> QED
        BY <4>1, <4>2, <4>3 DEF ReceiptInv, Backed, LineFor, Logged
    <3>4. CASE Restart
      <4>1. key \in pending \cup receipts
        BY <2>3 DEF Owns, IssueInv, FormInv, Genuine, Admitted, Writing
      <4>2. key \in receipts => Logged(key)
        BY DEF ReceiptInv, Backed, LineFor, Logged
      <4> QED
        BY <2>1, <3>4, <4>1, <4>2 DEF Restart
    <3> QED
      BY <3>1, <3>2, <3>3, <3>4
  <2> QED
    BY <2>1, <2>2, <2>3
<1> QED
  BY <1>1, <1>2, <1>3, Inductive, PTL DEF Spec

\* What is in the ledger is finished, so its object is no goroutine's to touch.
LEMMA CompletedIsFinished ==
  ASSUME Reliable, IInv, NEW id \in Snapshot, Ledger!Completed(id)
  PROVE  id \in Finished
BY DEF IInv, LogInv, Ledger!Completed

\* Every step of the server is a step of the ledger or leaves it alone.
LEMMA LedgerStep ==
  ASSUME Reliable, IInv, [Next]_vars
  PROVE  [Ledger!LedgerNext]_(Ledger!ledgerVars)
<1> USE ServerAssumption DEF IInv
<1>1. ASSUME NEW id \in Snapshot, HandleCredential(id) PROVE Ledger!Grant(id)
  BY <1>1 DEF HandleCredential, Ledger!Grant
<1>2. ASSUME Restart PROVE Ledger!Void
  BY <1>2 DEF Restart, Ledger!Void
<1>3. ASSUME NEW r \in Request, Record(r)
      PROVE  Ledger!Complete(ReceiptOf(r, "line")) /\ ReceiptOf(r, "line") \in Line
  <2>1. ReceiptOf(r, "line") \in Line
    BY <1>3, ReceiptTyped DEF Record
  <2>2. form[r].id \in pending /\ objects[form[r].id] = form[r].body
    BY <1>3 DEF Record, IssueInv, FormInv, StoreInv, Genuine, Admitted, Writing
  <2>3. form[r].id \in delivered
    BY <1>3 DEF Record, FormInv, InFlight, Admitted
  <2> QED
    BY <1>3, <2>1, <2>2, <2>3 DEF Record, ReceiptOf, Ledger!Complete
<1>4. ASSUME objects' # objects
      PROVE  \E id \in Snapshot : Ledger!Stage(id)
  <2>1. PICK r \in Request :
           \/ PostObject(r) \/ CreateObject(r)
           \/ Owns(r, form[r].key) /\ (CopyBody(r) \/ Discard(r))
    BY <1>4, ObjectSteps
  <2>2. UNCHANGED <<pending, delivered, voided, log>>
    BY <2>1 DEF PostObject, CreateObject, CopyBody, Discard, issueVars
  <2>3. PICK key \in Snapshot, b \in Body :
          key \notin Finished /\ objects' = [objects EXCEPT ![key] = b]
    <3>1. CASE PostObject(r)
      <4>1. PICK f \in Form : /\ f.body \in Content
                              /\ objects[f.key] \in {Absent, f.body}
                              /\ objects' = [objects EXCEPT ![f.key] = f.body]
        BY <3>1 DEF PostObject
      <4>2. f.key \in Snapshot
        BY DEF FormFields
      <4>3. objects[f.key] = Absent
        BY <1>4, <4>1, <4>2 DEF TypeOK
      <4> QED
        BY <4>1, <4>2, <4>3 DEF Finished, Body
    <3>2. CASE CreateObject(r)
      BY <3>2 DEF CreateObject, FormInv, FormFields, InFlight, Admitted, Finished, Body
    <3>3. CASE Owns(r, form[r].key) /\ (CopyBody(r) \/ Discard(r))
      <4>1. form[r].key \in Snapshot /\ form[r].body \in Content
        BY <3>3 DEF Owns, FormInv, FormFields, InFlight, Admitted, Writing
      <4>2. form[r].key \notin Finished
        BY <3>3 DEF Finished, FormInv, Owns, InFlight, Admitted, CopyBody, Discard
      <4>3. \E b \in Body : objects' = [objects EXCEPT ![form[r].key] = b]
        BY <1>4, <3>3, <4>1 DEF CopyBody, Discard, Body
      <4> QED
        BY <4>1, <4>2, <4>3
    <3> QED
      BY <2>1, <3>1, <3>2, <3>3
  <2>4. ~Ledger!Completed(key)
    BY <2>3, CompletedIsFinished
  <2>5. Ledger!Stage(key)
    BY <2>2, <2>3, <2>4 DEF Ledger!Stage
  <2> QED
    BY <2>5
<1>5. ASSUME objects' = objects, ~Restart,
             \A id \in Snapshot : ~HandleCredential(id),
             \A r \in Request : ~Record(r)
      PROVE  UNCHANGED Ledger!ledgerVars
  <2>1. log' = log
    BY <1>5, LogRecords
  <2>2. UNCHANGED <<pending, delivered, voided>>
    BY <1>5 DEF Next, Arrival, HandlerStep, vars, issueVars, handlerVars, Goto, Answer,
    Tick, HandleCredential, Restart, ReceiveUpload, PostObject, ReceiveCallback, RejectMalformed, Admit, Refuse, MissingFile,
    CreateObject, CreateFails, CopyBody, CopyFails, Discard, StampCallback, UnusableSize,
    Record, RecordAgain, RecordFails, Respond
  <2> QED
    BY <1>5, <2>1, <2>2 DEF Ledger!ledgerVars
<1> QED
  BY <1>1, <1>2, <1>3, <1>4, <1>5 DEF Ledger!LedgerNext

\* The server implements the ledger: while the log fails only as a whole, its
\* goroutines, its mutex and its files add nothing an observer could tell.
THEOREM ServerIsALedger ==
  ASSUME Reliable
  PROVE  Spec => ImplementsLedger
<1>1. Init => Ledger!LedgerInit
  BY DEF Init, Ledger!LedgerInit
<1>2. IInv /\ [Next]_vars => [Ledger!LedgerNext]_(Ledger!ledgerVars)
  BY LedgerStep
<1> QED
  BY <1>1, <1>2, Inductive, PTL DEF Spec, ImplementsLedger, Ledger!LedgerSpec
=============================================================================
