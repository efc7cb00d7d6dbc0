------------------------- MODULE AgentSessionProofs -------------------------
(***************************************************************************)
(* Theorems about AgentSession, for every set of calls, requests and       *)
(* snapshots, every script an Agent may write and every combination of     *)
(* faults: what an Agent may conclude from the end of an upload call, and  *)
(* from the answers of the MCP server.                                     *)
(***************************************************************************)
EXTENDS AgentSession, SnapshotServerProofs

ScriptLine == Call \cup {"request", "notification", "garbage", "overlong"}

(***************************************************************************)
(* The inductive invariant                                                 *)
(***************************************************************************)

\* The lines the loop can have in hand.
Due == Call \cup {"request", "garbage"}

\* The answers are the first of those that are due; all but the last when a
\* line is in hand, all of them when none is, as long as stdout is not broken.
LoopInv ==
  /\ inbox \in Seq(ScriptLine) /\ asked \in Seq(ScriptLine) /\ replies \in Seq(ScriptLine)
  /\ loop \in Due \cup {"reading", "ended"}
  /\ Len(replies) <= Len(asked)
  /\ \A i \in 1 .. Len(replies) : replies[i] = asked[i]
  /\ stdout \in {"open", "full", "broken"}
  /\ stdout # "broken" /\ loop = "reading" => Len(replies) = Len(asked)
  /\ loop \in Due =>
       /\ Len(replies) < Len(asked)
       /\ stdout # "broken" => Len(asked) = Len(replies) + 1 /\ asked[Len(asked)] = loop

\* Credentials of calls that posted, or may have.
Posted ==
  {cred[c] : c \in {d \in Call : phase[d] \in {"posted", "succeeded", "unknown"}}} \ {Absent}

\* A call has a credential from its grant on, and no two have the same.
CallInv ==
  /\ phase \in [Call -> Final \cup {"idle", "running", "granted", "posted"}]
  /\ cred \in [Call -> Snapshot \cup {Absent}]
  /\ \A c \in Call :
       /\ phase[c] \in {"idle", "running"} => cred[c] = Absent
       /\ phase[c] = "posted" => cred[c] # Absent /\ form[c].id = cred[c]
       /\ cred[c] # Absent => cred[c] \in delivered
  /\ \A c, d \in Call : c # d /\ cred[c] # Absent => cred[c] # cred[d]

\* Whatever reached the server or its log was posted by a call.
PostInv ==
  /\ \A r \in Request : form[r] # NoForm => form[r].id \in Posted
  /\ \A i \in DOMAIN log : log[i].id \in Posted

SuccessInv == \A c \in Call : phase[c] = "succeeded" => Kept(c)

UnpostedInv ==
  \A c \in Call : phase[c] \notin {"posted", "succeeded", "unknown"} => ~Kept(c)

SessionInv == IInv /\ LoopInv /\ CallInv /\ PostInv /\ SuccessInv /\ UnpostedInv
-----------------------------------------------------------------------------
(***************************************************************************)
(* The request loop                                                        *)
(***************************************************************************)

\* Reading a line takes it from the inbox and, unless it is a notification,
\* makes an answer due.
LEMMA ScanStep ==
  ASSUME LoopInv, NEW line, Mcp!Scan(line)
  PROVE  /\ inbox' \in Seq(ScriptLine) /\ asked' \in Seq(ScriptLine)
         /\ line = "notification" => asked' = asked
         /\ line # "notification" =>
              /\ Len(asked') = Len(asked) + 1 /\ asked'[Len(asked) + 1] = line
              /\ \A i \in 1 .. Len(asked) : asked'[i] = asked[i]
         /\ loop = "reading" /\ line \in ScriptLine /\ stdout' = stdout
<1>1. inbox # << >> /\ line = Head(inbox) /\ inbox' = Tail(inbox)
  BY DEF Mcp!Scan
<1>2. line \in ScriptLine /\ inbox' \in Seq(ScriptLine)
  BY <1>1, HeadTailProperties DEF LoopInv
<1>3. line # "notification" => asked' = Append(asked, line)
  BY DEF Mcp!Scan
<1>4. line = "notification" => asked' = asked
  BY DEF Mcp!Scan
<1> QED
  BY <1>2, <1>3, <1>4, AppendProperties DEF LoopInv, Mcp!Scan

\* A line in hand is the last that is due an answer.
LEMMA TakeStep ==
  ASSUME LoopInv, NEW line \in Due, Mcp!Take(line)
  PROVE  LoopInv'
<1>0. Due \cap {"notification", "reading", "ended"} = {} /\ Due \subseteq ScriptLine
  BY SessionAssumption DEF Due, ScriptLine
<1>1. Mcp!Scan(line) /\ loop' = line /\ replies' = replies
  BY DEF Mcp!Take
<1>2. /\ inbox' \in Seq(ScriptLine) /\ asked' \in Seq(ScriptLine)
      /\ Len(asked') = Len(asked) + 1 /\ asked'[Len(asked) + 1] = line
      /\ \A i \in 1 .. Len(asked) : asked'[i] = asked[i]
      /\ loop = "reading" /\ stdout' = stdout
  BY <1>0, <1>1, ScanStep
<1>3. Len(replies) \in Nat /\ Len(asked) \in Nat
  BY DEF LoopInv
<1> QED
  BY <1>0, <1>1, <1>2, <1>3 DEF LoopInv

\* The next answer goes to the oldest line that has none.
LEMMA ReplyStep ==
  ASSUME LoopInv, NEW line \in Due, loop = line, Mcp!Reply(line),
         UNCHANGED <<inbox, asked, stdout>>
  PROVE  LoopInv'
<1>0. Due \cap {"reading", "ended"} = {} /\ line \in ScriptLine
  BY SessionAssumption DEF Due, ScriptLine
<1>1. Len(replies) \in Nat /\ Len(asked) \in Nat
  BY DEF LoopInv
<1>2. CASE stdout = "open" /\ replies' = Append(replies, line) /\ loop' = "reading"
  <2>1. /\ replies' \in Seq(ScriptLine) /\ Len(replies') = Len(replies) + 1
        /\ \A i \in 1 .. Len(replies) : replies'[i] = replies[i]
        /\ replies'[Len(replies) + 1] = line
    BY <1>0, <1>2, AppendProperties DEF LoopInv
  <2>2. Len(asked) = Len(replies) + 1 /\ asked[Len(asked)] = line
    BY <1>2 DEF LoopInv
  <2> QED
    BY <1>0, <1>1, <1>2, <2>1, <2>2 DEF LoopInv
<1>3. CASE stdout = "broken" /\ loop' = "ended" /\ replies' = replies
  BY <1>0, <1>3 DEF LoopInv
<1> QED
  BY <1>2, <1>3 DEF Mcp!Reply

\* No operation of the loop skips an answer or gives one twice.
LEMMA LoopStep ==
  ASSUME LoopInv,
         \/ \E c \in Call : Mcp!CallTool(c) \/ Mcp!ReturnTool(c)
         \/ Mcp!TurnStdout \/ Mcp!ServePlain \/ Mcp!EndProcess
         \/ UNCHANGED mcpVars
  PROVE  LoopInv'
<1>0. Due \cap {"notification", "reading", "ended"} = {}
  BY SessionAssumption DEF Due
<1>1. ASSUME NEW c \in Call, Mcp!CallTool(c) PROVE LoopInv'
  BY <1>1, TakeStep DEF Mcp!CallTool, Due
<1>2. ASSUME NEW c \in Call, Mcp!ReturnTool(c) PROVE LoopInv'
  BY <1>2, ReplyStep DEF Mcp!ReturnTool, Due
<1>3. CASE Mcp!TurnStdout
  BY <1>3 DEF LoopInv, Mcp!TurnStdout
<1>4. CASE Mcp!EndProcess
  BY <1>0, <1>4 DEF LoopInv, Mcp!EndProcess
<1>5. CASE UNCHANGED mcpVars
  BY <1>5 DEF LoopInv, mcpVars
<1>6. CASE Mcp!TakeGarbage \/ Mcp!TakeRequest
  BY <1>6, TakeStep DEF Mcp!TakeGarbage, Mcp!TakeRequest, Due
<1>7. CASE Mcp!ParseError
  <2>1. CASE stdout = "open"
    <3>1. loop = "garbage" /\ Mcp!Reply("garbage") /\ UNCHANGED <<inbox, asked, stdout>>
      BY <1>7, <2>1 DEF Mcp!ParseError, Mcp!Reply
    <3> QED
      BY <3>1, ReplyStep DEF Due
  <2>2. CASE stdout = "broken"
    BY <1>0, <1>7, <2>2 DEF LoopInv, Mcp!ParseError
  <2> QED
    BY <1>7, <2>1, <2>2 DEF LoopInv, Mcp!ParseError
<1>8. CASE Mcp!SkipNotification
  <2>1. Mcp!Scan("notification") /\ UNCHANGED <<replies, loop>>
    BY <1>8 DEF Mcp!SkipNotification
  <2>2. inbox' \in Seq(ScriptLine) /\ asked' = asked /\ stdout' = stdout
    BY <2>1, ScanStep
  <2> QED
    BY <2>1, <2>2 DEF LoopInv
<1>9. CASE Mcp!AnswerRequest
  BY <1>9, ReplyStep DEF Mcp!AnswerRequest, Due
<1>10. CASE Mcp!ScanFails
  BY <1>0, <1>10 DEF LoopInv, Mcp!ScanFails
<1> QED
  BY <1>1, <1>2, <1>3, <1>4, <1>5, <1>6, <1>7, <1>8, <1>9, <1>10 DEF Mcp!ServePlain

-----------------------------------------------------------------------------
(***************************************************************************)
(* The session is a user of the server                                     *)
(***************************************************************************)

\* What is done to the server in a session is something the server allows.
LEMMA SessionIsServed ==
  ASSUME [SessionNext]_allVars
  PROVE  [Next]_vars
<1>1. ASSUME NEW c \in Call, UploadStep(c) PROVE [Next]_vars
  <2>1. c \in Request
    BY SessionAssumption
  <2> QED
    BY <1>1, <2>1 DEF UploadStep, Begin, Ask, AskInVain, PackFails, Post, PostBreaks,
      TakeAnswer, NoAnswer, Next, Arrival
<1>2. ASSUME NEW c \in Call, AbortCall(c) PROVE [Next]_vars
  BY <1>2 DEF AbortCall
<1>3. ASSUME NEW r \in Request, Redeliver(r) PROVE [Next]_vars
  BY <1>3 DEF Redeliver, Next, Arrival
<1>4. ServerStep \/ ServeMcp \/ TurnStdout \/ EndMcp \/ UNCHANGED allVars => [Next]_vars
  BY DEF ServerStep, ServeMcp, TurnStdout, EndMcp, allVars, Next
<1> QED
  BY <1>1, <1>2, <1>3, <1>4 DEF SessionNext

\* A session's server behaves as SnapshotServer, so what is proved of it holds.
THEOREM SessionUsesServer == SessionSpec => Spec
<1>1. SessionInit => Init
  BY DEF SessionInit
<1>2. [SessionNext]_allVars => [Next]_vars
  BY SessionIsServed
<1> QED
  BY <1>1, <1>2, PTL DEF SessionSpec, Spec

\* Each step of a session is at most one operation of the request loop.
LEMMA SessionLoops ==
  ASSUME [SessionNext]_allVars
  PROVE  \/ \E c \in Call : Mcp!CallTool(c) \/ Mcp!ReturnTool(c)
         \/ Mcp!TurnStdout \/ Mcp!ServePlain \/ Mcp!EndProcess
         \/ UNCHANGED mcpVars
<1>1. ASSUME NEW c \in Call, UploadStep(c)
      PROVE  Mcp!CallTool(c) \/ UNCHANGED mcpVars
  BY <1>1 DEF UploadStep, Begin, Ask, AskInVain, PackFails, Post, PostBreaks,
    TakeAnswer, NoAnswer, Return
<1>2. ASSUME NEW c \in Call, AbortCall(c) PROVE UNCHANGED mcpVars
  BY <1>2 DEF AbortCall
<1>3. ASSUME NEW r \in Request, Redeliver(r) PROVE UNCHANGED mcpVars
  BY <1>3 DEF Redeliver, sessionVars
<1>4. ServerStep \/ UNCHANGED allVars => UNCHANGED mcpVars
  BY DEF ServerStep, sessionVars, allVars
<1>5. TurnStdout \/ EndMcp => Mcp!TurnStdout \/ Mcp!EndProcess
  BY DEF TurnStdout, EndMcp
<1>6. ServeMcp => Mcp!ServePlain \/ \E c \in Call : Mcp!ReturnTool(c)
  BY DEF ServeMcp
<1> QED
  BY <1>1, <1>2, <1>3, <1>4, <1>5, <1>6 DEF SessionNext

\* The invariant of the request loop holds in every reachable state.
THEOREM LoopCorrect == SessionSpec => []LoopInv
<1>1. SessionInit => LoopInv
  <2> SUFFICES ASSUME SessionInit PROVE LoopInv
    OBVIOUS
  <2>1. inbox \in Seq(ScriptLine)
    BY SessionAssumption DEF SessionInit, Mcp!McpInit, ScriptLine
  <2>2. /\ asked = << >> /\ replies = << >> /\ Len(<< >>) = 0 /\ << >> \in Seq(ScriptLine)
        /\ loop = "reading" /\ stdout = "open" /\ "reading" \notin Due
    BY SessionAssumption, EmptySeq DEF SessionInit, Mcp!McpInit, Due
  <2> QED
    BY <2>1, <2>2 DEF LoopInv
<1>2. LoopInv /\ [SessionNext]_allVars => LoopInv'
  BY SessionLoops, LoopStep
<1> QED
  BY <1>1, <1>2, PTL DEF SessionSpec

\* The answers match the lines that are due one, in order, however long calls
\* take, however they end and whoever stops reading.
THEOREM AnswersInOrder == SessionSpec => []AnsweredInOrder
<1>1. LoopInv => AnsweredInOrder
  <2> SUFFICES ASSUME LoopInv PROVE AnsweredInOrder
    OBVIOUS
  <2>0. /\ Len(replies) \in Nat /\ Len(asked) \in Nat
        /\ replies \in Seq(ScriptLine) /\ asked \in Seq(ScriptLine)
    BY DEF LoopInv
  <2>1. SubSeq(replies, 1, Len(replies)) = SubSeq(asked, 1, Len(replies))
    <3>1. /\ \A i \in 1 .. Len(replies) : replies[i] \in ScriptLine
          /\ \A i \in 1 .. Len(replies) : asked[i] \in ScriptLine
      BY <2>0, ElementOfSeq DEF LoopInv
    <3>2. \A i \in 1 .. Len(replies) : replies[i] = asked[i]
      BY DEF LoopInv
    <3> DEFINE left == SubSeq(replies, 1, Len(replies))
               right == SubSeq(asked, 1, Len(replies))
    <3>3. /\ left \in Seq(ScriptLine) /\ Len(left) = Len(replies)
          /\ \A i \in 1 .. Len(replies) : left[i] = replies[i]
      BY <2>0, <3>1, SubSeqProperties
    <3>4. /\ right \in Seq(ScriptLine) /\ Len(right) = Len(replies)
          /\ \A i \in 1 .. Len(replies) : right[i] = asked[i]
      BY <2>0, <3>1, SubSeqProperties
    <3> HIDE DEF left, right
    <3>5. left = right
      BY <3>2, <3>3, <3>4, SeqEqual
    <3> QED
      BY <3>5 DEF left, right
  <2>2. stdout # "broken" /\ loop = "reading" => replies = asked
    BY <2>0, SeqEqual DEF LoopInv
  <2> QED
    BY <2>0, <2>1, <2>2 DEF LoopInv, AnsweredInOrder, Mcp!AnsweredInOrder, Mcp!IsPrefix
<1> QED
  BY <1>1, LoopCorrect, PTL

-----------------------------------------------------------------------------
(***************************************************************************)
(* Calls and their credentials                                             *)
(***************************************************************************)

\* The end of a call leaves its credential where it is.
LEMMA ReturnStep ==
  ASSUME CallInv, NEW c \in Call, NEW verdict \in Final, Return(c, verdict),
         delivered \subseteq delivered', form' = form
  PROVE  CallInv'
<1>1. phase' = [phase EXCEPT ![c] = verdict] /\ cred' = cred
  BY DEF Return, Enter
<1> QED
  BY <1>1 DEF CallInv, Final

\* A call gets its credential once, from the server, and keeps it.
LEMMA CallStep ==
  ASSUME TypeOK, CallInv, [SessionNext]_allVars
  PROVE  CallInv'
<1> USE SessionAssumption
<1>0. delivered \subseteq delivered'
  BY SessionIsServed, CredentialsGrow
<1>1. ASSUME NEW c \in Call, Begin(c) PROVE CallInv'
  BY <1>1 DEF Begin, CallInv, Enter, Final, vars
<1>2. ASSUME NEW c \in Call, Ask(c) PROVE CallInv'
  <2>1. PICK id \in Snapshot : HandleCredential(id) /\ cred' = [cred EXCEPT ![c] = id]
    BY <1>2 DEF Ask
  <2>2. id \notin delivered /\ delivered' = delivered \cup {id} /\ form' = form
    BY <2>1 DEF HandleCredential, handlerVars
  <2>3. \A d \in Call : cred[d] # id
    BY <2>2 DEF CallInv
  <2>4. phase' = [phase EXCEPT ![c] = "granted"]
    BY <1>2 DEF Ask, Enter
  <2>5. /\ phase' \in [Call -> Final \cup {"idle", "running", "granted", "posted"}]
        /\ cred' \in [Call -> Snapshot \cup {Absent}]
    BY <2>1, <2>4 DEF CallInv
  <2>6. ASSUME NEW d \in Call
        PROVE  /\ phase'[d] \in {"idle", "running"} => cred'[d] = Absent
               /\ phase'[d] = "posted" => cred'[d] # Absent /\ form'[d].id = cred'[d]
               /\ cred'[d] # Absent => cred'[d] \in delivered'
    BY <2>1, <2>2, <2>4 DEF CallInv
  <2>7. \A d, e \in Call : d # e /\ cred'[d] # Absent => cred'[d] # cred'[e]
    BY <2>1, <2>3 DEF CallInv
  <2> QED
    BY <2>5, <2>6, <2>7 DEF CallInv
<1>3. ASSUME NEW c \in Call, AskInVain(c) PROVE CallInv'
  BY <1>0, <1>3, ReturnStep DEF AskInVain, HandleCredential, handlerVars, vars, Final
<1>4. ASSUME NEW c \in Call, PackFails(c) PROVE CallInv'
  BY <1>0, <1>4, ReturnStep DEF PackFails, vars, Final
<1>5. ASSUME NEW c \in Call, Post(c) PROVE CallInv'
  <2>1. PICK f \in Form : {f.id, f.token, f.key} \subseteq delivered
                         /\ form' = [form EXCEPT ![c] = f]
    BY <1>5 DEF Post, ReceiveUpload
  <2>2. form'[c].id = cred[c] /\ form'[c] = f /\ c \in Request
    BY <1>5, <2>1 DEF Post, TypeOK
  <2>3. f.id \in Snapshot
    BY ServerAssumption DEF FormFields
  <2>4. cred[c] # Absent
    BY <2>2, <2>3
  <2>5. \A d \in Call : d # c => form'[d] = form[d]
    BY <2>1
  <2> QED
    BY <1>0, <1>5, <2>2, <2>4, <2>5 DEF Post, CallInv, Enter, Final, Live, mcpVars
<1>6. ASSUME NEW c \in Call, PostBreaks(c) PROVE CallInv'
  BY <1>0, <1>6, ReturnStep DEF PostBreaks, RejectMalformed, vars, Final
<1>7. ASSUME NEW c \in Call, TakeAnswer(c) PROVE CallInv'
  BY <1>0, <1>7, ReturnStep DEF TakeAnswer, vars, Final
<1>8. ASSUME NEW c \in Call, NoAnswer(c) PROVE CallInv'
  BY <1>0, <1>8, ReturnStep DEF NoAnswer, vars, Final
<1>9. ASSUME NEW c \in Call, AbortCall(c) PROVE CallInv'
  BY <1>9 DEF AbortCall, Abandoned, CallInv, Enter, Final, Live, vars, mcpVars
<1>10. ASSUME NEW r \in Request, Redeliver(r) PROVE CallInv'
  <2>1. PICK f \in Form : form' = [form EXCEPT ![r] = f]
    BY <1>10 DEF Redeliver, ReceiveUpload
  <2>2. \A c \in Call : form'[c] = form[c]
    BY <1>10, <2>1 DEF Redeliver, TypeOK
  <2> QED
    BY <1>0, <1>10, <2>2 DEF Redeliver, CallInv, Final, sessionVars, mcpVars
<1>11. CASE ServerStep
  <2>1. form' = form
    BY <1>11 DEF ServerStep, HandlerStep, handlerVars, Tick, Restart, Admit, Refuse, MissingFile,
      CreateObject, CreateFails, CopyBody, CopyFails, Discard, StampCallback, UnusableSize,
      Record, RecordAgain, RecordFails, Respond
  <2> QED
    BY <1>0, <1>11, <2>1 DEF ServerStep, CallInv, Final, sessionVars, mcpVars
<1>12. CASE ServeMcp \/ TurnStdout
  BY <1>12 DEF ServeMcp, TurnStdout, CallInv, Final, vars
<1>13. CASE EndMcp
  BY <1>13 DEF EndMcp, Mcp!EndProcess, Abandoned, CallInv, Final, Live, vars
<1>14. CASE UNCHANGED allVars
  BY <1>14 DEF allVars, sessionVars, mcpVars, vars, CallInv, Final
<1>15. ASSUME NEW c \in Call, UploadStep(c) PROVE CallInv'
  BY <1>15, <1>1, <1>2, <1>3, <1>4, <1>5, <1>6, <1>7, <1>8 DEF UploadStep
<1> QED
  BY <1>9, <1>10, <1>11, <1>12, <1>13, <1>14, <1>15 DEF SessionNext

\* How a call moves: its credential is fixed once it has one, what was posted
\* stays posted, and an end is final.
LEMMA CallMoves ==
  ASSUME CallInv, [SessionNext]_allVars, NEW c \in Call
  PROVE  /\ cred[c] # Absent => cred'[c] = cred[c]
         /\ phase[c] \in Final => phase'[c] = phase[c]
         /\ phase[c] = "posted" => phase'[c] \in {"posted", "succeeded", "unknown"}
         /\ phase'[c] = "succeeded" /\ phase[c] # "succeeded" =>
              TakeAnswer(c) /\ status[c] = 200
<1>1. ASSUME NEW d \in Call, UploadStep(d)
      PROVE  /\ phase' = [phase EXCEPT ![d] = phase'[d]] /\ phase[d] \notin Final
             /\ phase[d] = "posted" => phase'[d] \in {"succeeded", "unknown"}
             /\ phase'[d] = "succeeded" => TakeAnswer(d) /\ status[d] = 200
             /\ cred' = cred \/ (phase[d] = "running" /\ cred' = [cred EXCEPT ![d] = cred'[d]])
  BY <1>1 DEF UploadStep, Begin, Ask, AskInVain, PackFails, Post, PostBreaks, TakeAnswer,
    NoAnswer, Return, Enter, Final, CallInv
<1>2. ASSUME NEW d \in Call, AbortCall(d)
      PROVE  /\ phase' = [phase EXCEPT ![d] = phase'[d]] /\ phase[d] \notin Final
             /\ phase[d] = "posted" => phase'[d] = "unknown"
             /\ phase'[d] # "succeeded"
             /\ cred' = cred
  BY <1>2 DEF AbortCall, Abandoned, Enter, Live, Final, CallInv
<1>3. CASE EndMcp
  BY <1>3 DEF EndMcp, Mcp!EndProcess, Abandoned, CallInv, Live, Final
<1>4. ASSUME \/ \E r \in Request : Redeliver(r)
             \/ ServerStep \/ ServeMcp \/ TurnStdout \/ UNCHANGED allVars
      PROVE  phase' = phase /\ cred' = cred
  BY <1>4 DEF Redeliver, ServerStep, ServeMcp, TurnStdout, allVars, sessionVars
<1> QED
  BY <1>1, <1>2, <1>3, <1>4 DEF SessionNext, CallInv, Final

-----------------------------------------------------------------------------
(***************************************************************************)
(* What reaches the server                                                 *)
(***************************************************************************)

\* A credential under which something was posted remains one.
LEMMA PostedGrows ==
  ASSUME CallInv, [SessionNext]_allVars
  PROVE  Posted \subseteq Posted'
<1> SUFFICES ASSUME NEW c \in Call, phase[c] \in {"posted", "succeeded", "unknown"},
                    cred[c] # Absent
             PROVE  cred[c] \in Posted'
  BY DEF Posted
<1>1. cred'[c] = cred[c] /\ phase'[c] \in {"posted", "succeeded", "unknown"}
  BY CallMoves DEF Final
<1> QED
  BY <1>1 DEF Posted

\* A form changes only when a call posts its own, or when a proxy repeats one.
LEMMA FormMoves ==
  ASSUME [SessionNext]_allVars, TypeOK, CallInv, NEW r \in Request, form'[r] # form[r]
  PROVE  \/ r \in Call /\ Post(r) /\ form'[r].id = cred[r]
         \/ \E c \in Call : form[c] # NoForm /\ form'[r] = form[c]
<1>1. ASSUME NEW c \in Call, UploadStep(c)
      PROVE  r \in Call /\ Post(r) /\ form'[r].id = cred[r]
  <2>1. Post(c)
    BY <1>1 DEF UploadStep, Begin, Ask, AskInVain, PackFails, PostBreaks, RejectMalformed,
      HandleCredential, handlerVars, TakeAnswer, NoAnswer, vars
  <2>2. c = r
    BY <2>1 DEF Post, ReceiveUpload, TypeOK
  <2> QED
    BY <2>1, <2>2 DEF Post
<1>2. ASSUME NEW q \in Request, Redeliver(q)
      PROVE  \E c \in Call : form[c] # NoForm /\ form'[r] = form[c]
  <2>1. PICK f \in Form : form' = [form EXCEPT ![q] = f]
    BY <1>2 DEF Redeliver, ReceiveUpload
  <2>2. q = r /\ form'[r] = f
    BY <2>1 DEF TypeOK
  <2>3. PICK c \in Call : form'[r] = form[c]
    BY <1>2, <2>2 DEF Redeliver
  <2>4. f # NoForm
    <3>1. f.id \in Snapshot
      BY ServerAssumption DEF FormFields
    <3> QED
      BY <3>1, SessionAssumption DEF NoForm
  <2> QED
    BY <2>2, <2>3, <2>4
<1>3. ~ServerStep
  BY DEF ServerStep, HandlerStep, handlerVars, Tick, Restart, Admit, Refuse, MissingFile,
    CreateObject, CreateFails, CopyBody, CopyFails, Discard, StampCallback, UnusableSize,
    Record, RecordAgain, RecordFails, Respond
<1>4. ~ServeMcp /\ ~TurnStdout /\ ~EndMcp /\ ~UNCHANGED allVars /\ \A c \in Call : ~AbortCall(c)
  BY DEF ServeMcp, TurnStdout, EndMcp, AbortCall, allVars, vars
<1> QED
  BY <1>1, <1>2, <1>3, <1>4 DEF SessionNext

\* A new line of the log tells of a request that is being recorded.
LEMMA LineSource ==
  ASSUME TypeOK, FormInv, [Next]_vars, NEW i \in DOMAIN log'
  PROVE  \/ i \in DOMAIN log /\ log'[i] = log[i]
         \/ \E r \in Request : pc[r] = "stored" /\ log'[i].id = form[r].id
<1>1. CASE log' = log
  BY <1>1
<1>2. CASE log' # log
  <2>1. PICK r \in Request : Record(r) \/ RecordFails(r)
    BY <1>2 DEF Next, Arrival, HandlerStep, Tick, HandleCredential, Restart,
      vars, ReceiveUpload, PostObject, ReceiveCallback, RejectMalformed, Admit,
      Refuse, MissingFile, CreateObject, CreateFails, CopyBody, CopyFails,
      Discard, StampCallback, UnusableSize, RecordAgain, Respond
  <2>2. PICK part \in {"line", "unterminated", "fragment"} :
          log' = Append(log, ReceiptOf(r, part))
    BY <1>2, <2>1 DEF Record, RecordFails, FailedWrites
  <2>3. pc[r] = "stored"
    BY <2>1 DEF Record, RecordFails
  <2>4. ReceiptOf(r, part) \in Line /\ ReceiptOf(r, part).id = form[r].id
    BY <2>3, ReceiptTyped DEF ReceiptOf
  <2>5. /\ DOMAIN log' = 1 .. Len(log) + 1 /\ DOMAIN log = 1 .. Len(log) /\ Len(log) \in Nat
        /\ \A j \in 1 .. Len(log) : log'[j] = log[j]
        /\ log'[Len(log) + 1] = ReceiptOf(r, part)
    BY <2>2, <2>4, AppendProperties DEF TypeOK
  <2> QED
    BY <2>3, <2>4, <2>5
<1> QED
  BY <1>1, <1>2

\* Only what a call posted reaches the server and its log.
LEMMA PostStep ==
  ASSUME TypeOK, FormInv, CallInv, PostInv, [SessionNext]_allVars
  PROVE  PostInv'
<1>1. ASSUME NEW r \in Request, form'[r] # NoForm PROVE form'[r].id \in Posted'
  <2>1. CASE form'[r] = form[r]
    BY <1>1, <2>1, PostedGrows DEF PostInv
  <2>2. CASE r \in Call /\ Post(r) /\ form'[r].id = cred[r]
    <3>1. phase'[r] = "posted" /\ cred'[r] = cred[r]
      BY <2>2 DEF Post, Enter, CallInv
    <3>2. cred[r] # Absent
      BY <2>2, <3>1, CallStep DEF CallInv
    <3> QED
      BY <2>2, <3>1, <3>2 DEF Posted
  <2>3. ASSUME NEW c \in Call, form[c] # NoForm, form'[r] = form[c]
        PROVE  form'[r].id \in Posted'
    BY <2>3, PostedGrows, SessionAssumption DEF PostInv
  <2> QED
    BY <2>1, <2>2, <2>3, FormMoves
<1>2. ASSUME NEW i \in DOMAIN log' PROVE log'[i].id \in Posted'
  <2>1. CASE i \in DOMAIN log /\ log'[i] = log[i]
    BY <2>1, PostedGrows DEF PostInv
  <2>2. ASSUME NEW r \in Request, pc[r] = "stored", log'[i].id = form[r].id
        PROVE  log'[i].id \in Posted'
    <3>1. form[r] \in FormFields
      BY <2>2 DEF FormInv, InFlight, Admitted
    <3>2. form[r] # NoForm
      BY <3>1, SessionAssumption DEF FormFields, NoForm
    <3> QED
      BY <2>2, <3>2, PostedGrows DEF PostInv
  <2> QED
    BY <2>1, <2>2, LineSource, SessionIsServed
<1> QED
  BY <1>1, <1>2 DEF PostInv

-----------------------------------------------------------------------------
(***************************************************************************)
(* What is kept                                                            *)
(***************************************************************************)

\* A kept snapshot is logged, stored, and no goroutine's to touch.
LEMMA KeptIsFinished ==
  ASSUME CallInv, NEW c \in Call
  PROVE  Kept(c) <=> cred[c] \in Finished /\ Logged(cred[c])
BY SessionAssumption DEF CallInv, Kept, Finished, Owns

\* So it stays kept.
LEMMA KeptStays ==
  ASSUME IInv, CallInv, [SessionNext]_allVars, NEW c \in Call, Kept(c)
  PROVE  Kept(c)'
<1> USE DEF IInv
<1>1. cred[c] \in Finished /\ cred[c] \in Snapshot /\ Logged(cred[c])
  BY KeptIsFinished DEF Finished
<1>2. cred'[c] = cred[c]
  BY CallMoves DEF Kept
<1>3. [Next]_vars
  BY SessionIsServed
<1>4. cred[c] \in Finished'
  BY <1>1, <1>3, FinishedStays
<1>5. Logged(cred[c])'
  <2>1. \A id \in Snapshot : Logged(id) => Logged(id)'
    BY <1>3, LogGrows, LinesStay
  <2> QED
    BY <1>1, <1>2, <2>1 DEF Logged
<1>6. /\ cred'[c] # Absent
      /\ objects'[cred'[c]] \in Content
      /\ \A r \in Request : pc'[r] \in Writing => form'[r].key # cred'[c]
  BY <1>1, <1>2, <1>4, SessionAssumption DEF Finished, Owns
<1>7. Logged(cred[c])'
  BY <1>2, <1>5
<1> QED
  BY <1>6, <1>7 DEF Kept

\* A call that posted nothing has nothing kept: its credential is its own.
LEMMA UnpostedIsNotKept ==
  ASSUME CallInv, PostInv
  PROVE  UnpostedInv
<1> SUFFICES ASSUME NEW c \in Call, Kept(c),
                    phase[c] \notin {"posted", "succeeded", "unknown"}
             PROVE  FALSE
  BY DEF UnpostedInv
<1>1. cred[c] # Absent /\ Logged(cred[c])
  BY DEF Kept
<1>2. cred[c] \in Posted
  BY <1>1 DEF Logged, PostInv
<1>3. PICK d \in Call : phase[d] \in {"posted", "succeeded", "unknown"} /\ cred[d] = cred[c]
  BY <1>2 DEF Posted
<1> QED
  BY <1>1, <1>3 DEF CallInv

\* Status 200 is an answer to this call's own upload, which is durable.
LEMMA AnsweredIsKept ==
  ASSUME IInv, CallInv, NEW c \in Call, phase[c] = "posted", status[c] = 200
  PROVE  Kept(c)
<1>1. form[c].id \in Backed /\ form[c].id = cred[c]
  BY SessionAssumption DEF IInv, ReceiptInv, CallInv
<1>2. cred[c] \in Finished /\ Logged(cred[c])
  BY <1>1 DEF Backed, LineFor, Logged
<1> QED
  BY <1>2, KeptIsFinished

\* A success is durable when it is reported, and from then on.
LEMMA SuccessStep ==
  ASSUME IInv, CallInv, SuccessInv, [SessionNext]_allVars
  PROVE  SuccessInv'
<1> SUFFICES ASSUME NEW c \in Call, phase'[c] = "succeeded" PROVE Kept(c)'
  BY DEF SuccessInv
<1>1. CASE phase[c] = "succeeded"
  BY <1>1, KeptStays DEF SuccessInv
<1>2. CASE phase[c] # "succeeded"
  <2>1. phase[c] = "posted" /\ status[c] = 200
    BY <1>2, CallMoves DEF TakeAnswer
  <2> QED
    BY <2>1, AnsweredIsKept, KeptStays
<1> QED
  BY <1>1, <1>2

\* The session's inductive invariant holds in every reachable state.
THEOREM SessionInductive == SessionSpec => []SessionInv
<1>1. SessionInit => CallInv /\ PostInv /\ SuccessInv
  <2> SUFFICES ASSUME SessionInit PROVE CallInv /\ PostInv /\ SuccessInv
    OBVIOUS
  <2> USE SessionAssumption DEF SessionInit, Init, Mcp!McpInit
  <2>1. CallInv
    BY DEF CallInv, Final
  <2>2. PostInv
    BY DEF PostInv
  <2>3. SuccessInv
    BY DEF SuccessInv
  <2> QED
    BY <2>1, <2>2, <2>3
<1>2. /\ IInv /\ CallInv /\ PostInv /\ SuccessInv
      /\ [SessionNext]_allVars
      => CallInv' /\ PostInv' /\ SuccessInv'
  BY CallStep, PostStep, SuccessStep DEF IInv
<1>3. SessionSpec => []IInv
  BY SessionUsesServer, Inductive, PTL
<1>4. SessionSpec => []LoopInv
  BY LoopCorrect
<1>5. CallInv /\ PostInv => UnpostedInv
  BY UnpostedIsNotKept
<1> QED
  BY <1>1, <1>2, <1>3, <1>4, <1>5, PTL DEF SessionSpec, SessionInv

\* Acknowledged uploads of a session are durable, whoever retries, repeats or
\* aborts them.
THEOREM SessionAckedIsDurable == SessionSpec => []AckedIsDurable
  BY SessionUsesServer, AckedUploadsAreDurable, PTL

\* An Agent is refused for a reason it can name.
THEOREM SessionRefusedForCause == SessionSpec => []RefusedForCause
  BY SessionUsesServer, RefusalsHaveACause, PTL
-----------------------------------------------------------------------------
(***************************************************************************)
(* The refinement                                                          *)
(***************************************************************************)

\* A step that ends no call: what is kept stays, and nothing of a call that
\* failed comes to be kept.
LEMMA KeepStep ==
  ASSUME SessionInv, SessionInv', [SessionNext]_allVars,
         \A c \in Call : phase[c] \in Final \/ phase'[c] \in Final => phase'[c] = phase[c]
  PROVE  Outcome!Keep
<1> DEFINE kept == {c \in Call : Kept(c)}
           outcome == [c \in Call |-> IF phase[c] \in Final THEN phase[c] ELSE "open"]
<1>1. outcome' = outcome
  OBVIOUS
<1>2. kept \subseteq kept'
  BY KeptStays DEF SessionInv
<1>3. \A c \in kept' : outcome[c] # "failed"
  <2> SUFFICES ASSUME NEW c \in Call, Kept(c)', phase[c] = "failed" PROVE FALSE
    BY DEF Final
  <2>1. phase'[c] = "failed"
    BY DEF Final
  <2>2. ~Kept(c)'
    BY <2>1 DEF SessionInv, UnpostedInv
  <2> QED
    BY <2>2
<1>4. kept' = kept \cup kept' /\ kept' \in SUBSET {c \in Call : outcome[c] # "failed"}
  BY <1>2, <1>3
<1> QED
  BY <1>1, <1>4 DEF Outcome!Keep

\* The end of a call, as an Agent sees it.
LEMMA EndStep ==
  ASSUME SessionInv, [SessionNext]_allVars, NEW c \in Call, NEW verdict \in Final,
         phase[c] \notin Final, phase' = [phase EXCEPT ![c] = verdict], cred' = cred,
         UNCHANGED <<log, objects>>,
         \A r \in Request : form'[r] = form[r] /\ (pc'[r] \in Writing <=> pc[r] \in Writing),
         verdict = "succeeded" => phase[c] = "posted" /\ status[c] = 200,
         verdict = "failed" => phase[c] # "posted"
  PROVE  Outcome!End(c, verdict)
<1> DEFINE outcome == [d \in Call |-> IF phase[d] \in Final THEN phase[d] ELSE "open"]
           kept == {d \in Call : Kept(d)}
<1>1. outcome[c] = "open" /\ outcome' = [outcome EXCEPT ![c] = verdict]
  <2>1. \A d \in Call : phase'[d] = IF d = c THEN verdict ELSE phase[d]
    BY DEF SessionInv, CallInv
  <2>2. \A d \in Call : outcome'[d] = IF d = c THEN verdict ELSE outcome[d]
    BY <2>1
  <2>3. outcome \in [Call -> {outcome[d] : d \in Call}]
    OBVIOUS
  <2> HIDE DEF outcome
  <2>4. [outcome EXCEPT ![c] = verdict] = [d \in Call |-> IF d = c THEN verdict ELSE outcome[d]]
    BY <2>3
  <2>5. outcome' = [d \in Call |-> outcome'[d]]
    BY DEF outcome
  <2>6. outcome' = [outcome EXCEPT ![c] = verdict]
    BY <2>2, <2>4, <2>5
  <2>7. outcome[c] = "open"
    BY DEF outcome
  <2> QED
    BY <2>6, <2>7
<1>2. kept' = kept
  BY DEF Kept, Logged
<1>3. verdict = "succeeded" => Kept(c)
  BY AnsweredIsKept DEF SessionInv
<1>4. verdict = "failed" => ~Kept(c)
  BY DEF SessionInv, UnpostedInv, Final
<1> QED
  BY <1>1, <1>2, <1>3, <1>4 DEF Outcome!End

\* Every step of a session ends at most one call, and says no more than is so.
LEMMA OutcomeStep ==
  ASSUME SessionInv, SessionInv', [SessionNext]_allVars
  PROVE  Outcome!OutcomeNext
<1> USE DEF SessionInv
<1>1. ASSUME NEW c \in Call, NEW verdict \in Final, Return(c, verdict),
             phase[c] \notin Final,
             UNCHANGED vars \/ RejectMalformed(c) \/ \E id \in Snapshot : HandleCredential(id),
             verdict = "succeeded" => phase[c] = "posted" /\ status[c] = 200,
             verdict = "failed" => phase[c] # "posted"
      PROVE  Outcome!OutcomeNext
  <2>1. phase' = [phase EXCEPT ![c] = verdict] /\ cred' = cred
    BY <1>1 DEF Return, Enter
  <2>2. UNCHANGED <<log, objects, form>>
    BY <1>1 DEF RejectMalformed, HandleCredential, handlerVars, vars
  <2>3. \A r \in Request : pc'[r] \in Writing <=> pc[r] \in Writing
    BY <1>1 DEF RejectMalformed, Answer, Goto, HandleCredential, handlerVars, vars, Writing,
      IInv, TypeOK
  <2> QED
    BY <1>1, <2>1, <2>2, <2>3, EndStep DEF Outcome!OutcomeNext, Final
<1>2. ASSUME NEW c \in Call, UploadStep(c) PROVE Outcome!OutcomeNext
  <2>1. CASE AskInVain(c) \/ PackFails(c)
    BY <1>1, <2>1 DEF AskInVain, PackFails, Final
  <2>2. CASE PostBreaks(c) \/ NoAnswer(c)
    BY <1>1, <2>2 DEF PostBreaks, NoAnswer, Final
  <2>3. CASE TakeAnswer(c)
    BY <1>1, <2>3 DEF TakeAnswer, Final
  <2>4. CASE Begin(c) \/ Ask(c) \/ Post(c)
    <3>1. \A d \in Call : phase[d] \in Final \/ phase'[d] \in Final => phase'[d] = phase[d]
      BY <2>4 DEF Begin, Ask, Post, Enter, Final, CallInv
    <3> QED
      BY <3>1, KeepStep DEF Outcome!OutcomeNext
  <2> QED
    BY <1>2, <2>1, <2>2, <2>3, <2>4 DEF UploadStep
<1>3. ASSUME NEW c \in Call, Live(c), phase' = [phase EXCEPT ![c] = Abandoned(c)],
             UNCHANGED <<vars, cred>>
      PROVE  Outcome!OutcomeNext
  <2>1. UNCHANGED <<log, objects, form, pc>>
    BY <1>3 DEF vars
  <2> QED
    BY <1>3, <2>1, EndStep DEF Outcome!OutcomeNext, Abandoned, Live, Final
<1>4. ASSUME NEW c \in Call, AbortCall(c) PROVE Outcome!OutcomeNext
  BY <1>3, <1>4 DEF AbortCall, Enter
<1>5. CASE EndMcp
  <2>1. CASE loop \in Call /\ Live(loop)
    <3>1. phase' = [phase EXCEPT ![loop] = Abandoned(loop)]
      BY <1>5, <2>1 DEF EndMcp, CallInv
    <3> QED
      BY <1>3, <1>5, <2>1, <3>1 DEF EndMcp
  <2>2. CASE ~(loop \in Call /\ Live(loop))
    <3>1. phase' = phase
      BY <1>5, <2>2 DEF EndMcp, CallInv
    <3> QED
      BY <3>1, KeepStep DEF Outcome!OutcomeNext
  <2> QED
    BY <2>1, <2>2
<1>6. ASSUME \/ \E r \in Request : Redeliver(r)
             \/ ServerStep \/ ServeMcp \/ TurnStdout \/ UNCHANGED allVars
      PROVE  Outcome!OutcomeNext
  <2>1. phase' = phase
    BY <1>6 DEF Redeliver, ServerStep, ServeMcp, TurnStdout, sessionVars, allVars
  <2> QED
    BY <2>1, KeepStep DEF Outcome!OutcomeNext
<1> QED
  BY <1>2, <1>4, <1>5, <1>6 DEF SessionNext

\* What an Agent may conclude from the end of a call, whatever is lost, late,
\* repeated, failing or restarted: a success is kept for good, and a failure
\* from before the post leaves nothing and never will.
THEOREM SessionImplementsOutcome == SessionSpec => ImplementsOutcome
<1>1. SessionInit => Outcome!OutcomeInit
  BY DEF SessionInit, Mcp!McpInit, Init, Outcome!OutcomeInit, Kept, Final
<1>2. SessionInv /\ SessionInv' /\ [SessionNext]_allVars
      => [Outcome!OutcomeNext]_(Outcome!outcomeVars)
  BY OutcomeStep
<1> QED
  BY <1>1, <1>2, SessionInductive, PTL DEF SessionSpec, ImplementsOutcome, Outcome!OutcomeSpec
=============================================================================
