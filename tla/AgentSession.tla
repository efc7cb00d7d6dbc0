---------------------------- MODULE AgentSession ----------------------------
(***************************************************************************)
(* Agents, their plugin and the server together, with development storage: *)
(* upload calls come through the MCP server of one Agent or from an        *)
(* extension that starts one process per call, run client.Upload of        *)
(* internal/client/client.go, and end in a request to SnapshotServer.      *)
(*                                                                         *)
(* A call and the one request it posts have the same name.  What the       *)
(* upload does in the repository is AgentUpload's subject: here it takes   *)
(* time and may fail.  Connections break, answers are lost or come after   *)
(* the client has given up, a proxy may deliver a post twice, the server   *)
(* restarts, and the Agent ends processes.                                 *)
(***************************************************************************)
EXTENDS SnapshotServer

CONSTANTS
  Call,     \* upload calls
  Script    \* bound: what an Agent writes to the MCP server

ASSUME SessionAssumption ==
  /\ Call \subseteq Request
  /\ Script \subseteq Seq(Call \cup {"request", "notification", "garbage", "overlong"})
  /\ Call \cap {"request", "notification", "garbage", "overlong", "reading", "ended"} = {}
  /\ Absent \notin Snapshot
  /\ Mode = "development"

VARIABLES
  inbox, asked, replies, loop, stdout,   \* of McpServer
  phase,    \* how far each call is, and how it ended
  cred      \* the snapshot_id of its credential

Mcp == INSTANCE McpServer WITH ToolCall <- Call

mcpVars == <<inbox, asked, replies, loop, stdout>>
sessionVars == <<mcpVars, phase, cred>>
allVars == <<vars, sessionVars>>

\* "failed": an error before anything was posted.  "unknown": one after that.
Final == {"succeeded", "failed", "unknown"}

SessionInit ==
  /\ Init
  /\ Mcp!McpInit
  /\ phase = [c \in Call |-> "idle"]
  /\ cred = [c \in Call |-> Absent]

Enter(c, p) == phase' = [phase EXCEPT ![c] = p]

\* Upload returns; the process of an extension ends with it.
Return(c, verdict) ==
  /\ Enter(c, verdict)
  /\ UNCHANGED <<mcpVars, cred>>
-----------------------------------------------------------------------------
(***************************************************************************)
(* client.Upload                                                           *)
(***************************************************************************)

Waiting(c) == \E i \in DOMAIN inbox : inbox[i] = c

\* The loop takes the call from its line, or an extension starts a process.
Begin(c) ==
  /\ phase[c] = "idle"
  /\ Enter(c, "running")
  /\ Mcp!CallTool(c) \/ (~Waiting(c) /\ UNCHANGED mcpVars)
  /\ UNCHANGED <<vars, cred>>

Ask(c) ==
  /\ phase[c] = "running"
  /\ \E id \in Snapshot :
       HandleCredential(id) /\ cred' = [cred EXCEPT ![c] = id]
  /\ Enter(c, "granted")
  /\ UNCHANGED mcpVars

\* Settings, Inspect, no connection; or the credential is lost on the way.
AskInVain(c) ==
  /\ phase[c] = "running"
  /\ UNCHANGED vars \/ \E id \in Snapshot : HandleCredential(id)
  /\ Return(c, "failed")

\* The credential expired on the way, or Build or EncryptFile fails.
PackFails(c) ==
  /\ phase[c] = "granted"
  /\ Return(c, "failed")
  /\ UNCHANGED vars

\* EncryptFile kept to the credential's MaxSize, which is the server's limit.
Post(c) ==
  /\ phase[c] = "granted"
  /\ ReceiveUpload(c)
  /\ form'[c] = [id |-> cred[c], token |-> cred[c], key |-> cred[c],
                 body |-> form'[c].body]
  /\ form'[c].body \in Content \ Oversize
  /\ Enter(c, "posted")
  /\ UNCHANGED <<mcpVars, cred>>

\* The connection breaks: nothing arrives, or a body that does not parse.
PostBreaks(c) ==
  /\ phase[c] = "granted"
  /\ UNCHANGED vars \/ RejectMalformed(c)
  /\ Return(c, "unknown")

\* Not the code, a mutant: the status is not looked at.
TakeAnyAnswer(c) ==
  /\ phase[c] = "posted"
  /\ pc[c] = "done"
  /\ Return(c, "succeeded")
  /\ UNCHANGED vars

TakeAnswer(c) ==
  /\ phase[c] = "posted"
  /\ pc[c] = "done"
  /\ Return(c, IF status[c] = 200 THEN "succeeded" ELSE "unknown")
  /\ UNCHANGED vars

\* Not the code, a mutant: the client has no timeout.
NoTimeout(c) ==
  /\ phase[c] = "posted"
  /\ pc[c] = "done"
  /\ Return(c, "unknown")
  /\ UNCHANGED vars

\* The connection is lost or the client's timeout ends the wait; whatever the
\* handler is doing goes on.
NoAnswer(c) ==
  /\ phase[c] = "posted"
  /\ Return(c, "unknown")
  /\ UNCHANGED vars

UploadStep(c) ==
  \/ Begin(c) \/ Ask(c) \/ AskInVain(c) \/ PackFails(c)
  \/ Post(c) \/ PostBreaks(c) \/ TakeAnswer(c) \/ NoAnswer(c)
-----------------------------------------------------------------------------
(***************************************************************************)
(* The surroundings                                                        *)
(***************************************************************************)

\* A proxy between plugin and server delivers a post a second time.
Redeliver(r) ==
  /\ r \notin Call
  /\ ReceiveUpload(r)
  /\ \E c \in Call : form'[r] = form[c]
  /\ UNCHANGED sessionVars

ServerStep ==
  /\ Tick \/ Restart \/ \E r \in Request : HandlerStep(r)
  /\ UNCHANGED sessionVars

\* The loop's own work, when it is not inside a call.
ServeMcp ==
  /\ \/ Mcp!ServePlain
     \/ \E c \in Call : phase[c] \in Final /\ Mcp!ReturnTool(c)
  /\ UNCHANGED <<vars, phase, cred>>

TurnStdout == Mcp!TurnStdout /\ UNCHANGED <<vars, phase, cred>>

Live(c) == phase[c] \notin Final \cup {"idle"}

Abandoned(c) == IF phase[c] = "posted" THEN "unknown" ELSE "failed"

\* SIGTERM of the extension: the process of one call ends.
AbortCall(c) ==
  /\ c # loop /\ Live(c)
  /\ Enter(c, Abandoned(c))
  /\ UNCHANGED <<vars, mcpVars, cred>>

\* The MCP server ends, with the call it has in hand.
EndMcp ==
  /\ Mcp!EndProcess
  /\ phase' = [c \in Call |-> IF c = loop /\ Live(c) THEN Abandoned(c) ELSE phase[c]]
  /\ UNCHANGED <<vars, cred>>

SessionNext ==
  \/ \E c \in Call : UploadStep(c) \/ AbortCall(c)
  \/ \E r \in Request : Redeliver(r)
  \/ ServerStep \/ ServeMcp \/ TurnStdout \/ EndMcp

SessionSpec == SessionInit /\ [][SessionNext]_allVars

\* Goroutines and processes that can run are run, and no call waits for ever:
\* the HTTP client gives up after fifteen minutes.  A write that is blocked goes
\* through when the Agent reads, even if it stops again, hence SF.
FairSession ==
  /\ SessionSpec
  /\ \A r \in Request : WF_allVars(HandlerStep(r) /\ UNCHANGED sessionVars)
  /\ \A c \in Call : WF_allVars(UploadStep(c))
  /\ SF_allVars(ServeMcp)
-----------------------------------------------------------------------------
\* The answers of the MCP server match the lines it read, one each, in order,
\* however long a call takes and whatever becomes of its upload.
AnsweredInOrder == Mcp!AnsweredInOrder

\* However long the calls before it take, a line does not wait for ever: again
\* and again nothing is left to read and nothing is in hand, until the MCP
\* server ends.  Only an Agent that has stopped to read its answers for good,
\* and keeps the pipe open, holds the loop up.
LoopCatchesUp ==
  []<>(stdout # "full") => []<>(loop = "ended" \/ (loop = "reading" /\ inbox = << >>))

\* The snapshot of a call is kept when a whole line tells of it and its object
\* is there, out of the hands of every handler.
Kept(c) ==
  /\ cred[c] # Absent
  /\ Logged(cred[c]) /\ objects[cred[c]] \in Content
  /\ \A r \in Request : pc[r] \in Writing => form[r].key # cred[c]

Outcome == INSTANCE UploadOutcome
  WITH outcome <- [c \in Call |-> IF phase[c] \in Final THEN phase[c] ELSE "open"],
       kept <- {c \in Call : Kept(c)}

\* A call that succeeded is kept for good, and one that failed before the post
\* leaves nothing, whatever is lost, repeated, late, failing or restarted.
ImplementsOutcome == Outcome!OutcomeSpec
=============================================================================
