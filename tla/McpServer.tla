----------------------------- MODULE McpServer -----------------------------
(***************************************************************************)
(* The request loop of internal/mcp/server.go.  The Agent writes one       *)
(* JSON-RPC message per line to the process's stdin and reads the answers  *)
(* from its stdout; the loop handles one line at a time, a tool call from  *)
(* beginning to end before the next line is looked at.                     *)
(*                                                                         *)
(* A line is the tool call it carries, or one of the kinds in Plain.  An   *)
(* Agent does not wait for answers, and a line that was not read makes no  *)
(* difference yet: all it will ever write is in the inbox from the start.  *)
(* How long a call takes and how it ends is up to whoever composes this    *)
(* module with the tools.                                                  *)
(***************************************************************************)
EXTENDS Naturals, Sequences, SequencesExt

CONSTANTS
  ToolCall,   \* tools/call requests with an id, each sent at most once
  Script      \* bound: the sequences of lines an Agent writes

\* "request": initialize, ping, tools/list, and whatever is answered with an
\* error without running a tool.  "notification": no id.  "garbage": no JSON.
\* "overlong": more than the scanner's 4 MiB.
Plain == {"request", "notification", "garbage", "overlong"}

VARIABLES
  inbox,     \* lines not read yet
  asked,     \* history: the lines read that are due an answer, oldest first
  replies,   \* what was answered, oldest first: the line each answer is for
  loop,      \* "reading", "ended", or the line in hand that is due an answer
  stdout     \* "open"; "full": the Agent has it open and does not read; "broken"

mcpVars == <<inbox, asked, replies, loop, stdout>>

McpInit ==
  /\ inbox \in Script
  /\ asked = << >>
  /\ replies = << >>
  /\ loop = "reading"
  /\ stdout = "open"

\* The Agent's end of the pipe: it stops to read, reads on, or closes it.
TurnStdout ==
  /\ \/ stdout = "open" /\ stdout' = "full"
     \/ stdout = "full" /\ stdout' = "open"
     \/ stdout # "broken" /\ stdout' = "broken"
  /\ UNCHANGED <<inbox, asked, replies, loop>>

\* scanner.Scan returns the next line: a request, a call and a line that does
\* not parse are due an answer, a notification is not.
Scan(line) ==
  /\ loop = "reading"
  /\ inbox # << >> /\ line = Head(inbox)
  /\ inbox' = Tail(inbox)
  /\ asked' = IF line = "notification" THEN asked ELSE Append(asked, line)
  /\ UNCHANGED stdout

\* A line that is due an answer stays in hand until that is written.
Take(line) ==
  /\ Scan(line)
  /\ loop' = line
  /\ UNCHANGED replies

\* encoder.Encode of an answer: an error of it ends Serve, and a pipe that is
\* full blocks it until the Agent reads on.
Reply(line) ==
  \/ /\ stdout = "open"
     /\ replies' = Append(replies, line)
     /\ loop' = "reading"
  \/ /\ stdout = "broken"
     /\ loop' = "ended"
     /\ UNCHANGED replies

TakeGarbage == Take("garbage")

\* The one answer whose error is ignored: the loop goes on.
ParseError ==
  /\ loop = "garbage"
  /\ stdout # "full"
  /\ replies' = IF stdout = "open" THEN Append(replies, "garbage") ELSE replies
  /\ loop' = "reading"
  /\ UNCHANGED <<inbox, asked, stdout>>

\* Not the code, a mutant: notifications are answered like requests.
AnswerNotification == Scan("notification") /\ Reply("notification")

\* No id: the line is skipped before dispatch, whatever method it names.
SkipNotification ==
  /\ Scan("notification")
  /\ UNCHANGED <<replies, loop>>

TakeRequest == Take("request")

\* What needs no tool is dispatched at once.
AnswerRequest ==
  /\ loop = "request"
  /\ Reply("request")
  /\ UNCHANGED <<inbox, asked, stdout>>

CallTool(call) == call \in ToolCall /\ Take(call)

\* The tool has returned, with a result or an error: both are answers.
ReturnTool(call) ==
  /\ loop = call
  /\ Reply(call)
  /\ UNCHANGED <<inbox, asked, stdout>>

\* scanner.Err: the process ends, and with it all that was not read.
ScanFails ==
  /\ loop = "reading"
  /\ inbox # << >> /\ Head(inbox) = "overlong"
  /\ loop' = "ended"
  /\ UNCHANGED <<inbox, asked, replies, stdout>>

ServePlain ==
  \/ TakeGarbage \/ ParseError \/ SkipNotification
  \/ TakeRequest \/ AnswerRequest \/ ScanFails

\* The Agent ends the process, a line in hand or not.
EndProcess ==
  /\ loop # "ended"
  /\ loop' = "ended"
  /\ UNCHANGED <<inbox, asked, replies, stdout>>
-----------------------------------------------------------------------------
\* Every line with an id that was read, and every line that does not parse,
\* has one answer, in the order they were read; the only one that may miss is
\* that of the line in hand, and those that found stdout broken.
AnsweredInOrder ==
  /\ IsPrefix(replies, asked)
  /\ stdout # "broken" /\ loop = "reading" => replies = asked
  /\ Len(replies) = Len(asked) => loop \in {"reading", "ended"}
=============================================================================
