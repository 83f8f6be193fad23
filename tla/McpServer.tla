------------------------------- MODULE McpServer -------------------------------
(***************************************************************************)
(* The MCP server on standard input and output: serve_stdio and MCPSession *)
(* in api/mcp_server.py.  A client writes requests, one a line.  A thread, *)
(* feed, hands every line to an asyncio.StreamReader; the event loop's one *)
(* task reads a line, handles it to the end, answers, and reads the next.  *)
(*                                                                         *)
(* The thread calls feed_data, which is written for the loop's own thread: *)
(* it extends the buffer and, if the task waits for data, completes the    *)
(* future it waits for, which queues the task's wake-up (loop.call_soon)   *)
(* but does not interrupt a loop that sleeps in select().  Three things    *)
(* interrupt it: the end of feed (call_soon_threadsafe), the exit of a     *)
(* child process, and the hour's limit on a read.                          *)
(***************************************************************************)
EXTENDS Naturals, Sequences

CONSTANT MaxRequests   \* the client's lines

ASSUME MaxAssumption == MaxRequests \in Nat

\* What a line asks for.  "query" is initialize, tools/list, ping or a method the
\* server does not know; "broken" is JSON that is not an object, or too long a line.
Kinds == {"initialized", "garbage", "broken", "query", "file", "http", "engine", "shell", "code", "goal"}
Unanswered == {"initialized", "garbage", "broken"}

VARIABLES
  asked,     \* the lines the client has written
  open,      \* standard input is open
  feeder,    \* the thread: waits for a line, is about to wake the task, has ended
  fed,       \* lines in the reader so far
  taken,     \* lines the task has read
  at,        \* where the task is; "idle" and "select" are the loop's, while it waits;
             \* "unwritten" is the end of a server that could not write an answer
  waiter,    \* reader._waiter is set
  ready,     \* the task's wake-up is in loop._ready
  woken,     \* select() has something to return for
  strays,    \* processes left running by tools that gave up
  answered,  \* the lines answered, in order
  slipped    \* history: a line was fed between a look at the buffer and the wait

client == <<asked, open>>
vars == <<asked, open, feeder, fed, taken, at, waiter, ready, woken, strays, answered, slipped>>

TypeOK ==
  /\ asked \in Seq(Kinds) /\ Len(asked) <= MaxRequests /\ open \in BOOLEAN
  /\ feeder \in {"reading", "waking", "ended"}
  /\ taken \in 0..fed /\ fed \in 0..Len(asked)
  /\ at \in {"look", "arm", "idle", "select", "handle", "tool", "unwritten", "ended"}
  /\ {waiter, ready, woken, slipped} \subseteq BOOLEAN
  /\ strays \in 0..Len(asked)
  /\ answered \in Seq(1..MaxRequests)

Init ==
  /\ asked = <<>> /\ open = TRUE
  /\ feeder = "reading" /\ fed = 0 /\ taken = 0
  /\ at = "look" /\ waiter = FALSE /\ ready = FALSE /\ woken = FALSE
  /\ strays = 0 /\ answered = <<>> /\ slipped = FALSE

(***************************************************************************)
(* The client.                                                             *)
(***************************************************************************)
Send(k) ==
  /\ open /\ Len(asked) < MaxRequests
  /\ asked' = Append(asked, k)
  /\ UNCHANGED <<open, feeder, fed, taken, at, waiter, ready, woken, strays, answered, slipped>>

Close ==
  /\ open
  /\ open' = FALSE
  /\ UNCHANGED <<asked, feeder, fed, taken, at, waiter, ready, woken, strays, answered, slipped>>

(***************************************************************************)
(* The thread.  feed_data is two steps beside the loop's: the buffer, then *)
(* the waiter.  Nobody calls feed_eof: the task is not told of the end.    *)
(***************************************************************************)
Feed ==
  /\ feeder = "reading" /\ fed < Len(asked)
  /\ fed' = fed + 1
  /\ feeder' = "waking"
  /\ UNCHANGED <<asked, open, taken, at, waiter, ready, woken, strays, answered, slipped>>

\* Mutant: feed_data forgets to wake the task.
FeedWakesNobody ==
  /\ feeder = "waking"
  /\ feeder' = "reading"
  /\ waiter' = FALSE
  /\ slipped' = (slipped \/ at = "arm")
  /\ UNCHANGED <<asked, open, fed, taken, at, ready, woken, strays, answered>>

FeedWakes ==
  /\ feeder = "waking"
  /\ feeder' = "reading"
  /\ waiter' = FALSE
  /\ ready' = (ready \/ waiter)
  /\ slipped' = (slipped \/ at = "arm")
  /\ UNCHANGED <<asked, open, fed, taken, at, woken, strays, answered>>

FeedEnds ==
  /\ feeder = "reading" /\ fed = Len(asked) /\ ~open
  /\ feeder' = "ended"
  /\ woken' = TRUE
  /\ UNCHANGED <<asked, open, fed, taken, at, waiter, ready, strays, answered, slipped>>

(***************************************************************************)
(* The task reads: readline looks into the buffer, then makes a waiter.    *)
(***************************************************************************)
LineFound ==
  /\ at = "look" /\ taken < fed
  /\ taken' = taken + 1
  /\ at' = "handle"
  /\ slipped' = FALSE
  /\ UNCHANGED <<asked, open, feeder, fed, waiter, ready, woken, strays, answered>>

\* Mutant: The server waits for data before it looks into the buffer.
NoLineUnlessFirst ==
  /\ at = "look" /\ (taken = fed \/ taken > 0)
  /\ at' = "arm"
  /\ slipped' = FALSE
  /\ UNCHANGED <<asked, open, feeder, fed, taken, waiter, ready, woken, strays, answered>>

NoLine ==
  /\ at = "look" /\ taken = fed
  /\ at' = "arm"
  /\ slipped' = FALSE
  /\ UNCHANGED <<asked, open, feeder, fed, taken, waiter, ready, woken, strays, answered>>

Arm ==
  /\ at = "arm"
  /\ waiter' = TRUE
  /\ at' = "idle"
  /\ UNCHANGED <<asked, open, feeder, fed, taken, ready, woken, strays, answered, slipped>>

(***************************************************************************)
(* The loop turns: it runs what is ready, or sleeps until something it     *)
(* selects on happens or the hour is over.  When both have happened the    *)
(* wake-up runs first, and the read ends in time.                          *)
(***************************************************************************)
Resume ==
  /\ at = "idle" /\ ready
  /\ ready' = FALSE
  /\ at' = "look"
  /\ UNCHANGED <<asked, open, feeder, fed, taken, waiter, woken, strays, answered, slipped>>

Sleep ==
  /\ at = "idle" /\ ~ready
  /\ at' = "select"
  /\ UNCHANGED <<asked, open, feeder, fed, taken, waiter, ready, woken, strays, answered, slipped>>

Interrupted ==
  /\ at = "select" /\ woken
  /\ woken' = FALSE
  /\ at' = "idle"
  /\ UNCHANGED <<asked, open, feeder, fed, taken, waiter, ready, strays, answered, slipped>>

\* asyncio.TimeoutError: the server ends.
Hour ==
  /\ at = "select"
  /\ at' = IF ready THEN "look" ELSE "ended"
  /\ ready' = FALSE
  /\ waiter' = FALSE
  /\ UNCHANGED <<asked, open, feeder, fed, taken, woken, strays, answered, slipped>>

Reads == LineFound \/ NoLine \/ Arm \/ Resume \/ Sleep \/ Interrupted

(***************************************************************************)
(* The task handles the line it has read.                                  *)
(***************************************************************************)
Request == asked[taken]

Handling == UNCHANGED <<asked, open, feeder, fed, taken, waiter, ready, slipped>>

Answers ==
  /\ answered' = Append(answered, taken)
  /\ at' = "look"
  /\ Handling

\* "notifications/initialized", and a line that is no JSON.
Ignore ==
  /\ at = "handle" /\ Request \in {"initialized", "garbage"}
  /\ at' = "look"
  /\ Handling /\ UNCHANGED <<woken, strays, answered>>

\* Any other exception leaves the loop of serve_stdio.
Break ==
  /\ at = "handle" /\ Request = "broken"
  /\ at' = "ended"
  /\ Handling /\ UNCHANGED <<woken, strays, answered>>

HandleRequest == at = "handle" /\ Request = "query" /\ Answers /\ UNCHANGED <<woken, strays>>

FileTool == at = "handle" /\ Request = "file" /\ Answers /\ UNCHANGED <<woken, strays>>

\* urlopen blocks the loop's thread for up to ten seconds; feed goes on meanwhile.
HttpTool == at = "handle" /\ Request = "http" /\ Answers /\ UNCHANGED <<woken, strays>>

\* recall, remember and search_entities are coroutine functions called without
\* await: nothing is looked up or stored, and the answer is made all the same.
EngineTool == at = "handle" /\ Request = "engine" /\ Answers /\ UNCHANGED <<woken, strays>>

\* The command is dangerous, the language unknown, the orchestrator missing, or
\* the process cannot be started.
Refuse ==
  /\ at = "handle" /\ Request \in {"shell", "code", "goal"}
  /\ Answers /\ UNCHANGED <<woken, strays>>

Launch ==
  /\ at = "handle" /\ Request \in {"shell", "code", "goal"}
  /\ at' = "tool"
  /\ Handling /\ UNCHANGED <<woken, strays, answered>>

ToolEnds == at = "tool" /\ Answers /\ UNCHANGED <<woken, strays>>

\* Mutant: A tool given up ends without an answer.
ToolTimesOutSilently ==
  /\ at = "tool" /\ Request \in {"shell", "code"}
  /\ strays' = strays + 1
  /\ at' = "look"
  /\ Handling /\ UNCHANGED <<woken, answered>>

\* wait_for gives the process up after thirty seconds and does not kill it.
ToolTimesOut ==
  /\ at = "tool" /\ Request \in {"shell", "code"}
  /\ strays' = strays + 1
  /\ Answers /\ UNCHANGED woken

StrayExits ==
  /\ strays > 0
  /\ strays' = strays - 1
  /\ woken' = TRUE
  /\ UNCHANGED <<asked, open, feeder, fed, taken, at, waiter, ready, answered, slipped>>

\* The client does not read any more: the write of the answer raises, which leaves the
\* loop of serve_stdio as well.  (A process given up just before is not counted.)
WriteFails ==
  /\ at \in {"handle", "tool"} /\ Request \notin Unanswered
  /\ at' = "unwritten"
  /\ Handling /\ UNCHANGED <<woken, strays, answered>>

\* A process inherits standard input: what it reads of it, the thread never sees.
Swallow ==
  /\ strays > 0 \/ at = "tool"
  /\ fed < Len(asked)
  /\ asked' = SubSeq(asked, 1, fed) \o SubSeq(asked, fed + 2, Len(asked))
  /\ UNCHANGED <<open, feeder, fed, taken, at, waiter, ready, woken, strays, answered, slipped>>

Handles ==
  \/ Ignore \/ Break \/ HandleRequest \/ FileTool \/ HttpTool \/ EngineTool
  \/ Refuse \/ Launch \/ ToolEnds \/ ToolTimesOut \/ WriteFails

Next ==
  \/ \E k \in Kinds : Send(k)
  \/ Close
  \/ Feed \/ FeedWakes \/ FeedEnds
  \/ Reads \/ Hour \/ Handles \/ StrayExits \/ Swallow

Spec == Init /\ [][Next]_vars

(***************************************************************************)
(* The thread and the loop run when they can; a tool ends or is given up.  *)
(* No fairness of Hour: an hour's wait is no progress anybody counts on.   *)
(* None of Interrupted alone either: select returns when it is woken.      *)
(***************************************************************************)
FairSpec ==
  /\ Spec
  /\ WF_vars(Feed) /\ WF_vars(FeedWakes) /\ WF_vars(FeedEnds)
  /\ WF_vars(Reads) /\ WF_vars(Handles)

--------------------------------------------------------------------------------
(***************************************************************************)
(* Properties                                                              *)
(***************************************************************************)
\* The answers are exactly those due to the lines read so far, each once and in
\* the order of the lines, whatever tools end, are refused or given up
\* (handle_request, _execute_tool).
AnsweredInOrder ==
  LET Handled == IF at \in {"handle", "tool", "unwritten"} THEN taken - 1 ELSE taken
      Due == {i \in 1..Handled : asked[i] \notin Unanswered}
  IN  /\ {answered[k] : k \in DOMAIN answered} = Due
      /\ \A j, k \in DOMAIN answered : j < k => answered[j] < answered[k]

\* A line may lie unread before a loop that sleeps with nothing to wake it only if
\* it was fed in the moment between readline's look and its wait; any other has at
\* least queued the task's wake-up, so the hour's end finds it (feed).
OnlyTheGapStrands ==
  at = "select" /\ taken < fed /\ feeder # "waking" => ready \/ slipped

BrokenOff == at = "unwritten" \/ (at = "ended" /\ taken > 0 /\ Request = "broken")

\* What is fed while the server is busy with an earlier request is read, unless an
\* earlier line or its answer breaks the server: nobody has to wait for the hour's end.
BusyLosesNothing ==
  \A n \in 1..MaxRequests :
    (n <= fed /\ at \in {"handle", "tool"}) ~> (n <= taken \/ BrokenOff)

\* The loop never sleeps over a request it has been given.
SleepsOnlyWithoutWork == at = "select" /\ taken < fed /\ feeder # "waking" => woken
================================================================================
