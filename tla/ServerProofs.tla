---------------------------- MODULE ServerProofs ----------------------------
(***************************************************************************)
(* Theorems about the two servers that are one event loop each.            *)
(*                                                                         *)
(* McpServer, for any number of lines: what the thread and the event loop  *)
(* do to each other without a lock between them strands no line but in the *)
(* gap between readline's look and its wait, and whatever tools do, the    *)
(* answers are those due to the lines read, in their order.  Behind the    *)
(* first is that a task which waits has a waiter for the thread to         *)
(* complete, or has been queued already; behind the second how far the     *)
(* task has come with the lines, at each place it can be.                  *)
(*                                                                         *)
(* LiveHub, for any connections, solvers, sessions, panels and executions: *)
(* a broadcast over a list that changes under it repeats nobody and misses *)
(* only as many as have left, and panels show their session, as far as the *)
(* updates and counts of other sessions leave them to.  Behind the first   *)
(* is that a broadcast has sent to exactly as many as its position says;   *)
(* behind the second that every panel online is connected and so told of   *)
(* each change, and that a session's status is that of its last update.    *)
(***************************************************************************)
EXTENDS McpServer, LiveHub, SequenceTheorems, FiniteSetTheorems, TLAPS

-----------------------------------------------------------------------------
(* McpServer: the hand-over *)

\* A line is in the buffer and the thread has done what it does for it.
Unread == taken < fed /\ feeder # "waking"

HandOver ==
  /\ fed \in Nat /\ taken \in Nat /\ taken <= fed
  /\ waiter \in BOOLEAN /\ ready \in BOOLEAN /\ slipped \in BOOLEAN
  /\ at = "arm" /\ Unread => slipped
  /\ at \in {"idle", "select"} => waiter \/ ready
  /\ at \in {"idle", "select"} /\ Unread => ready \/ slipped

LEMMA InitEstablishes == Init => HandOver
  <1> SUFFICES ASSUME Init
               PROVE  HandOver
    OBVIOUS
  <1>1. fed = 0 /\ taken = 0
    BY DEF Init
  <1>2. waiter = FALSE /\ ready = FALSE /\ slipped = FALSE
    BY DEF Init
  <1>3. at = "look" /\ ~Unread
    BY <1>1 DEF Init, Unread
  <1>4. waiter \in BOOLEAN /\ ready \in BOOLEAN /\ slipped \in BOOLEAN
    BY <1>2, Zenon
  <1> QED
    BY <1>1, <1>3, <1>4 DEF HandOver

\* The thread's steps.
LEMMA FeedingKeeps ==
  ASSUME HandOver, Feed \/ FeedWakes \/ FeedEnds
  PROVE  HandOver'
  <1>1. CASE Feed
    BY <1>1 DEF Feed, HandOver, Unread
  <1>2. CASE FeedWakes
    <2>1. at' = at /\ fed' = fed /\ taken' = taken /\ feeder' = "reading"
          /\ ready' = (ready \/ waiter) /\ slipped' = (slipped \/ at = "arm") /\ waiter' = FALSE
      BY <1>2 DEF FeedWakes
    <2>2. ready' \in BOOLEAN /\ slipped' \in BOOLEAN /\ (at = "arm" => slipped')
          /\ (waiter \/ ready => ready')
      BY <2>1, Zenon
    <2> QED
      BY <2>1, <2>2 DEF HandOver, Unread
  <1>3. CASE FeedEnds
    BY <1>3 DEF FeedEnds, HandOver, Unread
  <1> QED
    BY <1>1, <1>2, <1>3

\* The steps of the task that reads, and of the loop under it.
LEMMA ReadingKeeps ==
  ASSUME HandOver, Reads \/ Hour
  PROVE  HandOver'
  <1>1. CASE LineFound
    <2>1. at' = "handle" /\ fed' = fed /\ taken' = taken + 1 /\ taken < fed
          /\ waiter' = waiter /\ ready' = ready
      BY <1>1 DEF LineFound
    <2>2. slipped' \in BOOLEAN
      BY <1>1, Zenon DEF LineFound
    <2> QED
      BY <2>1, <2>2 DEF HandOver
  <1>2. CASE NoLine
    <2>1. at' = "arm" /\ taken = fed /\ UNCHANGED <<fed, taken, waiter, ready>>
      BY <1>2 DEF NoLine
    <2>2. slipped' \in BOOLEAN
      BY <1>2, Zenon DEF NoLine
    <2> QED
      BY <2>1, <2>2 DEF HandOver, Unread
  <1>3. CASE Arm
    BY <1>3 DEF Arm, HandOver, Unread
  <1>4. CASE Resume \/ Sleep \/ Interrupted
    BY <1>4 DEF Resume, Sleep, Interrupted, HandOver, Unread
  <1>5. CASE Hour
    BY <1>5 DEF Hour, HandOver, Unread
  <1> QED
    BY <1>1, <1>2, <1>3, <1>4, <1>5 DEF Reads

\* Handling a line ends with a look at the buffer; it arms nothing.
LEMMA HandlingKeeps ==
  ASSUME HandOver, Handles
  PROVE  HandOver'
  <1>1. UNCHANGED <<feeder, fed, taken, waiter, ready, slipped>>
    BY DEF Handles, Handling, Answers, Ignore, Break, HandleRequest, FileTool, HttpTool,
           EngineTool, Refuse, Launch, ToolEnds, ToolTimesOut, WriteFails
  <1>2. at' \in {"look", "tool", "unwritten", "ended"}
    BY DEF Handles, Answers, Ignore, Break, HandleRequest, FileTool, HttpTool,
           EngineTool, Refuse, Launch, ToolEnds, ToolTimesOut, WriteFails
  <1> QED
    BY <1>1, <1>2 DEF HandOver, Unread

LEMMA OthersKeep ==
  ASSUME HandOver,
         (\E k \in Kinds : Send(k)) \/ Close \/ StrayExits \/ Swallow \/ UNCHANGED vars
  PROVE  HandOver'
  <1>1. UNCHANGED <<at, feeder, fed, taken, waiter, ready, slipped>>
    BY DEF Send, Close, StrayExits, Swallow, vars
  <1> QED
    BY <1>1 DEF HandOver, Unread

LEMMA NextKeeps == HandOver /\ [Next]_vars => HandOver'
  BY FeedingKeeps, ReadingKeeps, HandlingKeeps, OthersKeep DEF Next

\* A loop that sleeps over an unread line has the task's wake-up queued, or the line
\* came in the gap (feed, asyncio.StreamReader.readline).
THEOREM StrandedOnlyInTheGap == Spec => []OnlyTheGapStrands
  <1>1. HandOver => OnlyTheGapStrands
    BY DEF HandOver, Unread, OnlyTheGapStrands
  <1> QED
    BY <1>1, InitEstablishes, NextKeeps, PTL DEF Spec
--------------------------------------------------------------------------------
(* The answers *)

\* The lines the task is done with.
Handled == IF at \in {"handle", "tool", "unwritten"} THEN taken - 1 ELSE taken

Due(i) == i \in 1..Handled /\ asked[i] \notin Unanswered

Increasing(s) == \A j, k \in DOMAIN s : j < k => s[j] < s[k]

Counts ==
  /\ asked \in Seq(Kinds) /\ Len(asked) <= MaxRequests
  /\ fed \in 0..Len(asked) /\ taken \in 0..fed
  /\ feeder \in {"reading", "waking", "ended"}
  /\ at \in {"look", "arm", "idle", "select", "handle", "tool", "unwritten", "ended"}
  /\ at \in {"handle", "tool", "unwritten"} => taken >= 1
  /\ at = "tool" => Request \in {"shell", "code", "goal"}
  /\ strays \in 0..Handled

Given ==
  /\ answered \in Seq(1..MaxRequests)
  /\ \A k \in DOMAIN answered : Due(answered[k])
  /\ \A i \in 1..Handled : asked[i] \notin Unanswered => \E k \in DOMAIN answered : answered[k] = i
  /\ Increasing(answered)

Answered == Counts /\ Given

LEMMA Numbers ==
  ASSUME Counts
  PROVE  /\ Len(asked) \in Nat /\ MaxRequests \in Nat /\ DOMAIN asked = 1..Len(asked)
         /\ fed \in Nat /\ taken \in Nat /\ Handled \in Nat /\ strays \in Nat
         /\ taken <= fed /\ fed <= Len(asked) /\ Handled <= taken /\ strays <= Handled
         /\ Len(asked) <= MaxRequests
  <1>1. Len(asked) \in Nat /\ MaxRequests \in Nat /\ DOMAIN asked = 1..Len(asked)
    BY MaxAssumption DEF MaxAssumption, Counts
  <1> QED
    BY <1>1 DEF Counts, Handled

\* What leaves the lines, the answers and how far they go leaves all of it.
LEMMA QuietKeeps ==
  ASSUME Answered, UNCHANGED <<asked, answered, strays>>,
         fed' \in 0..Len(asked), taken' \in 0..fed',
         feeder' \in {"reading", "waking", "ended"},
         Handled' = Handled,
         \/ at' = at /\ taken' = taken
         \/ at' \in {"look", "arm", "idle", "select", "ended"}
         \/ at' = "handle" /\ taken' >= 1
         \/ at' = "unwritten" /\ taken' >= 1
         \/ at' = "tool" /\ at = "handle" /\ taken' = taken /\ Request \in {"shell", "code", "goal"}
  PROVE  Answered'
  <1>1. Counts'
    BY DEF Answered, Counts, Request
  <1>2. Given'
    BY DEF Answered, Given, Due
  <1> QED
    BY <1>1, <1>2 DEF Answered

LEMMA LoopKeepsAnswers ==
  ASSUME Answered, Close \/ Feed \/ FeedWakes \/ FeedEnds \/ Reads \/ Hour \/ Launch
                   \/ WriteFails \/ UNCHANGED vars
  PROVE  Answered'
  <1> USE Numbers DEF Answered
  <1>1. at \in {"look", "arm", "idle", "select", "handle", "tool", "unwritten", "ended"}
        /\ feeder \in {"reading", "waking", "ended"}
    BY DEF Counts
  <1>2. CASE Close \/ FeedWakes \/ FeedEnds \/ UNCHANGED vars
    <2>1. UNCHANGED <<asked, answered, strays, fed, taken, at>>
          /\ feeder' \in {"reading", "waking", "ended"}
      BY <1>1, <1>2 DEF Close, FeedWakes, FeedEnds, vars
    <2>2. Handled' = Handled
      BY <2>1 DEF Handled
    <2> QED
      BY <2>1, <2>2, QuietKeeps
  <1>3. CASE Feed
    <2>1. UNCHANGED <<asked, answered, strays, taken, at>> /\ fed' = fed + 1 /\ fed < Len(asked)
          /\ feeder' = "waking"
      BY <1>3 DEF Feed
    <2>2. Handled' = Handled /\ fed' \in 0..Len(asked) /\ taken' \in 0..fed'
      BY <2>1 DEF Handled
    <2> QED
      BY <2>1, <2>2, QuietKeeps
  <1>4. CASE LineFound
    <2>1. UNCHANGED <<asked, answered, strays, fed, feeder>> /\ at = "look" /\ at' = "handle"
          /\ taken' = taken + 1 /\ taken < fed
      BY <1>4 DEF LineFound
    <2>2. Handled' = Handled /\ taken' \in 0..fed' /\ taken' >= 1
      BY <2>1 DEF Handled
    <2> QED
      BY <1>1, <2>1, <2>2, QuietKeeps
  <1>5. CASE NoLine \/ Arm \/ Resume \/ Sleep \/ Interrupted \/ Hour
    <2>1. UNCHANGED <<asked, answered, strays, fed, feeder, taken>>
          /\ at \in {"look", "arm", "idle", "select"}
          /\ at' \in {"look", "arm", "idle", "select", "ended"}
      BY <1>5 DEF NoLine, Arm, Resume, Sleep, Interrupted, Hour
    <2>2. Handled' = Handled
      BY <2>1 DEF Handled
    <2> QED
      BY <1>1, <2>1, <2>2, QuietKeeps
  <1>6. CASE Launch
    <2>1. UNCHANGED <<asked, answered, strays, fed, feeder, taken>>
          /\ at = "handle" /\ at' = "tool" /\ Request \in {"shell", "code", "goal"}
      BY <1>6 DEF Launch, Handling
    <2>2. Handled' = Handled
      BY <2>1 DEF Handled
    <2> QED
      BY <1>1, <2>1, <2>2, QuietKeeps
  <1>7. CASE WriteFails
    <2>1. UNCHANGED <<asked, answered, strays, fed, feeder, taken>>
          /\ at \in {"handle", "tool"} /\ at' = "unwritten"
      BY <1>7 DEF WriteFails, Handling
    <2>2. Handled' = Handled /\ taken' >= 1
      BY <2>1 DEF Handled, Counts
    <2> QED
      BY <1>1, <2>1, <2>2, QuietKeeps
  <1> QED
    BY <1>2, <1>3, <1>4, <1>5, <1>6, <1>7 DEF Reads

LEMMA SendKeepsAnswers ==
  ASSUME Answered, NEW k \in Kinds, Send(k)
  PROVE  Answered'
  <1> USE Numbers DEF Answered
  <1>1. /\ asked' = Append(asked, k) /\ Len(asked) < MaxRequests /\ asked \in Seq(Kinds)
        /\ UNCHANGED <<fed, feeder, taken, at, strays, answered>>
    BY DEF Send, Counts
  <1>2. /\ asked' \in Seq(Kinds) /\ Len(asked') = Len(asked) + 1
        /\ \A i \in 1..Len(asked) : asked'[i] = asked[i]
    BY <1>1, AppendProperties
  <1>3. Handled' = Handled /\ \A i \in 1..Handled : asked'[i] = asked[i]
    BY <1>1, <1>2 DEF Handled
  <1>4. taken >= 1 => Request' = Request
    BY <1>1, <1>2 DEF Request
  <1>5. Counts'
    BY <1>1, <1>2, <1>3, <1>4 DEF Counts
  <1>6. Given'
    BY <1>1, <1>3 DEF Given, Due
  <1> QED
    BY <1>5, <1>6

\* What a process swallows is a line after those fed.
LEMMA SwallowKeepsAnswers ==
  ASSUME Answered, Swallow
  PROVE  Answered'
  <1> USE Numbers DEF Answered
  <1> DEFINE before == SubSeq(asked, 1, fed)
             after == SubSeq(asked, fed + 2, Len(asked))
  <1>1. /\ asked' = before \o after /\ fed < Len(asked) /\ asked \in Seq(Kinds)
        /\ UNCHANGED <<fed, feeder, taken, at, strays, answered>>
    BY DEF Swallow, Counts
  <1>2. /\ before \in Seq(Kinds) /\ Len(before) = fed
        /\ \A i \in 1..fed : before[i] = asked[i]
    BY <1>1, SubSeqProperties
  <1>3. after \in Seq(Kinds) /\ Len(after) = Len(asked) - (fed + 1)
    BY <1>1, SubSeqProperties
  <1> HIDE DEF before, after
  <1>4. /\ asked' \in Seq(Kinds) /\ Len(asked') = Len(asked) - 1
        /\ \A i \in 1..fed : asked'[i] = asked[i]
    <2>1. /\ before \o after \in Seq(Kinds)
          /\ Len(before \o after) = Len(before) + Len(after)
          /\ \A i \in 1..Len(before) + Len(after) :
               (before \o after)[i] = IF i <= Len(before) THEN before[i] ELSE after[i - Len(before)]
      BY <1>2, <1>3, ConcatProperties
    <2>2. /\ asked' \in Seq(Kinds) /\ Len(asked') = Len(before) + Len(after)
          /\ \A i \in 1..Len(before) + Len(after) :
               asked'[i] = IF i <= Len(before) THEN before[i] ELSE after[i - Len(before)]
      BY <1>1, <2>1
    <2>3. Len(before) = fed /\ Len(after) = Len(asked) - (fed + 1)
      BY <1>2, <1>3
    <2>4. \A i \in 1..fed : i \in 1..Len(before) + Len(after) /\ i <= Len(before)
      BY <1>1, <2>3
    <2>5. Len(asked') = Len(asked) - 1
      BY <1>1, <2>2, <2>3
    <2> QED
      BY <1>2, <2>2, <2>4, <2>5
  <1>5. Handled' = Handled /\ \A i \in 1..Handled : asked'[i] = asked[i]
    <2>1. Handled' = Handled
      BY <1>1 DEF Handled
    <2>2. \A i \in 1..Handled : i \in 1..fed
      BY <1>1
    <2> QED
      BY <1>4, <2>1, <2>2
  <1>6. taken >= 1 => Request' = Request
    BY <1>1, <1>4 DEF Request
  <1>7. Counts'
    BY <1>1, <1>4, <1>5, <1>6 DEF Counts
  <1>8. Given'
    BY <1>1, <1>5 DEF Given, Due
  <1> QED
    BY <1>7, <1>8

\* The task is done with the line it has read: it answers, or the line has no answer.
LEMMA DoneKeeps ==
  ASSUME Answered, at \in {"handle", "tool"}, at' \in {"look", "ended"},
         UNCHANGED <<asked, fed, feeder, taken>>, strays' \in {strays, strays + 1},
         \/ answered' = Append(answered, taken) /\ Request \notin Unanswered
         \/ answered' = answered /\ Request \in Unanswered
  PROVE  Answered'
  <1> USE Numbers DEF Answered
  <1>1. taken \in 1..MaxRequests /\ Handled = taken - 1 /\ Handled' = Handled + 1 /\ Handled' = taken
    BY DEF Counts, Handled
  <1>2. Counts'
    BY <1>1 DEF Counts
  <1>3. \A i \in 1..Handled' : i \in 1..Handled \/ i = taken
    BY <1>1
  <1>4. \A i \in 1..Handled : i \in 1..Handled'
    BY <1>1
  <1>5. CASE answered' = answered /\ Request \in Unanswered
    <2>1. asked[taken] \in Unanswered
      BY <1>5 DEF Request
    <2>2. \A k \in DOMAIN answered : answered[k] \in 1..Handled' /\ asked[answered[k]] \notin Unanswered
      BY <1>4 DEF Given, Due
    <2>3. \A i \in 1..Handled' : asked[i] \notin Unanswered => i \in 1..Handled
      BY <1>3, <2>1
    <2>4. Given'
      BY <1>5, <2>2, <2>3 DEF Given, Due
    <2> QED
      BY <1>2, <2>4
  <1>6. CASE answered' = Append(answered, taken) /\ Request \notin Unanswered
    <2>1. answered \in Seq(1..MaxRequests) /\ Len(answered) \in Nat
          /\ DOMAIN answered = 1..Len(answered)
      BY DEF Given
    <2>2. /\ answered' \in Seq(1..MaxRequests)
          /\ Len(answered') = Len(answered) + 1
          /\ \A k \in 1..Len(answered) : answered'[k] = answered[k]
          /\ answered'[Len(answered) + 1] = taken
      <3> DEFINE S == 1..MaxRequests
      <3>1. taken \in S /\ answered \in Seq(S)
        BY <1>1, <2>1
      <3> HIDE DEF S
      <3>2. /\ Append(answered, taken) \in Seq(S)
            /\ Len(Append(answered, taken)) = Len(answered) + 1
            /\ \A k \in 1..Len(answered) : Append(answered, taken)[k] = answered[k]
            /\ Append(answered, taken)[Len(answered) + 1] = taken
        BY <3>1, AppendProperties
      <3> QED
        BY <1>6, <3>2 DEF S
    <2>3. DOMAIN answered' = 1..(Len(answered) + 1)
      BY <2>1, <2>2
    <2>4. \A k \in DOMAIN answered' : k \in DOMAIN answered \/ k = Len(answered) + 1
      BY <2>1, <2>3
    <2>5. \A k \in DOMAIN answered' : answered'[k] \in 1..Handled' /\ asked[answered'[k]] \notin Unanswered
      <3>1. \A k \in DOMAIN answered : answered'[k] = answered[k] /\ Due(answered[k])
        BY <2>1, <2>2 DEF Given
      <3>2. taken \in 1..Handled' /\ asked[taken] \notin Unanswered
        BY <1>1, <1>6 DEF Request
      <3> QED
        BY <1>4, <2>2, <2>4, <3>1, <3>2 DEF Due
    <2>6. ASSUME NEW i \in 1..Handled', asked[i] \notin Unanswered
          PROVE  \E k \in DOMAIN answered' : answered'[k] = i
      <3>1. CASE i = taken
        BY <2>1, <2>2, <2>3, <3>1
      <3>2. CASE i \in 1..Handled
        <4>1. PICK k \in DOMAIN answered : answered[k] = i
          BY <2>6, <3>2 DEF Given
        <4> QED
          BY <2>1, <2>2, <2>3, <4>1
      <3> QED
        BY <1>3, <3>1, <3>2
    <2>7. Increasing(answered)'
      <3> SUFFICES ASSUME NEW j \in DOMAIN answered', NEW k \in DOMAIN answered', j < k
                   PROVE  answered'[j] < answered'[k]
        BY DEF Increasing
      <3>1. j \in DOMAIN answered
        BY <2>1, <2>3
      <3>2. answered[j] \in 1..Handled
        BY <3>1 DEF Given, Due
      <3>3. CASE k = Len(answered) + 1
        BY <1>1, <2>1, <2>2, <3>1, <3>2, <3>3
      <3>4. CASE k \in DOMAIN answered
        BY <2>1, <2>2, <3>1, <3>4 DEF Given, Increasing
      <3> QED
        BY <2>4, <3>3, <3>4
    <2>8. Given'
      BY <2>2, <2>5, <2>6, <2>7 DEF Given, Due
    <2> QED
      BY <1>2, <2>8
  <1> QED
    BY <1>2, <1>5, <1>6

LEMMA HandlingKeepsAnswers ==
  ASSUME Answered, Handles, ~Launch, ~WriteFails
  PROVE  Answered'
  <1> USE DEF Handling
  <1>1. CASE Ignore \/ Break
    <2>1. at = "handle" /\ at' \in {"look", "ended"} /\ Request \in Unanswered
          /\ UNCHANGED <<asked, fed, feeder, taken, strays, answered>>
      BY <1>1 DEF Ignore, Break, Unanswered
    <2> QED
      BY <2>1, DoneKeeps
  <1>2. CASE HandleRequest \/ FileTool \/ HttpTool \/ EngineTool \/ Refuse
    <2>1. at = "handle" /\ at' = "look" /\ Request \notin Unanswered
          /\ answered' = Append(answered, taken)
          /\ UNCHANGED <<asked, fed, feeder, taken, strays>>
      BY <1>2 DEF HandleRequest, FileTool, HttpTool, EngineTool, Refuse, Answers, Unanswered
    <2> QED
      BY <2>1, DoneKeeps
  <1>3. CASE ToolEnds \/ ToolTimesOut
    <2>1. at = "tool" /\ at' = "look" /\ strays' \in {strays, strays + 1}
          /\ answered' = Append(answered, taken)
          /\ UNCHANGED <<asked, fed, feeder, taken>>
      BY <1>3 DEF ToolEnds, ToolTimesOut, Answers
    <2>2. Request \notin Unanswered
      BY <2>1 DEF Answered, Counts, Unanswered
    <2> QED
      BY <2>1, <2>2, DoneKeeps
  <1> QED
    BY <1>1, <1>2, <1>3 DEF Handles

LEMMA StrayExitsKeepsAnswers ==
  ASSUME Answered, StrayExits
  PROVE  Answered'
  <1> USE Numbers DEF Answered
  <1>1. UNCHANGED <<asked, fed, feeder, taken, at, answered>> /\ strays' = strays - 1 /\ strays > 0
    BY DEF StrayExits
  <1>2. Handled' = Handled
    BY <1>1 DEF Handled
  <1>3. strays' \in 0..Handled'
    BY <1>1, <1>2
  <1>4. Counts'
    BY <1>1, <1>3 DEF Counts, Request
  <1>5. Given'
    BY <1>1, <1>2 DEF Given, Due
  <1> QED
    BY <1>4, <1>5

LEMMA AnsweredInvariance == Spec => []Answered
  <1>1. Init => Answered
    <2>1. <<>> \in Seq(Kinds) /\ <<>> \in Seq(1..MaxRequests) /\ Len(<<>>) = 0 /\ DOMAIN <<>> = {}
      BY EmptySeq
    <2>2. MaxRequests \in Nat
      BY MaxAssumption DEF MaxAssumption
    <2>3. Init => Counts
      BY <2>1, <2>2 DEF Init, Counts, Handled
    <2>4. Init => Given
      BY <2>1, <2>2 DEF Init, Given, Due, Handled, Increasing
    <2> QED
      BY <2>3, <2>4 DEF Answered
  <1>2. Answered /\ [Next]_vars => Answered'
    BY LoopKeepsAnswers, SendKeepsAnswers, HandlingKeepsAnswers, StrayExitsKeepsAnswers,
       SwallowKeepsAnswers DEF Next
  <1> QED
    BY <1>1, <1>2, PTL DEF Spec

\* Whatever the client writes and the tools do, the server answers each line it has
\* read that asks for an answer, once, and in the order of the lines.
THEOREM AnswersAreInOrder == Spec => []AnsweredInOrder
  <1>1. Answered => AnsweredInOrder
    BY DEF Answered, Given, Due, Handled, Increasing, AnsweredInOrder
  <1> QED
    BY <1>1, AnsweredInvariance, PTL

\* Standard input is open or not, and select() has something to return for or not.
Flags == {open, woken} \subseteq BOOLEAN

LEMMA BooleansKeep ==
  ASSUME Flags, [Next]_vars
  PROVE  Flags'
  <1>1. (open' = open \/ open' = FALSE) /\ (woken' = woken \/ woken' = FALSE \/ woken' = TRUE)
    BY DEF Next, vars, Send, Close, Feed, FeedWakes, FeedEnds, Reads, LineFound, NoLine, Arm, Resume,
           Sleep, Interrupted, Hour, Handles, Handling, Answers, Ignore, Break, HandleRequest,
           FileTool, HttpTool, EngineTool, Refuse, Launch, ToolEnds, ToolTimesOut, WriteFails,
           StrayExits, Swallow
  <1>2. open' \in BOOLEAN /\ woken' \in BOOLEAN
    BY <1>1, Zenon DEF Flags
  <1> QED
    BY <1>2 DEF Flags

\* Every variable keeps its type; the server leaves no more processes running than
\* it has handled lines (_run_tool's shell and execute_code).
THEOREM ServerTypes == Spec => []TypeOK
  <1>1. Init => Flags
    BY DEF Init, Flags
  <1>2. Flags /\ [Next]_vars => Flags'
    BY BooleansKeep
  <1>3. Init => HandOver
    BY InitEstablishes
  <1>4. HandOver /\ [Next]_vars => HandOver'
    BY NextKeeps
  <1>5. HandOver /\ Answered /\ Flags => TypeOK
    <2> SUFFICES ASSUME HandOver, Answered, Flags
                 PROVE  TypeOK
      OBVIOUS
    <2>1. {waiter, ready, woken, slipped} \subseteq BOOLEAN /\ open \in BOOLEAN
      BY DEF HandOver, Flags
    <2>2. strays \in 0..Len(asked)
      BY Numbers DEF Answered
    <2> QED
      BY <2>1, <2>2 DEF Answered, Counts, Given, TypeOK
  <1> QED
    BY <1>1, <1>2, <1>3, <1>4, <1>5, AnsweredInvariance, PTL DEF Spec

-----------------------------------------------------------------------------
(* LiveHub: the connections *)

Distinct(list) == \A i, j \in 1..Len(list) : list[i] = list[j] => i = j

\* Every set of naturals that is not empty has a least element.
LEMMA LeastOf ==
  ASSUME NEW X \in SUBSET Nat, X # {}
  PROVE  \E x \in X : \A y \in X : x <= y
  <1> DEFINE Less == {ss \in Nat \X Nat : ss[1] < ss[2]}
  <1>1. IsWellFoundedOn(Less, Nat)
    BY NatLessThanWellFounded DEF OpToRel
  <1> HIDE DEF Less
  <1>2. PICK x \in X : \A y \in X : ~ (<<y, x>> \in Less)
    BY <1>1, WFMin
  <1>3. \A y \in X : ~(y < x)
    BY <1>2 DEF Less
  <1> QED
    BY <1>3

\* What is kept of the first n connections.
KeptUpTo(S) ==
  CHOOSE f : f = [n \in 0..Len(connections) |->
    IF n = 0 THEN <<>>
    ELSE IF connections[n] \in S THEN f[n - 1] ELSE Append(f[n - 1], connections[n])]

\* Its recursion is well defined.
LEMMA KeptUpToIs ==
  ASSUME NEW S, Len(connections) \in Nat
  PROVE  KeptUpTo(S) = [n \in 0..Len(connections) |->
           IF n = 0 THEN <<>>
           ELSE IF connections[n] \in S THEN KeptUpTo(S)[n - 1]
                ELSE Append(KeptUpTo(S)[n - 1], connections[n])]
  <1> DEFINE More(n, h) == IF connections[n] \in S THEN h ELSE Append(h, connections[n])
             IsUpTo(f, k) == f = [n \in 0..k |-> IF n = 0 THEN <<>> ELSE More(n, f[n - 1])]
             Bad == {k \in 0..Len(connections) : ~ \E f : IsUpTo(f, k)}
  <1>1. KeptUpTo(S) = CHOOSE f : IsUpTo(f, Len(connections))
    BY DEF KeptUpTo
  <1> HIDE DEF More
  <1>2. Bad = {}
    <2> SUFFICES ASSUME Bad # {}
                 PROVE  FALSE
      OBVIOUS
    <2>1. Bad \in SUBSET Nat
      OBVIOUS
    <2>2. PICK k \in Bad : \A j \in Bad : k <= j
      BY <2>1, LeastOf
    <2>3. CASE k = 0
      <3>1. IsUpTo([n \in 0..0 |-> <<>>], 0)
        OBVIOUS
      <3> QED
        BY <2>3, <3>1
    <2>4. CASE k # 0
      <3>1. k - 1 \in 0..Len(connections) /\ k \in Nat /\ ~ (k - 1 \in Bad)
        BY <2>2, <2>4
      <3>2. PICK g : IsUpTo(g, k - 1)
        BY <3>1
      <3> DEFINE f == [n \in 0..k |-> IF n = k THEN More(k, g[k - 1]) ELSE g[n]]
      <3>3. ASSUME NEW n \in 0..k
            PROVE  f[n] = IF n = 0 THEN <<>> ELSE More(n, f[n - 1])
        <4>1. CASE n = k
          BY <2>4, <3>1, <4>1
        <4>2. CASE n # k
          <5>1. n \in 0..(k - 1) /\ (n # 0 => n - 1 \in 0..(k - 1))
            BY <3>1, <4>2
          <5>2. g[n] = IF n = 0 THEN <<>> ELSE More(n, g[n - 1])
            BY <3>2, <5>1
          <5>3. n # 0 => f[n - 1] = g[n - 1]
            BY <3>1, <5>1
          <5> QED
            BY <4>2, <5>2, <5>3
        <4> QED
          BY <4>1, <4>2
      <3>4. f = [n \in 0..k |-> IF n = 0 THEN <<>> ELSE More(n, f[n - 1])]
        BY <3>3
      <3>5. IsUpTo(f, k)
        BY <3>4
      <3> QED
        BY <2>2, <3>5
    <2> QED
      BY <2>3, <2>4
  <1>3. \E f : IsUpTo(f, Len(connections))
    BY <1>2
  <1>4. IsUpTo(KeptUpTo(S), Len(connections))
    BY <1>1, <1>3
  <1> QED
    BY <1>4 DEF More

\* list holds connections from the first n, in their order, and each where it was
\* or further to the front.
Thinned(list, n) ==
  /\ list \in Seq(Sockets) /\ Len(list) <= n
  /\ \A i \in 1..Len(list) : \E k \in i..n : list[i] = connections[k]
  /\ Distinct(connections) => Distinct(list)

LEMMA WithoutThins ==
  ASSUME NEW S, connections \in Seq(Sockets)
  PROVE  Thinned(Without(S), Len(connections))
  <1> DEFINE f == KeptUpTo(S)
             Bad == {k \in 0..Len(connections) : ~ Thinned(f[k], k)}
  <1>0. Len(connections) \in Nat
    OBVIOUS
  <1>1. f = [n \in 0..Len(connections) |->
               IF n = 0 THEN <<>>
               ELSE IF connections[n] \in S THEN f[n - 1] ELSE Append(f[n - 1], connections[n])]
    BY <1>0, KeptUpToIs
  <1>2. Without(S) = f[Len(connections)]
    BY DEF Without, KeptUpTo
  <1> HIDE DEF f
  <1>3. Bad = {}
    <2> SUFFICES ASSUME Bad # {}
                 PROVE  FALSE
      OBVIOUS
    <2>1. Bad \in SUBSET Nat
      OBVIOUS
    <2>2. PICK k \in Bad : \A j \in Bad : k <= j
      BY <2>1, LeastOf
    <2>3. CASE k = 0
      <3>1. 0 \in 0..Len(connections)
        OBVIOUS
      <3>2. f[0] = <<>>
        BY <1>1, <3>1
      <3>3. Thinned(<<>>, 0)
        BY DEF Thinned, Distinct
      <3> QED
        BY <2>2, <2>3, <3>2, <3>3
    <2>4. CASE k # 0
      <3>1. k \in 1..Len(connections) /\ k - 1 \in 0..Len(connections) /\ ~ (k - 1 \in Bad)
        BY <2>2, <2>4
      <3>2. Thinned(f[k - 1], k - 1)
        BY <3>1
      <3>3. f[k] = IF connections[k] \in S THEN f[k - 1] ELSE Append(f[k - 1], connections[k])
        <4>1. k \in 0..Len(connections)
          BY <3>1
        <4> QED
          BY <1>1, <2>4, <4>1
      <3> DEFINE h == f[k - 1]
      <3> HIDE DEF h
      <3>4. Thinned(h, k - 1) /\ connections[k] \in Sockets /\ k \in Nat
        BY <3>1, <3>2 DEF h
      <3>5. CASE connections[k] \in S
        <4>1. Thinned(h, k)
          BY <3>4 DEF Thinned
        <4> QED
          BY <2>2, <3>3, <3>5, <4>1 DEF h
      <3>6. CASE connections[k] \notin S
        <4> DEFINE a == Append(h, connections[k])
        <4>1. /\ a \in Seq(Sockets) /\ Len(a) = Len(h) + 1 /\ Len(h) \in Nat
              /\ a[Len(a)] = connections[k]
              /\ \A i \in 1..Len(h) : a[i] = h[i]
          BY <3>4 DEF Thinned
        <4> HIDE DEF a
        <4>2. \A i \in 1..Len(a) : i \in 1..Len(h) \/ i = Len(a)
          BY <4>1
        <4>3. Len(h) <= k - 1 /\ \A i \in 1..Len(h) : \E m \in i..k - 1 : h[i] = connections[m]
          BY <3>4 DEF Thinned
        <4>4. \A i \in 1..Len(a) : \E m \in i..k : a[i] = connections[m]
          <5> SUFFICES ASSUME NEW i \in 1..Len(a)
                       PROVE  \E m \in i..k : a[i] = connections[m]
            OBVIOUS
          <5>1. CASE i \in 1..Len(h)
            <6>1. PICK m \in i..k - 1 : h[i] = connections[m]
              BY <4>3, <5>1
            <6>2. m \in i..k /\ a[i] = h[i]
              BY <3>4, <4>1, <5>1, <6>1
            <6> QED
              BY <6>1, <6>2
          <5>2. CASE i = Len(a)
            <6>1. k \in i..k
              BY <3>4, <4>1, <4>3, <5>2
            <6> QED
              BY <4>1, <5>2, <6>1
          <5> QED
            BY <4>2, <5>1, <5>2
        <4>5. ASSUME Distinct(connections), NEW i \in 1..Len(a), NEW j \in 1..Len(a), a[i] = a[j]
              PROVE  i = j
          <5>1. ASSUME NEW n \in 1..Len(h), a[n] = connections[k]
                PROVE  FALSE
            <6>1. PICK m \in n..k - 1 : h[n] = connections[m]
              BY <4>3, <5>1
            <6>2. m \in 1..Len(connections) /\ m # k
              BY <3>1, <4>1, <6>1
            <6> QED
              BY <3>1, <4>1, <4>5, <5>1, <6>1, <6>2 DEF Distinct
          <5>2. Distinct(h)
            BY <3>4, <4>5 DEF Thinned
          <5> QED
            BY <4>1, <4>2, <4>5, <5>1, <5>2 DEF Distinct
        <4>6. Thinned(a, k)
          BY <3>4, <4>1, <4>3, <4>4, <4>5 DEF Thinned, Distinct
        <4> QED
          BY <2>2, <3>3, <3>6, <4>6 DEF a, h
      <3> QED
        BY <3>5, <3>6
    <2> QED
      BY <2>3, <2>4
  <1>4. Len(connections) \in 0..Len(connections)
    BY <1>0
  <1> QED
    BY <1>2, <1>3, <1>4

-----------------------------------------------------------------------------
(* LiveHub: broadcasts *)

Known(s) == socket[s] \notin {"never", "away"}

\* A broadcast has sent to as many as its position says, all of them different, and
\* none of those that are still before it.
CastSound(b) ==
  cast[b].at = "sending" =>
    /\ IsFiniteSet(SentTo(b)) /\ Cardinality(SentTo(b)) = cast[b].next - 1
    /\ \A s \in SentTo(b) : Known(s)
    /\ \A i \in cast[b].next..Len(connections) : connections[i] \notin SentTo(b)

Broadcasts ==
  /\ connections \in Seq(Sockets) /\ Distinct(connections)
  /\ socket \in [Sockets -> {"never", "away", "open", "gone", "dead", "left"}]
  /\ \A i \in 1..Len(connections) : Known(connections[i])
  /\ cast \in [Solvers -> Casting \cup {Solving}]
  /\ \A b \in Solvers : CastSound(b)

\* What it misses has gone to the front, past its position: there is room for no
\* more of that than has left the list of what it has sent to.
LEMMA RoomForMisses ==
  ASSUME Broadcasts, NEW b \in Solvers, cast[b].at = "sending"
  PROVE  Cardinality(Missed(b)) <= Cardinality(SentTo(b) \ Listed)
  <1> DEFINE n == cast[b].next
             passed == {j \in 1..Len(connections) : j < n}
             P == {connections[j] : j \in passed}
             S == SentTo(b)
  <1>1. Len(connections) \in Nat /\ connections \in Seq(Sockets)
    BY DEF Broadcasts
  <1>2. cast[b] \in Casting
    BY DEF Broadcasts, Solving
  <1>3. n \in Nat /\ IsFiniteSet(S) /\ Cardinality(S) = n - 1
        /\ \A i \in n..Len(connections) : connections[i] \notin S
    BY <1>2 DEF Casting, Broadcasts, CastSound
  <1>4. Cardinality(S) \in Nat
    BY <1>3, FS_CardinalityType
  <1>5. Missed(b) = P \ S
    BY DEF Missed
  <1>6. S \ Listed = S \ P
    <2>1. Listed = {connections[j] : j \in 1..Len(connections)}
      BY <1>1 DEF Listed, Range
    <2>2. \A j \in 1..Len(connections) : j \in passed \/ j \in n..Len(connections)
      BY <1>1, <1>3
    <2> HIDE DEF n, S, passed
    <2>3. P \subseteq Listed
      BY <2>1 DEF passed
    <2>4. ASSUME NEW s \in S, s \in Listed
          PROVE  s \in P
      BY <1>3, <2>1, <2>2, <2>4
    <2> QED
      BY <2>3, <2>4
  <1> HIDE DEF n, S
  <1>7. IsFiniteSet(passed) /\ Cardinality(passed) <= n - 1 /\ Cardinality(passed) \in Nat
    <2>1. IsFiniteSet(1..n - 1) /\ Cardinality(1..n - 1) = n - 1
      BY <1>3, <1>4, FS_Interval
    <2>2. passed \in SUBSET (1..n - 1)
      BY <1>1, <1>3
    <2> HIDE DEF passed
    <2> QED
      BY <2>1, <2>2, FS_Subset, FS_CardinalityType
  <1> HIDE DEF passed
  <1>8. IsFiniteSet(P) /\ Cardinality(P) <= Cardinality(passed) /\ Cardinality(P) \in Nat
    <2> DEFINE g == [j \in passed |-> connections[j]]
    <2>1. g \in Surjection(passed, P)
      BY DEF Surjection
    <2> HIDE DEF g, P
    <2> QED
      BY <1>7, <2>1, FS_Surjection, FS_CardinalityType
  <1> HIDE DEF P
  <1>9. /\ Cardinality(P \ S) = Cardinality(P) - Cardinality(P \cap S)
        /\ Cardinality(S \ P) = Cardinality(S) - Cardinality(S \cap P)
    BY <1>3, <1>8, FS_Difference
  <1>10. P \cap S = S \cap P /\ Cardinality(S \cap P) \in Nat
    <2>1. IsFiniteSet(S \cap P)
      BY <1>3, FS_Subset
    <2> QED
      BY <2>1, FS_CardinalityType
  <1>11. Cardinality(P) <= Cardinality(S)
    BY <1>3, <1>4, <1>7, <1>8
  <1>12. Cardinality(P \ S) <= Cardinality(S \ P)
    BY <1>4, <1>8, <1>9, <1>10, <1>11
  <1> QED
    BY <1>5, <1>6, <1>12 DEF S

LEMMA BroadcastsAreSound == Broadcasts => BroadcastSound
  <1> SUFFICES ASSUME Broadcasts
               PROVE  BroadcastSound
    OBVIOUS
  <1>1. NobodyTwice
    BY DEF Broadcasts, CastSound, NobodyTwice
  <1>2. MissesBounded
    BY RoomForMisses DEF MissesBounded
  <1> QED
    BY <1>1, <1>2 DEF BroadcastSound

LEMMA InitBroadcasts == HubInit => Broadcasts
  BY DEF HubInit, Broadcasts, Distinct, CastSound, Solving, Casting, Known

\* Nobody comes before a broadcast that was behind it when others leave the list.
LEMMA LeavingKeeps ==
  ASSUME Broadcasts, NEW S, connections' = Without(S),
         socket' \in [Sockets -> {"never", "away", "open", "gone", "dead", "left"}],
         \A s \in Sockets : Known(s) => Known(s)'
  PROVE  /\ connections' \in Seq(Sockets) /\ Distinct(connections')
         /\ \A i \in 1..Len(connections') : Known(connections[i])'
         /\ Len(connections) \in Nat /\ Len(connections') \in Nat
         /\ \A i \in 1..Len(connections') : \E k \in i..Len(connections) : connections'[i] = connections[k]
  <1>1. Thinned(connections', Len(connections))
    BY WithoutThins DEF Broadcasts
  <1>2. Len(connections) \in Nat /\ \A k \in 1..Len(connections) : connections[k] \in Sockets
    BY DEF Broadcasts
  <1>3. /\ connections' \in Seq(Sockets) /\ Distinct(connections')
        /\ \A i \in 1..Len(connections') : \E k \in i..Len(connections) : connections'[i] = connections[k]
    BY <1>1 DEF Thinned, Broadcasts
  <1>4. ASSUME NEW i \in 1..Len(connections')
        PROVE  Known(connections[i])'
    <2>1. PICK k \in i..Len(connections) : connections'[i] = connections[k]
      BY <1>3
    <2>2. k \in 1..Len(connections)
      BY <1>2, <1>3
    <2>3. Known(connections[k]) /\ connections[k] \in Sockets
      BY <1>2, <2>2 DEF Broadcasts
    <2>4. \A s \in Sockets : Known(s) => socket'[s] \notin {"never", "away"}
      BY DEF Known
    <2>5. socket'[connections'[i]] \notin {"never", "away"}
      BY <2>1, <2>3, <2>4
    <2> QED
      BY <2>5 DEF Known
  <1> QED
    BY <1>2, <1>3, <1>4 DEF Known

\* Endpoints: a connection that comes is a new one, at the end of the list.
LEMMA ConnectKeeps ==
  ASSUME Broadcasts, NEW s \in Sockets, Connect(s)
  PROVE  Broadcasts'
  <1>1. /\ socket[s] = "away" /\ socket' = [socket EXCEPT ![s] = "open"]
        /\ connections' = Append(connections, s) /\ cast' = cast
    BY DEF Connect
  <1>2. /\ connections \in Seq(Sockets) /\ Len(connections) \in Nat /\ Distinct(connections)
        /\ socket \in [Sockets -> {"never", "away", "open", "gone", "dead", "left"}]
        /\ \A i \in 1..Len(connections) : Known(connections[i])
        /\ cast \in [Solvers -> Casting \cup {Solving}]
    BY DEF Broadcasts
  <1>3. /\ connections' \in Seq(Sockets) /\ Len(connections') = Len(connections) + 1
        /\ connections'[Len(connections) + 1] = s
        /\ \A i \in 1..Len(connections) : connections'[i] = connections[i]
    BY <1>1, <1>2
  <1>4. \A i \in 1..Len(connections') : i \in 1..Len(connections) \/ i = Len(connections) + 1
    BY <1>2, <1>3
  <1>5. ~Known(s) /\ Known(s)' /\ \A r \in Sockets : Known(r) => Known(r)'
    BY <1>1, <1>2 DEF Known
  <1>6. \A i \in 1..Len(connections) : connections[i] # s /\ connections[i] \in Sockets
    BY <1>2, <1>5
  <1>7. Distinct(connections')
    BY <1>2, <1>3, <1>4, <1>6 DEF Distinct
  <1>8. \A i \in 1..Len(connections') : Known(connections[i])'
    BY <1>2, <1>3, <1>4, <1>5, <1>6 DEF Known
  <1>9. ASSUME NEW b \in Solvers, cast[b].at = "sending"
        PROVE  CastSound(b)'
    <2>1. cast[b] \in Casting
      BY <1>2, <1>9 DEF Solving
    <2>2. /\ SentTo(b)' = SentTo(b) /\ SentTo(b) \subseteq Sockets
          /\ cast[b].next \in Nat
      BY <1>1, <2>1 DEF SentTo, Casting
    <2>3. CastSound(b)
      BY DEF Broadcasts
    <2>4. \A r \in SentTo(b) : Known(r)
      BY <1>9, <2>3 DEF CastSound
    <2>5. s \notin SentTo(b) /\ \A r \in SentTo(b) : Known(r)'
      BY <1>5, <2>2, <2>4
    <2>6. \A i \in cast[b].next..Len(connections') :
            \/ i = Len(connections) + 1
            \/ i \in cast[b].next..Len(connections) /\ (i >= 1 => i \in 1..Len(connections))
      BY <1>2, <1>3, <2>2
    <2>7. cast[b].next >= 1
      <3>1. IsFiniteSet(SentTo(b)) /\ Cardinality(SentTo(b)) = cast[b].next - 1
        BY <1>9, <2>3 DEF CastSound
      <3> QED
        BY <2>2, <3>1, FS_CardinalityType
    <2>8. \A i \in cast[b].next..Len(connections') : connections'[i] \notin SentTo(b)
      BY <1>2, <1>3, <1>9, <2>2, <2>3, <2>5, <2>6, <2>7 DEF CastSound
    <2> QED
      BY <1>1, <1>9, <2>2, <2>3, <2>5, <2>8 DEF CastSound, Known
  <1>10. \A b \in Solvers : CastSound(b)'
    BY <1>1, <1>9 DEF CastSound
  <1>11. socket' \in [Sockets -> {"never", "away", "open", "gone", "dead", "left"}]
    BY <1>1, <1>2
  <1> QED
    BY <1>1, <1>2, <1>3, <1>7, <1>8, <1>10, <1>11 DEF Broadcasts

\* A broadcast that does not move while connections leave the list.
LEMMA CastStays ==
  ASSUME Broadcasts, NEW b \in Solvers, cast'[b] = cast[b],
         Len(connections) \in Nat, Len(connections') \in Nat,
         \A s \in Sockets : Known(s) => Known(s)',
         \A i \in 1..Len(connections') : \E k \in i..Len(connections) : connections'[i] = connections[k]
  PROVE  CastSound(b)'
  <1> SUFFICES ASSUME cast[b].at = "sending"
               PROVE  CastSound(b)'
    BY DEF CastSound
  <1>1. cast[b] \in Casting
    BY DEF Broadcasts, Solving
  <1>2. /\ SentTo(b)' = SentTo(b) /\ SentTo(b) \subseteq Sockets
        /\ cast[b].next \in Nat
    BY <1>1 DEF SentTo, Casting
  <1>3. /\ IsFiniteSet(SentTo(b)) /\ Cardinality(SentTo(b)) = cast[b].next - 1
        /\ \A s \in SentTo(b) : Known(s)
        /\ \A i \in cast[b].next..Len(connections) : connections[i] \notin SentTo(b)
    BY DEF Broadcasts, CastSound
  <1>4. cast[b].next >= 1
    BY <1>2, <1>3, FS_CardinalityType
  <1>5. ASSUME NEW i \in cast[b].next..Len(connections')
        PROVE  connections'[i] \notin SentTo(b)
    <2>1. i \in 1..Len(connections')
      BY <1>2, <1>4
    <2>2. PICK k \in i..Len(connections) : connections'[i] = connections[k]
      BY <2>1
    <2>3. k \in cast[b].next..Len(connections)
      BY <1>2, <2>1
    <2> QED
      BY <1>3, <2>2, <2>3
  <1>6. \A s \in SentTo(b) : Known(s)'
    BY <1>2, <1>3
  <1> QED
    BY <1>2, <1>3, <1>5, <1>6 DEF CastSound, Known

LEMMA EndpointKeeps ==
  ASSUME Broadcasts, NEW s \in Sockets, PeerLeaves(s) \/ Disconnected(s) \/ EndpointFails(s)
  PROVE  Broadcasts'
  <1>1. /\ cast' = cast
        /\ socket' \in [Sockets -> {"never", "away", "open", "gone", "dead", "left"}]
        /\ \A r \in Sockets : Known(r) => Known(r)'
    BY DEF PeerLeaves, Disconnected, EndpointFails, Broadcasts, Known
  <1>2. connections \in Seq(Sockets) /\ Len(connections) \in Nat
        /\ \A i \in 1..Len(connections) : Known(connections[i]) /\ connections[i] \in Sockets
    BY DEF Broadcasts
  <1>3. CASE connections' = connections
    <2>1. \A i \in 1..Len(connections') : \E k \in i..Len(connections) : connections'[i] = connections[k]
      BY <1>2, <1>3
    <2>2. \A b \in Solvers : CastSound(b)'
      BY <1>1, <1>2, <1>3, <2>1, CastStays
    <2>3. \A i \in 1..Len(connections') : Known(connections[i])'
      BY <1>1, <1>2, <1>3 DEF Known
    <2> QED
      BY <1>1, <1>3, <2>2, <2>3 DEF Broadcasts
  <1>4. CASE connections' = Without({s})
    <2>1. /\ connections' \in Seq(Sockets) /\ Distinct(connections')
          /\ \A i \in 1..Len(connections') : Known(connections[i])'
          /\ Len(connections) \in Nat /\ Len(connections') \in Nat
          /\ \A i \in 1..Len(connections') : \E k \in i..Len(connections) : connections'[i] = connections[k]
      BY <1>1, <1>4, LeavingKeeps
    <2>2. \A b \in Solvers : CastSound(b)'
      BY <1>1, <2>1, CastStays
    <2> QED
      BY <1>1, <2>1, <2>2 DEF Broadcasts
  <1> QED
    BY <1>3, <1>4 DEF PeerLeaves, Disconnected, EndpointFails

\* The next turn of a broadcast that has sent to told and failed.
LEMMA TurnKeeps ==
  ASSUME Broadcasts, socket' = socket, NEW b \in Solvers,
         NEW i \in Nat \ {0}, NEW told \in SUBSET Sockets, NEW failed \in SUBSET Sockets,
         IsFiniteSet(told \cup failed), Cardinality(told \cup failed) = i - 1,
         \A s \in told \cup failed : Known(s),
         \A j \in i..Len(connections) : connections[j] \notin told \cup failed,
         Turn(b, i, told, failed)
  PROVE  Broadcasts'
  <1>1. /\ connections \in Seq(Sockets) /\ Len(connections) \in Nat /\ Distinct(connections)
        /\ \A j \in 1..Len(connections) : Known(connections[j]) /\ connections[j] \in Sockets
        /\ cast \in [Solvers -> Casting \cup {Solving}]
    BY DEF Broadcasts
  <1>2. \A s \in Sockets : Known(s) => Known(s)'
    BY DEF Known
  <1>3. CASE i <= Len(connections)
    <2> DEFINE turn == [at |-> "sending", to |-> connections[i], next |-> i + 1,
                        told |-> told, failed |-> failed]
    <2>1. cast' = [cast EXCEPT ![b] = turn] /\ connections' = connections
      BY <1>3 DEF Turn
    <2>2. i \in 1..Len(connections) /\ i \in i..Len(connections)
      BY <1>1, <1>3
    <2>3. turn \in Casting
      BY <1>1, <2>2 DEF Casting
    <2>4. /\ turn.at = "sending" /\ turn.next = i + 1
          /\ turn.told \cup turn.failed \cup {turn.to} = (told \cup failed) \cup {connections[i]}
      OBVIOUS
    <2> HIDE DEF turn
    <2>5. cast'[b] = turn /\ \A c \in Solvers : c # b => cast'[c] = cast[c]
      BY <1>1, <2>1
    <2>6. SentTo(b)' = (told \cup failed) \cup {connections[i]}
      BY <2>4, <2>5 DEF SentTo
    <2>7. /\ IsFiniteSet((told \cup failed) \cup {connections[i]})
          /\ Cardinality((told \cup failed) \cup {connections[i]}) = (i - 1) + 1
      <3> DEFINE S == told \cup failed
                 x == connections[i]
      <3>1. IsFiniteSet(S) /\ Cardinality(S) = i - 1 /\ x \notin S
        BY <2>2
      <3> HIDE DEF S, x
      <3>2. IsFiniteSet(S \cup {x}) /\ Cardinality(S \cup {x}) = (i - 1) + 1
        BY <3>1, FS_AddElement
      <3> QED
        BY <3>2 DEF S, x
    <2>8. \A j \in i + 1..Len(connections) : connections[j] \notin (told \cup failed) \cup {connections[i]}
      BY <1>1, <2>2 DEF Distinct
    <2>9. \A s \in (told \cup failed) \cup {connections[i]} : s \in Sockets /\ Known(s)
      BY <1>1, <2>2
    <2>10. CastSound(b)'
      <3>1. Cardinality((told \cup failed) \cup {connections[i]}) = turn.next - 1
        BY <2>4, <2>7
      <3>2. \A s \in (told \cup failed) \cup {connections[i]} : Known(s)'
        BY <1>2, <2>9
      <3> QED
        BY <2>1, <2>4, <2>5, <2>6, <2>7, <2>8, <3>1, <3>2 DEF CastSound, Known
    <2>11. \A c \in Solvers : c # b => CastSound(c)'
      <3>1. \A j \in 1..Len(connections') : \E k \in j..Len(connections) : connections'[j] = connections[k]
        BY <1>1, <2>1
      <3> QED
        BY <1>1, <1>2, <2>1, <2>5, <3>1, CastStays
    <2>12. cast' \in [Solvers -> Casting \cup {Solving}]
      BY <1>1, <2>1, <2>3
    <2> QED
      BY <2>1, <2>10, <2>11, <2>12 DEF Broadcasts, Known
  <1>4. CASE ~(i <= Len(connections))
    <2>1. cast' = [cast EXCEPT ![b] = Solving] /\ connections' = Without(failed)
      BY <1>4 DEF Turn
    <2>2. socket' \in [Sockets -> {"never", "away", "open", "gone", "dead", "left"}]
      BY DEF Broadcasts
    <2>3. /\ connections' \in Seq(Sockets) /\ Distinct(connections')
          /\ \A j \in 1..Len(connections') : Known(connections[j])'
          /\ Len(connections) \in Nat /\ Len(connections') \in Nat
          /\ \A j \in 1..Len(connections') : \E k \in j..Len(connections) : connections'[j] = connections[k]
      BY <1>2, <2>1, <2>2, LeavingKeeps
    <2>4. \A c \in Solvers : c # b => cast'[c] = cast[c]
      BY <1>1, <2>1
    <2>5. \A c \in Solvers : c # b => CastSound(c)'
      BY <1>2, <2>3, <2>4, CastStays
    <2>6. CastSound(b)'
      <3>1. cast'[b] = Solving
        BY <1>1, <2>1
      <3> QED
        BY <3>1 DEF CastSound, Solving
    <2>7. cast' \in [Solvers -> Casting \cup {Solving}]
      BY <1>1, <2>1
    <2> QED
      BY <2>2, <2>3, <2>5, <2>6, <2>7 DEF Broadcasts
  <1> QED
    BY <1>3, <1>4

LEMMA SendingKeeps ==
  ASSUME Broadcasts, NEW b \in Solvers, Solved(b) \/ Sent(b)
  PROVE  Broadcasts'
  <1>1. socket' = socket
    BY DEF Solved, Sent
  <1>2. CASE Solved(b)
    <2>1. Turn(b, 1, {}, {})
      BY <1>2 DEF Solved
    <2>2. IsFiniteSet({} \cup {}) /\ Cardinality({} \cup {}) = 1 - 1
      BY FS_EmptySet
    <2> QED
      BY <1>1, <2>1, <2>2, TurnKeeps
  <1>3. CASE Sent(b)
    <2> DEFINE c == cast[b]
    <2>1. c \in Casting
      BY <1>3 DEF Sent, Broadcasts, Solving
    <2>2. c.next \in Nat /\ c.to \in Sockets /\ c.told \in SUBSET Sockets /\ c.failed \in SUBSET Sockets
      BY <2>1 DEF Casting
    <2>3. /\ IsFiniteSet(SentTo(b)) /\ Cardinality(SentTo(b)) = c.next - 1
          /\ \A s \in SentTo(b) : Known(s)
          /\ \A i \in c.next..Len(connections) : connections[i] \notin SentTo(b)
      BY <1>3 DEF Sent, Broadcasts, CastSound
    <2>4. c.next \in Nat \ {0}
      BY <2>2, <2>3, FS_CardinalityType
    <2>5. \/ Turn(b, c.next, c.told \cup {c.to}, c.failed)
          \/ Turn(b, c.next, c.told, c.failed \cup {c.to})
      BY <1>3 DEF Sent
    <2>6. /\ (c.told \cup {c.to}) \cup c.failed = SentTo(b)
          /\ c.told \cup (c.failed \cup {c.to}) = SentTo(b)
      BY DEF SentTo
    <2> HIDE DEF c
    <2>7. c.told \cup {c.to} \in SUBSET Sockets /\ c.failed \cup {c.to} \in SUBSET Sockets
      BY <2>2
    <2>8. CASE Turn(b, c.next, c.told \cup {c.to}, c.failed)
      BY <1>1, <2>2, <2>3, <2>4, <2>6, <2>7, <2>8, TurnKeeps
    <2>9. CASE Turn(b, c.next, c.told, c.failed \cup {c.to})
      BY <1>1, <2>2, <2>3, <2>4, <2>6, <2>7, <2>9, TurnKeeps
    <2> QED
      BY <2>5, <2>8, <2>9
  <1> QED
    BY <1>2, <1>3

-----------------------------------------------------------------------------
(* LiveHub: panels *)

Handlers == [at : {"idle", "agents", "over"}, of : Sessions, heard : 0..Agents]

\* Types, as far as panels go.
Typed ==
  /\ status \in [Sessions -> Statuses]
  /\ updates \in Seq([of : Sessions, status : Statuses])
  /\ messages \in Seq(Sessions) /\ Len(messages) <= MaxMessages
  /\ posted \subseteq DOMAIN messages
  /\ online \subseteq Panels /\ ghosts \in [Sessions -> 0..MaxGhosts]
  /\ panel \in [Panels -> PanelRecords]
  /\ \A p \in Panels : /\ panel[p].knows \subseteq DOMAIN messages
                       /\ panel[p].heard <= Len(updates)
  /\ execution \in [Executions -> Handlers]

\* A session's status is that of the last update of it.
Recorded ==
  \A u \in DOMAIN updates :
    (\A v \in DOMAIN updates : v > u => updates[v].of # updates[u].of)
      => status[updates[u].of] = updates[u].status

\* What p shows is what its session is, but for the updates it hears.
Current(p) ==
  panel[p].at = "joined" => \A s \in Sessions : panel[p].session = s =>
    /\ MessagesOf(s) \subseteq panel[p].knows \cup posted
    /\ panel[p].heard = 0 => panel[p].status = status[s]

\* Who is counted is connected, so that it is told of every new count.
Counted(p) ==
  p \in online =>
    /\ panel[p].at \in {"connected", "joined"}
    /\ \A s \in Sessions : panel[p].counted = s /\ panel[p].session = s =>
         panel[p].count >= Cardinality(Of(online, s))

Executed ==
  \A s \in Sessions : status[s] = "executing" =>
    \E e \in Executions : execution[e].of = s /\ execution[e].at = "agents"

Audience ==
  /\ Typed
  /\ Recorded
  /\ Executed
  /\ \A p \in Panels : Current(p) /\ Counted(p)

\* What the server counts is a number.
LEMMA Online ==
  ASSUME NEW S \in SUBSET Panels
  PROVE  IsFiniteSet(S) /\ Cardinality(S) \in Nat
         /\ \A T : T \subseteq S => Cardinality(T) <= Cardinality(S)
  <1>1. IsFiniteSet(S)
    BY PanelsAssumption, FS_Subset DEF PanelsAssumption
  <1>2. Cardinality(S) \in Nat
    BY <1>1, FS_CardinalityType
  <1>3. ASSUME NEW T, T \subseteq S
        PROVE  Cardinality(T) <= Cardinality(S)
    BY <1>1, <1>3, FS_Subset
  <1> QED
    BY <1>1, <1>2, <1>3

LEMMA InitAudience == HubInit => Audience
  <1> SUFFICES ASSUME HubInit
               PROVE  Audience
    OBVIOUS
  <1>1. PICK first \in {"away", "never"}, shown \in [Panels -> Sessions] :
          panel = [p \in Panels |->
            [at |-> first, session |-> shown[p], status |-> "planning", heard |-> 0,
             knows |-> {}, count |-> 0, counted |-> shown[p]]]
    BY DEF HubInit
  <1>2. panel \in [Panels -> PanelRecords]
    BY <1>1 DEF PanelRecords, Statuses
  <1>3. \A p \in Panels : /\ panel[p].at \in {"away", "never"} /\ panel[p].knows = {}
                          /\ panel[p].heard = 0
    BY <1>1
  <1>4. execution \in [Executions -> Handlers]
    BY AgentsAssumption DEF HubInit, AgentsAssumption, Handlers
  <1>5. /\ status = [s \in Sessions |-> "planning"] /\ updates = <<>> /\ messages = <<>>
        /\ posted = {} /\ online = {} /\ ghosts = [s \in Sessions |-> 0]
    BY DEF HubInit
  <1>6. Typed
    <2>1. 0 \in 0..MaxGhosts /\ 0 <= MaxMessages
      BY PanelsAssumption DEF PanelsAssumption
    <2>2. Len(updates) = 0 /\ Len(messages) = 0
      BY <1>5
    <2>3. status \in [Sessions -> Statuses] /\ ghosts \in [Sessions -> 0..MaxGhosts]
      BY <1>5, <2>1 DEF Statuses
    <2> QED
      BY <1>2, <1>3, <1>4, <1>5, <2>1, <2>2, <2>3 DEF Typed
  <1>7. Executed /\ Recorded
    BY <1>5 DEF Executed, Recorded
  <1> QED
    BY <1>3, <1>5, <1>6, <1>7 DEF Audience, Current, Counted

\* One panel opens, leaves or loses its socket, or is told of the session; the others see
\* nothing of it, unless they are told of the new count.
LEMMA OpenKeeps ==
  ASSUME Audience, NEW p \in Panels, Open(p)
  PROVE  Audience'
  <1>1. /\ panel \in [Panels -> PanelRecords] /\ panel[p].at = "away"
        /\ panel' = [panel EXCEPT ![p].at = "connected"]
        /\ UNCHANGED <<online, ghosts, status, updates, messages, posted, execution>>
    BY DEF Open, Audience, Typed, session
  <1>2. /\ panel' \in [Panels -> PanelRecords]
        /\ panel'[p].at = "connected" /\ panel'[p].knows = panel[p].knows
        /\ panel'[p].heard = panel[p].heard
        /\ \A q \in Panels : q # p => panel'[q] = panel[q]
        /\ \A q \in Panels : panel'[q].session = panel[q].session
    BY <1>1 DEF PanelRecords
  <1>3. p \notin online
    BY <1>1 DEF Audience, Counted
  <1>4. \A q \in Panels : Current(q)' /\ Counted(q)'
    BY <1>1, <1>2, <1>3 DEF Audience, Current, Counted, Of, MessagesOf
  <1> QED
    BY <1>1, <1>2, <1>4 DEF Audience, Typed, Executed, Recorded

LEMMA JoinKeeps ==
  ASSUME Audience, NEW p \in Panels, JoinSession(p)
  PROVE  Audience'
  <1>0. PICK s \in Sessions : s = panel[p].session
    BY DEF Audience, Typed, PanelRecords
  <1> DEFINE here == {q \in online' : panel[q].session = s}
             n == Cardinality(here) + ghosts[s]
  <1>1. /\ panel \in [Panels -> PanelRecords] /\ panel[p].at = "connected"
        /\ online \subseteq Panels /\ online' = online \cup {p}
        /\ panel' = [q \in Panels |->
             IF q \in Connected THEN [panel[q] EXCEPT !.count = n, !.counted = s] ELSE panel[q]]
        /\ UNCHANGED <<ghosts, status, updates, messages, posted, execution>>
    BY <1>0 DEF JoinSession, TellCount, Of, Audience, Typed, session
  <1>2. here \in SUBSET Panels
    BY <1>1
  <1>3. Cardinality(here) \in Nat /\ ghosts[s] \in Nat
    <2> HIDE DEF here
    <2>1. Cardinality(here) \in Nat
      BY <1>2, Online
    <2> QED
      BY <1>2, <2>1 DEF Audience, Typed
  <1>4. n \in Nat /\ n >= Cardinality(here)
    <2> HIDE DEF here
    <2> QED
      BY <1>3
  <1> HIDE DEF n
  <1>5. /\ panel' \in [Panels -> PanelRecords]
        /\ \A q \in Panels : /\ panel'[q].at = panel[q].at /\ panel'[q].status = panel[q].status
                             /\ panel'[q].knows = panel[q].knows /\ panel'[q].heard = panel[q].heard
                             /\ panel'[q].session = panel[q].session
                             /\ q \in Connected => panel'[q].count = n /\ panel'[q].counted = s
    BY <1>1, <1>2, <1>4 DEF PanelRecords
  <1>6. Of(online, s)' = here
    BY <1>1, <1>5 DEF Of
  <1>7. \A q \in online' : q \in Connected
    BY <1>1 DEF Connected, Audience, Counted
  <1>8. \A q \in Panels : Counted(q)'
    <2> SUFFICES ASSUME NEW q \in Panels, q \in online'
                 PROVE  /\ panel'[q].at \in {"connected", "joined"}
                        /\ \A t \in Sessions : panel'[q].counted = t /\ panel'[q].session = t =>
                             panel'[q].count >= Cardinality(Of(online, t)')
      BY DEF Counted
    <2>1. panel'[q].at \in {"connected", "joined"}
      BY <1>1, <1>5 DEF Audience, Counted
    <2>2. panel'[q].count = n /\ panel'[q].counted = s
      BY <1>5, <1>7
    <2> HIDE DEF here
    <2> QED
      BY <1>4, <1>6, <2>1, <2>2
  <1>9. \A q \in Panels : Current(q)'
    <2>1. \A r : MessagesOf(r)' = MessagesOf(r)
      BY <1>1 DEF MessagesOf
    <2>2. \A q \in Panels : panel'[q].at = "joined" => panel[q].at = "joined"
      BY <1>5
    <2>3. UNCHANGED <<status, posted>>
      BY <1>1
    <2>4. \A q \in Panels : /\ panel'[q].session = panel[q].session /\ panel'[q].heard = panel[q].heard
                           /\ panel'[q].status = panel[q].status /\ panel'[q].knows = panel[q].knows
      BY <1>5
    <2> QED
      BY <2>1, <2>2, <2>3, <2>4 DEF Audience, Current
  <1>10. Typed'
    BY <1>1, <1>5 DEF Audience, Typed
  <1> QED
    BY <1>1, <1>8, <1>9, <1>10 DEF Audience, Executed, Recorded

LEMMA SendStateKeeps ==
  ASSUME Audience, NEW p \in Panels, SendState(p)
  PROVE  Audience'
  <1>0. PICK s \in Sessions : s = panel[p].session
    BY DEF Audience, Typed, PanelRecords
  <1> DEFINE known == MessagesOf(s)
  <1>1. /\ panel \in [Panels -> PanelRecords]
        /\ panel' = [panel EXCEPT ![p].at = "joined", ![p].status = status[s], ![p].knows = known]
        /\ UNCHANGED <<online, ghosts, status, updates, messages, posted, execution>>
        /\ status \in [Sessions -> Statuses] /\ messages \in Seq(Sessions)
    BY <1>0 DEF SendState, Audience, Typed, session
  <1>2. known \subseteq DOMAIN messages /\ known \in SUBSET Nat
    BY <1>1 DEF MessagesOf, PanelRecords
  <1>3. status[s] \in Statuses
    BY <1>1, <1>2
  <1> HIDE DEF known
  <1>4. /\ panel' \in [Panels -> PanelRecords]
        /\ panel'[p].at = "joined" /\ panel'[p].status = status[s] /\ panel'[p].knows = known
        /\ panel'[p].count = panel[p].count /\ panel'[p].counted = panel[p].counted
        /\ panel'[p].heard = panel[p].heard
        /\ \A q \in Panels : panel'[q].session = panel[q].session
        /\ \A q \in Panels : q # p => panel'[q] = panel[q]
    BY <1>1, <1>2, <1>3 DEF PanelRecords
  <1>5. MessagesOf(s)' = known
    BY <1>1 DEF known, MessagesOf
  <1>6. \A q \in Panels : Current(q)'
    <2>1. Current(p)'
      BY <1>0, <1>1, <1>4, <1>5 DEF Current
    <2>2. ASSUME NEW q \in Panels, q # p
          PROVE  Current(q)'
      BY <1>1, <1>4, <2>2 DEF Audience, Current, MessagesOf
    <2> QED
      BY <2>1, <2>2
  <1>7. \A q \in Panels : Counted(q)'
    <2>1. \A t : Of(online, t)' = Of(online, t)
      BY <1>1, <1>4 DEF Of, Audience, Typed
    <2>2. /\ panel[p].at = "connected" /\ panel'[p].at = "joined"
          /\ \A q \in Panels : /\ panel'[q].count = panel[q].count
                               /\ panel'[q].counted = panel[q].counted
                               /\ q # p => panel'[q].at = panel[q].at
      BY <1>1, <1>4 DEF SendState
    <2> QED
      BY <1>1, <1>4, <2>1, <2>2 DEF Audience, Counted
  <1> QED
    BY <1>1, <1>2, <1>4, <1>6, <1>7 DEF Audience, Typed, Executed, Recorded

LEMMA LeaveKeeps ==
  ASSUME Audience, NEW p \in Panels, LeaveSession(p)
  PROVE  Audience'
  <1>0. PICK s \in Sessions : s = panel[p].session
    BY DEF Audience, Typed, PanelRecords
  <1> DEFINE here == {q \in online' : panel[q].session = s}
             n == Cardinality(here) + ghosts[s]
  <1>1. /\ panel \in [Panels -> PanelRecords]
        /\ online \subseteq Panels /\ online' = online \ {p} /\ p \in online
        /\ panel' = [q \in Panels |->
             IF q \in Connected
             THEN [panel[q] EXCEPT !.count = n, !.counted = s,
                                   !.at = IF q = p THEN "left" ELSE @]
             ELSE panel[q]]
        /\ UNCHANGED <<ghosts, status, updates, messages, posted, execution>>
    BY <1>0 DEF LeaveSession, Of, Audience, Typed, session
  <1>2. here \in SUBSET Panels
    BY <1>1
  <1>3. Cardinality(here) \in Nat /\ ghosts[s] \in Nat
    <2> HIDE DEF here
    <2>1. Cardinality(here) \in Nat
      BY <1>2, Online
    <2> QED
      BY <1>2, <2>1 DEF Audience, Typed
  <1>4. n \in Nat /\ n >= Cardinality(here)
    <2> HIDE DEF here
    <2> QED
      BY <1>3
  <1> HIDE DEF n
  <1>5. /\ panel' \in [Panels -> PanelRecords]
        /\ \A q \in Panels : /\ panel'[q].at = panel[q].at \/ (panel'[q].at = "left" /\ q = p)
                             /\ panel'[q].status = panel[q].status
                             /\ panel'[q].knows = panel[q].knows /\ panel'[q].heard = panel[q].heard
                             /\ panel'[q].session = panel[q].session
                             /\ q \in Connected => panel'[q].count = n /\ panel'[q].counted = s
    BY <1>1, <1>2, <1>4 DEF PanelRecords
  <1>6. Of(online, s)' = here
    BY <1>1, <1>5 DEF Of
  <1>7. \A q \in online' : q \in Connected /\ q # p
    BY <1>1 DEF Connected, Audience, Counted
  <1>8. \A q \in Panels : Counted(q)'
    <2> SUFFICES ASSUME NEW q \in Panels, q \in online'
                 PROVE  /\ panel'[q].at \in {"connected", "joined"}
                        /\ \A t \in Sessions : panel'[q].counted = t /\ panel'[q].session = t =>
                             panel'[q].count >= Cardinality(Of(online, t)')
      BY DEF Counted
    <2>1. panel'[q].at \in {"connected", "joined"}
      BY <1>1, <1>5, <1>7 DEF Audience, Counted
    <2>2. panel'[q].count = n /\ panel'[q].counted = s
      BY <1>5, <1>7
    <2> HIDE DEF here
    <2> QED
      BY <1>4, <1>6, <2>1, <2>2
  <1>9. \A q \in Panels : Current(q)'
    <2>1. \A r : MessagesOf(r)' = MessagesOf(r)
      BY <1>1 DEF MessagesOf
    <2>2. \A q \in Panels : panel'[q].at = "joined" => panel[q].at = "joined"
      BY <1>5
    <2>3. UNCHANGED <<status, posted>>
      BY <1>1
    <2>4. \A q \in Panels : /\ panel'[q].session = panel[q].session /\ panel'[q].heard = panel[q].heard
                           /\ panel'[q].status = panel[q].status /\ panel'[q].knows = panel[q].knows
      BY <1>5
    <2> QED
      BY <2>1, <2>2, <2>3, <2>4 DEF Audience, Current
  <1>10. Typed'
    BY <1>1, <1>5 DEF Audience, Typed
  <1> QED
    BY <1>1, <1>8, <1>9, <1>10 DEF Audience, Executed, Recorded

\* A socket that closes or is lost leaves the others with a count that is too high.
LEMMA GoneKeeps ==
  ASSUME Audience, NEW p \in Panels, CloseSocket(p) \/ LoseSocket(p)
  PROVE  Audience'
  <1>1. /\ panel \in [Panels -> PanelRecords]
        /\ online \subseteq Panels /\ online' = online \ {p}
        /\ panel' = [panel EXCEPT ![p].at = "away"]
        /\ UNCHANGED <<status, updates, messages, posted, execution>>
    BY DEF CloseSocket, LoseSocket, Audience, Typed, session
  <1>2. /\ panel' \in [Panels -> PanelRecords]
        /\ panel'[p].at = "away" /\ panel'[p].knows = panel[p].knows
        /\ panel'[p].heard = panel[p].heard
        /\ \A q \in Panels : q # p => panel'[q] = panel[q]
        /\ \A q \in Panels : panel'[q].session = panel[q].session
    BY <1>1 DEF PanelRecords
  <1>3. ghosts' \in [Sessions -> 0..MaxGhosts]
    <2>1. panel[p].session \in Sessions /\ ghosts \in [Sessions -> 0..MaxGhosts]
      BY <1>1 DEF PanelRecords, Audience, Typed
    <2> QED
      BY <2>1, PanelsAssumption DEF CloseSocket, LoseSocket, PanelsAssumption
  <1>4. ASSUME NEW s
        PROVE  /\ Cardinality(Of(online, s)) \in Nat /\ Cardinality(Of(online, s)') \in Nat
               /\ Cardinality(Of(online, s)') <= Cardinality(Of(online, s))
    <2>1. Of(online, s) \in SUBSET Panels /\ Of(online, s)' \subseteq Of(online, s)
      BY <1>1, <1>2 DEF Of
    <2>2. Of(online, s)' \in SUBSET Panels
      BY <2>1
    <2> QED
      BY <2>1, <2>2, Online
  <1>5. \A q \in Panels : panel[q].count \in Nat
    BY <1>1 DEF PanelRecords
  <1>6. \A q \in Panels : Counted(q)'
    <2> SUFFICES ASSUME NEW q \in Panels, q \in online'
                 PROVE  /\ panel'[q].at \in {"connected", "joined"}
                        /\ \A t \in Sessions : panel'[q].counted = t /\ panel'[q].session = t =>
                             panel'[q].count >= Cardinality(Of(online, t)')
      BY DEF Counted
    <2>1. panel'[q] = panel[q] /\ q \in online
      BY <1>1, <1>2
    <2>2. ASSUME NEW t \in Sessions, panel[q].counted = t, panel[q].session = t
          PROVE  panel[q].count >= Cardinality(Of(online, t)')
      <3>1. panel[q].count \in Nat /\ panel[q].count >= Cardinality(Of(online, t))
        BY <1>5, <2>1, <2>2 DEF Audience, Counted
      <3> QED
        BY <1>4, <3>1
    <2> QED
      BY <2>1, <2>2 DEF Audience, Counted
  <1>7. \A q \in Panels : Current(q)'
    BY <1>1, <1>2 DEF Audience, Current, MessagesOf
  <1> QED
    BY <1>1, <1>2, <1>3, <1>6, <1>7 DEF Audience, Typed, Executed, Recorded

LEMMA MissPingKeeps ==
  ASSUME Audience, NEW s \in Sessions, MissPing(s)
  PROVE  Audience'
  <1>1. /\ ghosts \in [Sessions -> 0..MaxGhosts] /\ ghosts[s] > 0
        /\ ghosts' = [ghosts EXCEPT ![s] = ghosts[s] - 1]
        /\ UNCHANGED <<online, panel, status, updates, messages, posted, execution>>
    BY DEF MissPing, Audience, Typed, session
  <1>2. ghosts' \in [Sessions -> 0..MaxGhosts]
    BY <1>1, PanelsAssumption DEF PanelsAssumption
  <1>3. \A q \in Panels : Current(q)' /\ Counted(q)'
    BY <1>1 DEF Audience, Current, Counted, Of, MessagesOf
  <1> QED
    BY <1>1, <1>2, <1>3 DEF Audience, Typed, Executed, Recorded

-----------------------------------------------------------------------------
(* LiveHub: messages and the sessions' statuses *)

\* A message more is one number more.
LEMMA OneMore ==
  ASSUME Typed, NEW s \in Sessions, Len(messages) < MaxMessages,
         messages' = Append(messages, s)
  PROVE  /\ messages' \in Seq(Sessions) /\ Len(messages') <= MaxMessages
         /\ Len(messages') = Len(messages) + 1 /\ Len(messages') \in Nat
         /\ DOMAIN messages' = DOMAIN messages \cup {Len(messages')}
         /\ \A r : MessagesOf(r)' \subseteq MessagesOf(r) \cup {Len(messages')}
  <1>1. messages \in Seq(Sessions) /\ Len(messages) \in Nat /\ MaxMessages \in Nat
    BY PanelsAssumption DEF Typed, PanelsAssumption
  <1>2. /\ messages' \in Seq(Sessions) /\ Len(messages') = Len(messages) + 1
        /\ \A m \in 1..Len(messages) : messages'[m] = messages[m]
    BY <1>1
  <1>3. DOMAIN messages = 1..Len(messages) /\ DOMAIN messages' = 1..Len(messages')
    BY <1>1, <1>2
  <1>4. DOMAIN messages' = DOMAIN messages \cup {Len(messages')}
    BY <1>1, <1>2, <1>3
  <1>5. \A r : MessagesOf(r)' \subseteq MessagesOf(r) \cup {Len(messages')}
    BY <1>2, <1>3, <1>4 DEF MessagesOf
  <1> QED
    BY <1>1, <1>2, <1>4, <1>5

LEMMA SendMessageKeeps ==
  ASSUME Audience, NEW s \in Sessions, SendMessage(s)
  PROVE  Audience'
  <1> DEFINE m == Len(messages')
  <1>1. /\ panel \in [Panels -> PanelRecords] /\ Typed
        /\ Len(messages) < MaxMessages /\ messages' = Append(messages, s)
        /\ panel' = [p \in Panels |->
             IF p \in Connected THEN [panel[p] EXCEPT !.knows = panel[p].knows \cup {m}]
             ELSE panel[p]]
        /\ UNCHANGED <<online, ghosts, status, updates, posted, execution>>
    BY DEF SendMessage, Audience, Typed
  <1>2. /\ messages' \in Seq(Sessions) /\ m <= MaxMessages /\ m \in Nat
        /\ DOMAIN messages' = DOMAIN messages \cup {m}
        /\ \A r : MessagesOf(r)' \subseteq MessagesOf(r) \cup {m}
    BY <1>1, OneMore
  <1> HIDE DEF m
  <1>3. /\ panel' \in [Panels -> PanelRecords]
        /\ \A q \in Panels : /\ panel'[q].at = panel[q].at /\ panel'[q].status = panel[q].status
                             /\ panel'[q].count = panel[q].count /\ panel'[q].heard = panel[q].heard
                             /\ panel'[q].counted = panel[q].counted
                             /\ panel'[q].session = panel[q].session
                             /\ panel'[q].knows \subseteq panel[q].knows \cup {m}
                             /\ q \in Connected => panel'[q].knows = panel[q].knows \cup {m}
    BY <1>1, <1>2 DEF PanelRecords
  <1>4. \A q \in Panels : panel[q].at = "joined" => q \in Connected
    BY DEF Connected
  <1>5. \A q \in Panels : Current(q)'
    <2> SUFFICES ASSUME NEW q \in Panels, panel'[q].at = "joined"
                 PROVE  \A r \in Sessions : panel'[q].session = r =>
                          /\ MessagesOf(r)' \subseteq panel'[q].knows \cup posted'
                          /\ panel'[q].heard = 0 => panel'[q].status = status'[r]
      BY DEF Current
    <2>1. \A r \in Sessions : panel[q].session = r =>
            /\ MessagesOf(r) \subseteq panel[q].knows \cup posted
            /\ panel[q].heard = 0 => panel[q].status = status[r]
      BY <1>3 DEF Audience, Current
    <2> QED
      BY <1>1, <1>2, <1>3, <1>4, <2>1
  <1>6. \A q \in Panels : Counted(q)'
    <2>1. \A r : Of(online, r)' = Of(online, r)
      BY <1>1, <1>3 DEF Of, Audience, Typed
    <2> QED
      BY <1>1, <1>3, <2>1 DEF Audience, Counted
  <1>7. \A q \in Panels : panel'[q].knows \subseteq DOMAIN messages'
    BY <1>2, <1>3 DEF Audience, Typed
  <1>8. Typed'
    <2>1. \A q \in Panels : panel'[q].heard <= Len(updates')
      BY <1>1, <1>3 DEF Typed
    <2> QED
      BY <1>1, <1>2, <1>3, <1>7, <2>1 DEF Typed, m
  <1>9. Recorded' /\ Executed'
    BY <1>1 DEF Audience, Recorded, Executed
  <1> QED
    BY <1>5, <1>6, <1>8, <1>9 DEF Audience

LEMMA PostMessageKeeps ==
  ASSUME Audience, NEW s \in Sessions, PostMessage(s)
  PROVE  Audience'
  <1> DEFINE m == Len(messages')
  <1>1. /\ Typed /\ Len(messages) < MaxMessages /\ messages' = Append(messages, s)
        /\ posted' = posted \cup {m}
        /\ UNCHANGED <<online, ghosts, panel, status, updates, execution>>
    BY DEF PostMessage, Audience, panels
  <1>2. /\ messages' \in Seq(Sessions) /\ m <= MaxMessages /\ m \in Nat
        /\ DOMAIN messages' = DOMAIN messages \cup {m}
        /\ \A r : MessagesOf(r)' \subseteq MessagesOf(r) \cup {m}
    BY <1>1, OneMore
  <1> HIDE DEF m
  <1>3. \A q \in Panels : Current(q)'
    <2> SUFFICES ASSUME NEW q \in Panels, panel[q].at = "joined"
                 PROVE  \A r \in Sessions : panel[q].session = r =>
                          /\ MessagesOf(r)' \subseteq panel[q].knows \cup posted'
                          /\ panel[q].heard = 0 => panel[q].status = status[r]
      BY <1>1 DEF Current
    <2>1. \A r \in Sessions : panel[q].session = r =>
            /\ MessagesOf(r) \subseteq panel[q].knows \cup posted
            /\ panel[q].heard = 0 => panel[q].status = status[r]
      BY DEF Audience, Current
    <2> QED
      BY <1>1, <1>2, <2>1
  <1>4. \A q \in Panels : Counted(q)'
    BY <1>1 DEF Audience, Counted, Of
  <1> QED
    BY <1>1, <1>2, <1>3, <1>4 DEF Audience, Typed, Executed, Recorded, m

\* An update is the last of its session, and whoever has joined hears it.
LEMMA StatusReaches ==
  ASSUME Audience, NEW s \in Sessions, NEW st \in Statuses, SetStatus(s, st),
         UNCHANGED <<messages, posted, online, ghosts>>
  PROVE  /\ status' = [status EXCEPT ![s] = st] /\ status' \in [Sessions -> Statuses]
         /\ updates' \in Seq([of : Sessions, status : Statuses]) /\ Recorded'
         /\ panel' \in [Panels -> PanelRecords]
         /\ \A q \in Panels : /\ panel'[q].knows \subseteq DOMAIN messages
                              /\ panel'[q].heard <= Len(updates')
         /\ \A q \in Panels : Current(q)' /\ Counted(q)'
  <1> DEFINE n == Len(updates')
             Updates == [of : Sessions, status : Statuses]
             new == [of |-> s, status |-> st]
  <1>1. /\ panel \in [Panels -> PanelRecords] /\ status \in [Sessions -> Statuses]
        /\ updates \in Seq(Updates)
        /\ status' = [status EXCEPT ![s] = st] /\ updates' = Append(updates, new)
        /\ panel' = [p \in Panels |->
             IF p \in Connected THEN [panel[p] EXCEPT !.heard = n] ELSE panel[p]]
    BY DEF SetStatus, Audience, Typed
  <1>2. new \in Updates /\ new.of = s /\ new.status = st
    OBVIOUS
  <1> HIDE DEF new, Updates
  <1>3. /\ updates' \in Seq(Updates) /\ n = Len(updates) + 1 /\ Len(updates) \in Nat
        /\ updates'[n] = new /\ \A u \in 1..Len(updates) : updates'[u] = updates[u]
        /\ DOMAIN updates = 1..Len(updates) /\ DOMAIN updates' = 1..n
    BY <1>1, <1>2
  <1>4. n \in Nat /\ n > 0
    BY <1>3
  <1> HIDE DEF n
  <1>5. Recorded'
    <2> SUFFICES ASSUME NEW u \in DOMAIN updates',
                        \A v \in DOMAIN updates' : v > u => updates'[v].of # updates'[u].of
                 PROVE  status'[updates'[u].of] = updates'[u].status
      BY DEF Recorded
    <2>1. CASE u = n
      BY <1>1, <1>2, <1>3, <2>1
    <2>2. CASE u # n
      <3>1. /\ u \in DOMAIN updates /\ updates'[u] = updates[u] /\ n > u /\ n \in DOMAIN updates'
            /\ \A v \in DOMAIN updates : v \in DOMAIN updates' /\ updates'[v] = updates[v]
        BY <1>3, <1>4, <2>2
      <3>2. updates[u].of # s
        BY <1>2, <1>3, <3>1
      <3>3. \A v \in DOMAIN updates : v > u => updates[v].of # updates[u].of
        BY <3>1
      <3>4. status[updates[u].of] = updates[u].status
        BY <3>1, <3>3 DEF Audience, Recorded
      <3>5. updates[u] \in Updates
        BY <1>1, <1>3, <3>1
      <3>6. updates[u].of \in Sessions
        BY <3>5 DEF Updates
      <3> QED
        BY <1>1, <3>1, <3>2, <3>4, <3>6
    <2> QED
      BY <2>1, <2>2
  <1>6. /\ panel' \in [Panels -> PanelRecords]
        /\ \A q \in Panels : /\ panel'[q].at = panel[q].at /\ panel'[q].count = panel[q].count
                             /\ panel'[q].counted = panel[q].counted
                             /\ panel'[q].session = panel[q].session
                             /\ panel'[q].knows = panel[q].knows
                             /\ panel'[q].heard = IF q \in Connected THEN n ELSE panel[q].heard
    BY <1>1, <1>4 DEF PanelRecords
  <1>7. \A q \in Panels : panel[q].at = "joined" => q \in Connected
    BY DEF Connected
  <1>8. \A q \in Panels : Current(q)'
    BY <1>4, <1>6, <1>7 DEF Audience, Current, MessagesOf
  <1>9. \A q \in Panels : Counted(q)'
    <2>1. \A r : Of(online, r)' = Of(online, r)
      BY <1>6 DEF Of, Audience, Typed
    <2> QED
      BY <1>6, <2>1 DEF Audience, Counted
  <1>10. \A q \in Panels : panel'[q].knows \subseteq DOMAIN messages /\ panel'[q].heard <= n
    <2>1. \A q \in Panels : panel[q].heard \in Nat /\ panel[q].heard <= Len(updates)
      BY <1>1 DEF Audience, Typed, PanelRecords
    <2> QED
      BY <1>3, <1>4, <1>6, <2>1 DEF Audience, Typed
  <1>11. status' \in [Sessions -> Statuses]
    BY <1>1
  <1> QED
    BY <1>1, <1>3, <1>5, <1>6, <1>8, <1>9, <1>10, <1>11 DEF Updates, n

LEMMA ExecutionKeeps ==
  ASSUME Audience, NEW e \in Executions, Execute(e) \/ AgentEnds(e) \/ Complete(e)
  PROVE  Audience'
  <1>1. execution \in [Executions -> Handlers] /\ execution[e] \in Handlers
    BY DEF Audience, Typed
  <1>0. PICK s \in Sessions : s = execution[e].of
    BY <1>1 DEF Handlers
  <1>2. status \in [Sessions -> Statuses]
    BY DEF Audience, Typed
  <1>3. CASE Execute(e)
    <2>1. /\ execution' = [execution EXCEPT ![e].at = "agents"]
          /\ UNCHANGED <<messages, posted, online, ghosts>> /\ SetStatus(s, "executing")
      BY <1>0, <1>3 DEF Execute
    <2>2. /\ execution' \in [Executions -> Handlers] /\ execution'[e].at = "agents"
          /\ execution'[e].of = s /\ \A f \in Executions : f # e => execution'[f] = execution[f]
      BY <1>0, <1>1, <2>1 DEF Handlers
    <2>3. "executing" \in Statuses
      BY DEF Statuses
    <2>4. /\ status' = [status EXCEPT ![s] = "executing"] /\ status' \in [Sessions -> Statuses]
          /\ updates' \in Seq([of : Sessions, status : Statuses]) /\ Recorded'
          /\ panel' \in [Panels -> PanelRecords]
          /\ \A q \in Panels : /\ panel'[q].knows \subseteq DOMAIN messages
                               /\ panel'[q].heard <= Len(updates')
          /\ \A q \in Panels : Current(q)' /\ Counted(q)'
      BY <1>1, <2>1, <2>3, StatusReaches
    <2>5. Executed'
      <3>1. ASSUME NEW r \in Sessions, status'[r] = "executing"
            PROVE  \E f \in Executions : execution'[f].of = r /\ execution'[f].at = "agents"
        <4>1. CASE r = s
          BY <2>2, <4>1
        <4>2. CASE r # s
          <5>1. status[r] = "executing"
            BY <1>2, <2>4, <3>1, <4>2
          <5>2. PICK f \in Executions : execution[f].of = r /\ execution[f].at = "agents"
            BY <5>1 DEF Audience, Executed
          <5> QED
            BY <1>0, <2>2, <4>2, <5>2
        <4> QED
          BY <4>1, <4>2
      <3> QED
        BY <3>1 DEF Executed
    <2> QED
      BY <2>1, <2>2, <2>4, <2>5 DEF Audience, Typed
  <1>4. CASE AgentEnds(e)
    <2>1. /\ execution' = [execution EXCEPT ![e].heard = execution[e].heard + 1]
          /\ execution[e].heard < Agents
          /\ UNCHANGED <<status, updates, messages, posted, online, ghosts, panel>>
      BY <1>4 DEF AgentEnds, panels
    <2>2. execution[e].heard + 1 \in 0..Agents
      BY <1>1, <2>1, AgentsAssumption DEF AgentsAssumption, Handlers
    <2>3. /\ execution' \in [Executions -> Handlers]
          /\ \A f \in Executions : execution'[f].at = execution[f].at /\ execution'[f].of = execution[f].of
      BY <1>1, <2>1, <2>2 DEF Handlers
    <2>4. \A q \in Panels : Current(q)' /\ Counted(q)'
      BY <2>1 DEF Audience, Current, Counted, Of, MessagesOf
    <2>5. Typed'
      BY <2>1, <2>3 DEF Audience, Typed
    <2> QED
      BY <2>1, <2>3, <2>4, <2>5 DEF Audience, Executed, Recorded
  <1>5. CASE Complete(e)
    <2>1. /\ execution' = [execution EXCEPT ![e].at = "over"]
          /\ UNCHANGED <<messages, posted, online, ghosts>> /\ SetStatus(s, "complete")
      BY <1>0, <1>5 DEF Complete
    <2>2. /\ execution' \in [Executions -> Handlers]
          /\ \A f \in Executions : f # e => execution'[f] = execution[f]
      BY <1>1, <2>1 DEF Handlers
    <2>3. "complete" \in Statuses
      BY DEF Statuses
    <2>5. /\ status' = [status EXCEPT ![s] = "complete"] /\ status' \in [Sessions -> Statuses]
          /\ updates' \in Seq([of : Sessions, status : Statuses]) /\ Recorded'
          /\ panel' \in [Panels -> PanelRecords]
          /\ \A q \in Panels : /\ panel'[q].knows \subseteq DOMAIN messages
                               /\ panel'[q].heard <= Len(updates')
          /\ \A q \in Panels : Current(q)' /\ Counted(q)'
      BY <1>1, <2>1, <2>3, StatusReaches
    <2>6. Executed'
      <3>1. ASSUME NEW r \in Sessions, status'[r] = "executing"
            PROVE  \E f \in Executions : execution'[f].of = r /\ execution'[f].at = "agents"
        <4>1. r # s /\ status[r] = "executing"
          BY <1>2, <2>5, <3>1
        <4>2. PICK f \in Executions : execution[f].of = r /\ execution[f].at = "agents"
          BY <4>1 DEF Audience, Executed
        <4> QED
          BY <1>0, <2>2, <4>1, <4>2
      <3> QED
        BY <3>1 DEF Executed
    <2> QED
      BY <2>1, <2>2, <2>5, <2>6 DEF Audience, Typed
  <1> QED
    BY <1>3, <1>4, <1>5

-----------------------------------------------------------------------------
(* LiveHub: every step *)

LEMMA HubKeepsBroadcasts ==
  ASSUME Broadcasts, [HubNext]_hubVars
  PROVE  Broadcasts'
  <1>1. CASE UNCHANGED hub
    BY <1>1 DEF hub, Broadcasts, CastSound, SentTo, Known
  <1>2. ASSUME NEW s \in Sockets, Connect(s) \/ PeerLeaves(s) \/ Disconnected(s) \/ EndpointFails(s)
        PROVE  Broadcasts'
    BY <1>2, ConnectKeeps, EndpointKeeps
  <1>3. ASSUME NEW b \in Solvers, Solved(b) \/ Sent(b)
        PROVE  Broadcasts'
    BY <1>3, SendingKeeps
  <1>4. ASSUME NEW p \in Panels, \/ Open(p) \/ JoinSession(p) \/ SendState(p)
                                 \/ LeaveSession(p) \/ CloseSocket(p) \/ LoseSocket(p)
        PROVE  UNCHANGED hub
    BY <1>4 DEF Open, JoinSession, SendState, LeaveSession, CloseSocket, LoseSocket
  <1>5. ASSUME NEW s \in Sessions, MissPing(s) \/ SendMessage(s) \/ PostMessage(s)
        PROVE  UNCHANGED hub
    BY <1>5 DEF MissPing, SendMessage, PostMessage
  <1>6. ASSUME NEW e \in Executions, Execute(e) \/ AgentEnds(e) \/ Complete(e)
        PROVE  UNCHANGED hub
    BY <1>6 DEF Execute, AgentEnds, Complete
  <1>7. hubVars' = hubVars => UNCHANGED hub
    BY DEF hubVars, hub
  <1> QED
    BY <1>1, <1>2, <1>3, <1>4, <1>5, <1>6, <1>7 DEF HubNext

LEMMA HubKeepsAudience ==
  ASSUME Audience, [HubNext]_hubVars
  PROVE  Audience'
  <1>1. CASE UNCHANGED <<session, panels>>
    <2>1. UNCHANGED <<status, updates, messages, posted, execution, online, ghosts, panel>>
      BY <1>1 DEF session, panels
    <2>2. \A q \in Panels : Current(q)' /\ Counted(q)'
      BY <2>1 DEF Audience, Current, Counted, Of, MessagesOf
    <2> QED
      BY <2>1, <2>2 DEF Audience, Typed, Executed, Recorded
  <1>2. ASSUME NEW s \in Sockets, Connect(s) \/ PeerLeaves(s) \/ Disconnected(s) \/ EndpointFails(s)
        PROVE  UNCHANGED <<session, panels>>
    BY <1>2 DEF Connect, PeerLeaves, Disconnected, EndpointFails
  <1>3. ASSUME NEW b \in Solvers, Solved(b) \/ Sent(b)
        PROVE  UNCHANGED <<session, panels>>
    BY <1>3 DEF Solved, Sent
  <1>4. ASSUME NEW p \in Panels, \/ Open(p) \/ JoinSession(p) \/ SendState(p)
                                 \/ LeaveSession(p) \/ CloseSocket(p) \/ LoseSocket(p)
        PROVE  Audience'
    BY <1>4, OpenKeeps, JoinKeeps, SendStateKeeps, LeaveKeeps, GoneKeeps
  <1>5. hubVars' = hubVars => UNCHANGED <<session, panels>>
    BY DEF hubVars, session, panels
  <1> QED
    BY <1>1, <1>2, <1>3, <1>4, <1>5, MissPingKeeps, SendMessageKeeps, PostMessageKeeps, ExecutionKeeps
       DEF HubNext

LEMMA HubInvariance == HubSpec => [](Broadcasts /\ Audience)
  <1>1. Broadcasts /\ [HubNext]_hubVars => Broadcasts'
    BY HubKeepsBroadcasts
  <1>2. Audience /\ [HubNext]_hubVars => Audience'
    BY HubKeepsAudience
  <1> QED
    BY <1>1, <1>2, InitBroadcasts, InitAudience, PTL DEF HubSpec

\* Whoever joins and leaves the list while a broadcast goes through it, nobody is told of
\* a goal twice, and the broadcast misses no more connections than have left the list
\* after it had sent to them (AppState.broadcast of api/server.py).
THEOREM BroadcastsKeepToTheList == HubSpec => []BroadcastSound
  BY HubInvariance, BroadcastsAreSound, PTL

\* A panel that has joined shows all messages of its session but those posted over HTTP,
\* and its session's status while the last update it heard is the last of that session (or
\* it has heard none); and a session that is executing is executed (on_join_session,
\* on_execute_session and on_send_message of api/server.py).
THEOREM PanelsStayCurrent == HubSpec => []PanelsCurrent
  <1>1. ASSUME Audience
        PROVE  PanelsCurrent
    <2>0. \A p \in Panels : panel[p].session \in Sessions
      BY <1>1 DEF Audience, Typed, PanelRecords
    <2> SUFFICES ASSUME NEW p \in Panels, panel[p].at = "joined"
                 PROVE  /\ MessagesOf(panel[p].session) \subseteq panel[p].knows \cup posted
                        /\ panel[p].heard = 0 \/ HeardLast(p) => Shown(p) = status[panel[p].session]
                        /\ status[panel[p].session] = "executing" =>
                             \E e \in Executions : execution[e].of = panel[p].session
                                                   /\ execution[e].at = "agents"
      BY DEF PanelsCurrent
    <2>1. /\ MessagesOf(panel[p].session) \subseteq panel[p].knows \cup posted
          /\ panel[p].heard = 0 => Shown(p) = status[panel[p].session]
      BY <1>1, <2>0 DEF Audience, Current, Shown
    <2>2. ASSUME panel[p].heard # 0, HeardLast(p)
          PROVE  Shown(p) = status[panel[p].session]
      <3>1. /\ panel[p].heard \in Nat /\ panel[p].heard <= Len(updates)
            /\ updates \in Seq([of : Sessions, status : Statuses])
        BY <1>1 DEF Audience, Typed, PanelRecords
      <3>2. panel[p].heard \in DOMAIN updates
        BY <2>2, <3>1
      <3> QED
        BY <1>1, <2>2, <3>2 DEF Audience, Recorded, HeardLast, Shown
    <2> QED
      BY <1>1, <2>0, <2>1, <2>2 DEF Audience, Executed
  <1> QED
    BY <1>1, HubInvariance, PTL

\* No panel that is online shows a number of panels online that is too low, while the
\* last count it heard is of its own session (the _collab_online counts of api/server.py).
THEOREM EveryPanelIsCounted == HubSpec => []NobodyUncounted
  <1>1. Typed => online \subseteq Panels /\ \A p \in Panels : panel[p].session \in Sessions
    BY DEF Typed, PanelRecords
  <1>2. Audience => NobodyUncounted
    BY <1>1 DEF Audience, Counted, NobodyUncounted
  <1> QED
    BY <1>2, HubInvariance, PTL

\* The variables of the hub keep their types.
THEOREM HubTypes == HubSpec => []HubTypeOK
  <1>1. Broadcasts /\ Audience => HubTypeOK
    BY DEF Broadcasts, Audience, Typed, Handlers, HubTypeOK
  <1> QED
    BY <1>1, HubInvariance, PTL
=============================================================================
