------------------------- MODULE CollabSessionProofs ------------------------
(***************************************************************************)
(* Theorems about CollabSession, for any number of executions, of panels   *)
(* and of waiting chunks.  Both invariants speak of panels and of the row  *)
(* at once; what makes them inductive is that a panel which believes an    *)
(* execution runs, and never missed a broadcast, has one over sockets to   *)
(* thank for it.  Of the types, the bound on the summaries needs more: a   *)
(* summary is written only by an execution that is done with it.           *)
(***************************************************************************)
EXTENDS CollabSession, FiniteSetTheorems, TLAPS

\* Executions whose events are broadcast.
RunningBySocket == Running \ Streamed

\* The button of a panel that missed nothing is disabled by a running execution
\* whose end the panel will hear.
BusyHearsTheEnd ==
  \A p \in Panels : busy[p] /\ ~away[p] => joined[p] /\ RunningBySocket # {}

\* What the proofs need of the types.
Shapes ==
  /\ status \in Statuses
  /\ pc \in [Executions -> {"idle", "running"} \cup Over]
  /\ joined \in [Panels -> BOOLEAN]
  /\ shown \in [Panels -> Statuses]
  /\ busy \in [Panels -> BOOLEAN]
  /\ away \in [Panels -> BOOLEAN]
  /\ restarted \in BOOLEAN

IInv == Shapes /\ BusyHearsTheEnd /\ ExecutingMeansRunning /\ PanelsShowTheRow

-----------------------------------------------------------------------------

LEMMA InitEstablishes == Init => IInv
  <1> SUFFICES ASSUME Init
               PROVE  IInv
    OBVIOUS
  <1>1. Shapes
    BY DEF Init, Shapes, Statuses
  <1>2. BusyHearsTheEnd /\ ExecutingMeansRunning
    BY DEF Init, BusyHearsTheEnd, ExecutingMeansRunning
  <1>3. PanelsShowTheRow
    BY DEF Init, PanelsShowTheRow
  <1> QED
    BY <1>1, <1>2, <1>3 DEF IInv

\* Starting to run.
LEMMA BeginKeeps ==
  ASSUME IInv, NEW e \in Executions, Begin(e)
  PROVE  IInv'
  <1> USE DEF IInv, Shapes
  <1>1. Shapes'
    BY DEF Begin, EmitStatus, EmitBusy, UpdateStatus, Told, Statuses, Over
  <1>2. Running \subseteq Running' /\ RunningBySocket \subseteq RunningBySocket'
    BY DEF Begin, Running, RunningBySocket
  <1>3. BusyHearsTheEnd'
    <2> SUFFICES ASSUME NEW p \in Panels, busy'[p], ~away'[p]
                 PROVE  joined'[p] /\ RunningBySocket' # {}
      BY DEF BusyHearsTheEnd
    <2>1. busy[p] /\ ~away[p] /\ joined' = joined
      BY DEF Begin, EmitBusy
    <2> QED
      BY <1>2, <2>1 DEF BusyHearsTheEnd
  <1>4. ExecutingMeansRunning'
    <2>1. CASE status' = "executing"
      <3>1. pc'[e] = "running"
        BY <2>1 DEF Begin, UpdateStatus
      <3> QED
        BY <3>1 DEF ExecutingMeansRunning, Running
    <2> QED
      BY <2>1 DEF ExecutingMeansRunning
  <1>5. PanelsShowTheRow'
    <2> SUFFICES ASSUME NEW p \in Panels, joined'[p], shown'[p] # status',
                        status' \notin {"error", "none"}
                 PROVE  \E f \in Streamed : pc'[f] # "idle"
      BY DEF PanelsShowTheRow
    <2>1. status' = "executing" /\ pc'[e] = "running"
      BY DEF Begin, UpdateStatus
    <2>2. e \in Streamed
      BY <2>1 DEF Begin, EmitStatus, Told
    <2> QED
      BY <2>1, <2>2
  <1> QED
    BY <1>1, <1>3, <1>4, <1>5

\* The end that is told, of an execution that has run.
LEMMA EndCompleteKeeps ==
  ASSUME IInv, NEW e \in Executions, pc[e] = "running", EndComplete(e)
  PROVE  IInv'
  <1> USE DEF IInv, Shapes
  <1>1. Shapes'
    BY DEF EndComplete, EmitStatus, EmitBusy, UpdateStatus, Told, Statuses, Over
  <1>2. BusyHearsTheEnd'
    <2> SUFFICES ASSUME NEW p \in Panels, busy'[p], ~away'[p]
                 PROVE  joined'[p] /\ RunningBySocket' # {}
      BY DEF BusyHearsTheEnd
    <2>1. busy[p] /\ ~away[p] /\ joined' = joined /\ ~Told(e, p)
      BY DEF EndComplete, EmitBusy
    <2>2. joined[p] /\ RunningBySocket # {}
      BY <2>1 DEF BusyHearsTheEnd
    <2>3. e \in Streamed
      BY <2>1, <2>2 DEF Told
    <2>4. RunningBySocket \subseteq RunningBySocket'
      BY <2>3 DEF RunningBySocket, Running, EndComplete
    <2> QED
      BY <2>1, <2>2, <2>4
  <1>3. ExecutingMeansRunning'
    BY DEF ExecutingMeansRunning, EndComplete, UpdateStatus
  <1>4. PanelsShowTheRow'
    <2> SUFFICES ASSUME NEW p \in Panels, joined'[p], shown'[p] # status',
                        status' \notin {"error", "none"}
                 PROVE  \E f \in Streamed : pc'[f] # "idle"
      BY DEF PanelsShowTheRow
    <2>1. status' = "complete" /\ pc'[e] = "done"
      BY DEF EndComplete, UpdateStatus
    <2>2. e \in Streamed
      BY <2>1 DEF EndComplete, EmitStatus, Told
    <2> QED
      BY <2>1, <2>2
  <1> QED
    BY <1>1, <1>2, <1>3, <1>4

\* An agent started: the panels that are told disable the button.
LEMMA TakeStartKeeps ==
  ASSUME IInv, NEW e \in Executions, TakeStart(e)
  PROVE  IInv'
  <1> USE DEF IInv, Shapes
  <1>1. Shapes'
    BY DEF TakeStart, EmitBusy, Told
  <1>2. BusyHearsTheEnd'
    <2> SUFFICES ASSUME NEW p \in Panels, busy'[p], ~away'[p]
                 PROVE  joined'[p] /\ RunningBySocket' # {}
      BY DEF BusyHearsTheEnd
    <2>1. RunningBySocket' = RunningBySocket /\ joined' = joined /\ away' = away
      BY DEF TakeStart, RunningBySocket, Running
    <2>2. CASE Told(e, p)
      BY <2>1, <2>2 DEF Told, TakeStart, RunningBySocket, Running
    <2>3. CASE ~Told(e, p)
      <3>1. busy[p]
        BY <2>3 DEF TakeStart, EmitBusy
      <3> QED
        BY <2>1, <3>1 DEF BusyHearsTheEnd
    <2> QED
      BY <2>2, <2>3
  <1>3. ExecutingMeansRunning' /\ PanelsShowTheRow'
    BY DEF ExecutingMeansRunning, PanelsShowTheRow, Running, TakeStart
  <1> QED
    BY <1>1, <1>2, <1>3

\* What the engine does touches neither row nor panels.
LEMMA EngineKeeps ==
  ASSUME IInv, NEW e \in Executions, EngineStarts(e) \/ EngineEnds(e) \/ EngineBreaks(e)
  PROVE  IInv'
  <1>1. UNCHANGED <<status, pc, joined, shown, busy, away, restarted>>
    BY DEF EngineStarts, EngineEnds, EngineBreaks, Receive, panelVars
  <1> QED
    BY <1>1 DEF IInv, Shapes, BusyHearsTheEnd, ExecutingMeansRunning, PanelsShowTheRow,
                RunningBySocket, Running

LEMMA JoinKeeps ==
  ASSUME IInv, NEW p \in Panels, Join(p)
  PROVE  IInv'
  <1> USE DEF IInv, Shapes
  <1>1. Shapes'
    BY DEF Join, executionVars
  <1>2. BusyHearsTheEnd' /\ ExecutingMeansRunning'
    BY DEF BusyHearsTheEnd, ExecutingMeansRunning, RunningBySocket, Running, Join, executionVars
  <1>3. PanelsShowTheRow'
    BY DEF PanelsShowTheRow, Join, executionVars
  <1> QED
    BY <1>1, <1>2, <1>3

\* A panel that leaves while it waits for an end is away from then on.
LEMMA DisconnectKeeps ==
  ASSUME IInv, NEW p \in Panels, Disconnect(p)
  PROVE  IInv'
  <1> USE DEF IInv, Shapes
  <1>1. Shapes'
    BY DEF Disconnect, executionVars
  <1>2. BusyHearsTheEnd'
    <2> SUFFICES ASSUME NEW q \in Panels, busy'[q], ~away'[q]
                 PROVE  joined'[q] /\ RunningBySocket' # {}
      BY DEF BusyHearsTheEnd
    <2>1. busy[q] /\ ~away[q] /\ RunningBySocket' = RunningBySocket
      BY DEF Disconnect, executionVars, RunningBySocket, Running
    <2>2. q # p
      BY <2>1 DEF BusyHearsTheEnd, Disconnect, RunningBySocket
    <2> QED
      BY <2>1, <2>2 DEF BusyHearsTheEnd, Disconnect
  <1>3. ExecutingMeansRunning'
    BY DEF ExecutingMeansRunning, Running, Disconnect, executionVars
  <1>4. PanelsShowTheRow'
    BY DEF PanelsShowTheRow, Disconnect, executionVars
  <1> QED
    BY <1>1, <1>2, <1>3, <1>4

LEMMA DeleteKeeps ==
  ASSUME IInv, Delete
  PROVE  IInv'
  BY DEF IInv, Shapes, BusyHearsTheEnd, ExecutingMeansRunning, PanelsShowTheRow,
         RunningBySocket, Running, Delete, executionVars, panelVars, Statuses

LEMMA RestartKeeps ==
  ASSUME IInv, Restart
  PROVE  IInv'
  <1> USE DEF IInv, Shapes
  <1>1. Shapes'
    BY DEF Restart, Over
  <1>2. BusyHearsTheEnd'
    BY DEF BusyHearsTheEnd, Restart
  <1>3. ExecutingMeansRunning' /\ PanelsShowTheRow'
    BY DEF ExecutingMeansRunning, PanelsShowTheRow, Restart
  <1> QED
    BY <1>1, <1>2, <1>3

\* Every step keeps the invariant.
LEMMA NextKeeps == IInv /\ [Next]_vars => IInv'
  <1> SUFFICES ASSUME IInv, [Next]_vars
               PROVE  IInv'
    OBVIOUS
  <1>1. ASSUME NEW e \in Executions, ClickExecute(e) \/ RequestStream(e)
        PROVE  IInv'
    BY <1>1, BeginKeeps DEF ClickExecute, RequestStream
  <1>2. ASSUME NEW e \in Executions, TakeStart(e)
        PROVE  IInv'
    BY <1>2, TakeStartKeeps
  <1>3. ASSUME NEW e \in Executions, TakeDone(e) \/ Drain(e)
        PROVE  IInv'
    BY <1>3, EndCompleteKeeps DEF TakeDone, Drain
  <1>4. ASSUME NEW e \in Executions, EngineStarts(e) \/ EngineEnds(e) \/ EngineBreaks(e)
        PROVE  IInv'
    BY <1>4, EngineKeeps
  <1>5. ASSUME NEW p \in Panels, Join(p) \/ Disconnect(p)
        PROVE  IInv'
    BY <1>5, JoinKeeps, DisconnectKeeps
  <1>6. CASE Delete
    BY <1>6, DeleteKeeps
  <1>7. CASE Restart
    BY <1>7, RestartKeeps
  <1>8. CASE UNCHANGED vars
    BY <1>8 DEF vars, IInv, Shapes, BusyHearsTheEnd, ExecutingMeansRunning,
                PanelsShowTheRow, RunningBySocket, Running
  <1> QED
    BY <1>1, <1>2, <1>3, <1>4, <1>5, <1>6, <1>7, <1>8 DEF Next

LEMMA Invariance == Spec => []IInv
  BY InitEstablishes, NextKeeps, PTL DEF Spec

-----------------------------------------------------------------------------

\* The broadcasts and the state sent on joining (collab.gateway.ts,
\* orchestrator.service.ts) keep every joined panel at the row's status, however
\* many executions overlap and panels come and go.
THEOREM PanelsAgree == Spec => []PanelsShowTheRow
  <1>1. IInv => PanelsShowTheRow
    BY DEF IInv
  <1> QED
    BY <1>1, Invariance, PTL

\* Neither the row (runSessionStream) nor the button of a panel that missed
\* nothing (CollabPanel.tsx) is left executing when no execution runs.
THEOREM NobodyLeftExecuting == Spec => []NothingStuckExecuting
  <1>1. IInv => NothingStuckExecuting
    BY DEF IInv, BusyHearsTheEnd, NothingStuckExecuting, BusyMeansRunning, RunningBySocket
  <1> QED
    BY <1>1, Invariance, PTL

\* An execution says done only with its queue read to the end, or to the engine's
\* own "done" (runSessionStream over solveStream's queue).
THEOREM QueuesAreRead == Spec => NothingUnread
  <1>1. IInv /\ [Next]_vars =>
          [\A e \in Executions :
             pc[e] = "running" /\ pc'[e] = "done" =>
               \/ queue[e] = <<>>
               \/ Head(queue[e]) = "done"]_vars
    <2> SUFFICES ASSUME IInv, Next, NEW e \in Executions, pc[e] = "running", pc'[e] = "done"
                 PROVE  queue[e] = <<>> \/ Head(queue[e]) = "done"
      OBVIOUS
    <2>1. ASSUME NEW f \in Executions, TakeDone(f) \/ Drain(f)
          PROVE  f = e
      BY <2>1 DEF TakeDone, Drain, EndComplete, IInv, Shapes
    <2>2. ASSUME NEW f \in Executions, ClickExecute(f) \/ RequestStream(f)
          PROVE  FALSE
      BY <2>2 DEF ClickExecute, RequestStream, Begin, IInv, Shapes
    <2>3. ASSUME NEW f \in Executions,
                 TakeStart(f) \/ EngineStarts(f) \/ EngineEnds(f) \/ EngineBreaks(f)
          PROVE  FALSE
      BY <2>3 DEF TakeStart, EngineStarts, EngineEnds, EngineBreaks, Receive
    <2>4. ASSUME NEW p \in Panels, Join(p) \/ Disconnect(p)
          PROVE  FALSE
      BY <2>4 DEF Join, Disconnect, executionVars
    <2>5. ~Delete /\ ~Restart
      BY DEF Delete, Restart, executionVars, IInv, Shapes
    <2>6. \E f \in Executions : TakeDone(f) \/ Drain(f)
      BY <2>2, <2>3, <2>4, <2>5 DEF Next
    <2> QED
      BY <2>1, <2>6 DEF TakeDone, Drain
  <1> QED
    BY <1>1, Invariance, PTL DEF Spec, NothingUnread

-----------------------------------------------------------------------------
(* Types *)

Finished == {e \in Executions : pc[e] = "done"}

\* What the theorems above leave out of the types, but for the summaries.
Streams ==
  /\ hasClient \in BOOLEAN
  /\ engine \in [Executions -> {"none", "open"} \cup Closed]
  /\ queue \in [Executions -> Seq({"start", "done"})]
  /\ \A e \in Executions :
       Len(queue[e]) <= MaxQueue /\ (queue[e] # <<>> => pc[e] = "running")
  /\ header \in [Panels -> Statuses]

\* A summary has an execution that is done.
Summarised == summaries \in Nat /\ summaries <= Cardinality(Finished)

TypeInv == Shapes /\ Streams /\ Summarised

LEMMA CountFinished ==
  /\ Cardinality(Finished) \in Nat
  /\ Cardinality(Finished) <= Cardinality(Executions)
  /\ Cardinality(Executions) \in Nat
  <1>1. IsFiniteSet(Executions)
    BY ExecutionsAssumption
  <1>2. Finished \in SUBSET Executions
    BY DEF Finished
  <1>3. IsFiniteSet(Finished) /\ Cardinality(Finished) <= Cardinality(Executions)
    BY <1>1, <1>2, FS_Subset
  <1> QED
    BY <1>1, <1>3, FS_CardinalityType

\* One more execution is done.
LEMMA OneMoreFinished ==
  ASSUME Shapes, NEW e \in Executions, pc[e] = "running",
         pc' = [pc EXCEPT ![e] = "done"]
  PROVE  Cardinality(Finished') = Cardinality(Finished) + 1
  <1>1. Finished' = Finished \cup {e} /\ e \notin Finished
    BY DEF Finished, Shapes
  <1>2. IsFiniteSet(Finished)
    <2>1. Finished \in SUBSET Executions
      BY DEF Finished
    <2> QED
      BY <2>1, ExecutionsAssumption, FS_Subset
  <1> QED
    BY <1>1, <1>2, FS_AddElement

LEMMA InitTypes == Init => TypeInv
  <1> SUFFICES ASSUME Init
               PROVE  TypeInv
    OBVIOUS
  <1>1. Shapes
    BY DEF Init, Shapes, Statuses
  <1>2. Streams
    BY QueueAssumption DEF Init, Streams, Statuses
  <1>3. Summarised
    BY CountFinished DEF Init, Summarised
  <1> QED
    BY <1>1, <1>2, <1>3 DEF TypeInv

LEMMA StreamsKept ==
  ASSUME Shapes, Streams, [Next]_vars
  PROVE  Streams'
  <1> USE QueueAssumption DEF Shapes, Streams
  <1>1. ASSUME NEW e \in Executions, Begin(e)
        PROVE  Streams'
    BY <1>1 DEF Begin, EmitStatus, Closed, Statuses
  <1>2. ASSUME NEW e \in Executions, TakeStart(e)
        PROVE  Streams'
    <2>1. Len(Tail(queue[e])) <= MaxQueue /\ Tail(queue[e]) \in Seq({"start", "done"})
      BY <1>2 DEF TakeStart
    <2> QED
      BY <1>2, <2>1 DEF TakeStart
  <1>3. ASSUME NEW e \in Executions, TakeDone(e) \/ Drain(e)
        PROVE  Streams'
    <2>1. pc' = [pc EXCEPT ![e] = "done"] /\ queue' = [queue EXCEPT ![e] = <<>>]
      BY <1>3 DEF TakeDone, Drain, EndComplete
    <2>2. queue' \in [Executions -> Seq({"start", "done"})]
      BY <2>1
    <2>3. \A f \in Executions :
            Len(queue'[f]) <= MaxQueue /\ (queue'[f] # <<>> => pc'[f] = "running")
      <3> SUFFICES ASSUME NEW f \in Executions
                   PROVE  /\ Len(queue'[f]) <= MaxQueue
                          /\ queue'[f] # <<>> => pc'[f] = "running"
        OBVIOUS
      <3>1. CASE f = e
        BY <2>1, <3>1
      <3>2. CASE f # e
        BY <2>1, <3>2
      <3> QED
        BY <3>1, <3>2
    <2>4. /\ hasClient' \in BOOLEAN
          /\ engine' \in [Executions -> {"none", "open"} \cup Closed]
      BY <1>3 DEF TakeDone, Drain, EndComplete
    <2>5. header' \in [Panels -> Statuses]
      BY <1>3 DEF TakeDone, Drain, EndComplete, EmitStatus, Statuses
    <2> QED
      BY <2>2, <2>3, <2>4, <2>5
  <1>4. ASSUME NEW e \in Executions,
               EngineStarts(e) \/ EngineEnds(e) \/ EngineBreaks(e)
        PROVE  Streams'
    <2>1. ASSUME NEW c \in {"start", "done"}, Receive(e, c)
          PROVE  queue' \in [Executions -> Seq({"start", "done"})]
                 /\ \A f \in Executions :
                      Len(queue'[f]) <= MaxQueue /\ (queue'[f] # <<>> => pc'[f] = "running")
      <3>1. Len(Append(queue[e], c)) <= MaxQueue
            /\ Append(queue[e], c) \in Seq({"start", "done"})
        BY <2>1 DEF Receive
      <3> QED
        BY <2>1, <3>1 DEF Receive
    <2>2. CASE EngineBreaks(e)
      BY <2>2 DEF EngineBreaks, panelVars, Closed
    <2>3. CASE EngineStarts(e)
      BY <2>1, <2>3 DEF EngineStarts, Receive, panelVars
    <2>4. CASE EngineEnds(e)
      BY <2>1, <2>4 DEF EngineEnds, Receive, panelVars, Closed
    <2> QED
      BY <1>4, <2>2, <2>3, <2>4
  <1>5. ASSUME NEW p \in Panels, Join(p) \/ Disconnect(p)
        PROVE  Streams'
    BY <1>5 DEF Join, Disconnect, executionVars
  <1>6. CASE Delete
    BY <1>6 DEF Delete, executionVars, panelVars
  <1>7. CASE Restart
    BY <1>7 DEF Restart
  <1>8. CASE UNCHANGED vars
    BY <1>8 DEF vars
  <1> QED
    BY <1>1, <1>2, <1>3, <1>4, <1>5, <1>6, <1>7, <1>8
       DEF Next, ClickExecute, RequestStream

LEMMA SummarisedKept ==
  ASSUME Shapes, Summarised, [Next]_vars
  PROVE  Summarised'
  <1> USE CountFinished DEF Summarised
  <1>1. ASSUME NEW e \in Executions, TakeDone(e) \/ Drain(e)
        PROVE  Summarised'
    <2>1. Cardinality(Finished') = Cardinality(Finished) + 1
      BY <1>1, OneMoreFinished DEF TakeDone, Drain, EndComplete
    <2>2. summaries' = summaries \/ summaries' = summaries + 1
      BY <1>1 DEF TakeDone, Drain, AddSummary
    <2> QED
      BY <2>1, <2>2
  <1>2. CASE Delete
    <2>1. Finished' = Finished /\ summaries' = 0
      BY <1>2 DEF Delete, executionVars, Finished
    <2> QED
      BY <2>1
  <1>3. ASSUME Finished' = Finished, summaries' = summaries
        PROVE  Summarised'
    BY <1>3
  <1>4. ASSUME NEW e \in Executions, Begin(e)
        PROVE  Summarised'
    <2>1. Finished' = Finished
      BY <1>4 DEF Begin, Finished, Shapes
    <2> QED
      BY <1>3, <1>4, <2>1 DEF Begin
  <1>5. ASSUME NEW e \in Executions,
               TakeStart(e) \/ EngineStarts(e) \/ EngineEnds(e) \/ EngineBreaks(e)
        PROVE  Summarised'
    <2>1. pc' = pc /\ summaries' = summaries
      BY <1>5 DEF TakeStart, EngineStarts, EngineEnds, EngineBreaks, Receive
    <2> QED
      BY <1>3, <2>1 DEF Finished
  <1>6. ASSUME NEW p \in Panels, Join(p) \/ Disconnect(p)
        PROVE  Summarised'
    <2>1. pc' = pc /\ summaries' = summaries
      BY <1>6 DEF Join, Disconnect, executionVars
    <2> QED
      BY <1>3, <2>1 DEF Finished
  <1>7. CASE Restart
    <2>1. Finished' = Finished /\ summaries' = summaries
      BY <1>7 DEF Restart, Finished, Shapes
    <2> QED
      BY <1>3, <2>1
  <1>8. CASE UNCHANGED vars
    BY <1>3, <1>8 DEF vars, Finished
  <1> QED
    BY <1>1, <1>2, <1>4, <1>5, <1>6, <1>7, <1>8
       DEF Next, ClickExecute, RequestStream

\* A session never has more summaries than executions, whatever overlaps and
\* whatever deletion meets; a chunk waits only for an execution that runs; row,
\* panels and streams are well formed.
THEOREM CollabTypes == Spec => []TypeOK
  <1>1. Init => TypeInv
    BY InitTypes
  <1>2. IInv /\ TypeInv /\ [Next]_vars => TypeInv'
    <2> SUFFICES ASSUME IInv, TypeInv, [Next]_vars
                 PROVE  TypeInv'
      OBVIOUS
    <2>1. Shapes'
      BY NextKeeps DEF IInv
    <2>2. Streams' /\ Summarised'
      BY StreamsKept, SummarisedKept DEF TypeInv
    <2> QED
      BY <2>1, <2>2 DEF TypeInv
  <1>3. TypeInv => TypeOK
    BY CountFinished DEF TypeInv, Shapes, Streams, Summarised, TypeOK
  <1> QED
    BY <1>1, <1>2, <1>3, Invariance, PTL DEF Spec
=============================================================================
