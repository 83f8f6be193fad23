---------------------------- MODULE CollabSession ---------------------------
(***************************************************************************)
(* One collaboration session from end to end.  The engine's SolveStream    *)
(* (api/grpc_server.py) feeds the queue of GrpcClientService.solveStream;  *)
(* OrchestratorService.runSessionStream drains it, writes the session row  *)
(* and yields events; the gateway broadcasts them to the panels            *)
(* (CollabPanel.tsx) joined to the session's room, while an execution      *)
(* started over GET /collab/sessions/:id/stream tells only its own request.*)
(* Nothing stops a second execution of a session that is executing.        *)
(*                                                                         *)
(* Abstractions.  Of the chunks, "start" stands for plan and step_start;   *)
(* the others but "done" change no state.  The engine's last chunk after   *)
(* "done" is another "done", which nobody reads.  A broadcast reaches the  *)
(* panels joined at that moment: one lost on its way is a panel that       *)
(* disconnected before it.                                                 *)
(***************************************************************************)
EXTENDS Naturals, Sequences, FiniteSets

CONSTANTS
  Executions,   \* the runs of the session (a bound: each happens once)
  Streamed,     \* those asked for over the SSE endpoint; the others by sockets
  Panels,       \* browser panels that opened the session
  MaxQueue      \* chunks waiting in one client queue (a bound)

ASSUME ExecutionsAssumption == IsFiniteSet(Executions) /\ Streamed \subseteq Executions
ASSUME QueueAssumption == MaxQueue \in Nat \ {0}

VARIABLES
  status,        \* the row's status; "none" once the row is deleted
  summaries,     \* summary messages of the session
  hasClient,     \* the proto had the AgentEngine service (else: mock mode)
  pc,            \* per execution: idle, running, or what its last event said
  engine,        \* per execution: how the engine's stream stands
  queue,         \* per execution: chunks the gRPC client received
  joined,        \* per panel: its socket is in the session's room
  shown,         \* per panel: session.status
  header,        \* per panel: wsStatus, which the header prefers
  busy,          \* per panel: executing, which disables the button
  away,          \* per panel: it was disconnected while an execution ran
  restarted      \* the core engine was restarted while an execution ran

executionVars == <<pc, engine, queue>>
panelVars == <<joined, shown, header, busy, away>>
vars == <<status, summaries, hasClient, pc, engine, queue,
          joined, shown, header, busy, away, restarted>>

Statuses == {"planning", "executing", "complete", "error", "none"}
Over == {"done", "error", "lost"}
Closed == {"ended", "broken"}
Running == {e \in Executions : pc[e] = "running"}

\* planExecution created the row and the panels have opened it.
Init ==
  /\ status = "planning"
  /\ summaries = 0
  /\ hasClient \in BOOLEAN
  /\ pc = [e \in Executions |-> "idle"]
  /\ engine = [e \in Executions |-> "none"]
  /\ queue = [e \in Executions |-> <<>>]
  /\ joined = [p \in Panels |-> FALSE]
  /\ shown = [p \in Panels |-> "planning"]
  /\ header = [p \in Panels |-> "none"]
  /\ busy = [p \in Panels |-> FALSE]
  /\ away = [p \in Panels |-> FALSE]
  /\ restarted = FALSE

-----------------------------------------------------------------------------
(* The row: updateStatus and addMessage touch nothing once it is deleted *)

UpdateStatus(st) == status' = IF status = "none" THEN "none" ELSE st

AddSummary == summaries' = IF status = "none" THEN summaries ELSE summaries + 1

(* Broadcasts of execution e to the room; an SSE execution has none *)

Told(e, p) == joined[p] /\ e \notin Streamed

EmitStatus(e, st) ==
  /\ shown' = [p \in Panels |-> IF Told(e, p) THEN st ELSE shown[p]]
  /\ header' = [p \in Panels |-> IF Told(e, p) THEN st ELSE header[p]]

EmitBusy(e, b) == busy' = [p \in Panels |-> IF Told(e, p) THEN b ELSE busy[p]]

-----------------------------------------------------------------------------
(* runSessionStream *)

(* The session is found and marked executing, and the engine is called.    *)
(* Without a client that call throws: the row ends in error, and of that   *)
(* the room hears collab-error but no session-updated.                     *)
Begin(e) ==
  /\ pc[e] = "idle"
  /\ status # "none"
  /\ EmitStatus(e, "executing")
  /\ \/ /\ hasClient
        /\ UpdateStatus("executing")
        /\ pc' = [pc EXCEPT ![e] = "running"]
        /\ engine' = [engine EXCEPT ![e] = "open"]
        /\ UNCHANGED busy
     \/ /\ ~hasClient
        /\ UpdateStatus("error")
        /\ pc' = [pc EXCEPT ![e] = "error"]
        /\ EmitBusy(e, FALSE)
        /\ UNCHANGED engine
  /\ UNCHANGED <<summaries, hasClient, queue, joined, away, restarted>>

\* The Execute button is enabled until a first event says the panel executes.
ClickExecute(e) ==
  /\ e \notin Streamed
  /\ \E p \in Panels : joined[p] /\ ~busy[p] /\ shown[p] # "complete"
  /\ Begin(e)

RequestStream(e) == e \in Streamed /\ Begin(e)

\* A plan or step_start chunk: the panels learn that an agent started.
TakeStart(e) ==
  /\ pc[e] = "running"
  /\ queue[e] # <<>> /\ Head(queue[e]) = "start"
  /\ queue' = [queue EXCEPT ![e] = Tail(@)]
  /\ EmitBusy(e, TRUE)
  /\ UNCHANGED <<status, summaries, hasClient, pc, engine, joined, shown, header,
                 away, restarted>>

EndCompleteUnrecorded(e) ==
  /\ pc' = [pc EXCEPT ![e] = "done"]
  /\ queue' = [queue EXCEPT ![e] = <<>>]
  /\ EmitStatus(e, "complete")
  /\ EmitBusy(e, FALSE)
  /\ UNCHANGED <<status, hasClient, engine, joined, away, restarted>>

\* The row is complete, the room hears collab-done and session-updated, and the
\* generator is over.
EndComplete(e) ==
  /\ UpdateStatus("complete")
  /\ pc' = [pc EXCEPT ![e] = "done"]
  /\ queue' = [queue EXCEPT ![e] = <<>>]
  /\ EmitStatus(e, "complete")
  /\ EmitBusy(e, FALSE)
  /\ UNCHANGED <<hasClient, engine, joined, away, restarted>>

\* The engine's "done" chunk.
TakeDone(e) ==
  /\ pc[e] = "running"
  /\ queue[e] # <<>> /\ Head(queue[e]) = "done"
  /\ AddSummary
  /\ EndComplete(e)

DrainWithoutWaiting(e) ==
  /\ pc[e] = "running"
  /\ engine[e] \in Closed
  /\ EndComplete(e)
  /\ UNCHANGED summaries

DrainUnlessBroken(e) ==
  /\ pc[e] = "running"
  /\ engine[e] = "ended" /\ queue[e] = <<>>
  /\ EndComplete(e)
  /\ UNCHANGED summaries

\* The stream is closed, by an error that solveStream keeps to itself, and its
\* queue is empty: the session is complete, without a summary.
Drain(e) ==
  /\ pc[e] = "running"
  /\ engine[e] \in Closed /\ queue[e] = <<>>
  /\ EndComplete(e)
  /\ UNCHANGED summaries

-----------------------------------------------------------------------------
(* SolveStream and the transport *)

Receive(e, chunk) ==
  /\ engine[e] = "open"
  /\ pc[e] = "running"
  /\ Len(queue[e]) < MaxQueue
  /\ queue' = [queue EXCEPT ![e] = Append(@, chunk)]
  /\ UNCHANGED <<status, summaries, hasClient, pc, panelVars, restarted>>

EngineStarts(e) == Receive(e, "start") /\ UNCHANGED engine

\* solve_goal returned, or raised: either way the last chunk says "done".
EngineEnds(e) == Receive(e, "done") /\ engine' = [engine EXCEPT ![e] = "ended"]

\* The call fails: connection lost, engine stopped, or the handler raised.
EngineBreaks(e) ==
  /\ engine[e] = "open"
  /\ pc[e] = "running"
  /\ engine' = [engine EXCEPT ![e] = "broken"]
  /\ UNCHANGED <<status, summaries, hasClient, pc, queue, panelVars, restarted>>

-----------------------------------------------------------------------------
(* Panels, deletion, restart *)

JoinWithoutState(p) ==
  /\ ~joined[p]
  /\ status # "none"
  /\ joined' = [joined EXCEPT ![p] = TRUE]
  /\ UNCHANGED <<status, summaries, hasClient, executionVars, shown, header, busy,
                 away, restarted>>

\* The socket (re)connects and joins the room; session-state brings the row.
Join(p) ==
  /\ ~joined[p]
  /\ status # "none"
  /\ joined' = [joined EXCEPT ![p] = TRUE]
  /\ shown' = [shown EXCEPT ![p] = status]
  /\ UNCHANGED <<status, summaries, hasClient, executionVars, header, busy, away,
                 restarted>>

Disconnect(p) ==
  /\ joined[p]
  /\ joined' = [joined EXCEPT ![p] = FALSE]
  /\ away' = [away EXCEPT ![p] = @ \/ Running # {}]
  /\ UNCHANGED <<status, summaries, hasClient, executionVars, shown, header, busy,
                 restarted>>

\* DELETE /collab/sessions/:id; its messages go with it.
Delete ==
  /\ status # "none"
  /\ status' = "none"
  /\ summaries' = 0
  /\ UNCHANGED <<hasClient, executionVars, panelVars, restarted>>

\* The core engine restarts: rows stay, executions and sockets are gone.
Restart ==
  /\ Running # {}
  /\ pc' = [e \in Executions |-> IF pc[e] = "running" THEN "lost" ELSE pc[e]]
  /\ queue' = [e \in Executions |-> <<>>]
  /\ joined' = [p \in Panels |-> FALSE]
  /\ away' = [p \in Panels |-> away[p] \/ joined[p]]
  /\ restarted' = TRUE
  /\ UNCHANGED <<status, summaries, hasClient, engine, shown, header, busy>>

Next ==
  \/ \E e \in Executions :
       \/ ClickExecute(e) \/ RequestStream(e)
       \/ TakeStart(e) \/ TakeDone(e) \/ Drain(e)
       \/ EngineStarts(e) \/ EngineEnds(e) \/ EngineBreaks(e)
  \/ \E p \in Panels : Join(p) \/ Disconnect(p)
  \/ Delete
  \/ Restart

Spec == Init /\ [][Next]_vars

(* The core engine drains its queues, and the engine's stream closes in the *)
(* end: solve_goal ends (SolvePipeline) or the connection breaks.           *)
FairSpec ==
  /\ Spec
  /\ \A e \in Executions :
       /\ WF_vars(TakeStart(e) \/ TakeDone(e) \/ Drain(e))
       /\ SF_vars(EngineEnds(e) \/ EngineBreaks(e))

-----------------------------------------------------------------------------
(* Properties *)

\* Row, executions and panels are well formed; only a running execution has
\* chunks waiting.
TypeOK ==
  /\ status \in Statuses
  /\ summaries \in 0..Cardinality(Executions)
  /\ hasClient \in BOOLEAN
  /\ pc \in [Executions -> {"idle", "running"} \cup Over]
  /\ engine \in [Executions -> {"none", "open"} \cup Closed]
  /\ queue \in [Executions -> Seq({"start", "done"})]
  /\ \A e \in Executions :
       Len(queue[e]) <= MaxQueue /\ (queue[e] # <<>> => pc[e] = "running")
  /\ joined \in [Panels -> BOOLEAN]
  /\ shown \in [Panels -> Statuses]
  /\ header \in [Panels -> Statuses]
  /\ busy \in [Panels -> BOOLEAN]
  /\ away \in [Panels -> BOOLEAN]
  /\ restarted \in BOOLEAN

\* The row says executing only while some execution runs, whatever the order in
\* which overlapping executions end; only a restart leaves it behind.
ExecutingMeansRunning == status = "executing" => Running # {} \/ restarted

\* A joined panel shows the row's status: the broadcasts and the state sent on
\* joining keep it current through reconnections and overlapping executions.
\* What it is not told of is an SSE execution, the error of a missing client,
\* and the deletion of the session.
PanelsShowTheRow ==
  \A p \in Panels :
    joined[p] /\ shown[p] # status =>
      \/ status \in {"error", "none"}
      \/ \E e \in Streamed : pc[e] # "idle"

\* A panel that never lost its connection while an execution ran disables its
\* button only while one runs.
BusyMeansRunning == \A p \in Panels : busy[p] => Running # {} \/ away[p]

\* Nothing is left executing: neither the row nor the button of a panel, whatever
\* runs of the session overlap.
NothingStuckExecuting == ExecutingMeansRunning /\ BusyMeansRunning

\* A deleted session stays deleted, whatever its executions still write.
DeletedForGood == [][status = "none" => status' = "none"]_vars

\* No chunk is dropped: an execution that was not lost to a restart says done
\* with every chunk it received read, but those behind the engine's "done".
NothingUnread ==
  [][\A e \in Executions :
       pc[e] = "running" /\ pc'[e] = "done" =>
         \/ queue[e] = <<>>
         \/ Head(queue[e]) = "done"]_vars

\* Every execution that starts ends, and tells so, or is lost to a restart.
ExecutionsEnd ==
  \A e \in Executions : pc[e] = "running" ~> pc[e] \in Over

\* docs/api.md:253 and collab.gateway.spec.ts:229: a failure of the stream is
\* told as collab-error.
FailureIsTold ==
  [][\A e \in Executions :
       engine[e] = "broken" /\ pc[e] = "running" => pc'[e] # "done"]_vars
=============================================================================
