------------------------------- MODULE LiveHub -------------------------------
(***************************************************************************)
(* The live connections of the HTTP API server, api/server.py: WebSocket   *)
(* clients that are told of solved goals, and collaboration sessions that  *)
(* the server executes itself over Socket.IO, with the panels that show    *)
(* them.  The server emits to the whole namespace /collab, and a panel     *)
(* takes what it hears whichever session it is of (use-collab-socket.ts,   *)
(* CollabPanel.tsx of apps/studio-web).                                    *)
(*                                                                         *)
(* The server is one event loop; a step runs from one await to the next.   *)
(* AppState.broadcast iterates the list of connections while others append *)
(* to it and remove from it, so its loop is modelled as Python runs it: by *)
(* position, in the list as it is when the send has ended.  A connection   *)
(* object is used once: who connects again is another of Sockets.          *)
(***************************************************************************)
EXTENDS Naturals, Sequences, FiniteSets, Functions

CONSTANTS
  Sockets,      \* WebSocket connections
  Solvers,      \* clients of POST /solve, each of which calls again and again
  Sessions,     \* collaboration sessions
  Executions,   \* execute-session events
  Agents,       \* the number of agents of a session
  Panels,       \* browser panels, each of which shows one session
  MaxMessages,  \* messages of all sessions (a bound)
  MaxGhosts     \* lost sockets of a session the server has yet to notice (a bound)

ASSUME AgentsAssumption == Agents \in Nat
ASSUME PanelsAssumption == IsFiniteSet(Panels) /\ MaxMessages \in Nat /\ MaxGhosts \in Nat

VARIABLES
  connections,  \* state.ws_connections
  socket,       \* per connection: where its endpoint is, and whether its peer is there
  cast,         \* per solver: its broadcast
  status,       \* of each session
  updates,      \* the session-updated events so far (history)
  messages,     \* per message: its session
  posted,       \* those of them that came over HTTP
  execution,    \* per event: its session, and how far its handler is
  online,       \* the panels' sockets in _collab_online
  ghosts,       \* per session: its sockets in it that were lost unnoticed
  panel         \* per panel: its session and connection, and what it shows

hub == <<connections, socket, cast>>
session == <<status, updates, messages, posted, execution>>
panels == <<online, ghosts, panel>>
hubVars == <<connections, socket, cast, status, updates, messages, posted, execution,
             online, ghosts, panel>>

Solving == [at |-> "solving"]
Casting == [at : {"sending"}, to : Sockets, next : Nat, told : SUBSET Sockets, failed : SUBSET Sockets]

Listed == Range(connections)
Statuses == {"planning", "executing", "complete"}

\* What a panel shows: the status it was sent with the state of its session, the
\* number of the last update it heard, messages, and a count, of the session counted.
PanelRecords ==
  [at : {"never", "away", "connected", "joined", "left"}, session : Sessions,
   status : Statuses, heard : Nat, knows : SUBSET Nat, count : Nat, counted : Sessions]

HubTypeOK ==
  /\ connections \in Seq(Sockets)
  /\ socket \in [Sockets -> {"never", "away", "open", "gone", "dead", "left"}]
  /\ cast \in [Solvers -> Casting \cup {Solving}]
  /\ status \in [Sessions -> Statuses]
  /\ updates \in Seq([of : Sessions, status : Statuses])
  /\ messages \in Seq(Sessions) /\ Len(messages) <= MaxMessages
  /\ posted \subseteq DOMAIN messages
  /\ online \subseteq Panels /\ ghosts \in [Sessions -> 0..MaxGhosts]
  /\ panel \in [Panels -> PanelRecords]
  /\ \A p \in Panels : /\ panel[p].knows \subseteq DOMAIN messages
                       /\ panel[p].heard <= Len(updates)
  /\ execution \in [Executions -> [at : {"idle", "agents", "over"}, of : Sessions, heard : 0..Agents]]

\* WebSocket clients and panels share no state of the server, so that nothing is
\* lost when a behaviour has only one kind of them; the others never come.
HubInit ==
  /\ connections = <<>>
  /\ \E open, at \in {"away", "never"}, shown \in [Panels -> Sessions] :
       /\ open # at
       /\ socket = [s \in Sockets |-> open]
       /\ panel = [p \in Panels |->
            [at |-> at, session |-> shown[p], status |-> "planning", heard |-> 0,
             knows |-> {}, count |-> 0, counted |-> shown[p]]]
  /\ cast = [b \in Solvers |-> Solving]
  /\ status = [s \in Sessions |-> "planning"]
  /\ updates = <<>> /\ messages = <<>> /\ posted = {}
  /\ execution \in [Executions -> [at : {"idle"}, of : Sessions, heard : {0}]]
  /\ online = {} /\ ghosts = [s \in Sessions |-> 0]

-----------------------------------------------------------------------------
(* websocket_endpoint *)

ConnectAtFront(s) ==
  /\ socket[s] = "away"
  /\ socket' = [socket EXCEPT ![s] = "open"]
  /\ connections' = <<s>> \o connections
  /\ UNCHANGED <<cast, session, panels>>

\* Accepted and listed; statistics, then commands and answers follow.
Connect(s) ==
  /\ socket[s] = "away"
  /\ socket' = [socket EXCEPT ![s] = "open"]
  /\ connections' = Append(connections, s)
  /\ UNCHANGED <<cast, session, panels>>

\* The client closes its end; the endpoint has yet to notice.
PeerLeaves(s) ==
  /\ socket[s] = "open"
  /\ socket' = [socket EXCEPT ![s] = "gone"]
  /\ UNCHANGED <<connections, cast, session, panels>>

\* The list without those in S; the others keep their order.
Without(S) ==
  LET upTo[n \in 0..Len(connections)] ==
        IF n = 0 THEN <<>>
        ELSE IF connections[n] \in S THEN upTo[n - 1] ELSE Append(upTo[n - 1], connections[n])
  IN  upTo[Len(connections)]

\* WebSocketDisconnect: the connection leaves the list.
Disconnected(s) ==
  /\ socket[s] = "gone"
  /\ socket' = [socket EXCEPT ![s] = "left"]
  /\ connections' = Without({s})
  /\ UNCHANGED <<cast, session, panels>>

\* Any other exception (a layer that does not exist, a failing engine, an
\* answer to a peer that is gone) ends the endpoint and leaves it in the list.
EndpointFails(s) ==
  /\ socket[s] \in {"open", "gone"}
  /\ socket' = [socket EXCEPT ![s] = "dead"]
  /\ UNCHANGED <<connections, cast, session, panels>>

-----------------------------------------------------------------------------
(* api_solve and AppState.broadcast *)

\* The loop takes the connection at position i; past the last one, those that
\* failed are taken off the list and the request is answered.
Turn(b, i, told, failed) ==
  IF i <= Len(connections)
  THEN /\ cast' = [cast EXCEPT ![b] = [at |-> "sending", to |-> connections[i], next |-> i + 1,
                                      told |-> told, failed |-> failed]]
       /\ UNCHANGED connections
  ELSE /\ cast' = [cast EXCEPT ![b] = Solving]
       /\ connections' = Without(failed)

Solved(b) ==
  /\ cast[b].at = "solving"
  /\ Turn(b, 1, {}, {})
  /\ UNCHANGED <<socket, session, panels>>

SentForgettingFailures(b) ==
  /\ cast[b].at = "sending"
  /\ Turn(b, cast[b].next, cast[b].told \cup {cast[b].to}, {})
  /\ UNCHANGED <<socket, session, panels>>

\* A send to a peer that is gone may still seem to succeed; to a connection
\* whose endpoint has ended it raises.
Sent(b) ==
  /\ cast[b].at = "sending"
  /\ LET c == cast[b]
     IN  \/ socket[c.to] \in {"open", "gone"} /\ Turn(b, c.next, c.told \cup {c.to}, c.failed)
         \/ socket[c.to] # "open" /\ Turn(b, c.next, c.told, c.failed \cup {c.to})
  /\ UNCHANGED <<socket, session, panels>>

-----------------------------------------------------------------------------
(* The panels, namespace /collab *)

Connected == {p \in Panels : panel[p].at \notin {"never", "away"}}

\* Of the sockets in S, those of session s.
Of(S, s) == {p \in S : panel[p].session = s}

\* "online-users" of session s, to everyone connected, whatever session it shows; the
\* sockets the server has lost without knowing it are counted.
TellCount(s, now) ==
  panel' = [p \in Panels |->
    IF p \in Connected
    THEN [panel[p] EXCEPT !.count = Cardinality(Of(now, s)) + ghosts[s], !.counted = s]
    ELSE panel[p]]

Open(p) ==
  /\ panel[p].at = "away"
  /\ panel' = [panel EXCEPT ![p].at = "connected"]
  /\ UNCHANGED <<hub, session, online, ghosts>>

JoinSessionCountingFirst(p) ==
  /\ panel[p].at = "connected" /\ p \notin online
  /\ online' = online \cup {p}
  /\ TellCount(panel[p].session, online)
  /\ UNCHANGED <<hub, session, ghosts>>

\* The socket is counted and everyone told; the session is read after that.
JoinSession(p) ==
  /\ panel[p].at = "connected" /\ p \notin online
  /\ online' = online \cup {p}
  /\ TellCount(panel[p].session, online')
  /\ UNCHANGED <<hub, session, ghosts>>

\* The numbers of the messages of session s.
MessagesOf(s) == {m \in DOMAIN messages : messages[m] = s}

SendStateWithoutMessages(p) ==
  /\ panel[p].at = "connected" /\ p \in online
  /\ panel' = [panel EXCEPT ![p].at = "joined", ![p].status = status[panel[p].session]]
  /\ UNCHANGED <<hub, session, online, ghosts>>

\* "session-state" replaces the session and the messages a panel shows; the last update
\* it heard stays (handleSessionState of CollabPanel.tsx).
SendState(p) ==
  /\ panel[p].at = "connected" /\ p \in online
  /\ panel' = [panel EXCEPT ![p].at = "joined",
                            ![p].status = status[panel[p].session],
                            ![p].knows = MessagesOf(panel[p].session)]
  /\ UNCHANGED <<hub, session, online, ghosts>>

\* The panel goes: it leaves, then closes its socket, of which nobody is told.
LeaveSession(p) ==
  LET s == panel[p].session IN
  /\ p \in online
  /\ online' = online \ {p}
  /\ panel' = [q \in Panels |->
       IF q \in Connected
       THEN [panel[q] EXCEPT !.count = Cardinality(Of(online', s)) + ghosts[s], !.counted = s,
                             !.at = IF q = p THEN "left" ELSE @]
       ELSE panel[q]]
  /\ UNCHANGED <<hub, session, ghosts>>

CloseSocket(p) ==
  /\ p \in Connected
  /\ online' = online \ {p}
  /\ panel' = [panel EXCEPT ![p].at = "away"]
  /\ UNCHANGED <<hub, session, ghosts>>

\* The connection is lost: the panel knows at once and connects with a new socket,
\* the server when it misses the old one's answer to a ping.
LoseSocket(p) ==
  LET s == panel[p].session IN
  /\ p \in online /\ ghosts[s] < MaxGhosts
  /\ online' = online \ {p} /\ ghosts' = [ghosts EXCEPT ![s] = @ + 1]
  /\ panel' = [panel EXCEPT ![p].at = "away"]
  /\ UNCHANGED <<hub, session>>

MissPing(s) ==
  /\ ghosts[s] > 0
  /\ ghosts' = [ghosts EXCEPT ![s] = @ - 1]
  /\ UNCHANGED <<hub, session, online, panel>>

\* "agent-message", which does not name its session, goes to everyone connected ...
SendMessage(s) ==
  /\ Of(Connected, s) # {} /\ Len(messages) < MaxMessages
  /\ messages' = Append(messages, s)
  /\ panel' = [p \in Panels |->
       IF p \in Connected THEN [panel[p] EXCEPT !.knows = @ \cup {Len(messages')}] ELSE panel[p]]
  /\ UNCHANGED <<hub, status, updates, posted, execution, online, ghosts>>

\* ... a message posted over HTTP to nobody.
PostMessage(s) ==
  /\ Len(messages) < MaxMessages
  /\ messages' = Append(messages, s)
  /\ posted' = posted \cup {Len(messages')}
  /\ UNCHANGED <<hub, status, updates, execution, panels>>

-----------------------------------------------------------------------------
(* on_execute_session *)

\* "session-updated" of session s, to everyone connected, whatever session it shows.
SetStatus(s, st) ==
  /\ status' = [status EXCEPT ![s] = st]
  /\ updates' = Append(updates, [of |-> s, status |-> st])
  /\ panel' = [p \in Panels |->
       IF p \in Connected THEN [panel[p] EXCEPT !.heard = Len(updates')] ELSE panel[p]]

\* The event comes from a panel of the session.
Execute(e) ==
  /\ execution[e].at = "idle" /\ Of(Connected, execution[e].of) # {}
  /\ SetStatus(execution[e].of, "executing")
  /\ execution' = [execution EXCEPT ![e].at = "agents"]
  /\ UNCHANGED <<hub, messages, posted, online, ghosts>>

\* The next agent has answered, or its model has failed: collab-agent-done or
\* collab-error, and on to the one after it.
AgentEnds(e) ==
  /\ execution[e].at = "agents" /\ execution[e].heard < Agents
  /\ execution' = [execution EXCEPT ![e].heard = @ + 1]
  /\ UNCHANGED <<hub, status, updates, messages, posted, panels>>

Complete(e) ==
  /\ execution[e].at = "agents" /\ execution[e].heard = Agents
  /\ SetStatus(execution[e].of, "complete")
  /\ execution' = [execution EXCEPT ![e].at = "over"]
  /\ UNCHANGED <<hub, messages, posted, online, ghosts>>

-----------------------------------------------------------------------------

HubNext ==
  \/ \E s \in Sockets : Connect(s) \/ PeerLeaves(s) \/ Disconnected(s) \/ EndpointFails(s)
  \/ \E b \in Solvers : Solved(b) \/ Sent(b)
  \/ \E p \in Panels : \/ Open(p) \/ JoinSession(p) \/ SendState(p)
                       \/ LeaveSession(p) \/ CloseSocket(p) \/ LoseSocket(p)
  \/ \E s \in Sessions : MissPing(s) \/ SendMessage(s) \/ PostMessage(s)
  \/ \E e \in Executions : Execute(e) \/ AgentEnds(e) \/ Complete(e)

HubSpec == HubInit /\ [][HubNext]_hubVars

\* Goals go on being solved, and every send ends.  Endpoints, panels and executions
\* are free to do nothing.
FairHubSpec ==
  /\ HubSpec
  /\ \A b \in Solvers : WF_hubVars(Solved(b)) /\ WF_hubVars(Sent(b))

-----------------------------------------------------------------------------
(* Properties *)

SentTo(b) == cast[b].told \cup cast[b].failed \cup {cast[b].to}

\* No connection is told of the same goal twice: what a broadcast has still
\* before it is nothing that it has behind it, whoever comes and goes.
NobodyTwice ==
  \A b \in Solvers : cast[b].at = "sending" =>
    \A i \in cast[b].next..Len(connections) :
      connections[i] \notin SentTo(b)

\* What a broadcast has passed in the list without sending to it.
Missed(b) ==
  {connections[i] : i \in {j \in 1..Len(connections) : j < cast[b].next}} \ SentTo(b)

\* A removal during a send moves the list under the loop.  A broadcast misses
\* no more clients than have left the list of those it has sent to.
MissesBounded ==
  \A b \in Solvers : cast[b].at = "sending" =>
    Cardinality(Missed(b)) <= Cardinality(SentTo(b) \ Listed)

\* However the list changes under the loop, a broadcast repeats nobody and misses
\* only as many as have gone.
BroadcastSound == NobodyTwice /\ MissesBounded

\* AppState.broadcast: "Broadcast to all connected WebSocket clients".  That is more,
\* and does not hold: see MissesBounded.
EveryoneTold == \A b \in Solvers : cast[b].at = "sending" => Missed(b) = {}

\* A connection whose endpoint ended on an error is still listed; broadcasts
\* take it off in the end, although each of them may skip it.
DeadLeaveTheList == \A s \in Sockets : socket[s] = "dead" ~> s \notin Listed

\* The status in the panel's header: that of the last update it heard, whichever session
\* that was of, before the one it was sent with its session (wsStatus || session.status).
Shown(p) == IF panel[p].heard = 0 THEN panel[p].status ELSE updates[panel[p].heard].status

\* The last update p heard is of its session, and none of that session came after it.
HeardLast(p) ==
  LET s == panel[p].session IN
  /\ updates[panel[p].heard].of = s
  /\ \A u \in DOMAIN updates : u > panel[p].heard => updates[u].of # s

\* A panel that has joined shows every message of its session but those posted over HTTP
\* since.  Through reconnections and overlapping executions of several sessions, it shows
\* the session's status as long as it has heard no update at all, or heard one of its own
\* session last and missed none of that session since; a session that is executing is
\* executed.  (More does not hold: a panel takes the updates of other sessions for its
\* own, and the state it is sent on a reconnection does not replace an update heard before.)
PanelsCurrent ==
  \A p \in Panels : LET s == panel[p].session IN
    panel[p].at = "joined" =>
      /\ MessagesOf(s) \subseteq panel[p].knows \cup posted
      /\ panel[p].heard = 0 \/ HeardLast(p) => Shown(p) = status[s]
      /\ status[s] = "executing" =>
           \E e \in Executions : execution[e].of = s /\ execution[e].at = "agents"

\* The number of panels online that a panel shows is never too low, as long as the last
\* count it heard is of its own session.  (It may stay too high: nobody is told when a
\* socket closes.)
NobodyUncounted ==
  \A p \in online : panel[p].counted = panel[p].session =>
    panel[p].count >= Cardinality(Of(online, panel[p].session))

=============================================================================
