----------------------------- MODULE MC_LiveHub -----------------------------
(***************************************************************************)
(* Four scenarios: connections and broadcasts; panels and two executions,  *)
(* which share the statuses and their updates; panels and messages, with   *)
(* one execution beside them; panels and lost sockets, which only counts   *)
(* depend on.  The names of sessions, panels and events do not matter: any *)
(* other choice of who shows and executes what is one of these renamed.    *)
(***************************************************************************)
EXTENDS LiveHub

CONSTANTS c1, c2, p1, p2, e1, e2

VARIABLE scenario

MCHubInit ==
  /\ HubInit /\ scenario \in {"sockets", "executions", "messages", "losses"}
  /\ scenario = "sockets" <=> panel[p1].at = "never"
  /\ panel[p1].session = c1 /\ execution[e1].of = c1
  /\ scenario = "sockets" => panel[p2].session = c1
  /\ scenario # "executions" => execution[e2].of = c1

MCHubNext ==
  /\ HubNext
  /\ scenario # "messages" => messages' = <<>>
  /\ scenario # "losses" => ghosts' = [s \in Sessions |-> 0]
  /\ scenario = "messages" => execution'[e2].at = "idle"
  /\ scenario = "losses" => updates' = <<>>
  /\ UNCHANGED scenario

MCFairHubSpec ==
  /\ MCHubInit /\ [][MCHubNext]_<<hubVars, scenario>>
  /\ \A b \in Solvers : WF_hubVars(Solved(b)) /\ WF_hubVars(Sent(b))
=============================================================================
