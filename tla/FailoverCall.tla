---------------------------- MODULE FailoverCall ----------------------------
(***************************************************************************)
(* What ModelRouter.call_with_failover promises each of its callers,       *)
(* whatever the health bookkeeping does: a call asks providers one after   *)
(* the other, never the same one twice and never more than MaxRetries + 1  *)
(* of them, and ends with one provider's answer, with an error, or because *)
(* its caller cancelled it.  ModelRouter is shown to implement this.       *)
(***************************************************************************)
EXTENDS Naturals, FiniteSets

CONSTANTS
  Clients,      \* concurrent callers
  Providers,    \* the configured providers
  MaxRetries    \* the max_retries argument of call_with_failover

VARIABLES
  status,       \* where each caller's call stands
  asked         \* the providers the call has asked so far

vars == <<status, asked>>

Statuses == {"idle", "open", "ok", "failed", "cancelled"}

Init ==
  /\ status = [c \in Clients |-> "idle"]
  /\ asked = [c \in Clients |-> {}]

\* A new call, or an open one whose last provider failed, asks one more.
Ask(c) ==
  /\ status[c] \in {"idle", "open"}
  /\ Cardinality(asked[c]) <= MaxRetries
  /\ \E p \in Providers \ asked[c] : asked' = [asked EXCEPT ![c] = @ \cup {p}]
  /\ status' = [status EXCEPT ![c] = "open"]

\* Only a provider that was asked can have answered.
Answer(c) ==
  /\ status[c] = "open"
  /\ asked[c] # {}
  /\ status' = [status EXCEPT ![c] = "ok"]
  /\ UNCHANGED asked

GiveUp(c) ==
  /\ status[c] \in {"idle", "open"}
  /\ status' = [status EXCEPT ![c] = "failed"]
  /\ UNCHANGED asked

Cancel(c) ==
  /\ status[c] = "open"
  /\ status' = [status EXCEPT ![c] = "cancelled"]
  /\ UNCHANGED asked

\* The caller takes the outcome and may call again.
Collect(c) ==
  /\ status[c] \in {"ok", "failed", "cancelled"}
  /\ status' = [status EXCEPT ![c] = "idle"]
  /\ asked' = [asked EXCEPT ![c] = {}]

Next == \E c \in Clients : Ask(c) \/ Answer(c) \/ GiveUp(c) \/ Cancel(c) \/ Collect(c)

Spec == Init /\ [][Next]_vars
=============================================================================
