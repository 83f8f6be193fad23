---------------------------- MODULE ModelRouter -----------------------------
(***************************************************************************)
(* core/model_router.py: several coroutines run call_with_failover at once *)
(* over one list of providers while the background health check probes the *)
(* unhealthy ones.  One action is the code between two awaits: the health  *)
(* flags a call reads when it picks a provider may have changed when that  *)
(* provider's answer is recorded.                                          *)
(*                                                                         *)
(* Abstractions.  failures counts up to MaxFailures, which stands for      *)
(* "MaxFailures or more": the code only compares it with that constant.    *)
(* failure_rate only orders providers of equal weight; which of those      *)
(* comes first is left open.  The clock is seen through fresh[p]: fewer    *)
(* than HEALTH_CHECK_INTERVAL seconds have passed since last_checked.      *)
(***************************************************************************)
EXTENDS Naturals, FiniteSets

CONSTANTS
  N,             \* number of configured providers, in list order
  Weight,        \* their load-balancing weights
  Clients,       \* coroutines that call the router
  MaxRetries,    \* max_retries of their calls (1 from LLMClient, 2 by default)
  MaxFailures,   \* MAX_CONSECUTIVE_FAILURES
  HealthChecks   \* whether this process ever starts the health-check loop

Providers == 1..N

ASSUME ProvidersAssumption == N \in Nat /\ Weight \in [Providers -> Nat]
ASSUME LimitsAssumption == MaxRetries \in Nat /\ MaxFailures \in Nat \ {0}
ASSUME HealthChecksAssumption == HealthChecks \in BOOLEAN

VARIABLES
  healthy, failures, fresh,        \* per provider
  pc, attempt, tried, provider,    \* per caller: its place in call_with_failover
  looping, due, probing            \* the health-check loop

providerVars == <<healthy, failures, fresh>>
callVars == <<pc, attempt, tried, provider>>
checkVars == <<looping, due, probing>>
vars == <<healthy, failures, fresh, pc, attempt, tried, provider,
          looping, due, probing>>

NoProvider == 0
Over == {"ok", "failed", "cancelled"}

TypeOK ==
  /\ healthy \in [Providers -> BOOLEAN]
  /\ failures \in [Providers -> 0..MaxFailures]
  /\ fresh \in [Providers -> BOOLEAN]
  /\ pc \in [Clients -> {"idle", "calling", "sleeping"} \cup Over]
  /\ attempt \in [Clients -> 0..MaxRetries]
  /\ tried \in [Clients -> SUBSET Providers]
  /\ provider \in [Clients -> Providers \cup {NoProvider}]
  /\ looping \in BOOLEAN
  /\ due \in SUBSET Providers
  /\ probing \in Providers \cup {NoProvider}

\* A fresh process: every provider healthy, last_checked = 0.0, loop not started.
Init ==
  /\ healthy = [p \in Providers |-> TRUE]
  /\ failures = [p \in Providers |-> 0]
  /\ fresh = [p \in Providers |-> FALSE]
  /\ pc = [c \in Clients |-> "idle"]
  /\ attempt = [c \in Clients |-> 0]
  /\ tried = [c \in Clients |-> {}]
  /\ provider = [c \in Clients |-> NoProvider]
  /\ looping = FALSE
  /\ due = {}
  /\ probing = NoProvider

-----------------------------------------------------------------------------
(* Provider selection *)

Healthy == {p \in Providers : healthy[p]}

\* p may head S sorted by descending weight
Heaviest(p, S) == p \in S /\ \A q \in S : Weight[q] <= Weight[p]
Lightest(p, S) == p \in S /\ \A q \in S : Weight[q] >= Weight[p]

FirstIn(p, S) == p \in S /\ \A q \in S : p <= q

PicksLightest(p, t, a) ==
  \/ Lightest(p, Healthy \ t)
  \/ Healthy \subseteq t /\ a < MaxRetries /\ FirstIn(p, Providers \ t)

PicksOnlyFirst(p, t, a) ==
  \/ Heaviest(p, Healthy) /\ p \notin t
  \/ Healthy = {} /\ FirstIn(p, Providers \ t)

(* The provider attempt a asks after those in t: the best healthy one not  *)
(* tried yet; with nobody healthy, get_model's providers[0]; and, except   *)
(* on the last attempt, the first untried provider as a last resort.       *)
Picks(p, t, a) ==
  \/ Heaviest(p, Healthy \ t)
  \/ Healthy = {} /\ p = 1 /\ p \in Providers \ t
  \/ /\ Healthy \subseteq t
     /\ a < MaxRetries
     /\ FirstIn(p, Providers \ t)

(* One turn of call_with_failover's loop, up to the await of call_fn or to *)
(* the raise after the loop.                                               *)
Turn(c, a, t) ==
  \/ \E p \in Providers :
       /\ Picks(p, t, a)
       /\ pc' = [pc EXCEPT ![c] = "calling"]
       /\ attempt' = [attempt EXCEPT ![c] = a]
       /\ tried' = [tried EXCEPT ![c] = t \cup {p}]
       /\ provider' = [provider EXCEPT ![c] = p]
  \/ /\ \A p \in Providers : ~Picks(p, t, a)
     /\ pc' = [pc EXCEPT ![c] = "failed"]
     /\ attempt' = [attempt EXCEPT ![c] = a]
     /\ tried' = [tried EXCEPT ![c] = t]
     /\ provider' = [provider EXCEPT ![c] = NoProvider]

-----------------------------------------------------------------------------
(* call_with_failover *)

Call(c) ==
  /\ pc[c] = "idle"
  /\ Turn(c, 0, {})
  /\ UNCHANGED <<providerVars, checkVars>>

\* call_fn returned: record_success and return.  The health flag stays as it is.
Succeed(c) ==
  /\ pc[c] = "calling"
  /\ failures' = [failures EXCEPT ![provider[c]] = 0]
  /\ pc' = [pc EXCEPT ![c] = "ok"]
  /\ provider' = [provider EXCEPT ![c] = NoProvider]
  /\ UNCHANGED <<healthy, fresh, attempt, tried, checkVars>>

Counted(p) == IF failures[p] < MaxFailures THEN failures[p] + 1 ELSE MaxFailures

RecordFailure(p) ==
  /\ failures' = [failures EXCEPT ![p] = Counted(p)]
  /\ healthy' = [healthy EXCEPT ![p] = @ /\ Counted(p) < MaxFailures]
  /\ fresh' = [fresh EXCEPT ![p] = TRUE]

\* call_fn raised: record_failure, then back off unless this was the last attempt.
Fail(c) ==
  /\ pc[c] = "calling"
  /\ RecordFailure(provider[c])
  /\ pc' = [pc EXCEPT ![c] = IF attempt[c] < MaxRetries THEN "sleeping" ELSE "failed"]
  /\ provider' = [provider EXCEPT ![c] = NoProvider]
  /\ UNCHANGED <<attempt, tried, checkVars>>

ResumeSameAttempt(c) ==
  /\ pc[c] = "sleeping"
  /\ Turn(c, attempt[c], {})
  /\ UNCHANGED <<providerVars, checkVars>>

\* The back-off sleep ends and the next turn reads the health flags of now.
Resume(c) ==
  /\ pc[c] = "sleeping"
  /\ Turn(c, attempt[c] + 1, tried[c])
  /\ UNCHANGED <<providerVars, checkVars>>

\* The caller's task is cancelled at an await: CancelledError is no Exception,
\* so nothing is recorded.
Cancel(c) ==
  /\ pc[c] \in {"calling", "sleeping"}
  /\ pc' = [pc EXCEPT ![c] = "cancelled"]
  /\ provider' = [provider EXCEPT ![c] = NoProvider]
  /\ UNCHANGED <<providerVars, attempt, tried, checkVars>>

\* The caller goes on; its next call starts from nothing.
Collect(c) ==
  /\ pc[c] \in Over
  /\ pc' = [pc EXCEPT ![c] = "idle"]
  /\ attempt' = [attempt EXCEPT ![c] = 0]
  /\ tried' = [tried EXCEPT ![c] = {}]
  /\ UNCHANGED <<providerVars, provider, checkVars>>

-----------------------------------------------------------------------------
(* health_check and its loop *)

StartHealthChecks ==
  /\ HealthChecks /\ ~looping
  /\ looping' = TRUE
  /\ UNCHANGED <<providerVars, callVars, due, probing>>

\* stop_health_checks cancels the loop's task, a probe in flight included.
StopHealthChecks ==
  /\ looping
  /\ looping' = FALSE
  /\ due' = {}
  /\ probing' = NoProvider
  /\ UNCHANGED <<providerVars, callVars>>

ScanFromStopsAtHealthy(i, d, h) ==
  LET next == {p \in Providers : p = i + 1 /\ p \in d /\ ~h[p] /\ ~fresh[p]}
  IN  \/ \E p \in next :
           /\ probing' = p
           /\ fresh' = [fresh EXCEPT ![p] = TRUE]
           /\ due' = d
      \/ /\ next = {}
         /\ probing' = NoProvider
         /\ due' = {}
         /\ UNCHANGED fresh

(* health_check's loop from behind position i: the next provider that is   *)
(* unhealthy in h and whose last check is old enough gets last_checked and *)
(* is probed; past the last one the loop goes back to sleep.  d holds the  *)
(* providers that were old enough at the start of this round, when the     *)
(* code read the clock.                                                    *)
ScanFrom(i, d, h) ==
  LET waiting == {p \in Providers : p > i /\ p \in d /\ ~h[p] /\ ~fresh[p]}
  IN  \/ \E p \in waiting :
           /\ FirstIn(p, waiting)
           /\ probing' = p
           /\ fresh' = [fresh EXCEPT ![p] = TRUE]
           /\ due' = d
      \/ /\ waiting = {}
         /\ probing' = NoProvider
         /\ due' = {}
         /\ UNCHANGED fresh

CheckRound ==
  /\ looping /\ probing = NoProvider
  /\ ScanFrom(0, {p \in Providers : ~fresh[p]}, healthy)
  /\ UNCHANGED <<healthy, failures, callVars, looping>>

ProbeAnswersWithoutReset ==
  /\ probing # NoProvider
  /\ healthy' = [healthy EXCEPT ![probing] = TRUE]
  /\ ScanFrom(probing, due, healthy')
  /\ UNCHANGED <<failures, callVars, looping>>

ProbeAnswers ==
  /\ probing # NoProvider
  /\ healthy' = [healthy EXCEPT ![probing] = TRUE]
  /\ failures' = [failures EXCEPT ![probing] = 0]
  /\ ScanFrom(probing, due, healthy')
  /\ UNCHANGED <<callVars, looping>>

ProbeFails ==
  /\ probing # NoProvider
  /\ ScanFrom(probing, due, healthy)
  /\ UNCHANGED <<healthy, failures, callVars, looping>>

\* HEALTH_CHECK_INTERVAL has passed since p's last_checked.
Age(p) ==
  /\ fresh[p]
  /\ fresh' = [fresh EXCEPT ![p] = FALSE]
  /\ UNCHANGED <<healthy, failures, callVars, checkVars>>

-----------------------------------------------------------------------------

Return(c) == Succeed(c) \/ Fail(c)

Caller(c) == Call(c) \/ Return(c) \/ Resume(c) \/ Cancel(c) \/ Collect(c)

Checker ==
  \/ StartHealthChecks \/ StopHealthChecks
  \/ CheckRound \/ ProbeAnswers \/ ProbeFails

Next ==
  \/ \E c \in Clients : Caller(c)
  \/ Checker
  \/ \E p \in Providers : Age(p)

(* A call ends by answer or by its 30 s timeout, asyncio wakes a sleeper,  *)
(* time passes, the loop's timer fires and a probe ends.  Nothing makes a  *)
(* caller call, cancel or collect, and nothing starts or stops the loop.   *)
Fairness ==
  /\ \A c \in Clients : WF_vars(Return(c)) /\ WF_vars(Resume(c))
  /\ \A p \in Providers : WF_vars(Age(p))
  /\ WF_vars(CheckRound)
  /\ WF_vars(ProbeAnswers \/ ProbeFails)

Spec == Init /\ [][Next]_vars

FairSpec == Spec /\ Fairness

-----------------------------------------------------------------------------
(* Properties *)

\* A provider in rotation has fewer than MaxFailures consecutive failures: three
\* in a row take it out, and whatever puts it back also forgets them.
HealthyBelowThreshold ==
  \A p \in Providers : healthy[p] => failures[p] < MaxFailures

\* The providers of a running call: one per attempt made, none twice, the one
\* being asked among them.
TriedOncePerAttempt ==
  \A c \in Clients :
    /\ pc[c] = "calling" => provider[c] \in tried[c]
    /\ pc[c] \in {"calling", "sleeping"} => Cardinality(tried[c]) = attempt[c] + 1

Dispatched(c) == tried'[c] # tried[c] /\ pc'[c] = "calling"

\* Selection order: a call turns to an unhealthy provider only when it has tried
\* every healthy one, and among the healthy ones it leaves no heavier one behind.
BestHealthyFirst ==
  [][\A c \in Clients : Dispatched(c) =>
       LET p == provider'[c]
           left == Healthy \ tried[c]
       IN  /\ left # {} => p \in left
           /\ \A q \in left : Weight[q] <= Weight[p]]_vars

\* A call gives up only after its last attempt or with no healthy provider left
\* that it has not tried.
GivesUpOnlyExhausted ==
  [][\A c \in Clients : pc[c] # "failed" /\ pc'[c] = "failed" =>
       \/ attempt[c] = MaxRetries
       \/ Healthy \subseteq tried[c]]_vars

\* Health flags change for their own reasons only: a provider leaves rotation on
\* a recorded failure and comes back on an answered probe.
RestoredOnlyByProbe ==
  [][\A p \in Providers : ~healthy[p] /\ healthy'[p] => probing = p /\ looping]_vars

\* Every call that waits for a provider or sleeps between attempts ends.
CallsEnd ==
  \A c \in Clients : pc[c] \in {"calling", "sleeping"} ~> pc[c] \in Over

\* While the loop runs and once no more calls are stuck on p, p does not stay
\* unhealthy without being probed again and again.  (Failing last-resort calls
\* refresh last_checked and can put the probe off for as long as they go on.)
ProbedOnceQuiet ==
  \A p \in Providers :
    <>[](looping /\ \A c \in Clients : provider[c] # p) => []<>(healthy[p] \/ probing = p)

\* docs/architecture.md: unhealthy providers are restored by the periodic health
\* check, in every process that routes through the ModelRouter.
UnhealthyIsProbed ==
  \A p \in Providers : ~healthy[p] ~> (healthy[p] \/ probing = p)

-----------------------------------------------------------------------------
(* Implementation of the promise made to callers *)

Promise == INSTANCE FailoverCall WITH
  status <- [c \in Clients |-> IF pc[c] \in {"calling", "sleeping"} THEN "open" ELSE pc[c]],
  asked <- tried

\* call_with_failover keeps FailoverCall's promise.
KeepsPromise == Promise!Spec
=============================================================================
