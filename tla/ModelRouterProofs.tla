------------------------- MODULE ModelRouterProofs --------------------------
(***************************************************************************)
(* Theorems about ModelRouter, for any number of providers, callers and    *)
(* attempts.  RouterInv is the inductive invariant: the type invariant,    *)
(* the two safety invariants and the facts about a call's place in its     *)
(* loop that make a further attempt legal.  From it the promise to callers *)
(* (FailoverCall), and what single steps may do: whom a call turns to,     *)
(* when it gives up, and what puts a provider back into rotation.          *)
(***************************************************************************)
EXTENDS ModelRouter, FiniteSetTheorems, WellFoundedInduction, TLAPS

\* Where a call stands in its loop bounds what it may still do.
CallShape ==
  \A c \in Clients :
    /\ pc[c] = "idle" => tried[c] = {} /\ attempt[c] = 0
    /\ pc[c] = "sleeping" => attempt[c] < MaxRetries
    /\ pc[c] = "calling" => provider[c] \in Providers

\* Only a running loop has a probe in flight.
ProbeInLoop == probing # NoProvider => looping

RouterInv ==
  /\ TypeOK
  /\ HealthyBelowThreshold
  /\ TriedOncePerAttempt
  /\ CallShape
  /\ ProbeInLoop

-----------------------------------------------------------------------------

\* A provider that call_with_failover picks is one the call has not tried yet.
LEMMA PickIsUntried ==
  ASSUME NEW p \in Providers, NEW t, NEW a, Picks(p, t, a)
  PROVE  p \notin t
  BY DEF Picks, Heaviest, FirstIn, Healthy

\* Sets of providers are finite, and trying a new one adds one to their size.
LEMMA TriedGrows ==
  ASSUME NEW t \in SUBSET Providers, NEW p \in Providers, p \notin t
  PROVE  /\ Cardinality(t) \in Nat
         /\ Cardinality(t \cup {p}) = Cardinality(t) + 1
  <1>1. IsFiniteSet(Providers)
    BY FS_Interval, ProvidersAssumption DEF Providers
  <1>2. IsFiniteSet(t)
    BY <1>1, FS_Subset
  <1> QED
    BY <1>2, FS_CardinalityType, FS_AddElement

\* The initial state satisfies the inductive invariant.
LEMMA InitInv == Init => RouterInv
  <1> SUFFICES ASSUME Init PROVE RouterInv
    OBVIOUS
  <1>1. 0 \in 0..MaxFailures /\ 0 \in 0..MaxRetries
    BY LimitsAssumption DEF LimitsAssumption
  <1>2. TypeOK
    BY <1>1 DEF Init, TypeOK, Over
  <1> QED
    BY <1>2, LimitsAssumption
    DEF Init, RouterInv, HealthyBelowThreshold, TriedOncePerAttempt, CallShape, ProbeInLoop

\* A turn of the loop of caller c keeps the callers' part of the invariant.
LEMMA TurnInv ==
  ASSUME RouterInv, NEW c \in Clients, NEW a \in 0..MaxRetries,
         NEW t \in SUBSET Providers, Cardinality(t) = a,
         Turn(c, a, t), UNCHANGED <<providerVars, checkVars>>
  PROVE  RouterInv'
  <1> USE DEF RouterInv, TypeOK, providerVars, checkVars
  <1>1. CASE \E p \in Providers :
               /\ Picks(p, t, a)
               /\ pc' = [pc EXCEPT ![c] = "calling"]
               /\ attempt' = [attempt EXCEPT ![c] = a]
               /\ tried' = [tried EXCEPT ![c] = t \cup {p}]
               /\ provider' = [provider EXCEPT ![c] = p]
    <2> PICK p \in Providers :
               /\ Picks(p, t, a)
               /\ pc' = [pc EXCEPT ![c] = "calling"]
               /\ attempt' = [attempt EXCEPT ![c] = a]
               /\ tried' = [tried EXCEPT ![c] = t \cup {p}]
               /\ provider' = [provider EXCEPT ![c] = p]
      BY <1>1
    <2>1. p \notin t
      BY PickIsUntried
    <2>2. Cardinality(t \cup {p}) = a + 1
      BY <2>1, TriedGrows
    <2>3. TypeOK'
      OBVIOUS
    <2>4. TriedOncePerAttempt'
      BY <2>2 DEF TriedOncePerAttempt
    <2>5. CallShape'
      BY DEF CallShape
    <2> QED
      BY <2>3, <2>4, <2>5 DEF HealthyBelowThreshold, ProbeInLoop
  <1>2. CASE /\ pc' = [pc EXCEPT ![c] = "failed"]
             /\ attempt' = [attempt EXCEPT ![c] = a]
             /\ tried' = [tried EXCEPT ![c] = t]
             /\ provider' = [provider EXCEPT ![c] = NoProvider]
    <2>1. TypeOK'
      BY <1>2 DEF Over
    <2> QED
      BY <1>2, <2>1
      DEF HealthyBelowThreshold, TriedOncePerAttempt, CallShape, ProbeInLoop
  <1> QED
    BY <1>1, <1>2 DEF Turn

\* A pass of health_check's loop only moves the probe and refreshes last_checked.
LEMMA ScanShape ==
  ASSUME TypeOK, NEW i, NEW d \in SUBSET Providers, NEW h, ScanFrom(i, d, h)
  PROVE  /\ fresh' \in [Providers -> BOOLEAN]
         /\ due' \in SUBSET Providers
         /\ probing' \in Providers \cup {NoProvider}
  BY DEF ScanFrom, FirstIn, TypeOK

-----------------------------------------------------------------------------

\* Every step preserves the inductive invariant.
LEMMA StepInv == RouterInv /\ [Next]_vars => RouterInv'
  <1> SUFFICES ASSUME RouterInv, [Next]_vars PROVE RouterInv'
    OBVIOUS
  <1> USE LimitsAssumption DEF RouterInv, TypeOK, providerVars, callVars, checkVars
  <1>1. ASSUME NEW c \in Clients, Call(c) PROVE RouterInv'
    <2>1. Cardinality({}) = 0
      BY FS_EmptySet
    <2> QED
      BY <1>1, <2>1, TurnInv DEF Call
  <1>2. ASSUME NEW c \in Clients, Resume(c) PROVE RouterInv'
    <2>1. Cardinality(tried[c]) = attempt[c] + 1 /\ attempt[c] + 1 \in 0..MaxRetries
      BY <1>2 DEF Resume, TriedOncePerAttempt, CallShape
    <2> QED
      BY <1>2, <2>1, TurnInv DEF Resume
  <1>3. ASSUME NEW c \in Clients, Succeed(c) PROVE RouterInv'
    <2>1. provider[c] \in Providers
      BY <1>3 DEF Succeed, CallShape
    <2>2. TypeOK'
      BY <1>3, <2>1 DEF Succeed, Over
    <2> QED
      BY <1>3, <2>1, <2>2
      DEF Succeed, HealthyBelowThreshold, TriedOncePerAttempt, CallShape, ProbeInLoop
  <1>4. ASSUME NEW c \in Clients, Fail(c) PROVE RouterInv'
    <2>1. provider[c] \in Providers
      BY <1>4 DEF Fail, CallShape
    <2>2. Counted(provider[c]) \in 0..MaxFailures
      BY <2>1 DEF Counted
    <2>3. TypeOK'
      BY <1>4, <2>1, <2>2 DEF Fail, RecordFailure, Over
    <2>4. HealthyBelowThreshold'
      BY <1>4, <2>1, <2>2 DEF Fail, RecordFailure, HealthyBelowThreshold
    <2>5. TriedOncePerAttempt' /\ CallShape'
      BY <1>4 DEF Fail, RecordFailure, TriedOncePerAttempt, CallShape
    <2> QED
      BY <1>4, <2>3, <2>4, <2>5 DEF Fail, ProbeInLoop
  <1>5. ASSUME NEW c \in Clients, Cancel(c) PROVE RouterInv'
    BY <1>5
    DEF Cancel, Over, HealthyBelowThreshold, TriedOncePerAttempt, CallShape, ProbeInLoop
  <1>6. ASSUME NEW c \in Clients, Collect(c) PROVE RouterInv'
    BY <1>6
    DEF Collect, Over, HealthyBelowThreshold, TriedOncePerAttempt, CallShape, ProbeInLoop
  <1>7. ASSUME StartHealthChecks \/ StopHealthChecks PROVE RouterInv'
    BY <1>7 DEF StartHealthChecks, StopHealthChecks,
                HealthyBelowThreshold, TriedOncePerAttempt, CallShape, ProbeInLoop
  <1>8. CASE CheckRound \/ ProbeFails
    <2>1. /\ fresh' \in [Providers -> BOOLEAN]
          /\ due' \in SUBSET Providers
          /\ probing' \in Providers \cup {NoProvider}
      BY <1>8, ScanShape DEF CheckRound, ProbeFails
    <2> QED
      BY <1>8, <2>1 DEF CheckRound, ProbeFails,
                HealthyBelowThreshold, TriedOncePerAttempt, CallShape, ProbeInLoop
  <1>9. CASE ProbeAnswers
    <2>1. /\ fresh' \in [Providers -> BOOLEAN]
          /\ due' \in SUBSET Providers
          /\ probing' \in Providers \cup {NoProvider}
      BY <1>9, ScanShape DEF ProbeAnswers
    <2>2. probing \in Providers /\ 0 \in 0..MaxFailures
      BY <1>9 DEF ProbeAnswers, LimitsAssumption
    <2>3. /\ healthy' \in [Providers -> BOOLEAN]
          /\ failures' \in [Providers -> 0..MaxFailures]
      BY <1>9, <2>2 DEF ProbeAnswers
    <2>4. TypeOK'
      BY <1>9, <2>1, <2>3 DEF ProbeAnswers
    <2>5. HealthyBelowThreshold'
      BY <1>9, <2>2 DEF ProbeAnswers, HealthyBelowThreshold, LimitsAssumption
    <2> QED
      BY <1>9, <2>4, <2>5 DEF ProbeAnswers, TriedOncePerAttempt, CallShape, ProbeInLoop
  <1>10. ASSUME NEW p \in Providers, Age(p) PROVE RouterInv'
    BY <1>10 DEF Age, HealthyBelowThreshold, TriedOncePerAttempt, CallShape, ProbeInLoop
  <1>11. CASE UNCHANGED vars
    BY <1>11 DEF vars, HealthyBelowThreshold, TriedOncePerAttempt, CallShape, ProbeInLoop
  <1> QED
    BY <1>1, <1>2, <1>3, <1>4, <1>5, <1>6, <1>7, <1>8, <1>9, <1>10, <1>11
    DEF Next, Caller, Return, Checker

\* The invariant holds of every reachable state.
LEMMA Invariance == Spec => []RouterInv
  BY InitInv, StepInv, PTL DEF Spec

\* Type correctness of the router, its callers and its health check.
THEOREM TypeCorrect == Spec => []TypeOK
  BY Invariance, PTL DEF RouterInv

\* A provider in rotation is never at the failure threshold, however calls, late
\* answers, last resorts and probes interleave.
THEOREM RotationSafe == Spec => []HealthyBelowThreshold
  BY Invariance, PTL DEF RouterInv

\* A running call has tried one new provider per attempt.
THEOREM NoProviderTwice == Spec => []TriedOncePerAttempt
  BY Invariance, PTL DEF RouterInv

-----------------------------------------------------------------------------
(* The refinement *)

statusBar == [c \in Clients |-> IF pc[c] \in {"calling", "sleeping"} THEN "open" ELSE pc[c]]

\* A turn of the loop asks a new provider or gives up.
LEMMA TurnIsPromised ==
  ASSUME RouterInv, NEW c \in Clients, NEW a \in 0..MaxRetries,
         pc[c] \in {"idle", "sleeping"}, Cardinality(tried[c]) = a,
         Turn(c, a, tried[c])
  PROVE  Promise!Ask(c) \/ Promise!GiveUp(c)
  <1> USE DEF RouterInv, TypeOK
  <1>1. CASE \E p \in Providers :
               /\ Picks(p, tried[c], a)
               /\ pc' = [pc EXCEPT ![c] = "calling"]
               /\ tried' = [tried EXCEPT ![c] = tried[c] \cup {p}]
    <2> PICK p \in Providers :
               /\ Picks(p, tried[c], a)
               /\ pc' = [pc EXCEPT ![c] = "calling"]
               /\ tried' = [tried EXCEPT ![c] = tried[c] \cup {p}]
      BY <1>1
    <2>1. p \in Providers \ tried[c]
      BY PickIsUntried
    <2>2. Promise!Cardinality(tried[c]) <= MaxRetries
      <3>1. Promise!Cardinality(tried[c]) = Cardinality(tried[c])
        BY DEF Promise!Cardinality, Cardinality
      <3> QED
        BY <3>1, LimitsAssumption DEF LimitsAssumption
    <2>3. statusBar' = [statusBar EXCEPT ![c] = "open"]
      BY DEF statusBar, Over
    <2>4. statusBar[c] \in {"idle", "open"}
      BY DEF statusBar
    <2>5. \E q \in Providers \ tried[c] : tried' = [tried EXCEPT ![c] = tried[c] \cup {q}]
      BY <2>1
    <2>6. Promise!Ask(c)
      BY <2>2, <2>3, <2>4, <2>5 DEF Promise!Ask, statusBar
    <2> QED
      BY <2>6
  <1>2. CASE /\ pc' = [pc EXCEPT ![c] = "failed"]
             /\ tried' = [tried EXCEPT ![c] = tried[c]]
    <2>1. statusBar' = [statusBar EXCEPT ![c] = "failed"] /\ tried' = tried
      BY <1>2 DEF statusBar, Over
    <2>2. statusBar[c] \in {"idle", "open"}
      BY DEF statusBar
    <2> QED
      BY <2>1, <2>2 DEF Promise!GiveUp, statusBar
  <1> QED
    BY <1>1, <1>2 DEF Turn

\* A step that moves no caller is a stutter for the promise.
LEMMA QuietStep ==
  ASSUME UNCHANGED <<pc, tried>>
  PROVE  UNCHANGED Promise!vars
  BY DEF Promise!vars

\* Every step of the router is a step of the promise or a stutter.
LEMMA StepIsPromised == RouterInv /\ [Next]_vars => [Promise!Next]_(Promise!vars)
  <1> SUFFICES ASSUME RouterInv, [Next]_vars PROVE [Promise!Next]_(Promise!vars)
    OBVIOUS
  <1> USE DEF RouterInv, TypeOK
  <1>1. ASSUME NEW c \in Clients, Call(c) PROVE Promise!Next
    <2>1. Cardinality({}) = 0 /\ tried[c] = {} /\ 0 \in 0..MaxRetries
      BY <1>1, FS_EmptySet, LimitsAssumption DEF Call, CallShape, LimitsAssumption
    <2> QED
      BY <1>1, <2>1, TurnIsPromised DEF Call, Promise!Next
  <1>2. ASSUME NEW c \in Clients, Resume(c) PROVE Promise!Next
    <2>1. Cardinality(tried[c]) = attempt[c] + 1 /\ attempt[c] + 1 \in 0..MaxRetries
      BY <1>2, LimitsAssumption DEF Resume, TriedOncePerAttempt, CallShape, LimitsAssumption
    <2> QED
      BY <1>2, <2>1, TurnIsPromised DEF Resume, Promise!Next
  <1>3. ASSUME NEW c \in Clients, Succeed(c) PROVE Promise!Next
    <2>1. statusBar[c] = "open" /\ statusBar' = [statusBar EXCEPT ![c] = "ok"]
      BY <1>3 DEF Succeed, statusBar, Over
    <2>2. tried[c] # {} /\ tried' = tried
      BY <1>3 DEF Succeed, TriedOncePerAttempt
    <2> QED
      BY <2>1, <2>2 DEF Promise!Answer, Promise!Next, statusBar
  <1>4. ASSUME NEW c \in Clients, Fail(c) PROVE [Promise!Next]_(Promise!vars)
    <2>1. statusBar[c] = "open" /\ tried' = tried
      BY <1>4 DEF Fail, statusBar
    <2>2. \/ statusBar' = statusBar
          \/ statusBar' = [statusBar EXCEPT ![c] = "failed"]
      BY <1>4 DEF Fail, statusBar, Over
    <2> QED
      BY <2>1, <2>2 DEF Promise!GiveUp, Promise!Next, Promise!vars, statusBar
  <1>5. ASSUME NEW c \in Clients, Cancel(c) PROVE Promise!Next
    <2>1. statusBar[c] = "open" /\ statusBar' = [statusBar EXCEPT ![c] = "cancelled"]
      BY <1>5 DEF Cancel, statusBar, Over
    <2>2. tried' = tried
      BY <1>5 DEF Cancel
    <2> QED
      BY <2>1, <2>2 DEF Promise!Cancel, Promise!Next, statusBar
  <1>6. ASSUME NEW c \in Clients, Collect(c) PROVE Promise!Next
    <2>1. /\ statusBar[c] \in {"ok", "failed", "cancelled"}
          /\ statusBar' = [statusBar EXCEPT ![c] = "idle"]
          /\ tried' = [tried EXCEPT ![c] = {}]
      BY <1>6 DEF Collect, statusBar, Over
    <2> QED
      BY <2>1 DEF Promise!Collect, Promise!Next, statusBar
  <1>7. ASSUME Checker PROVE UNCHANGED <<pc, tried>>
    BY <1>7 DEF Checker, StartHealthChecks, StopHealthChecks, CheckRound,
                ProbeAnswers, ProbeFails, callVars
  <1>8. ASSUME NEW p \in Providers, Age(p) PROVE UNCHANGED <<pc, tried>>
    BY <1>8 DEF Age, callVars
  <1>9. CASE UNCHANGED vars
    BY <1>9, QuietStep DEF vars
  <1> QED
    BY <1>1, <1>2, <1>3, <1>4, <1>5, <1>6, <1>7, <1>8, <1>9, QuietStep
    DEF Next, Caller, Return

\* call_with_failover implements FailoverCall for any providers and callers: no
\* provider is asked twice, at most MaxRetries + 1 are, and a call that ends has
\* an outcome.
THEOREM Refinement == Spec => KeepsPromise
  <1>1. Init => Promise!Init
    BY DEF Init, Promise!Init
  <1> QED
    BY <1>1, Invariance, StepIsPromised, PTL DEF Spec, KeepsPromise, Promise!Spec

-----------------------------------------------------------------------------
(* The selection order *)

\* A caller whose set of tried providers grew made a turn of its own loop.
LEMMA DispatchIsTurn ==
  ASSUME RouterInv, Next, NEW c \in Clients, Dispatched(c)
  PROVE  \E a \in Nat : Turn(c, a, tried[c])
  <1> USE DEF RouterInv, TypeOK, callVars, Dispatched
  <1>1. ASSUME NEW d \in Clients, d # c, Caller(d) PROVE FALSE
    BY <1>1 DEF Caller, Return, Call, Succeed, Fail, Resume, Cancel, Collect, Turn
  <1>2. ASSUME Checker PROVE FALSE
    BY <1>2 DEF Checker, StartHealthChecks, StopHealthChecks, CheckRound,
                ProbeAnswers, ProbeFails
  <1>3. ASSUME NEW p \in Providers, Age(p) PROVE FALSE
    BY <1>3 DEF Age
  <1>4. Caller(c)
    BY <1>1, <1>2, <1>3 DEF Next
  <1>5. CASE Call(c)
    BY <1>5 DEF Call, CallShape
  <1>6. CASE Resume(c)
    BY <1>6, LimitsAssumption DEF Resume, LimitsAssumption
  <1> QED
    BY <1>4, <1>5, <1>6 DEF Caller, Return, Succeed, Fail, Cancel, Collect

\* A call turns to an unhealthy provider only after every healthy one, and takes
\* the heaviest of the healthy ones that it has not tried.
THEOREM SelectionOrder == Spec => BestHealthyFirst
  <1>1. ASSUME RouterInv, Next, NEW c \in Clients, Dispatched(c)
        PROVE  LET p == provider'[c]
                   left == Healthy \ tried[c]
               IN  /\ left # {} => p \in left
                   /\ \A q \in left : Weight[q] <= Weight[p]
    <2> PICK a \in Nat : Turn(c, a, tried[c])
      BY <1>1, DispatchIsTurn
    <2>1. \E p \in Providers : Picks(p, tried[c], a) /\ provider' = [provider EXCEPT ![c] = p]
      BY <1>1 DEF Turn, Dispatched, RouterInv, TypeOK
    <2> PICK p \in Providers :
          Picks(p, tried[c], a) /\ provider' = [provider EXCEPT ![c] = p]
      BY <2>1
    <2>2. provider'[c] = p
      BY <1>1 DEF RouterInv, TypeOK
    <2>3. Healthy \subseteq tried[c] \/ Heaviest(p, Healthy \ tried[c])
      BY DEF Picks
    <2> QED
      BY <2>2, <2>3 DEF Heaviest
  <1>2. RouterInv /\ [Next]_vars =>
          [\A c \in Clients : Dispatched(c) =>
             LET p == provider'[c]
                 left == Healthy \ tried[c]
             IN  /\ left # {} => p \in left
                 /\ \A q \in left : Weight[q] <= Weight[p]]_vars
    BY <1>1
  <1> QED
    BY <1>2, Invariance, PTL DEF Spec, BestHealthyFirst
-----------------------------------------------------------------------------
(* Giving up *)

\* Among providers there is a heaviest: one that no other is above.
LEMMA SomeHeaviest ==
  ASSUME NEW S \in SUBSET Providers, S # {}
  PROVE  \E p \in Providers : Heaviest(p, S)
  <1> DEFINE Above(p) == {q \in S : Weight[q] > Weight[p]}
             Sets == {Above(p) : p \in S}
  <1>1. \A p \in Providers : Weight[p] \in Nat
    BY ProvidersAssumption DEF ProvidersAssumption
  <1>2. IsFiniteSet(Providers)
    BY FS_Interval, ProvidersAssumption DEF Providers, ProvidersAssumption
  <1>3. Sets \subseteq FiniteSubsetsOf(Providers)
    BY <1>2, FS_Subset DEF FiniteSubsetsOf
  <1>4. Sets # {}
    OBVIOUS
  <1>5. IsWellFoundedOn(StrictSubsetOrdering(Providers), FiniteSubsetsOf(Providers))
    BY FS_StrictSubsetOrderingWellFounded
  <1> HIDE DEF Sets
  <1>6. PICK A \in Sets : \A B \in Sets : ~(<<B, A>> \in StrictSubsetOrdering(Providers))
    BY <1>3, <1>4, <1>5, WFMin
  <1>7. PICK p \in S : A = Above(p)
    BY <1>6 DEF Sets
  <1>8. ASSUME NEW q \in S, Weight[q] > Weight[p]
        PROVE  FALSE
    <2>1. Above(q) \in Sets /\ Above(q) \subseteq Providers /\ A \subseteq Providers
      BY <1>7 DEF Sets
    <2>2. Above(q) \subseteq A
      BY <1>1, <1>7, <1>8
    <2>3. q \in A /\ q \notin Above(q)
      BY <1>1, <1>7, <1>8
    <2>4. <<Above(q), A>> \in StrictSubsetOrdering(Providers)
      BY <2>1, <2>2, <2>3 DEF StrictSubsetOrdering
    <2> QED
      BY <1>6, <2>1, <2>4
  <1>9. \A q \in S : Weight[q] <= Weight[p]
    BY <1>1, <1>8
  <1> QED
    BY <1>9 DEF Heaviest

\* A caller that comes to "failed" had its last attempt fail, or its turn of the
\* loop found nobody to pick.
LEMMA FailureIsTurnOrLast ==
  ASSUME RouterInv, Next, NEW c \in Clients, pc[c] # "failed", pc'[c] = "failed"
  PROVE  \/ attempt[c] = MaxRetries
         \/ \E a \in Nat : \A p \in Providers : ~Picks(p, tried[c], a)
  <1> USE DEF RouterInv, TypeOK, callVars
  <1>1. ASSUME NEW d \in Clients, d # c, Caller(d) PROVE FALSE
    BY <1>1 DEF Caller, Return, Call, Succeed, Fail, Resume, Cancel, Collect, Turn
  <1>2. ASSUME Checker PROVE FALSE
    BY <1>2 DEF Checker, StartHealthChecks, StopHealthChecks, CheckRound,
                ProbeAnswers, ProbeFails
  <1>3. ASSUME NEW p \in Providers, Age(p) PROVE FALSE
    BY <1>3 DEF Age
  <1>4. Caller(c)
    BY <1>1, <1>2, <1>3 DEF Next
  <1>5. ASSUME NEW a, Turn(c, a, tried[c])
        PROVE  \A p \in Providers : ~Picks(p, tried[c], a)
    BY <1>5 DEF Turn
  <1>6. CASE Call(c)
    <2>1. Turn(c, 0, tried[c])
      BY <1>6 DEF Call, CallShape
    <2> QED
      BY <1>5, <2>1
  <1>7. CASE Resume(c)
    <2>1. Turn(c, attempt[c] + 1, tried[c]) /\ attempt[c] + 1 \in Nat
      BY <1>7, LimitsAssumption DEF Resume, LimitsAssumption
    <2> QED
      BY <1>5, <2>1
  <1>8. CASE Fail(c)
    BY <1>8, LimitsAssumption DEF Fail, LimitsAssumption
  <1>9. ~(Succeed(c) \/ Cancel(c) \/ Collect(c))
    BY DEF Succeed, Cancel, Collect
  <1> QED
    BY <1>4, <1>6, <1>7, <1>8, <1>9 DEF Caller, Return

\* However the health flags change while it waits and sleeps, a call gives up only
\* after its last attempt or when it has tried every provider that is healthy then.
THEOREM GivesUpLast == Spec => GivesUpOnlyExhausted
  <1>1. ASSUME RouterInv, Next, NEW c \in Clients, pc[c] # "failed", pc'[c] = "failed"
        PROVE  attempt[c] = MaxRetries \/ Healthy \subseteq tried[c]
    <2>1. CASE attempt[c] = MaxRetries
      BY <2>1
    <2>2. ASSUME NEW a \in Nat, \A p \in Providers : ~Picks(p, tried[c], a)
          PROVE  Healthy \subseteq tried[c]
      <3>1. Healthy \ tried[c] \in SUBSET Providers
        BY DEF Healthy
      <3> QED
        BY <2>2, <3>1, SomeHeaviest DEF Picks
    <2> QED
      BY <1>1, <2>1, <2>2, FailureIsTurnOrLast
  <1>2. RouterInv /\ [Next]_vars =>
          [\A c \in Clients : pc[c] # "failed" /\ pc'[c] = "failed" =>
             \/ attempt[c] = MaxRetries
             \/ Healthy \subseteq tried[c]]_vars
    BY <1>1
  <1> QED
    BY <1>2, Invariance, PTL DEF Spec, GivesUpOnlyExhausted
\* A provider out of rotation comes back by an answered probe of it and nothing
\* else: no late answer of a call, last resort or timer puts it back.
THEOREM RestoredByProbe == Spec => RestoredOnlyByProbe
  <1>1. ASSUME RouterInv, Next, NEW p \in Providers, ~healthy[p], healthy'[p]
        PROVE  probing = p /\ looping
    <2> USE DEF RouterInv, TypeOK, providerVars
    <2>1. ASSUME NEW c \in Clients, Fail(c)
          PROVE  FALSE
      <3>1. provider[c] \in Providers
        BY <1>1, <2>1 DEF Fail, CallShape
      <3>2. healthy' = [healthy EXCEPT ![provider[c]] =
                          healthy[provider[c]] /\ Counted(provider[c]) < MaxFailures]
        BY <2>1 DEF Fail, RecordFailure
      <3> QED
        BY <1>1, <3>1, <3>2
    <2>2. ASSUME NEW c \in Clients, Caller(c)
          PROVE  FALSE
      BY <1>1, <2>1, <2>2 DEF Caller, Return, Call, Succeed, Resume, Cancel, Collect
    <2>3. healthy' # healthy
      BY <1>1
    <2>4. ASSUME NEW q \in Providers, Age(q)
          PROVE  FALSE
      BY <2>3, <2>4 DEF Age
    <2>5. ~(StartHealthChecks \/ StopHealthChecks \/ CheckRound \/ ProbeFails)
      BY <2>3 DEF StartHealthChecks, StopHealthChecks, CheckRound, ProbeFails
    <2>6. ProbeAnswers
      BY <1>1, <2>2, <2>4, <2>5 DEF Next, Checker
    <2> QED
      BY <1>1, <2>6 DEF ProbeAnswers, ProbeInLoop
  <1>2. RouterInv /\ [Next]_vars =>
          [\A p \in Providers : ~healthy[p] /\ healthy'[p] => probing = p /\ looping]_vars
    BY <1>1
  <1> QED
    BY <1>2, Invariance, PTL DEF Spec, RestoredOnlyByProbe
=============================================================================
