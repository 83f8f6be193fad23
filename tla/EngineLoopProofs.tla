-------------------------- MODULE EngineLoopProofs --------------------------
(***************************************************************************)
(* Theorems about EngineLoop, for any phases, intervals, durations and     *)
(* plugins.  A phase that does not fail falls behind by no more than two   *)
(* wakings take: what the loop has passed in a waking is not due, since it *)
(* was not when the loop came to it, or has just succeeded, so the next    *)
(* waking finds it late by one, and it waits for its turn there.  Handlers *)
(* are those of all plugins or none: nothing is registered before all are  *)
(* enabled, and what the plugins' dictionaries come to when one updates    *)
(* the other is shown plugin by plugin, upwards from none.                 *)
(***************************************************************************)
EXTENDS EngineLoop, WellFoundedInduction, TLAPS

\* Phases that had their turn since the loop woke.
Passed(p) ==
  \/ at = "asleep"
  \/ at \in PhaseSet /\ Place(p) < Place(at)
  \/ at \in {"solving", "remembering"} /\ p # Solve

IInv ==
  /\ at \in Places \cup PhaseSet
  /\ since \in [PhaseSet -> Nat]
  /\ lag \in 0..MaxLag
  /\ unsuccessful \subseteq PhaseSet
  /\ at \in {"once", "load", "enable", "start"} => unsuccessful = PhaseSet
  /\ \A p \in PhaseSet \ unsuccessful :
       /\ since[p] <= Interval[p] + MaxLag
       /\ Passed(p) => since[p] < Interval[p]

-----------------------------------------------------------------------------
(* The order of the phases *)

LEMMA PlaceOf ==
  ASSUME NEW p \in PhaseSet
  PROVE  Place(p) \in 1..Len(Phases) /\ Phases[Place(p)] = p
  <1>1. \E i \in 1..Len(Phases) : Phases[i] = p
    BY PhasesAssumption DEF PhasesAssumption, PhaseSet, Range
  <1> QED
    BY <1>1 DEF Place

LEMMA PlaceIs ==
  ASSUME NEW i \in 1..Len(Phases)
  PROVE  Phases[i] \in PhaseSet /\ Place(Phases[i]) = i
  <1>1. Phases[i] \in PhaseSet /\ DOMAIN Phases = 1..Len(Phases)
    BY PhasesAssumption DEF PhasesAssumption
  <1>2. Place(Phases[i]) \in 1..Len(Phases) /\ Phases[Place(Phases[i])] = Phases[i]
    BY <1>1, PlaceOf
  <1> QED
    BY <1>1, <1>2, PhasesAssumption DEF PhasesAssumption, IsInjective

LEMMA SolveIsLast == Solve \in PhaseSet /\ Place(Solve) = Len(Phases) /\ Len(Phases) \in Nat
  <1>1. Len(Phases) \in 1..Len(Phases)
    BY PhasesAssumption DEF PhasesAssumption
  <1> QED
    BY <1>1, PlaceIs DEF Solve, Last

\* Every set of naturals that is not empty has a least element.
LEMMA Least ==
  ASSUME NEW X \in SUBSET Nat, X # {}
  PROVE  Min(X) \in X /\ \A y \in X : Min(X) <= y
  <1> DEFINE Less == {ss \in Nat \X Nat : ss[1] < ss[2]}
  <1>1. IsWellFoundedOn(Less, Nat)
    BY NatLessThanWellFounded DEF OpToRel
  <1> HIDE DEF Less
  <1>2. PICK x \in X : \A y \in X : ~ (<<y, x>> \in Less)
    BY <1>1, WFMin
  <1>3. \A y \in X : ~(y < x)
    BY <1>2 DEF Less
  <1>4. \E z \in X : \A y \in X : z <= y
    BY <1>3
  <1>5. Min(X) = CHOOSE z \in X : \A y \in X : z <= y
    BY DEF Min
  <1> QED
    BY <1>4, <1>5, Zenon

\* NextDue finds the first phase that is due, and passes none that is.
LEMMA NextDueIsFirst ==
  ASSUME NEW i \in Nat, i >= 1, NEW mins \in [PhaseSet -> Nat]
  PROVE  /\ NextDue(i, mins) \in PhaseSet \cup {"asleep"}
         /\ \A p \in PhaseSet :
              /\ Place(p) >= i
              /\ NextDue(i, mins) = "asleep" \/ Place(p) < Place(NextDue(i, mins))
              => mins[p] < Interval[p]
  <1> DEFINE due == {j \in i..Len(Phases) : mins[Phases[j]] >= Interval[Phases[j]]}
  <1>0. Len(Phases) \in Nat
    BY SolveIsLast
  <1>1. \A p \in PhaseSet : Place(p) >= i /\ ~(mins[p] < Interval[p]) => Place(p) \in due
    BY <1>0, PlaceOf, IntervalAssumption DEF IntervalAssumption
  <1>2. due \in SUBSET Nat /\ \A j \in due : j \in 1..Len(Phases)
    BY <1>0
  <1>3. NextDue(i, mins) = IF due = {} THEN "asleep" ELSE Phases[Min(due)]
    BY DEF NextDue
  <1> HIDE DEF due
  <1>4. CASE due = {}
    BY <1>1, <1>3, <1>4
  <1>5. CASE due # {}
    <2>1. Min(due) \in due /\ \A y \in due : Min(due) <= y
      BY <1>2, <1>5, Least
    <2>2. NextDue(i, mins) \in PhaseSet /\ Place(NextDue(i, mins)) = Min(due)
      BY <1>2, <1>3, <1>5, <2>1, PlaceIs
    <2>3. NextDue(i, mins) # "asleep"
      BY <2>2, PhasesAssumption DEF PhasesAssumption, Places
    <2>4. \A p \in PhaseSet : Place(p) \in Nat
      BY <1>0, PlaceOf
    <2> QED
      BY <1>1, <1>2, <2>1, <2>2, <2>3, <2>4
  <1> QED
    BY <1>4, <1>5

-----------------------------------------------------------------------------
(* Going on with the phase after p, which has had its turn *)

LEMMA GoesOn ==
  ASSUME IInv, NEW p \in PhaseSet,
         at = p \/ (p = Solve /\ at \in {"solving", "remembering"}),
         since' \in [PhaseSet -> Nat], lag' = lag, unsuccessful' \subseteq PhaseSet,
         at' = NextDue(Place(p) + 1, since'),
         \A q \in PhaseSet \ {p} : since'[q] = since[q] /\ (q \in unsuccessful <=> q \in unsuccessful'),
         p \in unsuccessful' \/ since'[p] = 0
  PROVE  IInv'
  <1>1. Place(p) \in Nat /\ Place(p) >= 1 /\ \A q \in PhaseSet : Place(q) \in Nat
    BY PlaceOf, SolveIsLast
  <1>2. at' \in PhaseSet \cup {"asleep"}
    BY <1>1, NextDueIsFirst
  <1>3. at' \notin {"once", "load", "enable", "start", "solving", "remembering"}
    BY <1>2, PhasesAssumption DEF PhasesAssumption, Places
  <1>4. \A q \in PhaseSet : Interval[q] \in Nat /\ Interval[q] > 0
    BY IntervalAssumption DEF IntervalAssumption
  <1>5. \A q \in PhaseSet : Place(q) < Place(p) => Passed(q)
    BY SolveIsLast DEF Passed
  <1>6. \A q \in PhaseSet : Place(q) = Place(p) => q = p
    BY PlaceOf
  <1>7. ASSUME NEW q \in PhaseSet \ unsuccessful'
        PROVE  since'[q] <= Interval[q] + MaxLag /\ (Passed(q)' => since'[q] < Interval[q])
    <2>1. CASE q = p
      BY <1>4, <1>7, <2>1, BoundsAssumption DEF BoundsAssumption
    <2>2. CASE q # p
      <3>1. q \notin unsuccessful /\ since'[q] = since[q]
        BY <1>7, <2>2
      <3>2. since[q] <= Interval[q] + MaxLag /\ (Passed(q) => since[q] < Interval[q])
        BY <1>7, <3>1 DEF IInv
      <3>3. ASSUME Passed(q)'
            PROVE  since'[q] < Interval[q]
        <4>1. at' = "asleep" \/ Place(q) < Place(at')
          BY <1>3, <3>3 DEF Passed, Places
        <4>2. CASE Place(q) < Place(p)
          BY <1>5, <3>1, <3>2, <4>2
        <4>3. CASE Place(q) >= Place(p) + 1
          BY <1>1, <4>1, <4>3, NextDueIsFirst
        <4> QED
          BY <1>1, <1>6, <2>2, <4>2, <4>3
      <3> QED
        BY <3>1, <3>2, <3>3
    <2> QED
      BY <2>1, <2>2
  <1> QED
    BY <1>2, <1>3, <1>7 DEF IInv, Places

-----------------------------------------------------------------------------
(* Every step *)

LEMMA InitEstablishes == Init => IInv
  <1> SUFFICES ASSUME Init
               PROVE  IInv
    OBVIOUS
  <1>1. \A uptime \in Nat : \A p \in PhaseSet : Minutes(uptime, p) \in Nat
    BY IntervalAssumption, BoundsAssumption
       DEF IntervalAssumption, BoundsAssumption, Minutes, Cap
  <1>2. Cap(Solve) \in Nat
    BY SolveIsLast, IntervalAssumption, BoundsAssumption
       DEF IntervalAssumption, BoundsAssumption, Cap
  <1>3. since \in [PhaseSet -> Nat]
    BY <1>1, <1>2 DEF Init
  <1> QED
    BY <1>3, BoundsAssumption DEF Init, IInv, Places, BoundsAssumption

\* Before the loop runs nothing has been tried.
LEMMA LoadingKeeps ==
  ASSUME IInv, Loading \/ RunOnce \/ Interrupt
  PROVE  IInv'
  <1>1. UNCHANGED <<since, lag, unsuccessful>>
    BY DEF Loading, LoadPlugin, RejectPlugin, StartEnabling, EnablePlugin, PluginsFail,
           Register, RunOnce, Interrupt, loop
  <1>2. at' = at \/ at' = "ended" \/ (at \in {"load", "enable"} /\ at' \in {"enable", "start"})
    BY DEF Loading, LoadPlugin, RejectPlugin, StartEnabling, EnablePlugin, PluginsFail,
           Register, RunOnce, Interrupt, loop
  <1>3. CASE at' = at
    BY <1>1, <1>3 DEF IInv, Passed
  <1>4. CASE at' = "ended"
    <2>1. \A p : ~Passed(p)'
      BY <1>4, PhasesAssumption DEF Passed, PhasesAssumption, Places
    <2> QED
      BY <1>1, <1>4, <2>1, PhasesAssumption DEF IInv, Places, PhasesAssumption
  <1>5. CASE at \in {"load", "enable"} /\ at' \in {"enable", "start"}
    BY <1>1, <1>5 DEF IInv, Places
  <1> QED
    BY <1>2, <1>3, <1>4, <1>5

\* Nothing that has had its turn was due, so the next waking finds it late by at
\* most the time of this one.
LEMMA WakeKeeps ==
  ASSUME IInv, Wake
  PROVE  IInv'
  <1> DEFINE slept == IF at = "asleep" THEN 1 ELSE 0
  <1>1. since' = [p \in PhaseSet |-> Minutes(since[p] + lag + slept, p)]
        /\ lag' = 0 /\ at' = NextDue(1, since') /\ unsuccessful' = unsuccessful
    BY DEF Wake
  <1>2. slept \in 0..1 /\ lag \in Nat /\ lag <= MaxLag /\ MaxLag \in Nat
    BY BoundsAssumption DEF IInv, BoundsAssumption
  <1> HIDE DEF slept
  <1>3. ASSUME NEW p \in PhaseSet
        PROVE  /\ since[p] \in Nat /\ Interval[p] \in Nat
               /\ since'[p] \in Nat /\ since'[p] <= since[p] + lag + slept
    BY <1>1, <1>2, IntervalAssumption DEF IInv, IntervalAssumption, Minutes, Cap
  <1>4. since' \in [PhaseSet -> Nat]
    BY <1>1, <1>3
  <1>5. at' \in PhaseSet \cup {"asleep"}
    BY <1>1, <1>4, NextDueIsFirst
  <1>6. at' \notin {"once", "load", "enable", "start", "solving", "remembering"}
    BY <1>5, PhasesAssumption DEF PhasesAssumption, Places
  <1>7. ASSUME NEW p \in PhaseSet \ unsuccessful
        PROVE  since'[p] <= Interval[p] + MaxLag /\ (Passed(p)' => since'[p] < Interval[p])
    <2>1. at = "asleep"
      BY <1>7 DEF Wake, IInv
    <2>2. since[p] < Interval[p]
      BY <1>7, <2>1 DEF IInv, Passed
    <2>3. Passed(p)' => at' = "asleep" \/ Place(p) < Place(at')
      BY <1>6 DEF Passed
    <2>4. Place(p) >= 1
      BY PlaceOf, SolveIsLast
    <2>5. Passed(p)' => since'[p] < Interval[p]
      BY <1>1, <1>4, <2>3, <2>4, NextDueIsFirst
    <2> QED
      BY <1>2, <1>3, <2>2, <2>5
  <1>8. lag' \in 0..MaxLag
    BY <1>1, <1>2
  <1> QED
    BY <1>1, <1>4, <1>5, <1>6, <1>7, <1>8 DEF IInv, Places

\* The phases, one after another.
LEMMA PhaseKeeps ==
  ASSUME IInv, Phase
  PROVE  IInv'
  <1> USE DEF IInv
  <1>1. CASE PhaseSucceeds
    BY <1>1, GoesOn DEF PhaseSucceeds, Done
  <1>2. CASE PhaseFails
    BY <1>2, GoesOn DEF PhaseFails
  <1>3. ASSUME at \in {"solving", "remembering"} \/ at = Solve, NEW n, Goals(n), lag' = lag
        PROVE  IInv'
    <2>1. CASE at' = "solving" /\ UNCHANGED <<since, unsuccessful>>
      <3>1. \A p \in PhaseSet : p # Solve => Place(p) < Place(Solve)
        BY PlaceOf, SolveIsLast
      <3>2. \A p \in PhaseSet : Passed(p)' => Passed(p)
        BY <1>3, <2>1, <3>1, PhasesAssumption, SolveIsLast DEF Passed, PhasesAssumption, Places
      <3> QED
        BY <1>3, <2>1, <3>2 DEF Places
    <2>2. CASE Done(Solve)
      BY <1>3, <2>2, GoesOn, SolveIsLast DEF Done
    <2> QED
      BY <1>3, <2>1, <2>2 DEF Goals
  <1>4. CASE Derive \/ GoalEnds
    BY <1>3, <1>4 DEF Derive, GoalEnds
  <1>5. CASE GoalSolved
    <2>1. \A p \in PhaseSet : Passed(p)' => Passed(p)
      BY <1>5, PhasesAssumption DEF GoalSolved, Passed, PhasesAssumption, Places
    <2> QED
      BY <1>5, <2>1 DEF GoalSolved, Places
  <1> QED
    BY <1>1, <1>2, <1>4, <1>5 DEF Phase

LEMMA NextKeeps == IInv /\ [Next]_vars => IInv'
  <1> SUFFICES ASSUME IInv, [Next]_vars
               PROVE  IInv'
    OBVIOUS
  <1>1. CASE MinutePasses
    BY <1>1, BoundsAssumption DEF MinutePasses, IInv, Passed, BoundsAssumption
  <1>2. CASE UNCHANGED vars
    BY <1>2 DEF vars, IInv, Passed
  <1> QED
    BY <1>1, <1>2, LoadingKeeps, WakeKeeps, PhaseKeeps DEF Next

\* No phase that succeeded when last tried waits for longer than its interval and
\* what the phases of two wakings take, whatever fails and however long goals last
\* (Orchestrator.run_loop).
THEOREM NothingFallsBehind == Spec => []OverdueBounded
  <1>1. IInv => OverdueBounded
    BY IntervalAssumption, BoundsAssumption
       DEF IInv, OverdueBounded, IntervalAssumption, BoundsAssumption
  <1> QED
    BY <1>1, InitEstablishes, NextKeeps, PTL DEF Spec

-----------------------------------------------------------------------------
(* The handlers of the plugins *)

\* What the first n plugins of order register, as get_all_execution_handlers
\* goes through them.
UpTo(order) ==
  CHOOSE f : f = [n \in 0..Len(order) |->
    IF n = 0 THEN <<>> ELSE Update(f[n - 1], [t \in Provides[order[n]] |-> order[n]])]

\* Their recursion is well defined.
LEMMA UpToIs ==
  ASSUME NEW order, Len(order) \in Nat
  PROVE  UpTo(order) = [n \in 0..Len(order) |->
           IF n = 0 THEN <<>> ELSE Update(UpTo(order)[n - 1], [t \in Provides[order[n]] |-> order[n]])]
  <1> DEFINE More(n, h) == Update(h, [t \in Provides[order[n]] |-> order[n]])
             IsUpTo(f, k) == f = [n \in 0..k |-> IF n = 0 THEN <<>> ELSE More(n, f[n - 1])]
             Bad == {k \in 0..Len(order) : ~ \E f : IsUpTo(f, k)}
  <1>1. UpTo(order) = CHOOSE f : IsUpTo(f, Len(order))
    BY DEF UpTo
  <1> HIDE DEF More
  <1>2. Bad = {}
    <2> SUFFICES ASSUME Bad # {}
                 PROVE  FALSE
      OBVIOUS
    <2>1. Bad \in SUBSET Nat
      OBVIOUS
    <2>2. PICK k \in Bad : \A j \in Bad : k <= j
      BY <2>1, Least
    <2>3. CASE k = 0
      <3>1. IsUpTo([n \in 0..0 |-> <<>>], 0)
        OBVIOUS
      <3> QED
        BY <2>3, <3>1
    <2>4. CASE k # 0
      <3>1. k - 1 \in 0..Len(order) /\ k \in Nat /\ ~ (k - 1 \in Bad)
        BY <2>2, <2>4
      <3>2. PICK g : IsUpTo(g, k - 1)
        BY <3>1
      <3> DEFINE f == [n \in 0..k |-> IF n = k THEN More(k, g[k - 1]) ELSE g[n]]
      <3>3. ASSUME NEW n \in 0..k
            PROVE  f[n] = IF n = 0 THEN <<>> ELSE More(n, f[n - 1])
        <4>1. CASE n = k
          BY <2>4, <3>1, <4>1
        <4>2. CASE n # k
          <5>1. n \in 0..(k - 1) /\ (n # 0 => n - 1 \in 0..(k - 1))
            BY <3>1, <4>2
          <5>2. g[n] = IF n = 0 THEN <<>> ELSE More(n, g[n - 1])
            BY <3>2, <5>1
          <5>3. n # 0 => f[n - 1] = g[n - 1]
            BY <3>1, <5>1
          <5> QED
            BY <4>2, <5>2, <5>3
        <4> QED
          BY <4>1, <4>2
      <3>4. f = [n \in 0..k |-> IF n = 0 THEN <<>> ELSE More(n, f[n - 1])]
        BY <3>3
      <3>5. IsUpTo(f, k)
        BY <3>4
      <3> QED
        BY <2>2, <3>5
    <2> QED
      BY <2>3, <2>4
  <1>3. \E f : IsUpTo(f, Len(order))
    BY <1>2
  <1>4. IsUpTo(UpTo(order), Len(order))
    BY <1>1, <1>3
  <1> QED
    BY <1>4 DEF More

LEMMA CollectedIs ==
  ASSUME NEW order, Len(order) \in Nat
  PROVE  Collected(order) = UpTo(order)[Len(order)]
  BY DEF Collected, UpTo

\* Every action type is its last provider's.
LEMMA LastProviderHas ==
  ASSUME NEW order, Len(order) \in Nat
  PROVE  /\ DOMAIN Collected(order) = UNION {Provides[order[i]] : i \in 1..Len(order)}
         /\ \A i \in 1..Len(order) : \A t \in Provides[order[i]] :
              \/ Collected(order)[t] = order[i]
              \/ \E j \in i + 1..Len(order) : t \in Provides[order[j]]
  <1> DEFINE f == UpTo(order)
             Types(n) == DOMAIN f[n] = UNION {Provides[order[i]] : i \in 1..n}
             Lasts(n) == \A i \in 1..n : \A t \in Provides[order[i]] :
                           f[n][t] = order[i] \/ \E j \in i + 1..n : t \in Provides[order[j]]
             Bad == {k \in 0..Len(order) : ~ (Types(k) /\ Lasts(k))}
  <1>1. f = [n \in 0..Len(order) |->
               IF n = 0 THEN <<>> ELSE Update(f[n - 1], [t \in Provides[order[n]] |-> order[n]])]
    BY UpToIs
  <1> HIDE DEF f
  <1>2. Bad = {}
    <2> SUFFICES ASSUME Bad # {}
                 PROVE  FALSE
      OBVIOUS
    <2>1. Bad \in SUBSET Nat
      OBVIOUS
    <2>2. PICK k \in Bad : \A j \in Bad : k <= j
      BY <2>1, Least
    <2>3. CASE k = 0
      <3>1. 0 \in 0..Len(order) /\ 1..0 = {}
        OBVIOUS
      <3>2. f[0] = <<>>
        BY <1>1, <3>1
      <3> QED
        BY <2>2, <2>3, <3>1, <3>2
    <2>4. CASE k # 0
      <3>1. k \in 1..Len(order) /\ k - 1 \in 0..Len(order) /\ ~ (k - 1 \in Bad)
        BY <2>2, <2>4
      <3>2. Types(k - 1) /\ Lasts(k - 1)
        BY <3>1
      <3>3. f[k] = Update(f[k - 1], [t \in Provides[order[k]] |-> order[k]])
        <4>1. k \in 0..Len(order)
          BY <3>1
        <4> QED
          BY <1>1, <2>4, <4>1
      <3>4. /\ DOMAIN f[k] = Provides[order[k]] \cup DOMAIN f[k - 1]
            /\ \A t \in Provides[order[k]] : f[k][t] = order[k]
            /\ \A t \in DOMAIN f[k - 1] \ Provides[order[k]] : f[k][t] = f[k - 1][t]
        BY <3>3 DEF Update
      <3>5. 1..k = 1..(k - 1) \cup {k}
        BY <3>1
      <3>6. Types(k)
        BY <3>2, <3>4, <3>5
      <3>7. ASSUME NEW i \in 1..k, NEW t \in Provides[order[i]]
            PROVE  f[k][t] = order[i] \/ \E j \in i + 1..k : t \in Provides[order[j]]
        <4>1. CASE i = k
          BY <3>4, <3>7, <4>1
        <4>2. CASE i # k /\ t \in Provides[order[k]]
          <5>1. k \in i + 1..k
            BY <3>1, <4>2
          <5> QED
            BY <4>2, <5>1
        <4>3. CASE i # k /\ t \notin Provides[order[k]]
          <5>1. i \in 1..(k - 1)
            BY <3>1, <4>3
          <5>2. t \in DOMAIN f[k - 1]
            BY <3>2, <3>7, <5>1
          <5>3. f[k][t] = f[k - 1][t]
            BY <3>4, <4>3, <5>2
          <5>4. \A j \in i + 1..(k - 1) : j \in i + 1..k
            BY <3>1, <5>1
          <5> QED
            BY <3>2, <3>7, <5>1, <5>3, <5>4
        <4> QED
          BY <4>1, <4>2, <4>3
      <3> QED
        BY <2>2, <3>6, <3>7
    <2> QED
      BY <2>3, <2>4
  <1>3. Types(Len(order)) /\ Lasts(Len(order))
    BY <1>2
  <1> QED
    BY <1>3, CollectedIs DEF f

-----------------------------------------------------------------------------
(* Registering them *)

\* Nothing is registered before all of them are enabled, and then once.
Registering ==
  /\ at \in {"load", "enable"} => handlers = <<>>
  /\ waiting \in Seq(Range(Plugins)) /\ loaded \in Seq(Range(Plugins))
  /\ RegisteredWhole

LEMMA InitRegisters == Init => Registering
  BY PluginsAssumption DEF Init, Registering, RegisteredWhole, PluginsAssumption

\* Only loading leads to loading.
LEMMA LoadingIsOver ==
  ASSUME IInv, IInv', Wake \/ MinutePasses \/ Phase
  PROVE  at' \notin {"load", "enable"}
  <1>0. \A p \in PhaseSet : Place(p) \in Nat /\ Place(p) + 1 >= 1
    BY PlaceOf, SolveIsLast
  <1>1. \A p \in PhaseSet : at' = NextDue(Place(p) + 1, since') => at' \in PhaseSet \cup {"asleep"}
    BY <1>0, NextDueIsFirst DEF IInv
  <1>2. CASE Wake
    BY <1>2, NextDueIsFirst, PhasesAssumption DEF Wake, IInv, PhasesAssumption, Places
  <1>3. CASE MinutePasses
    BY <1>3, PhasesAssumption DEF MinutePasses, Awaiting, PhasesAssumption, Places
  <1>4. CASE Phase
    <2>1. CASE PhaseSucceeds
      BY <1>1, <2>1, PhasesAssumption DEF PhaseSucceeds, Done, PhasesAssumption, Places
    <2>2. CASE PhaseFails
      BY <1>1, <2>2, PhasesAssumption DEF PhaseFails, PhasesAssumption, Places
    <2>3. CASE GoalSolved
      BY <2>3 DEF GoalSolved
    <2>4. CASE Derive \/ GoalEnds
      <3>1. at' = "solving" \/ at' = NextDue(Place(Solve) + 1, since')
        BY <2>4 DEF Derive, GoalEnds, Goals, Done
      <3> QED
        BY <1>1, <3>1, SolveIsLast, PhasesAssumption DEF PhasesAssumption, Places
    <2> QED
      BY <1>4, <2>1, <2>2, <2>3, <2>4 DEF Phase
  <1> QED
    BY <1>2, <1>3, <1>4

LEMMA RegisterRegisters ==
  ASSUME Registering, Register
  PROVE  Registering'
  <1>1. handlers' = Update(<<>>, Collected(loaded)) /\ at' = "start"
        /\ loaded' = loaded /\ waiting' = waiting
    BY DEF Registering, Register
  <1>2. loaded \in Seq(Range(Plugins)) /\ Len(loaded) \in Nat /\ DOMAIN loaded = 1..Len(loaded)
    BY DEF Registering
  <1>3. /\ DOMAIN handlers' = DOMAIN Collected(loaded)
        /\ \A t \in DOMAIN Collected(loaded) : handlers'[t] = Collected(loaded)[t]
    BY <1>1 DEF Update
  <1>4. {Provides[g] : g \in Range(loaded)} = {Provides[loaded[i]] : i \in 1..Len(loaded)}
    BY <1>2 DEF Range
  <1>5. /\ DOMAIN handlers' = UNION {Provides[g] : g \in Range(loaded)}
        /\ \A i \in 1..Len(loaded) : \A t \in Provides[loaded[i]] :
             \/ handlers'[t] = loaded[i]
             \/ \E j \in i + 1..Len(loaded) : t \in Provides[loaded[j]]
    <2>1. \A i \in 1..Len(loaded) : \A t \in Provides[loaded[i]] : t \in DOMAIN Collected(loaded)
      BY <1>2, LastProviderHas
    <2> QED
      BY <1>2, <1>3, <1>4, <2>1, LastProviderHas
  <1> QED
    BY <1>1, <1>5 DEF Registering, RegisteredWhole

LEMMA RegisteringKeeps ==
  ASSUME IInv, IInv', Registering, [Next]_vars
  PROVE  Registering'
  <1>1. CASE LoadPlugin
    BY <1>1 DEF LoadPlugin, loop, Registering, RegisteredWhole
  <1>2. CASE RejectPlugin \/ EnablePlugin
    BY <1>2 DEF RejectPlugin, EnablePlugin, loop, Registering, RegisteredWhole
  <1>3. CASE StartEnabling
    BY <1>3 DEF StartEnabling, Registering, RegisteredWhole
  <1>4. CASE PluginsFail \/ RunOnce \/ Interrupt
    BY <1>4 DEF PluginsFail, RunOnce, Interrupt, plugins, Registering, RegisteredWhole
  <1>5. CASE Wake \/ MinutePasses \/ Phase
    <2>1. UNCHANGED plugins
      BY <1>5 DEF Wake, MinutePasses, Phase, PhaseSucceeds, PhaseFails, Derive, GoalSolved, GoalEnds
    <2> QED
      BY <1>5, <2>1, LoadingIsOver DEF plugins, Registering, RegisteredWhole
  <1>6. CASE UNCHANGED vars
    BY <1>6 DEF vars, Registering, RegisteredWhole
  <1> QED
    BY <1>1, <1>2, <1>3, <1>4, <1>5, <1>6, RegisterRegisters DEF Next, Loading

\* The handlers are there all or not at all, and of plugins that provide the same
\* action type the one loaded last has it (PluginManager.get_all_execution_handlers).
THEOREM HandlersAreWhole == Spec => []RegisteredWhole
  <1>1. Registering => RegisteredWhole
    BY DEF Registering
  <1>2. IInv /\ IInv' /\ Registering /\ [Next]_vars => Registering'
    BY RegisteringKeeps
  <1> QED
    BY <1>1, <1>2, InitEstablishes, NextKeeps, InitRegisters, PTL DEF Spec

-----------------------------------------------------------------------------
(* Types *)

\* There is a goal left while one is being solved.
Counted ==
  /\ goals \in 0..MaxGoals
  /\ at \in {"solving", "remembering"} => goals > 0

LEMMA CountedKeeps ==
  ASSUME IInv, IInv', Counted, [Next]_vars
  PROVE  Counted'
  <1>0. \A p \in PhaseSet : Place(p) \in Nat /\ Place(p) + 1 >= 1
    BY PlaceOf, SolveIsLast
  <1>1. ASSUME NEW i \in Nat, i >= 1, at' = NextDue(i, since')
        PROVE  at' \notin {"solving", "remembering"}
    <2>1. at' \in PhaseSet \cup {"asleep"}
      BY <1>1, NextDueIsFirst DEF IInv
    <2> QED
      BY <2>1, PhasesAssumption DEF PhasesAssumption, Places
  <1>2. ASSUME NEW n \in 0..MaxGoals, Goals(n)
        PROVE  Counted'
    <2>1. CASE n > 0
      BY <1>2, <2>1 DEF Goals, Counted
    <2>2. CASE ~(n > 0)
      <3>1. at' = NextDue(Place(Solve) + 1, since') /\ goals' = n
        BY <1>2, <2>2 DEF Goals, Done
      <3> QED
        BY <1>0, <1>1, <3>1, SolveIsLast DEF Counted
    <2> QED
      BY <2>1, <2>2
  <1>3. CASE Derive \/ GoalEnds
    <2>1. goals - 1 \in 0..MaxGoals \/ at = Solve
      BY <1>3, BoundsAssumption DEF Derive, GoalEnds, Counted, BoundsAssumption
    <2>2. at = Solve => at \notin {"solving", "remembering"}
      BY SolveIsLast, PhasesAssumption DEF PhasesAssumption, Places
    <2> QED
      BY <1>2, <1>3, <2>1, <2>2 DEF Derive, GoalEnds
  <1>4. CASE PhaseSucceeds \/ PhaseFails
    <2>1. at' = NextDue(Place(at) + 1, since') /\ goals' = goals /\ at \in PhaseSet
      BY <1>4 DEF PhaseSucceeds, PhaseFails, Done
    <2> QED
      BY <1>0, <1>1, <2>1 DEF Counted
  <1>5. CASE GoalSolved
    BY <1>5 DEF GoalSolved, Counted
  <1>6. CASE Wake
    BY <1>1, <1>6 DEF Wake, Counted
  <1>7. CASE Loading \/ RunOnce \/ Interrupt \/ MinutePasses \/ UNCHANGED vars
    <2>1. goals' = goals /\ (at' = at \/ at' \in {"enable", "start", "ended"})
      BY <1>7 DEF Loading, LoadPlugin, RejectPlugin, StartEnabling, EnablePlugin, PluginsFail,
                  Register, RunOnce, Interrupt, MinutePasses, loop, vars
    <2> QED
      BY <2>1 DEF Counted
  <1> QED
    BY <1>3, <1>4, <1>5, <1>6, <1>7 DEF Next, Phase

\* The loop is at a phase or place that there is, clocks and goals stay within their
\* bounds, and no action type is handled that no plugin provides.
THEOREM LoopTypes == Spec => []TypeOK
  <1>1. Init => Counted
    BY BoundsAssumption DEF Init, Counted, BoundsAssumption
  <1>2. IInv /\ IInv' /\ Counted /\ [Next]_vars => Counted'
    BY CountedKeeps
  <1>3. IInv /\ IInv' /\ Registering /\ [Next]_vars => Registering'
    BY RegisteringKeeps
  <1>4. IInv /\ Counted /\ Registering => TypeOK
    <2> SUFFICES ASSUME IInv, Counted, Registering
                 PROVE  TypeOK
      OBVIOUS
    <2>1. Range(loaded) \subseteq Range(Plugins)
      BY DEF Registering, Range
    <2>2. DOMAIN handlers \subseteq UNION {Provides[g] : g \in Range(Plugins)}
      <3>1. CASE handlers = <<>>
        BY <3>1
      <3>2. CASE DOMAIN handlers = UNION {Provides[g] : g \in Range(loaded)}
        BY <2>1, <3>2
      <3> QED
        BY <3>1, <3>2 DEF Registering, RegisteredWhole
    <2> QED
      BY <2>2 DEF IInv, Counted, Registering, TypeOK
  <1> QED
    BY <1>1, <1>2, <1>3, <1>4, InitEstablishes, NextKeeps, InitRegisters, PTL DEF Spec

=============================================================================
