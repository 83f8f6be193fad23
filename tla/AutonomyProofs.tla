--------------------------- MODULE AutonomyProofs ---------------------------
(***************************************************************************)
(* Theorems about Autonomy, for any number of concurrent cycles and        *)
(* requests, any pool of tasks and any limits.  Each step is first reduced *)
(* to what it does to the counters and to the sets of callers behind them  *)
(* (LearnerStep, PushStep); the bounds then follow by counting.            *)
(***************************************************************************)
EXTENDS Autonomy, FiniteSetTheorems, TLAPS

\* While a cooldown is over nothing has been pushed since, and the pushes of a
\* cooldown with those on their way are of different callers.
CooldownInv ==
  \A s \in Services :
    /\ ~cooling[s] => inARow[s] = 0
    /\ inARow[s] + Cardinality(OnTheWay(s)) <= Cardinality(Users(s))

\* A task whose takeaways are being extracted is stored if it is still pending.
StoredInv ==
  \A c \in Cycles : pc[c] = "extracting" /\ task[c] \in pending => task[c] \in stored

-----------------------------------------------------------------------------
(* Counting *)

\* The callers of a kind are finitely many, and no more than all of them.
LEMMA Counting ==
  ASSUME NEW S, IsFiniteSet(S), NEW A \in SUBSET S
  PROVE  /\ IsFiniteSet(A)
         /\ Cardinality(A) \in Nat
         /\ Cardinality(S) \in Nat
         /\ Cardinality(A) <= Cardinality(S)
  BY FS_Subset, FS_CardinalityType

\* One caller less is one less to count.
LEMMA OneLess ==
  ASSUME NEW S, IsFiniteSet(S), NEW c \in S
  PROVE  Cardinality(S) = Cardinality(S \ {c}) + 1
  <1>1. Cardinality(S \ {c}) = Cardinality(S) - 1
    BY FS_RemoveElement
  <1> QED
    BY <1>1, FS_CardinalityType

\* The callers and the users of each service are finite sets.
LEMMA CallersFinite ==
  /\ IsFiniteSet(Cycles)
  /\ \A s \in Services : IsFiniteSet(Users(s))
  <1>1. IsFiniteSet(Callers)
    BY CallersAssumption, FS_Union DEF Callers, CallersAssumption
  <1>2. ASSUME NEW s \in Services PROVE IsFiniteSet(Users(s))
    BY <1>1, FS_Subset DEF Users
  <1> QED
    BY <1>2, CallersAssumption DEF CallersAssumption

-----------------------------------------------------------------------------
(* Types *)

\* Taking a task, or finding that none can be taken, keeps the types of what it
\* writes, and the place of c fits its task.
LEMMA TakeTaskTypes ==
  ASSUME TypeOK, NEW c \in Cycles, NEW P \in SUBSET Tasks, TakeTask(c, P)
  PROVE  /\ pc' \in [Callers -> Places]
         /\ task' \in [Cycles -> Tasks \cup {None}]
         /\ cost' \in Nat
         /\ newDay' \in BOOLEAN
         /\ \A d \in Callers : d # c => pc'[d] = pc[d]
         /\ \A d \in Cycles : d # c => task'[d] = task[d]
         /\ pc'[c] \in {"researching", "pushing", "idle"}
         /\ pc'[c] = "researching" <=> task'[c] # None
  <1> USE DEF TypeOK
  <1>1. c \in Callers
    BY DEF Callers
  <1>2. \/ LeaveLearner(c)
        \/ \E t \in P : /\ pc' = [pc EXCEPT ![c] = "researching"]
                        /\ task' = [task EXCEPT ![c] = t]
    BY DEF TakeTask
  <1>3. /\ cost' \in {cost, 0}
        /\ newDay' \in BOOLEAN
    <2>1. CostToday \in {cost, 0}
      BY DEF CostToday
    <2> QED
      BY <2>1 DEF TakeTask
  <1>4. CASE LeaveLearner(c)
    BY <1>1, <1>3, <1>4 DEF LeaveLearner, AtPush, Places
  <1>5. CASE \E t \in P : /\ pc' = [pc EXCEPT ![c] = "researching"]
                          /\ task' = [task EXCEPT ![c] = t]
    <2> PICK t \in P : /\ pc' = [pc EXCEPT ![c] = "researching"]
                       /\ task' = [task EXCEPT ![c] = t]
      BY <1>5
    <2>1. t # None
      BY TasksAssumption DEF TasksAssumption, None
    <2> QED
      BY <1>1, <1>3, <2>1 DEF Places, Executing
  <1> QED
    BY <1>2, <1>4, <1>5

\* Generation adds unused tasks only, then takes a task of the grown list.
LEMMA GeneratedAdds ==
  ASSUME TypeOK, NEW c \in Cycles, NEW P \in SUBSET Unused, Generated(c, P)
  PROVE  /\ pending \subseteq pending'
         /\ pending' \in SUBSET Tasks
         /\ pending' \ pending \subseteq Unused
         /\ TakeTask(c, pending')
  BY DEF Generated, Unused, TypeOK

\* TypeOK holds initially.
LEMMA InitType == Init => TypeOK
  <1> SUFFICES ASSUME Init PROVE TypeOK
    OBVIOUS
  <1>1. 0 \in 0..MaxGaps /\ 0 \in Nat /\ ~(0 > 0)
    BY TasksAssumption DEF TasksAssumption
  <1>2. left \in [Cycles -> 0..MaxGaps] /\ \A c \in Cycles : left[c] = 0
    BY <1>1 DEF Init
  <1>3. pc \in [Callers -> Places] /\ \A c \in Callers : pc[c] = "idle"
    BY DEF Init, Places
  <1>4. \A c \in Cycles : pc[c] = "querying" <=> left[c] > 0
    BY <1>1, <1>2, <1>3 DEF Callers
  <1> QED
    BY <1>1, <1>2, <1>3, <1>4 DEF Init, TypeOK, Callers, Executing

\* Every step keeps TypeOK.
LEMMA StepType == TypeOK /\ [Next]_vars => TypeOK'
  <1> SUFFICES ASSUME TypeOK, [Next]_vars PROVE TypeOK'
    OBVIOUS
  <1> USE DEF TypeOK
  <1>c. Cycles \subseteq Callers /\ Requests \subseteq Callers
    BY DEF Callers
  <1>d. \A r \in Requests : r \notin Cycles
    BY CallersAssumption DEF CallersAssumption
  <1>1. ASSUME NEW c \in Cycles, StartCycle(c) PROVE TypeOK'
    BY <1>1, <1>c, <1>d DEF StartCycle, learnerVars, pushVars, Places, Executing
  <1>2. ASSUME NEW c \in Cycles, LearnLater(c) PROVE TypeOK'
    BY <1>2, <1>c, <1>d
    DEF LearnLater, LeaveLearner, AtPush, pushVars, Places, Executing, None
  <1>3. ASSUME NEW c \in Cycles, LearnNow(c) PROVE TypeOK'
    <2>1. CASE TakeTask(c, pending)
      BY <1>3, <2>1, <1>c, <1>d, TakeTaskTypes DEF LearnNow, pushVars, Executing
    <2>2. CASE pc' = [pc EXCEPT ![c] = "generating"] /\ UNCHANGED <<task, cost, newDay>>
      BY <1>3, <2>2, <1>c, <1>d DEF LearnNow, pushVars, Places, Executing
    <2> QED
      BY <1>3, <2>1, <2>2 DEF LearnNow
  <1>4. ASSUME NEW c \in Cycles, FindGaps(c) PROVE TypeOK'
    <2>1. CASE Generated(c, {}) /\ UNCHANGED left
      <3>1. pending \subseteq pending' /\ pending' \in SUBSET Tasks /\ TakeTask(c, pending')
        BY <2>1, GeneratedAdds
      <3> QED
        BY <1>4, <2>1, <3>1, <1>c, <1>d, TakeTaskTypes DEF FindGaps, pushVars, Executing
    <2>2. CASE /\ \E n \in 1..MaxGaps : left' = [left EXCEPT ![c] = n]
               /\ pc' = [pc EXCEPT ![c] = "querying"]
               /\ UNCHANGED <<task, pending, cost, newDay>>
      BY <1>4, <2>2, <1>c, <1>d, TasksAssumption
      DEF FindGaps, pushVars, Places, Executing, TasksAssumption
    <2> QED
      BY <1>4, <2>1, <2>2 DEF FindGaps
  <1>5. ASSUME NEW c \in Cycles, AddGap(c) PROVE TypeOK'
    <2>1. PICK t \in Unused :
            \/ /\ left[c] > 1
               /\ pending' = pending \cup {t}
               /\ UNCHANGED <<pc, task, cost, newDay>>
            \/ left[c] = 1 /\ Generated(c, {t})
      BY <1>5 DEF AddGap
    <2>2. /\ pc[c] = "querying" /\ left[c] \in 1..MaxGaps
          /\ left' = [left EXCEPT ![c] = @ - 1]
          /\ UNCHANGED <<stored, cooling, pushes, inARow>>
          /\ t \in Tasks
      BY <1>5, TasksAssumption DEF AddGap, pushVars, Unused, TasksAssumption
    <2>3. CASE left[c] > 1 /\ pending' = pending \cup {t} /\ UNCHANGED <<pc, task, cost, newDay>>
      BY <2>2, <2>3, TasksAssumption DEF TasksAssumption
    <2>4. CASE left[c] = 1 /\ Generated(c, {t})
      <3>1. pending \subseteq pending' /\ pending' \in SUBSET Tasks /\ TakeTask(c, pending')
        BY <2>4, GeneratedAdds
      <3>2. left' \in [Cycles -> 0..MaxGaps] /\ left'[c] = 0
        BY <2>2, <2>4, TasksAssumption DEF TasksAssumption
      <3> QED
        BY <2>2, <3>1, <3>2, <1>c, <1>d, TakeTaskTypes DEF Executing
    <2> QED
      BY <2>1, <2>3, <2>4
  <1>6. ASSUME NEW c \in Cycles, StopGenerating(c) PROVE TypeOK'
    <2>1. left' \in [Cycles -> 0..MaxGaps] /\ left'[c] = 0
      BY <1>6, TasksAssumption DEF StopGenerating, TasksAssumption
    <2> QED
      BY <1>6, <2>1, <1>c, <1>d, TakeTaskTypes DEF StopGenerating, pushVars, Executing
  <1>7. ASSUME NEW c \in Cycles, StoreFindings(c) PROVE TypeOK'
    BY <1>7, <1>c, <1>d DEF StoreFindings, pushVars, Places, Executing
  <1>8. ASSUME NEW c \in Cycles, Complete(c) PROVE TypeOK'
    BY <1>8, <1>c, <1>d
    DEF Complete, LeaveLearner, AtPush, pushVars, Places, Executing, None
  <1>9. ASSUME NEW c \in Cycles, Fail(c) PROVE TypeOK'
    BY <1>9, <1>c, <1>d
    DEF Fail, LeaveLearner, AtPush, pushVars, Places, Executing, None
  <1>10. ASSUME NEW r \in Requests, StartPush(r) PROVE TypeOK'
    BY <1>10, <1>c, <1>d DEF StartPush, learnerVars, pushVars, Places, Executing
  <1>11. ASSUME NEW c \in Callers, GiveUpPush(c) PROVE TypeOK'
    BY <1>11, <1>c, <1>d DEF GiveUpPush, learnerVars, pushVars, Places, Executing
  <1>12. ASSUME NEW c \in Callers, Push(c) PROVE TypeOK'
    BY <1>12, <1>c, <1>d
    DEF Push, learnerVars, Places, Executing, Service, Services
  <1>13. ASSUME NEW s \in Services, CooldownEnds(s) PROVE TypeOK'
    BY <1>13 DEF CooldownEnds, learnerVars
  <1>14. CASE ReadStatus
    BY <1>14 DEF ReadStatus, pushVars
  <1>15. CASE NewDay
    BY <1>15 DEF NewDay, pushVars
  <1>16. CASE UNCHANGED vars
    BY <1>16 DEF vars
  <1> QED
    BY <1>1, <1>2, <1>3, <1>4, <1>5, <1>6, <1>7, <1>8, <1>9, <1>10, <1>11, <1>12,
       <1>13, <1>14, <1>15, <1>16 DEF Next

\* TypeOK holds for any number of callers and tasks and any limits.
THEOREM AutonomyTypes == Spec => []TypeOK
  <1> QED
    BY InitType, StepType, PTL DEF Spec

-----------------------------------------------------------------------------
(* The budget *)

\* What a step may do to the cost and to the cycles executing a task.
LearnerStep ==
  \/ cost' <= cost /\ InFlight' \subseteq InFlight
  \/ cost' + 2 <= Budget /\ InFlight' \subseteq Cycles
  \/ \E c \in InFlight : cost' = cost + 1 /\ InFlight' = InFlight \ {c}

\* A cycle that leaves the learner is no longer in flight, the others stay.
LEMMA LeavingShrinks ==
  ASSUME TypeOK, NEW c \in Cycles, LeaveLearner(c)
  PROVE  InFlight' = InFlight \ {c}
  BY DEF LeaveLearner, InFlight, AtPush, TypeOK, Callers, Executing

\* A task is taken within the budget, or no cycle joins those in flight.
LEMMA TakingIsPaid ==
  ASSUME TypeOK, NEW c \in Cycles, NEW P, TakeTask(c, P)
  PROVE  LearnerStep
  <1>1. CostToday \in Nat /\ CostToday <= cost
    BY DEF CostToday, TypeOK
  <1>2. CASE LeaveLearner(c) /\ cost' \in {cost, CostToday}
    BY <1>1, <1>2, LeavingShrinks DEF LearnerStep, TypeOK
  <1>3. CASE WithinBudget(CostToday) /\ cost' = CostToday
    BY <1>1, <1>3, LimitsAssumption
    DEF WithinBudget, LearnerStep, InFlight, LimitsAssumption
  <1> QED
    BY <1>2, <1>3 DEF TakeTask

\* Every step is a LearnerStep.
LEMMA StepIsLearnerStep == TypeOK /\ [Next]_vars => LearnerStep
  <1> SUFFICES ASSUME TypeOK, [Next]_vars PROVE LearnerStep
    OBVIOUS
  <1>c. cost \in Nat /\ Cycles \subseteq Callers /\ pc \in [Callers -> Places]
    BY DEF TypeOK, Callers
  <1>s. ASSUME cost' = cost \/ cost' = 0,
               \A c \in Cycles : pc'[c] \in Executing => pc[c] \in Executing
        PROVE  LearnerStep
    BY <1>c, <1>s DEF LearnerStep, InFlight
  <1>1. ASSUME NEW c \in Cycles, StartCycle(c) PROVE LearnerStep
    BY <1>1, <1>c, <1>s DEF StartCycle, learnerVars, Executing
  <1>2. ASSUME NEW c \in Cycles, LearnLater(c) PROVE LearnerStep
    BY <1>2, <1>c, LeavingShrinks DEF LearnLater, LearnerStep
  <1>3. ASSUME NEW c \in Cycles, LearnNow(c) PROVE LearnerStep
    BY <1>3, <1>c, <1>s, TakingIsPaid DEF LearnNow, Executing
  <1>4. ASSUME NEW c \in Cycles, FindGaps(c) PROVE LearnerStep
    BY <1>4, <1>c, <1>s, TakingIsPaid DEF FindGaps, Generated, Executing
  <1>5. ASSUME NEW c \in Cycles, AddGap(c) PROVE LearnerStep
    BY <1>5, <1>c, <1>s, TakingIsPaid DEF AddGap, Generated
  <1>6. ASSUME NEW c \in Cycles, StopGenerating(c) PROVE LearnerStep
    BY <1>6, TakingIsPaid DEF StopGenerating
  <1>7. ASSUME NEW c \in Cycles, StoreFindings(c) PROVE LearnerStep
    BY <1>7, <1>c, <1>s DEF StoreFindings, Executing
  <1>8. ASSUME NEW c \in Cycles, Complete(c) PROVE LearnerStep
    BY <1>8, <1>c, LeavingShrinks DEF Complete, LearnerStep, InFlight, Executing
  <1>9. ASSUME NEW c \in Cycles, Fail(c) PROVE LearnerStep
    BY <1>9, <1>c, LeavingShrinks DEF Fail, LearnerStep
  <1>10. ASSUME NEW r \in Requests, StartPush(r) PROVE LearnerStep
    BY <1>10, <1>c, <1>s DEF StartPush, learnerVars, Executing
  <1>11. ASSUME NEW c \in Callers, GiveUpPush(c) PROVE LearnerStep
    BY <1>11, <1>c, <1>s DEF GiveUpPush, learnerVars, Executing
  <1>12. ASSUME NEW c \in Callers, Push(c) PROVE LearnerStep
    BY <1>12, <1>c, <1>s DEF Push, learnerVars, Executing
  <1>13. ASSUME NEW s \in Services, CooldownEnds(s) PROVE LearnerStep
    BY <1>13, <1>s DEF CooldownEnds, learnerVars
  <1>14. CASE ReadStatus
    BY <1>14, <1>s DEF ReadStatus
  <1>15. CASE NewDay
    BY <1>15, <1>s DEF NewDay
  <1>16. CASE UNCHANGED vars
    BY <1>16, <1>s DEF vars
  <1> QED
    BY <1>1, <1>2, <1>3, <1>4, <1>5, <1>6, <1>7, <1>8, <1>9, <1>10, <1>11, <1>12,
       <1>13, <1>14, <1>15, <1>16 DEF Next

\* A LearnerStep keeps the bound on the overrun.
LEMMA BudgetStep ==
  ASSUME TypeOK, BudgetOverrunBounded, LearnerStep, TypeOK'
  PROVE  BudgetOverrunBounded'
  <1>1. /\ InFlight \in SUBSET Cycles /\ InFlight' \in SUBSET Cycles
        /\ cost \in Nat /\ cost' \in Nat /\ Budget \in Nat
    BY LimitsAssumption DEF InFlight, TypeOK, LimitsAssumption
  <1>2. /\ IsFiniteSet(InFlight) /\ Cardinality(InFlight) \in Nat
        /\ Cardinality(InFlight') \in Nat /\ Cardinality(Cycles) \in Nat
        /\ Cardinality(InFlight') <= Cardinality(Cycles)
    BY <1>1, CallersFinite, Counting
  <1>3. CASE cost' <= cost /\ InFlight' \subseteq InFlight
    <2>1. Cardinality(InFlight') <= Cardinality(InFlight)
      BY <1>2, <1>3, Counting
    <2> QED
      BY <1>1, <1>2, <1>3, <2>1 DEF BudgetOverrunBounded
  <1>4. CASE cost' + 2 <= Budget
    <2>1. \A a, b, m, n \in Nat : a + 2 <= b /\ m <= n => a + m + 2 <= b + n
      OBVIOUS
    <2>2. cost' + Cardinality(InFlight') + 2 <= Budget + Cardinality(Cycles)
      BY <1>1, <1>2, <1>4, <2>1
    <2> QED
      BY <2>2 DEF BudgetOverrunBounded
  <1>5. CASE \E c \in InFlight : cost' = cost + 1 /\ InFlight' = InFlight \ {c}
    <2>1. Cardinality(InFlight) = Cardinality(InFlight') + 1
      BY <1>2, <1>5, OneLess
    <2> QED
      BY <1>1, <1>2, <1>5, <2>1 DEF BudgetOverrunBounded
  <1> QED
    BY <1>3, <1>4, <1>5 DEF LearnerStep

\* BudgetOverrunBounded holds initially.
LEMMA InitBudget == Init => BudgetOverrunBounded
  <1> SUFFICES ASSUME Init PROVE BudgetOverrunBounded
    OBVIOUS
  <1>1. InFlight = {}
    BY DEF Init, InFlight, Callers, Executing
  <1>2. Cardinality(InFlight) = 0
    BY <1>1, FS_EmptySet
  <1>3. Cardinality(Cycles) \in Nat
    BY CallersFinite, FS_CardinalityType
  <1> QED
    BY <1>2, <1>3, LimitsAssumption DEF Init, BudgetOverrunBounded, LimitsAssumption

\* However many cycles run at once, the day's cost and what is still running
\* exceed the budget by no more than a task for each cycle beyond the first.
THEOREM BudgetSafe == Spec => []BudgetOverrunBounded
  <1>1. TypeOK /\ BudgetOverrunBounded /\ TypeOK' /\ [Next]_vars => BudgetOverrunBounded'
    BY StepIsLearnerStep, BudgetStep
  <1> QED
    BY <1>1, InitBudget, AutonomyTypes, PTL DEF Spec

-----------------------------------------------------------------------------
(* The pushes *)

\* What a step may do to the pushes of service s and to those on their way.
PushStep(s) ==
  \/ /\ UNCHANGED <<pushes[s], inARow[s], cooling[s]>>
     /\ OnTheWay(s)' \subseteq OnTheWay(s)
  \/ /\ UNCHANGED <<pushes[s], inARow[s], cooling[s]>>
     /\ ~cooling[s] /\ pushes[s] < MaxPushes
  \/ /\ UNCHANGED pushes[s]
     /\ inARow'[s] = 0
     /\ OnTheWay(s)' = OnTheWay(s)
  \/ /\ \E c \in OnTheWay(s) : OnTheWay(s)' = OnTheWay(s) \ {c}
     /\ pushes'[s] = pushes[s] + 1
     /\ inARow'[s] = inARow[s] + 1
     /\ cooling'[s]

\* A caller comes to push only when its service may push.
LEMMA ArrivalsArePaid ==
  ASSUME NEW s \in Services, UNCHANGED pushVars,
         \A c \in Callers : pc'[c] = "pushing" =>
           pc[c] = "pushing" \/ MayPush(Service(c))
  PROVE  PushStep(s)
  <1>1. CASE MayPush(s)
    BY <1>1 DEF PushStep, MayPush, pushVars
  <1>2. CASE ~MayPush(s)
    BY <1>2 DEF PushStep, pushVars, OnTheWay, Users
  <1> QED
    BY <1>1, <1>2

\* A caller that leaves the learner comes to push only when it may.
LEMMA LeavingArrives ==
  ASSUME TypeOK, NEW c \in Cycles, LeaveLearner(c), NEW d \in Callers,
         pc'[d] = "pushing"
  PROVE  pc[d] = "pushing" \/ MayPush(Service(d))
  BY DEF LeaveLearner, AtPush, TypeOK, Callers

\* The same of a caller that takes a task or finds none.
LEMMA TakingArrives ==
  ASSUME TypeOK, NEW c \in Cycles, NEW P, TakeTask(c, P), NEW d \in Callers,
         pc'[d] = "pushing"
  PROVE  pc[d] = "pushing" \/ MayPush(Service(d))
  <1>1. CASE LeaveLearner(c)
    BY <1>1, LeavingArrives
  <1>2. CASE pc' = [pc EXCEPT ![c] = "researching"]
    BY <1>2 DEF TypeOK, Callers
  <1> QED
    BY <1>1, <1>2 DEF TakeTask

\* Every step is a PushStep of each service.
LEMMA StepIsPushStep ==
  ASSUME TypeOK, [Next]_vars, NEW s \in Services
  PROVE  PushStep(s)
  <1>c. Cycles \subseteq Callers /\ Requests \subseteq Callers /\ pc \in [Callers -> Places]
    BY DEF TypeOK, Callers
  <1>1. ASSUME NEW c \in Cycles, StartCycle(c) PROVE PushStep(s)
    BY <1>1, <1>c, ArrivalsArePaid DEF StartCycle
  <1>2. ASSUME NEW c \in Cycles, LearnLater(c) PROVE PushStep(s)
    BY <1>2, ArrivalsArePaid, LeavingArrives DEF LearnLater
  <1>3. ASSUME NEW c \in Cycles, LearnNow(c) PROVE PushStep(s)
    BY <1>3, <1>c, ArrivalsArePaid, TakingArrives DEF LearnNow
  <1>4. ASSUME NEW c \in Cycles, FindGaps(c) PROVE PushStep(s)
    BY <1>4, <1>c, ArrivalsArePaid, TakingArrives DEF FindGaps, Generated
  <1>5. ASSUME NEW c \in Cycles, AddGap(c) PROVE PushStep(s)
    BY <1>5, <1>c, ArrivalsArePaid, TakingArrives DEF AddGap, Generated
  <1>6. ASSUME NEW c \in Cycles, StopGenerating(c) PROVE PushStep(s)
    BY <1>6, ArrivalsArePaid, TakingArrives DEF StopGenerating
  <1>7. ASSUME NEW c \in Cycles, StoreFindings(c) PROVE PushStep(s)
    BY <1>7, <1>c, ArrivalsArePaid DEF StoreFindings
  <1>8. ASSUME NEW c \in Cycles, Complete(c) PROVE PushStep(s)
    BY <1>8, ArrivalsArePaid, LeavingArrives DEF Complete
  <1>9. ASSUME NEW c \in Cycles, Fail(c) PROVE PushStep(s)
    BY <1>9, ArrivalsArePaid, LeavingArrives DEF Fail
  <1>10. ASSUME NEW r \in Requests, StartPush(r) PROVE PushStep(s)
    BY <1>10, <1>c, ArrivalsArePaid DEF StartPush
  <1>11. ASSUME NEW c \in Callers, GiveUpPush(c) PROVE PushStep(s)
    BY <1>11, <1>c, ArrivalsArePaid DEF GiveUpPush
  <1>12. ASSUME NEW c \in Callers, Push(c) PROVE PushStep(s)
    <2>1. CASE Service(c) = s
      <3>1. c \in OnTheWay(s) /\ OnTheWay(s)' = OnTheWay(s) \ {c}
        BY <1>12, <1>c, <2>1 DEF Push, OnTheWay, Users
      <3>2. /\ pushes'[s] = pushes[s] + 1
            /\ inARow'[s] = inARow[s] + 1
            /\ cooling'[s] = TRUE
        BY <1>12, <2>1 DEF Push, TypeOK
      <3> QED
        BY <3>1, <3>2 DEF PushStep
    <2>2. CASE Service(c) # s
      <3>1. OnTheWay(s)' = OnTheWay(s)
        BY <1>12, <1>c, <2>2 DEF Push, OnTheWay, Users
      <3>2. UNCHANGED <<pushes[s], inARow[s], cooling[s]>>
        BY <1>12, <2>2 DEF Push, TypeOK
      <3> QED
        BY <3>1, <3>2 DEF PushStep
    <2> QED
      BY <2>1, <2>2
  <1>13. ASSUME NEW r \in Services, CooldownEnds(r) PROVE PushStep(s)
    <2>1. OnTheWay(s)' = OnTheWay(s) /\ UNCHANGED pushes[s]
      BY <1>13 DEF CooldownEnds, OnTheWay, Users
    <2>2. CASE r = s
      BY <1>13, <2>1, <2>2 DEF CooldownEnds, PushStep, TypeOK
    <2>3. CASE r # s
      <3>1. UNCHANGED <<inARow[s], cooling[s]>>
        BY <1>13, <2>3 DEF CooldownEnds, TypeOK
      <3> QED
        BY <2>1, <3>1 DEF PushStep
    <2> QED
      BY <2>2, <2>3
  <1>14. CASE ReadStatus
    BY <1>14, ArrivalsArePaid DEF ReadStatus
  <1>15. CASE NewDay
    BY <1>15, ArrivalsArePaid DEF NewDay
  <1>16. CASE UNCHANGED vars
    BY <1>16, ArrivalsArePaid DEF vars, pushVars
  <1> QED
    BY <1>1, <1>2, <1>3, <1>4, <1>5, <1>6, <1>7, <1>8, <1>9, <1>10, <1>11, <1>12,
       <1>13, <1>14, <1>15, <1>16 DEF Next

\* A PushStep of every service keeps both bounds on its pushes.
LEMMA PushBoundsStep ==
  ASSUME TypeOK, TypeOK', PushOverrunBounded, CooldownInv,
         \A s \in Services : PushStep(s)
  PROVE  PushOverrunBounded' /\ CooldownInv'
  <1> SUFFICES ASSUME NEW s \in Services
               PROVE  /\ pushes'[s] + Cardinality(OnTheWay(s)') < MaxPushes + Cardinality(Users(s))
                      /\ ~cooling'[s] => inARow'[s] = 0
                      /\ inARow'[s] + Cardinality(OnTheWay(s)') <= Cardinality(Users(s))
    BY DEF PushOverrunBounded, CooldownInv
  <1>1. /\ pushes[s] \in Nat /\ pushes'[s] \in Nat /\ inARow[s] \in Nat
        /\ inARow'[s] \in Nat /\ MaxPushes \in Nat
    BY LimitsAssumption DEF TypeOK, LimitsAssumption
  <1>2. /\ OnTheWay(s) \in SUBSET Users(s) /\ OnTheWay(s)' \in SUBSET Users(s)
        /\ IsFiniteSet(Users(s))
    BY CallersFinite DEF OnTheWay, Users
  <1>3. /\ IsFiniteSet(OnTheWay(s)) /\ Cardinality(OnTheWay(s)) \in Nat
        /\ Cardinality(OnTheWay(s)') \in Nat /\ Cardinality(Users(s)) \in Nat
        /\ Cardinality(OnTheWay(s)') <= Cardinality(Users(s))
    BY <1>2, Counting
  <1>4. /\ pushes[s] + Cardinality(OnTheWay(s)) < MaxPushes + Cardinality(Users(s))
        /\ ~cooling[s] => inARow[s] = 0
        /\ inARow[s] + Cardinality(OnTheWay(s)) <= Cardinality(Users(s))
    BY DEF PushOverrunBounded, CooldownInv
  <1>5. CASE /\ UNCHANGED <<pushes[s], inARow[s], cooling[s]>>
             /\ OnTheWay(s)' \subseteq OnTheWay(s)
    <2>1. Cardinality(OnTheWay(s)') <= Cardinality(OnTheWay(s))
      BY <1>3, <1>5, Counting
    <2> QED
      BY <1>1, <1>3, <1>4, <1>5, <2>1
  <1>6. CASE /\ UNCHANGED <<pushes[s], inARow[s], cooling[s]>>
             /\ ~cooling[s] /\ pushes[s] < MaxPushes
    BY <1>1, <1>3, <1>4, <1>6
  <1>7. CASE /\ UNCHANGED pushes[s]
             /\ inARow'[s] = 0
             /\ OnTheWay(s)' = OnTheWay(s)
    BY <1>1, <1>3, <1>4, <1>7
  <1>8. CASE /\ \E c \in OnTheWay(s) : OnTheWay(s)' = OnTheWay(s) \ {c}
             /\ pushes'[s] = pushes[s] + 1
             /\ inARow'[s] = inARow[s] + 1
             /\ cooling'[s]
    <2>1. Cardinality(OnTheWay(s)) = Cardinality(OnTheWay(s)') + 1
      BY <1>3, <1>8, OneLess
    <2> QED
      BY <1>1, <1>3, <1>4, <1>8, <2>1
  <1>9. PushStep(s)
    OBVIOUS
  <1> QED
    BY <1>5, <1>6, <1>7, <1>8, <1>9 DEF PushStep

\* Both bounds hold initially.
LEMMA InitPushBounds == Init => PushOverrunBounded /\ CooldownInv
  <1> SUFFICES ASSUME Init, NEW s \in Services
               PROVE  /\ pushes[s] + Cardinality(OnTheWay(s)) < MaxPushes + Cardinality(Users(s))
                      /\ ~cooling[s] => inARow[s] = 0
                      /\ inARow[s] + Cardinality(OnTheWay(s)) <= Cardinality(Users(s))
    BY DEF PushOverrunBounded, CooldownInv
  <1>1. OnTheWay(s) = {}
    BY DEF Init, OnTheWay, Users
  <1>2. Cardinality(OnTheWay(s)) = 0
    BY <1>1, FS_EmptySet
  <1>3. Cardinality(Users(s)) \in Nat
    BY CallersFinite, FS_CardinalityType
  <1>4. pushes[s] = 0 /\ inARow[s] = 0
    BY DEF Init
  <1> QED
    BY <1>2, <1>3, <1>4, LimitsAssumption DEF LimitsAssumption

\* The pushes in a row are among those the invariant counts.
LEMMA CooldownBoundsPushes ==
  ASSUME TypeOK, CooldownInv
  PROVE  OnePushPerCaller
  <1> SUFFICES ASSUME NEW s \in Services PROVE inARow[s] <= Cardinality(Users(s))
    BY DEF OnePushPerCaller
  <1>1. OnTheWay(s) \in SUBSET Users(s) /\ IsFiniteSet(Users(s))
    BY CallersFinite DEF OnTheWay
  <1>2. Cardinality(OnTheWay(s)) \in Nat /\ Cardinality(Users(s)) \in Nat
    BY <1>1, Counting
  <1> QED
    BY <1>2 DEF CooldownInv, TypeOK

\* A service sends at most one push too many for each caller beyond the first.
THEOREM PushesSafe == Spec => []PushOverrunBounded
  <1>1. TypeOK /\ PushOverrunBounded /\ CooldownInv /\ TypeOK' /\ [Next]_vars
          => PushOverrunBounded' /\ CooldownInv'
    BY StepIsPushStep, PushBoundsStep
  <1> QED
    BY <1>1, InitPushBounds, AutonomyTypes, PTL DEF Spec

\* Between two ends of a cooldown no caller gets more than one push out.
THEOREM CooldownSafe == Spec => []OnePushPerCaller
  <1>1. TypeOK /\ PushOverrunBounded /\ CooldownInv /\ TypeOK' /\ [Next]_vars
          => PushOverrunBounded' /\ CooldownInv'
    BY StepIsPushStep, PushBoundsStep
  <1>2. TypeOK /\ CooldownInv => OnePushPerCaller
    BY CooldownBoundsPushes
  <1> QED
    BY <1>1, <1>2, InitPushBounds, AutonomyTypes, PTL DEF Spec

-----------------------------------------------------------------------------
(* The task list *)

\* The executions whose takeaways are being extracted after a step were before.
NoneArrives ==
  \A c \in Cycles : pc'[c] = "extracting" => pc[c] = "extracting" /\ task'[c] = task[c]

\* What a step may do to the list: add unused tasks, store the findings of a
\* task, or take out the one task that a cycle completes.
ListStep ==
  \/ /\ NoneArrives
     /\ pending \subseteq pending' /\ pending' \ pending \subseteq Unused
     /\ UNCHANGED stored
  \/ \E c \in Cycles : StoreFindings(c)
  \/ /\ NoneArrives
     /\ \E c \in Cycles :
          /\ pc[c] = "extracting"
          /\ pending' = pending \ {task[c]}
          /\ stored' = stored \ {task[c]}

\* Nobody arrives at extracting by leaving the learner.
LEMMA LeavingStoresNothing ==
  ASSUME TypeOK, NEW c \in Cycles, LeaveLearner(c)
  PROVE  NoneArrives
  BY DEF LeaveLearner, AtPush, TypeOK, NoneArrives, Callers

\* Nor by taking a task.
LEMMA TakingStoresNothing ==
  ASSUME TypeOK, NEW c \in Cycles, NEW P, TakeTask(c, P)
  PROVE  NoneArrives
  <1>1. CASE LeaveLearner(c)
    BY <1>1, LeavingStoresNothing
  <1>2. CASE \E t : /\ pc' = [pc EXCEPT ![c] = "researching"]
                    /\ task' = [task EXCEPT ![c] = t]
    BY <1>2 DEF TypeOK, Callers, NoneArrives
  <1> QED
    BY <1>1, <1>2 DEF TakeTask

\* Every step is a ListStep.
LEMMA StepIsListStep == TypeOK /\ [Next]_vars => ListStep
  <1> SUFFICES ASSUME TypeOK, [Next]_vars PROVE ListStep
    OBVIOUS
  <1>c. Cycles \subseteq Callers /\ pc \in [Callers -> Places]
    BY DEF TypeOK, Callers
  <1>s. ASSUME NoneArrives, UNCHANGED <<pending, stored>> PROVE ListStep
    BY <1>s DEF ListStep
  <1>1. ASSUME NEW c \in Cycles, StartCycle(c) PROVE ListStep
    BY <1>1, <1>c, <1>s DEF StartCycle, learnerVars, NoneArrives
  <1>2. ASSUME NEW c \in Cycles, LearnLater(c) PROVE ListStep
    BY <1>2, <1>s, LeavingStoresNothing DEF LearnLater
  <1>3. ASSUME NEW c \in Cycles, LearnNow(c) PROVE ListStep
    BY <1>3, <1>c, <1>s, TakingStoresNothing DEF LearnNow, NoneArrives
  <1>4. ASSUME NEW c \in Cycles, FindGaps(c) PROVE ListStep
    <2>1. CASE Generated(c, {})
      <3>1. pending \subseteq pending' /\ pending' \ pending \subseteq Unused /\ TakeTask(c, pending')
        BY <2>1, GeneratedAdds
      <3> QED
        BY <1>4, <3>1, TakingStoresNothing DEF FindGaps, ListStep
    <2>2. CASE pc' = [pc EXCEPT ![c] = "querying"] /\ UNCHANGED <<task, pending>>
      BY <1>4, <2>2, <1>c, <1>s DEF FindGaps, NoneArrives
    <2> QED
      BY <1>4, <2>1, <2>2 DEF FindGaps
  <1>5. ASSUME NEW c \in Cycles, AddGap(c) PROVE ListStep
    <2>1. PICK t \in Unused :
            \/ pending' = pending \cup {t} /\ UNCHANGED <<pc, task>>
            \/ Generated(c, {t})
      BY <1>5 DEF AddGap
    <2>2. CASE pending' = pending \cup {t} /\ UNCHANGED <<pc, task>>
      BY <1>5, <2>2 DEF AddGap, ListStep, NoneArrives
    <2>3. CASE Generated(c, {t})
      <3>1. pending \subseteq pending' /\ pending' \ pending \subseteq Unused /\ TakeTask(c, pending')
        BY <2>3, GeneratedAdds
      <3> QED
        BY <1>5, <3>1, TakingStoresNothing DEF AddGap, ListStep
    <2> QED
      BY <2>1, <2>2, <2>3
  <1>6. ASSUME NEW c \in Cycles, StopGenerating(c) PROVE ListStep
    BY <1>6, <1>s, TakingStoresNothing DEF StopGenerating
  <1>7. ASSUME NEW c \in Cycles, StoreFindings(c) PROVE ListStep
    BY <1>7 DEF ListStep
  <1>8. ASSUME NEW c \in Cycles, Complete(c) PROVE ListStep
    BY <1>8, LeavingStoresNothing DEF Complete, ListStep
  <1>9. ASSUME NEW c \in Cycles, Fail(c) PROVE ListStep
    BY <1>9, <1>s, LeavingStoresNothing DEF Fail
  <1>10. ASSUME NEW r \in Requests, StartPush(r) PROVE ListStep
    BY <1>10, <1>c, <1>s DEF StartPush, learnerVars, NoneArrives
  <1>11. ASSUME NEW c \in Callers, GiveUpPush(c) PROVE ListStep
    BY <1>11, <1>c, <1>s DEF GiveUpPush, learnerVars, NoneArrives
  <1>12. ASSUME NEW c \in Callers, Push(c) PROVE ListStep
    BY <1>12, <1>c, <1>s DEF Push, learnerVars, NoneArrives
  <1>13. ASSUME NEW s \in Services, CooldownEnds(s) PROVE ListStep
    BY <1>13, <1>s DEF CooldownEnds, learnerVars, NoneArrives
  <1>14. CASE ReadStatus
    BY <1>14, <1>s DEF ReadStatus, NoneArrives
  <1>15. CASE NewDay
    BY <1>15, <1>s DEF NewDay, NoneArrives
  <1>16. CASE UNCHANGED vars
    BY <1>16, <1>s DEF vars, NoneArrives
  <1> QED
    BY <1>1, <1>2, <1>3, <1>4, <1>5, <1>6, <1>7, <1>8, <1>9, <1>10, <1>11, <1>12,
       <1>13, <1>14, <1>15, <1>16 DEF Next

\* A ListStep keeps StoredInv and drops no task whose findings are not stored.
LEMMA ListStepSafe ==
  ASSUME TypeOK, StoredInv, ListStep
  PROVE  StoredInv' /\ \A t \in pending \ pending' : t \in stored
  <1>1. CASE /\ NoneArrives
             /\ pending \subseteq pending' /\ pending' \ pending \subseteq Unused
             /\ UNCHANGED stored
    <2>1. \A c \in Cycles : task[c] \in pending' => task[c] \in pending
      BY <1>1 DEF Unused
    <2> QED
      BY <1>1, <2>1 DEF StoredInv, NoneArrives
  <1>2. ASSUME NEW c \in Cycles, StoreFindings(c)
        PROVE  StoredInv' /\ \A t \in pending \ pending' : t \in stored
    BY <1>2 DEF StoreFindings, StoredInv, TypeOK, Callers
  <1>3. CASE /\ NoneArrives
             /\ \E c \in Cycles : /\ pc[c] = "extracting"
                                  /\ pending' = pending \ {task[c]}
                                  /\ stored' = stored \ {task[c]}
    BY <1>3 DEF StoredInv, NoneArrives
  <1> QED
    BY <1>1, <1>2, <1>3 DEF ListStep

\* A task leaves the list only with its findings stored, however many cycles
\* generate, execute and complete tasks at once.
THEOREM NothingIsDropped == Spec => NothingDropped
  <1>1. Init => StoredInv
    BY DEF Init, StoredInv
  <1>2. TypeOK /\ StoredInv /\ [Next]_vars => StoredInv'
    BY StepIsListStep, ListStepSafe
  <1>3. TypeOK /\ StoredInv /\ [Next]_vars
          => [\A t \in pending \ pending' : t \in stored]_vars
    BY StepIsListStep, ListStepSafe
  <1> QED
    BY <1>1, <1>2, <1>3, AutonomyTypes, PTL DEF Spec, NothingDropped
=============================================================================
