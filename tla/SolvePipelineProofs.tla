------------------------ MODULE SolvePipelineProofs -------------------------
(***************************************************************************)
(* Theorems about SolvePipeline, for any plans, numbers of retries and     *)
(* configurations: what decides that a step is executed, how often its     *)
(* command is launched, what a report says, and what the two histories     *)
(* keep of it all.                                                         *)
(* The invariant follows the loop: every step behind it is decided, every  *)
(* step before it is pending, and the one it is at has had its             *)
(* dependencies completed before it.                                       *)
(***************************************************************************)
EXTENDS SolvePipeline, SequenceTheorems, TLAPS

Early == {"idle", "detect", "reflect", "planning", "planned"}
Executing == {"launch", "running", "backoff"}
Working == Executing \cup {"verify", "research", "reverify"}
Ending == {"learn", "finish", "over"}
StepStates == Results \cup {"pending", "in_progress", "skipped"}

Shapes ==
  /\ policy \in PolicyNames
  /\ pc \in Early \cup Working \cup Ending \cup {"choose"}
  /\ plan \in Plans
  /\ cursor \in 1..(N + 1)
  /\ pc \in Working => cursor \in Steps
  /\ status \in [Steps -> StepStates]
  /\ job \in {"step", "fix", "retry"}
  /\ tries \in 0..MaxRetries
  /\ data \in Results /\ again \in Results
  /\ recoveries \in 0..MaxRecoveries
  /\ report \in Seq(Entries)
  /\ runs \in Nat

\* The launches that k rounds of execute_with_retry may make, for k up to 3.
Rounds(k) ==
  LET round == MaxRetries + 1
  IN  IF k = 0 THEN 0 ELSE IF k = 1 THEN round ELSE IF k = 2 THEN 2 * round ELSE 3 * round

\* The launches of the round that is under way.
ThisRound == IF pc = "launch" THEN tries ELSE tries + 1

\* Of the current step: first its own round, then one for each recovery's retry.
Effort ==
  /\ runs <= Rounds(3)
  /\ pc = "backoff" => tries < MaxRetries
  /\ pc \in Early \cup {"choose", "verify"} => recoveries = 0
  /\ pc \in Executing =>
       \/ job = "step" /\ recoveries = 0 /\ runs <= ThisRound
       \/ job = "fix" /\ recoveries >= 1 /\ runs <= Rounds(recoveries)
       \/ job = "retry" /\ recoveries >= 1 /\ runs <= Rounds(recoveries) + ThisRound
  /\ pc = "verify" => runs <= Rounds(1) /\ data # "failed"
  /\ pc = "research" => recoveries >= 1 /\ runs <= Rounds(recoveries)
  /\ pc = "reverify" => recoveries >= 1 /\ runs <= Rounds(recoveries + 1) /\ again # "failed"

\* What step s depends on came before it and completed.
Met(s) == \A d \in plan.deps[s] \cap Steps : d < s /\ status[d] = "completed"

\* The step's own run has yet to end.
Unended == pc \in Executing /\ job = "step"

Progressed ==
  /\ \A s \in Steps : s > cursor => status[s] = "pending"
  /\ pc \in Early => cursor = 1 /\ report = <<>> /\ \A s \in Steps : status[s] = "pending"
  /\ pc = "choose" /\ cursor \in Steps => status[cursor] = "pending"
  /\ pc \in Working => Met(cursor) /\ (Unended \/ status[cursor] \in Results)
  /\ \A s \in Steps : s < cursor =>
       status[s] \in Results \cup {"skipped"} /\ (status[s] = "skipped" <=> ~Met(s))

Reported ==
  /\ \A k \in DOMAIN report :
       /\ Met(report[k].step)
       /\ report[k].passed => report[k].status # "failed"
       /\ \/ report[k].step < cursor
          \/ report[k].step = cursor /\ mode = "step_by_step" /\ pc \in Ending
  /\ \A j, k \in DOMAIN report : j < k => report[j].step < report[k].step
  /\ \A s \in Steps : s < cursor /\ status[s] # "skipped" =>
       \E k \in DOMAIN report : report[k].step = s

IInv == Shapes /\ Effort /\ Progressed /\ Reported

-----------------------------------------------------------------------------
(* Arithmetic and frames *)

LEMMA RoundsGrow ==
  /\ \A k \in 0..3 : Rounds(k) \in Nat
  /\ \A k \in 0..2 : Rounds(k + 1) = Rounds(k) + (MaxRetries + 1)
  /\ \A k \in 0..3 : Rounds(k) <= Rounds(3)
  /\ Rounds(0) = 0
  /\ Rounds(3) = 3 * (MaxRetries + 1)
  <1>1. MaxRetries \in Nat
    BY ExecutorAssumption DEF ExecutorAssumption
  <1> QED
    BY <1>1 DEF Rounds

LEMMA StepsAre == N \in Nat /\ Steps = 1..N
  BY PlansAssumption DEF PlansAssumption, Steps

\* What a step up to the cursor depends on is decided by the statuses before it.
LEMMA MetStays ==
  ASSUME Shapes, plan' = plan,
         \A s \in Steps : s < cursor => status'[s] = status[s],
         NEW s \in Steps, s <= cursor
  PROVE  Met(s)' <=> Met(s)
  <1>1. \A d \in Steps : d < s => d < cursor
    BY StepsAre DEF Shapes
  <1> QED
    BY <1>1 DEF Met

LEMMA EntriesAre ==
  ASSUME Shapes, NEW k \in DOMAIN report
  PROVE  report[k].step \in Steps /\ report[k].status \in Results /\ report[k].passed \in BOOLEAN
  <1>1. report[k] \in Entries
    BY DEF Shapes
  <1> QED
    BY <1>1 DEF Entries

\* A step that leaves the loop where it is, and says nothing.
LEMMA ProgressStays ==
  ASSUME IInv, UNCHANGED <<plan, cursor, report>>,
         \A s \in Steps : s # cursor => status'[s] = status[s],
         pc \in Working, pc' \in Working,
         Unended' \/ status'[cursor] \in Results
  PROVE  Progressed' /\ Reported'
  <1>1. cursor \in Steps /\ \A s \in Steps : s < cursor => s # cursor
    BY StepsAre DEF IInv, Shapes
  <1>2. \A s \in Steps : s <= cursor => (Met(s)' <=> Met(s))
    BY <1>1, MetStays DEF IInv
  <1>3. pc' \notin Early \cup {"choose"}
    BY DEF Working, Executing, Early
  <1>4. \A s \in Steps : s \in Nat
    BY StepsAre
  <1>5. Progressed'
    <2>1. \A s \in Steps : s > cursor' => status'[s] = "pending"
      BY <1>1, <1>4 DEF IInv, Progressed
    <2>2. Met(cursor)'
      BY <1>1, <1>2, <1>4 DEF IInv, Progressed
    <2>3. \A s \in Steps : s < cursor' =>
            status'[s] \in Results \cup {"skipped"} /\ (status'[s] = "skipped" <=> ~Met(s)')
      BY <1>1, <1>2, <1>4 DEF IInv, Progressed
    <2> QED
      BY <1>3, <2>1, <2>2, <2>3 DEF Progressed
  <1>6. Reported'
    <2>1. pc \notin Ending
      BY DEF Working, Executing, Ending
    <2>2. \A k \in DOMAIN report : report[k].step \in Steps
      BY EntriesAre DEF IInv
    <2>3. \A k \in DOMAIN report : Met(report[k].step)' /\ report[k].step < cursor
      BY <1>1, <1>2, <1>4, <2>1, <2>2 DEF IInv, Reported
    <2> QED
      BY <1>1, <2>3 DEF IInv, Reported
  <1> QED
    BY <1>5, <1>6

\* An entry appended to a report leaves the others as they are.
LEMMA Appended ==
  ASSUME Shapes, NEW e \in Entries, report' = Append(report, e)
  PROVE  /\ report' \in Seq(Entries)
         /\ DOMAIN report' = DOMAIN report \cup {Len(report) + 1}
         /\ DOMAIN report = 1..Len(report) /\ Len(report) \in Nat
         /\ report'[Len(report) + 1] = e
         /\ \A k \in DOMAIN report : report'[k] = report[k]
  BY DEF Shapes

\* The step is recorded, and the loop goes on or stops.
LEMMA RecordKeeps ==
  ASSUME IInv, pc \in Working, UNCHANGED <<plan, mode, policy>>,
         status' \in [Steps -> StepStates], status'[cursor] \in Results,
         \A s \in Steps : s # cursor => status'[s] = status[s],
         NEW res \in Results, NEW passed \in BOOLEAN, passed => res # "failed",
         Record(res, passed),
         job' \in {"step", "fix", "retry"}, tries' \in 0..MaxRetries,
         data' \in Results, again' \in Results,
         runs' \in Nat, runs' <= Rounds(3)
  PROVE  IInv'
  <1> USE DEF IInv
  <1>1. cursor \in Steps /\ \A s \in Steps : s \in Nat /\ (s < cursor => s # cursor)
    BY StepsAre DEF Shapes
  <1> DEFINE entry == [step |-> cursor, status |-> res, passed |-> passed]
  <1>2. entry \in Entries /\ entry.step = cursor /\ entry.status = res /\ entry.passed = passed
    BY <1>1 DEF Entries
  <1>3. report' = Append(report, entry) /\ recoveries' = 0
    BY DEF Record
  <1>4. \/ pc' = "learn" /\ cursor' = cursor /\ mode' = "step_by_step"
        \/ pc' = "choose" /\ cursor' = cursor + 1
    BY DEF Record
  <1> HIDE DEF entry
  <1>5. /\ report' \in Seq(Entries)
        /\ DOMAIN report' = DOMAIN report \cup {Len(report) + 1}
        /\ DOMAIN report = 1..Len(report) /\ Len(report) \in Nat
        /\ report'[Len(report) + 1] = entry
        /\ \A k \in DOMAIN report : report'[k] = report[k]
    BY <1>2, <1>3, Appended
  <1>6. cursor' \in 1..(N + 1) /\ cursor' >= cursor /\ cursor' \in Nat /\ cursor \in Nat
    BY <1>1, <1>4, StepsAre
  <1>7. Shapes'
    BY <1>3, <1>4, <1>5, <1>6 DEF Shapes, Working, Executing, Ending, MaxRecoveries
  <1>8. Effort'
    BY <1>3, <1>4 DEF Effort, Executing, Early
  <1>9. \A s \in Steps : s <= cursor => (Met(s)' <=> Met(s))
    BY <1>1, MetStays
  <1>10. Met(cursor)
    BY DEF Progressed
  <1>11. Progressed'
    <2>1. \A s \in Steps : s > cursor' => status'[s] = "pending"
      BY <1>1, <1>4, <1>6 DEF Progressed
    <2>2. pc' = "choose" /\ cursor' \in Steps => status'[cursor'] = "pending"
      BY <1>1, <1>4, <1>6 DEF Progressed
    <2>3. ASSUME NEW s \in Steps, s < cursor'
          PROVE  status'[s] \in Results \cup {"skipped"} /\ (status'[s] = "skipped" <=> ~Met(s)')
      <3>1. CASE s < cursor
        BY <1>1, <1>9, <3>1 DEF Progressed
      <3>2. CASE s = cursor
        BY <1>1, <1>9, <1>10, <3>2 DEF Results
      <3> QED
        BY <1>1, <1>4, <1>6, <2>3, <3>1, <3>2
    <2> QED
      BY <1>4, <2>1, <2>2, <2>3 DEF Progressed, Early, Working, Executing
  <1>12. \A k \in DOMAIN report : report[k].step \in Steps /\ report[k].step < cursor
    BY EntriesAre DEF Reported, Working, Executing, Ending
  <1>13. Reported'
    <2>1. ASSUME NEW k \in DOMAIN report'
          PROVE  /\ Met(report[k].step)'
                 /\ report'[k].passed => report'[k].status # "failed"
                 /\ \/ report'[k].step < cursor'
                    \/ report'[k].step = cursor' /\ mode' = "step_by_step" /\ pc' \in Ending
      <3>1. CASE k \in DOMAIN report
        <4> DEFINE t == report[k].step
        <4>1. report'[k] = report[k]
          BY <1>5, <3>1
        <4>2. t \in Steps /\ t \in Nat /\ t < cursor
          BY <1>1, <1>12, <3>1
        <4> HIDE DEF t
        <4>3. t < cursor'
          BY <1>6, <4>2
        <4>4. PICK s \in Steps : s = report[k].step
          BY <4>2 DEF t
        <4>5. Met(s) /\ s <= cursor
          BY <1>1, <1>6, <3>1, <4>2, <4>4 DEF Reported, t
        <4>6. Met(s)'
          BY <1>9, <4>5
        <4>7. Met(report[k].step)'
          BY <4>1, <4>4, <4>6 DEF Met
        <4> QED
          BY <3>1, <4>1, <4>3, <4>7 DEF Reported, t
      <3>2. CASE k = Len(report) + 1
        <4>1. report'[k] = entry
          BY <1>5, <3>2
        <4>2. PICK s \in Steps : s = cursor
          BY <1>1
        <4>3. Met(s)'
          BY <1>1, <1>9, <1>10, <4>2
        <4>4. Met(report[k].step)'
          BY <1>2, <4>1, <4>2, <4>3 DEF Met
        <4> QED
          BY <1>2, <1>4, <1>6, <4>1, <4>4 DEF Ending
      <3> QED
        BY <1>5, <2>1, <3>1, <3>2
    <2>2. ASSUME NEW j \in DOMAIN report', NEW k \in DOMAIN report', j < k
          PROVE  report'[j].step < report'[k].step
      <3>1. j \in DOMAIN report
        BY <1>5, <2>2
      <3>2. CASE k \in DOMAIN report
        BY <1>5, <2>2, <3>1, <3>2 DEF Reported
      <3>3. CASE k = Len(report) + 1
        BY <1>2, <1>5, <1>12, <3>1, <3>3
      <3> QED
        BY <1>5, <2>2, <3>2, <3>3
    <2>3. ASSUME NEW s \in Steps, s < cursor', status'[s] # "skipped"
          PROVE  \E k \in DOMAIN report' : report'[k].step = s
      <3>1. CASE s < cursor
        <4>1. PICK k \in DOMAIN report : report[k].step = s
          BY <1>1, <2>3, <3>1 DEF Reported
        <4> QED
          BY <1>5, <4>1
      <3>2. CASE s = cursor
        BY <1>2, <1>5, <3>2
      <3> QED
        BY <1>1, <1>4, <1>6, <2>3, <3>1, <3>2
    <2> QED
      BY <2>1, <2>2, <2>3 DEF Reported
  <1> QED
    BY <1>7, <1>8, <1>11, <1>13

\* The loop stays at its step, and its effort fits.
LEMMA StaysKeeps ==
  ASSUME IInv, pc \in Working, pc' \in Working, UNCHANGED <<policy, mode, plan, cursor, report>>,
         status' \in [Steps -> StepStates], \A s \in Steps : s # cursor => status'[s] = status[s],
         Unended' \/ status'[cursor] \in Results,
         job' \in {"step", "fix", "retry"}, tries' \in 0..MaxRetries,
         data' \in Results, again' \in Results, recoveries' \in 0..MaxRecoveries,
         runs' \in Nat, Effort'
  PROVE  IInv'
  <1>1. Progressed' /\ Reported'
    BY ProgressStays
  <1>2. Shapes'
    BY DEF IInv, Shapes
  <1> QED
    BY <1>1, <1>2 DEF IInv

\* A verdict of "not passed": one recovery more, or the end of the step.
LEMMA NotPassedKeeps ==
  ASSUME IInv, pc \in Working, UNCHANGED <<policy, mode, plan>>,
         status' \in [Steps -> StepStates], status'[cursor] \in Results,
         \A s \in Steps : s # cursor => status'[s] = status[s],
         NEW res \in Results, NotPassed(res),
         job' \in {"step", "fix", "retry"}, tries' \in 0..MaxRetries,
         data' \in Results, again' \in Results,
         runs' \in Nat, runs' <= Rounds(recoveries + 1)
  PROVE  IInv'
  <1>1. recoveries \in 0..2
    BY DEF IInv, Shapes, MaxRecoveries
  <1>2. runs' <= Rounds(3)
    BY <1>1, RoundsGrow
  <1>3. CASE Record(res, FALSE)
    BY <1>2, <1>3, RecordKeeps
  <1>4. CASE pc' = "research" /\ recoveries < MaxRecoveries /\ recoveries' = recoveries + 1
             /\ UNCHANGED <<cursor, report>>
    <2>1. recoveries' \in 0..MaxRecoveries /\ recoveries' >= 1
      BY <1>1, <1>4 DEF MaxRecoveries
    <2>2. Effort'
      <3>1. Rounds(recoveries)' = Rounds(recoveries + 1) /\ Rounds(3)' = Rounds(3)
        BY <1>4 DEF Rounds
      <3> QED
        BY <1>2, <1>4, <2>1, <3>1 DEF Effort, Executing, Early
    <2> QED
      BY <1>4, <2>1, <2>2, StaysKeeps DEF Working
  <1> QED
    BY <1>3, <1>4 DEF NotPassed

\* What the runs of the current job may have added up to when it ends.
Spent(k) ==
  /\ job = "step" => k <= tries + 1
  /\ job = "fix" => k <= Rounds(recoveries)
  /\ job = "retry" => k <= Rounds(recoveries) + tries + 1

LEMMA EndJobKeeps ==
  ASSUME IInv, pc \in {"launch", "running"}, UNCHANGED <<policy, mode, plan>>,
         NEW r \in Results, EndJob(r), runs' \in Nat, Spent(runs')
  PROVE  IInv'
  <1> USE DEF IInv
  <1>1. cursor \in Steps /\ pc \in Working /\ tries \in Nat /\ tries <= MaxRetries
        /\ MaxRetries \in Nat /\ recoveries \in 0..2
    BY ExecutorAssumption DEF ExecutorAssumption, Shapes, Working, Executing, MaxRecoveries
  <1>2. Rounds(recoveries) \in Nat /\ Rounds(recoveries + 1) = Rounds(recoveries) + (MaxRetries + 1)
    BY <1>1, RoundsGrow
  <1>3. (job = "step" => recoveries = 0) /\ (job # "step" => recoveries >= 1)
        /\ job \in {"step", "fix", "retry"}
    BY DEF Effort, Executing, Shapes
  <1>4. runs' <= Rounds(recoveries + 1)
    <2>1. CASE job = "step"
      <3>1. runs' <= tries + 1
        BY <2>1 DEF Spent
      <3>2. Rounds(recoveries) >= 0
        BY <1>2
      <3> QED
        BY <1>1, <1>2, <3>1, <3>2
    <2>2. CASE job = "fix"
      <3>1. runs' <= Rounds(recoveries)
        BY <2>2 DEF Spent
      <3> QED
        BY <1>1, <1>2, <3>1
    <2>3. CASE job = "retry"
      <3>1. runs' <= Rounds(recoveries) + tries + 1
        BY <2>3 DEF Spent
      <3> QED
        BY <1>1, <1>2, <3>1
    <2> QED
      BY <1>3, <2>1, <2>2, <2>3
  <1>5. runs' <= Rounds(3)
    BY <1>1, <1>4, RoundsGrow
  <1>6. data \in Results /\ again \in Results /\ status \in [Steps -> StepStates]
    BY DEF Shapes
  <1>7. r \in StepStates
    BY DEF StepStates
  <1>8. Rounds(1)' = Rounds(1) /\ Rounds(3)' = Rounds(3)
    BY DEF Rounds
  <1>9. CASE job = "step"
    <2>1. status' = [status EXCEPT ![cursor] = r] /\ data' = r /\ UNCHANGED <<jobVars, again>>
      BY <1>9 DEF EndJob
    <2>2. status' \in [Steps -> StepStates] /\ status'[cursor] \in Results
          /\ \A s \in Steps : s # cursor => status'[s] = status[s]
      BY <1>1, <1>6, <1>7, <2>1
    <2>3. CASE NotPassed(r)
      BY <1>1, <1>4, <1>6, <2>1, <2>2, <2>3, NotPassedKeeps DEF jobVars, Shapes
    <2>4. CASE r # "failed" /\ pc' = "verify" /\ UNCHANGED <<cursor, recoveries, report>>
      <3>1. runs' <= Rounds(1)
        BY <1>3, <1>4, <1>9
      <3>2. Effort'
        BY <1>3, <1>5, <1>8, <1>9, <2>1, <2>4, <3>1 DEF Effort, Executing, Early
      <3> QED
        BY <1>1, <1>6, <2>1, <2>2, <2>4, <3>2, StaysKeeps DEF jobVars, Shapes, Working
    <2> QED
      BY <1>9, <2>3, <2>4 DEF EndJob
  <1>10. CASE job = "fix"
    <2>1. UNCHANGED <<status, data, again>>
      BY <1>10 DEF EndJob, dataVars
    <2>2. status[cursor] \in Results
      BY <1>1, <1>10 DEF Progressed, Unended
    <2>3. CASE Record(data, FALSE) /\ UNCHANGED jobVars
      BY <1>1, <1>5, <1>6, <2>1, <2>2, <2>3, RecordKeeps DEF jobVars, Shapes
    <2>4. CASE pc' = "launch" /\ job' = "retry" /\ tries' = 0
               /\ UNCHANGED <<cursor, recoveries, report, risky>>
      <3>1. runs' <= Rounds(recoveries)
        BY <1>10 DEF Spent
      <3>2. Rounds(recoveries)' = Rounds(recoveries)
        BY <2>4 DEF Rounds
      <3>3. Effort'
        BY <1>2, <1>3, <1>5, <1>8, <1>10, <2>4, <3>1, <3>2
           DEF Effort, Executing, Early, ThisRound
      <3> QED
        BY <1>1, <1>6, <2>1, <2>2, <2>4, <3>3, StaysKeeps DEF Shapes, Working, Executing
    <2> QED
      BY <1>10, <2>3, <2>4 DEF EndJob
  <1>11. CASE job = "retry"
    <2>1. again' = r /\ UNCHANGED <<status, jobVars, data>>
      BY <1>11 DEF EndJob
    <2>2. status[cursor] \in Results
      BY <1>1, <1>11 DEF Progressed, Unended
    <2>3. CASE NotPassed(data)
      BY <1>1, <1>4, <1>6, <2>1, <2>2, <2>3, NotPassedKeeps DEF jobVars, Shapes
    <2>4. CASE r # "failed" /\ pc' = "reverify" /\ UNCHANGED <<cursor, recoveries, report>>
      <3>1. Rounds(recoveries + 1)' = Rounds(recoveries + 1)
        BY <2>4 DEF Rounds
      <3>2. Effort'
        BY <1>3, <1>4, <1>5, <1>8, <1>11, <2>1, <2>4, <3>1 DEF Effort, Executing, Early
      <3> QED
        BY <1>1, <1>6, <2>1, <2>2, <2>4, <3>2, StaysKeeps DEF jobVars, Shapes, Working
    <2> QED
      BY <1>11, <2>3, <2>4 DEF EndJob
  <1> QED
    BY <1>3, <1>9, <1>10, <1>11

LEMMA AttemptFailsKeeps ==
  ASSUME IInv, pc \in {"launch", "running"}, UNCHANGED <<policy, mode, plan>>,
         AttemptFails, runs' \in Nat, Spent(runs')
  PROVE  IInv'
  <1>1. CASE tries = MaxRetries /\ EndJob("failed")
    BY <1>1, EndJobKeeps DEF Results
  <1>2. CASE tries < MaxRetries /\ pc' = "backoff" /\ UNCHANGED <<stepVars, jobVars, dataVars>>
    <2> USE DEF IInv
    <2>1. pc \in Working /\ recoveries \in 0..2 /\ tries \in Nat /\ MaxRetries \in Nat
          /\ (job = "step" => recoveries = 0) /\ (job # "step" => recoveries >= 1)
          /\ job \in {"step", "fix", "retry"}
      BY ExecutorAssumption
         DEF ExecutorAssumption, Shapes, Effort, Working, Executing, MaxRecoveries
    <2>2. UNCHANGED <<cursor, status, recoveries, report, job, tries, data, again>>
      BY <1>2 DEF stepVars, jobVars, dataVars
    <2>3. Rounds(recoveries) \in Nat
          /\ Rounds(recoveries + 1) = Rounds(recoveries) + (MaxRetries + 1)
          /\ Rounds(recoveries + 1) <= Rounds(3) /\ Rounds(3) \in Nat
      BY <2>1, RoundsGrow
    <2>4. runs' <= Rounds(recoveries + 1)
      BY <1>2, <2>1, <2>3 DEF Spent
    <2>5. Rounds(recoveries)' = Rounds(recoveries) /\ Rounds(3)' = Rounds(3)
      BY <2>2 DEF Rounds
    <2>6. runs' <= Rounds(3)
      BY <2>1, <2>3, <2>4
    <2>7. \/ job = "step" /\ recoveries = 0 /\ runs' <= tries + 1
          \/ job = "fix" /\ recoveries >= 1 /\ runs' <= Rounds(recoveries)
          \/ job = "retry" /\ recoveries >= 1 /\ runs' <= Rounds(recoveries) + (tries + 1)
      BY <2>1, <2>3 DEF Spent
    <2>8. Effort'
      BY <1>2, <2>1, <2>2, <2>5, <2>6, <2>7 DEF Effort, Executing, Early, ThisRound
    <2>9. Unended' \/ status'[cursor] \in Results
      BY <1>2, <2>1, <2>2 DEF Progressed, Unended, Executing
    <2> QED
      BY <1>2, <2>1, <2>2, <2>8, <2>9, StaysKeeps DEF Shapes, Working, Executing
  <1> QED
    BY <1>1, <1>2 DEF AttemptFails

-----------------------------------------------------------------------------
(* The steps of execute_with_retry *)

\* What has been spent when nothing is launched, or something is.
LEMMA SpentSoFar ==
  ASSUME IInv, pc \in {"launch", "running"}
  PROVE  /\ runs \in Nat /\ Spent(runs)
         /\ pc = "launch" => Spent(IF job = "fix" THEN runs ELSE runs + 1)
  <1>1. recoveries \in 0..2 /\ tries \in Nat /\ MaxRetries \in Nat /\ runs \in Nat
    BY ExecutorAssumption DEF ExecutorAssumption, IInv, Shapes, MaxRecoveries
  <1>2. Rounds(recoveries) \in Nat
    BY <1>1, RoundsGrow
  <1> QED
    BY <1>1, <1>2 DEF IInv, Effort, Executing, ThisRound, Spent

LEMMA LaunchKeeps ==
  ASSUME IInv, NEW types, Launch(types)
  PROVE  IInv'
  <1> USE DEF IInv
  <1>1. pc = "launch" /\ pc' = "running"
        /\ runs' = (IF job = "fix" THEN runs ELSE runs + 1)
        /\ UNCHANGED <<policy, mode, plan, cursor, status, recoveries, report, job, tries, data, again>>
    BY DEF Launch, Launchable, Counted, goalVars, stepVars, jobVars, dataVars
  <1>2. pc \in Working /\ recoveries \in 0..2 /\ tries \in Nat /\ MaxRetries \in Nat
        /\ runs \in Nat /\ tries <= MaxRetries
    BY <1>1, ExecutorAssumption
       DEF ExecutorAssumption, Shapes, Working, Executing, MaxRecoveries
  <1>3. Rounds(recoveries) \in Nat
        /\ Rounds(recoveries + 1) = Rounds(recoveries) + (MaxRetries + 1)
        /\ Rounds(recoveries + 1) <= Rounds(3) /\ Rounds(0) = 0
        /\ Rounds(3) \in Nat
    BY <1>2, RoundsGrow
  <1>4. Rounds(recoveries)' = Rounds(recoveries) /\ Rounds(3)' = Rounds(3)
    BY <1>1 DEF Rounds
  <1>5. \/ job = "step" /\ recoveries = 0 /\ runs' <= tries + 1
        \/ job = "fix" /\ recoveries >= 1 /\ runs' <= Rounds(recoveries)
        \/ job = "retry" /\ recoveries >= 1 /\ runs' <= Rounds(recoveries) + (tries + 1)
    BY <1>1, <1>2, <1>3 DEF Effort, Executing, ThisRound
  <1>6. runs' \in Nat /\ runs' <= Rounds(3)
    <2>1. runs' \in Nat /\ runs' <= Rounds(recoveries + 1)
      BY <1>1, <1>2, <1>3, <1>5
    <2> QED
      BY <1>2, <1>3, <2>1
  <1>7. Effort'
    BY <1>1, <1>4, <1>5, <1>6 DEF Effort, Executing, Early, ThisRound
  <1>8. Unended' \/ status'[cursor] \in Results
    BY <1>1 DEF Progressed, Unended, Working, Executing
  <1> QED
    BY <1>1, <1>2, <1>6, <1>7, <1>8, StaysKeeps DEF Shapes, Working, Executing

LEMMA WakeKeeps ==
  ASSUME IInv, Wake
  PROVE  IInv'
  <1> USE DEF IInv
  <1>1. pc = "backoff" /\ pc' = "launch" /\ tries' = tries + 1
        /\ UNCHANGED <<policy, mode, plan, cursor, status, recoveries, report, job, data, again, runs>>
    BY DEF Wake, goalVars, stepVars, dataVars
  <1>2. tries \in Nat /\ MaxRetries \in Nat /\ tries < MaxRetries /\ pc \in Working
    BY <1>1, ExecutorAssumption DEF ExecutorAssumption, Shapes, Effort, Working, Executing
  <1>3. Rounds(recoveries)' = Rounds(recoveries) /\ Rounds(3)' = Rounds(3)
    BY <1>1 DEF Rounds
  <1>4. Effort'
    BY <1>1, <1>2, <1>3 DEF Effort, Executing, Early, ThisRound
  <1>5. Unended' \/ status'[cursor] \in Results
    BY <1>1 DEF Progressed, Unended, Working, Executing
  <1>6. tries' \in 0..MaxRetries
    BY <1>1, <1>2
  <1> QED
    BY <1>1, <1>2, <1>4, <1>5, <1>6, StaysKeeps DEF Shapes, Working, Executing

LEMMA ExecuteKeeps ==
  ASSUME IInv, Execute
  PROVE  IInv'
  <1>1. CASE Refuse
    BY <1>1, SpentSoFar, AttemptFailsKeeps DEF Refuse, goalVars
  <1>2. CASE AskApproval
    BY <1>2, SpentSoFar, EndJobKeeps DEF AskApproval, goalVars, Results
  <1>3. CASE TimeOut
    BY <1>3, SpentSoFar, AttemptFailsKeeps DEF TimeOut, goalVars
  <1>4. ASSUME NEW types, FailAtOnce(types)
        PROVE  IInv'
    BY <1>4, SpentSoFar, AttemptFailsKeeps DEF FailAtOnce, Launchable, goalVars
  <1>5. CASE RunShell \/ RunPython \/ RunGit \/ ShellFails \/ CallApi \/ RunPlugin
    BY <1>4, <1>5, LaunchKeeps DEF RunShell, RunPython, RunGit, ShellFails, CallApi, RunPlugin
  <1>6. ASSUME NEW written \in BOOLEAN, WriteFile(written)
        PROVE  IInv'
    <2>1. pc = "launch" /\ UNCHANGED <<policy, mode, plan>>
          /\ runs' = (IF job = "fix" THEN runs ELSE runs + 1)
      BY <1>6 DEF WriteFile, Launchable, Counted, goalVars
    <2>2. runs' \in Nat
      BY <2>1, SpentSoFar
    <2>3. Spent(runs')
      BY <2>1, SpentSoFar, Zenon
    <2>4. CASE written
      BY <1>6, <2>1, <2>2, <2>3, <2>4, EndJobKeeps DEF WriteFile, Results
    <2>5. CASE ~written
      BY <1>6, <2>1, <2>2, <2>3, <2>5, AttemptFailsKeeps DEF WriteFile
    <2> QED
      BY <2>4, <2>5
  <1>7. ASSUME NEW r \in {"completed", "failed"}, Exit(r)
        PROVE  IInv'
    BY <1>7, SpentSoFar, EndJobKeeps, AttemptFailsKeeps DEF Exit, goalVars, Results
  <1> QED
    BY <1>1, <1>2, <1>3, <1>5, <1>6, <1>7, WakeKeeps DEF Execute

-----------------------------------------------------------------------------
(* Verdicts and recoveries *)

\* A verdict comes when the step's status is one of the results.
LEMMA AtVerdict ==
  ASSUME IInv, pc \in {"verify", "research", "reverify"}
  PROVE  /\ pc \in Working /\ cursor \in Steps
         /\ status \in [Steps -> StepStates] /\ status[cursor] \in Results
         /\ runs \in Nat /\ runs <= Rounds(3) /\ runs <= Rounds(recoveries + 1)
         /\ data \in Results /\ again \in Results /\ job \in {"step", "fix", "retry"}
         /\ tries \in 0..MaxRetries /\ recoveries \in 0..MaxRecoveries
  <1> USE DEF IInv
  <1>1. pc \in Working /\ ~Unended
    BY DEF Working, Executing, Unended
  <1>2. recoveries \in 0..2 /\ runs \in Nat /\ MaxRetries \in Nat
    BY ExecutorAssumption DEF ExecutorAssumption, Shapes, MaxRecoveries
  <1>3. Rounds(recoveries) \in Nat
        /\ Rounds(recoveries + 1) = Rounds(recoveries) + (MaxRetries + 1)
    BY <1>2, RoundsGrow
  <1>4. runs <= Rounds(recoveries + 1)
    BY <1>2, <1>3 DEF Effort, Early
  <1> QED
    BY <1>1, <1>2, <1>4 DEF Shapes, Effort, Progressed

LEMMA JudgeKeeps ==
  ASSUME IInv, Judge
  PROVE  IInv'
  <1> USE AtVerdict
  <1>1. ASSUME NEW passed \in BOOLEAN, Verify(passed)
        PROVE  IInv'
    <2>1. pc = "verify" /\ UNCHANGED <<policy, mode, plan, status, job, tries, data, again, runs>>
          /\ (passed => data # "failed")
      BY <1>1 DEF Verify, goalVars, jobVars, dataVars, IInv, Effort
    <2>2. CASE Record(data, passed)
      BY <2>1, <2>2, RecordKeeps
    <2>3. CASE NotPassed(data)
      BY <2>1, <2>3, NotPassedKeeps
    <2> QED
      BY <1>1, <2>2, <2>3 DEF Verify
  <1>2. ASSUME NEW passed \in BOOLEAN, Reverify(passed)
        PROVE  IInv'
    <2>1. pc = "reverify" /\ UNCHANGED <<policy, mode, plan, status, job, tries, again, runs>>
          /\ again # "failed" /\ data' \in {data, again}
      BY <1>2 DEF Reverify, goalVars, jobVars, IInv, Effort
    <2>2. CASE Record(again, passed)
      BY <2>1, <2>2, RecordKeeps
    <2>3. CASE NotPassed(data)
      BY <2>1, <2>3, NotPassedKeeps
    <2> QED
      BY <1>2, <2>2, <2>3 DEF Reverify
  <1>3. ASSUME NEW dangerous \in BOOLEAN, FindFix(dangerous)
        PROVE  IInv'
    <2>1. pc = "research" /\ pc' = "launch" /\ job' = "fix" /\ tries' = 0
          /\ UNCHANGED <<policy, mode, plan, cursor, status, recoveries, report, data, again, runs>>
      BY <1>3 DEF FindFix, goalVars, stepVars, dataVars
    <2>2. tries' \in 0..MaxRetries
      BY <2>1, ExecutorAssumption DEF ExecutorAssumption
    <2>3. Rounds(recoveries)' = Rounds(recoveries) /\ Rounds(3)' = Rounds(3)
      BY <2>1 DEF Rounds
    <2>4. Effort'
      BY <2>1, <2>3 DEF IInv, Effort, Executing, Early
    <2> QED
      BY <2>1, <2>2, <2>4, StaysKeeps DEF Working, Executing
  <1>4. CASE FindNoFix
    <2>1. pc = "research" /\ UNCHANGED <<policy, mode, plan, status, job, tries, data, again, runs>>
      BY <1>4 DEF FindNoFix, goalVars, jobVars, dataVars
    <2> QED
      BY <1>4, <2>1, RecordKeeps DEF FindNoFix
  <1> QED
    BY <1>1, <1>2, <1>3, <1>4 DEF Judge

-----------------------------------------------------------------------------
(* The loop over the steps, and what is around it *)

LEMMA FreshKeeps ==
  ASSUME FreshLocals, pc' \in {"idle", "detect", "over"}, plan' \in Plans, policy' \in PolicyNames
  PROVE  IInv'
  <1>1. N \in Nat /\ MaxRetries \in Nat /\ \A s \in Steps : s \in Nat /\ s >= 1
    BY StepsAre, ExecutorAssumption DEF ExecutorAssumption
  <1>2. cursor' = 1 /\ report' = <<>> /\ job' = "step" /\ tries' = 0 /\ data' = "failed"
        /\ again' = "failed" /\ recoveries' = 0 /\ runs' = 0
        /\ status' = [s \in Steps |-> "pending"]
    BY DEF FreshLocals
  <1>3. Shapes'
    BY <1>1, <1>2
       DEF Shapes, Early, Working, Executing, Ending, StepStates, Results, MaxRecoveries
  <1>4. Rounds(3)' \in Nat
    BY <1>1 DEF Rounds
  <1>5. Effort'
    BY <1>2, <1>4 DEF Effort, Early, Executing
  <1>6. Progressed'
    BY <1>1, <1>2 DEF Progressed, Working, Executing
  <1>7. Reported'
    BY <1>1, <1>2 DEF Reported
  <1> QED
    BY <1>3, <1>5, <1>6, <1>7 DEF IInv

\* Before the first step nothing rests on the plan.
LEMMA EarlyKeeps ==
  ASSUME IInv, pc \in Early, pc' \in Early \cup {"choose", "over"}, plan' \in Plans,
         UNCHANGED <<policy, mode, stepVars, jobVars, dataVars, runs>>
  PROVE  IInv'
  <1> USE DEF IInv
  <1>1. UNCHANGED <<policy, cursor, status, recoveries, report, job, tries, data, again, runs>>
    BY DEF stepVars, jobVars, dataVars
  <1>2. cursor = 1 /\ report = <<>> /\ \A s \in Steps : status[s] = "pending" /\ s \in Nat /\ s >= 1
    BY StepsAre DEF Progressed
  <1>3. pc' \notin Working
    BY DEF Early, Working, Executing
  <1>4. Shapes'
    BY <1>1, <1>3 DEF Shapes, Early, Working, Executing, Ending
  <1>5. Effort'
    BY <1>1, <1>3 DEF Effort, Early, Working, Executing, Rounds
  <1>6. Progressed'
    BY <1>1, <1>2, <1>3 DEF Progressed
  <1>7. Reported'
    BY <1>1, <1>2 DEF Reported
  <1> QED
    BY <1>4, <1>5, <1>6, <1>7

\* After the last step, nothing changes but the records.
LEMMA EndingKeeps ==
  ASSUME IInv, pc' \in Ending,
         \/ pc \in Ending
         \/ pc = "choose" /\ cursor > N,
         UNCHANGED <<policy, mode, plan, stepVars, jobVars, dataVars, runs>>
  PROVE  IInv'
  <1> USE DEF IInv
  <1>1. UNCHANGED <<cursor, status, recoveries, report, job, tries, data, again, runs>>
    BY DEF stepVars, jobVars, dataVars
  <1>2. pc' \notin Working \cup Executing \cup Early
        /\ pc' \notin {"choose", "backoff", "verify", "research", "reverify"}
        /\ pc \notin Working
    BY DEF Ending, Early, Working, Executing
  <1>3. Shapes'
    BY <1>1, <1>2 DEF Shapes
  <1>4. Effort'
    <2>1. Rounds(3)' = Rounds(3)
      BY DEF Rounds
    <2> QED
      BY <1>1, <1>2, <2>1 DEF Effort
  <1>5. Progressed'
    BY <1>1, <1>2 DEF Progressed, Met
  <1>6. \A k \in DOMAIN report : report[k].step \in Steps
    BY EntriesAre
  <1>7. Reported'
    BY <1>1, <1>2, <1>6 DEF Reported, Met
  <1> QED
    BY <1>3, <1>4, <1>5, <1>7

\* Dependencies that hold are behind the cursor, where nothing is pending.
LEMMA SatisfiedIsMet ==
  ASSUME IInv, pc = "choose", cursor \in Steps
  PROVE  Satisfied(cursor) <=> Met(cursor)
  <1>1. \A d \in Steps : d < cursor \/ status[d] = "pending"
    BY StepsAre DEF IInv, Progressed
  <1> QED
    BY <1>1 DEF Satisfied, Met

LEMMA CursorInPlan ==
  ASSUME IInv, cursor <= N
  PROVE  cursor \in Steps
  BY StepsAre DEF IInv, Shapes

LEMMA SkipKeeps ==
  ASSUME IInv, Skip
  PROVE  IInv'
  <1> USE DEF IInv
  <1>1. pc = "choose" /\ pc' = "choose" /\ cursor' = cursor + 1 /\ ~Satisfied(cursor)
        /\ status' = [status EXCEPT ![cursor] = "skipped"]
        /\ UNCHANGED <<policy, mode, plan, recoveries, report, job, tries, data, again, runs>>
    BY DEF Skip, goalVars, jobVars, dataVars
  <1>2. cursor \in Steps /\ N \in Nat /\ cursor \in Nat
        /\ \A s \in Steps : s \in Nat /\ (s < cursor => s # cursor)
    BY CursorInPlan, StepsAre DEF Skip
  <1>3. ~Met(cursor)
    BY <1>1, <1>2, SatisfiedIsMet
  <1>4. status' \in [Steps -> StepStates] /\ status'[cursor] = "skipped"
        /\ \A s \in Steps : s # cursor => status'[s] = status[s]
    BY <1>1, <1>2 DEF Shapes, StepStates
  <1>5. \A s \in Steps : s <= cursor => (Met(s)' <=> Met(s))
    BY <1>1, <1>2, <1>4, MetStays
  <1>6. Shapes'
    BY <1>1, <1>2, <1>4, StepsAre DEF Shapes, Working, Executing
  <1>7. Effort'
    BY <1>1 DEF Effort, Executing, Rounds
  <1>8. Progressed'
    <2>1. \A s \in Steps : s > cursor' => status'[s] = "pending"
      BY <1>1, <1>2, <1>4 DEF Progressed
    <2>2. cursor' \in Steps => status'[cursor'] = "pending"
      BY <1>1, <1>2, <1>4 DEF Progressed
    <2>3. ASSUME NEW s \in Steps, s < cursor'
          PROVE  status'[s] \in Results \cup {"skipped"} /\ (status'[s] = "skipped" <=> ~Met(s)')
      <3>1. CASE s < cursor
        BY <1>2, <1>4, <1>5, <3>1 DEF Progressed
      <3>2. CASE s = cursor
        BY <1>2, <1>3, <1>4, <1>5, <3>2
      <3> QED
        BY <1>1, <1>2, <2>3, <3>1, <3>2
    <2> QED
      BY <1>1, <2>1, <2>2, <2>3 DEF Progressed, Early, Working, Executing
  <1>9. Reported'
    <2>1. ASSUME NEW k \in DOMAIN report
          PROVE  Met(report[k].step)' /\ report[k].step < cursor /\ report[k].step < cursor'
      <3>1. report[k].step \in Steps
        BY EntriesAre
      <3>2. report[k].step < cursor /\ Met(report[k].step)
        BY <1>1 DEF Reported, Ending
      <3>3. PICK s \in Steps : s = report[k].step
        BY <3>1
      <3>4. Met(s)'
        BY <1>2, <1>5, <3>2, <3>3
      <3>5. Met(report[k].step)'
        BY <1>1, <3>3, <3>4 DEF Met
      <3>6. s < cursor + 1
        BY <1>2, <3>2, <3>3
      <3> QED
        BY <1>1, <3>2, <3>3, <3>5, <3>6
    <2>2. ASSUME NEW s \in Steps, s < cursor', status'[s] # "skipped"
          PROVE  s < cursor /\ status[s] # "skipped"
      BY <1>1, <1>2, <1>4, <2>2
    <2> QED
      BY <1>1, <2>1, <2>2 DEF Reported
  <1> QED
    BY <1>6, <1>7, <1>8, <1>9

LEMMA BeginKeeps ==
  ASSUME IInv, Begin
  PROVE  IInv'
  <1> USE DEF IInv
  <1>1. pc = "choose" /\ pc' = "launch" /\ job' = "step" /\ tries' = 0 /\ runs' = 0
        /\ data' = "failed" /\ again' = "failed" /\ Satisfied(cursor)
        /\ status' = [status EXCEPT ![cursor] = "in_progress"]
        /\ UNCHANGED <<policy, mode, plan, cursor, recoveries, report>>
    BY DEF Begin, goalVars
  <1>2. cursor \in Steps /\ cursor \in Nat /\ MaxRetries \in Nat
        /\ \A s \in Steps : s \in Nat /\ (s < cursor => s # cursor) /\ (s > cursor => s # cursor)
    BY CursorInPlan, StepsAre, ExecutorAssumption DEF Begin, ExecutorAssumption
  <1>3. Met(cursor)
    BY <1>1, <1>2, SatisfiedIsMet
  <1>4. status' \in [Steps -> StepStates]
        /\ \A s \in Steps : s # cursor => status'[s] = status[s]
    BY <1>1, <1>2 DEF Shapes, StepStates
  <1>5. \A s \in Steps : s <= cursor => (Met(s)' <=> Met(s))
    BY <1>1, <1>2, <1>4, MetStays
  <1>6. Shapes'
    BY <1>1, <1>2, <1>4 DEF Shapes, Working, Executing, Results
  <1>7. recoveries = 0 /\ Rounds(3)' = Rounds(3) /\ Rounds(3) \in Nat
    BY <1>1, <1>2 DEF Effort, Rounds
  <1>8. Effort'
    BY <1>1, <1>7 DEF Effort, Executing, Early, ThisRound
  <1>9. Met(cursor)'
    <2>1. PICK s \in Steps : s = cursor
      BY <1>2
    <2>2. Met(s)'
      BY <1>2, <1>3, <1>5, <2>1
    <2> QED
      BY <1>1, <2>1, <2>2 DEF Met
  <1>10. Progressed'
    <2>1. \A s \in Steps : s > cursor' => status'[s] = "pending"
      BY <1>1, <1>2, <1>4 DEF Progressed
    <2>2. \A s \in Steps : s < cursor' =>
            status'[s] \in Results \cup {"skipped"} /\ (status'[s] = "skipped" <=> ~Met(s)')
      BY <1>1, <1>2, <1>4, <1>5 DEF Progressed
    <2>3. Unended'
      BY <1>1 DEF Unended, Executing
    <2> QED
      BY <1>1, <1>9, <2>1, <2>2, <2>3 DEF Progressed, Early
  <1>11. Reported'
    <2>1. ASSUME NEW k \in DOMAIN report
          PROVE  Met(report[k].step)' /\ report[k].step < cursor
      <3>1. report[k].step \in Steps
        BY EntriesAre
      <3>2. report[k].step < cursor /\ Met(report[k].step)
        BY <1>1 DEF Reported, Ending
      <3>3. PICK s \in Steps : s = report[k].step
        BY <3>1
      <3>4. Met(s)'
        BY <1>2, <1>5, <3>2, <3>3
      <3>5. Met(report[k].step)'
        BY <1>1, <3>3, <3>4 DEF Met
      <3> QED
        BY <3>2, <3>5
    <2> QED
      BY <1>1, <1>2, <1>4, <2>1 DEF Reported
  <1> QED
    BY <1>6, <1>8, <1>10, <1>11

-----------------------------------------------------------------------------
(* The invariant *)

LEMMA InitEstablishes == Init => IInv
  <1> SUFFICES ASSUME Init
               PROVE  IInv
    OBVIOUS
  <1>1. policy \in PolicyNames /\ MaxRetries \in Nat
    BY ExecutorAssumption DEF ExecutorAssumption, Init
  <1>2. N \in Nat /\ \A s \in Steps : s \in Nat /\ s >= 1
    BY StepsAre
  <1>3. Shapes
    BY <1>1, <1>2 DEF Init, Shapes, Early, Working, Executing, StepStates, Results, MaxRecoveries
  <1>4. Effort
    BY <1>1, RoundsGrow DEF Init, Effort, Executing
  <1>5. Progressed
    BY <1>2 DEF Init, Progressed, Working, Executing
  <1>6. Reported
    BY <1>2 DEF Init, Reported
  <1> QED
    BY <1>3, <1>4, <1>5, <1>6 DEF IInv

LEMMA FreshSolveKeeps ==
  ASSUME IInv, (\E m \in Modes : Solve(m)) \/ BadDependency \/ Raise \/ Cancel \/ Restart
  PROVE  IInv'
  <1>1. policy \in PolicyNames /\ plan \in Plans
    BY DEF IInv, Shapes
  <1>2. FreshLocals /\ pc' \in {"idle", "detect", "over"} /\ plan' = plan
        /\ (policy' = policy \/ policy' \in Policies)
    BY DEF Solve, BadDependency, Raise, Cancel, Restart, goalVars
  <1> QED
    BY <1>1, <1>2, FreshKeeps, ExecutorAssumption DEF ExecutorAssumption

LEMMA ProgressKeeps ==
  ASSUME IInv, Progress
  PROVE  IInv'
  <1> USE DEF goalVars
  <1>1. plan \in Plans
    BY DEF IInv, Shapes
  <1>2. CASE DetectContext \/ Reflect \/ TakePlan
    BY <1>1, <1>2, EarlyKeeps DEF DetectContext, Reflect, TakePlan, Asks, Early
  <1>3. ASSUME NEW p \in Plans, Plan(p)
        PROVE  IInv'
    BY <1>3, EarlyKeeps DEF Plan, Early
  <1>4. CASE StepsDone \/ Learn \/ \E saved \in BOOLEAN : Finish(saved)
    BY <1>4, EndingKeeps DEF StepsDone, Learn, Finish, Ending
  <1> QED
    BY <1>2, <1>3, <1>4, SkipKeeps, BeginKeeps, FreshSolveKeeps, ExecuteKeeps, JudgeKeeps
       DEF Progress

LEMMA UnchangedKeeps ==
  ASSUME IInv, UNCHANGED <<policy, pc, mode, plan, cursor, status, job, tries, data, again,
                           recoveries, report, runs>>
  PROVE  IInv'
  <1>1. Effort'
    BY DEF IInv, Effort, Rounds, ThisRound
  <1>2. Progressed'
    BY DEF IInv, Progressed, Met, Unended
  <1>3. Reported'
    BY DEF IInv, Reported, Met
  <1> QED
    BY <1>1, <1>2, <1>3 DEF IInv, Shapes

LEMMA NextKeeps == IInv /\ [Next]_vars => IInv'
  <1> SUFFICES ASSUME IInv, [Next]_vars
               PROVE  IInv'
    OBVIOUS
  <1>1. CASE StrayExits
    BY <1>1, UnchangedKeeps DEF StrayExits, goalVars, stepVars, jobVars, dataVars
  <1>2. CASE UNCHANGED vars
    BY <1>2, UnchangedKeeps DEF vars
  <1>3. CASE OtherSolves
    BY <1>3, UnchangedKeeps
       DEF OtherSolves, SolveBeside, FinishBeside, LeaveBeside, Elsewhere,
           goalVars, stepVars, jobVars, dataVars
  <1> QED
    BY <1>1, <1>2, <1>3, FreshSolveKeeps, ProgressKeeps DEF Next, Interrupt

LEMMA Invariance == Spec => []IInv
  BY InitEstablishes, NextKeeps, PTL DEF Spec

-----------------------------------------------------------------------------
(* What is on record *)

\* The goals that a solve is working on.
InHand == others \cup (IF pc \in {"idle", "over"} THEN {} ELSE {goal})

\* No goal twice, in a history.
OnceEach(h) == \A j, k \in DOMAIN h : h[j].goal = h[k].goal => j = k

\* Memory has what was finished last.
Window ==
  /\ Len(history) <= MaxHistory /\ Len(history) <= Len(finished)
  /\ Len(history) < MaxHistory => Len(history) = Len(finished)
  /\ \A k \in DOMAIN history : history[k].goal = finished[Len(finished) - Len(history) + k]

\* After a goal that this process finished, the database has only such goals, and
\* in that order.
SavedInOrder ==
  \A j, k \in DOMAIN db : \A a \in DOMAIN finished :
    j < k /\ db[j].goal = finished[a] =>
      \E b \in DOMAIN finished : a < b /\ db[k].goal = finished[b]

Asked ==
  /\ asked \in 0..MaxGoals /\ goal \in 0..asked
  /\ pc # "idle" => goal >= 1
  /\ others \subseteq 1..asked /\ goal \notin others

\* A goal on record was asked for, and no solve is working on it any more.
Over ==
  /\ \A k \in DOMAIN db : db[k].goal \in 1..asked /\ db[k].goal \notin InHand
  /\ \A k \in DOMAIN finished : finished[k] \in 1..asked /\ finished[k] \notin InHand

Kept ==
  /\ history \in Seq(Records) /\ db \in Seq(Records) /\ finished \in Seq(1..MaxGoals)
  /\ OnceEach(db)
  /\ \A j, k \in DOMAIN finished : finished[j] = finished[k] => j = k
  /\ Window /\ SavedInOrder

Filed == Asked /\ Over /\ Kept

LEMMA MaxGoalsIs == MaxGoals \in Nat /\ MaxHistory \in Nat /\ MaxHistory >= 1
  BY BoundsAssumption DEF BoundsAssumption

\* The window is the end of what it is taken from.
LEMMA WindowIsTheEnd ==
  ASSUME NEW h \in Seq(Records), h # <<>>
  PROVE  /\ LastOf(h) \in Seq(Records)
         /\ Len(LastOf(h)) = IF Len(h) > MaxHistory THEN MaxHistory ELSE Len(h)
         /\ \A k \in 1..Len(LastOf(h)) : LastOf(h)[k] = h[Len(h) - Len(LastOf(h)) + k]
  <1>1. MaxHistory \in Nat /\ MaxHistory >= 1
    BY MaxGoalsIs
  <1>2. Len(h) \in Nat /\ Len(h) >= 1 /\ DOMAIN h = 1..Len(h)
    BY EmptySeq
  <1>3. CASE Len(h) <= MaxHistory
    <2>1. LastOf(h) = h
      BY <1>1, <1>2, <1>3 DEF LastOf
    <2>2. \A k \in 1..Len(h) : Len(h) - Len(h) + k = k
      BY <1>2
    <2>3. ~(Len(h) > MaxHistory)
      BY <1>1, <1>2, <1>3
    <2> QED
      BY <2>1, <2>2, <2>3, Zenon
  <1>4. CASE Len(h) > MaxHistory
    <2> DEFINE first == Len(h) - MaxHistory + 1
               g == SubSeq(h, first, Len(h))
    <2>1. first \in Int /\ Len(h) \in Int /\ first >= 1 /\ Len(h) - first + 1 = MaxHistory
      BY <1>1, <1>2, <1>4
    <2>2. \A i \in first..Len(h) : h[i] \in Records
      BY <1>2, <2>1
    <2>3. first <= Len(h)
      BY <1>1, <1>2, <1>4
    <2> HIDE DEF first
    <2>4. /\ g \in Seq(Records)
          /\ Len(g) = Len(h) - first + 1
          /\ \A i \in 1..(Len(h) - first + 1) : g[i] = h[first + i - 1]
      <3>1. /\ SubSeq(h, first, Len(h)) \in Seq(Records)
            /\ Len(SubSeq(h, first, Len(h)))
                 = IF first <= Len(h) THEN Len(h) - first + 1 ELSE 0
            /\ \A i \in 1..(Len(h) - first + 1) : SubSeq(h, first, Len(h))[i] = h[first + i - 1]
        BY <2>1, <2>2, SubSeqProperties
      <3> QED
        BY <2>3, <3>1
    <2> HIDE DEF g
    <2>5. Len(g) = MaxHistory
      BY <2>1, <2>4
    <2>6. \A i \in 1..MaxHistory : first + i - 1 = Len(h) - MaxHistory + i
      BY <1>1, <1>2 DEF first
    <2>7. \A i \in 1..MaxHistory : g[i] = h[Len(h) - MaxHistory + i]
      BY <2>1, <2>4, <2>6
    <2>8. LastOf(h) = g
      BY <1>4 DEF LastOf, g, first
    <2> QED
      BY <1>4, <2>4, <2>5, <2>7, <2>8
  <1> QED
    BY <1>1, <1>2, <1>3, <1>4

\* A finished goal is put on record: at the end of what is finished and of memory,
\* and, if it was saved, of the database.
LEMMA FileKeeps ==
  ASSUME Kept, NEW record \in Records, NEW saved \in BOOLEAN, File(record, saved),
         \A k \in DOMAIN finished : finished[k] # record.goal,
         \A k \in DOMAIN db : db[k].goal # record.goal
  PROVE  /\ Kept'
         /\ DOMAIN finished' = DOMAIN finished \cup {Len(finished) + 1}
         /\ \A k \in DOMAIN finished : finished'[k] = finished[k]
         /\ finished'[Len(finished) + 1] = record.goal
         /\ \A k \in DOMAIN db' : db'[k].goal = record.goal \/ (k \in DOMAIN db /\ db'[k] = db[k])
  <1> USE DEF Kept
  <1>1. record.goal \in 1..MaxGoals
    BY DEF Records
  <1> DEFINE g == record.goal
             long == Append(history, record)
  <1>2. /\ finished' = Append(finished, g) /\ history' = LastOf(long)
        /\ (db' = Append(db, record) \/ db' = db)
    BY DEF File, Saved
  <1>3. /\ finished' \in Seq(1..MaxGoals) /\ Len(finished') = Len(finished) + 1
        /\ Len(finished) \in Nat /\ DOMAIN finished = 1..Len(finished)
        /\ DOMAIN finished' = 1..(Len(finished) + 1)
        /\ \A k \in DOMAIN finished : finished'[k] = finished[k]
        /\ finished'[Len(finished) + 1] = g
    BY <1>1, <1>2
  <1>4. DOMAIN finished' = DOMAIN finished \cup {Len(finished) + 1}
    BY <1>3
  <1>5. /\ long \in Seq(Records) /\ long # <<>> /\ Len(long) = Len(history) + 1
        /\ Len(history) \in Nat /\ DOMAIN history = 1..Len(history)
        /\ \A k \in DOMAIN history : long[k] = history[k]
        /\ long[Len(history) + 1] = record
    BY AppendProperties
  <1> HIDE DEF long
  <1>6. /\ history' \in Seq(Records)
        /\ Len(history') = IF Len(long) > MaxHistory THEN MaxHistory ELSE Len(long)
        /\ \A k \in 1..Len(history') : history'[k] = long[Len(long) - Len(history') + k]
    BY <1>2, <1>5, WindowIsTheEnd
  <1>7. Window'
    <2> DEFINE F == Len(finished)
               L == Len(history)
               M == Len(history')
    <2>0. F \in Nat /\ L \in Nat /\ L <= F /\ L <= MaxHistory /\ MaxHistory \in Nat
          /\ (L < MaxHistory => L = F) /\ MaxHistory >= 1
      BY <1>3, <1>5, MaxGoalsIs DEF Window
    <2>9. M = IF L + 1 > MaxHistory THEN MaxHistory ELSE L + 1
      BY <1>5, <1>6, Zenon
    <2>8. DOMAIN history' = 1..M
      BY <1>6
    <2>4. Len(long) = L + 1
      BY <1>5
    <2>7. ASSUME NEW k \in 1..M
          PROVE  history'[k] = long[L + 1 - M + k]
      <3>1. history'[k] = long[Len(long) - M + k]
        BY <1>6
      <3>2. Len(long) - M + k = L + 1 - M + k
        BY <2>4
      <3> QED
        BY <3>1, <3>2
    <2>6. Len(finished') = F + 1
      BY <1>3
    <2> HIDE DEF F, L, M, Kept
    <2>1. M \in Nat /\ M >= 1
      BY <2>0, <2>9
    <2>3. ASSUME NEW k \in 1..M
          PROVE  history'[k].goal = finished'[F + 1 - M + k]
      <3> DEFINE i == L + 1 - M + k
      <3>1. history'[k] = long[i]
        BY <2>7
      <3>2. i \in 1..(L + 1) /\ F + 1 - M + k = F - L + i
        BY <2>0, <2>1, <2>9
      <3> HIDE DEF i
      <3>3. CASE i \in 1..L
        <4>1. long[i] = history[i]
          BY <1>5, <3>3 DEF L
        <4>2. history[i].goal = finished[F - L + i]
          BY <1>5, <3>3 DEF L, F, Kept, Window
        <4>3. F - L + i \in 1..F
          BY <2>0, <3>3
        <4>5. F - L + i \in DOMAIN finished
          BY <1>3, <4>3 DEF F
        <4>4. finished'[F - L + i] = finished[F - L + i]
          BY <1>3, <4>5
        <4> QED
          BY <3>1, <3>2, <4>1, <4>2, <4>4
      <3>4. CASE i = L + 1
        <4>1. F + 1 - M + k = F + 1
          BY <2>0, <3>2, <3>4
        <4>2. long[i] = record
          BY <1>5, <3>4 DEF L
        <4>3. finished'[F + 1] = record.goal
          BY <1>3 DEF F
        <4> QED
          BY <3>1, <4>1, <4>2, <4>3
      <3>5. i \in 1..L \/ i = L + 1
        BY <2>0, <3>2
      <3> QED
        BY <3>3, <3>4, <3>5
    <2>5. M <= MaxHistory /\ M <= F + 1 /\ (M < MaxHistory => M = F + 1)
      BY <2>0, <2>1, <2>9
    <2>10. M <= MaxHistory /\ M <= Len(finished') /\ (M < MaxHistory => M = Len(finished'))
      BY <2>5, <2>6, Zenon
    <2>11. ASSUME NEW k \in DOMAIN history'
           PROVE  history'[k].goal = finished'[Len(finished') - M + k]
      <3>1. k \in 1..M
        BY <2>8
      <3>2. history'[k].goal = finished'[F + 1 - M + k]
        BY <2>3, <3>1
      <3>3. Len(finished') - M + k = F + 1 - M + k
        BY <2>0, <2>1, <2>6, <3>1
      <3> QED
        BY <3>2, <3>3
    <2> QED
      BY <2>10, <2>11, Zenon DEF Window, M
  <1>8. \A j, k \in DOMAIN finished' : finished'[j] = finished'[k] => j = k
    BY <1>3, <1>4
  <1>9. /\ Len(db) \in Nat /\ DOMAIN db = 1..Len(db)
    OBVIOUS
  <1>10. CASE db' = Append(db, record)
    <2>1. /\ db' \in Seq(Records) /\ DOMAIN db' = 1..(Len(db) + 1)
          /\ \A k \in DOMAIN db : db'[k] = db[k]
          /\ db'[Len(db) + 1] = record
      BY <1>10, AppendProperties
    <2>2. \A k \in DOMAIN db' : k \in DOMAIN db \/ k = Len(db) + 1
      BY <1>9, <2>1
    <2>3. OnceEach(db)'
      BY <2>1, <2>2 DEF OnceEach
    <2>4. ASSUME NEW j \in DOMAIN db', NEW k \in DOMAIN db', NEW a \in DOMAIN finished',
                 j < k, db'[j].goal = finished'[a]
          PROVE  \E b \in DOMAIN finished' : a < b /\ db'[k].goal = finished'[b]
      <3>1. j \in DOMAIN db
        BY <1>9, <2>1, <2>2, <2>4
      <3>2. a \in DOMAIN finished
        BY <1>3, <1>4, <2>1, <2>4, <3>1
      <3>3. db[j].goal = finished[a]
        BY <1>3, <2>1, <2>4, <3>1, <3>2
      <3>4. CASE k \in DOMAIN db
        <4>1. PICK b \in DOMAIN finished : a < b /\ db[k].goal = finished[b]
          BY <2>4, <3>1, <3>2, <3>3, <3>4 DEF SavedInOrder
        <4> QED
          BY <1>3, <1>4, <2>1, <3>4, <4>1
      <3>5. CASE k = Len(db) + 1
        <4>1. db'[k].goal = finished'[Len(finished) + 1] /\ Len(finished) + 1 \in DOMAIN finished'
          BY <1>3, <1>4, <2>1, <3>5
        <4>2. a < Len(finished) + 1
          BY <1>3, <3>2
        <4> QED
          BY <4>1, <4>2
      <3> QED
        BY <2>2, <3>4, <3>5
    <2>5. SavedInOrder'
      BY <2>4, Zenon DEF SavedInOrder
    <2>6. Kept'
      BY <1>3, <1>6, <1>7, <1>8, <2>1, <2>3, <2>5, Zenon DEF Kept
    <2>7. ASSUME NEW k \in DOMAIN db'
          PROVE  db'[k].goal = record.goal \/ (k \in DOMAIN db /\ db'[k] = db[k])
      <3>1. CASE k \in DOMAIN db
        BY <2>1, <3>1, Zenon
      <3>2. CASE k = Len(db) + 1
        BY <2>1, <3>2, Zenon
      <3> QED
        BY <2>2, <3>1, <3>2
    <2> QED
      BY <1>3, <1>4, <2>6, <2>7, Zenon
  <1>11. CASE db' = db
    <2>1. OnceEach(db)'
      BY <1>11 DEF OnceEach
    <2>2. ASSUME NEW j \in DOMAIN db, NEW k \in DOMAIN db, NEW a \in DOMAIN finished',
                 j < k, db[j].goal = finished'[a]
          PROVE  \E b \in DOMAIN finished' : a < b /\ db[k].goal = finished'[b]
      <3>1. a \in DOMAIN finished
        BY <1>3, <1>4, <2>2
      <3>2. PICK b \in DOMAIN finished : a < b /\ db[k].goal = finished[b]
        BY <1>3, <2>2, <3>1 DEF SavedInOrder
      <3> QED
        BY <1>3, <1>4, <3>2
    <2>3. SavedInOrder'
      BY <1>11, <2>2 DEF SavedInOrder
    <2> QED
      BY <1>3, <1>4, <1>6, <1>7, <1>8, <1>11, <2>1, <2>3
  <1> QED
    BY <1>2, <1>10, <1>11

LEMMA InitFiled == Init => Filed
  <1>1. <<>> \in Seq(Records) /\ <<>> \in Seq(1..MaxGoals) /\ DOMAIN <<>> = {} /\ Len(<<>>) = 0
    BY EmptySeq
  <1> QED
    BY <1>1, MaxGoalsIs DEF Init, Filed, Asked, Over, Kept, OnceEach, Window, SavedInOrder

\* Only the start of a solve, its last step and a restart touch the records, and
\* what is solved elsewhere.
LEMMA RestLeavesRecords ==
  ASSUME [Next]_vars, ~\E m \in Modes : Solve(m), ~\E saved \in BOOLEAN : Finish(saved), ~Restart,
         ~OtherSolves
  PROVE  UNCHANGED <<goal, history, db, finished, asked, others>>
         /\ (pc' = pc \/ pc \notin {"idle", "over"})
  <1> USE DEF goalVars, records, filed, beside
  <1>1. CASE Execute
    BY <1>1 DEF Execute, Refuse, AskApproval, TimeOut, Wake, RunShell, RunPython, RunGit,
                ShellFails, CallApi, RunPlugin, WriteFile, Exit, Launch, FailAtOnce, Launchable
  <1>2. CASE Judge
    BY <1>2 DEF Judge, Verify, Reverify, FindFix, FindNoFix
  <1>3. CASE DetectContext \/ Reflect \/ TakePlan \/ Skip \/ Begin \/ BadDependency
             \/ StepsDone \/ Learn
    BY <1>3 DEF DetectContext, Reflect, TakePlan, Asks, Skip, Begin, BadDependency, StepsDone, Learn
  <1>4. CASE \E p \in Plans : Plan(p)
    BY <1>4 DEF Plan
  <1>5. CASE Raise \/ Cancel \/ StrayExits \/ UNCHANGED vars
    BY <1>5 DEF Raise, Cancel, StrayExits, Waiting, vars
  <1> QED
    BY <1>1, <1>2, <1>3, <1>4, <1>5 DEF Next, Progress, Interrupt

\* Kept and Over speak of these variables only.
LEMMA RecordsStay ==
  ASSUME Filed, UNCHANGED <<history, db, finished>>, asked' \in Nat, asked' >= asked,
         \A g \in 1..asked : g \in InHand' => g \in InHand
  PROVE  Over' /\ Kept'
  <1>1. Kept'
    BY DEF Filed, Kept, OnceEach, Window, SavedInOrder
  <1>2. 1..asked \subseteq 1..asked'
    BY DEF Filed, Asked
  <1> QED
    BY <1>1, <1>2 DEF Filed, Over

\* A solve that ends puts its goal on record, and has no goal in hand any more.
LEMMA FinishFiles ==
  ASSUME Filed, NEW record \in Records, NEW saved \in BOOLEAN, File(record, saved),
         record.goal \in InHand, record.goal \in 1..asked, asked' = asked,
         InHand' \subseteq InHand, record.goal \notin InHand'
  PROVE  Over' /\ Kept'
  <1>1. /\ Kept
        /\ \A k \in DOMAIN finished : finished[k] # record.goal
        /\ \A k \in DOMAIN db : db[k].goal # record.goal
    BY DEF Filed, Over
  <1>2. /\ Kept'
        /\ DOMAIN finished' = DOMAIN finished \cup {Len(finished) + 1}
        /\ \A k \in DOMAIN finished : finished'[k] = finished[k]
        /\ finished'[Len(finished) + 1] = record.goal
        /\ \A k \in DOMAIN db' : db'[k].goal = record.goal \/ (k \in DOMAIN db /\ db'[k] = db[k])
    BY <1>1, FileKeeps
  <1>3. \A k \in DOMAIN finished' : finished'[k] \in 1..asked /\ finished'[k] \notin InHand'
    BY <1>2 DEF Filed, Over
  <1>4. \A k \in DOMAIN db' : db'[k].goal \in 1..asked /\ db'[k].goal \notin InHand'
    BY <1>2 DEF Filed, Over
  <1> QED
    BY <1>2, <1>3, <1>4 DEF Over

LEMMA FiledKeeps ==
  ASSUME IInv, Filed, [Next]_vars
  PROVE  Filed'
  <1> USE MaxGoalsIs
  <1>0. asked \in Nat /\ goal \in Nat /\ goal <= asked /\ asked <= MaxGoals
        /\ others \subseteq 1..asked /\ goal \notin others
    BY DEF Filed, Asked
  <1>1. ASSUME NEW saved \in BOOLEAN, Finish(saved)
        PROVE  Filed'
    <2> DEFINE record == [goal |-> goal, outcome |-> Outcome(report)]
    <2>1. pc = "finish" /\ pc' = "over" /\ File(record, saved)
          /\ UNCHANGED <<goal, asked, others>>
      BY <1>1 DEF Finish, goalVars, beside
    <2>2. goal \in 1..asked
      BY <1>0, <2>1 DEF Filed, Asked
    <2>3. record \in Records /\ record.goal = goal
      BY <1>0, <2>2 DEF Records, Outcome, Outcomes
    <2> HIDE DEF record
    <2>4. goal \in InHand /\ InHand' = others
      BY <2>1 DEF InHand
    <2>5. others \subseteq InHand
      BY DEF InHand
    <2>6. Over' /\ Kept'
      BY <1>0, <2>1, <2>2, <2>3, <2>4, <2>5, FinishFiles
    <2> QED
      BY <2>1, <2>6 DEF Filed, Asked
  <1>2. ASSUME NEW m \in Modes, Solve(m)
        PROVE  Filed'
    <2>1. asked < MaxGoals /\ goal' = asked + 1 /\ asked' = asked + 1 /\ pc' = "detect"
          /\ UNCHANGED <<history, db, finished, others>> /\ pc \in {"idle", "over"}
      BY <1>2 DEF Solve, filed
    <2>2. Asked'
      BY <1>0, <2>1 DEF Asked
    <2>3. \A g \in 1..asked : g \in InHand' => g \in InHand
      BY <1>0, <2>1 DEF InHand
    <2> QED
      BY <1>0, <2>1, <2>2, <2>3, RecordsStay DEF Filed
  <1>3. CASE Restart
    <2>1. pc' = "idle" /\ history' = <<>> /\ finished' = <<>> /\ others' = {}
          /\ UNCHANGED <<goal, db, asked>>
      BY <1>3 DEF Restart
    <2>2. <<>> \in Seq(Records) /\ <<>> \in Seq(1..MaxGoals) /\ DOMAIN <<>> = {} /\ Len(<<>>) = 0
      BY EmptySeq
    <2>3. Asked' /\ Over'
      BY <1>0, <2>1, <2>2 DEF Filed, Asked, Over, InHand
    <2>4. Kept'
      BY <2>1, <2>2 DEF Filed, Kept, OnceEach, Window, SavedInOrder
    <2> QED
      BY <2>3, <2>4 DEF Filed
  <1>4. ASSUME NEW g \in others, NEW outcome \in Outcomes, NEW saved \in BOOLEAN,
               FinishBeside(g, outcome, saved)
        PROVE  Filed'
    <2> DEFINE record == [goal |-> g, outcome |-> outcome]
    <2>1. File(record, saved) /\ others' = others \ {g} /\ UNCHANGED <<pc, goal, asked>>
      BY <1>4 DEF FinishBeside, Elsewhere, goalVars
    <2>2. record \in Records /\ record.goal = g /\ g \in 1..asked
      BY <1>0 DEF Records
    <2> HIDE DEF record
    <2>3. g \in InHand /\ InHand' = InHand \ {g}
      BY <1>0, <2>1 DEF InHand
    <2>4. Over' /\ Kept'
      BY <2>1, <2>2, <2>3, FinishFiles
    <2> QED
      BY <2>1, <2>4 DEF Filed, Asked
  <1>5. CASE SolveBeside
    <2>1. asked < MaxGoals /\ asked' = asked + 1 /\ others' = others \cup {asked + 1}
          /\ UNCHANGED <<pc, goal, history, db, finished>>
      BY <1>5 DEF SolveBeside, Elsewhere, goalVars, filed
    <2>2. Asked'
      BY <1>0, <2>1 DEF Filed, Asked
    <2>3. \A g \in 1..asked : g \in InHand' => g \in InHand
      BY <1>0, <2>1 DEF InHand
    <2> QED
      BY <1>0, <2>1, <2>2, <2>3, RecordsStay DEF Filed
  <1>6. ASSUME NEW g \in others, LeaveBeside(g)
        PROVE  Filed'
    <2>1. others' = others \ {g} /\ UNCHANGED <<pc, goal, asked, history, db, finished>>
      BY <1>6 DEF LeaveBeside, Elsewhere, goalVars, filed
    <2>2. Asked'
      BY <1>0, <2>1 DEF Filed, Asked
    <2>3. \A n \in 1..asked : n \in InHand' => n \in InHand
      BY <2>1 DEF InHand
    <2> QED
      BY <1>0, <2>1, <2>2, <2>3, RecordsStay DEF Filed
  <1>7. CASE ~(\E m \in Modes : Solve(m)) /\ ~(\E saved \in BOOLEAN : Finish(saved)) /\ ~Restart
             /\ ~OtherSolves
    <2>1. UNCHANGED <<goal, history, db, finished, asked, others>>
          /\ (pc' = pc \/ pc \notin {"idle", "over"})
      BY <1>7, RestLeavesRecords
    <2>2. pc # "idle" \/ pc' = "idle"
      BY <2>1
    <2>3. \A g \in 1..asked : g \in InHand' => g \in InHand
      BY <2>1 DEF InHand
    <2>4. Over' /\ Kept'
      BY <1>0, <2>1, <2>3, RecordsStay
    <2>5. Asked'
      BY <2>1, <2>2 DEF Filed, Asked
    <2> QED
      BY <2>4, <2>5 DEF Filed
  <1> QED
    BY <1>1, <1>2, <1>3, <1>4, <1>5, <1>6, <1>7 DEF OtherSolves

-----------------------------------------------------------------------------
(* The theorems *)

\* solve_goal launches a step's command, for any number of retries, at most
\* once per attempt of three rounds of execute_with_retry: its own and one
\* after each of its two recoveries.
THEOREM CommandsAreBounded == Spec => []EffortBounded
  <1>1. IInv => EffortBounded
    <2>1. MaxRetries \in Nat /\ Rounds(3) = 3 * (MaxRetries + 1)
      BY RoundsGrow, ExecutorAssumption DEF ExecutorAssumption
    <2>2. (MaxRetries + 1) * (1 + MaxRecoveries) = 3 * (MaxRetries + 1)
      BY <2>1 DEF MaxRecoveries
    <2> QED
      BY <2>1, <2>2 DEF IInv, Effort, EffortBounded
  <1> QED
    BY <1>1, Invariance, PTL

\* Of any plan, cyclic or naming steps that do not exist, solve_goal executes a
\* step only after the steps it depends on completed, each by its own command,
\* and skips exactly the other steps that it has passed.
THEOREM DependenciesRule == Spec => []DependenciesDecide
  <1>1. IInv => DependenciesMet
    <2> SUFFICES ASSUME IInv, NEW k \in DOMAIN report,
                        NEW d \in plan.deps[report[k].step] \cap Steps
                 PROVE  \E j \in 1..(k - 1) : report[j].step = d /\ status[d] = "completed"
      BY DEF DependenciesMet
    <2>1. Met(report[k].step) /\ report[k].step <= cursor /\ report[k].step \in Steps
      <3>1. report[k].step \in Steps
        BY EntriesAre DEF IInv
      <3> QED
        BY <3>1, StepsAre DEF IInv, Reported, Shapes
    <2>2. d < report[k].step /\ status[d] = "completed"
      BY <2>1 DEF Met
    <2>3. d < cursor /\ status[d] # "skipped"
      BY <2>1, <2>2, StepsAre DEF IInv, Shapes
    <2>4. PICK j \in DOMAIN report : report[j].step = d
      BY <2>3 DEF IInv, Reported
    <2>5. ~(k < j) /\ j # k
      BY <2>1, <2>2, <2>4, StepsAre DEF IInv, Reported
    <2>6. DOMAIN report = 1..Len(report) /\ Len(report) \in Nat
      BY DEF IInv, Shapes
    <2>7. j \in 1..(k - 1)
      BY <2>4, <2>5, <2>6
    <2> QED
      BY <2>2, <2>4, <2>7
  <1>2. IInv => SkippedExactly
    <2> SUFFICES ASSUME IInv, NEW s \in Steps, s < cursor
                 PROVE  status[s] = "skipped" <=>
                          \E d \in plan.deps[s] \cap Steps : d >= s \/ status[d] # "completed"
      BY DEF SkippedExactly
    <2>1. status[s] = "skipped" <=> ~Met(s)
      BY DEF IInv, Progressed
    <2>2. \A d \in Steps : d < s <=> ~(d >= s)
      BY StepsAre
    <2> QED
      BY <2>1, <2>2 DEF Met
  <1> QED
    BY <1>1, <1>2, Invariance, PTL DEF DependenciesDecide

\* What solve_goal reports names every executed step once, in plan order, and
\* passes none whose command's last run failed.
THEOREM ReportsAreSound == Spec => []ReportSound
  <1>1. IInv => ReportSound
    BY DEF IInv, Reported, ReportSound
  <1> QED
    BY <1>1, Invariance, PTL

\* Through any number of goals, solved one after the other or beside each other,
\* through restarts, cancellations and failed saves, memory keeps the goals finished
\* last and the database those saved, each once and in the order they finished;
\* execution_history shows the goal finished last unless its save failed beside
\* saved ones, the one saved last unless the database cannot be read, and in that
\* case nothing of an earlier process.
THEOREM HistoriesAreSound == Spec => []HistorySound
  <1>1. Init => Filed
    BY InitFiled
  <1>2. IInv /\ Filed /\ [Next]_vars => Filed'
    BY FiledKeeps
  <1>3. Filed => HistorySound
    <2> SUFFICES ASSUME Filed
                 PROVE  HistorySound
      OBVIOUS
    <2>1. /\ Len(db) \in Nat /\ DOMAIN db = 1..Len(db) /\ (db # <<>> => Len(db) >= 1)
          /\ Len(history) \in Nat /\ DOMAIN history = 1..Len(history)
          /\ Len(finished) \in Nat /\ DOMAIN finished = 1..Len(finished)
          /\ (finished # <<>> => Len(finished) >= 1)
          /\ MaxShown \in Nat /\ MaxShown >= 1 /\ MaxHistory \in Nat /\ MaxHistory >= 1
      BY EmptySeq, BoundsAssumption DEF Filed, Kept, BoundsAssumption
    <2>0. Len(history) <= MaxHistory /\ Len(history) <= Len(finished)
          /\ (Len(history) < MaxHistory => Len(history) = Len(finished))
      BY DEF Filed, Kept, Window
    <2> DEFINE F == Len(finished)
               L == Len(history)
    <2>9. F \in Nat /\ L \in Nat /\ L <= MaxHistory /\ L <= F /\ (L < MaxHistory => L = F)
          /\ MaxHistory \in Nat /\ MaxHistory >= 1 /\ (finished # <<>> => F >= 1)
      BY <2>0, <2>1
    <2>10. DOMAIN history = 1..L /\ DOMAIN finished = 1..F
      BY <2>1
    <2> HIDE DEF F, L
    <2>11. \A k \in 1..L : F - L + k \in 1..F
      BY <2>9
    <2>12. (finished # <<>> => L >= 1) /\ F - L + L = F
      BY <2>9
    <2>8. \A k \in DOMAIN history : Len(finished) - Len(history) + k \in DOMAIN finished
      BY <2>10, <2>11 DEF F, L
    <2>2. \A k \in DOMAIN history :
            /\ Len(finished) - Len(history) + k \in DOMAIN finished
            /\ history[k].goal = finished[Len(finished) - Len(history) + k]
      BY <2>8 DEF Filed, Kept, Window
    <2>3. HistoryKeepsLatest
      <3>1. ASSUME NEW j \in DOMAIN history, NEW k \in DOMAIN history,
                   history[j].goal = history[k].goal
            PROVE  j = k
        <4>1. Len(finished) - Len(history) + j = Len(finished) - Len(history) + k
          BY <2>2, <3>1 DEF Filed, Kept
        <4> QED
          BY <2>1, <4>1
      <3> QED
        BY <3>1 DEF HistoryKeepsLatest, Filed, Kept, OnceEach, Window, SavedInOrder
    <2>4. db # <<>> => db[Len(db)] \in ExecutionHistory(TRUE)
      BY <2>1 DEF ExecutionHistory, NewestSaved
    <2>5. \A r \in ExecutionHistory(FALSE) : \E k \in DOMAIN finished : r.goal = finished[k]
      BY <2>2 DEF ExecutionHistory
    <2>6. ASSUME finished # <<>>
          PROVE  /\ Len(history) \in DOMAIN history
                 /\ history[Len(history)].goal = finished[Len(finished)]
      <3>1. Len(history) >= 1
        BY <2>6, <2>12 DEF L
      <3>2. Len(finished) - Len(history) + Len(history) = Len(finished)
        BY <2>12 DEF F, L
      <3> QED
        BY <2>1, <2>2, <3>1, <3>2
    <2>7. ASSUME finished # <<>>, NEW readable \in BOOLEAN
          PROVE  \/ \E r \in ExecutionHistory(readable) : r.goal = finished[Len(finished)]
                 \/ readable /\ db # <<>> /\ db[Len(db)].goal # finished[Len(finished)]
      <3>1. CASE readable /\ db # <<>>
        BY <2>4, <3>1
      <3>2. CASE ~(readable /\ db # <<>>)
        <4>1. history[Len(history)] \in ExecutionHistory(readable)
          BY <2>6, <2>7, <3>2 DEF ExecutionHistory
        <4> QED
          BY <2>6, <2>7, <4>1
      <3> QED
        BY <3>1, <3>2
    <2> QED
      BY <2>3, <2>4, <2>5, <2>7 DEF HistorySound, LastGoalShown
  <1> QED
    BY <1>1, <1>2, <1>3, Invariance, PTL DEF Spec

\* The rest of what a solve keeps: its configuration, mode, and what it runs.
Configured ==
  /\ policy \in Policies
  /\ mode \in Modes \cup {"plan_only"}
  /\ risky \in BOOLEAN /\ stray \in BOOLEAN
  /\ lesson \in {"none", "pending"}

LEMMA ConfiguredKeeps ==
  ASSUME Configured, [Next]_vars
  PROVE  Configured'
  <1> USE DEF goalVars, jobVars, records
  <1>1. ASSUME UNCHANGED <<policy, mode, risky, stray, lesson>>
        PROVE  Configured'
    BY <1>1, Zenon DEF Configured
  <1>2. ASSUME NEW res \in Results, EndJob(res)
        PROVE  risky' = risky
    BY <1>2 DEF EndJob
  <1>3. ASSUME AttemptFails
        PROVE  risky' = risky
    BY <1>2, <1>3 DEF AttemptFails, Results
  <1>4. CASE TimeOut
    <2>1. UNCHANGED <<policy, mode, lesson>> /\ stray' = (stray \/ job # "fix") /\ risky' = risky
      BY <1>3, <1>4 DEF TimeOut
    <2>2. stray' \in BOOLEAN
      BY <2>1, Zenon
    <2> QED
      BY <2>1, <2>2, Zenon DEF Configured
  <1>5. CASE Refuse \/ AskApproval \/ Wake
    BY <1>1, <1>2, <1>3, <1>5 DEF Refuse, AskApproval, Wake, Results
  <1>6. ASSUME NEW types, Launch(types) \/ FailAtOnce(types)
        PROVE  Configured'
    BY <1>1, <1>3, <1>6 DEF Launch, FailAtOnce
  <1>7. CASE RunShell \/ RunPython \/ RunGit \/ ShellFails \/ CallApi \/ RunPlugin
    BY <1>6, <1>7 DEF RunShell, RunPython, RunGit, ShellFails, CallApi, RunPlugin
  <1>8. ASSUME NEW written \in BOOLEAN, WriteFile(written)
        PROVE  Configured'
    BY <1>1, <1>2, <1>3, <1>8 DEF WriteFile, Results
  <1>9. ASSUME NEW r \in {"completed", "failed"}, Exit(r)
        PROVE  Configured'
    BY <1>1, <1>2, <1>3, <1>9 DEF Exit, Results
  <1>10. CASE Judge
    <2>1. ASSUME NEW dangerous \in BOOLEAN, FindFix(dangerous)
          PROVE  Configured'
      BY <2>1, Zenon DEF FindFix, Configured
    <2> QED
      BY <1>1, <1>10, <2>1 DEF Judge, Verify, Reverify, FindNoFix
  <1>17. CASE OtherSolves
    BY <1>1, <1>17 DEF OtherSolves, SolveBeside, FinishBeside, LeaveBeside, Elsewhere
  <1>11. CASE DetectContext \/ Reflect \/ TakePlan \/ Skip \/ StepsDone
              \/ (\E p \in Plans : Plan(p)) \/ (\E saved \in BOOLEAN : Finish(saved))
    BY <1>1, <1>11 DEF DetectContext, Reflect, TakePlan, Asks, Skip, StepsDone, Plan, Finish
  <1>12. CASE Begin
    BY <1>12 DEF Begin, Configured
  <1>13. CASE Learn
    <2>1. UNCHANGED <<policy, mode, risky, stray>> /\ lesson' \in {"none", "pending"}
      BY <1>13 DEF Learn
    <2> QED
      BY <2>1, Zenon DEF Configured
  <1>14. CASE (\E m \in Modes : Solve(m)) \/ BadDependency \/ Raise \/ Cancel \/ Restart
    BY <1>14 DEF Solve, BadDependency, Raise, Cancel, Restart, FreshLocals, Configured
  <1>15. CASE StrayExits
    <2>1. UNCHANGED <<policy, mode, risky, lesson>> /\ stray' \in BOOLEAN
      BY <1>15 DEF StrayExits
    <2> QED
      BY <2>1, Zenon DEF Configured
  <1>16. CASE UNCHANGED vars
    BY <1>1, <1>16 DEF vars
  <1> QED
    BY <1>4, <1>5, <1>7, <1>8, <1>9, <1>10, <1>11, <1>12, <1>13, <1>14, <1>15, <1>16,
       <1>17
       DEF Next, Progress, Interrupt, Execute

\* Every variable of solve_goal keeps its type, whatever the plan and the model
\* answer: no status, step number or attempt outside what the code can count to.
THEOREM TypeCorrect == Spec => []TypeOK
  <1>1. Init => Configured
    BY DEF Init, Configured
  <1>2. Configured /\ [Next]_vars => Configured'
    BY ConfiguredKeeps
  <1>3. Init => Filed
    BY InitFiled
  <1>4. IInv /\ Filed /\ [Next]_vars => Filed'
    BY FiledKeeps
  <1>5. IInv /\ Filed /\ Configured => TypeOK
    <2> SUFFICES ASSUME IInv, Filed, Configured
                 PROVE  TypeOK
      OBVIOUS
    <2>1. pc \in Waiting \cup {"idle", "choose", "launch", "over"}
      BY DEF IInv, Shapes, Waiting, Early, Executing, Working, Ending
    <2>2. risky \in BOOLEAN /\ stray \in BOOLEAN
      BY DEF Configured
    <2>3. goal \in 0..MaxGoals /\ asked \in 0..MaxGoals /\ others \in SUBSET (1..MaxGoals)
      BY MaxGoalsIs DEF Filed, Asked
    <2> QED
      BY <2>1, <2>2, <2>3, Zenon DEF TypeOK, IInv, Shapes, Filed, Kept, Configured, StepStates
  <1> QED
    BY <1>1, <1>2, <1>3, <1>4, <1>5, Invariance, PTL DEF Spec

=============================================================================
