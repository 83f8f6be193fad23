---------------------------- MODULE SolvePipeline ---------------------------
(***************************************************************************)
(* core/orchestrator.py solve_goal with core/agent_executor.py: a goal is  *)
(* planned, its steps are executed in order, each one verified and, when   *)
(* it did not pass, recovered at most twice; then the lessons are stored   *)
(* and the result goes to the in-memory history and to the database.       *)
(* One action is the code between two awaits.  One solve is followed in    *)
(* every step; of those that other requests run beside it on the same      *)
(* orchestrator, the steps of which touch nothing this one uses, there are *)
(* the beginning and the end, which meet in the two histories.  The        *)
(* process can be restarted and a solve can be cancelled.                  *)
(*                                                                         *)
(* Abstractions.  A command is what the code tells apart: its action type, *)
(* and whether its text matches a dangerous pattern.  The language model's *)
(* answers are free choices.  runs counts the launches of the current      *)
(* step's command, and stray tells whether an earlier process of it, given *)
(* up by a timeout, is still running.  finished is a history variable: the *)
(* goals the process has finished, in that order.                          *)
(***************************************************************************)
EXTENDS Naturals, Sequences

CONSTANTS
  N,                \* steps of a plan, numbered from 1 in plan order
  Plans,            \* the plans the planning agent may answer with
  Modes,            \* the execution modes goals are solved in
  MaxRetries,       \* ActionStep.max_retries (2)
  Policies,         \* what configurations do with a dangerous shell command
  MaxHistory,       \* records kept in memory (100)
  MaxShown,         \* records execution_history reads from the database (50)
  MaxGoals          \* bound on the goals solved by a behaviour

Steps == 1..N
MaxRecoveries == 2
ModeNames == {"plan_only", "step_by_step", "semi_auto", "full_auto"}

\* "other" is a plugin's type or one that nothing handles.
ActionTypes == {"shell", "python", "git", "file_write", "api_call", "other"}

\* execution.allow_dangerous unset: "refuse"; set, and execution.mode other than
\* full_auto: "ask"; both set: "run".
PolicyNames == {"refuse", "ask", "run"}

ASSUME PlansAssumption ==
  /\ N \in Nat
  /\ \A p \in Plans : /\ p.deps \in [Steps -> SUBSET Nat]
                      /\ p.type \in [Steps -> ActionTypes]
                      /\ p.dangerous \in [Steps -> BOOLEAN]
ASSUME ModesAssumption == Modes \subseteq ModeNames
ASSUME ExecutorAssumption == MaxRetries \in Nat /\ Policies \subseteq PolicyNames
ASSUME BoundsAssumption ==
  MaxHistory \in Nat \ {0} /\ MaxShown \in Nat \ {0} /\ MaxGoals \in Nat

VARIABLES
  policy,                    \* the running process's executor configuration
  pc, mode, plan, goal,      \* where solve_goal stands, for which goal
  cursor, status,            \* the step it is at, and every step's status
  job, tries, risky,         \* what execute_with_retry runs, its attempt, and
                             \* whether the fix command matches a pattern
  data, again, recoveries,   \* exec_data's and retry_data's status, recovery_attempts
  report,                    \* results["execution"] and ["verification"]
  runs, stray,               \* the current step's launches, and whether an
                             \* earlier process of its command still runs
  lesson,                    \* the outcome this goal's lesson in memory is tagged with
  history, db,               \* _execution_history and the executions table
  asked, others,             \* goals asked for, and those being solved beside this one
  finished

goalVars == <<policy, mode, plan, goal>>
stepVars == <<cursor, status, recoveries, report>>
jobVars == <<job, tries, risky>>
dataVars == <<data, again>>
filed == <<history, db, finished>>
beside == <<asked, others>>
records == <<lesson, filed, beside>>
vars == <<policy, pc, mode, plan, goal, cursor, status, job, tries, risky, data, again,
          recoveries, report, runs, stray, lesson, history, db, asked, others, finished>>

Results == {"completed", "failed", "approval_required"}
Waiting == {"detect", "reflect", "planning", "planned", "running", "backoff", "verify", "research", "reverify",
            "learn", "finish"}
Entries == [step : Steps, status : Results, passed : BOOLEAN]
Outcomes == {"success", "partial_success", "failed"}
Records == [goal : 1..MaxGoals, outcome : Outcomes]

TypeOK ==
  /\ policy \in Policies
  /\ pc \in Waiting \cup {"idle", "choose", "launch", "over"}
  /\ mode \in Modes \cup {"plan_only"}
  /\ plan \in Plans
  /\ goal \in 0..MaxGoals
  /\ cursor \in 1..(N + 1)
  /\ status \in [Steps -> Results \cup {"pending", "in_progress", "skipped"}]
  /\ job \in {"step", "fix", "retry"}
  /\ tries \in 0..MaxRetries
  /\ risky \in BOOLEAN
  /\ data \in Results /\ again \in Results
  /\ recoveries \in 0..MaxRecoveries
  /\ report \in Seq(Entries)
  /\ runs \in Nat
  /\ stray \in BOOLEAN
  /\ lesson \in {"none", "pending"}
  /\ history \in Seq(Records)
  /\ db \in Seq(Records)
  /\ asked \in 0..MaxGoals /\ others \in SUBSET (1..MaxGoals)
  /\ finished \in Seq(1..MaxGoals)

Init ==
  /\ policy \in Policies
  /\ pc = "idle" /\ mode = "plan_only" /\ plan \in Plans /\ goal = 0
  /\ cursor = 1
  /\ status = [s \in Steps |-> "pending"]
  /\ job = "step" /\ tries = 0 /\ risky = FALSE
  /\ data = "failed" /\ again = "failed" /\ recoveries = 0
  /\ report = <<>>
  /\ runs = 0 /\ stray = FALSE
  /\ lesson = "none" /\ history = <<>> /\ db = <<>>
  /\ asked = 0 /\ others = {} /\ finished = <<>>

\* The locals of solve_goal: new with every solve, gone with an aborted one.
FreshLocals ==
  /\ cursor' = 1
  /\ status' = [s \in Steps |-> "pending"]
  /\ job' = "step" /\ tries' = 0 /\ risky' = FALSE
  /\ data' = "failed" /\ again' = "failed" /\ recoveries' = 0
  /\ report' = <<>>
  /\ runs' = 0 /\ stray' = FALSE

-----------------------------------------------------------------------------
(* Goal and plan *)

Solve(m) ==
  /\ pc \in {"idle", "over"} /\ asked < MaxGoals
  /\ pc' = "detect" /\ mode' = m /\ goal' = asked + 1 /\ asked' = asked + 1
  /\ FreshLocals
  /\ lesson' = "none"
  /\ UNCHANGED <<policy, plan, filed, others>>

Asks(here, next) ==
  /\ pc = here
  /\ pc' = next
  /\ UNCHANGED <<goalVars, stepVars, jobVars, dataVars, runs, stray, records>>

\* The planning agent has the model summarize the context, then reflect on what
\* is known, then plan: an answer that fails ends the solve (Raise).
DetectContext == Asks("detect", "reflect")
Reflect == Asks("reflect", "planning")

Plan(p) ==
  /\ pc = "planning"
  /\ plan' = p
  /\ pc' = "planned"
  /\ UNCHANGED <<policy, mode, goal, stepVars, jobVars, dataVars, runs, stray, records>>

\* The plan was reported; plan_only returns at once and records nothing.
TakePlan == Asks("planned", IF mode = "plan_only" THEN "over" ELSE "choose")

-----------------------------------------------------------------------------
(* The loop over the steps *)

SatisfiedUnlessFailed(s) ==
  \A d \in plan.deps[s] \cap Steps : status[d] \notin {"failed", "skipped"}

\* A dependency number past the end of the plan is ignored.  One from -1 to -N
\* counts from its end, and is written here as the step it names; 0 stands for one
\* below -N, which names none.
Satisfied(s) == \A d \in plan.deps[s] \cap Steps : status[d] = "completed"

Skip ==
  /\ pc = "choose" /\ cursor <= N
  /\ ~Satisfied(cursor)
  /\ status' = [status EXCEPT ![cursor] = "skipped"]
  /\ cursor' = cursor + 1
  /\ UNCHANGED <<pc, goalVars, recoveries, report, jobVars, dataVars, runs, stray, records>>

Begin ==
  /\ pc = "choose" /\ cursor <= N
  /\ Satisfied(cursor) /\ 0 \notin plan.deps[cursor]
  /\ pc' = "launch" /\ job' = "step" /\ tries' = 0 /\ risky' = FALSE
  /\ status' = [status EXCEPT ![cursor] = "in_progress"]
  /\ data' = "failed" /\ again' = "failed"
  /\ runs' = 0 /\ stray' = FALSE
  /\ UNCHANGED <<goalVars, cursor, recoveries, report, records>>

\* all() came to the number below -N before it met a step that did not complete:
\* the IndexError ends the solve.
BadDependency ==
  /\ pc = "choose" /\ cursor <= N
  /\ 0 \in plan.deps[cursor]
  /\ pc' = "over"
  /\ FreshLocals
  /\ UNCHANGED <<goalVars, records>>

StepsDone ==
  /\ pc = "choose" /\ cursor > N
  /\ pc' = "learn"
  /\ UNCHANGED <<goalVars, stepVars, jobVars, dataVars, runs, stray, records>>

\* The step's execution entry and verdict; step_by_step stops after the first.
Record(result, passed) ==
  /\ report' = Append(report, [step |-> cursor, status |-> result, passed |-> passed])
  /\ recoveries' = 0
  /\ IF mode = "step_by_step"
       THEN pc' = "learn" /\ UNCHANGED cursor
       ELSE pc' = "choose" /\ cursor' = cursor + 1

NotPassedForgetsToCount(result) ==
  IF mode \in {"semi_auto", "full_auto"} /\ recoveries < MaxRecoveries
    THEN pc' = "research" /\ UNCHANGED <<recoveries, cursor, report>>
    ELSE Record(result, FALSE)

NotPassedOneMore(result) ==
  IF mode \in {"semi_auto", "full_auto"} /\ recoveries <= MaxRecoveries
    THEN /\ pc' = "research" /\ recoveries' = recoveries + 1
         /\ UNCHANGED <<cursor, report>>
    ELSE Record(result, FALSE)

\* A verdict of "not passed" on the step or its retry: recover once more if the
\* mode recovers and an attempt is left, else the step has failed.
NotPassed(result) ==
  IF mode \in {"semi_auto", "full_auto"} /\ recoveries < MaxRecoveries
    THEN /\ pc' = "research" /\ recoveries' = recoveries + 1
         /\ UNCHANGED <<cursor, report>>
    ELSE Record(result, FALSE)

-----------------------------------------------------------------------------
(* execute_with_retry, run for the step, for a fix, or for the step again *)

\* A fix and a retry are ActionSteps of the default action_type, "shell".
Type == IF job = "step" THEN plan.type[cursor] ELSE "shell"
RunsInShell == Type = "shell"

\* The text of the command matches a dangerous pattern.
Matches == IF job = "fix" THEN risky ELSE plan.dangerous[cursor]

Refused == RunsInShell /\ Matches /\ policy = "refuse"
HeldForApproval == RunsInShell /\ Matches /\ policy = "ask"

\* execute_with_retry returns: only the step's own run sets the step's status.
EndJob(result) ==
  \/ /\ job = "step"
     /\ status' = [status EXCEPT ![cursor] = result]
     /\ data' = result
     /\ IF result = "failed"
          THEN NotPassed(result)
          ELSE pc' = "verify" /\ UNCHANGED <<cursor, recoveries, report>>
     /\ UNCHANGED <<jobVars, again>>
  \/ /\ job = "fix"
     /\ IF result = "completed"
          THEN /\ pc' = "launch" /\ job' = "retry" /\ tries' = 0
               /\ UNCHANGED <<cursor, recoveries, report, risky>>
          ELSE Record(data, FALSE) /\ UNCHANGED jobVars
     /\ UNCHANGED <<status, dataVars>>
  \/ /\ job = "retry"
     /\ again' = result
     /\ IF result = "failed"
          THEN NotPassed(data)
          ELSE pc' = "reverify" /\ UNCHANGED <<cursor, recoveries, report>>
     /\ UNCHANGED <<status, jobVars, data>>

AttemptFails ==
  \/ /\ tries < MaxRetries
     /\ pc' = "backoff"
     /\ UNCHANGED <<stepVars, jobVars, dataVars>>
  \/ tries = MaxRetries /\ EndJob("failed")

\* A refused command counts as a failed attempt, back-off and retries included.
Refuse ==
  /\ pc = "launch" /\ Refused
  /\ AttemptFails
  /\ UNCHANGED <<goalVars, runs, stray, records>>

AskApproval ==
  /\ pc = "launch" /\ HeldForApproval
  /\ EndJob("approval_required")
  /\ UNCHANGED <<goalVars, runs, stray, records>>

Launchable == pc = "launch" /\ ~Refused /\ ~HeldForApproval

Counted == runs' = IF job = "fix" THEN runs ELSE runs + 1

Launch(types) ==
  /\ Launchable /\ Type \in types
  /\ pc' = "running"
  /\ Counted
  /\ UNCHANGED <<goalVars, stepVars, jobVars, dataVars, stray, records>>

FailAtOnce(types) ==
  /\ Launchable /\ Type \in types
  /\ AttemptFails
  /\ UNCHANGED <<goalVars, runs, stray, records>>

RunShell == Launch({"shell"})

\* Both are turned into a shell command, past the check that execute_step made.
RunPython == Launch({"python"})
RunGit == Launch({"git"})

\* The process could not be created.
ShellFails == FailAtOnce({"shell", "python", "git"})

\* Written, or not, without a wait; a path that leaves the workdir is refused.
WriteFile(written) ==
  /\ Launchable /\ Type = "file_write"
  /\ IF written THEN EndJob("completed") ELSE AttemptFails
  /\ Counted
  /\ UNCHANGED <<goalVars, stray, records>>

\* urlopen runs in a thread and has its own timeout; without a URL there is no call.
CallApi == Launch({"api_call"}) \/ FailAtOnce({"api_call"})

\* A plugin's handler is awaited; a type that nobody handles fails.
RunPlugin == Launch({"other"}) \/ FailAtOnce({"other"})

Exit(result) ==
  /\ pc = "running"
  /\ \/ result = "completed" /\ EndJob(result)
     \/ result = "failed" /\ AttemptFails
  /\ UNCHANGED <<goalVars, runs, stray, records>>

\* wait_for gives up on communicate(); nothing kills the process.
TimeOut ==
  /\ pc = "running" /\ Type \in {"shell", "python", "git"}
  /\ stray' = (stray \/ job # "fix")
  /\ AttemptFails
  /\ UNCHANGED <<goalVars, runs, records>>

Wake ==
  /\ pc = "backoff"
  /\ pc' = "launch" /\ tries' = tries + 1
  /\ UNCHANGED <<goalVars, stepVars, job, risky, dataVars, runs, stray, records>>

\* A process nobody waits for any more ends by itself.
StrayExits ==
  /\ stray
  /\ stray' = FALSE
  /\ UNCHANGED <<pc, goalVars, stepVars, jobVars, dataVars, runs, records>>

-----------------------------------------------------------------------------
(* Verification and recovery: the model answers as it likes *)

Verify(passed) ==
  /\ pc = "verify"
  /\ IF passed THEN Record(data, TRUE) ELSE NotPassed(data)
  /\ UNCHANGED <<goalVars, status, jobVars, dataVars, runs, stray, records>>

ReverifyKeepsData(passed) ==
  /\ pc = "reverify"
  /\ IF passed THEN Record(data, TRUE) ELSE NotPassed(data)
  /\ UNCHANGED <<goalVars, status, jobVars, dataVars, runs, stray, records>>

\* A passing retry replaces the entry's data; the step's status stays as it was.
Reverify(passed) ==
  /\ pc = "reverify"
  /\ IF passed THEN Record(again, TRUE) ELSE NotPassed(data)
  /\ data' = IF passed THEN again ELSE data
  /\ UNCHANGED <<goalVars, status, jobVars, again, runs, stray, records>>

FindFix(dangerous) ==
  /\ pc = "research"
  /\ pc' = "launch" /\ job' = "fix" /\ tries' = 0 /\ risky' = dangerous
  /\ UNCHANGED <<goalVars, stepVars, dataVars, runs, stray, records>>

\* No confident fix, or the model failed: the step has failed.
FindNoFix ==
  /\ pc = "research"
  /\ Record(data, FALSE)
  /\ UNCHANGED <<goalVars, status, jobVars, dataVars, runs, stray, records>>

-----------------------------------------------------------------------------
(* Lessons, outcome and records *)

\* The lesson is written while results["outcome"] is still "pending"; storing it
\* may fail, and a goal that executed nothing teaches nothing.
Learn ==
  /\ pc = "learn"
  /\ pc' = "finish"
  /\ lesson' \in IF report = <<>> THEN {"none"} ELSE {"pending", "none"}
  /\ UNCHANGED <<goalVars, stepVars, jobVars, dataVars, runs, stray, filed, beside>>

Passed(r) == {k \in DOMAIN r : r[k].passed}

\* Skipped steps have no verdict and do not count.
Outcome(r) ==
  IF r # <<>> /\ Passed(r) = DOMAIN r THEN "success"
  ELSE IF Passed(r) # {} THEN "partial_success"
  ELSE "failed"

FirstOf(h) == IF Len(h) > MaxHistory THEN SubSeq(h, 1, MaxHistory) ELSE h

LastOf(h) == IF Len(h) > MaxHistory THEN SubSeq(h, Len(h) - MaxHistory + 1, Len(h)) ELSE h

Saved(record) == db' = Append(db, record)

\* saved: save_execution did not raise.
File(record, saved) ==
  /\ history' = LastOf(Append(history, record))
  /\ finished' = Append(finished, record.goal)
  /\ \/ saved /\ Saved(record)
     \/ ~saved /\ UNCHANGED db

Finish(saved) ==
  /\ pc = "finish"
  /\ pc' = "over"
  /\ File([goal |-> goal, outcome |-> Outcome(report)], saved)
  /\ UNCHANGED <<goalVars, stepVars, jobVars, dataVars, runs, stray, lesson, beside>>

\* get_executions: the newest records.
NewestSaved == {db[k] : k \in {j \in DOMAIN db : j > Len(db) - MaxShown}}

\* What execution_history answers.  Its comment speaks of merging, but the records
\* in memory are left out as soon as the database has one; and when reading the
\* database fails, silently, those saved by an earlier process are.  (The callers
\* then take [-limit:] of what is newest first: the oldest of them.)
ExecutionHistory(readable) ==
  IF readable /\ db # <<>> THEN NewestSaved ELSE {history[k] : k \in DOMAIN history}

-----------------------------------------------------------------------------
(* Solves of other requests, at this one's awaits *)

Elsewhere ==
  /\ pc \notin {"choose", "launch"}
  /\ UNCHANGED <<pc, goalVars, stepVars, jobVars, dataVars, runs, stray, lesson>>

SolveBeside ==
  /\ Elsewhere /\ asked < MaxGoals
  /\ asked' = asked + 1 /\ others' = others \cup {asked + 1}
  /\ UNCHANGED filed

FinishBeside(g, outcome, saved) ==
  /\ Elsewhere /\ g \in others
  /\ others' = others \ {g}
  /\ File([goal |-> g, outcome |-> outcome], saved)
  /\ UNCHANGED asked

\* It only planned, raised or was cancelled.
LeaveBeside(g) ==
  /\ Elsewhere /\ g \in others
  /\ others' = others \ {g}
  /\ UNCHANGED <<asked, filed>>

-----------------------------------------------------------------------------
(* What ends a solve early *)

\* The model fails where nothing catches it: solve_goal raises, nothing is recorded.
Raise ==
  /\ pc \in {"detect", "reflect", "planning", "verify", "reverify"}
  /\ pc' = "over"
  /\ FreshLocals
  /\ UNCHANGED <<goalVars, records>>

\* The client of the stream went away: the task is cancelled at its await.
Cancel ==
  /\ pc \in Waiting
  /\ pc' = "over"
  /\ FreshLocals
  /\ UNCHANGED <<goalVars, records>>

\* The server process is replaced, perhaps with another configuration: what was
\* in its memory is gone.
Restart ==
  /\ pc # "idle" \/ others # {}
  /\ pc' = "idle"
  /\ policy' \in Policies
  /\ FreshLocals
  /\ history' = <<>> /\ others' = {} /\ finished' = <<>>
  /\ UNCHANGED <<mode, plan, goal, lesson, db, asked>>

-----------------------------------------------------------------------------

Execute ==
  \/ Refuse \/ AskApproval \/ TimeOut \/ Wake
  \/ RunShell \/ RunPython \/ RunGit \/ ShellFails \/ CallApi \/ RunPlugin
  \/ \E written \in BOOLEAN : WriteFile(written)
  \/ \E r \in {"completed", "failed"} : Exit(r)

Judge ==
  \/ \E passed \in BOOLEAN : Verify(passed) \/ Reverify(passed)
  \/ \E dangerous \in BOOLEAN : FindFix(dangerous)
  \/ FindNoFix

\* What solve_goal does by itself once called.
Progress ==
  \/ DetectContext \/ Reflect \/ TakePlan
  \/ \E p \in Plans : Plan(p)
  \/ Skip \/ Begin \/ BadDependency \/ StepsDone
  \/ Execute \/ Judge
  \/ Learn \/ \E saved \in BOOLEAN : Finish(saved)

Interrupt == Raise \/ Cancel \/ Restart \/ StrayExits

OtherSolves ==
  \/ SolveBeside
  \/ \E g \in others :
       \/ \E outcome \in Outcomes, saved \in BOOLEAN : FinishBeside(g, outcome, saved)
       \/ LeaveBeside(g)

Next == (\E m \in Modes : Solve(m)) \/ Progress \/ Interrupt \/ OtherSolves

Spec == Init /\ [][Next]_vars

(* Every await of a solve ends: the model's calls and the commands have    *)
(* timeouts, the back-off is a sleep.  Nothing makes a client ask, a task  *)
(* be cancelled, a process restart or a stray process exit.                *)
FairSpec == Spec /\ WF_vars(Progress)

-----------------------------------------------------------------------------
(* Properties *)

\* A step that was executed had its dependencies executed before it, each of
\* them completed by its own command: what a recovery repaired does not count.
DependenciesMet ==
  \A k \in DOMAIN report :
    \A d \in plan.deps[report[k].step] \cap Steps :
      \E j \in 1..(k - 1) : report[j].step = d /\ status[d] = "completed"

\* Of the steps the loop has passed, exactly those are skipped that depend on a
\* step which is not before them or did not complete: skipping is transitive.
SkippedExactly ==
  \A s \in Steps : s < cursor =>
    (status[s] = "skipped" <=>
       \E d \in plan.deps[s] \cap Steps : d >= s \/ status[d] # "completed")

\* Dependencies alone decide what is executed and what is skipped.
DependenciesDecide == DependenciesMet /\ SkippedExactly

\* A step's command is launched at most once per attempt of execute_with_retry,
\* and that runs once for the step and once for each recovery of it.
EffortBounded == runs <= (MaxRetries + 1) * (1 + MaxRecoveries)

\* The report names each executed step once, in plan order and none the loop has
\* still to come to; no verdict of "passed" stands on a command whose last run
\* failed.
ReportSound ==
  /\ \A j, k \in DOMAIN report : j < k => report[j].step < report[k].step
  /\ \A k \in DOMAIN report :
       /\ report[k].step < cursor \/ mode = "step_by_step"
       /\ report[k].passed => report[k].status # "failed"

\* Whatever the window drops and whichever solve ends first, memory has the goals
\* this process finished last, in that order, and the database ends with those of
\* them that it saved, in that order; neither has a goal twice.
HistoryKeepsLatest ==
  /\ \A h \in {history, db} : \A j, k \in DOMAIN h : h[j].goal = h[k].goal => j = k
  /\ Len(history) <= MaxHistory
  /\ Len(history) < MaxHistory => Len(history) = Len(finished)
  /\ \A k \in DOMAIN history : history[k].goal = finished[Len(finished) - Len(history) + k]
  /\ \A j, k \in DOMAIN db : \A a \in DOMAIN finished :
       j < k /\ db[j].goal = finished[a] =>
         \E b \in DOMAIN finished : a < b /\ db[k].goal = finished[b]

\* The goal that this process finished last is in the execution history, unless
\* saving it failed beside saved ones; so is the one saved last, by whichever
\* process, unless reading the database fails: then there is nothing but what this
\* process finished.
LastGoalShown ==
  /\ \A readable \in BOOLEAN : finished # <<>> =>
       \/ \E r \in ExecutionHistory(readable) : r.goal = finished[Len(finished)]
       \/ readable /\ db # <<>> /\ db[Len(db)].goal # finished[Len(finished)]
  /\ db # <<>> => db[Len(db)] \in ExecutionHistory(TRUE)
  /\ \A r \in ExecutionHistory(FALSE) : \E k \in DOMAIN finished : r.goal = finished[k]

\* The two histories are in order, bounded, and readable.
HistorySound == HistoryKeepsLatest /\ LastGoalShown

\* Every solve ends, whatever the model answers and the commands do.
SolveEnds == pc = "detect" ~> pc \in {"idle", "over"}

\* agent_executor.py: "Timeout enforcement per step".  When execute_with_retry
\* is about to run a command again, no earlier run of it is still going on.
TimeoutEnforced == pc = "backoff" /\ job # "fix" => ~stray

\* orchestrator.py: "3. Retry the original step".  What the recovery runs is
\* handled as the original step was.
RetriesOriginal == pc = "running" /\ job = "retry" => RunsInShell = (plan.type[cursor] = "shell")

=============================================================================
