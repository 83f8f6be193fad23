------------------------------ MODULE Autonomy ------------------------------
(***************************************************************************)
(* core/autonomous_learner.py and core/proactive_service.py as the API     *)
(* server drives them: several POST /orchestrator/cycle requests run       *)
(* Orchestrator.run_full_cycle at once over one learner and one proactive  *)
(* service, and GET /proactive/push requests use a second service, the one *)
(* init_app builds for the server itself.  One action is the code between  *)
(* two awaits.  A budget, a cooldown or a daily limit is checked before    *)
(* the awaits of the work it guards and charged after them.                *)
(*                                                                         *)
(* Abstractions.  Costs are counted in units of 0.01, the price of every   *)
(* task.  A task is an identifier of a bounded pool with the priority the  *)
(* code computed for it; an identifier is used again once its task is gone.*)
(* The clock is seen through newDay (the date is past _last_reset_date)    *)
(* and cooling[s] (fewer than push_cooldown minutes since the last push).  *)
(***************************************************************************)
EXTENDS Naturals, FiniteSets

CONSTANTS
  Cycles,      \* concurrent requests that run a full cycle
  Requests,    \* concurrent requests that only push
  Tasks,       \* identifiers of learning tasks (a bound on the pending ones)
  Priority,    \* their composite priorities
  MaxGaps,     \* gaps one reflection reports (a bound)
  Budget,      \* daily_cost_budget, in units of 0.01
  MaxPushes    \* max_daily_pushes

ASSUME CallersAssumption ==
  IsFiniteSet(Cycles) /\ IsFiniteSet(Requests) /\ Cycles \cap Requests = {}
ASSUME TasksAssumption ==
  Priority \in [Tasks -> Nat] /\ "none" \notin Tasks /\ MaxGaps \in Nat
ASSUME LimitsAssumption ==
  Budget \in Nat /\ Budget >= 2 /\ MaxPushes \in Nat \ {0}

VARIABLES
  pc,         \* where each caller is suspended
  task,       \* the learning task each cycle executes
  left,       \* gaps whose research query each cycle has still to ask for
  pending,    \* pending_tasks
  stored,     \* pending tasks whose findings are in the memory already
  cost,       \* _daily_cost
  newDay,     \* the date is past _last_reset_date
  cooling,    \* per service: within push_cooldown of _last_push_time
  pushes,     \* per service: _push_count_today
  inARow      \* per service: pushes sent since its last cooldown was over

learnerVars == <<task, left, pending, stored, cost, newDay>>
pushVars == <<cooling, pushes, inARow>>
vars == <<pc, task, left, pending, stored, cost, newDay, cooling, pushes, inARow>>

Callers == Cycles \cup Requests
Services == {"orchestrator", "api"}
Service(c) == IF c \in Cycles THEN "orchestrator" ELSE "api"
Users(s) == {c \in Callers : Service(c) = s}

None == "none"
Executing == {"researching", "extracting"}
Places == {"idle", "reflecting", "generating", "querying", "pushing"} \cup Executing

Init ==
  /\ pc = [c \in Callers |-> "idle"]
  /\ task = [c \in Cycles |-> None]
  /\ left = [c \in Cycles |-> 0]
  /\ pending = {}
  /\ stored = {}
  /\ cost = 0
  /\ newDay = FALSE
  /\ cooling = [s \in Services |-> FALSE]
  /\ pushes = [s \in Services |-> 0]
  /\ inARow = [s \in Services |-> 0]

-----------------------------------------------------------------------------
(* push(): the cooldown and the daily limit are read first *)

MayPushUncooled(s) == pushes[s] < MaxPushes
MayPushOnceMore(s) == ~cooling[s] /\ pushes[s] <= MaxPushes

MayPush(s) == ~cooling[s] /\ pushes[s] < MaxPushes

\* Where a caller waits once it reached push(): for predict_needs and the
\* message, between which nothing shared is read or written, or nowhere.
AtPush(c) == IF MayPush(Service(c)) THEN "pushing" ELSE "idle"

StartPush(r) ==
  /\ pc[r] = "idle"
  /\ MayPush(Service(r))
  /\ pc' = [pc EXCEPT ![r] = "pushing"]
  /\ UNCHANGED <<learnerVars, pushVars>>

\* Nothing worth pushing, or an LLM call raised: the push, and the cycle, end.
GiveUpPush(c) ==
  /\ pc[c] = "pushing"
  /\ pc' = [pc EXCEPT ![c] = "idle"]
  /\ UNCHANGED <<learnerVars, pushVars>>

\* The message is there: the time and the count are set, the desktop notified.
Push(c) ==
  LET s == Service(c) IN
  /\ pc[c] = "pushing"
  /\ pc' = [pc EXCEPT ![c] = "idle"]
  /\ cooling' = [cooling EXCEPT ![s] = TRUE]
  /\ pushes' = [pushes EXCEPT ![s] = @ + 1]
  /\ inARow' = [inARow EXCEPT ![s] = @ + 1]
  /\ UNCHANGED learnerVars

CooldownEnds(s) ==
  /\ cooling[s]
  /\ cooling' = [cooling EXCEPT ![s] = FALSE]
  /\ inARow' = [inARow EXCEPT ![s] = 0]
  /\ UNCHANGED <<pc, learnerVars, pushes>>

-----------------------------------------------------------------------------
(* check_and_learn *)

CostToday == IF newDay THEN 0 ELSE cost

WithinBudgetLoosely(spent) == spent < Budget
WithinBudget(spent) == spent + 1 < Budget

\* check_and_learn returns and run_full_cycle goes on to push().
LeaveLearner(c) ==
  /\ pc' = [pc EXCEPT ![c] = AtPush(c)]
  /\ task' = [task EXCEPT ![c] = None]

(* The code after the await of _generate_tasks, or after finding tasks in  *)
(* the list P: take the one of highest priority if the budget allows.  The *)
(* task stays in the list while it is executed.                            *)
TakeTask(c, P) ==
  \/ P = {} /\ LeaveLearner(c) /\ UNCHANGED <<cost, newDay>>
  \/ \E t \in P :
       /\ \A u \in P : Priority[u] <= Priority[t]
       /\ cost' = CostToday
       /\ newDay' = FALSE
       /\ \/ /\ WithinBudget(CostToday)
             /\ pc' = [pc EXCEPT ![c] = "researching"]
             /\ task' = [task EXCEPT ![c] = t]
          \/ ~WithinBudget(CostToday) /\ LeaveLearner(c)

\* The CPU is busy: no learning in this cycle.
LearnLater(c) ==
  /\ pc[c] = "reflecting"
  /\ LeaveLearner(c)
  /\ UNCHANGED <<left, pending, stored, cost, newDay, pushVars>>

LearnNow(c) ==
  /\ pc[c] = "reflecting"
  /\ \/ pending # {} /\ TakeTask(c, pending)
     \/ /\ pending = {}
        /\ pc' = [pc EXCEPT ![c] = "generating"]
        /\ UNCHANGED <<task, cost, newDay>>
  /\ UNCHANGED <<left, pending, stored, pushVars>>

-----------------------------------------------------------------------------
(* _generate_tasks *)

Unused == Tasks \ (pending \cup {task[c] : c \in Cycles})

\* P joins the list, the recommendations follow with no await between them,
\* and the generation is over.
Generated(c, P) ==
  \E R \in SUBSET (Unused \ P) :
    /\ Cardinality(R) <= 1
    /\ pending' = pending \cup P \cup R
    /\ TakeTask(c, pending \cup P \cup R)

\* reflect() answered with some gaps; a query is asked for each in turn.
FindGaps(c) ==
  /\ pc[c] = "generating"
  /\ \/ /\ \E n \in 1..MaxGaps : left' = [left EXCEPT ![c] = n]
        /\ pc' = [pc EXCEPT ![c] = "querying"]
        /\ UNCHANGED <<task, pending, cost, newDay>>
     \/ Generated(c, {}) /\ UNCHANGED left
  /\ UNCHANGED <<stored, pushVars>>

\* The query of one gap arrived: its task joins the list other cycles read.
AddGap(c) ==
  /\ pc[c] = "querying"
  /\ \E t \in Unused :
       \/ /\ left[c] > 1
          /\ pending' = pending \cup {t}
          /\ UNCHANGED <<pc, task, cost, newDay>>
       \/ left[c] = 1 /\ Generated(c, {t})
  /\ left' = [left EXCEPT ![c] = @ - 1]
  /\ UNCHANGED <<stored, pushVars>>

\* An LLM call raised (or the pool is used up): what was added stays added.
StopGenerating(c) ==
  /\ pc[c] \in {"generating", "querying"}
  /\ TakeTask(c, pending)
  /\ left' = [left EXCEPT ![c] = 0]
  /\ UNCHANGED <<pending, stored, pushVars>>

-----------------------------------------------------------------------------
(* _execute_task *)

\* The research is answered and _integrate_findings remembered it; the
\* takeaways come next.
StoreFindings(c) ==
  /\ pc[c] = "researching"
  /\ stored' = stored \cup ({task[c]} \cap pending)
  /\ pc' = [pc EXCEPT ![c] = "extracting"]
  /\ UNCHANGED <<task, left, pending, cost, newDay, pushVars>>

CompleteForgetsToRemove(c) ==
  /\ pc[c] = "extracting"
  /\ cost' = cost + 1
  /\ LeaveLearner(c)
  /\ UNCHANGED <<left, pending, stored, newDay, pushVars>>

CompleteClearsList(c) ==
  /\ pc[c] = "extracting"
  /\ pending' = {}
  /\ stored' = {}
  /\ cost' = cost + 1
  /\ LeaveLearner(c)
  /\ UNCHANGED <<left, newDay, pushVars>>

\* The takeaways are remembered: the task is charged and leaves the list.
Complete(c) ==
  /\ pc[c] = "extracting"
  /\ pending' = pending \ {task[c]}
  /\ stored' = stored \ {task[c]}
  /\ cost' = cost + 1
  /\ LeaveLearner(c)
  /\ UNCHANGED <<left, newDay, pushVars>>

\* A call raised: nothing is charged, and the FAILED task stays in the list.
Fail(c) ==
  /\ pc[c] \in Executing
  /\ LeaveLearner(c)
  /\ UNCHANGED <<left, pending, stored, cost, newDay, pushVars>>

-----------------------------------------------------------------------------
(* run_full_cycle, the learner's status, the clock *)

\* consolidate() and reflect() come first; whether they raise changes nothing here.
StartCycle(c) ==
  /\ pc[c] = "idle"
  /\ pc' = [pc EXCEPT ![c] = "reflecting"]
  /\ UNCHANGED <<learnerVars, pushVars>>

ReadStatus ==
  /\ newDay
  /\ cost' = 0
  /\ newDay' = FALSE
  /\ UNCHANGED <<pc, task, left, pending, stored, pushVars>>

NewDay ==
  /\ ~newDay
  /\ newDay' = TRUE
  /\ UNCHANGED <<pc, task, left, pending, stored, cost, pushVars>>

Next ==
  \/ \E c \in Cycles :
       \/ StartCycle(c) \/ LearnLater(c) \/ LearnNow(c)
       \/ FindGaps(c) \/ AddGap(c) \/ StopGenerating(c)
       \/ StoreFindings(c) \/ Complete(c) \/ Fail(c)
  \/ \E r \in Requests : StartPush(r)
  \/ \E c \in Callers : GiveUpPush(c) \/ Push(c)
  \/ \E s \in Services : CooldownEnds(s)
  \/ ReadStatus
  \/ NewDay

Spec == Init /\ [][Next]_vars

-----------------------------------------------------------------------------
(* Fairness: requests keep arriving and are served, days pass and cooldowns *)
(* end; a model that is asked again and again answers in the end, and an    *)
(* idle moment comes, so the steps of learning are strongly fair.           *)

FairSpec ==
  /\ Spec
  /\ \A c \in Cycles :
       /\ WF_vars(StartCycle(c))
       /\ WF_vars(FindGaps(c) \/ AddGap(c) \/ StopGenerating(c))
       /\ SF_vars(LearnNow(c))
       /\ SF_vars(StoreFindings(c)) /\ SF_vars(Complete(c))
  /\ \A c \in Callers : WF_vars(GiveUpPush(c) \/ Push(c))
  /\ WF_vars(NewDay)

-----------------------------------------------------------------------------
(* Properties *)

\* The state of the learner and of the two services is well formed; a cycle
\* holds a task exactly while it executes one.
TypeOK ==
  /\ pc \in [Callers -> Places]
  /\ \A r \in Requests : pc[r] \in {"idle", "pushing"}
  /\ task \in [Cycles -> Tasks \cup {None}]
  /\ \A c \in Cycles : pc[c] \in Executing <=> task[c] # None
  /\ left \in [Cycles -> 0..MaxGaps]
  /\ \A c \in Cycles : pc[c] = "querying" <=> left[c] > 0
  /\ pending \in SUBSET Tasks
  /\ stored \in SUBSET pending
  /\ cost \in Nat
  /\ newDay \in BOOLEAN
  /\ cooling \in [Services -> BOOLEAN]
  /\ pushes \in [Services -> Nat]
  /\ inARow \in [Services -> Nat]

InFlight == {c \in Cycles : pc[c] \in Executing}
OnTheWay(s) == {c \in Users(s) : pc[c] = "pushing"}

\* _check_budget reads the cost before the research and _execute_task charges
\* it after: concurrent cycles may overrun the budget, by no more than one
\* task for each cycle beyond the first, those still running included.
BudgetOverrunBounded == cost + Cardinality(InFlight) + 2 <= Budget + Cardinality(Cycles)

\* should_push reads the daily count before predict_needs and push() raises it
\* after the message: a service sends at most one push too many for each
\* request beyond the first, those on their way included.
PushOverrunBounded ==
  \A s \in Services :
    pushes[s] + Cardinality(OnTheWay(s)) < MaxPushes + Cardinality(Users(s))

\* The cooldown is read before the awaits of a push and set after them: between
\* two cooldowns' ends no request gets more than one push out.
OnePushPerCaller == \A s \in Services : inARow[s] <= Cardinality(Users(s))

\* _execute_task rebuilds pending_tasks while other cycles append to it and
\* execute the same task: a task leaves the list only with its findings stored.
NothingDropped == [][\A t \in pending \ pending' : t \in stored]_vars

\* A failed task stays at the head of the list and is taken again: with a model
\* that answers in the end every task, at the head or behind it, is learned.
TasksLearned == \A t \in Tasks : t \in pending ~> t \notin pending
=============================================================================
