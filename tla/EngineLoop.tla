------------------------------ MODULE EngineLoop ------------------------------
(***************************************************************************)
(* The engine's own life: Orchestrator.run_loop in core/orchestrator.py,   *)
(* run by "deepspace orchestrate".  It loads the plugins                   *)
(* (core/plugin_manager.py), then wakes every minute, runs the phases that *)
(* are due one after another, and sleeps again.                            *)
(*                                                                         *)
(* Time is in minutes.  The loop reads the clock once when it wakes (now)  *)
(* and sets a phase's last_... to it when the phase has succeeded, so two  *)
(* lengths of time matter: since[p], which is now - last_..., and lag, the *)
(* time that has passed since now.  What the phases do to memories, tasks  *)
(* and goals is in the modules MemoryEngine, Autonomy and SolvePipeline.   *)
(***************************************************************************)
EXTENDS Naturals, Sequences, FiniteSets, SequencesExt

CONSTANTS
  Phases,       \* in their order: consolidate, learn, push, solve
  Interval,     \* per phase, its interval
  MaxLag,       \* the longest that the phases of one waking take
  MaxGoals,     \* goals derived at a time: 1 in run_loop
  Plugins,      \* the directories under plugins/, sorted
  Provides      \* per plugin, the action types it handles

PhaseSet == Range(Phases)
Solve == Last(Phases)
Place(p) == CHOOSE i \in 1..Len(Phases) : Phases[i] = p

\* What else the loop may be at.
Places == {"once", "load", "enable", "start", "asleep", "solving", "remembering", "ended"}

ASSUME PhasesAssumption ==
  /\ Phases \in Seq(PhaseSet) /\ Phases # <<>> /\ IsInjective(Phases)
  /\ PhaseSet \cap Places = {}
ASSUME IntervalAssumption == Interval \in [PhaseSet -> Nat \ {0}]
ASSUME PluginsAssumption == Plugins \in Seq(Range(Plugins))
ASSUME BoundsAssumption == MaxLag \in Nat /\ MaxGoals \in Nat

VARIABLES
  at,        \* what the loop awaits
  since,     \* per phase, the minutes from its last success to now
  lag,       \* the minutes since now
  unsuccessful, \* phases that were never tried, or raised when last tried
  goals,     \* derived and not yet dealt with
  waiting,   \* plugins still to be loaded, or to be enabled
  loaded,    \* manager.plugins, in the order of loading
  handlers   \* the executor's: action type -> plugin

loop == <<at, since, lag, unsuccessful, goals>>
plugins == <<waiting, loaded, handlers>>
vars == <<at, since, lag, unsuccessful, goals, waiting, loaded, handlers>>

\* Nobody compares more than this: an overdue phase is due.
Cap(p) == Interval[p] + MaxLag + 1
Minutes(n, p) == IF n <= Cap(p) THEN n ELSE Cap(p)

TypeOK ==
  /\ at \in Places \cup PhaseSet
  /\ since \in [PhaseSet -> Nat]
  /\ lag \in 0..MaxLag
  /\ unsuccessful \subseteq PhaseSet
  /\ goals \in 0..MaxGoals
  /\ waiting \in Seq(Range(Plugins)) /\ loaded \in Seq(Range(Plugins))
  /\ DOMAIN handlers \subseteq UNION {Provides[g] : g \in Range(Plugins)}

\* The clock is the machine's uptime and last_... starts at 0, so on a machine
\* that has just been started nothing is due yet.  With --once there is no loop.
Init ==
  /\ at \in {"load", "once"}
  /\ \E uptime \in {0, Cap(Solve)} : since = [p \in PhaseSet |-> Minutes(uptime, p)]
  /\ lag = 0 /\ unsuccessful = PhaseSet /\ goals = 0
  /\ waiting = Plugins /\ loaded = <<>> /\ handlers = <<>>

-----------------------------------------------------------------------------
(* _load_plugins over PluginManager *)

\* The next plugin: its directory, its minimal version and its import are
\* right, and on_load has returned ...
LoadPlugin ==
  /\ at = "load" /\ waiting # <<>>
  /\ loaded' = Append(loaded, Head(waiting)) /\ waiting' = Tail(waiting)
  /\ UNCHANGED <<loop, handlers>>

\* ... or one of these is not, and the others go on ...
RejectPlugin ==
  /\ at = "load" /\ waiting # <<>>
  /\ waiting' = Tail(waiting)
  /\ UNCHANGED <<loop, loaded, handlers>>

StartEnabling ==
  /\ at = "load" /\ waiting = <<>>
  /\ at' = "enable" /\ waiting' = loaded
  /\ UNCHANGED <<since, lag, unsuccessful, goals, loaded, handlers>>

EnablePlugin ==
  /\ at = "enable" /\ waiting # <<>>
  /\ waiting' = Tail(waiting)
  /\ UNCHANGED <<loop, loaded, handlers>>

\* ... or something raises that is not an ImportError: the loop starts
\* without any plugin.
PluginsFail ==
  /\ at \in {"load", "enable"} /\ waiting # <<>>
  /\ at' = "start"
  /\ UNCHANGED <<since, lag, unsuccessful, goals, plugins>>

\* dict.update: what new has goes before what old has.
Update(old, new) ==
  [t \in DOMAIN old \cup DOMAIN new |-> IF t \in DOMAIN new THEN new[t] ELSE old[t]]

CollectedFirstWins(order) ==
  LET upTo[n \in 0..Len(order)] ==
        IF n = 0 THEN <<>> ELSE Update([t \in Provides[order[n]] |-> order[n]], upTo[n - 1])
  IN  upTo[Len(order)]

\* get_all_execution_handlers: of two plugins with the same action type, the
\* one loaded later has it.  It asks each plugin whether it is enabled: all are,
\* since the loop gets here only when enabling each has worked.
Collected(order) ==
  LET upTo[n \in 0..Len(order)] ==
        IF n = 0 THEN <<>> ELSE Update(upTo[n - 1], [t \in Provides[order[n]] |-> order[n]])
  IN  upTo[Len(order)]

Register ==
  /\ at = "enable" /\ waiting = <<>>
  /\ handlers' = Update(handlers, Collected(loaded))
  /\ at' = "start"
  /\ UNCHANGED <<since, lag, unsuccessful, goals, waiting, loaded>>

-----------------------------------------------------------------------------
(* run_loop *)

\* The first phase from the i-th on that is due; the loop sleeps if none is.
NextDue(i, mins) ==
  LET due == {j \in i..Len(Phases) : mins[Phases[j]] >= Interval[Phases[j]]}
  IN  IF due = {} THEN "asleep" ELSE Phases[Min(due)]

\* Right after the plugins, then after every minute's sleep.
Wake ==
  /\ at \in {"start", "asleep"}
  /\ since' = [p \in PhaseSet |->
                 Minutes(since[p] + lag + (IF at = "asleep" THEN 1 ELSE 0), p)]
  /\ lag' = 0
  /\ at' = NextDue(1, since')
  /\ UNCHANGED <<unsuccessful, goals, plugins>>

Awaiting == PhaseSet \cup {"solving", "remembering"}

\* Models, databases and commands take their time.
MinutePasses ==
  /\ at \in Awaiting /\ lag < MaxLag
  /\ lag' = lag + 1
  /\ UNCHANGED <<at, since, unsuccessful, goals, plugins>>

Done(p) ==
  /\ since' = [since EXCEPT ![p] = 0]
  /\ unsuccessful' = unsuccessful \ {p}
  /\ at' = NextDue(Place(p) + 1, since')

PhaseSucceeds ==
  /\ at \in PhaseSet \ {Solve}
  /\ Done(at)
  /\ UNCHANGED <<lag, goals, plugins>>

PhaseFailsAndSleeps ==
  /\ at \in PhaseSet
  /\ unsuccessful' = unsuccessful \cup {at}
  /\ at' = "asleep"
  /\ UNCHANGED <<since, lag, goals, plugins>>

\* Logged, with its last_... as it was; the phases after it take their turn.
PhaseFails ==
  /\ at \in PhaseSet
  /\ unsuccessful' = unsuccessful \cup {at}
  /\ at' = NextDue(Place(at) + 1, since)
  /\ UNCHANGED <<since, lag, goals, plugins>>

\* solve_self_derived_goals: reflection and context have yielded n goals of
\* high priority, the first of which is being solved.
Goals(n) ==
  /\ goals' = n
  /\ IF n > 0 THEN at' = "solving" /\ UNCHANGED <<since, unsuccessful>> ELSE Done(Solve)

Derive ==
  /\ at = Solve
  /\ \E n \in 0..MaxGoals : Goals(n)
  /\ UNCHANGED <<lag, plugins>>

GoalSolved ==
  /\ at = "solving"
  /\ at' = "remembering"
  /\ UNCHANGED <<since, lag, unsuccessful, goals, plugins>>

\* The goal is remembered; or that, or solving it, raised: its result is an
\* error, and the next goal follows.
GoalEnds ==
  /\ at \in {"solving", "remembering"}
  /\ Goals(goals - 1)
  /\ UNCHANGED <<lag, plugins>>

\* orchestrate --once: run_full_cycle tries consolidation, reflection, learning and
\* push, each in a try of its own, without plugins, clock or goals; the process ends.
RunOnce ==
  /\ at = "once"
  /\ at' = "ended"
  /\ UNCHANGED <<since, lag, unsuccessful, goals, plugins>>

\* Ctrl+C cancels the loop wherever it is, and the process ends.
Interrupt ==
  /\ at' = "ended"
  /\ at # "ended"
  /\ UNCHANGED <<since, lag, unsuccessful, goals, plugins>>

-----------------------------------------------------------------------------

Loading == LoadPlugin \/ RejectPlugin \/ StartEnabling \/ EnablePlugin \/ Register \/ PluginsFail
Phase == PhaseSucceeds \/ PhaseFails \/ Derive \/ GoalSolved \/ GoalEnds

Next == Loading \/ RunOnce \/ Wake \/ MinutePasses \/ Phase \/ Interrupt

Spec == Init /\ [][Next]_vars

\* Every await ends, with a result or an exception (MaxLag bounds it here).
FairSpec == Spec /\ WF_vars(Loading) /\ WF_vars(RunOnce) /\ WF_vars(Wake) /\ WF_vars(Phase)

-----------------------------------------------------------------------------
(* Properties *)

\* Long goals and late wakings do not add up: of a phase that succeeded when it
\* was last tried, that success (the waking that it is recorded with) is never
\* further back, at any moment and so when the phase is tried again, than its
\* interval and twice what the phases of one waking can take: the rest of the
\* waking that came just too early, and its turn in the waking after that.
OverdueBounded ==
  \A p \in PhaseSet \ unsuccessful : since[p] + lag <= Interval[p] + 2 * MaxLag

\* Failing phases starve no other: while the loop runs, each is tried again
\* and again.
PhasesRecur == \A p \in PhaseSet : []<>(at = p \/ at = "ended")

\* Plugins are all or nothing: after one that raises, no handler of any plugin
\* is there; otherwise each action type of a loaded plugin is handled by the
\* plugin that was loaded last of those that provide it.
RegisteredWhole ==
  \/ handlers = <<>>
  \/ /\ DOMAIN handlers = UNION {Provides[g] : g \in Range(loaded)}
     /\ \A i \in 1..Len(loaded) : \A t \in Provides[loaded[i]] :
          \/ handlers[t] = loaded[i]
          \/ \E j \in i + 1..Len(loaded) : t \in Provides[loaded[j]]

=============================================================================
