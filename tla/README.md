# OpenDeepSpace: formal verification

TLA+ specifications of OpenDeepSpace, their TLC configurations, and proofs
checked by TLAPS. Everything is translated from the code (`core/`, `storage/`,
`api/`, `cli/`, `apps/`); where a document disagrees with it, the specification
follows the code and section 4 says so.

```
tlc -workers 2 -config MC_ModelRouter.cfg MC_ModelRouter.tla
tlapm ModelRouterProofs.tla
```

## 1. The system

Three processes. The **Python engine** (asyncio) holds the memory engine, the
orchestrator, the learner and the model router; it is started as an HTTP API
server (`api/server.py`), a gRPC server (`api/grpc_server.py`), an MCP server
(`api/mcp_server.py`) or from the command line (`cli/deepspace.py`). The **core
engine** (NestJS) is the gateway: accounts, chats, collaboration sessions,
plugins, sandbox, all over SQLite; it reaches the Python engine over gRPC.
**Studio web** (Next.js) is the browser client, over REST, SSE and socket.io.

| Component | State it keeps | Operations | Talks to | What is hard | What makes it correct | Module |
|---|---|---|---|---|---|---|
| Model router (`core/model_router.py`) | per provider: healthy, failures, last_checked; the health task | call_with_failover, record_success/failure, health_check, start/stop | every LLM call passes through it | calls and probes interleave at awaits; flags read before a call are old after it | flag and counter agree; a call never asks twice, prefers healthy and heavy ones, ends; unhealthy ones are probed | ModelRouter, FailoverCall |
| Goal solving (`core/orchestrator.py`, `core/agent_executor.py`) | plan, step statuses, report, history; executions table | solve_goal, execute_with_retry, recovery, execution_history | router, executor, memory, store | retries in recoveries, timeouts, cancellation, restarts | dependencies, bounded effort, sound report and histories, it ends | SolvePipeline |
| Engine loop (`Orchestrator.run_loop`, `core/plugin_manager.py`) | last time of each phase; plugins and handlers | phases, self-derived goals, load/enable plugins, run once | memory, learner, proactive, goals | phases fail and hang; one plugin's failure stops the others | no phase starves or falls behind; handlers registered whole | EngineLoop |
| Memory (`core/memory_engine.py`, `storage/pgvector_store.py`) | the memories table | remember, recall, forget, consolidate, deduplicate | LLM, PostgreSQL, Neo4j | snapshots and objects used after LLM awaits | nothing lost whole, rows only rise, promotion happens | MemoryEngine |
| Access to memories (servers, `cli/deepspace.py`) | callers' knowledge, the export file, the import's counts | remember and its errors, export, import | memory | remember fails after saving; retries | who is told has it; copies and counts are explained | MemoryAccess |
| Graph (`storage/neo4j_store.py`) | entities, relations | create, search, infer | memory | concurrent extractions, repeated inference, batches | it only grows; conclusions rest on what was extracted and are drawn | KnowledgeGraph |
| Learner (`core/autonomous_learner.py`), proactive service (`core/proactive_service.py`) | pending_tasks, daily cost; last push, count | check_and_learn; should_push, push | memory, LLM, notifier | one list, one budget and one count, checked before awaits and charged after | bounded overruns, no task dropped, every task learned | Autonomy |
| Live connections (`api/server.py`) | WebSocket list; Socket.IO panels, sessions | broadcast; join, leave, message, execute | solve, LLM | a list iterated over awaits while it changes; updates and counts go to the panels of all sessions | nobody told twice, misses bounded, panels miss nothing of their session | LiveHub |
| MCP server (`api/mcp_server.py`) | stream reader, thread, processes | requests and tools, one a line | memory, graph, orchestrator | a thread feeds what the loop reads | answered in order; only one window loses a wake-up | McpServer |
| Collaboration (`collab/*.ts`, `grpc-client.service.ts`, `CollabPanel.tsx`) | session rows and messages; socket rooms; panel state | plan, execute (socket or SSE), join, delete | gRPC engine, panels | overlapping executions, broken streams, reconnecting panels, restarts | row, panels and executions agree; no chunk lost | CollabSession |
| Agent chat (`agent/*.ts`, `useChat.ts`) | the open stream; messages of a chat | send, stream, abort | gRPC client, tools, traces | abort against late chunks | one answer per message | - |
| Chats, shares, traces (`session/`, `share/`, `trace/`) | SQLite rows | create, rename, delete, share, record | agent chat | delete against a running chat, expiry | no orphan share | - |
| Plugin registry, marketplace, sandbox, tools, auth, templates, notifier, timeline | rows, a child process per call, tokens | adapters | all of them | little state of their own | | - |

## 2. Modules

`PROJECT.json` maps every definition to the lines it stands for. In all modules
one action is the code between two suspension points (an `await` that really
suspends, a queue, a socket), because both runtimes are single-threaded: nothing
else can interleave. The exception is the MCP server, which has a second thread
and is modelled at the grain of what that thread can fall between. Calls to
PostgreSQL through psycopg2 and to SQLite do not suspend. Answers of the language
model are free choices.

Beside some definitions stands a variant of it under a name of its own
(`PromoteFromAnyLayer` beside `Promote`): a plausible bug, not part of any
behaviour. Each property of a passing run was seen to fail with one of them in
the place of the original.

* **FailoverCall** - abstract: what a caller of `call_with_failover` may rely on.
* **ModelRouter** - the router. `Call`, `Resume` are a turn of the attempt loop
  up to the await of `call_fn` (`Turn`, `Picks`); `Succeed`, `Fail` what follows
  it; `CheckRound`, `ProbeAnswers`, `ProbeFails` the health loop with its scan
  (`ScanFrom`). It implements FailoverCall (`KeepsPromise`).
* **SolvePipeline** - `solve_goal` over `execute_with_retry`: `pc` says at which
  await it stands (context, reflection, planning, the commands, the verdicts, the
  lessons) and `job` whether the executor runs the step, a fix or the retry. Solves
  of other requests to the same orchestrator are followed only to their end
  (`SolveBeside`, `FinishBeside`, `LeaveBeside`), which is when they touch the
  histories. Every action type has its action (`RunShell`, `RunPython`, `RunGit`,
  `WriteFile`, `CallApi`, `RunPlugin`). A negative dependency number counts from the
  end of the list, as Python indexes, so it is one of the positions the plans range
  over, unless it lies below -N: then the goal ends with an IndexError
  (`BadDependency`). `ExecutionHistory` is what `execution_history` returns, with
  the read of the database that may fail.
* **EngineLoop** - `deepspace orchestrate`. Time is minutes: `since[p]` is `now -
  last_...` and `lag` what has passed since `now` was read, so a late phase and
  a long goal are in the state. `LoadPlugin` to `Register` are `_load_plugins` over
  PluginManager; `Wake`, `PhaseSucceeds`, `PhaseFails`, `Derive`, `GoalSolved`,
  `GoalEnds` the loop and `solve_self_derived_goals`; `RunOnce` is `--once`.
* **MemoryEngine** - the table `row`/`stored`, the objects `remember` still
  holds (`object`, `tagging`), and per deduplication its copies (`scan`).
* **MemoryAccess** - the same table seen by callers: `call` is a caller's
  `remember` (preparation, tags, graph) with each place it can raise at, `told` and
  `errors` what the caller knows; `Export`, `Parse`, `Import`, `ImportNext` are the
  two commands: the export writes the format of `-f`, the import goes by the suffix
  of the file, which may be another or one it does not support.
* **KnowledgeGraph** - `_extract_and_store_graph` and the inference of
  `consolidate`, one action per call of the Neo4j store; `work[c]` is what client
  c still has to store. Confidences are hundredths, of any size: nothing in the code
  bounds the number that the model answers.
* **Autonomy** - learner and proactive service under concurrent
  `POST /orchestrator/cycle` and `GET /proactive/push` requests. `run_loop`'s
  sequence is the same calls made by one more cycle.
* **LiveHub** - `AppState.broadcast` as Python iterates a list that changes under
  it (by position), with the WebSocket endpoints; and the Socket.IO sessions with
  their counts of panels online. Every `session-updated`, `agent-message` and
  `online-users` reaches every connected panel, of whichever session, as the server
  emits them and the panels take them; `heard` and `counted` keep, for each panel,
  which update it heard last and whose count it shows.
* **McpServer** - `serve_stdio`: the thread's two steps (`Feed`, `FeedWakes`), the
  reader's look and wait (`LineFound`, `NoLine`, `Arm`), the event loop's turn
  (`Resume`, `Sleep`, `Interrupted`, `Hour`), and the requests, with the child processes
  that inherit stdin (`Swallow`) and the answer that cannot be written (`WriteFails`).
* **CollabSession** - one session through all three processes: the engine's
  `SolveStream`, the client's queue, `runSessionStream`, the gateway, the panels.
  `solve_goal` is abstracted to its chunks; that it ends is SolvePipeline's
  `SolveEnds`.
* **MC_*** give the constants for TLC; ***Proofs** hold the theorems.

Modules compose by promises: FailoverCall is what SolvePipeline, MemoryEngine and
Autonomy assume of an LLM call (it ends, with an answer or an error);
SolvePipeline's `SolveEnds` justifies the fairness of the engine's stream in
CollabSession and of `solving` in EngineLoop; EngineLoop's `PhasesRecur`, that
consolidation and learning come again and again in MemoryEngine, KnowledgeGraph
and Autonomy.

## 3. Runs

Distinct states in parentheses.

| Run | Instance | Shows |
|---|---|---|
| router (99,290) | 2 providers of weights 3 and 1, 2 callers, 2 attempts (LLMClient's), threshold 3, health loop starting and stopping | order of selection, bookkeeping, the promise to callers, calls end, probes come |
| solve (400,032) | 3 plans of 3 steps with every action type, 3 modes, dangerous commands refused or held, 2 attempts, 2 goals, one beside the other, windows of 1 | dependencies decide; effort, report and histories are as they should; solves end |
| solve_timeout (about 2,600 to the counterexample) | the same | **violation**: a command that timed out still runs beside its retry |
| memory (283,477) | two scenarios: 2 memories (weak; merged up to a promotion; starting in working), 1 deduplication, windows of 2, crashes; and 3 long-term memories under 2 deduplications | when rows fall; promotion happens, out of both layers; no group lost whole |
| memory_duplicates (about 19,000 to the counterexample) | 3 long-term memories, 1 deduplication | **violation**: a merged duplicate is back |
| access (1,509,610) | 2 users and an import, 2 texts (one looks like a heading), files of any suffix, 2 calls, 4 rows, 1 deletion | ids given out are good; copies, counts and round trips are explained |
| knowledge (587,220) | 4 entities, 4 extractions (one with a confidence of 85, for 85 percent), an extracting client and a consolidation | growth, foundations, conclusions |
| autonomy (103,712) | 2 cycles, 1 push request, 2 tasks, budget 2, 2 pushes a day | overruns, nothing dropped, all learned |
| loop (440,038) | 4 phases, intervals 3, 2, 1 and 4, phases of one waking take up to 2 minutes, 2 plugins | nothing falls behind or starves; handlers whole |
| hub (438,393) | four scenarios: 3 connections and 2 broadcasts; 2 panels and 2 executions in 2 sessions; with a message; with a lost socket | nobody twice, misses bounded, dead ones leave; what panels show of their own session |
| collab (55,764) | 2 socket executions, 1 SSE execution, 1 panel, queues of 2 | row, panel and executions agree, no chunk lost, executions end |
| mcp (634,718) | 3 lines of all ten kinds, read or swallowed, answers that cannot be written | answers in order; one window strands; a busy server loses nothing |

**Why the bounds are enough.** The properties relate at most two concurrent actors
of a kind, and a third brings no new relation: two callers (one that takes a
provider out while the other uses it), two cycles, two broadcasts, two executions.
Two providers and two attempts give a choice, a failover, the last resort of
`get_model` and an attempt that has none; a third provider only adds ties, and what
concerns the choice is proved for any number. Plans of three steps have a chain, a
fan-in, a forward and a self dependency, one past the end and one below -N.
Memories: an importance of 13 starts in working and one of 11 is lifted over the
threshold of `short_term` by a merge with one of 5, so that with two memories both
promotions happen. A group of three copies, over which two deduplications race or a
chain of merges runs, needs three; they are stored as `long_term`, which
consolidation and time leave alone, so nothing else of the second scenario is lost
(MC_MemoryEngine). Budget 2 (0.02) lets two cycles race for the only task of a day;
two pushes a day make the cooldown, the limit and both races for them count. A
history of one record is the smallest window that drops something. Queues of two
chunks hold a chunk behind another. In the graph, four entities make a chain of
three relations, two ways to the same end and a name that two entities bear; with 20
rows a query the limit is never reached, which `ConclusionsDrawn` says in its
comment and section 4 takes up; `GraphOnlyGrows` and `RestsOnExtracted` are proved
for any limit. In the loop the intervals are the default ones scaled down with their
order kept, and two minutes of lag are longer than the shortest of them. With three
connections a removal moves the list under a broadcast that has still two to serve.
The scenarios of MC_LiveHub leave no interaction out: the WebSocket list and the
sessions share no state; statuses and updates, messages and counts are three parts
of a session that meet only in the panels' `at` and `session`, and each scenario has
one of them whole, beside the joins and leaves of two panels that may be of one
session or of two. Three lines: one being handled, one fed meanwhile, one behind it.
*Counters:* `failures` stops at the threshold and `accesses` at 2, since the code
only compares them; `since` stops at `Cap`, above every comparison; `goal`, `calls`,
`created`, `messages`, `ghosts` and `asked` are bounded by MaxGoals, MaxCalls,
MaxRows, MaxMessages, MaxGhosts and MaxRequests; `cost` and `pushes` by the
properties themselves. Where the program really stops (all goals solved, all
executions over, the process ended) deadlock is not checked.

**Fairness.** router: an answer comes or the client's 30 s timeout ends the call,
asyncio wakes sleepers, time passes, the loop's timer fires; callers need not
call, and nothing starts or stops the loop. solve: every await of `solve_goal`
ends (LLM calls and commands have timeouts); clients, cancellation and restarts
are free. memory: `run_loop` consolidates again and again. knowledge: likewise,
and Neo4j stays up in the end; without that nothing can be concluded. autonomy:
requests keep arriving; the steps of learning are strongly fair, that is, a model
asked infinitely often answers sometimes and an idle moment comes sometimes.
loop: every await ends, with a result or an exception, and sleeps end. hub: goals
go on being solved and sends end; endpoints, panels and executions may do
nothing. mcp: the thread and the loop run when they can and a tool ends or is
given up after its 30 s; nothing is assumed of the hour's limit, which nobody
should have to wait for. collab: the core engine drains its queues; the engine's
stream closes in the end (strongly fair, since a full queue of the bounded model
can hold it up for a moment). No fairness is assumed of users, disconnections,
crashes or deletions.

## 4. Disagreements found

With a run of their own:

1. `solve_timeout`: "Timeout enforcement per step" stops waiting for the process
   and leaves it running beside its own retry.
2. `memory_duplicates`: "delete duplicate" - a later pair of the same snapshot
   inserts the deleted memory again.

Stated in a module as a definition that the code does not meet; no
configuration lists them:

* `UnhealthyIsProbed` (ModelRouter): `docs/architecture.md:170` promises automatic
  recovery every 60 s, but the HTTP API server never starts the health checks
  (`HealthChecks = FALSE`).
* `RetriesOriginal` (SolvePipeline): "3. Retry the original step" drops the step's
  action_type, so the retry is always a shell action.
* `FailureIsTold` (CollabSession): a broken engine stream ends as `collab_done` and
  a session marked complete, not as `collab-error`.
* `SuggestedTagsKept` (MemoryAccess): the upsert of `save_memory` does not write tags,
  so "Re-save to persist tags to DB" (`core/memory_engine.py:137`) does not.
* `SleepsOnlyWithoutWork` (McpServer): the reader is fed from a thread with a call that
  is not thread-safe (`api/mcp_server.py:453`), so a line may lie unread while the loop
  sleeps, until something else wakes it.
* `EveryoneTold` (LiveHub): "Broadcast to all connected WebSocket clients" - a removal
  during a send makes the loop skip a connection.

`DeletedForGood` (CollabSession), `RestoredOnlyByProbe` and `TriedOncePerAttempt`
(ModelRouter) hold, and are listed in no run because others cover the same code; the
latter two are proved.

Not met by the code, and not stated as a definition:

* `deepspace import` "Supports files exported by 'deepspace export'"
  (`cli/deepspace.py:1158`), but the export takes its format from `-f` (default json)
  and the import its parser from the file's suffix: `export backup.md` writes JSON, of
  which the import finds 0 sections, and reports "0/0" and no failure.
  `ImportRestores` is therefore about files that are called what they are
  (`CalledWhatItIs`).
* The server emits `session-updated`, `agent-message` and `online-users` to the
  whole `/collab` namespace (`api/server.py:111,123,143,162,191`), and no handler of
  the panel compares the session (`CollabPanel.tsx:41-51`,
  `use-collab-socket.ts:110-113`). With two sessions, a panel takes over the other's
  status, shows its messages among its own, and shows its count. `PanelsCurrent` and
  `NobodyUncounted` are therefore about panels that heard of their own session last
  (`HeardLast`, `counted`), and about messages not missing. A panel that joins again
  keeps a status it heard before (`wsStatus || session.status`) until the next
  update.
* The safety check reads the command of shell steps only
  (`core/agent_executor.py:210`): python and git steps reach the shell behind it
  (344-358), dangerous or not. That a shell step which it refuses is not launched is
  the check itself, so no property restates it.

Seen while reading:

* *Goals.* The lesson of every goal is tagged "pending" because it is stored before
  the outcome is known; dependents of a step that a recovery repaired are
  skipped; skipped steps do not count against "success"; the goal's mode does not
  reach the executor, which uses the configured one; `APPROVAL_REQUIRED` results go to
  the verifier, which may pass them. `execution_history` says it merges database
  and memory and returns one of them, the memory's (of this process only) without a
  word when reading fails, newest first, of which its callers take
  `[-limit:]`, the oldest. `deepspace solve` shows one plan and then has `solve_goal`
  make another; auto-solve derives goals twice.
* *Memory.* The late save with suggested tags writes the object made before the
  model was asked: it undoes recalls, promotions and merges of that time, and a
  deletion (`RowsOnlyRise` leaves these times out). A deduplication can delete or
  demote long-term memories, which `docs/architecture.md:45` calls never deleted;
  `get_by_layer`'s limit of 500 hides older memories from promotion; the vector
  search of `recall` ignores tags and the keyword search `min_importance`;
  `save_project_context` overwrites `key_files` with its default; a confidence that
  the model gives above 1 is stored as it is, and lets conclusions become premises
  of others; an entity's description is that of its last mention, however unsure;
  inferences that are drawn but too weak to be stored come back in every query and
  may use up its 20 rows.
* *Proactive.* `_push_count_today` is never reset, so pushes stop for good after the
  daily limit, and two service objects, each with a limit and a cooldown of its own,
  allow twice the limit. A task of the learner that fails again and again keeps the
  head of the queue.
* *gRPC server.* The mode is passed as a string although `solve_goal` reads
  `mode.value`; Remember and Recall look layers up by attribute name; Recall with
  a memory type passes a string on which both searches fail; a failed `solve_goal` is
  streamed as a "done" chunk; Interact's tool path builds an ActionStep without a
  step number and always fails.
* *HTTP server.* Its plugin manager never reaches the orchestrator's executor; a
  Socket.IO disconnection tells nobody the new count, and messages posted over HTTP
  are broadcast to nobody. `run_loop` only runs from the command line.
* *MCP server.* `code_run` unlinks its file while a process that timed out still
  runs it; the memory tools call coroutines without awaiting them; unknown
  notifications are answered with an error although the docstring
  (`api/mcp_server.py:165`) says None; a line that is JSON but no object, or too
  long, ends the server.
* *Panels.* A panel that misses `collab-done` keeps its button disabled; a restart
  leaves sessions "executing"; SSE executions are not broadcast and go on when their
  client leaves; in the chat, chunks of an aborted answer may reach a new chat.

## 5. Theorems

Proved for every value of the constants, from the named assumptions on them
(finite sets of callers, limits that are naturals), with no other assumption.

* **ModelRouterProofs.** `TypeCorrect` and `RotationSafe` are inductive together:
  the counter reaches the threshold only in `RecordFailure`, which clears the
  flag, and `ProbeAnswers`, which sets the flag, clears the counter.
  `NoProviderTwice` needs in its invariant that `Picks` only offers providers
  outside `tried`, and the cardinality of `tried` follows the attempts. From it
  `Refinement`: each action maps to one of FailoverCall or a stutter; `Ask` is
  allowed because the cardinality is the attempt, which is at most MaxRetries.
  `SelectionOrder`, `GivesUpLast` (a call gives up only when `Picks` offers
  nothing or the attempts are used up) and `RestoredByProbe` are action properties.
* **SolvePipelineProofs.** One invariant, `IInv`, follows the loop. `Progressed`:
  every step behind the cursor is completed, failed or skipped, skipped exactly
  when its dependencies (`Met`) did not complete before it; every step beyond it is
  pending; and the one at the cursor, while it is worked on, is `Met`. `Reported`:
  the report's entries are in order, behind the cursor, and complete. `Effort`:
  what the current job may have launched so far, by round of `execute_with_retry`
  (`Rounds(k)`): the bound alone is not inductive, since it must know which job
  runs and how many recoveries were spent. From it `CommandsAreBounded`,
  `DependenciesRule` and `ReportsAreSound`, for every plan. `CommandsAreBounded`
  says (max_retries + 1) * 3 launches of a step: its own round and one after each of
  two recoveries, nine with the defaults. `HistoriesAreSound` (invariant `Filed`): a
  record is of a goal that is over, and none is filed twice (`InHand`, `Over`), so that
  whichever of several solves ends first, appending keeps the order of the ends, and
  cutting a history to its window keeps the last record; what a reader is shown is
  one of the two histories, by whether the read fails and finds anything.
  `TypeCorrect` adds what configures a solve (`Configured`).
* **AutonomyProofs.** The budget bound is not inductive alone: a task between
  check and charge counts, so the invariant is about cost *plus* tasks in
  flight. `TakeTask` adds one to the second only when the first still
  allows it, and whoever else is in flight is one of the other cycles. The
  same argument bounds pushes (`PushesSafe`) and pushes between cooldowns
  (`CooldownSafe`, where the invariant separates a cooling service from one
  that is not). `NothingIsDropped` is an action property; `AutonomyTypes` the types.
* **MemoryEngineProofs.** `CoveredBySurvivor` speaks of every group of lost
  memories and is not inductive. The invariant is that a lost memory was the
  second of a merged pair (`LostWasMerged`); pairs are ordered (a type), so the
  least memory of a group was merged under one outside it (`LeastIsCovered`,
  over the well-foundedness of the naturals). It holds however many
  deduplications run and whatever else interleaves. `RisesWhenQuiet` needs that
  whatever is stored, awaits tags or is compared was created (`Known`), so that
  `Remember` never meets a row that is there. `MemoryTypes` are the types.
* **StoreProofs** (what is stored of memories: KnowledgeGraph, MemoryAccess).
  `ConclusionsRest` has two parts. Whatever the model answers, an inferred
  relation leads where extracted ones of its type lead (`Connected`): paths are
  joined, and `GrowsOnly` keeps them. As long as all extracted confidences are between
  0 and 1 (`Sane`, a condition of the property and not an assumption), conclusions never
  become premises, which is arithmetic (`Weakening`): a conclusion has at most 70
  hundredths, and one that reaches the 50 it takes to be stored has premises above
  70, which were therefore extracted. The invariant says this of the relations and of
  what clients still carry (`RowsFit`). `GraphTypes` bounds no confidence.
  Of the callers, `Recorded` says whose call is at which step and whose row it has
  saved; with it `ToldMeansStored` is inductive, whatever fails after the save.
  `CopiesAreExplained` pays for every row of a user with an error told or with
  the answer that is due (`Wanted`), and a save that raises turns the second into the
  first. `ImportsAreSound` follows an import through its file: what was taken
  from the queue (`QueueIsRest`) is brought, pending or counted as a failure
  (`ImportCounted`, `ReadIsBrought`), for each text and layer, so that at the
  end nothing the parser returned is missing. Its condition is that the file is called
  what it is, and of Markdown it speaks of the texts that the parser does not cut.
* **EngineLoopProofs.** `NothingFallsBehind` needs that what the loop has passed in
  this waking is not due (`Passed`): it was not when the loop came to it
  (`NextDueIsFirst`) or has just succeeded. Then a waking finds a phase that
  succeeded overdue by at most the work of the waking before (at most MaxLag), and
  the phases before it in its own waking take at most MaxLag again: the property
  bounds the whole wait, `since[p] + lag`. `HandlersAreWhole`: nothing is registered
  before all plugins are enabled (`Registering`), and when it is, plugin after
  plugin overwrites what was there. `LoopTypes` are the types.
* **CollabSessionProofs.** `PanelsAgree` and `NobodyLeftExecuting` share an invariant:
  a panel that believes an execution runs and missed no broadcast has one over
  sockets to thank for it (`BusyHearsTheEnd`), so the end of that execution reaches it.
  `QueuesAreRead` is an action property. `CollabTypes` counts: a summary is written by
  an execution that is done with it, so there are never more (`Summarised`).
* **ServerProofs** (the two servers of one event loop each: McpServer, LiveHub).
  `StrandedOnlyInTheGap`: a task that waits has a waiter for the thread to complete,
  or is queued already (`HandOver`). `AnswersAreInOrder`: the answers are exactly
  those due to the lines the task is done with (`Handled`, `Given`), at each place
  it can be, with a tool given up as with one that ends. `BroadcastsKeepToTheList`:
  a broadcast has sent to exactly as many as its position says, all different, and
  to none still before it (`CastSound`); a connection that it misses has slid into
  the part it has passed, where only departures make room (`RoomForMisses`).
  `PanelsStayCurrent` and `EveryPanelIsCounted`, for any sessions (invariant
  `Audience`): whoever is counted is connected, hence told of every change; the last
  update of a session carries its status (`Recorded`), so a panel that heard it last
  shows it; and a count only falls without being told. `ServerTypes`, `HubTypes`.

Four definitions compute by recursion over data: what an export and its parser
return (`Newest`, `Cut`), the handlers of all plugins (`Collected`), and the list
without a connection (`Without`). They are recursive functions over a length, and
what the proofs need of them is shown by going to the least length at which it
would fail (over `WFMin`, as in `Upwards`), which takes no induction rule. Two
pairs of components share a module of theorems; to be stated side by side, one of
each pair prefixes its specification (`HubSpec`, `AccessSpec`).

Only model-checked: liveness (`CallsEnd`, `ProbedOnceQuiet`, `SolveEnds`,
`PromotedEventually`, `ConclusionsDrawn`, `TasksLearned`, `PhasesRecur`,
`DeadLeaveTheList`, `ExecutionsEnd`, `BusyLosesNothing`), since fairness and ENABLED are
out of the prover's reach. Every invariant and every action property of a
passing run is proved, and the type invariant of every module that has one.

## 6. Not modelled

* *Agent chat* (`useChat.ts`, `sse-client.ts`, `agent.controller.ts`,
  `agent.service.ts`, `interactStream`, Interact and InteractStream of the engine): a
  second streaming pipeline beside the collaboration's, the first thing to model
  next: abort, failure and late chunks, against "each message gets one answer, whole
  or marked incomplete".
* *Chat sessions, sharing, traces, marketplace, plugin registry*: one SQL statement a
  request, over rows nothing else in the modelled parts reads.
* *Sandbox and agent tools*: a child process per call with a timeout, as in the MCP
  server, whose tools are modelled.
* *Of the modelled components*: `dispatch` and the agents only it reaches, project
  contexts and statistics, ranking of searches, `merge_entities` and
  `delete_entity` (nothing calls them), disabling and unloading plugins, read-only
  handlers, the CLI commands that only print, typing indicators.
* *Output and adapters* (notifier, timeline, templates, rendering), authentication
  (libraries), contents of texts, embeddings, the generated protobuf code.
* *Environment:* other processes that write the same database, a last line on stdin
  without a newline, descriptions of entities (the query overwrites them,
  `storage/neo4j_store.py:127-128`), the filter on enabled plugins of
  `core/plugin_manager.py:279` (always true where the loop gets to it).
* `record_success` and `record_failure` hold a lock over no await; it excludes
  nothing and is left out.
