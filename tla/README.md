# CodeFleet: a TLA+ verification project

CodeFleet runs a fleet of coding agents over a backlog. A human and the planning agents turn release
plans into a backlog of *epics*; a manager process, `codefleet fleetctl up`, hands each epic to a
developer agent, then to a polisher, then to a reviewer, and runs the acceptance tests once everything
is done. All state lives in files under `.codefleet/`, which several processes read and write without
locks; a supervisor starts such fleets for several repositories, and a browser watches one. The
modules here model that state and those processes, TLC checks them on small instances, and TLAPS
proves the main safety results for instances of every size.

Paths below are relative to `src/src/` (the user interface's to `src/ui/src/`); line numbers are those
of `PROJECT.json`, whose `map` names the lines every definition stands for.

## 1. Inventory

| Component | State | Operations | Hard behaviour | What makes it correct |
|---|---|---|---|---|
| Event queue (`domain/events/agent-event-queue-service.ts`) | per agent: `pending/`, `processing/`, `done/`, `failed/` directories of JSON files | `enqueueToRunningAgents`: resolve a ready event to an epic, find the first running agent of the role, skip if it has that type in flight, write | look and write are separate steps of four enqueuers (consume loop, poller, `trigger`, a committed plan) | no duplicate event, no lost follow-up |
| Queue worker (`agent-event-queue-worker-service.ts`) | the file in hand | list, claim by rename, dispatch, move to done or failed | a listing goes stale; a crash leaves a file in `processing/` | what is in hand is on disk, in one hand |
| Manager (`cli/commands/fleetctl.ts`) | phase of the process, pid file | preflight reset, queue recovery, `service.up`, automatic recovery, consume loop, poller, shutdown; `down`, `restart` | crash between any two steps; a shutdown while runs and emissions go on; two managers; recovery infers the lost step from old files | every epic is delivered, one manager serves |
| Backlog poller (`events/watchers/backlog-poller.ts`) | timer | probe for ready epics, publish; probe for the acceptance run, publish | probe and resolution are two reads; ticks can overlap | ready epics and unrun tests are always offered again |
| Role definitions (`domain/fleet/agent-role-definitions.ts`) | table | which role takes which event and what its success emits | order of the stages | reviewed only after polishing |
| Fleet service (`domain/fleet/fleet-service.ts`) | `agents.json`, session file | `up`, `down`, `dispatchAgentEvent`, `status` | `down` runs beside a dispatch | a stopped fleet says so and leaves no child |
| App-server client (`infra/appserver/app-server-client.ts`) | connections, pending requests, completed turns | handshake, request, turn, notification, timeout, finalize, kill | late answers, exits at any step, bounded cache | every waiter is answered once, with its own answer |
| Agent runtimes and output (`infra/agent-runtime/`, `cli/logging/fleet-agent-event-log.ts`) | stream blocks, chain of log appends | map, suppress, show, persist what agents report | three filters over two runtimes' names; failing appends | the log is what was shown; the end of a named turn is shown |
| Backlog service (`domain/backlog/backlog-service.ts`) | `items.json`, `change-logs.jsonl` | add, update, delete of epics, items, questions; claim; two resets; guarded list | read-modify-write of whole files by many processes; crash between file and log | a sound file, a guard that lets readers through |
| Acceptance tests (`domain/acceptance/acceptance-test-service.ts`) | `spec.json` (cache), `results/*.json` | add, update, delete, add result, heal, bulk update | two files, ids from what is left | the cache never runs ahead of the results |
| Process registry, API lifecycle (`domain/fleet/local-process-registry.ts`, `api/mcp/fleet-api-server-lifecycle.ts`) | one entry file per process, in a directory all fleets share | register, heartbeat, unregister, discover and prune | heartbeat against removal | a serving fleet is found |
| Planning (`agents/release-plan.ts`, `agents/tools/`, `domain/source-brief/`) | draft, release plans, source brief | edit and commit a draft, publish it, derive brief, tests and backlog | file and event are two writes; texts grow stale along the chain | no plan is lost, the backlog follows the plans |
| Documents (`domain/documents/document-service.ts`, routes of `api/mcp/server.ts`) | document files, actor by path, bus | list, checked write, watch | walks, polls and announcements interleave | a watcher ends up with what is on disk |
| Observability and API server (`api/mcp/server.ts`, `domain/**/*-observability-service.ts`) | cursors of each connection | fleet watch, status, endpoints | streams end, cursors start anew | what is delivered is complete |
| Board and console, conversation pane (`components/Board.tsx`, `components/ThreadPane.tsx`) | React state and refs | watch, refresh; select, send, stop, load, poll | answers out of order, effects that restart | the screen ends up true |
| Supervisor (`cli/commands/supervisor.ts`) | live children | `up`, `down`, `status`, signals | signals reach children twice; ports change hands | status is true, nothing is left running |
| Role tools (`cli/commands/role-tools.ts`) | none | decisions, results, upserts | composite commands | decisions obey the transition table |

**How they interact.** The poller and the consume loop run in the manager's event loop and interleave
at every `await`; so does the API server, in which the front desk commits release plans. All of them,
and `codefleet trigger` from a shell, put files into the same queue directories. The consume loop
claims an epic in the backlog before it dispatches, and writes its new status afterwards; while a run
lasts, the agent itself calls the command-line tools, which are other processes on the same files. A
dispatch goes through the fleet service to a runtime, which talks to a child process (Codex) or reads
an SDK stream (Claude); what these report goes to the console and the log files. A restart sees only
files: queue directories, backlog, `agents.json`, pid file, registry. The browser holds one watch
stream to the manager's API server and asks again whenever it is told of a change.

The hazards of this code, each at its line and with the properties that would catch it, are listed in
`PROJECT.json` under `hazards`.

## 2. Modules

| Module | What it is |
|---|---|
| `FleetEvents` | Vocabulary: events, roles, `serializedRoleByEventType`, `emitEvent`, epic statuses and their transition table. |
| `EpicGate` | Abstract specification: what the delivery pipeline promises about epic statuses, without queues, agents or processes. |
| `FleetPipeline`, `MCFleetPipeline` | The core: queue, worker, manager, poller, operator, crash and restart; its instances. |
| `Planning`, `MCPlanning` | From draft to backlog: release plans, brief, tests, over the same queue and worker. |
| `ManagerLifecycle` | Several managers: `up`, `down`, `restart`, pid file, queue files in hand, registry. |
| `AgentSessions` | One manager inside: `up`, `down` and dispatches over the app-server client and the Claude runtime. |
| `AgentOutput` | Extends `AgentSessions` with what the agents report, how it is mapped and filtered, and the log files. |
| `BacklogStore`, `MCBacklogStore` | `items.json` and `change-logs.jsonl` shared by several processes. |
| `AcceptanceTests` | `spec.json` and the results beside it. |
| `FleetWatch` | Backlog, agents and logs through the API server's watch to the board and the console. |
| `Documents` | Document files, their editors, and the watching connections. |
| `ThreadPane` | The conversation pane: loads, polls and runs against one server. |
| `FleetSupervisor` | `supervisor` and `fleetctl status` over several fleets and their API ports. |
| `FleetPipelineProofs`, `FleetDeliveryProofs`, `PlanningProofs`, `ManagerLifecycleProofs`, `AgentOutputProofs`, `BacklogStoreProofs`, `AcceptanceTestsProofs`, `FleetSupervisorProofs` | Theorems about the modules they extend; `EpicGate`'s is in `FleetPipelineProofs`, those of `AgentSessions` in `AgentOutputProofs`, and `FleetDeliveryProofs` goes on from `FleetPipelineProofs`. |

Every component has a model of its own at the grain its properties need, and sees the others as
something coarser: the pipeline sees a run as success or failure, which `AgentSessions` takes apart; it
treats a backlog operation as one step, which `BacklogStore` takes apart; it has one manager at a time,
which `ManagerLifecycle` justifies for operators who wait. `AgentOutput` is composed with
`AgentSessions` by conjoining its steps with those of the dispatch.

### FleetPipeline and the code

Epics and agents are numbers in the order of their ids, the order in which the code scans them; the
queue directories are sequences in ULID order. One action is what happens between two `await`s that
touch shared files.

- **Start.** `Preflight` (`runFleetUpPreflight`), `RecoverStaleQueueProcessingFiles`, `BringUp`
  (`FleetService.up`: each agent may fail to prepare if it is flaky), `AutoRecover` /
  `AutoRecoverWrite` (`runFleetStartupAutoRecovery`: epics in progress or in review, one after the
  other, the event inferred from terminal polish and review files), `Serve`.
- **Stop.** `Signal`, `DownSaved`, `Exit` are the graceful shutdown, with the consume loop going on
  beside it until `process.exit`; `Crash` ends the process anywhere.
- **Consume.** `BeginPass`, `Visit` (listing of at most `QueueConsumeMax` files), `ClaimFile`,
  `PrepareDispatch` (claims the epic of an implementation event or drops the message),
  `DispatchSucceeds` / `DispatchFails` (with the forced `finalizeEpicExecutionStatus`),
  `EmitFollowUp` / `EmitWrite`, `MoveToDone` / `MoveToFailed`. While a run lasts, `ReviewerDecides`
  and `GatekeeperRecords` are what the agent's own command-line calls do.
- **Enqueue** is two steps for every enqueuer: `DecideEnqueue` computes what `enqueueToRunningAgents`
  will write from what it reads, `WriteQueueFile` writes it.
- **Poll** is the tick's two probes; **Trigger** is the operator's command.

Three variables are not in the code: `polished` (history), `decided` (whether the run in hand has
executed its mandatory command) and `budget` (what the bounds leave). `clock` stands for `createdAt`.

### Planning and the code

A conversation edits a draft and commits it (`release-plan-agent-tools.ts`): the plan file is emptied
and written (`OpenPlan`, `WritePlan`; it is named by the second, so that two commits of one second share
it) and published as an event; the
Curator's run makes it the source brief, text and metadata being two files (`SaveMarkdown`,
`SaveMetadata`), the Gatekeeper's run derives the tests, the Orchestrator's the backlog, each emitting
the next event. `desk`, `intent` and `hand` are where a commit, an enqueue and the consume loop stand.
A Curator that finds no text in its plan saves no brief and fails (`FindNoPlan`).
The API server lives in the manager's process from bring-up on, so a stop or crash takes a
conversation with it. Startup recovery knows nothing of these events: after a crash the file in
`processing/` is consumed again, and after a graceful stop in the middle of the chain the run in hand
has failed and the chain ends there. `lost` and `stale` name the plans and texts the code does lose
(section 7), so that the properties say that it loses nothing else.

### ManagerLifecycle and the code

A process per pid: started in the foreground or detached, looking at the pid file, removing a stale
one, recovering the queue, starting the API server, recording agents, writing the pid file, serving,
stopping, exiting; the command processes `up`, `down` and `restart` with their bounded wait
(`WaitForProcessExit`, which may give up once per unit of `MaxSlow`). `handling` says which managers
have the queue file in hand, `entry` and `beating` the registry entry and a heartbeat between its read
and its write, `lookup` a `discover()` between finding an old entry and removing it. Pids may be
reused. `PatientOperator` says that nobody gives `up` while another start is under way (section 7
says what happens otherwise). `Exit` joins the removal of the pid file with `process.exit`.

### AgentSessions, AgentOutput and the code

Per Codex agent a child with its input and output lines (external), a connection with `pending`,
`waiters` and the completion cache; per Claude agent a query. `StartAgent` to `SaveUp` is
`FleetService.up`, `ReadStatus` to `FinishDispatch` a dispatch, `BeginDown` to `SaveDown` the
`down` that may run beside it. Every request and turn may time out, and children may exit, refuse,
ask for approval, stay silent or ignore SIGTERM. The cache's bound stands for 256; it must exceed the
turns in flight, which is one per agent.

`AgentOutput` gives every report its event (`MapAppServerNotification`, `MapClaudeMessage`), decides
whether it is suppressed and in what form it is shown, and follows each shown line to the agent's
file through the chain of appends. A report is reduced to the head of its message and a text; whether
the console is verbose and what was last said are left open at every event, which allows more than the
code. Lines are numbered from the moment the chain was last empty. The lines about agent states that
`up` and `status` print are left out.

### BacklogStore and the code

An operation of `BacklogService` is a set-valued operator: the contents a successful call may leave,
given the contents it read, empty where every call is refused. A process reads (`ReadItems`; or finds
no file, and saves an empty one: `FindNoItems`, `InitializeItems`), holds the changed contents in
memory, saves the whole file (`SaveItems`), computes the entry's id from the log
(`NextChangeLogId`) and appends (`AppendChangeLog`). Any read that fails is taken for a missing file
(`FailToRead`, counted with the crashes), and the empty backlog then replaces what is there. `PassGuard` and `ListItems` are the guarded
wait-implementation list. `Crash` is possible in between. The guard's comparison of modification
times is the Boolean `itemsNewer`: set by a save, cleared by an append. It assumes that the file
system's timestamps grow with every write; with coarser timestamps the guard passes more often.

### AcceptanceTests and the code

A caller reads the spec, saves it, or for a result numbers it, saves it, then saves the cache
(`SaveCache`), or rebuilds the cache from the results when that save fails (`Reload`, `Heal`).
`clearAllData` removes spec and results one file after the other, in any order (`RemoveSpec`,
`RemoveResult`, `AllRemoved`), and a process may end or another look in between; a read of the spec may
fail in every operation, at `Reload` too (`ReadFails`).
`byHand`, `behind`, `retired` and `torn` are notes: statuses were set by `updateLastExecutionStatusAll`, a
process ended half-way, an id was deleted before, a removal has begun. `Overlap` allows callers to run beside each other;
then two results get one id, one overwrites the other, and `CacheBacked` fails, in spite of the comment
at `acceptance-test-service.ts:169-170`. The fleet has one Gatekeeper, whose commands follow each other.

### FleetWatch and the code

`backlog`, `activity` and `lines` are what the other components write; `server` is one connection's
watches of `api/mcp/server.ts` with their cursors, `wire` the stream, `board` and `console` the state
of `Board.tsx`, `request` its refreshes. `Connect` starts the three watches and sends their snapshots
in one step, and a view of the activity is read in one step; heartbeats are left out. A watch that
fails stays dead until the stream is opened again, which is what the code does. `missed` is set where
the code itself leaves a gap (section 7).

### Documents and the code

Tree and index are walked file by file (`ListTree`, `BuildTreeNodes`, `ListIndex`, `WalkFile`), polls
overlap each other and the snapshot's walk, a save compares, renames, names its actor, reads back and
replies in separate steps. Versions are fresh numbers, as hashes of different contents are. `OtherPoll`
is a change published by another connection's poll. The client is external: it opens what it is shown.
`gap` names the documents about which the code leaves a watcher without news (section 7).

### ThreadPane and the code

`pane` is the component's state and refs, `draft` the streamed answer, `history` what it remembers
per run, `loads` the requests under way, answered in any order; `wire` is a run's stream. A user
message and its answer are one entry, a conversation has one run at a time, and the server is external.
`draft` stands for the state and the ref, which the code keeps equal up to one render.

### FleetSupervisor and the code

A fleet is its manager's phase, API port, registry entry and `agents.json` record; `children` are the
foreground supervisor's, `query` the progress of a `status` command per fleet (discover, probe a
candidate's endpoints, ask for status, else read the files). `alive` and `steady` observe what was true
while it ran. The pid file and the signal handlers come with the record (`Serve`); `discover` is one
step. `Clones` are fleets with one git remote, whose project ids are equal.

## 3. Runs

| Run | Module, instance | What it asks |
|---|---|---|
| `delivery` | `MCFleetPipeline`: 2 independent epics, 4 agents, 2 developer failures, 2 reworks, no stop | Do all epics get delivered and the tests run, in the order of the stages, without duplicate events? |
| `restarts` | `MCFleetPipeline`: 1 epic, 4 agents, 2 crashes or shutdowns at any step, 1 failure, 1 rework, reset confirmed | Is the epic still delivered, and nothing in hand lost? |
| `operator` | `MCFleetPipeline`: 2 epics, one with a frontend stage, 5 agents, one of them flaky; runs that ignore their prompts, one stop, one event triggered by hand | Does implementation stay serialized, does the pipeline implement `EpicGate`, and is an epic in review forgotten only in the ways named? |
| `planning` | `MCPlanning`: 1 conversation, 3 agents, 2 seconds, 2 texts, 2 commits, 1 crash, stop or failed run, 1 command by hand | Does every plan reach the backlog? |
| `lifecycle` | `ManagerLifecycle`: 3 pids, 3 commands, 1 crash, Ctrl-C or reused pid, 1 wait that gives up | Is the serving manager always the one the files name, and does `down` bring the fleet to rest? |
| `sessions` | `AgentOutput`: 1 Codex and 1 Claude agent, 2 dispatches, 2 faults, 2 followed log lines, cache of 2 | Are waits answered, ends shown, logs kept, and does `down` complete? |
| `backlog` | `MCBacklogStore`: 2 processes, a fresh or an earlier backlog, 2 operations of any kind, 1 crash or failed read | Does the file stay sound, and is a guarded reader served? |
| `acceptance` | `AcceptanceTests`: 2 callers in turn, 5 operations, 2 tests, 2 results, 1 fault | Does the cache follow the results? |
| `watch` | `FleetWatch`: 1 agent, 2 changes, 2 faults | Do board and console catch up? |
| `documents` | `Documents`: 1 document, editor and watcher, 3 writes, 2 timer polls that may overlap, 1 foreign announcement | Is an open connection told the truth in the end? |
| `thread` | `ThreadPane`: 2 conversations, 2 runs, 1 delta each, 3 user actions, 1 fault | Does the pane settle? |
| `supervisor` | `FleetSupervisor`: 2 fleets, 2 ports, 3 commands or signals, 1 fault | Is the status true, one Ctrl-C graceful, nothing left running? |

**Bounds.** Queues are not bounded by the model: `OneInFlight` keeps them at one event of a kind per
agent where it holds, and the budget of triggers and stops does in `operator`. Two epics are enough to
have one hold the gate while another is ready, to have a dependency and to have two events of a kind;
one more epic only adds another bystander. Every role has one agent, as in the default fleet, because
serialized events go to the first running agent of the role. Two stops allow a crash during the
recovery from a crash. In `operator` no run fails of itself: runs fail there through a shutdown or for
want of an epic, and failures while serving are in `delivery` and `restarts`; the four properties of
`operator` are also proved without bounds.
In `backlog` two concurrent operations make every race of a read with a write; the earlier backlog (two
epics, an item, a question) is what makes deletions, id reuse and resets interesting. In `planning` two
commits within two seconds allow both a shared file and a second plan while the first is on its way.
In `lifecycle` three pids let an old and a new manager and a command live at once. In `sessions` one
agent of each kind is enough, agents share nothing but `down` and the session file; two dispatches
give a late answer a successor to confuse, two faults a timeout with an exit. In `acceptance` five
operations are add, result, delete, add again and a result or repair. In `watch`, `thread` and
`documents` two changes, runs or versions are what can be delivered in the wrong order, and every kind
of fault is one the budget may be spent on. Two polls of one connection are the overlap that matters
in `documents`: the older walk may end last. It starts without a document and its editor names no actor, for that
changes no announcement's contents. Two fleets let one take over the other's port.

`CHECK_DEADLOCK FALSE`: commands, changes and faults are bounded, and a fleet that has delivered, a
pane that has settled, a stopped manager or an unused file may rest.

## 4. Properties

- `Serialized`, `GateRefined`: at most one epic in progress or in review; every status change of the
  pipeline is one `EpicGate` allows, although finalization bypasses the transition table with `force`.
- `ClaimHeld`: the reason the forced finalization is safe.
- `HandoffHeld`: no step of a serving fleet, after shutdowns, crashes, startup recovery and hand-made
  events too, leaves an epic in review without the event that takes it further, on file or in hand,
  except in three ways: another epic's event of these stages is in flight (`OthersInFlight`), nobody
  runs that could be told (`NobodyToTell`), its own run ended undecided (`RunEndedUndecided`).
- `OneInFlight`: no agent ever has two events of a kind, although deciding and writing are separate
  (without hand triggers: the operator's process can race the manager's).
- `PolishedBeforeReview`, `DecisionPossible`: the stages follow each other; a review can decide.
- `InHandOnDisk`: what a crash interrupts is found by the next start.
- `Delivered`, `TestsRun`: every epic is delivered, and then the tests are run.
- `PlanKept`, `PlansReachBacklog`: no plan is dropped unaccounted; brief, tests and backlog follow the
  plans in the end, except what `lost` and `stale` name.
- `Reachable`, `HandledOnce`, `DownStops`, `EndpointKept`: the serving manager is the one the pid file
  and `agents.json` name; a queue file is in one hand; `down --all` leads to rest; the registry finds
  the server again.
- `OwnTurn`, `WaitJustified`, `Settles`, `DownCompletes`: answers reach their own request, no wait is
  lost and every one ends, a completed `down` leaves no child and a status that stays "stopped".
- `OutputLogged`, `EndsShown`: a log file holds the shown lines in order up to a tail; the end of
  a named turn that lets a Codex dispatch succeed is shown.
- `NoDanglingItem`, `UniqueIds`, `HistoryChained`, `RetryServed`: the backlog file is sound whatever
  interleaves, and "retry later" is honest when nobody crashes and no read fails.
- `CacheBacked`, `CacheCurrent`: cached statuses have a result behind them, and follow the latest, except
  after statuses were set by hand and once `clearAllData` has begun to remove the files (`torn`).
- `BoardCatchesUp`, `ConsoleCatchesUp`, `WatchCatchesUp`, `PaneSettles`: what is shown or announced
  ends up true, except in the gaps the modules name.
- `StatusIsTrue`, `OnePressIsGraceful`, `ChildrenEnd`: what `supervisor status` prints is true of each
  fleet; one Ctrl-C lets every manager shut down; none is left.

Every property has a mutant in `PROJECT.json`: a plausible bug in one mapped definition that TLC finds
with it. The mutated forms (`HasPendingEvent`, `IsReady`, `DeleteAnyEpic`, `CountedId`, ...) stand
next to the definitions they replace and are used nowhere else. The modules `AgentSessions`,
`FleetWatch`, `ThreadPane`, `Documents`, `Planning` and `FleetSupervisor` define a `TypeOK` that
documents their state; the runs leave it out in favour of properties about behaviour.

## 5. Fairness

Weak fairness stands for a live event loop: promise continuations run, timers fire, processes that
were started go on. Nothing obliges an operator, a user, a child process or an editor to do anything,
and no fault has to happen.

- `FleetPipeline!FairSpec`: `Start` (the operator starts a fleet that has stopped, and a starting
  manager goes on), `DownSaved \/ Exit` (every step of a shutdown is bounded by a timeout or an exit),
  `Consume` and `Poll` (a run ends, because the runtimes settle or time out). `Planning` assumes the
  same, and that a commit whose process lives is ended.
- `ManagerLifecycle!FairSpec`: each process's start and stop steps, and heartbeats.
- `AgentSessions!Fairness`: the manager's steps and the two timers of each connection. The child need
  never answer, end or exit, and no assumption is made about Claude queries, which have no timer:
  `Settles` is about Codex dispatches, `up` and `down`.
- `BacklogStore!FairSpec`: a process goes on with the operation it has begun and a refused list is
  tried again, not that anybody begins a change. `RetryServed` holds because changes are bounded:
  writers that never pause can keep a reader out.
- `FleetWatch`, `ThreadPane`: polls and requests end, streams deliver, a reconnect follows its pause.
- `Documents`: the connection's polls are started and end, and the client opens what it is shown; editors
  and the snapshot may stop anywhere.
- `FleetSupervisor!FairSpec`: managers and the supervisor's handler go on.

## 6. Proofs

Every invariant a run checks, and the refinement of `EpicGate`, is a theorem for all values of the
constants, under the assumptions the modules name and the further ones of this table. TLC checks the
invariant under it or on a larger set of behaviours.

| Theorems | Further assumption | Why |
|---|---|---|
| `ManagerReachable`, `FileHandledOnce` | `PatientOperator` | Two `up -d` at once do start two managers (section 7). |
| `EventsInFlightOnce` | no hand-triggered events | The operator's process can race the manager's. |
| `PolishPrecedesReview`, `ReviewerCanDecide`, `UninterruptedNeverForgets` | `Uninterrupted`: no stop, no hand trigger, no frontend stage | With them an epic may be reviewed unpolished, already decided or forgotten (section 7). Agents may fail, stay down or disobey, reviewers may send back. |
| `UninterruptedNeverForgets` | also `Favourable`: agents come up and obey, polish and review runs succeed and have their agents | A reviewer that fails, is missing or decides nothing leaves the epic in review. Developer runs may fail. |
| `StatusesAreBacked`, `CacheIsCurrent` | `Alone`: callers do not overlap | Two results that overlap can leave the status of the one that was overwritten. |
| `WaitsAreJustified` | the behaviour never fills `completedTurnKeys` (`CacheNotFull`) | The code forgets the oldest ends when it is full: a wait for one would only end by its timer. |
| `DownLeavesNoChild`, `StatusReportIsTrue` | there is an agent, a fleet | A fleet without agents is summarized as running; `supervisor.ts:179` refuses a config without fleets. |

`PlanningBounds`, `ChatsAssumption` and the typing assumptions of the other modules only say what kind
of thing a constant is: that there is a second to commit in, that a conversation is not called as the
manager's or the operator's process is.

How the arguments go:

- **Gate.** `GateIsExclusive`: `GateExclusive` is inductive for `EpicGate` with its type.
- **Pipeline.** `TypeCorrect`: each action keeps the type, one lemma per group of actions. `InHandIsOnDisk`:
  with types, `InHandOnDisk` is inductive once strengthened to `HandInv` (an idle loop has nothing in
  processing; a message in hand is exactly the contents of its directory). `ClaimIsHeld` needs both:
  only the consume loop changes statuses while the manager serves, and its run holds the claim; the
  strengthening `FullInv` conjoins type, hand and claim. `PipelineImplementsGate`: every step is a
  step of the gate or a stutter (`GateStep`, action by action; finalization needs `ClaimHeld`, which
  turns a forced write into `Submit` or `GiveUp`). `ImplementationSerialized`: from the same invariant,
  the claim's check being made on the statuses themselves.
- **Events in flight** (`EventsInFlightOnce`). The queues alone do not show it, since an enqueuer looks
  in one step and writes in another. `Lanes` adds that what two enqueuers have decided but not written
  goes to different types of event: the poller writes only the two types it makes, the worker only the
  one its message emits. `DecidedOnce` adds that what an enqueuer has decided is a single file, of a type
  its agent has not in flight. With the types and `HandInv` these are inductive over every action,
  crashes and recovery included.
- **Handoff** (`ReviewNotForgotten`, without further assumption). `HandoffHeld` is about steps, so the
  invariant `TraceInv` has to say which step may take the handoff away. `Traced` follows it over the
  steps of a recovery and of a follow-up: an epic in review has still to be visited by recovery, or its
  file is decided on, written or excused (`RecoveryTraced`); what is in hand while it emits has a
  follow-up (`FollowsUp`), which is decided on for the same epic, written or excused
  (`FollowUpTraced`); and it is there or excused when the polisher's file leaves (`PolishTraced`). Enqueues
  and writes only add files, so that what takes the last one away is a run of the epic that ends.
- **Review** (`UninterruptedNeverForgets`, `PolishPrecedesReview`, `ReviewerCanDecide`). `Course` follows the one
  epic in review: at most one waiting file asks for a polish or a review and it is due (`OneWaiting`);
  a run in hand is then the only one (`ReviewInHand`); a successful stage writes the next file, or none if
  nobody is there to take it (`FollowUpInHand`); and in a favourable fleet no epic in review is without
  one of these (`Carried`). It rests on `Serialized`,
  since a second epic in review would make the follow-up of one drop that of the other, and on
  `LaneInv`.
- **Planning** (`NoPlanIsForgotten`). `OnItsWay` says where the latest text of each plan is: with a
  conversation that has still to publish it, as an event in a queue, in hand before the brief is read,
  being saved, curated or lost. `Addressed` (an event lies only with subscribers), `InHand` (the claimed
  file is the only one being processed and was listed) and `Publishing` (a conversation's remaining
  writes are its own plan's) make it inductive: the in-flight check drops an event only when another one
  of the same plan is still to be read.
- **Managers.** `ManagerReachable` and `FileHandledOnce`: the inductive invariant says where a process
  may be while another one starts, serves or stops (with an operator who waits at most one does), that
  the pid file is the serving manager's from its writing to its exit, and that only a process which
  serves or stops has the file in hand.
- **Sessions.** `TurnsInv` ties what a connection holds to its only caller: at most one entry is
  outstanding, and it is the caller's latest request or its turn (`Owed`, `OwnRequest`). From it
  `DispatchesFollowTheirTurn` and, with `AllRemembered`, `WaitsAreJustified`. `DownInv` follows `down`
  through its agents: a running child without a connection is the one that was just sent SIGTERM.
- **Output.** `OutputKeepsSessions` shows that `AgentOutput` only adds to `AgentSessions`. `TurnEndsAreShown`
  comes from `HeardTold` (what was read was shown) and from a lemma that the mapped end of a turn
  passes every filter in either mode. `FilesKeepTheOrder`: `Sound` relates file, queue, failures and
  the number of lines shown.
- **Backlog.** `SoundInv` is the invariant: the file *and every process's copy* are sound. It is needed
  because a save overwrites the file with a copy made earlier, so soundness of the file alone is not
  inductive. `OperationSound` takes sound contents to sound contents, one lemma per operation;
  `NextIdFresh` shows that a new id is unused, `AppendChained` that recording a change extends the
  chain. From it `StoreTypeCorrect`, `ItemsKeepTheirEpic`, `IdsStayUnique`, `HistoryExplainsStatus`.
- **Tests.** `TestsTyped` holds for overlapping callers too: every copy of the spec is in the order of its
  ids (`Ascending`), and a result about to be saved has a number (`Prepared`). For the statuses `AtWork` relates the copy and the unsaved result of the caller at work to the files: the
  result is later than all on file, its number higher, and the copy differs in that test only. `Ready`
  and `CacheTrue` say how much of the cache may be relied on at each step; `ResultFacts` that the latest
  result is the last one made, which a removal of results part-way keeps of those that are left
  (`FewerFacts`: every test with results has a latest, for they are finitely many).
- **Supervisor.** `OneCtrlCIsGraceful`: `Requested` (a signal is under way only to a manager that was asked
  to stop) and `Armed` (once the second signal counts, none of the first press is left, or there was a
  second request). `StatusReportIsTrue`: `PortsHeld` (a port is one manager's), `Heard` (a target answered
  for the project) and `Found` (the port of an undisturbed fleet stays among the candidates until it
  is the target).

**Only model-checked** is what needs fairness, which is outside TLAPS's reach: `Delivered`, `TestsRun`,
`PlansReachBacklog`, `DownStops`, `EndpointKept`, `Settles`, `RetryServed`, `BoardCatchesUp`,
`ConsoleCatchesUp`, `WatchCatchesUp`, `PaneSettles` and `ChildrenEnd`. So `FleetWatch`, `Documents` and
`ThreadPane`, which promise that something ends up true, have no theorem. Without
`Alone`, `StatusesAreBacked` and `CacheIsCurrent` would be false: TLC finds both violated with `Overlap = TRUE`.

## 7. What the model shows beyond the properties

Where the code promises less than one might expect, the properties' preconditions and the history
variables named below say so; most items were found by runs that lacked them.

**Delivery.** With two epics of which one waits for the other and one stop, an epic in review is forgotten:
its follow-up is dropped because the same type of event is in flight for the other
(`agent-event-queue-service.ts:103`); the next startup recovery finds the epic again. `HandoffHeld` names
this as `OthersInFlight`. Without the
confirmed preflight reset an interrupted implementation is never resumed: startup recovery queues its
event, and the claim refuses it because the epic itself holds the gate (`fleetctl.ts:1349`, `1485`).
After a stop during a rework, recovery may infer "polished" from the first round's file and send the
epic to review unpolished (`fleetctl.ts:1492`). An epic with a frontend stage reaches a review that can
take no decision, because nothing moves it to in-review after `frontend.completed` (`fleetctl.ts:1374`,
`role-tools.ts:741`, `766`). A failed polish or review run leaves its epic in review until a restart
(`RunEndedUndecided`), as does a stage whose agent does not run (`NobodyToTell`).

**Managers.** Two `up -d` given while the first still starts both pass the check, and the first to end
removes the other's pid file (`fleetctl.ts:1866`, `391-393`, `400`). A crashed manager's execution
records stay "running" (`fleetctl.ts:1040-1085`).

**Sessions and output.** A write to a child that has just exited ends the manager with an unhandled
EPIPE (`app-server-client.ts:512`). A Claude query that `down` closes counts as a success. A lost
update of the session file leaves "ready" sessions behind, which the status computation happens to
tolerate (`DownCompletes`). The notice that an approval was declined automatically is neither shown
nor logged in the default mode, since its text is in no list of allowed messages, although a comment
of `codex-app-server-runtime.ts` expects it to be visible; `stream_event` and `item/completed` in the
suppression list match no name the runtimes use. A sentence that is said twice in a row is shown once.
`process.exit` cuts off queued lines.

**Backlog and tests.** Of two concurrent changes one is lost, and two processes that both find no
`items.json` may wipe what the faster one has already saved; a read of it that fails for any other reason
empties the file too (`json-repository.ts:15-19`). The guard compares modification times
only, so that an interrupted change is forgotten as soon as another one is logged
(`backlog-service.ts:729-732`, `stable-snapshot-guard.ts:20-23`), although the comment there says that
reads stay blocked. A deleted test's id is given again and the new test can inherit old results.
`clearAllData` removes file by file, so that a crash in between does leave partial state, passed statuses
without results among it (`torn`), although the comment at `acceptance-test-service.ts:192-193` says it
resets "without leaving partial state behind".

**Planning.** `lost` names: a plan overwritten or left empty by a commit of the same second, a publication that finds
no running agent, a process that ends between file and event, a Curator run that fails (nothing
repeats it). `stale` names: a failed Gatekeeper or Orchestrator run, a follow-up that finds nobody
running, a brief saved by hand and never announced. An update dropped as in flight does harm only when
the run in hand has already read the older text. Plans may be queued in another order than committed,
and the two files of a brief may come from two savers. A test upsert repeated after a crash updates by
id and attaches nothing to epics (`role-tools.ts:510`).

**Watching.** The board ignores `backlog.snapshot` after a reconnect, so a change in the 1200 ms gap,
or while the dashboard is opened or closed (`Board.tsx:374`), is missed until the next one; `missed`
marks it. A failed watch is not restarted on its stream; log lines come again after a reconnect;
overlapping refreshes may show the older answer last, and a failed one is not repeated; agents that
are removed stay until the next stream; a changed current task is not reported. A document watcher may
miss a document that tree and index disagree about at the snapshot (`server.ts:459`), one removed and
created between polls, anything between a failed snapshot and the first poll, and may be told of an
older version by a late poll (`server.ts:468`); `gap` names them. Two savers with one base version
both succeed (`document-service.ts:149`, `157`), and a save's reply may be another writer's version
(`server.ts:414`).

**Conversation pane.** A load that was overtaken shows another conversation (`ThreadPane.tsx:1205`); a
finished one clears another run's draft (`1209`); stopping during the final load (`1482`, `1513`) or a
failed final load (`1213-1217`) leaves stale state; reasoning items can be shared or doubled (`969`,
`1168`); `1459` restores a cleared draft. `gap` and `Garbled` mark them until the user selects again.

**Supervisor.** Two clones of a repository share a project id and can answer for each other (`Clones`).
The second request of a status is not checked against the project, so a port that changes hands in
between reports the other fleet. After a crash `agents.json` still says running, so that the next
bring-up is reported as running early; after a clean stop it says "stopped" while the API is up; a late
heartbeat makes a healthy fleet "degraded". A graceful Ctrl-C is reported as failed, for the children
exit with 130 or 143. The 250 ms before a second signal forces is assumed longer than forwarding takes.

## 8. Not modelled, and the plan

- Proofs of the safety part of the watchers' and the pane's promises (what `missed` and `gap` leave
  out is all that can be stale at rest), for which state predicates are still to be found.
- Overlapping poller ticks and the router's duplicate suppression (per process, in memory).
- Execution records and their closing after a crash; the Playwright server's process.
- `fleetctl status`'s switching of the user interface's endpoint, and a fleet directory that is missing.

Left out for good: the agents' reasoning and hooks (external programs), prompts' wording, the front
desk's conversation, read-only views, argument parsing and rendering, generated protocol types, the
rest of the user interface. The conversion of backlog files written by older versions, notes, titles
and links to acceptance tests are data no property here tells apart.
