----------------------------- MODULE FleetPipeline -----------------------------
(***************************************************************************)
(* The core of CodeFleet: per-agent queues of event files, the manager     *)
(* process that consumes them, claims epics, dispatches agents, moves epic *)
(* statuses and queues the follow-up event, the backlog poller beside it,  *)
(* the operator's `codefleet trigger', and what survives a crash or a      *)
(* shutdown: the queue directories, the backlog, agents.json.              *)
(*                                                                         *)
(* Epics and agents are numbers in the order of their ids, the order in    *)
(* which the code scans them.  One action is one step between two awaits   *)
(* that touch shared files.                                                *)
(***************************************************************************)
EXTENDS FleetEvents, Sequences, FiniteSets

CONSTANTS
    Epics,             \* epic ids; 0 stands for an event without epicId
    Frontend,          \* the epics whose developmentScopes include "frontend"
    DependsOn,         \* DependsOn[e]: visibility.dependsOnEpicIds of e
    Agents,            \* agent ids
    Role,              \* Role[a]: the role of agent a
    FlakyAgents,       \* agents whose prepareAgent may fail at `up'
    FailingEvents,     \* events whose agent run may fail
    AgentsObeyPrompts, \* TRUE: a run performs the command its prompt makes mandatory
    ConfirmsReset,     \* TRUE: the operator confirms the preflight reset; FALSE: no terminal
    TriggerEvents,     \* events the operator may trigger by hand
    QueueConsumeMax,   \* DEFAULT_QUEUE_CONSUME_MAX, files taken per visit
    MaxFailures,       \* bound: failed agent runs
    MaxReworks,        \* bound: changes-requested decisions
    MaxStops,          \* bound: crashes and shutdowns of the manager
    MaxTriggers        \* bound: operator triggers

NoEpic == 0

ASSUME EpicsAssumption == Epics \subseteq Nat \ {NoEpic}
ASSUME AgentsAssumption == Agents \subseteq Nat \ {0} /\ Role \in [Agents -> AgentRole]
ASSUME ScopesAssumption == Frontend \subseteq Epics /\ DependsOn \in [Epics -> SUBSET Epics]
ASSUME SetsAssumption == /\ FlakyAgents \subseteq Agents
                         /\ FailingEvents \subseteq EventType
                         /\ TriggerEvents \subseteq EventType
ASSUME FlagsAssumption == AgentsObeyPrompts \in BOOLEAN /\ ConfirmsReset \in BOOLEAN
ASSUME BoundsAssumption == /\ QueueConsumeMax \in Nat \ {0}
                           /\ MaxFailures \in Nat /\ MaxReworks \in Nat
                           /\ MaxStops \in Nat /\ MaxTriggers \in Nat

VARIABLES
    epicStatus,   \* backlog items.json: the status of each epic
    testsNotRun,  \* acceptance spec: some test has lastExecutionStatus "not-run"
    pending,      \* pending[a]: the files of a's pending directory, by ULID
    processing,   \* processing[a]: the files of a's processing directory
    terminal,     \* polish and review files in done and failed directories
    running,      \* agents.json: the agents with status "running"
    manager,      \* phase of the manager process
    recovery,     \* epics startup recovery has still to re-enqueue
    pass,         \* agents the consume loop has still to visit
    agent,        \* the agent being visited
    batch,        \* files of this visit's listing not yet consumed
    stage,        \* where the handling of the current file stands
    message,      \* the message in hand
    decided,      \* the run in hand performed its mandatory command
    intent,       \* intent[p]: file writes enqueuer p has decided on
    poll,         \* phase of the poller's tick
    polished,     \* history: epics polished since they were last claimed
    clock,        \* createdAt of the next polish or review message
    budget        \* what the bounds leave

queueVars    == <<pending, processing, terminal>>
consumerVars == <<pass, agent, batch, stage, message, decided>>
vars == <<epicStatus, testsNotRun, polished, queueVars, running, manager, recovery, consumerVars,
          intent, poll, clock, budget>>

Enqueuer == {"manager", "poller", "operator"}
EpicId   == Epics \cup {NoEpic}
Message  == [type : EventType, epicId : EpicId, createdAt : Nat]
Intent   == [agent : Agents, type : EventType, epicId : EpicId]
Terminal == [type : ReviewStageEvent, epicId : EpicId, createdAt : Nat, queueState : {"done", "failed"}]
Phase    == {"off", "starting", "bringing-up", "recovering", "serving", "stopping", "exiting"}
Stage    == {"idle", "claiming", "claimed", "dispatching", "emitting", "enqueuing", "finishing", "rejecting"}
NoMessage == [type |-> AcceptanceRequired, epicId |-> NoEpic, createdAt |-> 0]

TypeOK ==
    /\ epicStatus \in [Epics -> EpicStatus]
    /\ testsNotRun \in BOOLEAN
    /\ pending \in [Agents -> Seq(Message)]
    /\ processing \in [Agents -> Seq(Message)]
    /\ terminal \subseteq Terminal
    /\ running \subseteq Agents
    /\ manager \in Phase
    /\ recovery \subseteq Epics
    /\ pass \subseteq Agents
    /\ agent \in Agents \cup {0}
    /\ batch \in Nat
    /\ stage \in Stage
    /\ stage # "idle" => agent \in Agents
    /\ message \in Message
    /\ decided \in BOOLEAN
    /\ intent \in [Enqueuer -> SUBSET Intent]
    /\ poll \in {"idle", "probed"}
    /\ polished \subseteq Epics
    /\ clock \in Nat
    /\ budget \in [{"failures", "reworks", "stops", "triggers"} -> Nat]

--------------------------------------------------------------------------------
(* Reads shared by the actions. *)

\* The element of S that a scan in id order finds first, if there is one.
Foremost(S) == {x \in S : \A y \in S : x <= y}
Least(m, n) == IF m <= n THEN m ELSE n
Files(s) == {s[i] : i \in DOMAIN s}
Up == manager \in {"serving", "stopping", "exiting"}
Spend(what) == budget[what] > 0 /\ budget' = [budget EXCEPT ![what] = @ - 1]

IsVisible(e) == \A d \in DependsOn[e] : epicStatus[d] = "done"
ReadyEpics == {e \in Epics : epicStatus[e] \in ReadyStatus /\ IsVisible(e)}
PeekNextReadyEpic == Foremost(ReadyEpics)
HasActiveOrReviewingEpic == \E e \in Epics : epicStatus[e] \in ActiveStatus
AllEpicsDone == Epics # {} /\ \A e \in Epics : epicStatus[e] = "done"

\* A ready event is resolved to an epic, and to the frontend stage if the epic has one.
ResolveQueueEvent(type, epicId) ==
    LET candidates == IF epicId # NoEpic THEN {epicId} ELSE PeekNextReadyEpic
    IN  IF type = EpicReady /\ candidates # {}
        THEN {[type |-> IF e \in Frontend THEN EpicFrontendReady ELSE EpicReady, epicId |-> e] : e \in candidates}
        ELSE {[type |-> type, epicId |-> epicId]}

HasPendingEvent(a, type) == \E m \in Files(pending[a]) : m.type = type
HasInFlightEvent(a, type) ==
    \E m \in Files(pending[a]) \cup Files(processing[a]) : m.type = type

FirstRunningAgent(type) == Foremost({a \in running : Role[a] = SerializedRole[type]})

\* The first running agent of the event's role, unless it has the same kind of event in flight.
ResolveTargetAgents(type) == {a \in FirstRunningAgent(type) : ~HasInFlightEvent(a, type)}

\* First half of enqueueToRunningAgents: everything it reads, up to the files it will write.
DecideEnqueue(p, type, epicId) ==
    \E event \in ResolveQueueEvent(type, epicId) :
        intent' = [intent EXCEPT ![p] =
            {[agent |-> a, type |-> event.type, epicId |-> event.epicId] :
                a \in ResolveTargetAgents(event.type)}]

\* Second half: one new pending file for each target.
WriteQueueFile(p) ==
    \E i \in intent[p] :
        /\ pending' = [pending EXCEPT ![i.agent] = Append(@,
               [type |-> i.type, epicId |-> i.epicId,
                createdAt |-> IF i.type \in ReviewStageEvent THEN clock ELSE 0])]
        /\ clock' = IF i.type \in ReviewStageEvent THEN clock + 1 ELSE clock
        /\ intent' = [intent EXCEPT ![p] = @ \ {i}]

--------------------------------------------------------------------------------
(* Starting and stopping the manager process. *)

Init ==
    /\ epicStatus = [e \in Epics |-> "todo"]
    /\ testsNotRun = TRUE
    /\ pending = [a \in Agents |-> <<>>]
    /\ processing = [a \in Agents |-> <<>>]
    /\ terminal = {}
    /\ running = {}
    /\ manager = "off"
    /\ recovery = {}
    /\ pass = {} /\ agent = 0 /\ batch = 0
    /\ stage = "idle" /\ message = NoMessage /\ decided = FALSE
    /\ intent = [p \in Enqueuer |-> {}]
    /\ poll = "idle"
    /\ polished = {}
    /\ clock = 1
    /\ budget = [failures |-> MaxFailures, reworks |-> MaxReworks,
                 stops |-> MaxStops, triggers |-> MaxTriggers]

KeepInterruptedEpics == epicStatus' = epicStatus
ResetInProgressToTodo ==
    epicStatus' = [e \in Epics |-> IF epicStatus[e] = "in-progress" THEN "todo" ELSE epicStatus[e]]

\* up: the preflight puts interrupted epics back to todo if the operator confirms;
\* without a terminal it reports them and goes on.
Preflight ==
    /\ manager = "off"
    /\ manager' = "starting"
    /\ IF ConfirmsReset THEN ResetInProgressToTodo ELSE UNCHANGED epicStatus
    /\ UNCHANGED <<testsNotRun, polished, queueVars, running, recovery, consumerVars, intent, poll, clock, budget>>

LeaveProcessingFiles ==
    /\ manager = "starting"
    /\ manager' = "bringing-up"
    /\ UNCHANGED <<epicStatus, testsNotRun, polished, queueVars, running, recovery, consumerVars,
                   intent, poll, clock, budget>>

\* Files a dead manager left in processing go back to pending; their names sort first.
RecoverStaleQueueProcessingFiles ==
    /\ manager = "starting"
    /\ manager' = "bringing-up"
    /\ pending' = [a \in Agents |-> processing[a] \o pending[a]]
    /\ processing' = [a \in Agents |-> <<>>]
    /\ UNCHANGED <<epicStatus, testsNotRun, polished, terminal, running, recovery, consumerVars,
                   intent, poll, clock, budget>>

InProgressEpics == {e \in Epics : epicStatus[e] = "in-progress"}
Recoverable == {e \in Epics : epicStatus[e] \in ActiveStatus}

\* FleetService.up, then the listing startup recovery works from.
BringUp ==
    /\ manager = "bringing-up"
    /\ manager' = "recovering"
    /\ \E failed \in SUBSET FlakyAgents : running' = Agents \ failed
    /\ recovery' = Recoverable
    /\ UNCHANGED <<epicStatus, testsNotRun, polished, queueVars, consumerVars, intent, poll, clock, budget>>

LatestTerminal(e) ==
    CHOOSE t \in terminal : /\ t.epicId = e
                            /\ \A u \in terminal : u.epicId = e => u.createdAt <= t.createdAt

\* What startup recovery infers from the status and the latest polish or review file.
RecoveryEventType(e) ==
    CASE epicStatus[e] = "in-progress" -> EpicReady
      [] epicStatus[e] # "in-progress" /\ ~(\E t \in terminal : t.epicId = e) -> EpicPolishReady
      [] OTHER -> IF \/ LatestTerminal(e).type = EpicReviewReady
                     \/ LatestTerminal(e).queueState = "done"
                  THEN EpicReviewReady ELSE EpicPolishReady

\* One turn of runFleetStartupAutoRecovery's loop: decide, then write.
AutoRecover ==
    /\ manager = "recovering" /\ recovery # {} /\ intent["manager"] = {}
    /\ \E e \in Foremost(recovery) :
           /\ recovery' = recovery \ {e}
           /\ DecideEnqueue("manager", RecoveryEventType(e), e)
    /\ UNCHANGED <<epicStatus, testsNotRun, polished, queueVars, running, manager, consumerVars, poll, clock, budget>>

AutoRecoverWrite ==
    /\ manager = "recovering"
    /\ WriteQueueFile("manager")
    /\ UNCHANGED <<epicStatus, testsNotRun, polished, processing, terminal, running, manager, recovery,
                   consumerVars, poll, budget>>

Serve ==
    /\ manager = "recovering" /\ recovery = {} /\ intent["manager"] = {}
    /\ manager' = "serving"
    /\ UNCHANGED <<epicStatus, testsNotRun, polished, queueVars, running, recovery, consumerVars,
                   intent, poll, clock, budget>>

\* What ends with the process: its loops, its listing, the writes it had decided on.
ProcessEnds ==
    /\ manager' = "off"
    /\ recovery' = {}
    /\ pass' = {} /\ agent' = 0 /\ batch' = 0
    /\ stage' = "idle" /\ message' = NoMessage /\ decided' = FALSE
    /\ intent' = [intent EXCEPT !["manager"] = {}, !["poller"] = {}]
    /\ poll' = "idle"

\* A crash, a second signal (force_exit) or a power loss.  agents.json keeps its entries.
Crash ==
    /\ manager # "off"
    /\ Spend("stops")
    /\ ProcessEnds
    /\ UNCHANGED <<epicStatus, testsNotRun, polished, queueVars, running, clock>>

\* First signal: service.down begins; the loops keep running beside it.
Signal ==
    /\ manager = "serving"
    /\ Spend("stops")
    /\ manager' = "stopping"
    /\ UNCHANGED <<epicStatus, testsNotRun, polished, queueVars, running, recovery, consumerVars,
                   intent, poll, clock>>

\* down has shut every agent down and saves agents.json.
DownSaved ==
    /\ manager = "stopping"
    /\ manager' = "exiting"
    /\ running' = {}
    /\ UNCHANGED <<epicStatus, testsNotRun, polished, queueVars, recovery, consumerVars,
                   intent, poll, clock, budget>>

Exit ==
    /\ manager = "exiting"
    /\ ProcessEnds
    /\ UNCHANGED <<epicStatus, testsNotRun, polished, queueVars, running, clock, budget>>

--------------------------------------------------------------------------------
(* The consume loop: one visit per running agent, one file at a time. *)

BeginPass ==
    /\ Up /\ manager # "exiting"
    /\ stage = "idle" /\ pass = {} /\ running # {}
    /\ pass' = running
    /\ UNCHANGED <<epicStatus, testsNotRun, polished, queueVars, running, manager, recovery, agent, batch,
                   stage, message, decided, intent, poll, clock, budget>>

\* consume: list the pending files, at most QueueConsumeMax of them.
Visit ==
    /\ Up /\ stage = "idle" /\ pass # {}
    /\ \E a \in Foremost(pass) :
           /\ pass' = pass \ {a}
           /\ agent' = a
           /\ batch' = Least(Len(pending[a]), QueueConsumeMax)
           /\ stage' = IF pending[a] # <<>> THEN "claiming" ELSE "idle"
    /\ UNCHANGED <<epicStatus, testsNotRun, polished, queueVars, running, manager, recovery, message, decided,
                   intent, poll, clock, budget>>

\* claimPendingFile: rename the file to processing.
ClaimFile ==
    /\ Up /\ stage = "claiming" /\ pending[agent] # <<>>
    /\ stage' = "claimed"
    /\ message' = Head(pending[agent])
    /\ pending' = [pending EXCEPT ![agent] = Tail(@)]
    /\ processing' = [processing EXCEPT ![agent] = Append(@, Head(pending[agent]))]
    /\ decided' = FALSE
    /\ UNCHANGED <<epicStatus, testsNotRun, polished, terminal, running, manager, recovery, pass, agent, batch,
                   intent, poll, clock, budget>>

IsClaim == message.type \in ImplementationEvent /\ message.epicId # NoEpic

IsReady(e) == e \in ReadyEpics

\* claimEpicForImplementation returns the epic exactly then.
CanClaim(e) == ~HasActiveOrReviewingEpic /\ e \in ReadyEpics

MoveTodoEpic(e) ==
    epicStatus' = [epicStatus EXCEPT ![e] = IF @ = "todo" THEN "in-progress" ELSE @]
Claim(e) == epicStatus' = [epicStatus EXCEPT ![e] = "in-progress"]

\* prepareDispatchMessage: an implementation message claims its epic or is dropped as done.
PrepareDispatch ==
    /\ Up /\ stage = "claimed"
    /\ LET dropped == IsClaim /\ ~CanClaim(message.epicId)
       IN  /\ stage' = IF dropped THEN "finishing" ELSE "dispatching"
           /\ IF IsClaim /\ ~dropped THEN Claim(message.epicId) ELSE UNCHANGED epicStatus
           /\ polished' = IF IsClaim /\ ~dropped THEN polished \ {message.epicId} ELSE polished
    /\ UNCHANGED <<testsNotRun, queueVars, running, manager, recovery, pass, agent, batch, message,
                   decided, intent, poll, clock, budget>>

\* The prompt template of every epic event needs an epicId; without one the run fails.
CanRun == message.type \in EpicEvent => message.epicId # NoEpic

\* What `codefleet-reviewer-tools decision' accepts for e: it does not force the transition.
Verdicts(e) == {v \in {"done", "changes-requested"} : ValidTransition(epicStatus[e], v)}

\* The reviewer runs the command while it is dispatched.
ReviewerDecides ==
    /\ stage = "dispatching" /\ message.type = EpicReviewReady /\ CanRun /\ ~decided
    /\ \E verdict \in Verdicts(message.epicId) :
           /\ epicStatus' = [epicStatus EXCEPT ![message.epicId] = verdict]
           /\ IF verdict = "changes-requested" /\ epicStatus[message.epicId] = "in-review"
              THEN Spend("reworks") ELSE UNCHANGED budget
    /\ decided' = TRUE
    /\ UNCHANGED <<testsNotRun, polished, queueVars, running, manager, recovery, pass, agent, batch, stage,
                   message, intent, poll, clock>>

\* codefleet-gatekeeper-tools result save, for every test of the run.
GatekeeperRecords ==
    /\ stage = "dispatching" /\ message.type = AcceptanceRequired /\ ~decided
    /\ testsNotRun' = FALSE
    /\ decided' = TRUE
    /\ UNCHANGED <<epicStatus, polished, queueVars, running, manager, recovery, pass, agent, batch, stage,
                   message, intent, poll, clock, budget>>

\* A reviewer whose decision the tool refuses ends its run without one.
MandatoryCommandDone ==
    AgentsObeyPrompts => /\ message.type = AcceptanceRequired => decided
                         /\ message.type = EpicReviewReady /\ Verdicts(message.epicId) # {} => decided

FinalizeFailureOnly(failed) ==
    epicStatus' = IF ~IsClaim \/ ~failed THEN epicStatus ELSE [epicStatus EXCEPT ![message.epicId] = "failed"]
FinalizeEveryEvent(failed) ==
    epicStatus' = IF message.epicId = NoEpic THEN epicStatus
                  ELSE [epicStatus EXCEPT ![message.epicId] = IF failed THEN "failed" ELSE "in-review"]

\* finalizeEpicExecutionStatus, forced past the transition table.
FinalizeEpic(failed) ==
    epicStatus' = IF ~IsClaim THEN epicStatus
                  ELSE [epicStatus EXCEPT ![message.epicId] =
                          IF failed THEN "failed"
                          ELSE IF message.type = EpicFrontendReady THEN "in-progress" ELSE "in-review"]

DispatchSucceeds ==
    /\ Up /\ stage = "dispatching" /\ CanRun /\ MandatoryCommandDone
    /\ FinalizeEpic(FALSE)
    /\ polished' = IF message.type = EpicPolishReady THEN polished \cup {message.epicId} ELSE polished
    /\ stage' = IF EmitEvent[message.type] = NoEvent THEN "finishing" ELSE "emitting"
    /\ UNCHANGED <<testsNotRun, queueVars, running, manager, recovery, pass, agent, batch, message,
                   decided, intent, poll, clock, budget>>

\* The run fails of itself, or because down has shut its agent down, or for want of an epicId.
DispatchFails ==
    /\ Up /\ stage = "dispatching"
    /\ \/ CanRun /\ manager = "serving" /\ message.type \in FailingEvents /\ Spend("failures")
       \/ (~CanRun \/ manager # "serving") /\ UNCHANGED budget
    /\ FinalizeEpic(TRUE)
    /\ stage' = "rejecting"
    /\ UNCHANGED <<testsNotRun, polished, queueVars, running, manager, recovery, pass, agent, batch, message,
                   decided, intent, poll, clock>>

\* The follow-up event, for the same epic: decide, then write.
EmitFollowUp ==
    /\ Up /\ stage = "emitting"
    /\ DecideEnqueue("manager", EmitEvent[message.type], message.epicId)
    /\ stage' = "enqueuing"
    /\ UNCHANGED <<epicStatus, testsNotRun, polished, queueVars, running, manager, recovery, pass, agent, batch,
                   message, decided, poll, clock, budget>>

EmitWrite ==
    /\ Up /\ stage = "enqueuing"
    /\ \/ intent["manager"] = {} /\ UNCHANGED <<pending, clock, intent>>
       \/ WriteQueueFile("manager")
    /\ stage' = "finishing"
    /\ UNCHANGED <<epicStatus, testsNotRun, polished, processing, terminal, running, manager, recovery, pass,
                   agent, batch, message, decided, poll, budget>>

ClaimOneMore == IF batch > 0 THEN "claiming" ELSE "idle"
NextOfListing == IF batch > 1 THEN "claiming" ELSE "idle"

\* The file leaves processing for done or failed, and the visit goes on with its listing.
MoveToTerminal(queueState) ==
    /\ processing' = [processing EXCEPT ![agent] = SubSeq(@, 1, Len(@) - 1)]
    /\ terminal' = IF message.type \in ReviewStageEvent
                   THEN terminal \cup {[type |-> message.type, epicId |-> message.epicId,
                                        createdAt |-> message.createdAt, queueState |-> queueState]}
                   ELSE terminal
    /\ batch' = batch - 1
    /\ stage' = NextOfListing
    /\ message' = NoMessage
    /\ decided' = FALSE
    /\ UNCHANGED <<epicStatus, testsNotRun, polished, pending, running, manager, recovery, pass, agent,
                   intent, poll, clock, budget>>

MoveToDone   == Up /\ stage = "finishing" /\ MoveToTerminal("done")
MoveToFailed == Up /\ stage = "rejecting" /\ MoveToTerminal("failed")

--------------------------------------------------------------------------------
(* BacklogPoller's tick, and `codefleet trigger' from another process. *)

Polling == manager \in {"serving", "stopping"} /\ poll = "idle" /\ intent["poller"] = {}

\* hasReadyEpic, a read of its own before the event is published.
PollProbe ==
    /\ Polling /\ ReadyEpics # {}
    /\ poll' = "probed"
    /\ UNCHANGED <<epicStatus, testsNotRun, polished, queueVars, running, manager, recovery, consumerVars,
                   intent, clock, budget>>

PollReady ==
    /\ Up /\ poll = "probed"
    /\ DecideEnqueue("poller", EpicReady, NoEpic)
    /\ poll' = "idle"
    /\ UNCHANGED <<epicStatus, testsNotRun, polished, queueVars, running, manager, recovery, consumerVars,
                   clock, budget>>

AskedOnlyWithReadyEpics == ReadyEpics # {} /\ AllEpicsDone /\ testsNotRun
IsAcceptanceTestRunRequired == AllEpicsDone /\ testsNotRun

\* The second probe of the tick, then publish.
PollAcceptance ==
    /\ Polling /\ IsAcceptanceTestRunRequired
    /\ DecideEnqueue("poller", AcceptanceRequired, NoEpic)
    /\ UNCHANGED <<epicStatus, testsNotRun, polished, queueVars, running, manager, recovery, consumerVars,
                   poll, clock, budget>>

PollWrite ==
    /\ Up
    /\ WriteQueueFile("poller")
    /\ UNCHANGED <<epicStatus, testsNotRun, polished, processing, terminal, running, manager, recovery,
                   consumerVars, poll, budget>>

\* The command line requires --epic for every epic event but backlog.epic.ready.
Trigger(type, epicId) ==
    /\ intent["operator"] = {}
    /\ epicId = NoEpic => type \in {EpicReady, AcceptanceRequired}
    /\ type = AcceptanceRequired => epicId = NoEpic
    /\ Spend("triggers")
    /\ DecideEnqueue("operator", type, epicId)
    /\ UNCHANGED <<epicStatus, testsNotRun, polished, queueVars, running, manager, recovery, consumerVars,
                   poll, clock>>

TriggerWrite ==
    /\ WriteQueueFile("operator")
    /\ UNCHANGED <<epicStatus, testsNotRun, polished, processing, terminal, running, manager, recovery,
                   consumerVars, poll, budget>>

--------------------------------------------------------------------------------

Start    == Preflight \/ RecoverStaleQueueProcessingFiles \/ BringUp \/ AutoRecover \/ AutoRecoverWrite \/ Serve
Stop     == Crash \/ Signal \/ DownSaved \/ Exit
Run      == ReviewerDecides \/ GatekeeperRecords \/ DispatchSucceeds \/ DispatchFails
Consume  == \/ BeginPass \/ Visit \/ ClaimFile \/ PrepareDispatch \/ Run
            \/ EmitFollowUp \/ EmitWrite \/ MoveToDone \/ MoveToFailed
Poll     == PollProbe \/ PollReady \/ PollAcceptance \/ PollWrite
Operator == (\E t \in TriggerEvents, e \in EpicId : Trigger(t, e)) \/ TriggerWrite

Next == Start \/ Stop \/ Consume \/ Poll \/ Operator

Spec == Init /\ [][Next]_vars

\* The operator starts the fleet again after it has stopped; its timers keep ticking; a run
\* ends.  Nothing obliges the operator to stop the fleet or to trigger an event.
Fairness == WF_vars(Start) /\ WF_vars(DownSaved \/ Exit) /\ WF_vars(Consume) /\ WF_vars(Poll)

FairSpec == Spec /\ Fairness

--------------------------------------------------------------------------------
(* What must hold. *)

Gate == INSTANCE EpicGate WITH status <- epicStatus

\* Implementation is serialized around the review gate (claimEpicForImplementation): never two
\* epics in progress or in review, whatever is triggered by hand, crashes or is recovered.
Serialized == Gate!GateExclusive

\* Forced finalization and startup recovery move statuses only along the gate's transitions:
\* an epic enters it ready and visible, leaves it by review or failure, and done is final.
GateRefined == Gate!GateSpec

\* While an implementation run is in hand, its epic is the one in progress: finalizing it,
\* which is forced, overwrites nobody else's status.
ClaimHeld == stage = "dispatching" /\ IsClaim => epicStatus[message.epicId] = "in-progress"

\* Nothing is under way in the consume loop before the manager serves, and what is in hand
\* is the last file of its agent's processing directory: restart recovery finds it there.
InHandOnDisk ==
    /\ ~Up => stage = "idle"
    /\ stage \notin {"idle", "claiming"} => processing[agent] = <<message>>
    /\ Up => \A a \in Agents \ {agent} : processing[a] = <<>>

\* The developer's, the polisher's and the reviewer's work follow each other (emitEvent): a
\* reviewer is never dispatched for an epic that was not polished since it was last claimed.
PolishedBeforeReview ==
    stage = "dispatching" /\ message.type = EpicReviewReady => message.epicId \in polished

\* What carries epic e to its next stage: a queued polish or review event, or the step in
\* hand that is about to queue one.
Handoff(e) ==
    \/ \E a \in Agents : \E m \in Files(pending[a]) \cup Files(processing[a]) :
           m.type \in ReviewStageEvent /\ m.epicId = e
    \/ stage \in {"emitting", "enqueuing"} /\ message.epicId = e

\* Why an epic in review may be left without: another epic's event of these stages is in flight
\* and the epic's own is dropped for it, nobody runs that could be told, or the epic's run
\* ended without what takes the epic further.
OthersInFlight(e) ==
    \E a \in Agents : \E m \in Files(pending[a]) \cup Files(processing[a]) :
        m.type \in ReviewStageEvent /\ m.epicId # e
NobodyToTell == \E type \in ReviewStageEvent : FirstRunningAgent(type) = {}
RunEndedUndecided(e) == message.epicId = e /\ (message.type = EpicReviewReady \/ stage = "rejecting")

Forgotten(e) == manager = "serving" /\ epicStatus[e] = "in-review" /\ ~Handoff(e)

\* An epic in review is not forgotten by a serving fleet, after crashes, shutdowns, startup
\* recovery and events triggered by hand too (runFleetStartupAutoRecovery, the follow-up of
\* onMessage), except in the three ways just named: no step leaves it without the event that
\* takes it further unless another epic's event is in the way, nobody runs that could be told,
\* or a run of its own ended undecided.
HandoffHeld ==
    [][\A e \in Epics : Forgotten(e)' =>
           Forgotten(e) \/ OthersInFlight(e) \/ NobodyToTell \/ RunEndedUndecided(e)]_vars

\* Serialized events are limited to one running agent to avoid duplicated handling
\* (resolveTargetAgents): an agent never has two events of a kind on file, although the poller
\* and the consume loop decide and write in turns.
OneInFlight ==
    \A a \in Agents : LET files == processing[a] \o pending[a]
                      IN  \A i, j \in DOMAIN files : files[i].type = files[j].type => i = j

\* Prompt of the review event: one of the two decisions must be executed, so the tool has to
\* accept one for the epic under review.
DecisionPossible ==
    stage = "dispatching" /\ message.type = EpicReviewReady => Verdicts(message.epicId) # {}

\* Every epic is delivered although developer runs fail, reviewers request changes, and the
\* fleet is stopped and started again.
Delivered == <>[](\A e \in Epics : epicStatus[e] = "done")

\* Once every epic is done, the acceptance tests that were not run are run.
TestsRun == [](AllEpicsDone => <>~testsNotRun)
================================================================================
