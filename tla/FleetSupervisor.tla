---------------------------- MODULE FleetSupervisor ----------------------------
(***************************************************************************)
(* Several fleets on one machine: `codefleet supervisor up', `down' and    *)
(* `status' over the directories of its config, the managers that run as   *)
(* its foreground children, the signals one Ctrl-C causes, and the path    *)
(* `codefleet status' takes to a manager's API: agents.json, the registry, *)
(* /api/codefleet/endpoints of each candidate, /api/codefleet/status.      *)
(*                                                                         *)
(* A manager's own life is reduced to what others see of it: its port, its *)
(* registry entry and agents.json (ManagerLifecycle has the rest).         *)
(***************************************************************************)
EXTENDS Naturals, FiniteSets

CONSTANTS
    Fleets,       \* the fleet directories of the supervisor's config
    Clones,       \* those of them that are clones of one and the same repository
    Ports,        \* TCP ports, numbers
    Preferred,    \* the port every manager asks for first
    MaxCommands,  \* bound: commands given and requests to stop
    MaxFaults     \* bound: crashes, failed starts, requests without an answer

ASSUME ClonesAssumption == Clones \subseteq Fleets
ASSUME PortsAssumption == Ports \subseteq Nat \ {0} /\ Preferred \in Ports
ASSUME SupervisorBounds == MaxCommands \in Nat /\ MaxFaults \in Nat

NoPort == 0

VARIABLES
    phase,      \* phase[f]: what the manager of f is doing
    port,       \* port[f]: where its API server listens
    recorded,   \* recorded[f]: what f's agents.json says of the agents
    signals,    \* signals[f]: signals on their way to f's manager
    armed,      \* fleets whose shutdown was requested longer than the arm delay ago
    children,   \* fleets whose manager is a foreground child of the supervisor
    up,         \* the process of `supervisor up' in the foreground
    pressed,    \* signals on their way to that process
    stopping,   \* stopping[f]: f's `down --all' child of `supervisor down'
    query,      \* query[f]: f's `status' child of `supervisor status'
    alive,      \* fleets whose API has answered at some time during `supervisor status'
    steady,     \* fleets that have served undisturbed since it was given
    excused,    \* fleets whose status child met a fault or a port that changed hands
    requests,   \* requests[f]: stops of f's manager asked for since it started
    cut,        \* fleets whose manager was forced out of its shutdown
    budget      \* what the bounds leave

fleetVars == <<phase, port, recorded, signals, armed, requests, cut>>
upVars == <<children, up, pressed>>
queryVars == <<query, excused>>
vars == <<fleetVars, upVars, stopping, queryVars, alive, steady, budget>>

Starting == {"launched", "listening"}
Closing  == {"stopping", "closing"}
Idle == [at |-> "idle", own |-> "stopped", candidates |-> {}, target |-> NoPort, result |-> "none"]

\* resolveProjectIdFromGitRemote: the owner and name of origin, which clones share.
ProjectId(f) == IF f \in Clones THEN Clones ELSE {f}

TypeOK ==
    /\ phase \in [Fleets -> {"off", "serving"} \cup Starting \cup Closing]
    /\ port \in [Fleets -> Ports \cup {NoPort}]
    /\ recorded \in [Fleets -> {"stopped", "partly", "running"}]
    /\ signals \in [Fleets -> Nat] /\ requests \in [Fleets -> Nat]
    /\ armed \subseteq Fleets /\ cut \subseteq Fleets
    /\ children \subseteq Fleets
    /\ up \in {"none", "running", "requested"} /\ pressed \in Nat
    /\ stopping \in [Fleets -> {"idle", "reading", "waiting"}]
    /\ query \in [Fleets -> [at : {"idle", "reading", "probing", "asking", "done"},
                             own : {"stopped", "degraded"}, candidates : SUBSET Ports,
                             target : Ports \cup {NoPort},
                             result : {"none", "unknown", "running", "stopped", "degraded"}]]
    /\ alive \subseteq Fleets /\ steady \subseteq Fleets /\ excused \subseteq Fleets
    /\ budget \in [{"commands", "faults"} -> Nat]

Init ==
    /\ phase = [f \in Fleets |-> "off"]
    /\ port = [f \in Fleets |-> NoPort]
    /\ recorded = [f \in Fleets |-> "stopped"]
    /\ signals = [f \in Fleets |-> 0] /\ requests = [f \in Fleets |-> 0]
    /\ armed = {} /\ cut = {}
    /\ children = {} /\ up = "none" /\ pressed = 0
    /\ stopping = [f \in Fleets |-> "idle"]
    /\ query = [f \in Fleets |-> Idle]
    /\ alive = {} /\ steady = {} /\ excused = {}
    /\ budget = [commands |-> MaxCommands, faults |-> MaxFaults]

--------------------------------------------------------------------------------
Spend(what) == budget[what] > 0 /\ budget' = [budget EXCEPT ![what] = @ - 1]

Goto(f, to) == phase' = [phase EXCEPT ![f] = to]

\* The process ends, however it does: its port is free again, its entry names a dead pid, and the
\* supervisor's promise for it is settled. What agents.json says stays.
Leave(f) ==
    /\ Goto(f, "off")
    /\ port' = [port EXCEPT ![f] = NoPort]
    /\ signals' = [signals EXCEPT ![f] = 0]
    /\ armed' = armed \ {f}
    /\ children' = children \ {f}

--------------------------------------------------------------------------------
(* The managers. *)

\* ensureNoConflictingRuntimeManagerIsRunning refuses a second one: that command ends at once.
Launched(fs) ==
    /\ phase' = [f \in Fleets |-> IF f \in fs THEN "launched" ELSE phase[f]]
    /\ requests' = [f \in Fleets |-> IF f \in fs THEN 0 ELSE requests[f]]
    /\ cut' = cut \ fs
Startable == {f \in Fleets : phase[f] = "off"}

\* `codefleet up -d' in the directory, or `supervisor up -d': the launchers exit, the managers stay.
LaunchDetached(fs) ==
    /\ fs # {} /\ fs \subseteq Startable
    /\ Spend("commands")
    /\ Launched(fs)
    /\ UNCHANGED <<port, recorded, signals, armed, upVars, stopping, queryVars>>

\* McpApiServer.start: the preferred port or, if it is taken, an ephemeral one; then it is registered.
Listen(f) ==
    /\ phase[f] = "launched"
    /\ \E p \in Ports :
        /\ p \notin {port[g] : g \in Fleets}
        /\ p # Preferred => Preferred \in {port[g] : g \in Fleets}
        /\ port' = [port EXCEPT ![f] = p]
    /\ Goto(f, "listening")
    /\ UNCHANGED <<recorded, signals, armed, requests, cut, upVars, stopping, queryVars, budget>>

\* agents.json is saved at the end of FleetService.up; an agent that could not be prepared is
\* "failed". The pid file and the signal handlers of waitForShutdownSignal follow.
Serve(f) ==
    /\ phase[f] = "listening"
    /\ \/ recorded' = [recorded EXCEPT ![f] = "running"] /\ UNCHANGED budget
       \/ recorded' = [recorded EXCEPT ![f] = "partly"] /\ Spend("faults")
    /\ Goto(f, "serving")
    /\ UNCHANGED <<port, signals, armed, requests, cut, upVars, stopping, queryVars>>

EndsUnasked(f) ==
    /\ phase[f] # "off"
    /\ Spend("faults")
    /\ Leave(f)
    /\ UNCHANGED <<recorded, requests, cut, up, pressed, stopping, queryVars>>

\* What a signal does: it is ignored within FORCE_EXIT_SIGNAL_ARM_DELAY_MS of the first one.
ClassifyWithoutArmDelay(f) ==
    CASE phase[f] = "serving" -> "start"
      [] phase[f] \in Closing -> "force_exit"
      [] OTHER -> "kill"

ClassifyShutdownSignal(f) ==
    CASE phase[f] = "serving" -> "start"
      [] phase[f] \in Closing /\ f \notin armed -> "ignore"
      [] phase[f] \in Closing /\ f \in armed -> "force_exit"
      [] OTHER -> "kill"

\* onSignal; before the handlers are installed a signal kills the process.
Deliver(f) ==
    /\ signals[f] > 0 /\ phase[f] # "off"
    /\ LET action == ClassifyShutdownSignal(f) IN
        /\ IF action \in {"kill", "force_exit"}
           THEN Leave(f)
           ELSE /\ signals' = [signals EXCEPT ![f] = @ - 1]
                /\ phase' = IF action = "start" THEN [phase EXCEPT ![f] = "stopping"] ELSE phase
                /\ UNCHANGED <<port, armed, children>>
        /\ cut' = IF action = "force_exit" THEN cut \cup {f} ELSE cut
    /\ UNCHANGED <<recorded, requests, up, pressed, stopping, queryVars, budget>>

\* The arm delay passes. One Ctrl-C and its forwarding take less than that.
ArmForceExit(f) ==
    /\ phase[f] \in Closing /\ f \notin armed
    /\ signals[f] = 0 /\ (f \in children => pressed = 0)
    /\ armed' = armed \cup {f}
    /\ UNCHANGED <<phase, port, recorded, signals, requests, cut, upVars, stopping, queryVars, budget>>

\* service.down in the manager saves agents.json first, the API server answers until it is closed.
StopAgents(f) ==
    /\ phase[f] = "stopping"
    /\ recorded' = [recorded EXCEPT ![f] = "stopped"]
    /\ Goto(f, "closing")
    /\ UNCHANGED <<port, signals, armed, requests, cut, upVars, stopping, queryVars, budget>>

Exit(f) ==
    /\ phase[f] = "closing"
    /\ Leave(f)
    /\ UNCHANGED <<recorded, requests, cut, up, pressed, stopping, queryVars, budget>>

--------------------------------------------------------------------------------
(* `supervisor up' in the foreground. *)

Asked(fs) == requests' = [f \in Fleets |-> requests[f] + IF f \in fs THEN 1 ELSE 0]
Signalled(fs) == signals' = [f \in Fleets |-> signals[f] + IF f \in fs THEN 1 ELSE 0]

\* The signal handlers are attached before the children are spawned, all of them in one go.
SupervisorUp ==
    /\ up = "none" /\ children = {} /\ Startable # {}
    /\ Spend("commands")
    /\ up' = "running" /\ children' = Startable
    /\ Launched(Startable)
    /\ UNCHANGED <<port, recorded, signals, armed, pressed, stopping, queryVars>>

\* Ctrl-C: the terminal signals the whole process group, the children included.
Press ==
    /\ up # "none"
    /\ Spend("commands")
    /\ pressed' = pressed + 1
    /\ Signalled(children) /\ Asked(children)
    /\ UNCHANGED <<phase, port, recorded, armed, cut, children, up, stopping, queryVars>>

\* A signal to the supervisor alone.
Kill ==
    /\ up # "none"
    /\ Spend("commands")
    /\ pressed' = pressed + 1
    /\ Asked(children)
    /\ UNCHANGED <<phase, port, recorded, signals, armed, cut, children, up, stopping, queryVars>>

ServingChildren == {f \in children : phase[f] = "serving"}
LiveChildren == {f \in children : phase[f] # "off"}

\* attachForegroundSignalHandlers: the first signal is forwarded to every child that lives.
ForwardSignal ==
    /\ up = "running" /\ pressed > 0
    /\ up' = "requested" /\ pressed' = pressed - 1
    /\ Signalled(LiveChildren)
    /\ UNCHANGED <<phase, port, recorded, armed, requests, cut, children, stopping, queryVars, budget>>

\* A second one ends the supervisor; the children it leaves have had the first.
ForceExit ==
    /\ up = "requested" /\ pressed > 0
    /\ up' = "none" /\ pressed' = 0
    /\ UNCHANGED <<fleetVars, children, stopping, queryVars, budget>>

\* executeAcrossFleets has settled for every fleet: the results are printed.
SupervisorUpEnds ==
    /\ up # "none" /\ children = {}
    /\ up' = "none" /\ pressed' = 0
    /\ UNCHANGED <<fleetVars, children, stopping, queryVars, budget>>

--------------------------------------------------------------------------------
(* `supervisor down'. *)

SupervisorDown ==
    /\ \A f \in Fleets : stopping[f] = "idle"
    /\ Spend("commands")
    /\ stopping' = [f \in Fleets |-> "reading"]
    /\ UNCHANGED <<fleetVars, upVars, queryVars>>

\* Only a manager that has written its pid file is found; otherwise the record is all there is to stop.
SignalRecordedManager(f) ==
    /\ stopping[f] = "reading"
    /\ IF phase[f] \in {"serving"} \cup Closing
       THEN /\ stopping' = [stopping EXCEPT ![f] = "waiting"]
            /\ Signalled({f}) /\ Asked({f})
            /\ UNCHANGED recorded
       ELSE /\ stopping' = [stopping EXCEPT ![f] = "idle"]
            /\ recorded' = [recorded EXCEPT ![f] = "stopped"]
            /\ UNCHANGED <<signals, requests>>
    /\ UNCHANGED <<phase, port, armed, cut, upVars, queryVars, budget>>

\* waitForProcessExit, which may give up, and service.down in the command.
DownAgents(f) ==
    /\ stopping[f] = "waiting"
    /\ \/ phase[f] = "off" /\ UNCHANGED budget
       \/ phase[f] # "off" /\ Spend("faults")
    /\ stopping' = [stopping EXCEPT ![f] = "idle"]
    /\ recorded' = [recorded EXCEPT ![f] = "stopped"]
    /\ UNCHANGED <<phase, port, signals, armed, requests, cut, upVars, queryVars>>

--------------------------------------------------------------------------------
(* `supervisor status', and in each directory `codefleet status'. *)

SupervisorStatus ==
    /\ \A f \in Fleets : query[f].at = "idle"
    /\ Spend("commands")
    /\ query' = [f \in Fleets |-> [Idle EXCEPT !.at = "reading"]]
    /\ excused' = {}
    /\ UNCHANGED <<fleetVars, upVars, stopping>>

Report(f, result) == query' = [query EXCEPT ![f] = [Idle EXCEPT !.at = "done", !.result = result]]

\* An entry whose heartbeat is late, and the command itself, are no candidates.
Discovered(late) == {port[g] : g \in Fleets \ late} \ {NoPort}

\* summarizeStatus of agents.json and of the API server of the process that asks, if it has one.
SummarizeStatus(record, api) ==
    CASE record = "running" /\ api # "stopped" -> "running"
      [] record = "stopped" -> "stopped"
      [] OTHER -> "degraded"

\* FleetService.status in the command: its own API server never runs, so it never says "running".
ReadStatus(f) ==
    /\ query[f].at = "reading"
    /\ \E late \in SUBSET {g \in Fleets : port[g] # NoPort} :
        /\ query' = [query EXCEPT ![f].at = "probing",
                                  ![f].own = SummarizeStatus(recorded[f], "stopped"),
                                  ![f].candidates = Discovered(late)]
        /\ IF late = {} THEN UNCHANGED <<excused, budget>>
                        ELSE Spend("faults") /\ excused' = excused \cup {f}
    /\ UNCHANGED <<fleetVars, upVars, stopping>>

Answers(g, p) == port[g] = p

AnyProject(f, g) == TRUE

\* A snapshot names the project of whoever answers; those of other projects are passed over.
SnapshotProject(g) == ProjectId(g)
SameProject(f, g) == SnapshotProject(g) = ProjectId(f)

\* fetchFleetEndpointSnapshot: one candidate is asked who it is.
ProbeEndpoint(f, p) ==
    /\ query[f].at = "probing" /\ p \in query[f].candidates
    /\ IF \E g \in Fleets : Answers(g, p) /\ SameProject(f, g)
       THEN query' = [query EXCEPT ![f].at = "asking", ![f].target = p, ![f].candidates = {}]
       ELSE query' = [query EXCEPT ![f].candidates = @ \ {p}]
    /\ UNCHANGED <<fleetVars, upVars, stopping, excused, budget>>

NoEndpoint(f) ==
    /\ query[f].at = "probing" /\ query[f].candidates = {}
    /\ Report(f, query[f].own)
    /\ UNCHANGED <<fleetVars, upVars, stopping, excused, budget>>

\* /api/codefleet/status: the FleetService that answers knows of no API server.
ApiStatus(g) == SummarizeStatus(recorded[g], "none")

\* fetchFleetStatusFromApi: the answer is taken from whoever has the port now.
AskStatus(f) ==
    /\ query[f].at = "asking"
    /\ \/ \E g \in Fleets :
            /\ Answers(g, query[f].target)
            /\ Report(f, ApiStatus(g))
            /\ excused' = IF SameProject(f, g) THEN excused ELSE excused \cup {f}
       \/ /\ \A g \in Fleets : ~Answers(g, query[f].target)
          /\ Report(f, query[f].own)
          /\ UNCHANGED excused
    /\ UNCHANGED <<fleetVars, upVars, stopping, budget>>

\* A request times out after 1.5 s: a candidate is passed over, a status is the command's own.
RequestTimesOut(f) ==
    /\ Spend("faults")
    /\ \/ \E p \in query[f].candidates : query' = [query EXCEPT ![f].candidates = @ \ {p}]
       \/ query[f].at = "asking" /\ Report(f, query[f].own)
    /\ excused' = excused \cup {f}
    /\ UNCHANGED <<fleetVars, upVars, stopping>>

\* The status child fails; its output is no JSON and the fleet has no status.
StatusChildFails(f) ==
    /\ query[f].at \notin {"idle", "done"}
    /\ Spend("faults")
    /\ Report(f, "unknown")
    /\ excused' = excused \cup {f}
    /\ UNCHANGED <<fleetVars, upVars, stopping>>

Reported == \A f \in Fleets : query[f].at = "done"

\* summarizeFleetAggregateStatus.
AggregateStatus ==
    IF \E s \in {"running", "stopped"} : \A f \in Fleets : query[f].result = s
    THEN query[CHOOSE f \in Fleets : TRUE].result ELSE "degraded"

PrintStatus ==
    /\ Reported
    /\ query' = [f \in Fleets |-> Idle]
    /\ excused' = {}
    /\ UNCHANGED <<fleetVars, upVars, stopping, budget>>

--------------------------------------------------------------------------------
ManagerStep(f) ==
    Listen(f) \/ Serve(f) \/ Deliver(f) \/ StopAgents(f) \/ Exit(f)

SupervisorStep == ForwardSignal \/ ForceExit \/ SupervisorUpEnds

DownStep(f) == SignalRecordedManager(f) \/ DownAgents(f)

StatusStep(f) ==
    \/ ReadStatus(f) \/ (\E p \in Ports : ProbeEndpoint(f, p)) \/ NoEndpoint(f)
    \/ AskStatus(f) \/ RequestTimesOut(f) \/ StatusChildFails(f)

Operator ==
    \/ \E fs \in SUBSET Fleets : LaunchDetached(fs)
    \/ SupervisorUp \/ Press \/ Kill \/ SupervisorDown \/ SupervisorStatus

Undisturbed(f) == phase[f] = "serving" /\ recorded[f] = "running"

\* What was so while `supervisor status' ran.
Watch ==
    LET asking == \E f \in Fleets : query[f].at # "idle" IN
    /\ alive' = IF asking' THEN alive \cup {f \in Fleets : port'[f] # NoPort} ELSE {}
    /\ steady' = IF asking' THEN {f \in Fleets : Undisturbed(f)' /\ (asking => f \in steady)} ELSE {}

Next ==
    /\ \/ \E f \in Fleets : \/ ManagerStep(f) \/ EndsUnasked(f) \/ ArmForceExit(f)
                            \/ DownStep(f) \/ StatusStep(f)
       \/ SupervisorStep \/ Operator \/ PrintStatus
    /\ Watch

Spec == Init /\ [][Next]_vars

\* The processes go on; nobody has to give a command.
FairSpec ==
    /\ Spec
    /\ \A f \in Fleets : WF_vars(ManagerStep(f) /\ Watch)
    /\ WF_vars(SupervisorStep /\ Watch)

--------------------------------------------------------------------------------
(* Properties. *)

\* `supervisor status' says "running" only of a fleet whose own API (or that of another clone of its
\* repository) was up while it looked, and it says so of every fleet that served undisturbed all
\* along, whatever the other fleets do meanwhile: they start, stop, crash and take over each other's
\* ports. Excused are a child that failed, a request or heartbeat that came too late, and a port
\* that changed hands between the two requests, of which the code checks only the first.
StatusIsTrue ==
    Reported =>
        /\ \A f \in Fleets \ excused : query[f].result = "running" =>
              \E g \in alive : ProjectId(g) = ProjectId(f)
        /\ \A f \in steady \ (excused \cup Clones) : query[f].result = "running"
        /\ steady = Fleets /\ excused \cup Clones = {} => AggregateStatus = "running"

\* Once the foreground supervisor has been signalled, no fleet it started keeps running: not one
\* that was still starting, and not when a second signal ended the supervisor first.
ChildrenEnd == pressed > 0 ~> children = {}

\* A manager is forced out of its shutdown only if it was asked to stop at least twice: the second
\* signal that one Ctrl-C causes, by way of the supervisor, does not count as another.
OnePressIsGraceful == \A f \in cut : requests[f] > 1
================================================================================
