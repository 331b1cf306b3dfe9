---------------------------- MODULE ManagerLifecycle ----------------------------
(***************************************************************************)
(* The life of the fleet's operating-system processes: the commands        *)
(* `codefleet up', `up -d', `down --all', `restart' and `restart -d', the  *)
(* manager a command becomes or spawns, the pid file and agents.json by    *)
(* which later commands find it, signals, crashes, reused pids, and the    *)
(* registry of API servers with its heartbeats.                            *)
(*                                                                         *)
(* agents.json is reduced to the manager whose agents it records, the      *)
(* queue to one event file, which is written anew when it was handled.     *)
(***************************************************************************)
EXTENDS Naturals, FiniteSets

CONSTANTS
    Pids,             \* process ids
    Commands,         \* the commands the operator gives
    PatientOperator,  \* TRUE: no command while another one, or a start, is under way
    MaxCommands,      \* bound: commands given
    MaxFaults,        \* bound: crashes, interrupts and free pids taken by other programs
    MaxSlow           \* bound: waits that time out, API failures and stalled heartbeats

ASSUME PidsAssumption == Pids \subseteq Nat \ {0}
ASSUME OperatorAssumption == PatientOperator \in BOOLEAN
ASSUME LifecycleBounds == MaxCommands \in Nat /\ MaxFaults \in Nat /\ MaxSlow \in Nat

NoPid == 0
Command  == {"up", "up -d", "down", "restart", "restart -d"}

ASSUME CommandsAssumption == Commands \subseteq Command

VARIABLES
    proc,      \* proc[p]: what the process with pid p is doing
    command,   \* command[p]: the command it was started with
    seen,      \* seen[p]: the pid p read from the pid file and signalled
    pidFile,   \* fleet's pid file
    recorded,  \* the manager whose agents agents.json records as running
    file,      \* the event file: the queue directory it is in
    handling,  \* managers that have the event file in hand
    entry,     \* entry[p]: p's file in the API server registry
    beating,   \* processes with a heartbeat write under way
    lookup,    \* the entry a discover() has found stale and is about to remove
    isDown,    \* the command given last is a `down' that has returned
    budget     \* what the bounds leave

registryVars == <<entry, beating, lookup>>
queueVars == <<file, handling>>
vars == <<proc, command, seen, pidFile, recorded, queueVars, registryVars, isDown, budget>>

Starting == {"starting", "listening", "preparing", "announcing"}
Stopping == {"stopping", "closing", "ending"}
Manager  == {"serving"} \cup Stopping
Foreground == {"check", "stale", "preflight", "reading", "waiting", "stop-agents"}
Absent   == {"free", "stranger"}

TypeOK ==
    /\ proc \in [Pids -> Starting \cup Manager \cup Foreground \cup Absent]
    /\ command \in [Pids -> Command \cup {"child", "none"}]
    /\ seen \in [Pids -> Pids \cup {NoPid}]
    /\ pidFile \in Pids \cup {NoPid}
    /\ recorded \in Pids \cup {NoPid}
    /\ file \in {"pending", "processing", "done"}
    /\ handling \subseteq {p \in Pids : proc[p] \in Manager}
    /\ entry \in [Pids -> {"none", "fresh", "old"}]
    /\ beating \subseteq Pids
    /\ lookup \in Pids \cup {NoPid}
    /\ isDown \in BOOLEAN
    /\ budget \in [{"commands", "faults", "slow"} -> Nat]

Init ==
    /\ proc = [p \in Pids |-> "free"]
    /\ command = [p \in Pids |-> "none"]
    /\ seen = [p \in Pids |-> NoPid]
    /\ pidFile = NoPid
    /\ recorded = NoPid
    /\ file = "pending"
    /\ handling = {}
    /\ entry = [p \in Pids |-> "none"]
    /\ beating = {}
    /\ lookup = NoPid
    /\ isDown = FALSE
    /\ budget = [commands |-> MaxCommands, faults |-> MaxFaults, slow |-> MaxSlow]

--------------------------------------------------------------------------------
Spend(what) == budget[what] > 0 /\ budget' = [budget EXCEPT ![what] = @ - 1]

\* process.kill(pid, 0): the pid belongs to some process, which need not be a manager.
IsProcessAlive(p) == p \in Pids /\ proc[p] # "free"

\* The process leaves: what it had in memory is gone.
Loses(p) ==
    /\ handling' = handling \ {p}
    /\ beating' = beating \ {p}
Forget(p) ==
    /\ Loses(p)
    /\ seen' = [seen EXCEPT ![p] = NoPid]
    /\ command' = [command EXCEPT ![p] = "none"]

Remember == UNCHANGED <<handling, beating, seen, command>>

Goto(p, phase) == proc' = [proc EXCEPT ![p] = phase]

Ends(p) == Goto(p, "free") /\ Forget(p)

SignalUnwatched(p) ==
    CASE proc[p] = "serving" -> {"serving"}
      [] proc[p] \in {"stopping", "closing"} -> {proc[p], "free"}
      [] OTHER -> {"free"}

\* The first signal starts the shutdown; classifyShutdownSignal ignores a second one that comes within
\* FORCE_EXIT_SIGNAL_ARM_DELAY_MS and exits at once on a later one. Outside waitForShutdownSignal
\* no handler is installed.
AfterSignal(p) ==
    CASE proc[p] = "serving" -> {"stopping"}
      [] proc[p] \in {"stopping", "closing"} -> {proc[p], "free"}
      [] OTHER -> {"free"}

\* The registry keeps one file for each process, named by its pid.
Register(p) == entry' = [entry EXCEPT ![p] = "fresh"]
Unregister(p) == entry' = [entry EXCEPT ![p] = "none"]

--------------------------------------------------------------------------------
(* The operator's commands. *)

Quiet == \A p \in Pids : proc[p] \in Absent \cup Manager

Give(p, c) ==
    /\ proc[p] = "free"
    /\ PatientOperator => Quiet
    /\ Spend("commands")
    /\ Goto(p, IF c \in {"up", "up -d"} THEN "check" ELSE "reading")
    /\ command' = [command EXCEPT ![p] = c]
    /\ isDown' = FALSE
    /\ UNCHANGED <<seen, pidFile, recorded, queueVars, registryVars>>

\* What follows the check: a spawned manager skips the preflight its parent has run.
AfterCheck(p) == IF command[p] = "child" THEN "starting" ELSE "preflight"

CheckOwnPidOnly(p) ==
    /\ proc[p] = "check"
    /\ Goto(p, AfterCheck(p))
    /\ UNCHANGED <<command, seen, pidFile, recorded, queueVars, registryVars, isDown, budget>>

\* ensureNoConflictingRuntimeManagerIsRunning, up to the unlink of a stale pid file.
EnsureNoConflict(p) ==
    /\ proc[p] = "check"
    /\ \/ /\ pidFile \in {NoPid, p}
          /\ Goto(p, AfterCheck(p)) /\ Remember
       \/ /\ pidFile \notin {NoPid, p} /\ ~IsProcessAlive(pidFile)
          /\ Goto(p, "stale") /\ Remember
       \/ /\ pidFile \notin {NoPid, p} /\ IsProcessAlive(pidFile)
          /\ Ends(p)
    /\ UNCHANGED <<pidFile, recorded, file, entry, lookup, isDown, budget>>

RemoveStalePidFile(p) ==
    /\ proc[p] = "stale"
    /\ pidFile' = NoPid
    /\ Goto(p, AfterCheck(p))
    /\ UNCHANGED <<command, seen, recorded, queueVars, registryVars, isDown, budget>>

\* The preflight may ask the operator, who may decline.
PreflightDeclined(p) ==
    /\ proc[p] = "preflight"
    /\ Ends(p)
    /\ UNCHANGED <<pidFile, recorded, file, entry, lookup, isDown, budget>>

StartInForeground(p) ==
    /\ proc[p] = "preflight" /\ command[p] \in {"up", "restart"}
    /\ Goto(p, "starting")
    /\ UNCHANGED <<command, seen, pidFile, recorded, queueVars, registryVars, isDown, budget>>

\* The launcher exits as soon as the manager is spawned.
SpawnDetached(p, child) ==
    /\ proc[p] = "preflight" /\ command[p] \in {"up -d", "restart -d"}
    /\ proc[child] = "free"
    /\ proc' = [proc EXCEPT ![p] = "free", ![child] = "check"]
    /\ command' = [command EXCEPT ![p] = "none", ![child] = "child"]
    /\ Loses(p)
    /\ UNCHANGED <<seen, pidFile, recorded, file, entry, lookup, isDown, budget>>

--------------------------------------------------------------------------------
(* The manager starts. *)

RecoverStaleQueueProcessingFiles(p) ==
    /\ proc[p] = "starting"
    /\ file' = IF file = "processing" THEN "pending" ELSE file
    /\ Goto(p, "listening")
    /\ UNCHANGED <<command, seen, pidFile, recorded, handling, registryVars, isDown, budget>>

\* The API server listens, on an ephemeral port if the preferred one is taken, and is registered.
StartApiServer(p) ==
    /\ proc[p] = "listening"
    /\ Goto(p, "preparing")
    /\ Register(p)
    /\ UNCHANGED <<command, seen, pidFile, recorded, queueVars, beating, lookup, isDown, budget>>

ApiServerFails(p) ==
    /\ proc[p] = "listening"
    /\ Spend("slow")
    /\ Ends(p)
    /\ Unregister(p)
    /\ UNCHANGED <<pidFile, recorded, file, lookup, isDown>>

\* FleetService.up: the agents are prepared and agents.json is saved.
RecordAgents(p) ==
    /\ proc[p] = "preparing"
    /\ recorded' = p
    /\ Goto(p, "announcing")
    /\ UNCHANGED <<command, seen, pidFile, queueVars, registryVars, isDown, budget>>

WritePidFile(p) ==
    /\ proc[p] = "announcing"
    /\ pidFile' = p
    /\ Goto(p, "serving")
    /\ UNCHANGED <<command, seen, recorded, queueVars, registryVars, isDown, budget>>

--------------------------------------------------------------------------------
(* The manager serves: its consume loop keeps running until cleanup(). *)

ConsumingEarly(p) == proc[p] \in {"announcing", "serving", "stopping", "closing"}
Consuming(p) == proc[p] \in {"serving", "stopping", "closing"}

ClaimPendingFile(p) ==
    /\ Consuming(p) /\ p \notin handling /\ file = "pending"
    /\ file' = "processing"
    /\ handling' = handling \cup {p}
    /\ UNCHANGED <<proc, command, seen, pidFile, recorded, registryVars, isDown, budget>>

\* The rename to done fails, and is logged, if another manager's recovery moved the file.
FinishFile(p) ==
    /\ Consuming(p) /\ p \in handling
    /\ file' = IF file = "processing" THEN "done" ELSE file
    /\ handling' = handling \ {p}
    /\ UNCHANGED <<proc, command, seen, pidFile, recorded, registryVars, isDown, budget>>

Enqueue ==
    /\ file = "done"
    /\ file' = "pending"
    /\ UNCHANGED <<proc, command, seen, pidFile, recorded, handling, registryVars, isDown, budget>>

--------------------------------------------------------------------------------
(* The manager stops. *)

StopFleetAndForget(p) ==
    /\ proc[p] = "stopping"
    /\ recorded' = NoPid
    /\ pidFile' = NoPid
    /\ Goto(p, "closing")
    /\ UNCHANGED <<command, seen, queueVars, registryVars, isDown, budget>>

\* service.down in the manager: its agents are shut down and agents.json says so.
StopFleet(p) ==
    /\ proc[p] = "stopping"
    /\ recorded' = NoPid
    /\ Goto(p, "closing")
    /\ UNCHANGED <<command, seen, pidFile, queueVars, registryVars, isDown, budget>>

\* SERVER_STOP_TIMEOUT_MS passes before the server has closed.
CloseTimesOut == Spend("slow")

\* The API server closes and the entry is removed, or the close times out, in which case it stays.
StopApiServer(p) ==
    /\ proc[p] = "closing"
    /\ \/ Unregister(p) /\ UNCHANGED budget
       \/ CloseTimesOut /\ UNCHANGED entry
    /\ Goto(p, "ending")
    /\ UNCHANGED <<command, seen, pidFile, recorded, queueVars, beating, lookup, isDown>>

\* The pid file is removed, whatever it names, and process.exit follows at once.
Exit(p) ==
    /\ proc[p] = "ending"
    /\ pidFile' = NoPid
    /\ Ends(p)
    /\ UNCHANGED <<recorded, file, entry, lookup, isDown, budget>>

--------------------------------------------------------------------------------
(* `down --all', and the first half of `restart'. *)

\* stopDetachedFleetProcessesFromPidFiles: whoever has the pid now gets SIGTERM.
SignalRecordedManager(p) ==
    /\ proc[p] = "reading"
    /\ pidFile \notin {NoPid, p} /\ IsProcessAlive(pidFile)
    /\ seen' = [seen EXCEPT ![p] = pidFile]
    /\ \E phase \in AfterSignal(pidFile) :
        /\ proc' = [proc EXCEPT ![p] = "waiting", ![pidFile] = phase]
        /\ IF phase = "free"
           THEN Loses(pidFile) /\ command' = [command EXCEPT ![pidFile] = "none"]
           ELSE UNCHANGED <<handling, beating, command>>
    /\ UNCHANGED <<pidFile, recorded, file, entry, lookup, isDown, budget>>

NothingToSignal(p) ==
    /\ proc[p] = "reading"
    /\ pidFile \in {NoPid, p} \/ ~IsProcessAlive(pidFile)
    /\ Goto(p, "stop-agents")
    /\ UNCHANGED <<command, seen, pidFile, recorded, queueVars, registryVars, isDown, budget>>

\* waitForProcessExit gives up silently after AGENT_RUNTIME_MANAGER_SHUTDOWN_TIMEOUT_MS.
WaitForProcessExit(p) ==
    /\ proc[p] = "waiting"
    /\ \/ ~IsProcessAlive(seen[p]) /\ UNCHANGED budget
       \/ Spend("slow")
    /\ seen' = [seen EXCEPT ![p] = NoPid]
    /\ Goto(p, "stop-agents")
    /\ UNCHANGED <<command, pidFile, recorded, queueVars, registryVars, isDown>>

\* service.down in the command: agents.json is saved with every agent stopped.
DownAgents(p) ==
    /\ proc[p] = "stop-agents"
    /\ recorded' = NoPid
    /\ IF command[p] = "down"
       THEN Ends(p) /\ isDown' = TRUE
       ELSE Goto(p, "check") /\ Remember /\ UNCHANGED isDown
    /\ UNCHANGED <<pidFile, file, entry, lookup, budget>>

--------------------------------------------------------------------------------
(* Signals from a terminal or the supervisor, crashes, pids used again. *)

Interrupt(p) ==
    /\ proc[p] \notin Absent
    /\ Spend("faults")
    /\ \E phase \in AfterSignal(p) : Goto(p, phase) /\ IF phase = "free" THEN Forget(p) ELSE Remember
    /\ UNCHANGED <<pidFile, recorded, file, entry, lookup, isDown>>

Crash(p) ==
    /\ proc[p] \notin Absent
    /\ Spend("faults")
    /\ Ends(p)
    /\ UNCHANGED <<pidFile, recorded, file, entry, lookup, isDown>>

ReusePid(p) ==
    /\ proc[p] = "free"
    /\ Spend("faults")
    /\ Goto(p, "stranger")
    /\ UNCHANGED <<command, seen, pidFile, recorded, queueVars, registryVars, isDown>>

StrangerExits(p) ==
    /\ proc[p] = "stranger"
    /\ Goto(p, "free")
    /\ UNCHANGED <<command, seen, pidFile, recorded, queueVars, registryVars, isDown, budget>>

--------------------------------------------------------------------------------
(* The registry of API servers. *)

\* The timer runs from register() to stop().
HeartbeatTimerRuns(p) == proc[p] \in {"preparing", "announcing", "serving", "stopping"}

\* A heartbeat that renews an entry still fresh matters only if its write may outlast the timer.
StartHeartbeat(p) ==
    /\ HeartbeatTimerRuns(p) /\ p \notin beating
    /\ entry[p] # "fresh" \/ proc[p] = "stopping"
    /\ beating' = beating \cup {p}
    /\ UNCHANGED <<proc, command, seen, pidFile, recorded, queueVars, entry, lookup, isDown, budget>>

RefreshHeartbeat(p) ==
    /\ p \in beating
    /\ entry' = [entry EXCEPT ![p] = IF @ = "none" THEN @ ELSE "fresh"]
    /\ beating' = beating \ {p}
    /\ UNCHANGED <<proc, command, seen, pidFile, recorded, queueVars, lookup, isDown, budget>>

\* The write may land after unregister() has removed the file.
WriteHeartbeat(p) ==
    /\ p \in beating
    /\ Register(p)
    /\ beating' = beating \ {p}
    /\ UNCHANGED <<proc, command, seen, pidFile, recorded, queueVars, lookup, isDown, budget>>

\* More than the heartbeat timeout passes without a write. (The entry of a dead pid is stale anyway.)
EntryAges(p) ==
    /\ entry[p] = "fresh" /\ IsProcessAlive(p)
    /\ IF HeartbeatTimerRuns(p) THEN Spend("slow") ELSE UNCHANGED budget
    /\ entry' = [entry EXCEPT ![p] = "old"]
    /\ UNCHANGED <<proc, command, seen, pidFile, recorded, queueVars, beating, lookup, isDown>>

IsStaleEntry(p) == entry[p] = "old" \/ (entry[p] = "fresh" /\ ~IsProcessAlive(p))

DiscoverFindsStale(p) ==
    /\ lookup = NoPid /\ IsStaleEntry(p)
    /\ lookup' = p
    /\ UNCHANGED <<proc, command, seen, pidFile, recorded, queueVars, entry, beating, isDown, budget>>

\* The file is removed by its name: a heartbeat written since goes with it.
DiscoverRemoves ==
    /\ lookup # NoPid
    /\ entry' = [entry EXCEPT ![lookup] = "none"]
    /\ lookup' = NoPid
    /\ UNCHANGED <<proc, command, seen, pidFile, recorded, queueVars, beating, isDown, budget>>

--------------------------------------------------------------------------------
StartStep(p) ==
    \/ EnsureNoConflict(p) \/ RemoveStalePidFile(p) \/ StartInForeground(p)
    \/ \E child \in Pids : SpawnDetached(p, child)
    \/ RecoverStaleQueueProcessingFiles(p) \/ StartApiServer(p) \/ RecordAgents(p) \/ WritePidFile(p)

StopStep(p) ==
    \/ SignalRecordedManager(p) \/ NothingToSignal(p) \/ WaitForProcessExit(p) \/ DownAgents(p)
    \/ StopFleet(p) \/ StopApiServer(p) \/ Exit(p)

HeartbeatStep(p) == StartHeartbeat(p) \/ WriteHeartbeat(p)

Environment(p) ==
    \/ \E c \in Commands : Give(p, c)
    \/ PreflightDeclined(p) \/ ApiServerFails(p)
    \/ Interrupt(p) \/ Crash(p) \/ ReusePid(p) \/ StrangerExits(p)
    \/ EntryAges(p) \/ DiscoverFindsStale(p)

QueueStep(p) == ClaimPendingFile(p) \/ FinishFile(p)

Next ==
    \/ \E p \in Pids : StartStep(p) \/ StopStep(p) \/ HeartbeatStep(p) \/ QueueStep(p) \/ Environment(p)
    \/ Enqueue \/ DiscoverRemoves

Spec == Init /\ [][Next]_vars

\* Every started process goes on; nobody has to give commands, crash or look things up.
FairSpec ==
    /\ Spec
    /\ \A p \in Pids : WF_vars(StartStep(p) \/ StopStep(p)) /\ WF_vars(HeartbeatStep(p))

--------------------------------------------------------------------------------
(* Properties. *)

\* A manager that serves, or has begun to stop, is the one the pid file names, and while it serves
\* agents.json records its agents: `down' and the guard of `up' find it, and there is no second one.
Reachable ==
    \A p \in Pids : /\ proc[p] \in Manager => pidFile = p
                    /\ proc[p] = "serving" => recorded = p

\* An event file is in the hands of one manager at a time, although every new manager moves the
\* files it finds in processing directories back to pending.
HandledOnce == \A p, q \in handling : p = q

\* Once `down --all' has returned, no manager stays, also when it gave up waiting for one: unless
\* another command is given, the fleet comes to rest.
DownStops ==
    isDown ~> (~isDown \/ \A p \in Pids : proc[p] \notin Manager \cup Starting)

\* The registry finds a serving manager's API server again, although a discover() removed the entry
\* for a heartbeat that came late.
Unlisted == \E p \in Pids : proc[p] = "serving" /\ entry[p] # "fresh"
EndpointKept == Unlisted ~> ~Unlisted
================================================================================
