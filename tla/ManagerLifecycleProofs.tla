------------------------- MODULE ManagerLifecycleProofs -------------------------
(***************************************************************************)
(* For every set of pids, every bound and every order of crashes, signals, *)
(* reused pids and slow shutdowns: the types; and an operator who waits    *)
(* for a command and for the start it causes never gets a second manager.  *)
(***************************************************************************)
EXTENDS ManagerLifecycle, TLAPS

--------------------------------------------------------------------------------
(* Types: every step leaves each process in a phase it can be in, and no       *)
(* process that does not manage has the event file in hand.                    *)

Phase == Starting \cup Manager \cup Foreground \cup Absent

\* What a step does to the processes, and to who has the event file.
ProcTyped ==
    /\ proc \in [Pids -> Phase] /\ command \in [Pids -> Command \cup {"child", "none"}]
    /\ seen \in [Pids -> Pids \cup {NoPid}] /\ beating \subseteq Pids
    /\ handling \subseteq Pids /\ \A p \in handling : proc[p] \in Manager

\* The files, and what is left of the bounds.
RestTyped ==
    /\ pidFile \in Pids \cup {NoPid} /\ recorded \in Pids \cup {NoPid}
    /\ file \in {"pending", "processing", "done"} /\ entry \in [Pids -> {"none", "fresh", "old"}]
    /\ lookup \in Pids \cup {NoPid} /\ isDown \in BOOLEAN
    /\ budget \in [{"commands", "faults", "slow"} -> Nat]

\* The two halves make up the type invariant.
LEMMA TypeOKParts == TypeOK <=> ProcTyped /\ RestTyped
  BY DEF TypeOK, ProcTyped, RestTyped, Phase

\* The two halves of the type invariant after a step.
LEMMA PartsTyped ==
    ASSUME ProcTyped', RestTyped'
    PROVE  TypeOK'
  BY DEF TypeOK, ProcTyped, RestTyped, Phase

\* What is left of a bound stays a number.
LEMMA SpendKeeps ==
    ASSUME budget \in [{"commands", "faults", "slow"} -> Nat], NEW what \in {"commands", "faults", "slow"},
           budget' = budget \/ Spend(what)
    PROVE  budget' \in [{"commands", "faults", "slow"} -> Nat]
  BY DEF Spend

\* A process that leaves.
LEMMA EndsTyped ==
    ASSUME ProcTyped, NEW p \in Pids, Ends(p)
    PROVE  ProcTyped'
<1>1. proc' \in [Pids -> Phase] /\ beating' \subseteq Pids /\ handling' \subseteq Pids
  BY DEF ProcTyped, Ends, Goto, Forget, Loses, Phase, Absent
<1>2. command' \in [Pids -> Command \cup {"child", "none"}] /\ seen' \in [Pids -> Pids \cup {NoPid}]
  BY DEF ProcTyped, Ends, Forget
<1>3. \A q \in handling' : proc'[q] \in Manager
  BY DEF ProcTyped, Ends, Goto, Forget, Loses
<1> QED BY <1>1, <1>2, <1>3 DEF ProcTyped

\* A process that goes on.
LEMMA GoesOnTyped ==
    ASSUME ProcTyped, NEW p \in Pids, NEW phase \in Phase, Goto(p, phase),
           UNCHANGED <<command, seen, beating>>, handling' \subseteq handling,
           proc[p] \in Manager => phase \in Manager
    PROVE  ProcTyped'
<1>1. proc' \in [Pids -> Phase]
  BY DEF ProcTyped, Goto
<1>2. \A q \in handling' : proc'[q] \in Manager
  BY DEF ProcTyped, Goto
<1> QED BY <1>1, <1>2 DEF ProcTyped

\* The steps of a start keep the types.
LEMMA StartStepTyped ==
    ASSUME TypeOK, NEW p \in Pids, StartStep(p)
    PROVE  TypeOK'
<1>0. ProcTyped /\ RestTyped
  BY TypeOKParts
<1> USE DEF Phase, Starting, Manager, Stopping, Foreground, Absent
<1>a. AfterCheck(p) \in {"starting", "preflight"}
  BY DEF AfterCheck
<1>1. ASSUME EnsureNoConflict(p) PROVE ProcTyped' /\ RestTyped'
  <2>1. RestTyped'
    BY <1>0, <1>1 DEF EnsureNoConflict, RestTyped
  <2>2. ProcTyped'
    BY <1>0, <1>1, <1>a, EndsTyped, GoesOnTyped DEF EnsureNoConflict, Remember
  <2> QED BY <2>1, <2>2
<1>2. ASSUME RemoveStalePidFile(p) PROVE ProcTyped' /\ RestTyped'
  <2>1. RestTyped'
    BY <1>0, <1>2 DEF RemoveStalePidFile, RestTyped, queueVars, registryVars
  <2>2. ProcTyped'
    BY <1>0, <1>2, <1>a, GoesOnTyped DEF RemoveStalePidFile, queueVars, registryVars
  <2> QED BY <2>1, <2>2
<1>3. ASSUME StartInForeground(p) PROVE ProcTyped' /\ RestTyped'
  <2>1. RestTyped'
    BY <1>0, <1>3 DEF StartInForeground, RestTyped, queueVars, registryVars
  <2>2. ProcTyped'
    BY <1>0, <1>3, GoesOnTyped DEF StartInForeground, queueVars, registryVars
  <2> QED BY <2>1, <2>2
<1>4. ASSUME NEW child \in Pids, SpawnDetached(p, child) PROVE ProcTyped' /\ RestTyped'
  <2>1. RestTyped'
    BY <1>0, <1>4 DEF SpawnDetached, RestTyped
  <2>2. proc' = [proc EXCEPT ![p] = "free", ![child] = "check"] /\ proc[child] = "free"
    BY <1>4 DEF SpawnDetached
  <2>3. handling' = handling \ {p} /\ beating' = beating \ {p} /\ seen' = seen
    BY <1>4 DEF SpawnDetached, Loses
  <2>4. command' \in [Pids -> Command \cup {"child", "none"}]
    BY <1>0, <1>4 DEF SpawnDetached, ProcTyped
  <2>5. proc' \in [Pids -> Phase]
    BY <1>0, <2>2 DEF ProcTyped
  <2>6. \A q \in handling' : proc'[q] \in Manager
    BY <1>0, <2>2, <2>3 DEF ProcTyped
  <2> QED BY <1>0, <2>1, <2>3, <2>4, <2>5, <2>6 DEF ProcTyped
<1>5. ASSUME RecoverStaleQueueProcessingFiles(p) PROVE ProcTyped' /\ RestTyped'
  <2>1. RestTyped'
    BY <1>0, <1>5 DEF RecoverStaleQueueProcessingFiles, RestTyped, registryVars
  <2>2. ProcTyped'
    BY <1>0, <1>5, GoesOnTyped DEF RecoverStaleQueueProcessingFiles, registryVars
  <2> QED BY <2>1, <2>2
<1>6. ASSUME StartApiServer(p) PROVE ProcTyped' /\ RestTyped'
  <2>1. RestTyped'
    BY <1>0, <1>6 DEF StartApiServer, Register, RestTyped, queueVars
  <2>2. ProcTyped'
    BY <1>0, <1>6, GoesOnTyped DEF StartApiServer, queueVars
  <2> QED BY <2>1, <2>2
<1>7. ASSUME RecordAgents(p) \/ WritePidFile(p) PROVE ProcTyped' /\ RestTyped'
  <2>1. RestTyped'
    BY <1>0, <1>7 DEF RecordAgents, WritePidFile, RestTyped, queueVars, registryVars
  <2>2. ProcTyped'
    BY <1>0, <1>7, GoesOnTyped DEF RecordAgents, WritePidFile, queueVars, registryVars
  <2> QED BY <2>1, <2>2
<1> QED BY <1>1, <1>2, <1>3, <1>4, <1>5, <1>6, <1>7, PartsTyped DEF StartStep

\* The steps of a shutdown, and of a command that causes it keep the types.
LEMMA StopStepTyped ==
    ASSUME TypeOK, NEW p \in Pids, StopStep(p)
    PROVE  TypeOK'
<1>0. ProcTyped /\ RestTyped
  BY TypeOKParts
<1> USE DEF Phase, Starting, Manager, Stopping, Foreground, Absent
<1>1. ASSUME SignalRecordedManager(p) PROVE ProcTyped' /\ RestTyped'
  <2>1. RestTyped'
    BY <1>0, <1>1 DEF SignalRecordedManager, RestTyped
  <2>2. PICK phase \in AfterSignal(pidFile) :
            /\ proc' = [proc EXCEPT ![p] = "waiting", ![pidFile] = phase]
            /\ IF phase = "free"
               THEN Loses(pidFile) /\ command' = [command EXCEPT ![pidFile] = "none"]
               ELSE UNCHANGED <<handling, beating, command>>
    BY <1>1 DEF SignalRecordedManager
  <2>3. proc[p] = "reading" /\ pidFile \in Pids /\ pidFile # p /\ seen' = [seen EXCEPT ![p] = pidFile]
    BY <1>1 DEF SignalRecordedManager, IsProcessAlive
  <2>4. phase \in Phase /\ (phase # "free" => phase \in Manager)
    BY <2>2 DEF AfterSignal
  <2>5. proc' \in [Pids -> Phase] /\ seen' \in [Pids -> Pids \cup {NoPid}]
    BY <1>0, <2>2, <2>3, <2>4 DEF ProcTyped
  <2>6. command' \in [Pids -> Command \cup {"child", "none"}] /\ beating' \subseteq Pids /\ handling' \subseteq handling
    BY <1>0, <2>2 DEF ProcTyped, Loses
  <2>7. phase = "free" => pidFile \notin handling'
    BY <2>2 DEF Loses
  <2>8. \A q \in handling' : proc'[q] \in Manager
    BY <1>0, <2>2, <2>3, <2>4, <2>6, <2>7 DEF ProcTyped
  <2> QED BY <1>0, <2>1, <2>5, <2>6, <2>8 DEF ProcTyped
<1>2. ASSUME NothingToSignal(p) PROVE ProcTyped' /\ RestTyped'
  <2>1. RestTyped'
    BY <1>0, <1>2 DEF NothingToSignal, RestTyped, queueVars, registryVars
  <2>2. ProcTyped'
    BY <1>0, <1>2, GoesOnTyped DEF NothingToSignal, queueVars, registryVars
  <2> QED BY <2>1, <2>2
<1>3. ASSUME WaitForProcessExit(p) PROVE ProcTyped' /\ RestTyped'
  <2>1. RestTyped'
    BY <1>0, <1>3, SpendKeeps DEF WaitForProcessExit, RestTyped, queueVars, registryVars
  <2>2. /\ proc[p] = "waiting" /\ proc' = [proc EXCEPT ![p] = "stop-agents"] /\ seen' = [seen EXCEPT ![p] = NoPid]
        /\ UNCHANGED <<command, handling, beating>>
    BY <1>3 DEF WaitForProcessExit, Goto, queueVars, registryVars
  <2>3. proc' \in [Pids -> Phase] /\ seen' \in [Pids -> Pids \cup {NoPid}]
    BY <1>0, <2>2 DEF ProcTyped
  <2>4. \A q \in handling' : proc'[q] \in Manager
    BY <1>0, <2>2 DEF ProcTyped
  <2> QED BY <1>0, <2>1, <2>2, <2>3, <2>4 DEF ProcTyped
<1>4. ASSUME DownAgents(p) PROVE ProcTyped' /\ RestTyped'
  <2>1. RestTyped'
    BY <1>0, <1>4 DEF DownAgents, RestTyped
  <2>2. ProcTyped'
    BY <1>0, <1>4, EndsTyped, GoesOnTyped DEF DownAgents, Remember
  <2> QED BY <2>1, <2>2
<1>5. ASSUME StopFleet(p) PROVE ProcTyped' /\ RestTyped'
  <2>1. RestTyped'
    BY <1>0, <1>5 DEF StopFleet, RestTyped, queueVars, registryVars
  <2>2. ProcTyped'
    BY <1>0, <1>5, GoesOnTyped DEF StopFleet, queueVars, registryVars
  <2> QED BY <2>1, <2>2
<1>6. ASSUME StopApiServer(p) PROVE ProcTyped' /\ RestTyped'
  <2>1. budget' \in [{"commands", "faults", "slow"} -> Nat]
    BY <1>0, <1>6, SpendKeeps DEF StopApiServer, CloseTimesOut, RestTyped
  <2>2. RestTyped'
    BY <1>0, <1>6, <2>1 DEF StopApiServer, Unregister, RestTyped, queueVars
  <2>3. ProcTyped'
    BY <1>0, <1>6, GoesOnTyped DEF StopApiServer, queueVars
  <2> QED BY <2>2, <2>3
<1>7. ASSUME Exit(p) PROVE ProcTyped' /\ RestTyped'
  <2>1. RestTyped'
    BY <1>0, <1>7 DEF Exit, RestTyped
  <2>2. ProcTyped'
    BY <1>0, <1>7, EndsTyped DEF Exit
  <2> QED BY <2>1, <2>2
<1> QED BY <1>1, <1>2, <1>3, <1>4, <1>5, <1>6, <1>7, PartsTyped DEF StopStep

\* Commands, signals, crashes and other programs keep the types.
LEMMA EnvironmentTyped ==
    ASSUME TypeOK, NEW p \in Pids, Environment(p)
    PROVE  TypeOK'
<1>0. ProcTyped /\ RestTyped
  BY TypeOKParts
<1> USE DEF Phase, Starting, Manager, Stopping, Foreground, Absent
<1>1. ASSUME NEW c \in Commands, Give(p, c) PROVE ProcTyped' /\ RestTyped'
  <2>1. RestTyped'
    BY <1>0, <1>1, SpendKeeps DEF Give, RestTyped, queueVars, registryVars
  <2>2. /\ proc[p] = "free" /\ proc' = [proc EXCEPT ![p] = IF c \in {"up", "up -d"} THEN "check" ELSE "reading"]
        /\ command' = [command EXCEPT ![p] = c] /\ UNCHANGED <<seen, handling, beating>>
    BY <1>1 DEF Give, Goto, queueVars, registryVars
  <2>3. proc' \in [Pids -> Phase] /\ command' \in [Pids -> Command \cup {"child", "none"}]
    BY <1>0, <2>2, CommandsAssumption DEF ProcTyped
  <2>4. \A q \in handling' : proc'[q] \in Manager
    BY <1>0, <2>2 DEF ProcTyped
  <2> QED BY <1>0, <2>1, <2>2, <2>3, <2>4 DEF ProcTyped
<1>2. ASSUME PreflightDeclined(p) \/ ApiServerFails(p) \/ Crash(p) PROVE ProcTyped' /\ RestTyped'
  <2>1. budget' \in [{"commands", "faults", "slow"} -> Nat]
    BY <1>0, <1>2, SpendKeeps DEF PreflightDeclined, ApiServerFails, Crash, RestTyped
  <2>2. RestTyped'
    BY <1>0, <1>2, <2>1 DEF PreflightDeclined, ApiServerFails, Crash, Unregister, RestTyped
  <2>3. ProcTyped'
    BY <1>0, <1>2, EndsTyped DEF PreflightDeclined, ApiServerFails, Crash
  <2> QED BY <2>2, <2>3
<1>3. ASSUME Interrupt(p) PROVE ProcTyped' /\ RestTyped'
  <2>1. RestTyped'
    BY <1>0, <1>3, SpendKeeps DEF Interrupt, RestTyped
  <2>2. PICK phase \in AfterSignal(p) : Goto(p, phase) /\ IF phase = "free" THEN Forget(p) ELSE Remember
    BY <1>3 DEF Interrupt
  <2>3. phase # "free" => phase \in Manager
    BY <2>2 DEF AfterSignal
  <2>4. ProcTyped'
    BY <1>0, <2>2, <2>3, EndsTyped, GoesOnTyped DEF Ends, Remember
  <2> QED BY <2>1, <2>4
<1>4. ASSUME ReusePid(p) \/ StrangerExits(p) PROVE ProcTyped' /\ RestTyped'
  <2>1. RestTyped'
    BY <1>0, <1>4, SpendKeeps DEF ReusePid, StrangerExits, RestTyped, queueVars, registryVars
  <2>2. ProcTyped'
    BY <1>0, <1>4, GoesOnTyped DEF ReusePid, StrangerExits, queueVars, registryVars
  <2> QED BY <2>1, <2>2
<1>5. ASSUME EntryAges(p) \/ DiscoverFindsStale(p) PROVE ProcTyped' /\ RestTyped'
  <2>1. budget' \in [{"commands", "faults", "slow"} -> Nat]
    BY <1>0, <1>5, SpendKeeps DEF EntryAges, DiscoverFindsStale, RestTyped
  <2>2. RestTyped'
    BY <1>0, <1>5, <2>1 DEF EntryAges, DiscoverFindsStale, RestTyped, queueVars
  <2>3. ProcTyped'
    BY <1>0, <1>5 DEF EntryAges, DiscoverFindsStale, ProcTyped, queueVars
  <2> QED BY <2>2, <2>3
<1> QED BY <1>1, <1>2, <1>3, <1>4, <1>5, PartsTyped DEF Environment

\* Every variable has its type, and only a process that manages has the event file in hand.
THEOREM LifecycleTyped == Spec => []TypeOK
<1>1. ASSUME Init PROVE TypeOK
  <2>1. budget \in [{"commands", "faults", "slow"} -> Nat]
    BY <1>1, LifecycleBounds DEF Init
  <2>2. handling \subseteq {p \in Pids : proc[p] \in Manager}
    BY <1>1 DEF Init
  <2> QED BY <1>1, <2>1, <2>2 DEF Init, TypeOK, Absent
<1>2. ASSUME TypeOK, [Next]_vars PROVE TypeOK'
  <2>0. ProcTyped /\ RestTyped
    BY <1>2, TypeOKParts
  <2>1. ASSUME NEW p \in Pids, HeartbeatStep(p) PROVE ProcTyped' /\ RestTyped'
    BY <2>0, <2>1 DEF HeartbeatStep, StartHeartbeat, WriteHeartbeat, Register, ProcTyped, RestTyped, queueVars
  <2>2. ASSUME NEW p \in Pids, QueueStep(p) PROVE ProcTyped' /\ RestTyped'
    BY <2>0, <2>2 DEF QueueStep, ClaimPendingFile, FinishFile, Consuming, ProcTyped, RestTyped, registryVars,
        Manager, Stopping
  <2>3. ASSUME Enqueue \/ DiscoverRemoves PROVE ProcTyped' /\ RestTyped'
    BY <2>0, <2>3 DEF Enqueue, DiscoverRemoves, ProcTyped, RestTyped, queueVars, registryVars
  <2>4. ASSUME UNCHANGED vars PROVE ProcTyped' /\ RestTyped'
    BY <2>0, <2>4 DEF vars, queueVars, registryVars, ProcTyped, RestTyped
  <2> QED
    BY <1>2, <2>1, <2>2, <2>3, <2>4, PartsTyped, StartStepTyped, StopStepTyped, EnvironmentTyped DEF Next
<1> QED BY <1>1, <1>2, PTL DEF Spec

--------------------------------------------------------------------------------
(* A patient operator. *)

AtWork == Foreground \cup Starting

\* One command, or start, is under way at a time.
OneAtWork == \A p, q \in Pids : (proc[p] \in AtWork /\ proc[q] \in AtWork) => p = q

\* A start that has passed the check has no manager beside it.
Checked == {"stale", "preflight"} \cup Starting
CheckedAlone == \A p, q \in Pids : proc[p] \in Checked => proc[q] \notin Manager

\* A manager that is about to write the pid file has its agents on record.
AnnouncedRecorded == \A p \in Pids : proc[p] = "announcing" => recorded = p

\* While a command waits for the manager it signalled, or saves agents.json, nobody serves.
NobodyServes == \A p, q \in Pids : proc[p] \in {"waiting", "stop-agents"} => proc[q] # "serving"

\* Only managers have the event file in hand.
HandlersManage == \A p \in handling : p \in Pids /\ proc[p] \in Manager

IInv == OneAtWork /\ CheckedAlone /\ AnnouncedRecorded /\ NobodyServes /\ HandlersManage /\ Reachable


PhaseTypeOK == proc \in [Pids -> Starting \cup Manager \cup Foreground \cup Absent]

USE DEF AtWork, OneAtWork, Checked, CheckedAlone, AnnouncedRecorded, NobodyServes, HandlersManage, Reachable,
        IInv, PhaseTypeOK, Starting, Manager, Stopping, Foreground, Absent, NoPid

--------------------------------------------------------------------------------
\* A process that leaves takes nothing from the others.
LEMMA LeavingKeeps ==
    ASSUME PhaseTypeOK, IInv, NEW p \in Pids, proc' = [proc EXCEPT ![p] = "free"],
           handling' = handling \ {p}, pidFile' = pidFile, recorded' = recorded
    PROVE  PhaseTypeOK' /\ IInv'
OBVIOUS

\* A process at work that goes on with its work, without a change of file or claim.
LEMMA WorkingKeeps ==
    ASSUME PhaseTypeOK, IInv, NEW p \in Pids, proc[p] \in Foreground \cup Starting, NEW phase,
           phase \in AtWork, proc[p] \in Checked \/ phase \notin Checked,
           phase = "announcing" => recorded = p,
           phase \in {"waiting", "stop-agents"} => \A q \in Pids : proc[q] # "serving",
           proc' = [proc EXCEPT ![p] = phase],
           handling' = handling, pidFile' = pidFile, recorded' = recorded
    PROVE  PhaseTypeOK' /\ IInv'
<1>1. PhaseTypeOK' BY DEF AtWork
<1>2. OneAtWork' OBVIOUS
<1>3. CheckedAlone' /\ AnnouncedRecorded' OBVIOUS
<1>4. NobodyServes' OBVIOUS
<1>5. HandlersManage' OBVIOUS
<1>6. Reachable' OBVIOUS
<1> QED BY <1>1, <1>2, <1>3, <1>4, <1>5, <1>6

\* A manager that moves on in its shutdown, or gets its first signal.
LEMMA StoppingKeeps ==
    ASSUME PhaseTypeOK, IInv, NEW p \in Pids, proc[p] \in Manager, NEW phase, phase \in Stopping,
           proc' = [proc EXCEPT ![p] = phase],
           handling' = handling, pidFile' = pidFile, recorded' \in {recorded, NoPid},
           \A q \in Pids : proc[q] = "announcing" => recorded' = recorded
    PROVE  PhaseTypeOK' /\ IInv'
OBVIOUS

--------------------------------------------------------------------------------
\* One step of a start keeps the invariant.
LEMMA StartStepKeeps ==
    ASSUME PhaseTypeOK, IInv, NEW p \in Pids, StartStep(p)
    PROVE  PhaseTypeOK' /\ IInv'
<1> USE DEF Goto, Ends, Forget, Loses, Remember, AfterCheck, IsProcessAlive, queueVars, registryVars
<1>1. CASE EnsureNoConflict(p)
  <2>1. CASE proc' = [proc EXCEPT ![p] = "free"]
    BY <1>1, <2>1, LeavingKeeps DEF EnsureNoConflict
  <2>2. CASE proc' = [proc EXCEPT ![p] = "stale"]
    <3>1. \A q \in Pids : proc[q] \notin Manager
      BY <1>1, <2>2 DEF EnsureNoConflict
    <3>2. proc[p] = "check" /\ pidFile' = pidFile /\ recorded' = recorded /\ handling' = handling
      BY <1>1, <2>2 DEF EnsureNoConflict
    <3> QED BY <2>2, <3>1, <3>2
  <2>3. CASE proc' = [proc EXCEPT ![p] = AfterCheck(p)]
    <3>1. proc[p] = "check" /\ pidFile' = pidFile /\ recorded' = recorded /\ handling' = handling
      BY <1>1, <2>3 DEF EnsureNoConflict
    <3>2. \A q \in Pids : proc[q] \notin Manager
      BY <1>1, <2>3, <3>1, PidsAssumption DEF EnsureNoConflict
    <3> QED BY <2>3, <3>1, <3>2
  <2> QED BY <1>1, <2>1, <2>2, <2>3 DEF EnsureNoConflict
<1>2. CASE RemoveStalePidFile(p)
  <2>1. \A q \in Pids : proc[q] \notin Manager
    BY <1>2 DEF RemoveStalePidFile
  <2> QED BY <1>2, <2>1 DEF RemoveStalePidFile
<1>3. CASE StartInForeground(p)
  BY <1>3, WorkingKeeps DEF StartInForeground
<1>4. ASSUME NEW child \in Pids, SpawnDetached(p, child) PROVE PhaseTypeOK' /\ IInv'
  <2>1. /\ proc[p] = "preflight" /\ proc[child] = "free" /\ proc' = [proc EXCEPT ![p] = "free", ![child] = "check"]
        /\ handling' = handling \ {p} /\ pidFile' = pidFile /\ recorded' = recorded
    BY <1>4 DEF SpawnDetached
  <2>2. PhaseTypeOK'
    BY <2>1
  <2>3. proc'[p] = "free" /\ proc'[child] = "check" /\ \A q \in Pids \ {p, child} : proc'[q] = proc[q]
    BY <2>1
  <2>4. OneAtWork'
    BY <2>1, <2>3
  <2>5. CheckedAlone' /\ AnnouncedRecorded' /\ NobodyServes'
    BY <2>1, <2>3
  <2>6. HandlersManage' /\ Reachable'
    BY <2>1, <2>3
  <2> QED BY <2>2, <2>4, <2>5, <2>6
<1>5. CASE RecoverStaleQueueProcessingFiles(p)
  BY <1>5, WorkingKeeps DEF RecoverStaleQueueProcessingFiles
<1>6. CASE StartApiServer(p)
  BY <1>6, WorkingKeeps DEF StartApiServer
<1>7. CASE RecordAgents(p)
  BY <1>7 DEF RecordAgents
<1>8. CASE WritePidFile(p)
  BY <1>8 DEF WritePidFile
<1> QED BY <1>1, <1>2, <1>3, <1>4, <1>5, <1>6, <1>7, <1>8 DEF StartStep

\* One step of a shutdown, or of a command that causes it, keeps the invariant.
LEMMA StopStepKeeps ==
    ASSUME PhaseTypeOK, IInv, NEW p \in Pids, StopStep(p)
    PROVE  PhaseTypeOK' /\ IInv'
<1> USE DEF Goto, Ends, Forget, Loses, Remember, IsProcessAlive, queueVars, registryVars
<1>1. CASE SignalRecordedManager(p)
  <2>1. PICK phase \in AfterSignal(pidFile) :
            /\ proc' = [proc EXCEPT ![p] = "waiting", ![pidFile] = phase]
            /\ handling' = IF phase = "free" THEN handling \ {pidFile} ELSE handling
    BY <1>1 DEF SignalRecordedManager
  <2>2. pidFile \in Pids /\ pidFile # p /\ proc[p] = "reading" /\ pidFile' = pidFile /\ recorded' = recorded
    BY <1>1 DEF SignalRecordedManager
  <2>3. phase = "free" \/ (proc[pidFile] \in Manager /\ phase \in Stopping)
    BY <2>1, <2>2 DEF AfterSignal
  <2>4. proc'[p] = "waiting" /\ proc'[pidFile] = phase /\ \A q \in Pids \ {p, pidFile} : proc'[q] = proc[q]
    BY <2>1, <2>2
  <2>5. PhaseTypeOK'
    BY <2>1, <2>2, <2>3
  <2>6. \A q \in Pids : proc'[q] # "serving"
    BY <2>2, <2>3, <2>4
  <2>7. \A q \in Pids : (proc'[q] \in AtWork => q = p) /\ proc'[q] \notin Checked
    BY <2>2, <2>3, <2>4
  <2>8. OneAtWork' /\ CheckedAlone' /\ AnnouncedRecorded'
    BY <2>7
  <2>9. NobodyServes'
    BY <2>6
  <2>10. HandlersManage'
    BY <2>1, <2>2, <2>3, <2>4
  <2>11. Reachable'
    BY <2>2, <2>3, <2>4, <2>6
  <2> QED BY <2>5, <2>8, <2>9, <2>10, <2>11
<1>2. CASE NothingToSignal(p)
  <2>1. \A q \in Pids : proc[q] \notin Manager
    BY <1>2, PidsAssumption DEF NothingToSignal
  <2> QED BY <1>2, <2>1, WorkingKeeps DEF NothingToSignal
<1>3. CASE WaitForProcessExit(p)
  BY <1>3, WorkingKeeps DEF WaitForProcessExit
<1>4. CASE DownAgents(p)
  <2>1. proc[p] = "stop-agents" /\ recorded' = NoPid /\ pidFile' = pidFile
    BY <1>4 DEF DownAgents
  <2>2. \A q \in Pids : proc[q] # "serving" /\ proc[q] # "announcing"
    BY <2>1
  <2>3. CASE proc' = [proc EXCEPT ![p] = "free"] /\ handling' = handling \ {p}
    BY <2>1, <2>2, <2>3
  <2>4. CASE proc' = [proc EXCEPT ![p] = "check"] /\ handling' = handling
    <3>1. PhaseTypeOK' /\ \A q \in Pids \ {p} : proc'[q] = proc[q]
      BY <2>4
    <3> QED BY <2>1, <2>2, <2>4, <3>1
  <2> QED BY <1>4, <2>3, <2>4 DEF DownAgents
<1>5. CASE StopFleet(p)
  BY <1>5, StoppingKeeps DEF StopFleet
<1>6. CASE StopApiServer(p)
  BY <1>6, StoppingKeeps DEF StopApiServer
<1>7. CASE Exit(p)
  BY <1>7 DEF Exit
<1> QED BY <1>1, <1>2, <1>3, <1>4, <1>5, <1>6, <1>7 DEF StopStep

\* Commands, signals, crashes and other programs keep the invariant, if the operator is patient.
LEMMA EnvironmentKeeps ==
    ASSUME PatientOperator = TRUE, PhaseTypeOK, IInv, NEW p \in Pids, Environment(p)
    PROVE  PhaseTypeOK' /\ IInv'
<1> USE DEF Goto, Ends, Forget, Loses, Remember, queueVars, registryVars
<1>1. ASSUME NEW c \in Commands, Give(p, c) PROVE PhaseTypeOK' /\ IInv'
  <2>1. PICK phase \in {"check", "reading"} : proc' = [proc EXCEPT ![p] = phase]
    BY <1>1 DEF Give
  <2>2. proc[p] = "free" /\ pidFile' = pidFile /\ recorded' = recorded /\ handling' = handling
    BY <1>1 DEF Give
  <2>3. \A q \in Pids : proc[q] \notin AtWork
    BY <1>1 DEF Give, Quiet
  <2>4. proc'[p] = phase /\ \A q \in Pids \ {p} : proc'[q] = proc[q]
    BY <2>1
  <2>5. PhaseTypeOK' /\ OneAtWork'
    BY <2>1, <2>3, <2>4
  <2>6. CheckedAlone' /\ AnnouncedRecorded' /\ NobodyServes'
    BY <2>2, <2>3, <2>4
  <2>7. HandlersManage' /\ Reachable'
    BY <2>2, <2>4
  <2> QED BY <2>5, <2>6, <2>7
<1>2. CASE PreflightDeclined(p) \/ ApiServerFails(p) \/ Crash(p)
  BY <1>2, LeavingKeeps DEF PreflightDeclined, ApiServerFails, Crash
<1>3. CASE Interrupt(p)
  <2>1. PICK phase \in AfterSignal(p) :
            proc' = [proc EXCEPT ![p] = phase] /\ handling' = IF phase = "free" THEN handling \ {p} ELSE handling
    BY <1>3 DEF Interrupt
  <2>2. pidFile' = pidFile /\ recorded' = recorded
    BY <1>3 DEF Interrupt
  <2>3. CASE phase = "free"
    BY <2>1, <2>2, <2>3, LeavingKeeps
  <2>4. CASE phase # "free"
    <3>1. proc[p] \in Manager /\ phase \in Stopping
      BY <2>1, <2>4 DEF AfterSignal
    <3> QED BY <2>1, <2>2, <2>4, <3>1, StoppingKeeps
  <2> QED BY <2>3, <2>4
<1>4. CASE ReusePid(p) \/ StrangerExits(p)
  BY <1>4 DEF ReusePid, StrangerExits
<1>5. CASE EntryAges(p) \/ DiscoverFindsStale(p)
  BY <1>5 DEF EntryAges, DiscoverFindsStale
<1> QED BY <1>1, <1>2, <1>3, <1>4, <1>5 DEF Environment

\* Every step keeps the invariant.
LEMMA NextKeeps ==
    ASSUME PatientOperator = TRUE, PhaseTypeOK, IInv, [Next]_vars
    PROVE  PhaseTypeOK' /\ IInv'
<1> USE DEF queueVars, registryVars
<1>1. ASSUME NEW p \in Pids, HeartbeatStep(p) PROVE PhaseTypeOK' /\ IInv'
  BY <1>1 DEF HeartbeatStep, StartHeartbeat, WriteHeartbeat
<1>2. ASSUME NEW p \in Pids, QueueStep(p) PROVE PhaseTypeOK' /\ IInv'
  BY <1>2 DEF QueueStep, ClaimPendingFile, FinishFile, Consuming
<1>3. CASE Enqueue \/ DiscoverRemoves
  BY <1>3 DEF Enqueue, DiscoverRemoves
<1>4. CASE UNCHANGED vars
  BY <1>4 DEF vars
<1> QED BY <1>1, <1>2, <1>3, <1>4, StartStepKeeps, StopStepKeeps, EnvironmentKeeps DEF Next

\* With a patient operator a manager that serves or stops is the one the pid file names, whatever
\* crashes, is signalled twice, stops slowly or takes a pid used before; so there is one at most,
\* and `down' finds it.
THEOREM ManagerReachable == ASSUME PatientOperator = TRUE PROVE Spec => []Reachable
<1>1. Init => PhaseTypeOK /\ IInv
  BY DEF Init
<1>2. PhaseTypeOK /\ IInv /\ [Next]_vars => PhaseTypeOK' /\ IInv'
  BY NextKeeps
<1>3. IInv => Reachable
  OBVIOUS
<1> QED BY <1>1, <1>2, <1>3, PTL DEF Spec

\* Nor is an event file ever in the hands of two managers: the one that could move the file the
\* other has in hand back to pending does not start beside it.
THEOREM FileHandledOnce == ASSUME PatientOperator = TRUE PROVE Spec => []HandledOnce
<1>1. Init => PhaseTypeOK /\ IInv
  BY DEF Init
<1>2. PhaseTypeOK /\ IInv /\ [Next]_vars => PhaseTypeOK' /\ IInv'
  BY NextKeeps
<1>3. IInv => HandledOnce
  BY DEF HandledOnce
<1> QED BY <1>1, <1>2, <1>3, PTL DEF Spec
================================================================================
