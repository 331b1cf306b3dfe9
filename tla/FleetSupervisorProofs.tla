------------------------- MODULE FleetSupervisorProofs -------------------------
(***************************************************************************)
(* Proofs about the supervisor: what `supervisor status' says of a fleet   *)
(* is true, and one Ctrl-C never forces a manager out of its shutdown.     *)
(***************************************************************************)
EXTENDS FleetSupervisor, TLAPS

--------------------------------------------------------------------------------
Live(f) == phase[f] # "off"

\* Signals and requests to stop: nothing is on its way to a manager that was not asked to stop, and
\* one whose arm delay has passed has no more to come from the one request it had.
Requested ==
    \A f \in Fleets :
        /\ ~Live(f) => signals[f] = 0 /\ f \notin children /\ f \notin armed
        /\ signals[f] > 0 => requests[f] > 0
        /\ phase[f] \in Closing => requests[f] > 0
        /\ f \in children /\ pressed > 0 => requests[f] > 0

Armed ==
    \A f \in armed :
        /\ phase[f] \in Closing
        /\ requests[f] > 1 \/ (signals[f] = 0 /\ (f \in children => pressed = 0))

Quiet == up = "none" => pressed = 0

\* A manager has a port while its server runs, and no two have the same.
PortsHeld ==
    /\ \A f \in Fleets : port[f] = NoPort <=> phase[f] \in {"off", "launched"}
    /\ \A f, g \in Fleets : port[f] = port[g] /\ port[f] # NoPort => f = g

\* What the two observers have seen.
Asking == \E f \in Fleets : query[f].at # "idle"
Seen ==
    /\ Asking => \A g \in Fleets : port[g] # NoPort => g \in alive
    /\ \A f \in steady : Undisturbed(f)

\* What a status child knows: a target is a port, an answer "running" came from its own project...
Heard(f) ==
    /\ query[f].at = "asking" => query[f].target \in Ports
    /\ query[f].at = "done" /\ query[f].result = "running" =>
            \E g \in alive : ProjectId(g) = ProjectId(f)

\* ... and for a fleet that served undisturbed the search cannot have missed it.
Found(f) ==
    /\ query[f].at = "probing" => port[f] \in query[f].candidates
    /\ query[f].at = "asking" => query[f].target = port[f]
    /\ query[f].at = "done" => query[f].result = "running"

StatusKnown ==
    /\ \A f \in Fleets \ excused : Heard(f)
    /\ \A f \in steady \ (excused \cup Clones) : Found(f)

IInv == TypeOK /\ Requested /\ Armed /\ Quiet /\ OnePressIsGraceful /\ PortsHeld /\ Seen /\ StatusKnown
--------------------------------------------------------------------------------
(* The steps, and the types of the variables. *)

\* A step of one fleet, a step that concerns several; the observers watch every one of them.
FleetStep(f) ==
    \/ Listen(f) \/ Serve(f) \/ Deliver(f) \/ StopAgents(f) \/ Exit(f)
    \/ EndsUnasked(f) \/ ArmForceExit(f) \/ SignalRecordedManager(f) \/ DownAgents(f)
QueryStep(f) ==
    \/ ReadStatus(f) \/ (\E p \in Ports : ProbeEndpoint(f, p)) \/ NoEndpoint(f)
    \/ AskStatus(f) \/ RequestTimesOut(f) \/ StatusChildFails(f)
CommonStep ==
    \/ ForwardSignal \/ ForceExit \/ SupervisorUpEnds
    \/ (\E fs \in SUBSET Fleets : LaunchDetached(fs))
    \/ SupervisorUp \/ Press \/ Kill \/ SupervisorDown
AllQueries == SupervisorStatus \/ PrintStatus

LEMMA StepKinds ==
    ASSUME Next
    PROVE  /\ Watch
           /\ \/ \E f \in Fleets : FleetStep(f) \/ QueryStep(f)
              \/ CommonStep \/ AllQueries
BY DEF Next, FleetStep, QueryStep, CommonStep, AllQueries, ManagerStep, DownStep, StatusStep,
       SupervisorStep, Operator

\* The query of a status child is a record; each of the code's updates yields one.
Query == [at : {"idle", "reading", "probing", "asking", "done"},
          own : {"stopped", "degraded"}, candidates : SUBSET Ports,
          target : Ports \cup {NoPort},
          result : {"none", "unknown", "running", "stopped", "degraded"}]

ManagersTyped ==
    /\ phase \in [Fleets -> {"off", "serving"} \cup Starting \cup Closing]
    /\ port \in [Fleets -> Ports \cup {NoPort}]
    /\ recorded \in [Fleets -> {"stopped", "partly", "running"}]
    /\ signals \in [Fleets -> Nat] /\ requests \in [Fleets -> Nat]
    /\ armed \subseteq Fleets /\ cut \subseteq Fleets
ParentTyped ==
    /\ children \subseteq Fleets
    /\ up \in {"none", "running", "requested"} /\ pressed \in Nat
    /\ stopping \in [Fleets -> {"idle", "reading", "waiting"}]
QueriesTyped == query \in [Fleets -> Query] /\ excused \subseteq Fleets
SeenTyped == alive \subseteq Fleets /\ steady \subseteq Fleets
BudgetTyped == budget \in [{"commands", "faults"} -> Nat]

LEMMA Parts ==
    TypeOK <=> /\ ManagersTyped /\ ParentTyped /\ QueriesTyped /\ SeenTyped /\ BudgetTyped
BY DEF TypeOK, ManagersTyped, ParentTyped, QueriesTyped, SeenTyped, BudgetTyped, Query

LEMMA PartsNext ==
    ASSUME ManagersTyped', ParentTyped', QueriesTyped', SeenTyped', BudgetTyped'
    PROVE  TypeOK'
BY DEF TypeOK, ManagersTyped, ParentTyped, QueriesTyped, SeenTyped, BudgetTyped, Query

\* What is paid for by a bound leaves a smaller one.
LEMMA SpendTyped ==
    ASSUME BudgetTyped, NEW w \in {"commands", "faults"}, Spend(w)
    PROVE  BudgetTyped'
BY DEF BudgetTyped, Spend

LEMMA BudgetStep ==
    ASSUME BudgetTyped, Next
    PROVE  BudgetTyped'
<1>1. UNCHANGED budget \/ \E w \in {"commands", "faults"} : Spend(w)
  <2>1. ASSUME NEW f \in Fleets, FleetStep(f)
        PROVE  UNCHANGED budget \/ \E w \in {"commands", "faults"} : Spend(w)
    BY <2>1 DEF FleetStep, Listen, Serve, Deliver, StopAgents, Exit, EndsUnasked, ArmForceExit,
                SignalRecordedManager, DownAgents
  <2>2. ASSUME NEW f \in Fleets, QueryStep(f)
        PROVE  UNCHANGED budget \/ \E w \in {"commands", "faults"} : Spend(w)
    BY <2>2 DEF QueryStep, ReadStatus, ProbeEndpoint, NoEndpoint, AskStatus, RequestTimesOut,
                StatusChildFails
  <2>3. ASSUME CommonStep
        PROVE  UNCHANGED budget \/ \E w \in {"commands", "faults"} : Spend(w)
    BY <2>3 DEF CommonStep, ForwardSignal, ForceExit, SupervisorUpEnds, LaunchDetached,
                SupervisorUp, Press, Kill, SupervisorDown
  <2>4. ASSUME AllQueries
        PROVE  UNCHANGED budget \/ \E w \in {"commands", "faults"} : Spend(w)
    BY <2>4 DEF AllQueries, SupervisorStatus, PrintStatus
  <2> QED BY <2>1, <2>2, <2>3, <2>4, StepKinds
<1> QED BY <1>1, SpendTyped DEF BudgetTyped

LEMMA SeenTypeStep ==
    ASSUME SeenTyped, Watch
    PROVE  SeenTyped'
<1>1. PICK now \in BOOLEAN :
        alive' = IF now THEN alive \cup {f \in Fleets : port'[f] # NoPort} ELSE {}
  BY DEF Watch
<1>2. alive' \subseteq Fleets
  BY <1>1 DEF SeenTyped
<1>3. steady' \subseteq Fleets
  BY DEF Watch
<1> QED BY <1>2, <1>3 DEF SeenTyped

LEMMA LeaveTyped ==
    ASSUME ManagersTyped, ParentTyped, NEW f \in Fleets, Leave(f),
           UNCHANGED <<recorded, requests, up, pressed, stopping>>, cut' \subseteq Fleets
    PROVE  ManagersTyped' /\ ParentTyped'
BY DEF ManagersTyped, ParentTyped, Leave, Goto

LEMMA FleetTypeStep ==
    ASSUME ManagersTyped, ParentTyped, QueriesTyped, NEW f \in Fleets, FleetStep(f)
    PROVE  ManagersTyped' /\ ParentTyped' /\ QueriesTyped'
<1>0. UNCHANGED <<query, excused>>
  BY DEF FleetStep, Listen, Serve, Deliver, StopAgents, Exit, EndsUnasked, ArmForceExit,
         SignalRecordedManager, DownAgents, queryVars
<1>1. CASE Listen(f)
  BY <1>0, <1>1 DEF Listen, Goto, Starting, ManagersTyped, ParentTyped, QueriesTyped, upVars
<1>2. CASE Serve(f)
  BY <1>0, <1>2 DEF Serve, Goto, ManagersTyped, ParentTyped, QueriesTyped, upVars
<1>3. CASE Deliver(f)
  <2>1. PICK action : /\ action = ClassifyShutdownSignal(f)
                      /\ IF action \in {"kill", "force_exit"}
                         THEN Leave(f)
                         ELSE /\ signals' = [signals EXCEPT ![f] = @ - 1]
                              /\ phase' = IF action = "start" THEN [phase EXCEPT ![f] = "stopping"]
                                                              ELSE phase
                              /\ UNCHANGED <<port, armed, children>>
                      /\ cut' = IF action = "force_exit" THEN cut \cup {f} ELSE cut
    BY <1>3 DEF Deliver
  <2>2. UNCHANGED <<recorded, requests, up, pressed, stopping>> /\ signals[f] > 0
    BY <1>3 DEF Deliver
  <2>3. cut' \subseteq Fleets
    BY <2>1 DEF ManagersTyped
  <2>4. CASE action \in {"kill", "force_exit"}
    BY <1>0, <2>1, <2>2, <2>3, <2>4, LeaveTyped DEF QueriesTyped
  <2>5. CASE action \notin {"kill", "force_exit"}
    BY <1>0, <2>1, <2>2, <2>3, <2>5 DEF QueriesTyped, ManagersTyped, ParentTyped, Closing
  <2> QED BY <2>4, <2>5
<1>4. CASE StopAgents(f)
  BY <1>0, <1>4 DEF StopAgents, Goto, Closing, ManagersTyped, ParentTyped, QueriesTyped, upVars
<1>5. CASE Exit(f)
  BY <1>0, <1>5, LeaveTyped DEF Exit, QueriesTyped, ManagersTyped
<1>6. CASE EndsUnasked(f)
  BY <1>0, <1>6, LeaveTyped DEF EndsUnasked, QueriesTyped, ManagersTyped
<1>7. CASE ArmForceExit(f)
  BY <1>0, <1>7 DEF ArmForceExit, ManagersTyped, ParentTyped, QueriesTyped, upVars
<1>8. CASE SignalRecordedManager(f)
  BY <1>0, <1>8 DEF SignalRecordedManager, Signalled, Asked, ManagersTyped, ParentTyped,
                    QueriesTyped, upVars
<1>9. CASE DownAgents(f)
  BY <1>0, <1>9 DEF DownAgents, ManagersTyped, ParentTyped, QueriesTyped, upVars
<1> QED BY <1>1, <1>2, <1>3, <1>4, <1>5, <1>6, <1>7, <1>8, <1>9 DEF FleetStep

LEMMA CommonTypeStep ==
    ASSUME ManagersTyped, ParentTyped, QueriesTyped, CommonStep
    PROVE  ManagersTyped' /\ ParentTyped' /\ QueriesTyped'
<1>0. UNCHANGED <<query, excused>>
  BY DEF CommonStep, ForwardSignal, ForceExit, SupervisorUpEnds, LaunchDetached, SupervisorUp,
         Press, Kill, SupervisorDown, queryVars
<1>1. QueriesTyped'
  BY <1>0 DEF QueriesTyped
<1>2. CASE ForwardSignal
  BY <1>1, <1>2 DEF ForwardSignal, Signalled, ManagersTyped, ParentTyped
<1>3. CASE ForceExit \/ SupervisorUpEnds
  BY <1>1, <1>3 DEF ForceExit, SupervisorUpEnds, fleetVars, ManagersTyped, ParentTyped
<1>4. CASE \E fs \in SUBSET Fleets : LaunchDetached(fs)
  BY <1>1, <1>4 DEF LaunchDetached, Launched, upVars, Starting, ManagersTyped, ParentTyped
<1>5. CASE SupervisorUp
  BY <1>1, <1>5 DEF SupervisorUp, Launched, Startable, Starting, ManagersTyped, ParentTyped
<1>6. CASE Press
  BY <1>1, <1>6 DEF Press, Signalled, Asked, ManagersTyped, ParentTyped
<1>7. CASE Kill
  BY <1>1, <1>7 DEF Kill, Asked, ManagersTyped, ParentTyped
<1>8. CASE SupervisorDown
  BY <1>1, <1>8 DEF SupervisorDown, fleetVars, upVars, ManagersTyped, ParentTyped
<1> QED BY <1>2, <1>3, <1>4, <1>5, <1>6, <1>7, <1>8 DEF CommonStep
\* The record each of the updates puts in the place of a query.
Results == {"none", "unknown", "running", "stopped", "degraded"}

LEMMA IdleQuery ==
    /\ Idle \in Query
    /\ [Idle EXCEPT !.at = "reading"] \in Query
    /\ [Idle EXCEPT !.at = "reading"].at = "reading"
    /\ Idle.at = "idle"
BY DEF Idle, Query

LEMMA IdleDone ==
    ASSUME NEW s \in Results
    PROVE  /\ [Idle EXCEPT !.at = "done", !.result = s] \in Query
           /\ [Idle EXCEPT !.at = "done", !.result = s].at = "done"
           /\ [Idle EXCEPT !.at = "done", !.result = s].result = s
<1>1. PICK r \in Query : r = Idle
  BY IdleQuery
<1>2. /\ [r EXCEPT !.at = "done", !.result = s] \in Query
      /\ [r EXCEPT !.at = "done", !.result = s].at = "done"
      /\ [r EXCEPT !.at = "done", !.result = s].result = s
  BY DEF Query, Results
<1> QED BY <1>1, <1>2

AfterRead(f, o, c) ==
    [query EXCEPT ![f].at = "probing", ![f].own = o, ![f].candidates = c]
AfterPass(f, c) == [query EXCEPT ![f].candidates = c]

LEMMA RecordRead ==
    ASSUME QueriesTyped, NEW f \in Fleets, NEW o \in {"stopped", "degraded"}, NEW c \in SUBSET Ports
    PROVE  \E r \in Query :
              /\ AfterRead(f, o, c) = [query EXCEPT ![f] = r]
              /\ r.at = "probing" /\ r.own = o /\ r.candidates = c /\ r.target = query[f].target /\ r.result = query[f].result
<1>1. PICK r0 \in Query : r0 = query[f]
  BY DEF QueriesTyped
<1>2. [r0 EXCEPT !.at = "probing", !.own = o, !.candidates = c] \in Query
  BY DEF Query
<1>3. PICK r \in Query : r = [r0 EXCEPT !.at = "probing", !.own = o, !.candidates = c]
  BY <1>2
<1>4. r.at = "probing" /\ r.own = o /\ r.candidates = c /\ r.target = r0.target /\ r.result = r0.result
  BY <1>3 DEF Query
<1>5. query \in [Fleets -> Query]
  BY DEF QueriesTyped
<1>6. AfterRead(f, o, c) = [query EXCEPT ![f] = r]
  BY <1>1, <1>3, <1>5 DEF AfterRead
<1> QED BY <1>1, <1>4, <1>6

LEMMA RecordAsked ==
    ASSUME QueriesTyped, NEW f \in Fleets, NEW p \in Ports
    PROVE  \E r \in Query :
              /\ [query EXCEPT ![f].at = "asking", ![f].target = p, ![f].candidates = {}] = [query EXCEPT ![f] = r]
              /\ r.at = "asking" /\ r.own = query[f].own /\ r.candidates = {} /\ r.target = p /\ r.result = query[f].result
<1>1. PICK r0 \in Query : r0 = query[f]
  BY DEF QueriesTyped
<1>2. [r0 EXCEPT !.at = "asking", !.target = p, !.candidates = {}] \in Query
  BY DEF Query
<1>3. PICK r \in Query : r = [r0 EXCEPT !.at = "asking", !.target = p, !.candidates = {}]
  BY <1>2
<1>4. r.at = "asking" /\ r.own = r0.own /\ r.candidates = {} /\ r.target = p /\ r.result = r0.result
  BY <1>3 DEF Query
<1>5. query \in [Fleets -> Query]
  BY DEF QueriesTyped
<1>6. [query EXCEPT ![f].at = "asking", ![f].target = p, ![f].candidates = {}] = [query EXCEPT ![f] = r]
  BY <1>1, <1>3, <1>5
<1> QED BY <1>1, <1>4, <1>6

LEMMA RecordPassed ==
    ASSUME QueriesTyped, NEW f \in Fleets, NEW c \in SUBSET Ports
    PROVE  \E r \in Query :
              /\ AfterPass(f, c) = [query EXCEPT ![f] = r]
              /\ r.at = query[f].at /\ r.own = query[f].own /\ r.candidates = c /\ r.target = query[f].target /\ r.result = query[f].result
<1>1. PICK r0 \in Query : r0 = query[f]
  BY DEF QueriesTyped
<1>2. [r0 EXCEPT !.candidates = c] \in Query
  BY DEF Query
<1>3. PICK r \in Query : r = [r0 EXCEPT !.candidates = c]
  BY <1>2
<1>4. r.at = r0.at /\ r.own = r0.own /\ r.candidates = c /\ r.target = r0.target /\ r.result = r0.result
  BY <1>3 DEF Query
<1>5. query \in [Fleets -> Query]
  BY DEF QueriesTyped
<1>6. AfterPass(f, c) = [query EXCEPT ![f] = r]
  BY <1>1, <1>3, <1>5 DEF AfterPass
<1> QED BY <1>1, <1>4, <1>6

\* The one record a step of a status child writes, kind by kind.
Reading(f, r) ==
    /\ query[f].at = "reading" /\ r.at = "probing" /\ r.own \in {"stopped", "degraded"}
    /\ r.candidates \subseteq Ports /\ r.target = query[f].target /\ r.result = query[f].result
    /\ f \notin excused' => r.candidates = {port[g] : g \in Fleets} \ {NoPort}
Probing(f, r) ==
    /\ query[f].at = "probing"
    /\ \E p \in query[f].candidates :
        IF \E g \in Fleets : Answers(g, p) /\ SameProject(f, g)
        THEN /\ r.at = "asking" /\ r.target = p /\ r.own = query[f].own /\ r.candidates = {}
             /\ r.result = query[f].result
        ELSE /\ r.at = "probing" /\ r.own = query[f].own /\ r.target = query[f].target
             /\ r.candidates = query[f].candidates \ {p} /\ r.result = query[f].result
Settling(f, r) ==
    /\ query[f].at = "probing" /\ query[f].candidates = {}
    /\ r.at = "done" /\ r.result = query[f].own
Answered(f, r) ==
    /\ query[f].at = "asking" /\ r.at = "done"
    /\ \/ \E g \in Fleets : /\ Answers(g, query[f].target) /\ r.result = ApiStatus(g)
                            /\ SameProject(f, g) \/ f \in excused'
       \/ (\A g \in Fleets : ~Answers(g, query[f].target)) /\ r.result = query[f].own
Faulty(f) == f \in excused'

LEMMA QueryStepKinds ==
    ASSUME ManagersTyped, QueriesTyped, NEW f \in Fleets, QueryStep(f)
    PROVE  /\ UNCHANGED <<fleetVars, upVars, stopping>>
           /\ excused \subseteq excused' /\ excused' \subseteq Fleets
           /\ \E r \in Query : /\ query' = [query EXCEPT ![f] = r]
                               /\ \/ Reading(f, r) \/ Probing(f, r) \/ Settling(f, r)
                                  \/ Answered(f, r) \/ Faulty(f)
<1> DEFINE Goal == \E r \in Query : /\ query' = [query EXCEPT ![f] = r]
                                    /\ \/ Reading(f, r) \/ Probing(f, r) \/ Settling(f, r)
                                       \/ Answered(f, r) \/ Faulty(f)
<1>1. /\ UNCHANGED <<fleetVars, upVars, stopping>>
      /\ excused \subseteq excused' /\ excused' \subseteq Fleets
  <2>1. UNCHANGED <<fleetVars, upVars, stopping>>
    BY DEF QueryStep, ReadStatus, ProbeEndpoint, NoEndpoint, AskStatus, RequestTimesOut,
           StatusChildFails
  <2>2. excused' = excused \/ excused' = excused \cup {f}
    BY DEF QueryStep, ReadStatus, ProbeEndpoint, NoEndpoint, AskStatus, RequestTimesOut,
           StatusChildFails
  <2> QED BY <2>1, <2>2 DEF QueriesTyped
<1>2. query \in [Fleets -> Query]
  BY DEF QueriesTyped
<1>3. PICK r0 \in Query : r0 = query[f]
  BY <1>2
<1>4. ASSUME NEW s \in Results, Report(f, s)
      PROVE  \E r \in Query : query' = [query EXCEPT ![f] = r] /\ r.at = "done" /\ r.result = s
  BY <1>4, IdleDone DEF Report
<1>5. ASSUME ReadStatus(f)
      PROVE  Goal
  <2>1. PICK late \in SUBSET {g \in Fleets : port[g] # NoPort} :
          /\ query' = [query EXCEPT ![f].at = "probing",
                                    ![f].own = SummarizeStatus(recorded[f], "stopped"),
                                    ![f].candidates = Discovered(late)]
          /\ IF late = {} THEN UNCHANGED <<excused, budget>>
                          ELSE Spend("faults") /\ excused' = excused \cup {f}
    BY <1>5 DEF ReadStatus
  <2>2. PICK o : o = SummarizeStatus(recorded[f], "stopped")
    OBVIOUS
  <2>3. PICK c : c = Discovered(late)
    OBVIOUS
  <2>4. o \in {"stopped", "degraded"}
    BY <2>2 DEF SummarizeStatus, ManagersTyped
  <2>5. c \subseteq Ports
    BY <2>3 DEF Discovered, ManagersTyped
  <2>6. PICK r \in Query :
          /\ query' = [query EXCEPT ![f] = r]
          /\ r.at = "probing" /\ r.own = o /\ r.candidates = c /\ r.target = query[f].target
          /\ r.result = query[f].result
    <3>1. query' = AfterRead(f, o, c)
      BY <2>1, <2>2, <2>3 DEF AfterRead
    <3>2. PICK r \in Query :
            /\ AfterRead(f, o, c) = [query EXCEPT ![f] = r]
            /\ r.at = "probing" /\ r.own = o /\ r.candidates = c /\ r.target = query[f].target
            /\ r.result = query[f].result
      BY <2>4, <2>5, RecordRead
    <3> QED BY <3>1, <3>2
  <2>7. f \notin excused' => c = {port[g] : g \in Fleets} \ {NoPort}
    BY <2>1, <2>3 DEF Discovered
  <2>8. f \notin excused => f \notin excused' \/ Faulty(f)
    BY DEF Faulty
  <2>9. Reading(f, r) \/ Faulty(f)
    BY <1>5, <2>4, <2>5, <2>6, <2>7, <2>8 DEF Reading, ReadStatus, Faulty
  <2> QED BY <2>6, <2>9
<1>6. ASSUME NEW p \in Ports, ProbeEndpoint(f, p)
      PROVE  Goal
  <2>1. query[f].at = "probing" /\ p \in query[f].candidates
    BY <1>6 DEF ProbeEndpoint
  <2>2. CASE \E g \in Fleets : Answers(g, p) /\ SameProject(f, g)
    <3>1. PICK r \in Query :
            /\ query' = [query EXCEPT ![f] = r]
            /\ r.at = "asking" /\ r.own = query[f].own /\ r.candidates = {} /\ r.target = p
            /\ r.result = query[f].result
      <4>1. query' = [query EXCEPT ![f].at = "asking", ![f].target = p, ![f].candidates = {}]
        BY <1>6, <2>2 DEF ProbeEndpoint
      <4>2. PICK r \in Query :
              /\ [query EXCEPT ![f].at = "asking", ![f].target = p, ![f].candidates = {}]
                   = [query EXCEPT ![f] = r]
              /\ r.at = "asking" /\ r.own = query[f].own /\ r.candidates = {} /\ r.target = p
              /\ r.result = query[f].result
        BY RecordAsked
      <4> QED BY <4>1, <4>2
    <3>2. Probing(f, r)
      BY <2>1, <2>2, <3>1 DEF Probing
    <3> QED BY <3>1, <3>2
  <2>3. CASE ~ \E g \in Fleets : Answers(g, p) /\ SameProject(f, g)
    <3>1. PICK c \in SUBSET Ports : c = query[f].candidates \ {p}
      BY <1>3 DEF Query
    <3>2. PICK r \in Query :
            /\ query' = [query EXCEPT ![f] = r]
            /\ r.at = query[f].at /\ r.own = query[f].own /\ r.candidates = c
            /\ r.target = query[f].target /\ r.result = query[f].result
      <4>1. query' = AfterPass(f, c)
        BY <1>6, <2>3, <3>1 DEF ProbeEndpoint, AfterPass
      <4>2. PICK r \in Query :
              /\ AfterPass(f, c) = [query EXCEPT ![f] = r]
              /\ r.at = query[f].at /\ r.own = query[f].own /\ r.candidates = c
              /\ r.target = query[f].target /\ r.result = query[f].result
        BY RecordPassed
      <4> QED BY <4>1, <4>2
    <3>3. Probing(f, r)
      BY <2>1, <2>3, <3>1, <3>2 DEF Probing
    <3> QED BY <3>2, <3>3
  <2> QED BY <2>2, <2>3
<1>7. ASSUME NoEndpoint(f)
      PROVE  Goal
  <2>1. query[f].at = "probing" /\ query[f].candidates = {} /\ Report(f, query[f].own)
    BY <1>7 DEF NoEndpoint
  <2>2. r0.own \in Results
    BY <1>3 DEF Query, Results
  <2>3. PICK r \in Query : query' = [query EXCEPT ![f] = r] /\ r.at = "done" /\ r.result = r0.own
    BY <1>3, <1>4, <2>1, <2>2
  <2>4. Settling(f, r)
    BY <1>3, <2>1, <2>3 DEF Settling
  <2> QED BY <2>3, <2>4
<1>8. ASSUME AskStatus(f)
      PROVE  Goal
  <2>1. query[f].at = "asking"
    BY <1>8 DEF AskStatus
  <2>2. ASSUME NEW g \in Fleets, Answers(g, query[f].target), Report(f, ApiStatus(g)),
               excused' = IF SameProject(f, g) THEN excused ELSE excused \cup {f}
        PROVE  Goal
    <3>1. ApiStatus(g) \in Results
      BY DEF ApiStatus, SummarizeStatus, Results
    <3>2. PICK r \in Query : /\ query' = [query EXCEPT ![f] = r] /\ r.at = "done"
                             /\ r.result = ApiStatus(g)
      BY <1>4, <2>2, <3>1
    <3>3. SameProject(f, g) \/ f \in excused'
      BY <2>2
    <3>4. Answered(f, r)
      BY <2>1, <2>2, <3>2, <3>3 DEF Answered
    <3> QED BY <3>2, <3>4
  <2>3. ASSUME \A g \in Fleets : ~Answers(g, query[f].target), Report(f, query[f].own)
        PROVE  Goal
    <3>1. r0.own \in Results
      BY <1>3 DEF Query, Results
    <3>2. PICK r \in Query : query' = [query EXCEPT ![f] = r] /\ r.at = "done" /\ r.result = r0.own
      BY <1>3, <1>4, <2>3, <3>1
    <3>3. Answered(f, r)
      BY <1>3, <2>1, <2>3, <3>2 DEF Answered
    <3> QED BY <3>2, <3>3
  <2>4. \/ \E g \in Fleets : /\ Answers(g, query[f].target) /\ Report(f, ApiStatus(g))
                             /\ excused' = IF SameProject(f, g) THEN excused ELSE excused \cup {f}
        \/ (\A g \in Fleets : ~Answers(g, query[f].target)) /\ Report(f, query[f].own)
    BY <1>8 DEF AskStatus
  <2> HIDE DEF Goal
  <2> QED BY <2>2, <2>3, <2>4
<1>9. ASSUME RequestTimesOut(f)
      PROVE  Goal
  <2>1. Faulty(f)
    BY <1>9 DEF RequestTimesOut, Faulty
  <2>2. ASSUME NEW p \in query[f].candidates, query' = [query EXCEPT ![f].candidates = @ \ {p}]
        PROVE  Goal
    <3>1. PICK c \in SUBSET Ports : c = query[f].candidates \ {p}
      BY <1>3 DEF Query
    <3>2. PICK r \in Query : query' = [query EXCEPT ![f] = r]
      <4>1. query' = AfterPass(f, c)
        BY <2>2, <3>1 DEF AfterPass
      <4>2. PICK r \in Query : AfterPass(f, c) = [query EXCEPT ![f] = r]
        BY RecordPassed
      <4> QED BY <4>1, <4>2
    <3> QED BY <2>1, <3>2
  <2>3. ASSUME Report(f, query[f].own)
        PROVE  Goal
    <3>1. r0.own \in Results
      BY <1>3 DEF Query, Results
    <3> QED BY <1>3, <1>4, <2>1, <2>3, <3>1
  <2>4. \/ \E p \in query[f].candidates : query' = [query EXCEPT ![f].candidates = @ \ {p}]
        \/ Report(f, query[f].own)
    BY <1>9 DEF RequestTimesOut
  <2> HIDE DEF Goal
  <2> QED BY <2>2, <2>3, <2>4
<1>10. ASSUME StatusChildFails(f)
      PROVE  Goal
  <2>1. Faulty(f) /\ Report(f, "unknown")
    BY <1>10 DEF StatusChildFails, Faulty
  <2>2. "unknown" \in Results
    BY DEF Results
  <2> QED BY <1>4, <2>1, <2>2
<1>11. Goal
  BY <1>5, <1>6, <1>7, <1>8, <1>9, <1>10 DEF QueryStep
<1> QED BY <1>1, <1>11

LEMMA TypeStep ==
    ASSUME TypeOK, [Next]_vars
    PROVE  TypeOK'
<1>1. ManagersTyped /\ ParentTyped /\ QueriesTyped /\ SeenTyped /\ BudgetTyped
  BY Parts
<1>2. CASE UNCHANGED vars
  BY <1>2 DEF TypeOK, vars, fleetVars, upVars, queryVars
<1>3. CASE Next
  <2>1. BudgetTyped' /\ SeenTyped'
    BY <1>1, <1>3, BudgetStep, SeenTypeStep, StepKinds
  <2>2. ASSUME NEW f \in Fleets, QueryStep(f)
        PROVE  ManagersTyped' /\ ParentTyped' /\ QueriesTyped'
    <3>1. UNCHANGED <<fleetVars, upVars, stopping>> /\ excused' \subseteq Fleets
      BY <1>1, <2>2, QueryStepKinds
    <3>2. PICK r \in Query : query' = [query EXCEPT ![f] = r]
      BY <1>1, <2>2, QueryStepKinds
    <3> QED BY <1>1, <3>1, <3>2 DEF ManagersTyped, ParentTyped, QueriesTyped, fleetVars, upVars
  <2>3. ASSUME AllQueries
        PROVE  ManagersTyped' /\ ParentTyped' /\ QueriesTyped'
    <3>1. UNCHANGED <<fleetVars, upVars, stopping>> /\ excused' = {}
      BY <2>3 DEF AllQueries, SupervisorStatus, PrintStatus
    <3>2. PICK r \in Query : query' = [f \in Fleets |-> r]
      BY <2>3, IdleQuery DEF AllQueries, SupervisorStatus, PrintStatus
    <3> QED BY <1>1, <3>1, <3>2 DEF ManagersTyped, ParentTyped, QueriesTyped, fleetVars, upVars
  <2>4. ManagersTyped' /\ ParentTyped' /\ QueriesTyped'
    BY <1>1, <1>3, <2>2, <2>3, StepKinds, FleetTypeStep, CommonTypeStep
  <2> QED BY <2>1, <2>4, PartsNext
<1> QED BY <1>2, <1>3
--------------------------------------------------------------------------------
(* The managers and the signals. *)

\* What a signal does to a manager: it ends it, starts its shutdown, or nothing.
Ended(f) == Leave(f) /\ cut' = (IF phase[f] \in Closing THEN cut \cup {f} ELSE cut)
Begun(f) ==
    /\ phase[f] = "serving" /\ phase' = [phase EXCEPT ![f] = "stopping"]
    /\ UNCHANGED <<port, armed, children, cut>>
Ignored(f) ==
    /\ phase[f] \in Closing /\ f \notin armed
    /\ UNCHANGED <<phase, port, armed, children, cut>>

LEMMA DeliverKinds ==
    ASSUME ManagersTyped, NEW f \in Fleets, Deliver(f)
    PROVE  /\ signals[f] > 0 /\ UNCHANGED <<recorded, requests, up, pressed>>
           /\ \/ Ended(f) /\ (phase[f] \in Closing => f \in armed)
              \/ Begun(f) /\ signals' = [signals EXCEPT ![f] = @ - 1]
              \/ Ignored(f) /\ signals' = [signals EXCEPT ![f] = @ - 1]
<1>1. PICK action : /\ action = ClassifyShutdownSignal(f)
                    /\ IF action \in {"kill", "force_exit"}
                       THEN Leave(f)
                       ELSE /\ signals' = [signals EXCEPT ![f] = @ - 1]
                            /\ phase' = IF action = "start" THEN [phase EXCEPT ![f] = "stopping"]
                                                            ELSE phase
                            /\ UNCHANGED <<port, armed, children>>
                    /\ cut' = IF action = "force_exit" THEN cut \cup {f} ELSE cut
  BY DEF Deliver
<1>2. \/ phase[f] = "serving" /\ action = "start"
      \/ phase[f] \in Closing /\ f \notin armed /\ action = "ignore"
      \/ phase[f] \in Closing /\ f \in armed /\ action = "force_exit"
      \/ phase[f] \in Starting /\ action = "kill"
  <2>1. phase[f] \in {"serving"} \cup Closing \cup Starting
    BY DEF ManagersTyped, Deliver
  <2> QED BY <1>1, <2>1 DEF ClassifyShutdownSignal, Closing, Starting
<1>3. CASE phase[f] = "serving" /\ action = "start"
  BY <1>1, <1>3 DEF Deliver, Begun
<1>4. CASE phase[f] \in Closing /\ f \notin armed /\ action = "ignore"
  BY <1>1, <1>4 DEF Deliver, Ignored
<1>5. CASE phase[f] \in Closing /\ f \in armed /\ action = "force_exit"
  BY <1>1, <1>5 DEF Deliver, Ended
<1>6. CASE phase[f] \in Starting /\ action = "kill"
  BY <1>1, <1>6 DEF Deliver, Ended, Starting, Closing
<1> QED BY <1>2, <1>3, <1>4, <1>5, <1>6

\* A status child and `supervisor down' leave the managers and the supervisor alone.
LEMMA Unmoved ==
    ASSUME ManagersTyped, QueriesTyped,
           \/ \E f \in Fleets : QueryStep(f)
           \/ AllQueries \/ SupervisorDown
           \/ UNCHANGED vars
    PROVE  UNCHANGED <<fleetVars, upVars>>
<1>1. ASSUME NEW f \in Fleets, QueryStep(f)
      PROVE  UNCHANGED <<fleetVars, upVars>>
  BY <1>1, QueryStepKinds
<1>2. ASSUME AllQueries \/ SupervisorDown \/ UNCHANGED vars
      PROVE  UNCHANGED <<fleetVars, upVars>>
  BY <1>2 DEF AllQueries, SupervisorStatus, PrintStatus, SupervisorDown, vars
<1> QED BY <1>1, <1>2

Idly == UNCHANGED <<fleetVars, upVars>>

\* The steps that move a manager, the supervisor or a signal.
LEMMA Moves ==
    ASSUME TypeOK, [Next]_vars
    PROVE  \/ Idly
           \/ \E f \in Fleets : FleetStep(f)
           \/ ForwardSignal \/ ForceExit \/ SupervisorUpEnds
           \/ (\E fs \in SUBSET Fleets : LaunchDetached(fs))
           \/ SupervisorUp \/ Press \/ Kill
<1>1. ManagersTyped /\ QueriesTyped
  BY Parts
<1>2. CASE UNCHANGED vars
  BY <1>1, <1>2, Unmoved DEF Idly
<1>3. CASE Next
  <2>1. ASSUME NEW f \in Fleets, QueryStep(f)
        PROVE  Idly
    BY <1>1, <2>1, Unmoved DEF Idly
  <2>2. ASSUME AllQueries \/ SupervisorDown
        PROVE  Idly
    BY <1>1, <2>2, Unmoved DEF Idly
  <2> QED BY <1>3, <2>1, <2>2, StepKinds DEF CommonStep
<1> QED BY <1>2, <1>3

LEMMA QuietStep ==
    ASSUME TypeOK, Quiet, [Next]_vars
    PROVE  Quiet'
<1>1. ManagersTyped /\ ParentTyped
  BY Parts
<1>2. CASE Idly
  BY <1>2 DEF Idly, upVars, Quiet
<1>3. ASSUME NEW f \in Fleets, FleetStep(f)
      PROVE  Quiet'
  BY <1>3 DEF FleetStep, Listen, Serve, Deliver, StopAgents, Exit, EndsUnasked, ArmForceExit,
              SignalRecordedManager, DownAgents, upVars, Quiet
<1>4. CASE ForwardSignal \/ ForceExit \/ SupervisorUpEnds
  BY <1>4 DEF ForwardSignal, ForceExit, SupervisorUpEnds, Quiet
<1>5. CASE (\E fs \in SUBSET Fleets : LaunchDetached(fs)) \/ SupervisorUp
  BY <1>5 DEF LaunchDetached, SupervisorUp, upVars, Quiet
<1>6. CASE Press \/ Kill
  BY <1>6 DEF Press, Kill, Quiet
<1> QED BY <1>2, <1>3, <1>4, <1>5, <1>6, Moves

LEMMA RequestedStep ==
    ASSUME TypeOK, Requested, Quiet, [Next]_vars
    PROVE  Requested'
<1>1. ManagersTyped /\ ParentTyped
  BY Parts
<1>2. CASE Idly
  BY <1>2 DEF Idly, fleetVars, upVars, Requested, Live
<1>3. ASSUME NEW f \in Fleets, FleetStep(f)
      PROVE  Requested'
  <2>1. CASE Listen(f) \/ Serve(f) \/ DownAgents(f)
    BY <1>1, <2>1 DEF Listen, Serve, DownAgents, Goto, upVars, Requested, Live, ManagersTyped, Closing
  <2>2. CASE Deliver(f)
    <3>1. /\ signals[f] > 0 /\ UNCHANGED <<requests, up, pressed>>
      BY <1>1, <2>2, DeliverKinds
    <3>2. CASE Ended(f)
      BY <1>1, <3>1, <3>2 DEF Ended, Leave, Goto, Requested, Live, ManagersTyped, ParentTyped, Closing
    <3>3. CASE Begun(f) /\ signals' = [signals EXCEPT ![f] = @ - 1]
      BY <1>1, <3>1, <3>3 DEF Begun, Requested, Live, ManagersTyped, ParentTyped, Closing
    <3>4. CASE Ignored(f) /\ signals' = [signals EXCEPT ![f] = @ - 1]
      BY <1>1, <3>1, <3>4 DEF Ignored, Requested, Live, ManagersTyped, ParentTyped, Closing
    <3> QED BY <1>1, <2>2, <3>2, <3>3, <3>4, DeliverKinds
  <2>3. CASE StopAgents(f)
    BY <1>1, <2>3 DEF StopAgents, Goto, upVars, Requested, Live, ManagersTyped, Closing
  <2>4. CASE Exit(f) \/ EndsUnasked(f)
    BY <1>1, <2>4 DEF Exit, EndsUnasked, Leave, Goto, Requested, Live, ManagersTyped, Closing
  <2>5. CASE ArmForceExit(f)
    BY <1>1, <2>5 DEF ArmForceExit, upVars, Requested, Live, Closing
  <2>6. CASE SignalRecordedManager(f)
    BY <1>1, <2>6 DEF SignalRecordedManager, Signalled, Asked, upVars, Requested, Live, ManagersTyped,
                      Closing
  <2> QED BY <1>3, <2>1, <2>2, <2>3, <2>4, <2>5, <2>6 DEF FleetStep
<1>4. CASE ForwardSignal
  BY <1>1, <1>4 DEF ForwardSignal, Signalled, LiveChildren, Requested, Live, ManagersTyped, ParentTyped
<1>5. CASE ForceExit \/ SupervisorUpEnds
  BY <1>1, <1>5 DEF ForceExit, SupervisorUpEnds, fleetVars, Requested, Live
<1>6. CASE \E fs \in SUBSET Fleets : LaunchDetached(fs)
  BY <1>1, <1>6 DEF LaunchDetached, Launched, Startable, upVars, Requested, Live, ManagersTyped, Closing
<1>7. CASE SupervisorUp
  BY <1>1, <1>7 DEF SupervisorUp, Launched, Startable, Requested, Live, Quiet, ManagersTyped, Closing
<1>8. CASE Press
  BY <1>1, <1>8 DEF Press, Signalled, Asked, Requested, Live, ManagersTyped, ParentTyped
<1>9. CASE Kill
  BY <1>1, <1>9 DEF Kill, Asked, Requested, Live, ManagersTyped, ParentTyped
<1> QED BY <1>2, <1>3, <1>4, <1>5, <1>6, <1>7, <1>8, <1>9, Moves

LEMMA ArmedStep ==
    ASSUME TypeOK, Requested, Armed, Quiet, [Next]_vars
    PROVE  Armed'
<1>1. ManagersTyped /\ ParentTyped
  BY Parts
<1>2. CASE Idly
  BY <1>2 DEF Idly, fleetVars, upVars, Armed
<1>3. ASSUME NEW f \in Fleets, FleetStep(f)
      PROVE  Armed'
  <2>1. CASE Listen(f) \/ Serve(f) \/ DownAgents(f)
    BY <1>1, <2>1 DEF Listen, Serve, DownAgents, Goto, upVars, Armed, ManagersTyped, Closing
  <2>2. CASE Deliver(f)
    <3>1. /\ signals[f] > 0 /\ UNCHANGED <<requests, up, pressed>>
      BY <1>1, <2>2, DeliverKinds
    <3>2. CASE Ended(f)
      BY <1>1, <3>1, <3>2 DEF Ended, Leave, Goto, Armed, ManagersTyped, ParentTyped, Closing
    <3>3. CASE Begun(f) /\ signals' = [signals EXCEPT ![f] = @ - 1]
      BY <1>1, <3>1, <3>3 DEF Begun, Armed, ManagersTyped, ParentTyped, Closing
    <3>4. CASE Ignored(f) /\ signals' = [signals EXCEPT ![f] = @ - 1]
      BY <1>1, <3>1, <3>4 DEF Ignored, Armed, ManagersTyped, ParentTyped, Closing
    <3> QED BY <1>1, <2>2, <3>2, <3>3, <3>4, DeliverKinds
  <2>3. CASE StopAgents(f)
    BY <1>1, <2>3 DEF StopAgents, Goto, upVars, Armed, ManagersTyped, Closing
  <2>4. CASE Exit(f) \/ EndsUnasked(f)
    BY <1>1, <2>4 DEF Exit, EndsUnasked, Leave, Goto, Armed, ManagersTyped
  <2>5. CASE ArmForceExit(f)
    BY <1>1, <2>5 DEF ArmForceExit, upVars, Armed
  <2>6. CASE SignalRecordedManager(f)
    BY <1>1, <2>6 DEF SignalRecordedManager, Signalled, Asked, upVars, Requested, Armed, ManagersTyped,
                      Closing
  <2> QED BY <1>3, <2>1, <2>2, <2>3, <2>4, <2>5, <2>6 DEF FleetStep
<1>4. CASE ForwardSignal
  BY <1>1, <1>4 DEF ForwardSignal, Signalled, LiveChildren, Armed, ManagersTyped, ParentTyped
<1>5. CASE ForceExit \/ SupervisorUpEnds
  BY <1>1, <1>5 DEF ForceExit, SupervisorUpEnds, fleetVars, Armed
<1>6. CASE \E fs \in SUBSET Fleets : LaunchDetached(fs)
  BY <1>1, <1>6 DEF LaunchDetached, Launched, Startable, upVars, Armed, ManagersTyped, Closing
<1>7. CASE SupervisorUp
  BY <1>1, <1>7 DEF SupervisorUp, Launched, Startable, Armed, Quiet, ManagersTyped, Closing
<1>8. CASE Press
  BY <1>1, <1>8 DEF Press, Signalled, Asked, Requested, Armed, ManagersTyped, ParentTyped
<1>9. CASE Kill
  BY <1>1, <1>9 DEF Kill, Asked, Requested, Armed, ManagersTyped, ParentTyped
<1> QED BY <1>2, <1>3, <1>4, <1>5, <1>6, <1>7, <1>8, <1>9, Moves

LEMMA GracefulStep ==
    ASSUME TypeOK, Requested, Armed, OnePressIsGraceful, [Next]_vars
    PROVE  OnePressIsGraceful'
<1>1. ManagersTyped /\ ParentTyped
  BY Parts
<1>2. CASE Idly
  BY <1>2 DEF Idly, fleetVars, OnePressIsGraceful
<1>3. ASSUME NEW f \in Fleets, FleetStep(f)
      PROVE  OnePressIsGraceful'
  <2>1. CASE Listen(f) \/ Serve(f) \/ DownAgents(f) \/ StopAgents(f) \/ ArmForceExit(f)
    BY <2>1 DEF Listen, Serve, DownAgents, StopAgents, ArmForceExit, OnePressIsGraceful
  <2>2. CASE Deliver(f)
    <3>1. CASE Ended(f) /\ (phase[f] \in Closing => f \in armed)
      <4>1. signals[f] > 0 /\ UNCHANGED requests
        BY <1>1, <2>2, DeliverKinds
      <4>2. phase[f] \in Closing => requests[f] > 1
        BY <1>1, <3>1, <4>1 DEF Armed, ManagersTyped
      <4> QED BY <3>1, <4>1, <4>2 DEF Ended, OnePressIsGraceful
    <3>2. CASE Begun(f) \/ Ignored(f)
      BY <2>2, <3>2 DEF Begun, Ignored, Deliver, OnePressIsGraceful
    <3> QED BY <1>1, <2>2, <3>1, <3>2, DeliverKinds
  <2>3. CASE Exit(f) \/ EndsUnasked(f)
    BY <2>3 DEF Exit, EndsUnasked, OnePressIsGraceful
  <2>4. CASE SignalRecordedManager(f)
    BY <1>1, <2>4 DEF SignalRecordedManager, Asked, OnePressIsGraceful, ManagersTyped
  <2> QED BY <1>3, <2>1, <2>2, <2>3, <2>4 DEF FleetStep
<1>4. CASE ForwardSignal \/ ForceExit \/ SupervisorUpEnds
  BY <1>4 DEF ForwardSignal, ForceExit, SupervisorUpEnds, fleetVars, OnePressIsGraceful
<1>5. CASE (\E fs \in SUBSET Fleets : LaunchDetached(fs)) \/ SupervisorUp
  BY <1>1, <1>5 DEF LaunchDetached, SupervisorUp, Launched, OnePressIsGraceful, ManagersTyped
<1>6. CASE Press \/ Kill
  BY <1>1, <1>6 DEF Press, Kill, Asked, OnePressIsGraceful, ManagersTyped
<1> QED BY <1>2, <1>3, <1>4, <1>5, <1>6, Moves

LEMMA PortsStep ==
    ASSUME TypeOK, PortsHeld, [Next]_vars
    PROVE  PortsHeld'
<1>1. ManagersTyped /\ ParentTyped
  BY Parts
<1>2. NoPort \notin Ports
  BY PortsAssumption DEF NoPort
<1>3. CASE Idly
  BY <1>3 DEF Idly, fleetVars, PortsHeld
<1>4. ASSUME NEW f \in Fleets, FleetStep(f)
      PROVE  PortsHeld'
  <2>1. CASE Listen(f)
    <3>1. PICK p \in Ports : p \notin {port[g] : g \in Fleets} /\ port' = [port EXCEPT ![f] = p]
      BY <2>1 DEF Listen
    <3>2. phase' = [phase EXCEPT ![f] = "listening"]
      BY <2>1 DEF Listen, Goto
    <3> QED BY <1>1, <1>2, <3>1, <3>2 DEF PortsHeld, ManagersTyped
  <2>2. CASE Serve(f) \/ StopAgents(f)
    BY <1>1, <2>2 DEF Serve, StopAgents, Goto, PortsHeld, ManagersTyped
  <2>3. CASE ArmForceExit(f) \/ SignalRecordedManager(f) \/ DownAgents(f)
    BY <2>3 DEF ArmForceExit, SignalRecordedManager, DownAgents, PortsHeld
  <2>4. ASSUME Leave(f)
        PROVE  PortsHeld'
    BY <1>1, <2>4 DEF Leave, Goto, PortsHeld, ManagersTyped
  <2>5. CASE Exit(f) \/ EndsUnasked(f)
    BY <2>4, <2>5 DEF Exit, EndsUnasked
  <2>6. CASE Deliver(f)
    <3>1. CASE Ended(f)
      BY <2>4, <3>1 DEF Ended
    <3>2. CASE Begun(f)
      BY <1>1, <3>2 DEF Begun, PortsHeld, ManagersTyped
    <3>3. CASE Ignored(f)
      BY <3>3 DEF Ignored, PortsHeld
    <3> QED BY <1>1, <2>6, <3>1, <3>2, <3>3, DeliverKinds
  <2> QED BY <1>4, <2>1, <2>2, <2>3, <2>5, <2>6 DEF FleetStep
<1>5. CASE ForwardSignal \/ ForceExit \/ SupervisorUpEnds \/ Press \/ Kill
  BY <1>5 DEF ForwardSignal, ForceExit, SupervisorUpEnds, Press, Kill, fleetVars, PortsHeld
<1>6. CASE (\E fs \in SUBSET Fleets : LaunchDetached(fs)) \/ SupervisorUp
  BY <1>1, <1>6 DEF LaunchDetached, SupervisorUp, Launched, Startable, PortsHeld, ManagersTyped
<1> QED BY <1>3, <1>4, <1>5, <1>6, Moves
--------------------------------------------------------------------------------
(* What the status children find out. *)

LEMMA WatchFacts ==
    ASSUME Watch
    PROVE  /\ Asking' => /\ alive \subseteq alive'
                         /\ \A g \in Fleets : port'[g] # NoPort => g \in alive'
           /\ \A f \in steady' : f \in Fleets /\ Undisturbed(f)' /\ (Asking => f \in steady)
<1>1. Asking' => /\ alive \subseteq alive'
                 /\ \A g \in Fleets : port'[g] # NoPort => g \in alive'
  BY DEF Watch, Asking
<1>2. \A f \in steady' : f \in Fleets /\ Undisturbed(f)' /\ (Asking => f \in steady)
  BY DEF Watch, Asking
<1> QED BY <1>1, <1>2

LEMMA SeenStep ==
    ASSUME TypeOK, Seen, [Next]_vars
    PROVE  Seen'
<1>1. CASE UNCHANGED vars
  BY <1>1 DEF vars, fleetVars, queryVars, Seen, Asking, Undisturbed
<1>2. CASE Next
  BY <1>2, StepKinds, WatchFacts DEF Seen
<1> QED BY <1>1, <1>2

\* A manager that serves before and after a step has kept its port.
LEMMA PortKept ==
    ASSUME ManagersTyped, NEW f \in Fleets, Undisturbed(f), Undisturbed(f)',
           (\E g \in Fleets : FleetStep(g)) \/ CommonStep
    PROVE  port'[f] = port[f]
<1>1. ASSUME NEW g \in Fleets, FleetStep(g)
      PROVE  port'[f] = port[f]
  <2>1. CASE Listen(g)
    <3>1. g # f
      BY <2>1 DEF Listen, Undisturbed
    <3>2. PICK p \in Ports : port' = [port EXCEPT ![g] = p]
      BY <2>1 DEF Listen
    <3> QED BY <3>1, <3>2 DEF ManagersTyped
  <2>2. ASSUME Leave(g)
        PROVE  port'[f] = port[f]
    BY <2>2 DEF Leave, Goto, Undisturbed, ManagersTyped
  <2>3. CASE Exit(g) \/ EndsUnasked(g)
    BY <2>2, <2>3 DEF Exit, EndsUnasked
  <2>4. CASE Deliver(g)
    BY <2>2, <2>4, DeliverKinds DEF Ended, Begun, Ignored
  <2>5. CASE Serve(g) \/ StopAgents(g) \/ ArmForceExit(g) \/ SignalRecordedManager(g) \/ DownAgents(g)
    BY <2>5 DEF Serve, StopAgents, ArmForceExit, SignalRecordedManager, DownAgents
  <2> QED BY <1>1, <2>1, <2>3, <2>4, <2>5 DEF FleetStep
<1>2. ASSUME CommonStep
      PROVE  port'[f] = port[f]
  BY <1>2 DEF CommonStep, ForwardSignal, ForceExit, SupervisorUpEnds, LaunchDetached,
              SupervisorUp, Press, Kill, SupervisorDown, fleetVars
<1> QED BY <1>1, <1>2

\* Nothing else answers for a fleet that shares its repository with no other.
LEMMA OnlyItself ==
    ASSUME NEW f \in Fleets \ Clones, NEW g \in Fleets, SameProject(f, g)
    PROVE  g = f
BY DEF SameProject, SnapshotProject, ProjectId

\* While managers come and go, what a status child knows stays so.
LEMMA KnownBeside ==
    ASSUME TypeOK, StatusKnown, Seen, Watch,
           (\E g \in Fleets : FleetStep(g)) \/ CommonStep
    PROVE  StatusKnown'
<1>1. ManagersTyped /\ QueriesTyped
  BY Parts
<1>2. UNCHANGED <<query, excused>>
  BY DEF FleetStep, Listen, Serve, Deliver, StopAgents, Exit, EndsUnasked, ArmForceExit,
         SignalRecordedManager, DownAgents, CommonStep, ForwardSignal, ForceExit,
         SupervisorUpEnds, LaunchDetached, SupervisorUp, Press, Kill, SupervisorDown, queryVars
<1>3. ASSUME NEW f \in Fleets \ excused
      PROVE  Heard(f)'
  <2>1. Heard(f)
    BY <1>3 DEF StatusKnown
  <2>2. query[f].at = "done" => alive \subseteq alive'
    BY <1>2, <1>3, WatchFacts DEF Asking
  <2> QED BY <1>2, <2>1, <2>2 DEF Heard
<1>4. ASSUME NEW f \in steady' \ (excused \cup Clones)
      PROVE  Found(f)'
  <2>1. f \in Fleets /\ Undisturbed(f)' /\ (Asking => f \in steady)
    BY <1>4, WatchFacts
  <2>2. CASE query[f].at = "idle"
    BY <1>2, <2>2 DEF Found
  <2>3. CASE query[f].at # "idle"
    <3>1. f \in steady
      BY <2>1, <2>3 DEF Asking
    <3>2. Found(f) /\ Undisturbed(f)
      BY <1>4, <3>1 DEF StatusKnown, Seen
    <3>3. port'[f] = port[f]
      BY <1>1, <2>1, <3>2, PortKept
    <3> QED BY <1>2, <3>2, <3>3 DEF Found
  <2> QED BY <2>2, <2>3
<1>5. \A f \in Fleets \ excused' : Heard(f)'
  BY <1>2, <1>3
<1>6. \A f \in steady' \ (excused' \cup Clones) : Found(f)'
  BY <1>2, <1>4
<1> QED BY <1>5, <1>6 DEF StatusKnown

\* A step of the status child of f itself.
LEMMA KnownStep ==
    ASSUME TypeOK, StatusKnown, Seen, PortsHeld, Watch, NEW f \in Fleets, QueryStep(f)
    PROVE  StatusKnown'
<1>1. ManagersTyped /\ QueriesTyped
  BY Parts
<1>2. /\ UNCHANGED <<phase, port, recorded>>
      /\ excused \subseteq excused' /\ excused' \subseteq Fleets
  BY <1>1, QueryStepKinds DEF fleetVars
<1>3. PICK r \in Query : /\ query' = [query EXCEPT ![f] = r]
                         /\ \/ Reading(f, r) \/ Probing(f, r) \/ Settling(f, r)
                            \/ Answered(f, r) \/ Faulty(f)
  BY <1>1, QueryStepKinds
<1>4. query'[f] = r /\ \A g \in Fleets \ {f} : query'[g] = query[g]
  BY <1>1, <1>3 DEF QueriesTyped
<1>5. query[f] \in Query /\ NoPort \notin Ports
  BY <1>1, PortsAssumption DEF QueriesTyped, NoPort
<1>6. ASSUME NEW g \in Fleets \ excused', g # f
      PROVE  Heard(g)'
  <2>1. Heard(g) /\ query'[g] = query[g]
    BY <1>2, <1>4, <1>6 DEF StatusKnown
  <2>2. query'[g].at = "done" => alive \subseteq alive'
    BY <1>6, WatchFacts DEF Asking
  <2> QED BY <2>1, <2>2 DEF Heard
<1>7. ASSUME f \notin excused'
      PROVE  Heard(f)'
  <2>1. Heard(f)
    BY <1>2, <1>7 DEF StatusKnown
  <2>2. CASE Reading(f, r)
    BY <1>4, <2>2 DEF Reading, Heard
  <2>3. CASE Probing(f, r)
    BY <1>4, <1>5, <2>3 DEF Probing, Heard, Query
  <2>4. CASE Settling(f, r)
    BY <1>4, <1>5, <2>4 DEF Settling, Heard, Query
  <2>5. CASE Answered(f, r)
    <3>1. query[f].at = "asking" /\ query[f].target \in Ports /\ r.at = "done"
      BY <2>1, <2>5 DEF Answered, Heard
    <3>2. Asking
      BY <3>1 DEF Asking
    <3>3. Asking'
      BY <1>4, <3>1 DEF Asking
    <3>4. ASSUME NEW g \in Fleets, Answers(g, query[f].target), SameProject(f, g)
          PROVE  g \in alive' /\ ProjectId(g) = ProjectId(f)
      <4>1. port[g] # NoPort
        BY <1>5, <3>1, <3>4 DEF Answers
      <4>2. g \in alive
        BY <3>2, <3>4, <4>1 DEF Seen
      <4>3. g \in alive'
        BY <3>3, <4>2, WatchFacts
      <4> QED BY <3>4, <4>3 DEF SameProject, SnapshotProject
    <3>5. r.result = query[f].own => r.result # "running"
      BY <1>5 DEF Query
    <3>6. r.result = "running" => \E g \in alive' : ProjectId(g) = ProjectId(f)
      BY <1>7, <2>5, <3>4, <3>5 DEF Answered
    <3> QED BY <1>4, <3>1, <3>6 DEF Heard
  <2>6. ~Faulty(f)
    BY <1>7 DEF Faulty
  <2> QED BY <1>3, <2>2, <2>3, <2>4, <2>5, <2>6
<1>8. ASSUME NEW g \in steady' \ (excused' \cup Clones)
      PROVE  Found(g)'
  <2>1. g \in Fleets /\ Undisturbed(g)' /\ (Asking => g \in steady)
    BY <1>8, WatchFacts
  <2>2. Undisturbed(g) /\ port'[g] = port[g]
    BY <1>2, <2>1 DEF Undisturbed
  <2>3. CASE query[g].at = "idle"
    <3>1. g # f
      BY <1>3, <1>8, <2>3 DEF Reading, Probing, Settling, Answered, Faulty
    <3> QED BY <1>4, <2>1, <2>3, <3>1 DEF Found
  <2>4. CASE query[g].at # "idle" /\ g # f
    <3>1. g \in steady
      BY <2>1, <2>4 DEF Asking
    <3>2. Found(g)
      BY <1>2, <1>8, <3>1 DEF StatusKnown
    <3> QED BY <1>4, <2>1, <2>2, <2>4, <3>2 DEF Found
  <2>5. CASE query[g].at # "idle" /\ g = f
    <3>1. g \in steady
      BY <2>1, <2>5 DEF Asking
    <3>2. Found(f)
      BY <1>2, <1>8, <2>5, <3>1 DEF StatusKnown
    <3>3. port[f] # NoPort
      BY <2>2, <2>5 DEF PortsHeld, Undisturbed
    <3>4. f \notin excused' /\ f \notin excused /\ f \in Fleets \ Clones
      BY <1>2, <1>8, <2>5
    <3>5. CASE Reading(f, r)
      <4>1. port[f] \in r.candidates /\ r.at = "probing"
        BY <3>3, <3>4, <3>5 DEF Reading
      <4> QED BY <1>4, <2>2, <2>5, <4>1 DEF Found
    <3>6. CASE Probing(f, r)
      <4>1. port[f] \in query[f].candidates
        BY <3>2, <3>6 DEF Probing, Found
      <4>2. PICK p \in query[f].candidates :
              IF \E h \in Fleets : Answers(h, p) /\ SameProject(f, h)
              THEN r.at = "asking" /\ r.target = p
              ELSE r.at = "probing" /\ r.candidates = query[f].candidates \ {p}
        BY <3>6 DEF Probing
      <4>3. CASE \E h \in Fleets : Answers(h, p) /\ SameProject(f, h)
        <5>1. p = port[f]
          BY <3>4, <4>3, OnlyItself DEF Answers
        <5> QED BY <1>4, <2>2, <2>5, <4>2, <4>3, <5>1 DEF Found
      <4>4. CASE ~ \E h \in Fleets : Answers(h, p) /\ SameProject(f, h)
        <5>1. p # port[f]
          BY <4>4 DEF Answers, SameProject, SnapshotProject
        <5> QED BY <1>4, <2>2, <2>5, <4>1, <4>2, <4>4, <5>1 DEF Found
      <4> QED BY <4>3, <4>4
    <3>7. ~Settling(f, r)
      BY <3>2 DEF Settling, Found
    <3>8. CASE Answered(f, r)
      <4>1. query[f].target = port[f] /\ r.at = "done"
        BY <3>2, <3>8 DEF Answered, Found
      <4>2. \A h \in Fleets : Answers(h, port[f]) => h = f
        BY <3>3 DEF Answers, PortsHeld
      <4>3. ApiStatus(f) = "running"
        BY <2>2, <2>5 DEF ApiStatus, SummarizeStatus, Undisturbed
      <4>4. r.result = "running"
        BY <3>8, <4>1, <4>2, <4>3 DEF Answered, Answers
      <4> QED BY <1>4, <2>5, <4>1, <4>4 DEF Found
    <3>9. ~Faulty(f)
      BY <3>4 DEF Faulty
    <3> QED BY <1>3, <3>5, <3>6, <3>7, <3>8, <3>9
  <2> QED BY <2>3, <2>4, <2>5
<1>9. \A g \in Fleets \ excused' : Heard(g)'
  BY <1>6, <1>7
<1>10. \A g \in steady' \ (excused' \cup Clones) : Found(g)'
  BY <1>8
<1> QED BY <1>9, <1>10 DEF StatusKnown

\* A new `supervisor status', and the end of one: nothing is known yet.
LEMMA KnownAnew ==
    ASSUME TypeOK, Watch, AllQueries
    PROVE  StatusKnown'
<1>1. PICK r \in Query : query' = [f \in Fleets |-> r] /\ r.at \in {"idle", "reading"}
  BY IdleQuery DEF AllQueries, SupervisorStatus, PrintStatus
<1>2. \A f \in Fleets : Heard(f)' /\ Found(f)'
  BY <1>1 DEF Heard, Found
<1>3. steady' \subseteq Fleets
  BY WatchFacts
<1>4. \A f \in Fleets \ excused' : Heard(f)'
  BY <1>2
<1>5. \A f \in steady' \ (excused' \cup Clones) : Found(f)'
  BY <1>2, <1>3
<1> QED BY <1>4, <1>5 DEF StatusKnown

LEMMA StatusKnownStep ==
    ASSUME TypeOK, StatusKnown, Seen, PortsHeld, [Next]_vars
    PROVE  StatusKnown'
<1>1. CASE UNCHANGED vars
  BY <1>1 DEF vars, fleetVars, queryVars, StatusKnown, Heard, Found
<1>2. CASE Next
  BY <1>2, StepKinds, KnownBeside, KnownStep, KnownAnew
<1> QED BY <1>1, <1>2

--------------------------------------------------------------------------------
(* The theorems. *)

LEMMA InitIInv == Init => IInv
<1> SUFFICES ASSUME Init PROVE IInv
  OBVIOUS
<1>1. TypeOK
  <2>1. ManagersTyped /\ ParentTyped /\ SeenTyped
    BY DEF Init, ManagersTyped, ParentTyped, SeenTyped
  <2>2. QueriesTyped
    BY IdleQuery DEF Init, QueriesTyped
  <2>3. BudgetTyped
    BY SupervisorBounds DEF Init, BudgetTyped
  <2> QED BY <2>1, <2>2, <2>3, Parts
<1>2. Requested /\ Armed /\ Quiet /\ OnePressIsGraceful
  BY DEF Init, Requested, Armed, Quiet, OnePressIsGraceful, Live, Closing
<1>3. PortsHeld
  BY DEF Init, PortsHeld
<1>4. Seen /\ StatusKnown
  BY IdleQuery DEF Init, Seen, StatusKnown, Heard, Found, Asking
<1> QED BY <1>1, <1>2, <1>3, <1>4 DEF IInv

LEMMA NextIInv == IInv /\ [Next]_vars => IInv'
BY TypeStep, RequestedStep, ArmedStep, QuietStep, GracefulStep, PortsStep, SeenStep, StatusKnownStep
   DEF IInv

LEMMA AlwaysIInv == Spec => []IInv
BY InitIInv, NextIInv, PTL DEF Spec

\* The types of the supervisor's variables hold in every reachable state.
THEOREM SupervisorTyped == Spec => []TypeOK
<1>1. IInv => TypeOK
  BY DEF IInv
<1> QED BY <1>1, AlwaysIInv, PTL

\* One Ctrl-C, whose signal every manager gets twice, never forces one out of its shutdown.
THEOREM OneCtrlCIsGraceful == Spec => []OnePressIsGraceful
<1>1. IInv => OnePressIsGraceful
  BY DEF IInv
<1> QED BY <1>1, AlwaysIInv, PTL

\* `supervisor status' reports "running" truly and misses no fleet that serves undisturbed, whatever
\* the other fleets do meanwhile; the supervisor's config names a fleet at least.
THEOREM StatusReportIsTrue ==
    ASSUME Fleets # {}
    PROVE  Spec => []StatusIsTrue
<1>1. IInv => StatusIsTrue
  <2> SUFFICES ASSUME IInv, Reported PROVE StatusIsTrue
    BY DEF StatusIsTrue
  <2>1. \A f \in Fleets \ excused : query[f].result = "running" =>
            \E g \in alive : ProjectId(g) = ProjectId(f)
    BY DEF IInv, StatusKnown, Heard, Reported
  <2>2. ASSUME NEW f \in steady \ (excused \cup Clones)
        PROVE  query[f].result = "running"
    <3>1. f \in Fleets
      BY <2>2 DEF IInv, TypeOK
    <3> QED BY <2>2, <3>1 DEF IInv, StatusKnown, Found, Reported
  <2>3. ASSUME steady = Fleets, excused \cup Clones = {}
        PROVE  AggregateStatus = "running"
    <3>1. \A f \in Fleets : query[f].result = "running"
      BY <2>2, <2>3
    <3>2. (CHOOSE f \in Fleets : TRUE) \in Fleets
      OBVIOUS
    <3> QED BY <3>1, <3>2 DEF AggregateStatus
  <2> QED BY <2>1, <2>2, <2>3 DEF StatusIsTrue
<1> QED BY <1>1, AlwaysIInv, PTL

================================================================================
