--------------------------------- MODULE Planning ---------------------------------
(***************************************************************************)
(* The planning half of the fleet: a conversation commits a release plan,  *)
(* Curators turn it into the source brief, a Gatekeeper derives acceptance *)
(* tests from the brief and Orchestrators the backlog from the tests, each *)
(* told by an event in the queue of its agent.  Conversations run in the   *)
(* manager's process beside its consume loop and end with it; an operator  *)
(* may save a brief or trigger an event from another process.              *)
(*                                                                         *)
(* A text is a number: a plan's text is what its brief, tests and backlog  *)
(* are derived from, so the four agree when the numbers do.                *)
(***************************************************************************)
EXTENDS Naturals, Sequences

CONSTANTS
    Chats,      \* conversations with the front desk or the release-plan agent
    Agents,     \* numbers, in the order of the agents' ids
    Role,       \* Role[a]: "Curator", "Gatekeeper" or "Orchestrator"
    MaxSeconds, \* bound: seconds in which plans are committed
    MaxTexts,   \* bound: drafts and briefs ever written
    MaxCommits, \* bound: plans committed
    MaxFaults,  \* bound: stops, crashes and failed runs
    MaxByHand   \* bound: briefs saved and events triggered by hand

ASSUME PlanningBounds == /\ {MaxSeconds, MaxTexts, MaxCommits, MaxFaults, MaxByHand} \subseteq Nat
                         /\ MaxSeconds > 0
ASSUME RolesAssumption == /\ Agents \subseteq Nat
                          /\ Role \in [Agents -> {"Curator", "Gatekeeper", "Orchestrator"}]
ASSUME ChatsAssumption == Chats \cap {"manager", "operator"} = {}

VARIABLES
    clock,      \* the second of the last commit
    written,    \* texts written so far
    draft,      \* draft[c]: the text of the conversation's draft file
    plan,       \* plan[s]: the text of the plan file named for second s, if any
    desk,       \* desk[c]: the commit the conversation has under way
    intent,     \* intent[p]: queue files process p has decided to write
    pending, processing, \* the queue directories of each agent
    running,    \* the agents agents.json says are running
    manager,    \* phase of the manager process
    pass,       \* agents the consume loop has still to visit
    hand,       \* what the consume loop has in hand
    brief,      \* latest.md and latest.json
    tests,      \* the brief the acceptance tests were derived from
    backlog,    \* the tests the backlog was derived from
    curated,    \* history: plan texts made into a brief
    lost,       \* history: plan texts that no event will make into one
    stale,      \* "brief", "tests": changed, and nobody will be told
    budget      \* what the bounds leave

files == <<draft, plan, written>>
queues == <<pending, processing>>
results == <<brief, tests, backlog, curated>>
vars == <<clock, files, desk, intent, queues, running, manager, pass, hand, results, lost, stale, budget>>

NoText == 0
Texts == 0 .. MaxTexts
Seconds == 1 .. MaxSeconds

\* The events of the planning pipeline and who is subscribed to each.
PlanCreate == "release-plan.create"
BriefUpdate == "source-brief.update"
TestsUpdate == "acceptance-test.update"
BacklogUpdate == "backlog.update"
Subscribed == [Curator |-> {PlanCreate}, Gatekeeper |-> {BriefUpdate}, Orchestrator |-> {TestsUpdate}]
EmitEvent == [Curator |-> BriefUpdate, Gatekeeper |-> TestsUpdate, Orchestrator |-> BacklogUpdate]
EventType == {PlanCreate, BriefUpdate, TestsUpdate, BacklogUpdate}

\* An event names a plan file; the events after the first two carry nothing.
Event == [type : EventType, path : 0 .. MaxSeconds]
NoEvent == [type |-> BacklogUpdate, path |-> 0]

Stage == {"idle", "claiming", "running", "saving", "saved", "emitting", "enqueuing", "finishing", "rejecting"}
NoHand == [stage |-> "idle", agent |-> 0, left |-> 0, event |-> NoEvent, text |-> NoText]
NoCommit == [phase |-> "idle", text |-> NoText, path |-> 0]
Process == Chats \cup {"manager", "operator"}

TypeOK ==
    /\ clock \in Seconds /\ written \in Texts
    /\ draft \in [Chats -> Texts] /\ plan \in [Seconds -> Texts]
    /\ desk \in [Chats -> [phase : {"idle", "read", "opened", "written", "publishing"}, text : Texts, path : 0 .. MaxSeconds]]
    /\ intent \in [Process -> SUBSET [agent : Agents, event : Event]]
    /\ pending \in [Agents -> Seq(Event)] /\ processing \in [Agents -> Seq(Event)]
    /\ running \subseteq Agents /\ pass \subseteq Agents
    /\ manager \in {"off", "bringing-up", "serving", "stopping", "exiting"}
    /\ hand \in [stage : Stage, agent : Agents \cup {0}, left : Nat, event : Event, text : Texts]
    /\ brief \in [text : Texts, source : 0 .. MaxSeconds] /\ tests \in Texts /\ backlog \in Texts
    /\ curated \subseteq Texts /\ lost \subseteq Texts /\ stale \subseteq {"brief", "tests"}
    /\ budget \in [commits : 0 .. MaxCommits, faults : 0 .. MaxFaults, byHand : 0 .. MaxByHand]
    /\ hand.stage # "idle" => hand.agent \in Agents
    /\ manager \in {"off", "bringing-up"} => hand = NoHand /\ pass = {}

Init ==
    /\ clock = 1 /\ written = 0
    /\ draft = [c \in Chats |-> NoText] /\ plan = [s \in Seconds |-> NoText]
    /\ desk = [c \in Chats |-> NoCommit]
    /\ intent = [p \in Process |-> {}]
    /\ pending = [a \in Agents |-> <<>>] /\ processing = [a \in Agents |-> <<>>]
    /\ running = {} /\ manager = "off" /\ pass = {} /\ hand = NoHand
    /\ brief = [text |-> NoText, source |-> 0] /\ tests = NoText /\ backlog = NoText
    /\ curated = {} /\ lost = {} /\ stale = {}
    /\ budget = [commits |-> MaxCommits, faults |-> MaxFaults, byHand |-> MaxByHand]

Spend(what) == budget[what] > 0 /\ budget' = [budget EXCEPT ![what] = @ - 1]
Events(s) == {s[i] : i \in DOMAIN s}
Foremost(S) == {x \in S : \A y \in S : x <= y}
Consuming == manager \in {"serving", "stopping", "exiting"}
Serving == manager # "off"                \* the API server runs from bring-up to the end of the process

--------------------------------------------------------------------------------
(* The queue. *)

HasInFlightEvent(a, type) == \E e \in Events(pending[a]) \cup Events(processing[a]) : e.type = type

SubscribedAgents(type) == {a \in running : type \in Subscribed[Role[a]]}

SerializeEveryEvent(type) == {a \in SubscribedAgents(type) : ~HasInFlightEvent(a, type)}

\* Only the brief's event is serialized: to the first running Gatekeeper, when it has none in flight.
ResolveTargetAgents(type) ==
    IF type = BriefUpdate
    THEN {a \in Foremost({b \in running : Role[b] = "Gatekeeper"}) : ~HasInFlightEvent(a, type)}
    ELSE SubscribedAgents(type)

\* An agent will yet handle an event of the type: it is queued, or in hand and not begun.
Awaited(type) ==
    \E a \in Agents : \/ \E e \in Events(pending[a]) : e.type = type
                      \/ /\ \E e \in Events(processing[a]) : e.type = type
                         /\ ~(hand.agent = a /\ hand.stage \notin {"claiming", "running"})

About(type) == IF type = BriefUpdate THEN {"brief"} ELSE IF type = TestsUpdate THEN {"tests"} ELSE {}

\* What nobody will be told of once an event of the type is given up.
Untold(type) == IF Awaited(type) THEN {} ELSE About(type)

\* First half of enqueueToRunningAgents: the targets.
DecideEnqueue(p, event) ==
    intent' = [intent EXCEPT ![p] = {[agent |-> a, event |-> event] : a \in ResolveTargetAgents(event.type)}]

\* Second half: a pending file for each target, one after the other.
WriteQueueFile(p) ==
    /\ \E i \in intent[p] :
           /\ \A j \in intent[p] : i.agent <= j.agent
           /\ pending' = [pending EXCEPT ![i.agent] = Append(@, i.event)]
           /\ intent' = [intent EXCEPT ![p] = @ \ {i}]
           /\ stale' = stale \ About(i.event.type)
    /\ UNCHANGED <<clock, files, desk, processing, running, manager, pass, hand, results, lost, budget>>

--------------------------------------------------------------------------------
(* The conversations. *)

\* The agent writes its draft with apply_patch, which reaches the drafts directory only.
EditDraft(c) ==
    /\ Serving /\ desk[c].phase = "idle" /\ written < MaxTexts
    /\ written' = written + 1
    /\ draft' = [draft EXCEPT ![c] = written + 1]
    /\ UNCHANGED <<clock, plan, desk, intent, queues, running, manager, pass, hand, results, lost, stale, budget>>

\* release_plan_commit: the draft is read and must not be empty.  The second of the commit, maybe
\* that of the commit before it, names the version.
ReadDraft(c) ==
    /\ Serving /\ desk[c].phase = "idle" /\ draft[c] # NoText /\ Spend("commits")
    /\ clock' \in clock .. MaxSeconds
    /\ desk' = [desk EXCEPT ![c] = [phase |-> "read", text |-> draft[c], path |-> clock']]
    /\ UNCHANGED <<files, intent, queues, running, manager, pass, hand, results, lost, stale>>

\* fs.writeFile, whether or not there is a file of that name: it is emptied first ...
OpenPlan(c) ==
    /\ desk[c].phase = "read"
    /\ plan' = [plan EXCEPT ![desk[c].path] = NoText]
    /\ lost' = lost \cup ({plan[desk[c].path]} \ {NoText, desk[c].text})
    /\ desk' = [desk EXCEPT ![c].phase = "opened"]
    /\ UNCHANGED <<clock, draft, written, intent, queues, running, manager, pass, hand, results, stale, budget>>

\* ... and then written, maybe over what another conversation wrote meanwhile.
WritePlan(c) ==
    /\ desk[c].phase = "opened"
    /\ plan' = [plan EXCEPT ![desk[c].path] = desk[c].text]
    /\ lost' = lost \cup ({plan[desk[c].path]} \ {NoText, desk[c].text})
    /\ desk' = [desk EXCEPT ![c].phase = "written"]
    /\ UNCHANGED <<clock, draft, written, intent, queues, running, manager, pass, hand, results, stale, budget>>

PlanEvent(c) == [type |-> PlanCreate, path |-> desk[c].path]

\* publishReleasePlanCreated, to the Curators that are running.
PublishPlan(c) ==
    /\ desk[c].phase = "written"
    /\ DecideEnqueue(c, PlanEvent(c))
    /\ lost' = lost \cup (IF SubscribedAgents(PlanCreate) = {} THEN {desk[c].text} ELSE {})
    /\ desk' = [desk EXCEPT ![c].phase = "publishing"]
    /\ UNCHANGED <<clock, files, queues, running, manager, pass, hand, results, stale, budget>>

EndCommit(c) ==
    /\ desk[c].phase = "publishing" /\ intent[c] = {}
    /\ desk' = [desk EXCEPT ![c] = NoCommit]
    /\ UNCHANGED <<clock, files, intent, queues, running, manager, pass, hand, results, lost, stale, budget>>

--------------------------------------------------------------------------------
(* The manager process. *)

StartWithoutRecovery ==
    /\ manager = "off"
    /\ manager' = "bringing-up"
    /\ UNCHANGED <<clock, files, desk, intent, queues, running, pass, hand, results, lost, stale, budget>>

\* up: files a dead manager left in processing go back to pending; the API server starts.
Start ==
    /\ manager = "off"
    /\ manager' = "bringing-up"
    /\ pending' = [a \in Agents |-> processing[a] \o pending[a]]
    /\ processing' = [a \in Agents |-> <<>>]
    /\ UNCHANGED <<clock, files, desk, intent, running, pass, hand, results, lost, stale, budget>>

\* The agents are prepared, and agents.json is saved once all of them are.
BringUp ==
    /\ manager = "bringing-up"
    /\ manager' = "serving"
    /\ running' = Agents
    /\ UNCHANGED <<clock, files, desk, intent, queues, pass, hand, results, lost, stale, budget>>

\* First signal: down begins, and the loop and the conversations go on beside it.
Signal ==
    /\ manager = "serving" /\ Spend("faults")
    /\ manager' = "stopping"
    /\ UNCHANGED <<clock, files, desk, intent, queues, running, pass, hand, results, lost, stale>>

\* down saves agents.json after the last agent has been shut down.
DownSaved ==
    /\ manager = "stopping"
    /\ manager' = "exiting"
    /\ running' = {}
    /\ UNCHANGED <<clock, files, desk, intent, queues, pass, hand, results, lost, stale, budget>>

\* What ends with the process: the conversations, the loop, and the files they had still to write.
ProcessEnds ==
    /\ manager' = "off"
    /\ desk' = [c \in Chats |-> NoCommit]
    /\ intent' = [p \in Process |-> IF p = "operator" THEN intent[p] ELSE {}]
    /\ pass' = {} /\ hand' = NoHand
    /\ lost' = lost \cup {desk[c].text : c \in {d \in Chats : \/ desk[d].phase \in {"opened", "written"}
                                                             \/ intent[d] # {}}}
    /\ UNCHANGED <<clock, files, queues, results, stale>>

\* A crash or a second signal: agents.json keeps its entries and processing its file.
Crash == manager # "off" /\ Spend("faults") /\ ProcessEnds /\ UNCHANGED running

Exit == manager = "exiting" /\ ProcessEnds /\ UNCHANGED <<running, budget>>

--------------------------------------------------------------------------------
(* The consume loop: one visit per running agent, one file at a time. *)

\* A pass that finds every queue empty changes nothing and is left out.
BeginPass ==
    /\ manager \in {"serving", "stopping"} /\ hand.stage = "idle" /\ pass = {}
    /\ \E a \in running : pending[a] # <<>>
    /\ pass' = running
    /\ UNCHANGED <<clock, files, desk, intent, queues, running, manager, hand, results, lost, stale, budget>>

Visit ==
    /\ Consuming /\ hand.stage = "idle" /\ pass # {}
    /\ \E a \in Foremost(pass) :
           /\ pass' = pass \ {a}
           /\ hand' = IF pending[a] = <<>> THEN NoHand
                      ELSE [NoHand EXCEPT !.stage = "claiming", !.agent = a, !.left = Len(pending[a])]
    /\ UNCHANGED <<clock, files, desk, intent, queues, running, manager, results, lost, stale, budget>>

\* claimPendingFile, and the message read from the renamed file.
ClaimFile ==
    /\ Consuming /\ hand.stage = "claiming"
    /\ hand' = [hand EXCEPT !.stage = "running", !.event = Head(pending[hand.agent])]
    /\ pending' = [pending EXCEPT ![hand.agent] = Tail(@)]
    /\ processing' = [processing EXCEPT ![hand.agent] = Append(@, Head(pending[hand.agent]))]
    /\ UNCHANGED <<clock, files, desk, intent, running, manager, pass, results, lost, stale, budget>>

Running(role) == Consuming /\ hand.stage = "running" /\ Role[hand.agent] = role

\* The prompt of a Curator's run names the plan of the event.
PlanNamed == plan[hand.event.path]

\* The Curator reads that plan and saves the brief: latest.md first ...
SaveMarkdown ==
    /\ Running("Curator") /\ PlanNamed # NoText
    /\ hand' = [hand EXCEPT !.stage = "saving", !.text = PlanNamed]
    /\ brief' = [brief EXCEPT !.text = PlanNamed]
    /\ UNCHANGED <<clock, files, desk, intent, queues, running, manager, pass, tests, backlog, curated, lost, stale, budget>>

\* ... then latest.json.
SaveMetadata ==
    /\ Consuming /\ hand.stage = "saving"
    /\ hand' = [hand EXCEPT !.stage = "saved"]
    /\ brief' = [brief EXCEPT !.source = hand.event.path]
    /\ curated' = curated \cup {hand.text}
    /\ UNCHANGED <<clock, files, desk, intent, queues, running, manager, pass, tests, backlog, lost, stale, budget>>

\* The Gatekeeper derives its test cases from the brief there is.
UpsertTestCases ==
    /\ Running("Gatekeeper")
    /\ hand' = [hand EXCEPT !.stage = "saved"]
    /\ tests' = brief.text
    /\ UNCHANGED <<clock, files, desk, intent, queues, running, manager, pass, brief, backlog, curated, lost, stale, budget>>

\* The Orchestrator refines epics and items after the tests there are.
RefineBacklog ==
    /\ Running("Orchestrator")
    /\ hand' = [hand EXCEPT !.stage = "saved"]
    /\ backlog' = tests
    /\ UNCHANGED <<clock, files, desk, intent, queues, running, manager, pass, brief, tests, curated, lost, stale, budget>>

\* source-brief view: both files, or nothing.
ReadLatest == IF brief.text = NoText \/ brief.source = 0 THEN {} ELSE {brief}

\* An agent ends its run when the commands its prompt makes mandatory are done; a Curator
\* has to see the saved brief.
RunSucceeds ==
    /\ Consuming /\ hand.stage = "saved"
    /\ Role[hand.agent] = "Curator" => ReadLatest # {}
    /\ hand' = [hand EXCEPT !.stage = "emitting"]
    /\ UNCHANGED <<clock, files, desk, intent, queues, running, manager, pass, results, lost, stale, budget>>

\* What a run that fails leaves untold, of what it or an earlier run of its file has changed.
UntoldByRun ==
    (IF brief.text = tests THEN {} ELSE Untold(BriefUpdate)) \cup (IF tests = backlog THEN {} ELSE Untold(TestsUpdate))

\* A brief without text is refused, so that a Curator whose plan is missing or still empty fails.
FindNoPlan ==
    /\ Running("Curator") /\ PlanNamed = NoText
    /\ hand' = [hand EXCEPT !.stage = "rejecting"]
    /\ UNCHANGED <<clock, files, desk, intent, queues, running, manager, pass, results, lost, budget>>
    /\ stale' = stale \cup UntoldByRun'

\* A hook of the role may fail before the agent starts and after it is done, and the agent between.
MayFail == Consuming /\ hand.stage \in {"running", "saving", "saved"}

\* A hook or the run fails; an agent that down has shut down fails it too.
RunFails ==
    /\ MayFail
    /\ IF manager = "serving" THEN Spend("faults") ELSE UNCHANGED budget
    /\ lost' = lost \cup (IF Role[hand.agent] = "Curator" THEN {PlanNamed} ELSE {})
    /\ hand' = [hand EXCEPT !.stage = "rejecting"]
    /\ UNCHANGED <<clock, files, desk, intent, queues, running, manager, pass, results>>
    /\ stale' = stale \cup UntoldByRun'

\* buildFollowUpEvent: the brief's event names the plan, the others name nothing.
FollowUpEvent ==
    LET type == EmitEvent[Role[hand.agent]]
    IN  [type |-> type, path |-> IF type = BriefUpdate THEN hand.event.path ELSE 0]

EmitFollowUp ==
    /\ Consuming /\ hand.stage = "emitting"
    /\ DecideEnqueue("manager", FollowUpEvent)
    /\ stale' = stale \cup (IF SubscribedAgents(FollowUpEvent.type) = {} THEN Untold(FollowUpEvent.type) ELSE {})
    /\ hand' = [hand EXCEPT !.stage = "enqueuing"]
    /\ UNCHANGED <<clock, files, desk, queues, running, manager, pass, results, lost, budget>>

EmitDone ==
    /\ Consuming /\ hand.stage = "enqueuing" /\ intent["manager"] = {}
    /\ hand' = [hand EXCEPT !.stage = "finishing"]
    /\ UNCHANGED <<clock, files, desk, intent, queues, running, manager, pass, results, lost, stale, budget>>

\* The file moves to done or failed, and the visit goes on with its listing.
MoveFile ==
    /\ Consuming /\ hand.stage \in {"finishing", "rejecting"}
    /\ processing' = [processing EXCEPT ![hand.agent] = SubSeq(@, 1, Len(@) - 1)]
    /\ hand' = IF hand.left = 1 THEN NoHand
               ELSE [NoHand EXCEPT !.stage = "claiming", !.agent = hand.agent, !.left = hand.left - 1]
    /\ UNCHANGED <<clock, files, desk, intent, pending, running, manager, pass, results, lost, stale, budget>>

--------------------------------------------------------------------------------
(* An operator's commands, from processes of their own. *)

\* codefleet-curator-tools source-brief save, with some source path; it tells nobody.
SaveByHand ==
    /\ written < MaxTexts /\ Spend("byHand")
    /\ written' = written + 1
    /\ brief' = [text |-> written + 1, source |-> clock]
    /\ stale' = stale \cup Untold(BriefUpdate)
    /\ UNCHANGED <<clock, draft, plan, desk, intent, queues, running, manager, pass, hand, tests, backlog, curated, lost>>

\* codefleet trigger: each event type builds and checks its event, a plan's by the form of its
\* path: whether there is such a file is not looked at.
CreateEvents == [type : {PlanCreate}, path : Seconds] \cup [type : {BriefUpdate, TestsUpdate}, path : {0}]

Trigger ==
    /\ intent["operator"] = {} /\ Spend("byHand")
    /\ \E event \in CreateEvents : DecideEnqueue("operator", event)
    /\ UNCHANGED <<clock, files, desk, queues, running, manager, pass, hand, results, lost, stale>>

--------------------------------------------------------------------------------

Commit(c) == ReadDraft(c) \/ OpenPlan(c) \/ WritePlan(c) \/ PublishPlan(c) \/ WriteQueueFile(c) \/ EndCommit(c)
Run == SaveMarkdown \/ FindNoPlan \/ SaveMetadata \/ UpsertTestCases \/ RefineBacklog \/ RunSucceeds
Consume == \/ BeginPass \/ Visit \/ ClaimFile \/ Run \/ EmitFollowUp \/ WriteQueueFile("manager") \/ EmitDone \/ MoveFile
Stop == Signal \/ Crash \/ DownSaved \/ Exit
Operator == SaveByHand \/ Trigger \/ WriteQueueFile("operator")

Next == \/ \E c \in Chats : EditDraft(c) \/ Commit(c)
        \/ Start \/ BringUp \/ Stop \/ Consume \/ RunFails \/ Operator

Spec == Init /\ [][Next]_vars

\* The operator starts the fleet again whenever it has stopped, a commit the process lives to end
\* is ended, the consume loop's timer keeps ticking and a run ends.
Fairness ==
    /\ WF_vars(Start) /\ WF_vars(BringUp) /\ WF_vars(DownSaved) /\ WF_vars(Exit)
    /\ WF_vars(Consume) /\ WF_vars(WriteQueueFile("operator"))
    /\ \A c \in Chats : WF_vars(OpenPlan(c) \/ WritePlan(c) \/ PublishPlan(c) \/ WriteQueueFile(c) \/ EndCommit(c))

FairSpec == Spec /\ Fairness

--------------------------------------------------------------------------------
(* What must hold. *)

\* A plan file's text has been made a brief, or will be: an event that names it is queued, in
\* hand, or about to be published; else it was lost in one of the ways `lost' names.
PlanKept ==
    \A s \in Seconds : plan[s] # NoText =>
        \/ plan[s] \in curated \cup lost
        \/ \E a \in Agents : \E e \in Events(pending[a]) \cup Events(processing[a]) :
               e.type = PlanCreate /\ e.path = s
        \/ \E c \in Chats : desk[c].phase \in {"written", "publishing"} /\ desk[c].path = s

\* What a committed plan says reaches the backlog: in the end every plan has been curated, the
\* tests follow the brief and the backlog follows the tests, over crashes, restarts and events
\* dropped as already in flight.  `lost' and `stale' name what the fleet does lose.
PlansReachBacklog ==
    <>[](/\ \A s \in Seconds : plan[s] \in {NoText} \cup curated \cup lost
         /\ "brief" \in stale \/ tests = brief.text
         /\ "tests" \in stale \/ backlog = tests)
=================================================================================
