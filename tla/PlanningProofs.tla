---------------------------- MODULE PlanningProofs -----------------------------
(***************************************************************************)
(* Proofs about the planning half of the fleet: no plan is forgotten, for  *)
(* every number of conversations and agents, every schedule and crash.     *)
(***************************************************************************)
EXTENDS Planning, TLAPS

--------------------------------------------------------------------------------
\* An event lies only with an agent that is subscribed to it, and a plan's event names a plan.
Proper(a, e) == e.type \in Subscribed[Role[a]] /\ (e.type = PlanCreate => e.path \in Seconds)

Addressed ==
    /\ \A a \in Agents : \A e \in Events(pending[a]) \cup Events(processing[a]) : Proper(a, e)
    /\ \A p \in Process : \A i \in intent[p] : Proper(i.agent, i.event)

\* The consume loop and the one file it may have claimed.
Claimed == hand.stage \notin {"idle", "claiming"}
InHand ==
    /\ Claimed => processing[hand.agent] = <<hand.event>> /\ hand.left - 1 <= Len(pending[hand.agent])
    /\ hand.stage = "claiming" => hand.left <= Len(pending[hand.agent])
    /\ hand.stage # "idle" => hand.left > 0
    /\ manager # "off" => \A a \in Agents : ~(Claimed /\ a = hand.agent) => processing[a] = <<>>
    /\ hand.stage = "saving" => Role[hand.agent] = "Curator"

\* A conversation's commit: what it has still to write to queues is its own plan's event.
Publishing ==
    \A c \in Chats :
        /\ desk[c].phase # "idle" => desk[c].path \in Seconds
        /\ intent[c] # {} => desk[c].phase = "publishing"
        /\ \A i \in intent[c] : i.event = PlanEvent(c)

\* Where the plan of second s is on its way to its brief.
Queued(s) == \E a \in Agents : \E e \in Events(pending[a]) : e.type = PlanCreate /\ e.path = s
Begun(a) == hand.agent = a /\ hand.stage \notin {"idle", "claiming", "running"}
Unbegun(s) ==
    \E a \in Agents : ~Begun(a) /\ \E e \in Events(processing[a]) : e.type = PlanCreate /\ e.path = s
Saving(s) == hand.stage = "saving" /\ hand.event.path = s /\ hand.text = plan[s]
AtDesk(s) ==
    \E c \in Chats : /\ desk[c].path = s /\ desk[c].text = plan[s]
                     /\ \/ desk[c].phase = "written"
                        \/ desk[c].phase = "publishing" /\ intent[c] # {}
Settled(s) == plan[s] \in curated \cup lost
OnItsWay ==
    \A s \in Seconds : plan[s] # NoText => \/ Settled(s) \/ Queued(s) \/ Unbegun(s) \/ Saving(s) \/ AtDesk(s)

IInv == TypeOK /\ Addressed /\ InHand /\ Publishing /\ OnItsWay
--------------------------------------------------------------------------------
(* The events of a queue directory. *)

LEMMA EventsAppended ==
    ASSUME NEW s \in Seq(Event), NEW e \in Event
    PROVE  /\ Append(s, e) \in Seq(Event) /\ Len(Append(s, e)) = Len(s) + 1
           /\ Events(Append(s, e)) = Events(s) \cup {e}
<1>1. Append(s, e) \in Seq(Event) /\ Len(Append(s, e)) = Len(s) + 1
  OBVIOUS
<1>2. DOMAIN Append(s, e) = 1 .. Len(s) + 1
  OBVIOUS
<1>3. \A i \in 1 .. Len(s) + 1 : Append(s, e)[i] = IF i = Len(s) + 1 THEN e ELSE s[i]
  OBVIOUS
<1>4. DOMAIN s = 1 .. Len(s) /\ Len(s) \in Nat
  OBVIOUS
<1>5. Events(Append(s, e)) = {Append(s, e)[i] : i \in 1 .. Len(s) + 1}
  BY <1>2 DEF Events
<1>6. Events(s) = {s[i] : i \in 1 .. Len(s)}
  BY <1>4 DEF Events
<1>7. Events(Append(s, e)) = Events(s) \cup {e}
  BY <1>3, <1>4, <1>5, <1>6
<1> QED BY <1>1, <1>7

LEMMA EventsTaken ==
    ASSUME NEW s \in Seq(Event), Len(s) > 0
    PROVE  /\ Head(s) \in Event /\ Tail(s) \in Seq(Event) /\ Len(Tail(s)) = Len(s) - 1
           /\ Events(s) = Events(Tail(s)) \cup {Head(s)}
<1>1. s # <<>>
  OBVIOUS
<1>2. Head(s) \in Event /\ Tail(s) \in Seq(Event) /\ Len(Tail(s)) = Len(s) - 1 /\ Head(s) = s[1]
  BY <1>1
<1>3. \A i \in 1 .. Len(s) - 1 : Tail(s)[i] = s[i + 1]
  BY <1>1
<1>4. Len(s) \in Nat /\ DOMAIN s = 1 .. Len(s) /\ DOMAIN Tail(s) = 1 .. Len(s) - 1
  BY <1>1, <1>2
<1>5. ASSUME NEW e \in Events(s)
      PROVE  e \in Events(Tail(s)) \cup {Head(s)}
  <2>1. PICK i \in 1 .. Len(s) : e = s[i]
    BY <1>4 DEF Events
  <2>2. CASE i = 1
    BY <1>2, <2>1, <2>2
  <2>3. CASE i # 1
    <3>1. i - 1 \in 1 .. Len(s) - 1 /\ Tail(s)[i - 1] = e
      BY <1>3, <1>4, <2>1, <2>3
    <3> QED BY <1>4, <3>1 DEF Events
  <2> QED BY <2>2, <2>3
<1>6. ASSUME NEW e \in Events(Tail(s)) \cup {Head(s)}
      PROVE  e \in Events(s)
  <2>1. CASE e = Head(s)
    <3>1. 1 \in DOMAIN s
      BY <1>4
    <3> QED BY <1>2, <2>1, <3>1 DEF Events
  <2>2. CASE e \in Events(Tail(s))
    <3>1. PICK i \in 1 .. Len(s) - 1 : e = Tail(s)[i]
      BY <1>4, <2>2 DEF Events
    <3>2. i + 1 \in DOMAIN s /\ s[i + 1] = e
      BY <1>3, <1>4, <3>1
    <3> QED BY <3>2 DEF Events
  <2> QED BY <1>6, <2>1, <2>2
<1>7. Events(s) = Events(Tail(s)) \cup {Head(s)}
  BY <1>5, <1>6
<1> QED BY <1>2, <1>7

LEMMA EventsJoined ==
    ASSUME NEW s \in Seq(Event), NEW t \in Seq(Event)
    PROVE  /\ s \o t \in Seq(Event) /\ Len(s \o t) = Len(s) + Len(t)
           /\ Events(s \o t) = Events(s) \cup Events(t)
<1>1. s \o t \in Seq(Event) /\ Len(s \o t) = Len(s) + Len(t)
  OBVIOUS
<1>2. /\ DOMAIN s = 1 .. Len(s) /\ DOMAIN t = 1 .. Len(t) /\ Len(s) \in Nat /\ Len(t) \in Nat
      /\ DOMAIN (s \o t) = 1 .. Len(s) + Len(t)
  OBVIOUS
<1>3. \A i \in 1 .. Len(s) + Len(t) : (s \o t)[i] = IF i <= Len(s) THEN s[i] ELSE t[i - Len(s)]
  OBVIOUS
<1>4. ASSUME NEW e \in Events(s \o t)
      PROVE  e \in Events(s) \cup Events(t)
  <2>1. PICK i \in 1 .. Len(s) + Len(t) : e = (s \o t)[i]
    BY <1>2 DEF Events
  <2>2. CASE i <= Len(s)
    <3>1. i \in DOMAIN s /\ e = s[i]
      BY <1>2, <1>3, <2>1, <2>2
    <3> QED BY <3>1 DEF Events
  <2>3. CASE ~(i <= Len(s))
    <3>1. i - Len(s) \in DOMAIN t /\ e = t[i - Len(s)]
      BY <1>2, <1>3, <2>1, <2>3
    <3> QED BY <3>1 DEF Events
  <2> QED BY <2>2, <2>3
<1>5. ASSUME NEW e \in Events(s)
      PROVE  e \in Events(s \o t)
  <2>1. PICK i \in 1 .. Len(s) : e = s[i]
    BY <1>2 DEF Events
  <2>2. i \in DOMAIN (s \o t) /\ (s \o t)[i] = e
    BY <1>2, <1>3, <2>1
  <2> QED BY <2>2 DEF Events
<1>6. ASSUME NEW e \in Events(t)
      PROVE  e \in Events(s \o t)
  <2>1. PICK i \in 1 .. Len(t) : e = t[i]
    BY <1>2 DEF Events
  <2>2. Len(s) + i \in DOMAIN (s \o t) /\ (s \o t)[Len(s) + i] = e
    BY <1>2, <1>3, <2>1
  <2> QED BY <2>2 DEF Events
<1>7. Events(s \o t) = Events(s) \cup Events(t)
  BY <1>4, <1>5, <1>6
<1> QED BY <1>1, <1>7

LEMMA EventsFew ==
    /\ Events(<<>>) = {}
    /\ \A e \in Event : Events(<<e>>) = {e} /\ SubSeq(<<e>>, 1, Len(<<e>>) - 1) = <<>>
                        /\ Append(<<>>, e) = <<e>> /\ <<e>> \in Seq(Event)
<1>1. Events(<<>>) = {}
  BY DEF Events
<1>2. ASSUME NEW e \in Event
      PROVE  Events(<<e>>) = {e}
  BY DEF Events
<1>3. ASSUME NEW e \in Event
      PROVE  SubSeq(<<e>>, 1, Len(<<e>>) - 1) = <<>>
  OBVIOUS
<1>4. ASSUME NEW e \in Event
      PROVE  Append(<<>>, e) = <<e>> /\ <<e>> \in Seq(Event)
  OBVIOUS
<1> QED BY <1>1, <1>2, <1>3, <1>4
--------------------------------------------------------------------------------
(* The steps, and the types of the variables. *)

ChatStep(c) == EditDraft(c) \/ ReadDraft(c) \/ OpenPlan(c) \/ WritePlan(c) \/ PublishPlan(c) \/ EndCommit(c)
ManagerStep == Start \/ BringUp \/ Signal \/ DownSaved
EndStep == Crash \/ Exit
RunStep ==
    \/ SaveMarkdown \/ SaveMetadata \/ UpsertTestCases \/ RefineBacklog \/ RunSucceeds
    \/ EmitFollowUp \/ EmitDone \/ RunFails \/ FindNoPlan
LoopStep == BeginPass \/ Visit \/ ClaimFile \/ MoveFile
HandStep == SaveByHand \/ Trigger

LEMMA StepKinds ==
    ASSUME Next
    PROVE  \/ \E c \in Chats : ChatStep(c)
           \/ \E p \in Process : WriteQueueFile(p)
           \/ ManagerStep \/ EndStep \/ RunStep \/ LoopStep \/ HandStep
BY DEF Next, Commit, Stop, Consume, Run, Operator, ChatStep, ManagerStep, EndStep, RunStep, LoopStep,
       HandStep, Process

Intent == [agent : Agents, event : Event]
HandRecord == [stage : Stage, agent : Agents \cup {0}, left : Nat, event : Event, text : Texts]
DeskRecord == [phase : {"idle", "read", "opened", "written", "publishing"}, text : Texts, path : 0 .. MaxSeconds]

FilesTyped ==
    /\ clock \in Seconds /\ written \in Texts
    /\ draft \in [Chats -> Texts] /\ plan \in [Seconds -> Texts]
    /\ desk \in [Chats -> DeskRecord]
QueuesTyped ==
    /\ intent \in [Process -> SUBSET Intent]
    /\ pending \in [Agents -> Seq(Event)] /\ processing \in [Agents -> Seq(Event)]
LoopTyped ==
    /\ running \subseteq Agents /\ pass \subseteq Agents
    /\ manager \in {"off", "bringing-up", "serving", "stopping", "exiting"}
    /\ hand \in HandRecord
    /\ hand.stage # "idle" => hand.agent \in Agents
    /\ manager \in {"off", "bringing-up"} => hand = NoHand /\ pass = {}
ResultsTyped ==
    /\ brief \in [text : Texts, source : 0 .. MaxSeconds] /\ tests \in Texts /\ backlog \in Texts
    /\ curated \subseteq Texts /\ lost \subseteq Texts /\ stale \subseteq {"brief", "tests"}
BudgetTyped == budget \in [commits : 0 .. MaxCommits, faults : 0 .. MaxFaults, byHand : 0 .. MaxByHand]

LEMMA Parts == TypeOK <=> FilesTyped /\ QueuesTyped /\ LoopTyped /\ ResultsTyped /\ BudgetTyped
BY DEF TypeOK, FilesTyped, QueuesTyped, LoopTyped, ResultsTyped, BudgetTyped, Intent, HandRecord,
       DeskRecord

LEMMA PartsNext ==
    ASSUME FilesTyped', QueuesTyped', LoopTyped', ResultsTyped', BudgetTyped'
    PROVE  TypeOK'
BY DEF TypeOK, FilesTyped, QueuesTyped, LoopTyped, ResultsTyped, BudgetTyped, Intent, HandRecord,
       DeskRecord

LEMMA SpendTyped ==
    ASSUME BudgetTyped, NEW w \in {"commits", "faults", "byHand"}, Spend(w)
    PROVE  BudgetTyped'
<1>1. CASE w = "commits"
  BY <1>1, PlanningBounds DEF BudgetTyped, Spend
<1>2. CASE w = "faults"
  BY <1>2, PlanningBounds DEF BudgetTyped, Spend
<1>3. CASE w = "byHand"
  BY <1>3, PlanningBounds DEF BudgetTyped, Spend
<1> QED BY <1>1, <1>2, <1>3

LEMMA BudgetStep ==
    ASSUME BudgetTyped, Next
    PROVE  BudgetTyped'
<1>1. UNCHANGED budget \/ \E w \in {"commits", "faults", "byHand"} : Spend(w)
  <2>1. ASSUME NEW c \in Chats, ChatStep(c)
        PROVE  UNCHANGED budget \/ \E w \in {"commits", "faults", "byHand"} : Spend(w)
    BY <2>1 DEF ChatStep, EditDraft, ReadDraft, OpenPlan, WritePlan, PublishPlan, EndCommit
  <2>2. ASSUME NEW p \in Process, WriteQueueFile(p)
        PROVE  UNCHANGED budget
    BY <2>2 DEF WriteQueueFile
  <2>3. ASSUME ManagerStep \/ EndStep
        PROVE  UNCHANGED budget \/ \E w \in {"commits", "faults", "byHand"} : Spend(w)
    BY <2>3 DEF ManagerStep, EndStep, Start, BringUp, Signal, DownSaved, Crash, Exit
  <2>4. ASSUME RunStep \/ LoopStep
        PROVE  UNCHANGED budget \/ \E w \in {"commits", "faults", "byHand"} : Spend(w)
    BY <2>4 DEF RunStep, LoopStep, SaveMarkdown, SaveMetadata, UpsertTestCases, RefineBacklog,
                RunSucceeds, EmitFollowUp, EmitDone, RunFails, FindNoPlan, BeginPass, Visit, ClaimFile, MoveFile
  <2>5. ASSUME HandStep
        PROVE  UNCHANGED budget \/ \E w \in {"commits", "faults", "byHand"} : Spend(w)
    BY <2>5 DEF HandStep, SaveByHand, Trigger
  <2> QED BY <2>1, <2>2, <2>3, <2>4, <2>5, StepKinds
<1>2. ASSUME UNCHANGED budget
      PROVE  BudgetTyped'
  BY <1>2 DEF BudgetTyped
<1> QED BY <1>1, <1>2, SpendTyped

\* The files of the conversations.
LEMMA FilesTypeStep ==
    ASSUME FilesTyped, [Next]_vars
    PROVE  FilesTyped'
<1>0. NoCommit \in DeskRecord /\ MaxSeconds \in Nat /\ MaxTexts \in Nat
  BY PlanningBounds DEF NoCommit, DeskRecord, Texts, NoText
<1>1. CASE UNCHANGED <<clock, files, desk>>
  BY <1>1 DEF FilesTyped, files
<1>2. ASSUME NEW c \in Chats, EditDraft(c)
      PROVE  FilesTyped'
  BY <1>0, <1>2 DEF EditDraft, FilesTyped, Texts
<1>3. ASSUME NEW c \in Chats, ReadDraft(c)
      PROVE  FilesTyped'
  <2>1. clock' \in Seconds
    BY <1>0, <1>3 DEF ReadDraft, FilesTyped, Seconds
  <2>2. [phase |-> "read", text |-> draft[c], path |-> clock'] \in DeskRecord
    BY <1>0, <2>1 DEF FilesTyped, DeskRecord, Seconds
  <2> QED BY <1>3, <2>1, <2>2 DEF ReadDraft, FilesTyped, files
<1>4. ASSUME NEW c \in Chats, WritePlan(c)
      PROVE  FilesTyped'
  <2>1. PICK d \in DeskRecord : d = desk[c]
    BY DEF FilesTyped
  <2>2. d.text \in Texts /\ [d EXCEPT !.phase = "written"] \in DeskRecord
    BY DEF DeskRecord
  <2>3. desk' = [desk EXCEPT ![c] = [d EXCEPT !.phase = "written"]]
    BY <1>4, <2>1 DEF WritePlan
  <2> QED BY <1>4, <2>1, <2>2, <2>3 DEF WritePlan, FilesTyped
<1>10. ASSUME NEW c \in Chats, OpenPlan(c)
       PROVE  FilesTyped'
  <2>1. PICK d \in DeskRecord : d = desk[c]
    BY DEF FilesTyped
  <2>2. NoText \in Texts /\ [d EXCEPT !.phase = "opened"] \in DeskRecord
    BY <1>0 DEF DeskRecord, NoText, Texts
  <2>3. desk' = [desk EXCEPT ![c] = [d EXCEPT !.phase = "opened"]]
    BY <1>10, <2>1 DEF OpenPlan
  <2> QED BY <1>10, <2>1, <2>2, <2>3 DEF OpenPlan, FilesTyped
<1>5. ASSUME NEW c \in Chats, PublishPlan(c)
      PROVE  FilesTyped'
  <2>1. PICK d \in DeskRecord : d = desk[c]
    BY DEF FilesTyped
  <2>2. [d EXCEPT !.phase = "publishing"] \in DeskRecord
    BY DEF DeskRecord
  <2>3. desk' = [desk EXCEPT ![c] = [d EXCEPT !.phase = "publishing"]]
    BY <1>5, <2>1 DEF PublishPlan
  <2> QED BY <1>5, <2>2, <2>3 DEF PublishPlan, FilesTyped, files
<1>6. ASSUME NEW c \in Chats, EndCommit(c)
      PROVE  FilesTyped'
  BY <1>0, <1>6 DEF EndCommit, FilesTyped, files
<1>7. CASE EndStep
  BY <1>0, <1>7 DEF EndStep, Crash, Exit, ProcessEnds, FilesTyped, files
<1>8. CASE SaveByHand
  BY <1>0, <1>8 DEF SaveByHand, FilesTyped, Texts
<1>9. CASE Next
  <2>1. ASSUME NEW p \in Process, WriteQueueFile(p)
        PROVE  UNCHANGED <<clock, files, desk>>
    BY <2>1 DEF WriteQueueFile
  <2>2. ASSUME ManagerStep
        PROVE  UNCHANGED <<clock, files, desk>>
    BY <2>2 DEF ManagerStep, Start, BringUp, Signal, DownSaved
  <2>3. ASSUME RunStep \/ LoopStep \/ Trigger
        PROVE  UNCHANGED <<clock, files, desk>>
    BY <2>3 DEF RunStep, LoopStep, SaveMarkdown, SaveMetadata, UpsertTestCases, RefineBacklog,
                RunSucceeds, EmitFollowUp, EmitDone, RunFails, FindNoPlan, BeginPass, Visit, ClaimFile, MoveFile,
                Trigger
  <2> QED BY <1>1, <1>2, <1>3, <1>4, <1>5, <1>6, <1>7, <1>8, <1>9, <1>10, <2>1, <2>2, <2>3, StepKinds
          DEF ChatStep, HandStep
<1> QED BY <1>1, <1>9 DEF vars

\* The events a step decides to write are for agents that are subscribed to them.
LEMMA Decided ==
    ASSUME QueuesTyped, LoopTyped, NEW p \in Process, NEW event \in Event, DecideEnqueue(p, event),
           event.type = PlanCreate => event.path \in Seconds
    PROVE  /\ intent' \in [Process -> SUBSET Intent]
           /\ \A q \in Process \ {p} : intent'[q] = intent[q]
           /\ \A i \in intent'[p] : i.event = event /\ i.agent \in Agents /\ Proper(i.agent, event)
           /\ \A a \in ResolveTargetAgents(event.type) : [agent |-> a, event |-> event] \in intent'[p]
<1>1. PICK T : T = ResolveTargetAgents(event.type)
  OBVIOUS
<1>2. ASSUME NEW a \in T
      PROVE  a \in Agents /\ Proper(a, event)
  <2>1. a \in Agents
    BY <1>1, <1>2 DEF ResolveTargetAgents, SubscribedAgents, Foremost, LoopTyped
  <2>2. event.type \in Subscribed[Role[a]]
    BY <1>1, <1>2 DEF ResolveTargetAgents, SubscribedAgents, Foremost, Subscribed
  <2> QED BY <2>1, <2>2 DEF Proper
<1>3. PICK new : new = {[agent |-> a, event |-> event] : a \in T}
  OBVIOUS
<1>4. intent' = [intent EXCEPT ![p] = new]
  BY <1>1, <1>3 DEF DecideEnqueue
<1>5. new \subseteq Intent
  BY <1>2, <1>3 DEF Intent
<1>6. \A i \in new : i.event = event /\ i.agent \in T
  BY <1>3
<1>7. intent'[p] = new /\ \A q \in Process \ {p} : intent'[q] = intent[q]
  BY <1>4 DEF QueuesTyped
<1>8. \A a \in T : [agent |-> a, event |-> event] \in new
  BY <1>3
<1>9. intent' \in [Process -> SUBSET Intent]
  BY <1>4, <1>5 DEF QueuesTyped
<1>10. \A i \in intent'[p] : i.event = event /\ i.agent \in Agents /\ Proper(i.agent, event)
  BY <1>2, <1>6, <1>7
<1> QED BY <1>1, <1>7, <1>8, <1>9, <1>10

\* A file that is written is one that was decided on.
LEMMA Written ==
    ASSUME QueuesTyped, NEW p \in Process, WriteQueueFile(p)
    PROVE  \E i \in intent[p] :
              /\ i.agent \in Agents /\ i.event \in Event
              /\ pending' = [pending EXCEPT ![i.agent] = Append(@, i.event)]
              /\ pending' \in [Agents -> Seq(Event)]
              /\ intent' = [intent EXCEPT ![p] = @ \ {i}]
              /\ intent' \in [Process -> SUBSET Intent]
              /\ Events(pending'[i.agent]) = Events(pending[i.agent]) \cup {i.event}
              /\ Len(pending'[i.agent]) = Len(pending[i.agent]) + 1
              /\ \A a \in Agents \ {i.agent} : pending'[a] = pending[a]
              /\ UNCHANGED <<processing, hand, manager, desk, plan, running, pass>>
<1>1. PICK i \in intent[p] : /\ pending' = [pending EXCEPT ![i.agent] = Append(@, i.event)]
                             /\ intent' = [intent EXCEPT ![p] = @ \ {i}]
  BY DEF WriteQueueFile
<1>2. i.agent \in Agents /\ i.event \in Event
  BY <1>1 DEF QueuesTyped, Intent
<1>3. pending[i.agent] \in Seq(Event)
  BY <1>2 DEF QueuesTyped
<1>4. PICK t \in Seq(Event) : /\ t = Append(pending[i.agent], i.event)
                              /\ Len(t) = Len(pending[i.agent]) + 1
                              /\ Events(t) = Events(pending[i.agent]) \cup {i.event}
  BY <1>2, <1>3, EventsAppended
<1>5. pending' = [pending EXCEPT ![i.agent] = t]
  BY <1>1, <1>4
<1>6. pending' \in [Agents -> Seq(Event)] /\ pending'[i.agent] = t
  BY <1>2, <1>5 DEF QueuesTyped
<1>7. \A a \in Agents \ {i.agent} : pending'[a] = pending[a]
  BY <1>5 DEF QueuesTyped
<1>8. intent' \in [Process -> SUBSET Intent]
  BY <1>1 DEF QueuesTyped
<1>9. UNCHANGED <<processing, hand, manager, desk, plan, running, pass>>
  BY DEF WriteQueueFile, files
<1> QED BY <1>1, <1>2, <1>4, <1>6, <1>7, <1>8, <1>9
--------------------------------------------------------------------------------
(* The queues. *)

\* A step that decides on files keeps the queues as they are.
LEMMA DecidedTyped ==
    ASSUME QueuesTyped, LoopTyped, Addressed, NEW p \in Process, NEW event \in Event,
           DecideEnqueue(p, event), event.type = PlanCreate => event.path \in Seconds,
           UNCHANGED queues
    PROVE  QueuesTyped' /\ Addressed'
<1>1. QueuesTyped'
  BY Decided DEF QueuesTyped, queues
<1>2. \A q \in Process : \A i \in intent'[q] : Proper(i.agent, i.event)
  BY Decided DEF Addressed
<1> QED BY <1>1, <1>2 DEF Addressed, queues

LEMMA ClaimFacts ==
    ASSUME QueuesTyped, LoopTyped, InHand, Addressed, ClaimFile
    PROVE  /\ hand.agent \in Agents
           /\ \E e \in Event :
                /\ e \in Events(pending[hand.agent])
                /\ hand' = [hand EXCEPT !.stage = "running", !.event = e]
                /\ processing' = [processing EXCEPT ![hand.agent] = <<e>>]
                /\ pending' \in [Agents -> Seq(Event)]
                /\ Events(pending[hand.agent]) = Events(pending'[hand.agent]) \cup {e}
                /\ Len(pending'[hand.agent]) = Len(pending[hand.agent]) - 1
                /\ \A a \in Agents \ {hand.agent} : pending'[a] = pending[a]
           /\ \A a \in Agents : processing[a] = <<>>
           /\ UNCHANGED <<clock, files, desk, intent, running, manager, pass, results, lost, stale>>
<1>1. hand.stage = "claiming" /\ hand.agent \in Agents /\ manager # "off"
  BY DEF ClaimFile, LoopTyped, Consuming
<1>2. \A a \in Agents : processing[a] = <<>>
  BY <1>1 DEF InHand, Claimed
<1>3. pending[hand.agent] \in Seq(Event) /\ hand.left \in Nat /\ hand.left > 0
      /\ hand.left <= Len(pending[hand.agent])
  BY <1>1 DEF QueuesTyped, LoopTyped, HandRecord, InHand
<1>4. Len(pending[hand.agent]) > 0 /\ Len(pending[hand.agent]) \in Nat
  BY <1>3
<1>5. PICK e \in Event : e = Head(pending[hand.agent])
  BY <1>3, <1>4, EventsTaken
<1>6. PICK t \in Seq(Event) : /\ t = Tail(pending[hand.agent])
                              /\ Len(t) = Len(pending[hand.agent]) - 1
                              /\ Events(pending[hand.agent]) = Events(t) \cup {e}
  BY <1>3, <1>4, <1>5, EventsTaken
<1>7. pending' = [pending EXCEPT ![hand.agent] = t]
  BY <1>6 DEF ClaimFile
<1>8. /\ pending' \in [Agents -> Seq(Event)] /\ pending'[hand.agent] = t
      /\ \A a \in Agents \ {hand.agent} : pending'[a] = pending[a]
  BY <1>1, <1>7 DEF QueuesTyped
<1>9. hand' = [hand EXCEPT !.stage = "running", !.event = e]
  BY <1>5 DEF ClaimFile
<1>10. Append(<<>>, e) = <<e>>
  BY EventsFew
<1>11. processing' = [processing EXCEPT ![hand.agent] = <<e>>]
  BY <1>1, <1>2, <1>5, <1>10 DEF ClaimFile
<1>12. UNCHANGED <<clock, files, desk, intent, running, manager, pass, results, lost, stale>>
  BY DEF ClaimFile
<1> QED BY <1>1, <1>2, <1>6, <1>8, <1>9, <1>11, <1>12

LEMMA StartFacts ==
    ASSUME QueuesTyped, Start
    PROVE  /\ pending' \in [Agents -> Seq(Event)] /\ processing' = [a \in Agents |-> <<>>]
           /\ \A a \in Agents : /\ Events(pending'[a]) = Events(pending[a]) \cup Events(processing[a])
                                /\ Len(pending[a]) <= Len(pending'[a])
<1>1. ASSUME NEW a \in Agents
      PROVE  /\ processing[a] \o pending[a] \in Seq(Event)
             /\ Events(processing[a] \o pending[a]) = Events(pending[a]) \cup Events(processing[a])
             /\ Len(pending[a]) <= Len(processing[a] \o pending[a])
  <2>1. processing[a] \in Seq(Event) /\ pending[a] \in Seq(Event)
    BY DEF QueuesTyped
  <2>2. Len(processing[a]) \in Nat /\ Len(pending[a]) \in Nat
    BY <2>1
  <2>3. /\ processing[a] \o pending[a] \in Seq(Event)
        /\ Len(processing[a] \o pending[a]) = Len(processing[a]) + Len(pending[a])
        /\ Events(processing[a] \o pending[a]) = Events(processing[a]) \cup Events(pending[a])
    BY <2>1, EventsJoined
  <2>4. Len(pending[a]) <= Len(processing[a] \o pending[a])
    <3>1. ASSUME NEW m \in Nat, NEW n \in Nat, NEW k, k = m + n
          PROVE  n <= k
      BY <3>1
    <3> QED BY <2>2, <2>3, <3>1
  <2>5. Events(processing[a] \o pending[a]) = Events(pending[a]) \cup Events(processing[a])
    BY <2>3
  <2> QED BY <2>3, <2>4, <2>5
<1>2. pending' = [a \in Agents |-> processing[a] \o pending[a]] /\ processing' = [a \in Agents |-> <<>>]
  BY DEF Start
<1> QED BY <1>1, <1>2

\* The file that is moved is the only one in a processing directory.
LEMMA MoveFacts ==
    ASSUME QueuesTyped, LoopTyped, InHand, MoveFile
    PROVE  /\ hand.agent \in Agents /\ hand.stage \in {"finishing", "rejecting"} /\ manager # "off"
           /\ processing' = [a \in Agents |-> <<>>]
           /\ processing[hand.agent] = <<hand.event>>
           /\ \A a \in Agents \ {hand.agent} : processing[a] = <<>>
           /\ UNCHANGED <<clock, files, desk, intent, pending, running, manager, pass, results, lost, stale>>
<1>1. hand.stage \in {"finishing", "rejecting"} /\ hand.agent \in Agents /\ manager # "off"
  BY DEF MoveFile, LoopTyped, Consuming
<1>2. processing[hand.agent] = <<hand.event>> /\ \A a \in Agents \ {hand.agent} : processing[a] = <<>>
  BY <1>1 DEF InHand, Claimed
<1>3. PICK e \in Event : e = hand.event
  BY DEF LoopTyped, HandRecord
<1>4. SubSeq(<<e>>, 1, Len(<<e>>) - 1) = <<>>
  BY EventsFew
<1>5. processing' = [processing EXCEPT ![hand.agent] = <<>>]
  BY <1>1, <1>2, <1>3, <1>4 DEF MoveFile
<1>6. processing' = [a \in Agents |-> <<>>]
  BY <1>1, <1>2, <1>5 DEF QueuesTyped
<1>7. UNCHANGED <<clock, files, desk, intent, pending, running, manager, pass, results, lost, stale>>
  BY DEF MoveFile
<1> QED BY <1>1, <1>2, <1>6, <1>7

\* What a claimed event can be: its agent is subscribed to it.
LEMMA ClaimedEvent ==
    ASSUME QueuesTyped, LoopTyped, Addressed, InHand, Claimed
    PROVE  /\ hand.agent \in Agents /\ hand.event \in Event /\ hand.event \in Events(processing[hand.agent])
           /\ Proper(hand.agent, hand.event)
           /\ Role[hand.agent] = "Curator" <=> hand.event.type = PlanCreate
<1>1. hand.agent \in Agents /\ hand.event \in Event
  BY DEF LoopTyped, HandRecord, Claimed
<1>2. hand.event \in Events(processing[hand.agent])
  BY <1>1, EventsFew DEF InHand
<1>3. Proper(hand.agent, hand.event)
  BY <1>1, <1>2 DEF Addressed
<1>4. Role[hand.agent] \in {"Curator", "Gatekeeper", "Orchestrator"}
  BY <1>1, RolesAssumption
<1>5. Role[hand.agent] = "Curator" <=> hand.event.type = PlanCreate
  BY <1>3, <1>4 DEF Proper, Subscribed, PlanCreate, BriefUpdate, TestsUpdate
<1> QED BY <1>1, <1>2, <1>3, <1>5

LEMMA QueuesStep ==
    ASSUME TypeOK, Addressed, InHand, Publishing, [Next]_vars
    PROVE  QueuesTyped' /\ Addressed'
<1>1. FilesTyped /\ QueuesTyped /\ LoopTyped
  BY Parts
<1>2. ASSUME UNCHANGED <<intent, queues>>
      PROVE  QueuesTyped' /\ Addressed'
  BY <1>1, <1>2 DEF QueuesTyped, Addressed, queues
<1>3. ASSUME NEW c \in Chats, PublishPlan(c)
      PROVE  QueuesTyped' /\ Addressed'
  <2>1. desk[c].path \in Seconds /\ c \in Process
    BY <1>3 DEF PublishPlan, Publishing, Process
  <2>2. PlanEvent(c) \in Event /\ PlanEvent(c).path \in Seconds
    BY <2>1, PlanningBounds DEF PlanEvent, Event, EventType, Seconds
  <2>3. DecideEnqueue(c, PlanEvent(c)) /\ UNCHANGED queues
    BY <1>3 DEF PublishPlan
  <2> QED BY <1>1, <2>1, <2>2, <2>3, DecidedTyped
<1>4. ASSUME NEW p \in Process, WriteQueueFile(p)
      PROVE  QueuesTyped' /\ Addressed'
  <2>1. PICK i \in intent[p] :
              /\ i.agent \in Agents /\ i.event \in Event
              /\ pending' \in [Agents -> Seq(Event)]
              /\ intent' = [intent EXCEPT ![p] = @ \ {i}]
              /\ intent' \in [Process -> SUBSET Intent]
              /\ Events(pending'[i.agent]) = Events(pending[i.agent]) \cup {i.event}
              /\ \A a \in Agents \ {i.agent} : pending'[a] = pending[a]
              /\ UNCHANGED processing
    BY <1>1, <1>4, Written
  <2>2. Proper(i.agent, i.event)
    BY <2>1 DEF Addressed
  <2>3. \A q \in Process : intent'[q] \subseteq intent[q]
    BY <1>1, <2>1 DEF QueuesTyped
  <2>4. ASSUME NEW a \in Agents, NEW e \in Events(pending'[a])
        PROVE  Proper(a, e)
    <3>1. CASE a = i.agent
      BY <2>1, <2>2, <2>4, <3>1 DEF Addressed
    <3>2. CASE a # i.agent
      BY <2>1, <2>4, <3>2 DEF Addressed
    <3> QED BY <3>1, <3>2
  <2>5. QueuesTyped'
    BY <1>1, <2>1 DEF QueuesTyped
  <2> QED BY <2>1, <2>3, <2>4, <2>5 DEF Addressed
<1>5. ASSUME Start
      PROVE  QueuesTyped' /\ Addressed'
  <2>1. UNCHANGED intent
    BY <1>5 DEF Start
  <2>2. QueuesTyped'
    <3>1. pending' \in [Agents -> Seq(Event)] /\ processing' = [a \in Agents |-> <<>>]
      BY <1>1, <1>5, StartFacts
    <3>2. processing' \in [Agents -> Seq(Event)]
      BY <3>1
    <3> QED BY <1>1, <2>1, <3>1, <3>2 DEF QueuesTyped
  <2>3. \A a \in Agents : \A e \in Events(pending'[a]) : Proper(a, e)
    BY <1>1, <1>5, StartFacts DEF Addressed
  <2>4. \A a \in Agents : Events(processing'[a]) = {}
    BY <1>1, <1>5, StartFacts, EventsFew
  <2> QED BY <2>1, <2>2, <2>3, <2>4 DEF Addressed
<1>6. ASSUME EndStep
      PROVE  QueuesTyped' /\ Addressed'
  <2>1. /\ intent' = [p \in Process |-> IF p = "operator" THEN intent[p] ELSE {}]
        /\ UNCHANGED queues
    BY <1>6 DEF EndStep, Crash, Exit, ProcessEnds
  <2> QED BY <1>1, <2>1 DEF QueuesTyped, Addressed, queues
<1>7. ASSUME ClaimFile
      PROVE  QueuesTyped' /\ Addressed'
  <2>1. PICK e \in Event :
                /\ e \in Events(pending[hand.agent])
                /\ processing' = [processing EXCEPT ![hand.agent] = <<e>>]
                /\ pending' \in [Agents -> Seq(Event)]
                /\ Events(pending[hand.agent]) = Events(pending'[hand.agent]) \cup {e}
                /\ \A a \in Agents \ {hand.agent} : pending'[a] = pending[a]
    BY <1>1, <1>7, ClaimFacts
  <2>2. hand.agent \in Agents /\ UNCHANGED intent
    BY <1>1, <1>7, ClaimFacts
  <2>3. <<e>> \in Seq(Event) /\ Events(<<e>>) = {e} /\ Proper(hand.agent, e)
    BY <2>1, <2>2, EventsFew DEF Addressed
  <2>4. QueuesTyped'
    BY <1>1, <2>1, <2>2, <2>3 DEF QueuesTyped
  <2>5. ASSUME NEW a \in Agents, NEW x \in Events(pending'[a]) \cup Events(processing'[a])
        PROVE  Proper(a, x)
    <3>1. CASE a = hand.agent
      <4>1. Events(processing'[a]) = {e} /\ x \in Events(pending[a])
        BY <1>1, <2>1, <2>2, <2>3, <2>5, <3>1 DEF QueuesTyped
      <4> QED BY <4>1 DEF Addressed
    <3>2. CASE a # hand.agent
      <4>1. processing'[a] = processing[a] /\ pending'[a] = pending[a]
        BY <1>1, <2>1, <3>2 DEF QueuesTyped
      <4> QED BY <2>5, <4>1 DEF Addressed
    <3> QED BY <3>1, <3>2
  <2> QED BY <2>2, <2>4, <2>5 DEF Addressed
<1>8. ASSUME MoveFile
      PROVE  QueuesTyped' /\ Addressed'
  <2>1. processing' = [a \in Agents |-> <<>>] /\ UNCHANGED <<intent, pending>>
    BY <1>1, <1>8, MoveFacts
  <2> QED BY <1>1, <2>1, EventsFew DEF QueuesTyped, Addressed
<1>9. ASSUME EmitFollowUp
      PROVE  QueuesTyped' /\ Addressed'
  <2>1. Claimed
    BY <1>9 DEF EmitFollowUp, Claimed
  <2>2. hand.agent \in Agents /\ hand.event \in Event
    BY <1>1, <2>1, ClaimedEvent
  <2>3. Role[hand.agent] \in {"Curator", "Gatekeeper", "Orchestrator"}
    BY <2>2, RolesAssumption
  <2>4. PICK event : event = FollowUpEvent
    OBVIOUS
  <2>5. EmitEvent[Role[hand.agent]] \in {BriefUpdate, TestsUpdate, BacklogUpdate}
    BY <2>3 DEF EmitEvent
  <2>6. event \in Event /\ event.type # PlanCreate
    BY <2>2, <2>4, <2>5, PlanningBounds
       DEF FollowUpEvent, Event, EventType, PlanCreate, BriefUpdate, TestsUpdate, BacklogUpdate
  <2>7. DecideEnqueue("manager", event) /\ UNCHANGED queues
    BY <1>9, <2>4 DEF EmitFollowUp
  <2>8. "manager" \in Process
    BY DEF Process
  <2> QED BY <1>1, <2>6, <2>7, <2>8, DecidedTyped
<1>10. ASSUME Trigger
       PROVE  QueuesTyped' /\ Addressed'
  <2>1. PICK event \in CreateEvents : DecideEnqueue("operator", event)
    BY <1>10 DEF Trigger
  <2>2. event \in Event /\ (event.type = PlanCreate => event.path \in Seconds)
    BY <2>1, PlanningBounds DEF CreateEvents, Event, EventType, Seconds, PlanCreate, BriefUpdate, TestsUpdate
  <2>3. "operator" \in Process /\ UNCHANGED queues
    BY <1>10 DEF Process, Trigger
  <2> QED BY <1>1, <2>1, <2>2, <2>3, DecidedTyped
<1>11. CASE Next
  <2>1. ASSUME NEW c \in Chats, EditDraft(c) \/ ReadDraft(c) \/ OpenPlan(c) \/ WritePlan(c) \/ EndCommit(c)
        PROVE  UNCHANGED <<intent, queues>>
    BY <2>1 DEF EditDraft, ReadDraft, OpenPlan, WritePlan, EndCommit
  <2>2. ASSUME BringUp \/ Signal \/ DownSaved \/ BeginPass \/ Visit \/ SaveByHand
        PROVE  UNCHANGED <<intent, queues>>
    BY <2>2 DEF BringUp, Signal, DownSaved, BeginPass, Visit, SaveByHand
  <2>3. ASSUME SaveMarkdown \/ SaveMetadata \/ UpsertTestCases \/ RefineBacklog \/ RunSucceeds
               \/ EmitDone \/ RunFails \/ FindNoPlan
        PROVE  UNCHANGED <<intent, queues>>
    BY <2>3 DEF SaveMarkdown, SaveMetadata, UpsertTestCases, RefineBacklog, RunSucceeds, EmitDone,
                RunFails, FindNoPlan
  <2>4. ASSUME NEW c \in Chats, ChatStep(c)
        PROVE  QueuesTyped' /\ Addressed'
    BY <1>2, <1>3, <2>1, <2>4 DEF ChatStep
  <2>5. ASSUME ManagerStep \/ EndStep \/ RunStep \/ LoopStep \/ HandStep
        PROVE  QueuesTyped' /\ Addressed'
    BY <1>2, <1>5, <1>6, <1>7, <1>8, <1>9, <1>10, <2>2, <2>3, <2>5
       DEF ManagerStep, RunStep, LoopStep, HandStep
  <2> QED BY <1>4, <1>11, <2>4, <2>5, StepKinds
<1>12. CASE UNCHANGED vars
  BY <1>2, <1>12 DEF vars, queues
<1> QED BY <1>11, <1>12
--------------------------------------------------------------------------------
(* The run of an agent, and the loop around it. *)

\* What a step of a run does to the record of the file in hand.
LEMMA Staged ==
    ASSUME NEW h \in HandRecord, NEW st \in Stage
    PROVE  /\ [h EXCEPT !.stage = st] \in HandRecord /\ [h EXCEPT !.stage = st].stage = st
           /\ [h EXCEPT !.stage = st].agent = h.agent /\ [h EXCEPT !.stage = st].left = h.left
           /\ [h EXCEPT !.stage = st].event = h.event /\ [h EXCEPT !.stage = st].text = h.text
BY DEF HandRecord

LEMMA NoHandTyped == NoHand \in HandRecord /\ NoHand.stage = "idle"
<1>1. NoEvent \in Event /\ NoText \in Texts
  BY PlanningBounds DEF NoEvent, Event, EventType, NoText, Texts
<1> QED BY <1>1 DEF NoHand, HandRecord, Stage

LEMMA Listed ==
    ASSUME NEW a \in Agents, NEW n \in Nat
    PROVE  \E r \in HandRecord :
              /\ r = [NoHand EXCEPT !.stage = "claiming", !.agent = a, !.left = n]
              /\ r.stage = "claiming" /\ r.agent = a /\ r.left = n
<1>1. PICK h \in HandRecord : h = NoHand
  BY NoHandTyped
<1>2. [h EXCEPT !.stage = "claiming", !.agent = a, !.left = n] \in HandRecord
  BY DEF HandRecord, Stage
<1>3. PICK r \in HandRecord : r = [h EXCEPT !.stage = "claiming", !.agent = a, !.left = n]
  BY <1>2
<1>4. r.stage = "claiming" /\ r.agent = a /\ r.left = n
  BY <1>3 DEF HandRecord, Stage
<1> QED BY <1>1, <1>3, <1>4

\* The steps of a run, by what each does with the stage and the text.
Marks == /\ hand.stage = "running" /\ hand'.stage = "saving" /\ hand'.text = PlanNamed
         /\ Role[hand.agent] = "Curator"
Saves == hand.stage = "saving" /\ hand'.stage = "saved" /\ hand.text \in curated'
Derives == hand.stage = "running" /\ hand'.stage = "saved" /\ Role[hand.agent] # "Curator"
Ends == hand.stage \in {"saved", "emitting", "enqueuing"} /\ hand'.stage \in {"emitting", "enqueuing", "finishing"}
Fails == /\ hand.stage \in {"running", "saving", "saved"} /\ hand'.stage = "rejecting"
         /\ Role[hand.agent] = "Curator" => PlanNamed \in lost' \cup {NoText}

LEMMA RunFacts ==
    ASSUME FilesTyped, QueuesTyped, LoopTyped, Addressed, InHand, RunStep
    PROVE  /\ hand' \in HandRecord
           /\ hand'.agent = hand.agent /\ hand'.left = hand.left /\ hand'.event = hand.event
           /\ Marks \/ Saves \/ Derives \/ Ends \/ Fails
           /\ manager # "off" /\ manager # "bringing-up"
           /\ UNCHANGED <<clock, files, desk, queues, running, manager, pass>>
<1>1. PICK h \in HandRecord : h = hand
  BY DEF LoopTyped
<1>2. manager # "off" /\ manager # "bringing-up"
  BY DEF RunStep, SaveMarkdown, SaveMetadata, UpsertTestCases, RefineBacklog, RunSucceeds,
         EmitFollowUp, EmitDone, RunFails, FindNoPlan, Running, MayFail, Consuming
<1>3. UNCHANGED <<clock, files, desk, queues, running, manager, pass>>
  BY DEF RunStep, SaveMarkdown, SaveMetadata, UpsertTestCases, RefineBacklog, RunSucceeds,
         EmitFollowUp, EmitDone, RunFails, FindNoPlan
<1>4. {"saving", "saved", "emitting", "enqueuing", "finishing", "rejecting"} \subseteq Stage
  BY DEF Stage
<1>5. ASSUME NEW st \in Stage, hand' = [hand EXCEPT !.stage = st]
      PROVE  /\ hand' \in HandRecord /\ hand'.stage = st
             /\ hand'.agent = hand.agent /\ hand'.left = hand.left /\ hand'.event = hand.event
  BY <1>1, <1>5, Staged
<1>6. CASE SaveMarkdown
  <2>1. hand.stage = "running" /\ Role[hand.agent] = "Curator"
    BY <1>6 DEF SaveMarkdown, Running
  <2>2. hand.event.path \in Seconds
    <3>1. Claimed
      BY <2>1 DEF Claimed
    <3> QED BY <2>1, <3>1, ClaimedEvent DEF Proper
  <2>3. PICK t \in Texts : t = PlanNamed
    BY <2>2 DEF PlanNamed, FilesTyped
  <2>4. hand' = [h EXCEPT !.stage = "saving", !.text = t]
    BY <1>1, <1>6, <2>3 DEF SaveMarkdown
  <2>5. [h EXCEPT !.stage = "saving", !.text = t] \in HandRecord
    BY DEF HandRecord, Stage
  <2>6. PICK r \in HandRecord : r = [h EXCEPT !.stage = "saving", !.text = t]
    BY <2>5
  <2>7. r.stage = "saving" /\ r.text = t /\ r.agent = h.agent /\ r.left = h.left /\ r.event = h.event
    BY <2>6 DEF HandRecord
  <2>8. Marks
    BY <2>1, <2>3, <2>4, <2>6, <2>7 DEF Marks
  <2> QED BY <1>1, <1>2, <1>3, <2>4, <2>6, <2>7, <2>8
<1>7. CASE SaveMetadata
  <2>1. hand.stage = "saving" /\ hand' = [hand EXCEPT !.stage = "saved"] /\ hand.text \in curated'
    BY <1>7 DEF SaveMetadata
  <2>2. Saves
    BY <1>4, <1>5, <2>1 DEF Saves
  <2> QED BY <1>2, <1>3, <1>4, <1>5, <2>1, <2>2
<1>8. CASE UpsertTestCases \/ RefineBacklog
  <2>1. /\ hand.stage = "running" /\ hand' = [hand EXCEPT !.stage = "saved"]
        /\ Role[hand.agent] # "Curator"
    BY <1>8 DEF UpsertTestCases, RefineBacklog, Running
  <2>2. Derives
    BY <1>4, <1>5, <2>1 DEF Derives
  <2> QED BY <1>2, <1>3, <1>4, <1>5, <2>1, <2>2
<1>9. ASSUME NEW st \in {"emitting", "enqueuing", "finishing"}, hand' = [hand EXCEPT !.stage = st],
             hand.stage \in {"saved", "emitting", "enqueuing"}
      PROVE  /\ hand' \in HandRecord
             /\ hand'.agent = hand.agent /\ hand'.left = hand.left /\ hand'.event = hand.event
             /\ Ends
  BY <1>4, <1>5, <1>9 DEF Ends
<1>10. CASE RunSucceeds
  <2>1. hand.stage = "saved" /\ hand' = [hand EXCEPT !.stage = "emitting"]
    BY <1>10 DEF RunSucceeds
  <2> QED BY <1>2, <1>3, <1>9, <2>1
<1>11. CASE EmitFollowUp
  <2>1. hand.stage = "emitting" /\ hand' = [hand EXCEPT !.stage = "enqueuing"]
    BY <1>11 DEF EmitFollowUp
  <2> QED BY <1>2, <1>3, <1>9, <2>1
<1>12. CASE EmitDone
  <2>1. hand.stage = "enqueuing" /\ hand' = [hand EXCEPT !.stage = "finishing"]
    BY <1>12 DEF EmitDone
  <2> QED BY <1>2, <1>3, <1>9, <2>1
<1>13. CASE RunFails \/ FindNoPlan
  <2>1. /\ hand.stage \in {"running", "saving", "saved"} /\ hand' = [hand EXCEPT !.stage = "rejecting"]
        /\ Role[hand.agent] = "Curator" => PlanNamed \in lost' \cup {NoText}
    BY <1>13 DEF RunFails, MayFail, FindNoPlan, Running
  <2>2. Fails
    BY <1>4, <1>5, <2>1 DEF Fails
  <2> QED BY <1>2, <1>3, <1>4, <1>5, <2>1, <2>2
<1> QED BY <1>6, <1>7, <1>8, <1>10, <1>11, <1>12, <1>13 DEF RunStep

\* The record of what is in hand when a visit begins or goes on with its listing.
LEMMA VisitFacts ==
    ASSUME QueuesTyped, LoopTyped, Visit
    PROVE  /\ hand.stage = "idle" /\ manager # "off" /\ manager # "bringing-up"
           /\ pass' \subseteq Agents /\ hand' \in HandRecord
           /\ \/ hand' = NoHand
              \/ /\ hand'.stage = "claiming" /\ hand'.agent \in Agents
                 /\ hand'.left > 0 /\ hand'.left <= Len(pending[hand'.agent])
           /\ UNCHANGED <<clock, files, desk, intent, queues, running, manager, results, lost, stale>>
<1>1. hand.stage = "idle" /\ manager # "off" /\ manager # "bringing-up" /\ pass' \subseteq Agents
  BY DEF Visit, Consuming, LoopTyped
<1>2. PICK a \in Agents : hand' = IF pending[a] = <<>> THEN NoHand
                                  ELSE [NoHand EXCEPT !.stage = "claiming", !.agent = a, !.left = Len(pending[a])]
  BY DEF Visit, Foremost, LoopTyped
<1>3. UNCHANGED <<clock, files, desk, intent, queues, running, manager, results, lost, stale>>
  BY DEF Visit
<1>4. CASE pending[a] = <<>>
  BY <1>1, <1>2, <1>3, <1>4, NoHandTyped
<1>5. CASE pending[a] # <<>>
  <2>1. pending[a] \in Seq(Event)
    BY DEF QueuesTyped
  <2>2. PICK n \in Nat : n = Len(pending[a]) /\ n > 0
    BY <1>5, <2>1
  <2>3. PICK r \in HandRecord :
              /\ r = [NoHand EXCEPT !.stage = "claiming", !.agent = a, !.left = n]
              /\ r.stage = "claiming" /\ r.agent = a /\ r.left = n
    BY Listed
  <2>4. hand' = r
    BY <1>2, <1>5, <2>2, <2>3
  <2>5. n <= n
    OBVIOUS
  <2> QED BY <1>1, <1>3, <2>2, <2>3, <2>4, <2>5
<1> QED BY <1>4, <1>5

LEMMA MovedHand ==
    ASSUME QueuesTyped, LoopTyped, InHand, MoveFile
    PROVE  /\ hand' \in HandRecord
           /\ \/ hand' = NoHand
              \/ /\ hand'.stage = "claiming" /\ hand'.agent = hand.agent /\ hand.agent \in Agents
                 /\ hand'.left > 0 /\ hand'.left <= Len(pending[hand'.agent])
<1>1. hand.agent \in Agents /\ hand.stage \in {"finishing", "rejecting"}
  BY MoveFacts
<1>2. /\ hand.left \in Nat /\ hand.left > 0 /\ hand.left - 1 <= Len(pending[hand.agent])
  BY <1>1 DEF LoopTyped, HandRecord, InHand, Claimed
<1>3. CASE hand.left = 1
  BY <1>3, NoHandTyped DEF MoveFile
<1>4. CASE hand.left # 1
  <2>1. PICK n \in Nat : n = hand.left - 1 /\ n > 0
    BY <1>2, <1>4
  <2>2. PICK r \in HandRecord :
              /\ r = [NoHand EXCEPT !.stage = "claiming", !.agent = hand.agent, !.left = n]
              /\ r.stage = "claiming" /\ r.agent = hand.agent /\ r.left = n
    BY <1>1, Listed
  <2>3. hand' = r
    BY <1>4, <2>1, <2>2 DEF MoveFile
  <2> QED BY <1>1, <1>2, <2>1, <2>2, <2>3
<1> QED BY <1>3, <1>4

LEMMA ClaimedHand ==
    ASSUME QueuesTyped, LoopTyped, InHand, Addressed, ClaimFile
    PROVE  /\ hand' \in HandRecord /\ hand'.stage = "running" /\ hand'.agent = hand.agent
           /\ hand'.left = hand.left /\ hand'.event \in Event
           /\ processing' = [processing EXCEPT ![hand.agent] = <<hand'.event>>]
           /\ Events(pending[hand.agent]) = Events(pending'[hand.agent]) \cup {hand'.event}
<1>1. PICK h \in HandRecord : h = hand
  BY DEF LoopTyped
<1>2. PICK e \in Event : /\ hand' = [hand EXCEPT !.stage = "running", !.event = e]
                         /\ processing' = [processing EXCEPT ![hand.agent] = <<e>>]
                         /\ Events(pending[hand.agent]) = Events(pending'[hand.agent]) \cup {e}
  BY ClaimFacts
<1>3. [h EXCEPT !.stage = "running", !.event = e] \in HandRecord
  BY DEF HandRecord, Stage
<1>4. PICK r \in HandRecord : r = [h EXCEPT !.stage = "running", !.event = e]
  BY <1>3
<1>5. r.stage = "running" /\ r.event = e /\ r.agent = h.agent /\ r.left = h.left
  BY <1>4 DEF HandRecord
<1>6. hand' = r
  BY <1>1, <1>2, <1>4
<1> QED BY <1>1, <1>2, <1>5, <1>6

LEMMA LoopTypeStep ==
    ASSUME TypeOK, Addressed, InHand, [Next]_vars
    PROVE  LoopTyped'
<1>1. FilesTyped /\ QueuesTyped /\ LoopTyped
  BY Parts
<1>2. ASSUME UNCHANGED <<running, pass, manager, hand>>
      PROVE  LoopTyped'
  BY <1>1, <1>2 DEF LoopTyped
<1>3. ASSUME ManagerStep
      PROVE  LoopTyped'
  BY <1>1, <1>3 DEF ManagerStep, Start, BringUp, Signal, DownSaved, LoopTyped
<1>4. ASSUME EndStep
      PROVE  LoopTyped'
  <2>1. manager' = "off" /\ pass' = {} /\ hand' = NoHand /\ UNCHANGED running
    BY <1>4 DEF EndStep, Crash, Exit, ProcessEnds
  <2> QED BY <1>1, <2>1, NoHandTyped DEF LoopTyped
<1>5. ASSUME RunStep
      PROVE  LoopTyped'
  <2>1. hand.agent \in Agents
    BY <1>1, <1>5, RunFacts DEF Marks, Saves, Derives, Ends, Fails, LoopTyped
  <2>2. /\ hand' \in HandRecord /\ hand'.agent = hand.agent
        /\ manager \notin {"off", "bringing-up"} /\ UNCHANGED <<running, manager, pass>>
    BY <1>1, <1>5, RunFacts
  <2> QED BY <1>1, <2>1, <2>2 DEF LoopTyped
<1>6. ASSUME BeginPass
      PROVE  LoopTyped'
  BY <1>1, <1>6 DEF BeginPass, LoopTyped
<1>7. ASSUME Visit
      PROVE  LoopTyped'
  <2>1. /\ pass' \subseteq Agents /\ hand' \in HandRecord /\ (hand' = NoHand \/ hand'.agent \in Agents)
        /\ manager \notin {"off", "bringing-up"} /\ UNCHANGED <<running, manager>>
    BY <1>1, <1>7, VisitFacts
  <2> QED BY <1>1, <2>1, NoHandTyped DEF LoopTyped
<1>8. ASSUME ClaimFile
      PROVE  LoopTyped'
  <2>1. hand' \in HandRecord /\ hand'.agent = hand.agent
    BY <1>1, <1>8, ClaimedHand
  <2>2. hand.agent \in Agents /\ UNCHANGED <<running, manager, pass>>
    BY <1>1, <1>8, ClaimFacts
  <2>3. manager \notin {"off", "bringing-up"}
    BY <1>8 DEF ClaimFile, Consuming
  <2> QED BY <1>1, <2>1, <2>2, <2>3 DEF LoopTyped
<1>9. ASSUME MoveFile
      PROVE  LoopTyped'
  <2>1. hand' \in HandRecord /\ (hand' = NoHand \/ hand'.agent \in Agents)
    BY <1>1, <1>9, MovedHand
  <2>2. UNCHANGED <<running, manager, pass>>
    BY <1>1, <1>9, MoveFacts
  <2>3. manager \notin {"off", "bringing-up"}
    BY <1>9 DEF MoveFile, Consuming
  <2> QED BY <1>1, <2>1, <2>2, <2>3, NoHandTyped DEF LoopTyped
<1>10. CASE Next
  <2>1. ASSUME NEW c \in Chats, ChatStep(c)
        PROVE  UNCHANGED <<running, pass, manager, hand>>
    BY <2>1 DEF ChatStep, EditDraft, ReadDraft, OpenPlan, WritePlan, PublishPlan, EndCommit
  <2>2. ASSUME NEW p \in Process, WriteQueueFile(p)
        PROVE  UNCHANGED <<running, pass, manager, hand>>
    BY <2>2 DEF WriteQueueFile
  <2>3. ASSUME HandStep
        PROVE  UNCHANGED <<running, pass, manager, hand>>
    BY <2>3 DEF HandStep, SaveByHand, Trigger
  <2> QED BY <1>2, <1>3, <1>4, <1>5, <1>6, <1>7, <1>8, <1>9, <1>10, <2>1, <2>2, <2>3, StepKinds
          DEF LoopStep
<1> QED BY <1>2, <1>10 DEF vars

\* What the agents write, and the histories.
LEMMA ResultsTypeStep ==
    ASSUME TypeOK, Addressed, InHand, Publishing, [Next]_vars
    PROVE  ResultsTyped'
<1>1. FilesTyped /\ QueuesTyped /\ LoopTyped /\ ResultsTyped
  BY Parts
<1>2. ASSUME UNCHANGED <<results, lost>>, stale' \subseteq {"brief", "tests"}
      PROVE  ResultsTyped'
  BY <1>1, <1>2 DEF ResultsTyped, results
<1>3. ASSUME UNCHANGED <<results, stale>>, lost' \subseteq Texts
      PROVE  ResultsTyped'
  BY <1>1, <1>3 DEF ResultsTyped, results
<1>4. ASSUME UNCHANGED <<results, lost, stale>>
      PROVE  ResultsTyped'
  BY <1>1, <1>4 DEF ResultsTyped, results
<1>5. About(BriefUpdate) \subseteq {"brief", "tests"} /\ About(TestsUpdate) \subseteq {"brief", "tests"}
      /\ \A t \in EventType : About(t) \subseteq {"brief", "tests"}
  BY DEF About
<1>6. ASSUME NEW c \in Chats, ChatStep(c)
      PROVE  ResultsTyped'
  <2>1. CASE EditDraft(c) \/ ReadDraft(c) \/ EndCommit(c)
    BY <1>4, <2>1 DEF EditDraft, ReadDraft, EndCommit
  <2>2. CASE OpenPlan(c) \/ WritePlan(c)
    <3>1. desk[c].path \in Seconds
      BY <2>2 DEF OpenPlan, WritePlan, Publishing
    <3>2. plan[desk[c].path] \in Texts
      BY <1>1, <3>1 DEF FilesTyped
    <3>3. lost' \subseteq Texts /\ UNCHANGED <<results, stale>>
      BY <1>1, <2>2, <3>2 DEF OpenPlan, WritePlan, ResultsTyped
    <3> QED BY <1>3, <3>3
  <2>3. CASE PublishPlan(c)
    <3>1. desk[c].text \in Texts
      BY <1>1 DEF FilesTyped, DeskRecord
    <3>2. lost' \subseteq Texts /\ UNCHANGED <<results, stale>>
      BY <1>1, <2>3, <3>1 DEF PublishPlan, ResultsTyped
    <3> QED BY <1>3, <3>2
  <2> QED BY <1>6, <2>1, <2>2, <2>3 DEF ChatStep
<1>7. ASSUME NEW p \in Process, WriteQueueFile(p)
      PROVE  ResultsTyped'
  <2>1. stale' \subseteq stale /\ UNCHANGED <<results, lost>>
    BY <1>7 DEF WriteQueueFile
  <2> QED BY <1>1, <1>2, <2>1 DEF ResultsTyped
<1>8. ASSUME ManagerStep \/ LoopStep \/ Trigger
      PROVE  ResultsTyped'
  BY <1>4, <1>8 DEF ManagerStep, LoopStep, Start, BringUp, Signal, DownSaved, BeginPass, Visit,
                    ClaimFile, MoveFile, Trigger
<1>9. ASSUME EndStep
      PROVE  ResultsTyped'
  <2>1. \A c \in Chats : desk[c].text \in Texts
    BY <1>1 DEF FilesTyped, DeskRecord
  <2>2. lost' \subseteq Texts /\ UNCHANGED <<results, stale>>
    BY <1>1, <1>9, <2>1 DEF EndStep, Crash, Exit, ProcessEnds, ResultsTyped
  <2> QED BY <1>3, <2>2
<1>10. ASSUME SaveByHand
       PROVE  ResultsTyped'
  <2>1. PICK t \in Texts : t = written + 1 /\ written < MaxTexts
    BY <1>1, <1>10, PlanningBounds DEF SaveByHand, FilesTyped, Texts
  <2>2. clock \in 0 .. MaxSeconds
    BY <1>1, PlanningBounds DEF FilesTyped, Seconds
  <2>3. [text |-> t, source |-> clock] \in [text : Texts, source : 0 .. MaxSeconds]
    BY <2>1, <2>2
  <2>4. brief' = [text |-> t, source |-> clock] /\ UNCHANGED <<tests, backlog, curated, lost>>
    BY <1>10, <2>1 DEF SaveByHand
  <2>5. stale' \subseteq {"brief", "tests"}
    BY <1>1, <1>5, <1>10 DEF SaveByHand, ResultsTyped, Untold
  <2> QED BY <1>1, <2>3, <2>4, <2>5 DEF ResultsTyped
<1>11. ASSUME RunStep
       PROVE  ResultsTyped'
  <2>1. PICK b \in [text : Texts, source : 0 .. MaxSeconds] : b = brief
    BY <1>1 DEF ResultsTyped
  <2>2. hand.event.path \in 0 .. MaxSeconds /\ hand.text \in Texts
    BY <1>1 DEF LoopTyped, HandRecord, Event
  <2>3. ASSUME Claimed, Role[hand.agent] = "Curator"
        PROVE  PlanNamed \in Texts
    BY <1>1, <2>3, ClaimedEvent DEF Proper, PlanNamed, FilesTyped
  <2>4. CASE SaveMarkdown
    <3>1. PICK t \in Texts : t = PlanNamed
      BY <2>3, <2>4 DEF SaveMarkdown, Running, Claimed
    <3>2. [b EXCEPT !.text = t] \in [text : Texts, source : 0 .. MaxSeconds]
      OBVIOUS
    <3>3. brief' = [b EXCEPT !.text = t] /\ UNCHANGED <<tests, backlog, curated, lost, stale>>
      BY <2>1, <2>4, <3>1 DEF SaveMarkdown
    <3> QED BY <1>1, <3>2, <3>3 DEF ResultsTyped
  <2>5. CASE SaveMetadata
    <3>1. PICK s \in 0 .. MaxSeconds : s = hand.event.path
      BY <2>2
    <3>2. [b EXCEPT !.source = s] \in [text : Texts, source : 0 .. MaxSeconds]
      OBVIOUS
    <3>3. brief' = [b EXCEPT !.source = s] /\ UNCHANGED <<tests, backlog, lost, stale>>
      BY <2>1, <2>5, <3>1 DEF SaveMetadata
    <3>4. curated' \subseteq Texts
      BY <1>1, <2>2, <2>5 DEF SaveMetadata, ResultsTyped
    <3> QED BY <1>1, <3>2, <3>3, <3>4 DEF ResultsTyped
  <2>6. CASE UpsertTestCases
    <3>1. brief.text \in Texts
      BY <1>1 DEF ResultsTyped
    <3> QED BY <1>1, <2>6, <3>1 DEF UpsertTestCases, ResultsTyped
  <2>7. CASE RefineBacklog
    BY <1>1, <2>7 DEF RefineBacklog, ResultsTyped
  <2>8. CASE RunSucceeds \/ EmitDone
    BY <1>4, <2>8 DEF RunSucceeds, EmitDone
  <2>9. CASE EmitFollowUp
    <3>1. Untold(FollowUpEvent.type) \subseteq {"brief", "tests"}
      BY DEF Untold, About
    <3>2. stale' \subseteq {"brief", "tests"} /\ UNCHANGED <<results, lost>>
      BY <1>1, <2>9, <3>1 DEF EmitFollowUp, ResultsTyped
    <3> QED BY <1>2, <3>2
  <2>10. CASE RunFails
    <3>1. lost' \subseteq Texts
      BY <1>1, <2>3, <2>10 DEF RunFails, MayFail, Claimed, ResultsTyped
    <3>2. stale' = stale \cup UntoldByRun' /\ UNCHANGED results
      BY <2>10 DEF RunFails
    <3>3. UntoldByRun' \subseteq {"brief", "tests"}
      BY DEF UntoldByRun, Untold, About
    <3> QED BY <1>1, <3>1, <3>2, <3>3 DEF ResultsTyped, results
  <2>11. CASE FindNoPlan
    <3>1. stale' = stale \cup UntoldByRun' /\ UNCHANGED <<results, lost>>
      BY <2>11 DEF FindNoPlan
    <3>2. UntoldByRun' \subseteq {"brief", "tests"}
      BY DEF UntoldByRun, Untold, About
    <3> QED BY <1>1, <1>2, <3>1, <3>2 DEF ResultsTyped
  <2> QED BY <1>11, <2>4, <2>5, <2>6, <2>7, <2>8, <2>9, <2>10, <2>11 DEF RunStep
<1>12. CASE Next
  BY <1>6, <1>7, <1>8, <1>9, <1>10, <1>11, <1>12, StepKinds DEF HandStep
<1> QED BY <1>4, <1>12 DEF vars

LEMMA TypeStep ==
    ASSUME TypeOK, Addressed, InHand, Publishing, [Next]_vars
    PROVE  TypeOK'
<1>1. FilesTyped' /\ QueuesTyped' /\ LoopTyped' /\ ResultsTyped'
  BY FilesTypeStep, QueuesStep, LoopTypeStep, ResultsTypeStep, Parts
<1>2. BudgetTyped'
  <2>1. BudgetTyped
    BY Parts
  <2>2. CASE Next
    BY <2>1, <2>2, BudgetStep
  <2>3. CASE UNCHANGED vars
    BY <2>1, <2>3 DEF vars, BudgetTyped
  <2> QED BY <2>2, <2>3
<1> QED BY <1>1, <1>2, PartsNext

LEMMA InHandStep ==
    ASSUME TypeOK, Addressed, InHand, [Next]_vars
    PROVE  InHand'
<1>1. FilesTyped /\ QueuesTyped /\ LoopTyped
  BY Parts
<1>2. ASSUME UNCHANGED <<hand, queues, manager>>
      PROVE  InHand'
  BY <1>2 DEF InHand, Claimed, queues
<1>3. ASSUME NEW p \in Process, WriteQueueFile(p)
      PROVE  InHand'
  <2>1. PICK i \in intent[p] :
              /\ i.agent \in Agents
              /\ Len(pending'[i.agent]) = Len(pending[i.agent]) + 1
              /\ \A a \in Agents \ {i.agent} : pending'[a] = pending[a]
              /\ UNCHANGED <<processing, hand, manager>>
    BY <1>1, <1>3, Written
  <2>2. \A a \in Agents : Len(pending[a]) \in Nat
    BY <1>1 DEF QueuesTyped
  <2>3. \A a \in Agents : Len(pending[a]) <= Len(pending'[a]) /\ Len(pending'[a]) \in Nat
    BY <2>1, <2>2
  <2>4. hand.left \in Nat /\ (hand.stage # "idle" => hand.agent \in Agents)
    BY <1>1 DEF LoopTyped, HandRecord
  <2>5. /\ Claimed => hand.left - 1 <= Len(pending'[hand.agent])
        /\ hand.stage = "claiming" => hand.left <= Len(pending'[hand.agent])
    BY <2>2, <2>3, <2>4 DEF InHand, Claimed
  <2> QED BY <2>1, <2>5 DEF InHand, Claimed
<1>4. ASSUME Start
      PROVE  InHand'
  <2>1. hand = NoHand /\ UNCHANGED hand
    BY <1>1, <1>4 DEF Start, LoopTyped
  <2>2. processing' = [a \in Agents |-> <<>>]
    BY <1>1, <1>4, StartFacts
  <2> QED BY <2>1, <2>2, NoHandTyped DEF InHand, Claimed
<1>5. ASSUME BringUp \/ Signal \/ DownSaved
      PROVE  InHand'
  <2>1. manager # "off" /\ UNCHANGED <<hand, queues>>
    BY <1>5 DEF BringUp, Signal, DownSaved
  <2> QED BY <2>1 DEF InHand, Claimed, queues
<1>6. ASSUME EndStep
      PROVE  InHand'
  <2>1. hand' = NoHand /\ manager' = "off"
    BY <1>6 DEF EndStep, Crash, Exit, ProcessEnds
  <2> QED BY <2>1, NoHandTyped DEF InHand, Claimed
<1>7. ASSUME RunStep
      PROVE  InHand'
  <2>1. /\ hand'.agent = hand.agent /\ hand'.left = hand.left /\ hand'.event = hand.event
        /\ Marks \/ Saves \/ Derives \/ Ends \/ Fails
        /\ UNCHANGED <<queues, manager>>
    BY <1>1, <1>7, RunFacts
  <2>2. Claimed /\ Claimed' /\ hand'.stage \notin {"idle", "claiming"}
    BY <2>1 DEF Marks, Saves, Derives, Ends, Fails, Claimed
  <2>3. hand'.stage = "saving" => Role[hand.agent] = "Curator"
    BY <2>1 DEF Marks, Saves, Derives, Ends, Fails
  <2> QED BY <2>1, <2>2, <2>3 DEF InHand, Claimed, queues
<1>8. ASSUME Visit
      PROVE  InHand'
  <2>1. /\ hand.stage = "idle" /\ manager # "off"
        /\ \/ hand' = NoHand
           \/ /\ hand'.stage = "claiming" /\ hand'.left > 0 /\ hand'.left <= Len(pending[hand'.agent])
        /\ UNCHANGED <<queues, manager>>
    BY <1>1, <1>8, VisitFacts
  <2>2. \A a \in Agents : processing[a] = <<>>
    BY <2>1 DEF InHand, Claimed
  <2> QED BY <2>1, <2>2, NoHandTyped DEF InHand, Claimed, queues
<1>9. ASSUME ClaimFile
      PROVE  InHand'
  <2>1. /\ hand'.stage = "running" /\ hand'.agent = hand.agent /\ hand'.left = hand.left
        /\ processing' = [processing EXCEPT ![hand.agent] = <<hand'.event>>]
    BY <1>1, <1>9, ClaimedHand
  <2>2. /\ hand.agent \in Agents /\ Len(pending'[hand.agent]) = Len(pending[hand.agent]) - 1
        /\ \A a \in Agents : processing[a] = <<>>
    BY <1>1, <1>9, ClaimFacts
  <2>3. hand.stage = "claiming" /\ hand.left <= Len(pending[hand.agent]) /\ hand.left > 0
    BY <1>9 DEF ClaimFile, InHand
  <2>4. hand.left \in Nat /\ Len(pending[hand.agent]) \in Nat
    BY <1>1, <2>2 DEF LoopTyped, HandRecord, QueuesTyped
  <2>5. hand.left - 1 <= Len(pending'[hand.agent])
    BY <2>2, <2>3, <2>4
  <2>6. processing'[hand.agent] = <<hand'.event>> /\ \A a \in Agents \ {hand.agent} : processing'[a] = <<>>
    BY <1>1, <2>1, <2>2 DEF QueuesTyped
  <2> QED BY <2>1, <2>3, <2>5, <2>6 DEF InHand, Claimed
<1>10. ASSUME MoveFile
       PROVE  InHand'
  <2>1. \/ hand' = NoHand
        \/ /\ hand'.stage = "claiming" /\ hand'.left > 0 /\ hand'.left <= Len(pending[hand'.agent])
    BY <1>1, <1>10, MovedHand
  <2>2. processing' = [a \in Agents |-> <<>>] /\ UNCHANGED pending
    BY <1>1, <1>10, MoveFacts
  <2> QED BY <2>1, <2>2, NoHandTyped DEF InHand, Claimed
<1>11. CASE Next
  <2>1. ASSUME NEW c \in Chats, ChatStep(c)
        PROVE  UNCHANGED <<hand, queues, manager>>
    BY <2>1 DEF ChatStep, EditDraft, ReadDraft, OpenPlan, WritePlan, PublishPlan, EndCommit
  <2>2. ASSUME HandStep \/ BeginPass
        PROVE  UNCHANGED <<hand, queues, manager>>
    BY <2>2 DEF HandStep, SaveByHand, Trigger, BeginPass
  <2> QED BY <1>2, <1>3, <1>4, <1>5, <1>6, <1>7, <1>8, <1>9, <1>10, <1>11, <2>1, <2>2, StepKinds
          DEF LoopStep, ManagerStep
<1> QED BY <1>2, <1>11 DEF vars

LEMMA PublishingStep ==
    ASSUME TypeOK, Publishing, [Next]_vars
    PROVE  Publishing'
<1>1. FilesTyped /\ QueuesTyped /\ LoopTyped
  BY Parts
<1>2. ASSUME UNCHANGED desk, \A c \in Chats : intent'[c] = intent[c]
      PROVE  Publishing'
  BY <1>2 DEF Publishing, PlanEvent
<1>3. Chats \subseteq Process /\ "manager" \notin Chats /\ "operator" \notin Chats
  BY ChatsAssumption DEF Process
<1>4. ASSUME NEW p \in {"manager", "operator"}, NEW e, DecideEnqueue(p, e), UNCHANGED desk
      PROVE  Publishing'
  <2>1. \A c \in Chats : intent'[c] = intent[c]
    BY <1>1, <1>3, <1>4 DEF DecideEnqueue, QueuesTyped, Process
  <2> QED BY <1>2, <1>4, <2>1
<1>5. ASSUME NEW c \in Chats, ReadDraft(c)
      PROVE  Publishing'
  <2>1. PICK t \in Seconds : t = clock'
    BY <1>1, <1>5, PlanningBounds DEF ReadDraft, FilesTyped, Seconds
  <2>2. desk' = [desk EXCEPT ![c] = [phase |-> "read", text |-> draft[c], path |-> t]] /\ UNCHANGED intent
    BY <1>5, <2>1 DEF ReadDraft
  <2>3. intent[c] = {}
    BY <1>5 DEF ReadDraft, Publishing
  <2> QED BY <1>1, <2>2, <2>3 DEF Publishing, PlanEvent, FilesTyped
<1>6. ASSUME NEW c \in Chats, OpenPlan(c) \/ WritePlan(c)
      PROVE  Publishing'
  <2>1. PICK d \in DeskRecord : d = desk[c] /\ d.phase \in {"read", "opened"}
    BY <1>1, <1>6 DEF FilesTyped, OpenPlan, WritePlan
  <2>2. PICK new \in {"opened", "written"} : desk' = [desk EXCEPT ![c].phase = new]
    BY <1>6 DEF OpenPlan, WritePlan
  <2>6. PICK x \in DeskRecord : x = [d EXCEPT !.phase = new]
    BY DEF DeskRecord
  <2>3. x.phase = new /\ x.path = d.path
    BY <2>6 DEF DeskRecord
  <2>4. desk' = [desk EXCEPT ![c] = x] /\ UNCHANGED intent
    BY <1>6, <2>1, <2>2, <2>6 DEF OpenPlan, WritePlan
  <2>5. intent[c] = {} /\ d.path \in Seconds
    BY <2>1 DEF Publishing
  <2> QED BY <1>1, <2>3, <2>4, <2>5 DEF Publishing, PlanEvent, FilesTyped
<1>7. ASSUME NEW c \in Chats, PublishPlan(c)
      PROVE  Publishing'
  <2>1. PICK d \in DeskRecord : d = desk[c] /\ d.phase = "written"
    BY <1>1, <1>7 DEF FilesTyped, PublishPlan
  <2>2. PICK x \in DeskRecord : x = [d EXCEPT !.phase = "publishing"]
    BY DEF DeskRecord
  <2>3. x.phase = "publishing" /\ x.path = d.path
    BY <2>2 DEF DeskRecord
  <2>4. desk' = [desk EXCEPT ![c] = x]
    BY <1>7, <2>1, <2>2 DEF PublishPlan
  <2>5. d.path \in Seconds
    BY <2>1 DEF Publishing
  <2>6. PlanEvent(c) \in Event
    BY <2>1, <2>5, PlanningBounds DEF PlanEvent, Event, EventType, Seconds
  <2>7. DecideEnqueue(c, PlanEvent(c)) /\ c \in Process /\ PlanEvent(c).path \in Seconds
    BY <1>3, <1>7, <2>1, <2>5 DEF PublishPlan, PlanEvent
  <2>8. /\ \A i \in intent'[c] : i.event = PlanEvent(c)
        /\ \A q \in Process \ {c} : intent'[q] = intent[q]
    BY <1>1, <2>6, <2>7, Decided
  <2>9. desk'[c] = x /\ \A b \in Chats \ {c} : desk'[b] = desk[b]
    BY <1>1, <2>4 DEF FilesTyped
  <2>10. ASSUME NEW b \in Chats, b # c
         PROVE  /\ desk'[b].phase # "idle" => desk'[b].path \in Seconds
                /\ intent'[b] # {} => desk'[b].phase = "publishing"
                /\ \A i \in intent'[b] : i.event = [type |-> PlanCreate, path |-> desk'[b].path]
    BY <1>3, <2>8, <2>9, <2>10 DEF Publishing, PlanEvent
  <2>11. /\ desk'[c].phase # "idle" => desk'[c].path \in Seconds
         /\ intent'[c] # {} => desk'[c].phase = "publishing"
         /\ \A i \in intent'[c] : i.event = [type |-> PlanCreate, path |-> desk'[c].path]
    BY <2>1, <2>3, <2>5, <2>8, <2>9 DEF PlanEvent
  <2> QED BY <2>10, <2>11 DEF Publishing, PlanEvent
<1>8. ASSUME NEW c \in Chats, EndCommit(c)
      PROVE  Publishing'
  BY <1>1, <1>8 DEF EndCommit, Publishing, PlanEvent, NoCommit, FilesTyped
<1>9. ASSUME NEW c \in Chats, EditDraft(c)
      PROVE  Publishing'
  BY <1>2, <1>9 DEF EditDraft
<1>10. ASSUME NEW p \in Process, WriteQueueFile(p)
       PROVE  Publishing'
  <2>1. UNCHANGED desk /\ \A q \in Process : intent'[q] \subseteq intent[q]
    <3>1. PICK i \in intent[p] : intent' = [intent EXCEPT ![p] = @ \ {i}]
      BY <1>10 DEF WriteQueueFile
    <3> QED BY <1>1, <1>10, <3>1 DEF WriteQueueFile, QueuesTyped
  <2> QED BY <1>3, <2>1 DEF Publishing, PlanEvent
<1>11. ASSUME EndStep
       PROVE  Publishing'
  <2>1. /\ intent' = [p \in Process |-> IF p = "operator" THEN intent[p] ELSE {}]
        /\ desk' = [c \in Chats |-> NoCommit]
    BY <1>11 DEF EndStep, Crash, Exit, ProcessEnds
  <2>2. \A c \in Chats : intent'[c] = {} /\ desk'[c].phase = "idle"
    BY <1>3, <2>1 DEF NoCommit
  <2> QED BY <2>2 DEF Publishing
<1>12. ASSUME UNCHANGED <<desk, intent>>
       PROVE  Publishing'
  BY <1>2, <1>12
<1>13. CASE Next
  <2>1. ASSUME ManagerStep \/ LoopStep \/ SaveByHand
        PROVE  UNCHANGED <<desk, intent>>
    BY <2>1 DEF ManagerStep, LoopStep, Start, BringUp, Signal, DownSaved, BeginPass, Visit,
                ClaimFile, MoveFile, SaveByHand
  <2>2. ASSUME RunStep
        PROVE  Publishing'
    <3>1. CASE EmitFollowUp
      BY <1>4, <3>1 DEF EmitFollowUp
    <3>2. CASE ~EmitFollowUp
      BY <1>12, <2>2, <3>2 DEF RunStep, SaveMarkdown, SaveMetadata, UpsertTestCases, RefineBacklog,
                               RunSucceeds, EmitDone, RunFails, FindNoPlan
    <3> QED BY <3>1, <3>2
  <2>3. ASSUME Trigger
        PROVE  Publishing'
    BY <1>4, <2>3 DEF Trigger
  <2>4. ASSUME NEW c \in Chats, ChatStep(c)
        PROVE  Publishing'
    BY <1>5, <1>6, <1>7, <1>8, <1>9, <2>4 DEF ChatStep
  <2> QED BY <1>10, <1>11, <1>12, <1>13, <2>1, <2>2, <2>3, <2>4, StepKinds DEF HandStep
<1> QED BY <1>12, <1>13 DEF vars
--------------------------------------------------------------------------------
(* A plan stays on its way to a brief. *)

Way(s) == Settled(s) \/ Queued(s) \/ Unbegun(s) \/ Saving(s) \/ AtDesk(s)

\* What a step leaves alone, as far as the plan of a second is concerned.
LEMMA WayFrame ==
    ASSUME QueuesTyped, NEW s \in Seconds, Way(s), plan'[s] = plan[s],
           curated \subseteq curated', lost \subseteq lost',
           UNCHANGED <<pending, processing, hand, desk>>, \A c \in Chats : intent'[c] = intent[c]
    PROVE  Way(s)'
<1>1. Settled(s) => Settled(s)'
  BY DEF Settled
<1>2. Queued(s) => Queued(s)'
  BY DEF Queued
<1>3. Unbegun(s) => Unbegun(s)'
  BY DEF Unbegun, Begun
<1>4. Saving(s) => Saving(s)'
  BY DEF Saving
<1>5. AtDesk(s) => AtDesk(s)'
  BY DEF AtDesk
<1> QED BY <1>1, <1>2, <1>3, <1>4, <1>5 DEF Way

\* The same for a step of one conversation: what was not at its own desk stays where it is.
LEMMA WayBeside ==
    ASSUME NEW s \in Seconds, NEW c \in Chats, plan'[s] = plan[s],
           UNCHANGED <<pending, processing, hand, curated>>, lost \subseteq lost',
           \A b \in Chats \ {c} : desk'[b] = desk[b] /\ intent'[b] = intent[b],
           \/ Settled(s) \/ Queued(s) \/ Unbegun(s) \/ Saving(s)
           \/ \E b \in Chats \ {c} : /\ desk[b].path = s /\ desk[b].text = plan[s]
                                     /\ \/ desk[b].phase = "written"
                                        \/ desk[b].phase = "publishing" /\ intent[b] # {}
    PROVE  Way(s)'
<1>1. Settled(s) => Settled(s)'
  BY DEF Settled
<1>2. Queued(s) => Queued(s)'
  BY DEF Queued
<1>3. Unbegun(s) => Unbegun(s)'
  BY DEF Unbegun, Begun
<1>4. Saving(s) => Saving(s)'
  BY DEF Saving
<1>5. ASSUME NEW b \in Chats \ {c}, desk[b].path = s, desk[b].text = plan[s],
             \/ desk[b].phase = "written"
             \/ desk[b].phase = "publishing" /\ intent[b] # {}
      PROVE  AtDesk(s)'
  BY <1>5 DEF AtDesk
<1> QED BY <1>1, <1>2, <1>3, <1>4, <1>5 DEF Way

LEMMA ChatWay ==
    ASSUME TypeOK, Publishing, OnItsWay, NEW c \in Chats, ChatStep(c)
    PROVE  OnItsWay'
<1>1. FilesTyped /\ QueuesTyped /\ LoopTyped
  BY Parts
<1>2. SUFFICES ASSUME NEW s \in Seconds, plan'[s] # NoText
               PROVE  Way(s)'
  BY DEF OnItsWay, Way
<1>3. plan[s] # NoText => Way(s)
  BY DEF OnItsWay, Way
<1>4. CASE EditDraft(c)
  BY <1>1, <1>2, <1>3, <1>4, WayFrame DEF EditDraft, queues, results
<1>5. Chats \subseteq Process
  BY DEF Process
<1>6. ASSUME Way(s), ~(/\ desk[c].path = s /\ desk[c].text = plan[s]
                       /\ \/ desk[c].phase = "written"
                          \/ desk[c].phase = "publishing" /\ intent[c] # {})
      PROVE  \/ Settled(s) \/ Queued(s) \/ Unbegun(s) \/ Saving(s)
             \/ \E b \in Chats \ {c} : /\ desk[b].path = s /\ desk[b].text = plan[s]
                                       /\ \/ desk[b].phase = "written"
                                          \/ desk[b].phase = "publishing" /\ intent[b] # {}
  BY <1>6 DEF Way, AtDesk
<1>7. CASE ReadDraft(c)
  <2>1. UNCHANGED <<plan, pending, processing, hand, curated, lost, intent>> /\ desk[c].phase = "idle"
    BY <1>7 DEF ReadDraft, files, queues, results
  <2>2. \A b \in Chats \ {c} : desk'[b] = desk[b]
    BY <1>1, <1>7 DEF ReadDraft, FilesTyped
  <2> QED BY <1>2, <1>3, <1>6, <2>1, <2>2, WayBeside
<1>8. CASE EndCommit(c)
  <2>1. /\ UNCHANGED <<plan, pending, processing, hand, curated, lost, intent>>
        /\ desk[c].phase = "publishing" /\ intent[c] = {}
    BY <1>8 DEF EndCommit, files, queues, results
  <2>2. \A b \in Chats \ {c} : desk'[b] = desk[b]
    BY <1>1, <1>8 DEF EndCommit, FilesTyped
  <2> QED BY <1>2, <1>3, <1>6, <2>1, <2>2, WayBeside
<1>9. CASE WritePlan(c)
  <2>1. PICK d \in DeskRecord : d = desk[c] /\ d.phase = "opened"
    BY <1>1, <1>9 DEF FilesTyped, WritePlan
  <2>2. PICK x \in DeskRecord : x = [d EXCEPT !.phase = "written"]
    BY DEF DeskRecord
  <2>3. x.phase = "written" /\ x.path = d.path /\ x.text = d.text
    BY <2>2 DEF DeskRecord
  <2>4. desk' = [desk EXCEPT ![c] = x] /\ plan' = [plan EXCEPT ![d.path] = d.text]
    BY <1>9, <2>1, <2>2 DEF WritePlan
  <2>5. UNCHANGED <<pending, processing, hand, curated, intent>> /\ lost \subseteq lost'
    BY <1>9 DEF WritePlan, queues, results
  <2>6. CASE s = d.path
    <3>1. plan'[s] = d.text /\ desk'[c] = x
      BY <1>1, <2>4, <2>6 DEF FilesTyped
    <3> QED BY <2>3, <2>6, <3>1 DEF Way, AtDesk
  <2>7. CASE s # d.path
    <3>1. plan'[s] = plan[s] /\ \A b \in Chats \ {c} : desk'[b] = desk[b]
      BY <1>1, <2>4, <2>7 DEF FilesTyped
    <3> QED BY <1>2, <1>3, <1>6, <2>1, <2>5, <3>1, WayBeside
  <2> QED BY <2>6, <2>7
<1>11. CASE OpenPlan(c)
  <2>1. PICK d \in DeskRecord : d = desk[c] /\ d.phase = "read"
    BY <1>1, <1>11 DEF FilesTyped, OpenPlan
  <2>2. plan' = [plan EXCEPT ![d.path] = NoText] /\ \A b \in Chats \ {c} : desk'[b] = desk[b]
    BY <1>1, <1>11, <2>1 DEF OpenPlan, FilesTyped
  <2>3. plan'[s] = plan[s]
    BY <1>1, <1>2, <2>2 DEF FilesTyped
  <2>4. UNCHANGED <<pending, processing, hand, curated, intent>> /\ lost \subseteq lost'
    BY <1>11 DEF OpenPlan, queues, results
  <2> QED BY <1>2, <1>3, <1>6, <2>1, <2>2, <2>3, <2>4, WayBeside
<1>10. CASE PublishPlan(c)
  <2>1. PICK d \in DeskRecord : d = desk[c] /\ d.phase = "written"
    BY <1>1, <1>10 DEF FilesTyped, PublishPlan
  <2>2. PICK x \in DeskRecord : x = [d EXCEPT !.phase = "publishing"]
    BY DEF DeskRecord
  <2>3. x.phase = "publishing" /\ x.path = d.path /\ x.text = d.text
    BY <2>2 DEF DeskRecord
  <2>4. desk' = [desk EXCEPT ![c] = x]
    BY <1>10, <2>1, <2>2 DEF PublishPlan
  <2>5. desk'[c] = x /\ \A b \in Chats \ {c} : desk'[b] = desk[b]
    BY <1>1, <2>4 DEF FilesTyped
  <2>6. UNCHANGED <<plan, pending, processing, hand, curated>> /\ lost \subseteq lost'
    BY <1>10 DEF PublishPlan, files, queues, results
  <2>7. \A b \in Chats \ {c} : intent'[b] = intent[b]
    BY <1>1, <1>5, <1>10 DEF PublishPlan, DecideEnqueue, QueuesTyped
  <2>8. CASE d.path = s /\ d.text = plan[s]
    <3>1. CASE SubscribedAgents(PlanCreate) = {}
      <4>1. plan'[s] \in lost'
        BY <1>10, <2>1, <2>6, <2>8, <3>1 DEF PublishPlan
      <4> QED BY <4>1 DEF Way, Settled
    <3>2. CASE SubscribedAgents(PlanCreate) # {}
      <4>1. PICK a : a \in SubscribedAgents(PlanCreate)
        BY <3>2
      <4>2. PICK e : e = PlanEvent(c)
        OBVIOUS
      <4>3. d.path \in Seconds
        BY <2>1 DEF Publishing
      <4>4. e \in Event /\ e.type = PlanCreate /\ e.path = d.path
        BY <2>1, <4>2, <4>3, PlanningBounds DEF PlanEvent, Event, EventType, Seconds
      <4>5. a \in ResolveTargetAgents(e.type)
        BY <4>1, <4>4 DEF ResolveTargetAgents, PlanCreate, BriefUpdate
      <4>6. [agent |-> a, event |-> e] \in intent'[c]
        <5>1. DecideEnqueue(c, e) /\ c \in Process
          BY <1>5, <1>10, <4>2 DEF PublishPlan
        <5> QED BY <1>1, <4>3, <4>4, <4>5, <5>1, Decided
      <4>7. intent'[c] # {}
        BY <4>6
      <4> QED BY <2>3, <2>5, <2>6, <2>8, <4>7 DEF Way, AtDesk
    <3> QED BY <3>1, <3>2
  <2>9. CASE ~(d.path = s /\ d.text = plan[s])
    BY <1>2, <1>3, <1>6, <2>1, <2>5, <2>6, <2>7, <2>9, WayBeside
  <2> QED BY <2>8, <2>9
<1> QED BY <1>4, <1>7, <1>8, <1>9, <1>10, <1>11 DEF ChatStep

LEMMA WriteWay ==
    ASSUME TypeOK, Publishing, OnItsWay, NEW p \in Process, WriteQueueFile(p)
    PROVE  OnItsWay'
<1>1. FilesTyped /\ QueuesTyped /\ LoopTyped
  BY Parts
<1>2. PICK i \in intent[p] :
              /\ i.agent \in Agents /\ i.event \in Event
              /\ intent' = [intent EXCEPT ![p] = @ \ {i}]
              /\ Events(pending'[i.agent]) = Events(pending[i.agent]) \cup {i.event}
              /\ \A a \in Agents \ {i.agent} : pending'[a] = pending[a]
              /\ UNCHANGED <<processing, hand, desk, plan>>
  BY <1>1, Written
<1>3. UNCHANGED <<curated, lost>>
  BY DEF WriteQueueFile, results
<1>4. Chats \subseteq Process
  BY DEF Process
<1>5. SUFFICES ASSUME NEW s \in Seconds, plan'[s] # NoText
               PROVE  Way(s)'
  BY DEF OnItsWay, Way
<1>6. Way(s)
  BY <1>2, <1>5 DEF OnItsWay, Way
<1>7. \A a \in Agents : Events(pending[a]) \subseteq Events(pending'[a])
  BY <1>2
<1>8. Settled(s) => Settled(s)'
  BY <1>2, <1>3 DEF Settled
<1>9. Queued(s) => Queued(s)'
  BY <1>7 DEF Queued
<1>10. Unbegun(s) => Unbegun(s)'
  BY <1>2 DEF Unbegun, Begun
<1>11. Saving(s) => Saving(s)'
  BY <1>2 DEF Saving
<1>12. ASSUME NEW c \in Chats, desk[c].path = s, desk[c].text = plan[s], desk[c].phase = "written"
       PROVE  AtDesk(s)'
  BY <1>2, <1>12 DEF AtDesk
<1>13. ASSUME NEW c \in Chats, desk[c].path = s, desk[c].text = plan[s], desk[c].phase = "publishing",
              intent[c] # {}
       PROVE  AtDesk(s)' \/ Queued(s)'
  <2>1. CASE p = c
    <3>1. i.event = PlanEvent(c)
      BY <1>2, <2>1 DEF Publishing
    <3>2. i.event.type = PlanCreate /\ i.event.path = s
      BY <1>13, <3>1 DEF PlanEvent
    <3> QED BY <1>2, <3>2 DEF Queued
  <2>2. CASE p # c
    <3>1. intent'[c] = intent[c]
      BY <1>1, <1>2, <1>4, <2>2 DEF QueuesTyped
    <3> QED BY <1>2, <1>13, <3>1 DEF AtDesk
  <2> QED BY <2>1, <2>2
<1>14. AtDesk(s) => AtDesk(s)' \/ Queued(s)'
  BY <1>12, <1>13 DEF AtDesk
<1> QED BY <1>6, <1>8, <1>9, <1>10, <1>11, <1>14 DEF Way

LEMMA StartWay ==
    ASSUME TypeOK, OnItsWay, Start
    PROVE  OnItsWay'
<1>1. QueuesTyped /\ LoopTyped
  BY Parts
<1>2. \A a \in Agents : Events(pending'[a]) = Events(pending[a]) \cup Events(processing[a])
  BY <1>1, StartFacts
<1>3. hand = NoHand /\ UNCHANGED <<plan, hand, desk, intent, curated, lost>>
  BY <1>1 DEF Start, LoopTyped, files, results
<1>4. SUFFICES ASSUME NEW s \in Seconds, plan'[s] # NoText
               PROVE  Way(s)'
  BY DEF OnItsWay, Way
<1>5. Way(s)
  BY <1>3, <1>4 DEF OnItsWay, Way
<1>6. Settled(s) => Settled(s)'
  BY <1>3 DEF Settled
<1>7. Queued(s) \/ Unbegun(s) => Queued(s)'
  BY <1>2 DEF Queued, Unbegun
<1>8. ~Saving(s)
  BY <1>3, NoHandTyped DEF Saving
<1>9. AtDesk(s) => AtDesk(s)'
  BY <1>3 DEF AtDesk
<1> QED BY <1>5, <1>6, <1>7, <1>8, <1>9 DEF Way

LEMMA EndWay ==
    ASSUME TypeOK, Addressed, InHand, OnItsWay, EndStep
    PROVE  OnItsWay'
<1>1. FilesTyped /\ QueuesTyped /\ LoopTyped
  BY Parts
<1>2. /\ hand' = NoHand /\ UNCHANGED <<plan, pending, processing, curated>>
      /\ lost' = lost \cup {desk[c].text : c \in {d \in Chats : \/ desk[d].phase \in {"opened", "written"}
                                                               \/ intent[d] # {}}}
  BY DEF EndStep, Crash, Exit, ProcessEnds, files, queues, results
<1>3. SUFFICES ASSUME NEW s \in Seconds, plan'[s] # NoText
               PROVE  Way(s)'
  BY DEF OnItsWay, Way
<1>4. Way(s)
  BY <1>2, <1>3 DEF OnItsWay, Way
<1>5. Settled(s) => Settled(s)'
  BY <1>2 DEF Settled
<1>6. Queued(s) => Queued(s)'
  BY <1>2 DEF Queued
<1>7. \A a \in Agents : ~Begun(a)'
  BY <1>2, NoHandTyped DEF Begun
<1>8. Unbegun(s) => Unbegun(s)'
  BY <1>2, <1>7 DEF Unbegun
<1>9. Saving(s) => Unbegun(s)'
  <2>1. SUFFICES ASSUME Saving(s) PROVE Unbegun(s)'
    OBVIOUS
  <2>2. Claimed /\ Role[hand.agent] = "Curator"
    BY <2>1 DEF Saving, Claimed, InHand
  <2>3. /\ hand.agent \in Agents /\ hand.event \in Events(processing[hand.agent])
        /\ hand.event.type = PlanCreate /\ hand.event.path = s
    BY <1>1, <2>1, <2>2, ClaimedEvent DEF Saving
  <2> QED BY <1>2, <1>7, <2>3 DEF Unbegun
<1>10. AtDesk(s) => Settled(s)'
  BY <1>2 DEF AtDesk, Settled
<1> QED BY <1>4, <1>5, <1>6, <1>8, <1>9, <1>10 DEF Way

LEMMA RunWay ==
    ASSUME TypeOK, Addressed, InHand, Publishing, OnItsWay, RunStep
    PROVE  OnItsWay'
<1>1. FilesTyped /\ QueuesTyped /\ LoopTyped
  BY Parts
<1>2. /\ hand'.agent = hand.agent /\ hand'.event = hand.event
      /\ Marks \/ Saves \/ Derives \/ Ends \/ Fails
      /\ UNCHANGED <<plan, pending, processing, desk>> /\ manager # "off"
  BY <1>1, RunFacts DEF files, queues
<1>3. curated \subseteq curated' /\ lost \subseteq lost'
  BY DEF RunStep, SaveMarkdown, SaveMetadata, UpsertTestCases, RefineBacklog, RunSucceeds,
         EmitFollowUp, EmitDone, RunFails, FindNoPlan, results
<1>4. \A c \in Chats : intent'[c] = intent[c]
  <2>1. CASE EmitFollowUp
    BY <1>1, <2>1, ChatsAssumption DEF EmitFollowUp, DecideEnqueue, QueuesTyped, Process
  <2>2. CASE ~EmitFollowUp
    BY <2>2 DEF RunStep, SaveMarkdown, SaveMetadata, UpsertTestCases, RefineBacklog, RunSucceeds,
                EmitDone, RunFails, FindNoPlan
  <2> QED BY <2>1, <2>2
<1>5. SUFFICES ASSUME NEW s \in Seconds, plan'[s] # NoText
               PROVE  Way(s)'
  BY DEF OnItsWay, Way
<1>6. Way(s)
  BY <1>2, <1>5 DEF OnItsWay, Way
<1>7. Settled(s) => Settled(s)'
  BY <1>2, <1>3 DEF Settled
<1>8. Queued(s) => Queued(s)'
  BY <1>2 DEF Queued
<1>9. AtDesk(s) => AtDesk(s)'
  BY <1>2, <1>4 DEF AtDesk
<1>10. Claimed
  BY <1>2 DEF Marks, Saves, Derives, Ends, Fails, Claimed
<1>11. /\ hand.agent \in Agents /\ processing[hand.agent] = <<hand.event>>
       /\ Role[hand.agent] = "Curator" <=> hand.event.type = PlanCreate
       /\ Events(<<hand.event>>) = {hand.event}
       /\ \A a \in Agents \ {hand.agent} : Events(processing[a]) = {}
  <2>1. hand.event \in Event /\ hand.agent \in Agents
        /\ (Role[hand.agent] = "Curator" <=> hand.event.type = PlanCreate)
    BY <1>1, <1>10, ClaimedEvent
  <2>2. Events(<<hand.event>>) = {hand.event}
    BY <2>1, EventsFew
  <2>3. processing[hand.agent] = <<hand.event>> /\ \A a \in Agents \ {hand.agent} : processing[a] = <<>>
    BY <1>2, <1>10, <2>1 DEF InHand
  <2> QED BY <2>1, <2>2, <2>3, EventsFew
<1>12. ASSUME Unbegun(s)
       PROVE  Way(s)'
  <2>1. /\ hand.stage = "running" /\ hand.event.type = PlanCreate /\ hand.event.path = s
        /\ Role[hand.agent] = "Curator"
    BY <1>10, <1>11, <1>12 DEF Unbegun, Begun, Claimed
  <2>2. PlanNamed = plan[s]
    BY <2>1 DEF PlanNamed
  <2>3. CASE Marks
    BY <1>2, <2>1, <2>2, <2>3 DEF Marks, Way, Saving
  <2>4. CASE Fails
    BY <1>2, <1>5, <2>1, <2>2, <2>4 DEF Fails, Way, Settled
  <2> QED BY <1>2, <2>1, <2>3, <2>4 DEF Saves, Derives, Ends
<1>13. ASSUME Saving(s)
       PROVE  Way(s)'
  <2>1. hand.stage = "saving" /\ hand.event.path = s /\ hand.text = plan[s] /\ Role[hand.agent] = "Curator"
    BY <1>13 DEF Saving, InHand
  <2>2. PlanNamed = plan[s]
    BY <2>1 DEF PlanNamed
  <2>3. CASE Saves
    BY <1>2, <2>1, <2>3 DEF Saves, Way, Settled
  <2>4. CASE Fails
    BY <1>2, <1>5, <2>1, <2>2, <2>4 DEF Fails, Way, Settled
  <2> QED BY <1>2, <2>1, <2>3, <2>4 DEF Marks, Derives, Ends
<1> QED BY <1>6, <1>7, <1>8, <1>9, <1>12, <1>13 DEF Way

LEMMA LoopWay ==
    ASSUME TypeOK, Addressed, InHand, OnItsWay, Visit \/ ClaimFile \/ MoveFile
    PROVE  OnItsWay'
<1>1. FilesTyped /\ QueuesTyped /\ LoopTyped
  BY Parts
<1>2. UNCHANGED <<plan, desk, intent, curated, lost>>
  BY DEF Visit, ClaimFile, MoveFile, files, results
<1>3. SUFFICES ASSUME NEW s \in Seconds, plan'[s] # NoText
               PROVE  Way(s)'
  BY DEF OnItsWay, Way
<1>4. Way(s)
  BY <1>2, <1>3 DEF OnItsWay, Way
<1>5. Settled(s) => Settled(s)'
  BY <1>2 DEF Settled
<1>6. AtDesk(s) => AtDesk(s)'
  BY <1>2 DEF AtDesk
<1>7. ~Saving(s)
  BY <1>1, VisitFacts, MoveFacts DEF Saving, ClaimFile
<1>8. CASE Visit
  <2>1. UNCHANGED <<pending, processing>> /\ hand'.stage \in {"idle", "claiming"}
    BY <1>1, <1>8, VisitFacts, NoHandTyped DEF queues
  <2>2. Queued(s) => Queued(s)'
    BY <2>1 DEF Queued
  <2>3. Unbegun(s) => Unbegun(s)'
    BY <2>1 DEF Unbegun, Begun
  <2> QED BY <1>4, <1>5, <1>6, <1>7, <2>2, <2>3 DEF Way
<1>9. CASE ClaimFile
  <2>1. /\ hand.agent \in Agents /\ \A a \in Agents : processing[a] = <<>>
        /\ \A a \in Agents \ {hand.agent} : pending'[a] = pending[a]
    BY <1>1, <1>9, ClaimFacts
  <2>2. PICK e \in Event : e = hand'.event
    BY <1>1, <1>9, ClaimedHand
  <2>3. /\ hand'.stage = "running"
        /\ processing' = [processing EXCEPT ![hand.agent] = <<e>>]
        /\ Events(pending[hand.agent]) = Events(pending'[hand.agent]) \cup {e}
    BY <1>1, <1>9, <2>2, ClaimedHand
  <2>4. Events(processing'[hand.agent]) = {e}
    BY <1>1, <2>1, <2>2, <2>3, EventsFew DEF QueuesTyped
  <2>5. \A a \in Agents : ~Begun(a)'
    BY <2>3 DEF Begun
  <2>6. ASSUME NEW a \in Agents, NEW x \in Events(pending[a]), x.type = PlanCreate, x.path = s
        PROVE  Queued(s)' \/ Unbegun(s)'
    <3>1. CASE x \in Events(pending'[a])
      BY <2>6, <3>1 DEF Queued
    <3>2. CASE x \notin Events(pending'[a])
      <4>1. a = hand.agent /\ x = e
        BY <2>1, <2>3, <2>6, <3>2
      <4> QED BY <2>4, <2>5, <2>6, <4>1 DEF Unbegun
    <3> QED BY <3>1, <3>2
  <2>7. Queued(s) => Queued(s)' \/ Unbegun(s)'
    BY <2>6 DEF Queued
  <2>8. ~Unbegun(s)
    BY <2>1, EventsFew DEF Unbegun
  <2> QED BY <1>4, <1>5, <1>6, <1>7, <2>7, <2>8 DEF Way
<1>10. CASE MoveFile
  <2>1. /\ hand.agent \in Agents /\ hand.stage \in {"finishing", "rejecting"}
        /\ \A a \in Agents \ {hand.agent} : processing[a] = <<>>
        /\ UNCHANGED pending
    BY <1>1, <1>10, MoveFacts
  <2>2. Queued(s) => Queued(s)'
    BY <2>1 DEF Queued
  <2>3. ~Unbegun(s)
    BY <2>1, EventsFew DEF Unbegun, Begun
  <2> QED BY <1>4, <1>5, <1>6, <1>7, <2>2, <2>3 DEF Way
<1> QED BY <1>8, <1>9, <1>10

LEMMA OnItsWayStep ==
    ASSUME TypeOK, Addressed, InHand, Publishing, OnItsWay, [Next]_vars
    PROVE  OnItsWay'
<1>1. FilesTyped /\ QueuesTyped /\ LoopTyped
  BY Parts
<1>2. ASSUME UNCHANGED <<plan, curated, lost, pending, processing, hand, desk>>,
             \A c \in Chats : intent'[c] = intent[c]
      PROVE  OnItsWay'
  <2>1. ASSUME NEW s \in Seconds, plan'[s] # NoText
        PROVE  Way(s)'
    <3>1. Way(s)
      BY <1>2, <2>1 DEF OnItsWay, Way
    <3> QED BY <1>1, <1>2, <3>1, WayFrame
  <2> QED BY <2>1 DEF OnItsWay, Way
<1>3. CASE BringUp \/ Signal \/ DownSaved \/ BeginPass \/ SaveByHand
  BY <1>2, <1>3 DEF BringUp, Signal, DownSaved, BeginPass, SaveByHand, files, queues, results
<1>4. CASE Trigger
  <2>1. \A c \in Chats : intent'[c] = intent[c]
    BY <1>1, <1>4, ChatsAssumption DEF Trigger, DecideEnqueue, QueuesTyped, Process
  <2> QED BY <1>2, <1>4, <2>1 DEF Trigger, files, queues, results
<1>5. CASE Next
  BY <1>3, <1>4, <1>5, StepKinds, ChatWay, WriteWay, StartWay, EndWay, RunWay, LoopWay
     DEF ManagerStep, LoopStep, HandStep
<1>6. CASE UNCHANGED vars
  BY <1>2, <1>6 DEF vars, files, queues, results
<1> QED BY <1>5, <1>6

--------------------------------------------------------------------------------
(* The theorems. *)

LEMMA InitIInv == Init => IInv
<1> SUFFICES ASSUME Init PROVE IInv
  OBVIOUS
<1>1. 0 \in Texts /\ NoText \in Texts /\ 1 \in Seconds
  BY PlanningBounds DEF Texts, NoText, Seconds
<1>2. NoCommit \in DeskRecord /\ NoCommit.phase = "idle"
  BY <1>1, PlanningBounds DEF NoCommit, DeskRecord
<1>3. FilesTyped
  BY <1>1, <1>2 DEF Init, FilesTyped
<1>4. QueuesTyped
  BY DEF Init, QueuesTyped
<1>5. LoopTyped
  BY NoHandTyped DEF Init, LoopTyped
<1>6. ResultsTyped
  <2>1. brief = [text |-> NoText, source |-> 0] /\ 0 \in 0 .. MaxSeconds
    BY PlanningBounds DEF Init
  <2>2. brief \in [text : Texts, source : 0 .. MaxSeconds]
    BY <1>1, <2>1
  <2> QED BY <1>1, <2>2 DEF Init, ResultsTyped
<1>7. BudgetTyped
  BY PlanningBounds DEF Init, BudgetTyped
<1>8. TypeOK
  BY <1>3, <1>4, <1>5, <1>6, <1>7, Parts
<1>9. Addressed /\ InHand
  BY NoHandTyped, EventsFew DEF Init, Addressed, InHand, Claimed
<1>10. Publishing
  BY <1>2, ChatsAssumption DEF Init, Publishing, Process
<1>11. OnItsWay
  BY DEF Init, OnItsWay
<1> QED BY <1>8, <1>9, <1>10, <1>11 DEF IInv

LEMMA NextIInv == IInv /\ [Next]_vars => IInv'
BY TypeStep, QueuesStep, InHandStep, PublishingStep, OnItsWayStep DEF IInv

LEMMA AlwaysIInv == Spec => []IInv
BY InitIInv, NextIInv, PTL DEF Spec

\* The types of the planning pipeline's variables hold in every reachable state.
THEOREM PlanningTyped == Spec => []TypeOK
<1>1. IInv => TypeOK
  BY DEF IInv
<1> QED BY <1>1, AlwaysIInv, PTL

\* A committed plan is never forgotten: until its text has been made a brief, an event that names it
\* is queued, in hand or about to be published, or it was lost in a way `lost' names.
THEOREM NoPlanIsForgotten == Spec => []PlanKept
<1>1. IInv => PlanKept
  <2> SUFFICES ASSUME IInv, NEW s \in Seconds, plan[s] # NoText
               PROVE  \/ plan[s] \in curated \cup lost
                      \/ \E a \in Agents : \E e \in Events(pending[a]) \cup Events(processing[a]) :
                             e.type = PlanCreate /\ e.path = s
                      \/ \E c \in Chats : desk[c].phase \in {"written", "publishing"} /\ desk[c].path = s
    BY DEF PlanKept
  <2>1. Way(s)
    BY DEF IInv, OnItsWay, Way
  <2>2. CASE Settled(s) \/ Queued(s) \/ Unbegun(s) \/ AtDesk(s)
    BY <2>2 DEF Settled, Queued, Unbegun, AtDesk
  <2>3. CASE Saving(s)
    <3>1. Claimed /\ Role[hand.agent] = "Curator" /\ hand.event.path = s
      BY <2>3 DEF Saving, Claimed, IInv, InHand
    <3>2. /\ hand.agent \in Agents /\ hand.event \in Events(processing[hand.agent])
          /\ hand.event.type = PlanCreate
      BY <3>1, Parts, ClaimedEvent DEF IInv
    <3> QED BY <3>1, <3>2
  <2> QED BY <2>1, <2>2, <2>3 DEF Way
<1> QED BY <1>1, AlwaysIInv, PTL

================================================================================
