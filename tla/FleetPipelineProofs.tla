-------------------------- MODULE FleetPipelineProofs --------------------------
(***************************************************************************)
(* Theorems about FleetPipeline for every set of epics and agents, every   *)
(* schedule of failures, crashes and triggers.                             *)
(***************************************************************************)
EXTENDS FleetPipeline, TLAPS

\* The file in hand is the only file in a processing directory, and the consume loop rests
\* whenever no manager serves.
HandInv ==
    /\ ~Up => stage = "idle"
    /\ stage # "idle" => batch > 0
    /\ stage = "emitting" => EmitEvent[message.type] # NoEvent
    /\ stage \notin {"idle", "claiming"} => processing[agent] = <<message>>
    /\ manager \notin {"off", "starting"} =>
           \A a \in Agents : a # agent \/ stage \in {"idle", "claiming"} => processing[a] = <<>>

--------------------------------------------------------------------------------
(* What the helpers return. *)

\* A queue event is resolved to messages with an event type and an epic id, or none.
LEMMA ResolveType ==
    ASSUME TypeOK, NEW type \in EventType, NEW epicId \in EpicId
    PROVE  ResolveQueueEvent(type, epicId) \subseteq [type : EventType, epicId : EpicId]
  <1>1. PeekNextReadyEpic \subseteq Epics
    BY DEF PeekNextReadyEpic, Foremost, ReadyEpics
  <1>2. EpicReady \in EventType /\ EpicFrontendReady \in EventType
    BY DEF EventType, EpicEvent
  <1>3. QED
    BY <1>1, <1>2 DEF ResolveQueueEvent, EpicId

\* enqueueToRunningAgents decides on files for known agents only.
LEMMA DecideType ==
    ASSUME TypeOK, NEW p \in Enqueuer, NEW type \in EventType, NEW epicId \in EpicId,
           DecideEnqueue(p, type, epicId)
    PROVE  intent' \in [Enqueuer -> SUBSET Intent]
  <1>1. PICK event \in ResolveQueueEvent(type, epicId) :
            intent' = [intent EXCEPT ![p] =
                {[agent |-> a, type |-> event.type, epicId |-> event.epicId] :
                    a \in ResolveTargetAgents(event.type)}]
    BY DEF DecideEnqueue
  <1>2. event \in [type : EventType, epicId : EpicId]
    BY ResolveType
  <1>3. ResolveTargetAgents(event.type) \subseteq Agents
    BY DEF ResolveTargetAgents, FirstRunningAgent, Foremost, TypeOK
  <1>4. {[agent |-> a, type |-> event.type, epicId |-> event.epicId] :
            a \in ResolveTargetAgents(event.type)} \subseteq Intent
    BY <1>2, <1>3 DEF Intent
  <1>5. QED
    BY <1>1, <1>4 DEF TypeOK

\* Writing a decided file appends a message to a pending directory.
LEMMA WriteType ==
    ASSUME TypeOK, NEW p \in Enqueuer, WriteQueueFile(p)
    PROVE  /\ pending' \in [Agents -> Seq(Message)]
           /\ clock' \in Nat
           /\ intent' \in [Enqueuer -> SUBSET Intent]
  <1>1. PICK i \in intent[p] :
            /\ pending' = [pending EXCEPT ![i.agent] = Append(@,
                   [type |-> i.type, epicId |-> i.epicId,
                    createdAt |-> IF i.type \in ReviewStageEvent THEN clock ELSE 0])]
            /\ clock' = IF i.type \in ReviewStageEvent THEN clock + 1 ELSE clock
            /\ intent' = [intent EXCEPT ![p] = @ \ {i}]
    BY DEF WriteQueueFile
  <1>2. i \in Intent /\ i.agent \in Agents
    BY <1>1 DEF TypeOK, Intent
  <1>3. clock \in Nat /\ clock' \in Nat
    BY <1>1 DEF TypeOK
  <1>4. [type |-> i.type, epicId |-> i.epicId,
         createdAt |-> IF i.type \in ReviewStageEvent THEN clock ELSE 0] \in Message
    BY <1>2, <1>3 DEF Intent, Message
  <1>5. pending' \in [Agents -> Seq(Message)]
    <2>1. pending[i.agent] \in Seq(Message)
      BY <1>2 DEF TypeOK
    <2>2. Append(pending[i.agent],
                 [type |-> i.type, epicId |-> i.epicId,
                  createdAt |-> IF i.type \in ReviewStageEvent THEN clock ELSE 0]) \in Seq(Message)
      BY <1>4, <2>1
    <2>3. pending \in [Agents -> Seq(Message)]
      BY DEF TypeOK
    <2>4. QED
      BY <1>1, <2>2, <2>3
  <1>6. intent' \in [Enqueuer -> SUBSET Intent]
    BY <1>1 DEF TypeOK
  <1>7. QED
    BY <1>3, <1>5, <1>6

\* A bound that is spent stays a natural number.
LEMMA SpendType ==
    ASSUME TypeOK, NEW what \in {"failures", "reworks", "stops", "triggers"}, Spend(what)
    PROVE  budget' \in [{"failures", "reworks", "stops", "triggers"} -> Nat]
  BY DEF Spend, TypeOK

--------------------------------------------------------------------------------
(* Type correctness, one lemma for each part of the next-state relation. *)

TypeInv == TypeOK /\ HandInv

LEMMA StartType == TypeInv /\ Start => TypeOK'
  <1> SUFFICES ASSUME TypeInv, Start PROVE TypeOK'
    OBVIOUS
  <1>t. TypeOK /\ HandInv
    BY DEF TypeInv
  <1> USE DEF queueVars, consumerVars
  <1>1. CASE Preflight
    <2>1. epicStatus' \in [Epics -> EpicStatus]
      BY <1>t, <1>1 DEF Preflight, ResetInProgressToTodo, TypeOK, EpicStatus
    <2>2. QED
      BY <1>t, <1>1, <2>1 DEF Preflight, TypeOK, Phase
  <1>2. CASE RecoverStaleQueueProcessingFiles
    <2>1. \A a \in Agents : processing[a] \o pending[a] \in Seq(Message)
      BY <1>t DEF TypeOK
    <2>2. pending' \in [Agents -> Seq(Message)] /\ processing' \in [Agents -> Seq(Message)]
      BY <1>2, <2>1 DEF RecoverStaleQueueProcessingFiles
    <2>3. QED
      BY <1>t, <1>2, <2>2 DEF RecoverStaleQueueProcessingFiles, TypeOK, Phase
  <1>3. CASE BringUp
    BY <1>t, <1>3 DEF BringUp, Recoverable, TypeOK, Phase
  <1>4. CASE AutoRecover
    <2>1. PICK e \in Foremost(recovery) :
              recovery' = recovery \ {e} /\ DecideEnqueue("manager", RecoveryEventType(e), e)
      BY <1>4 DEF AutoRecover
    <2>2. e \in EpicId /\ RecoveryEventType(e) \in EventType
      BY <1>t, <2>1 DEF Foremost, TypeOK, EpicId, RecoveryEventType, EventType, EpicEvent
    <2>3. intent' \in [Enqueuer -> SUBSET Intent]
      BY <1>t, <2>1, <2>2, DecideType DEF Enqueuer
    <2>4. QED
      BY <1>t, <1>4, <2>1, <2>3 DEF AutoRecover, TypeOK
  <1>5. CASE AutoRecoverWrite
    BY <1>t, <1>5, WriteType DEF AutoRecoverWrite, TypeOK, Enqueuer
  <1>6. CASE Serve
    BY <1>t, <1>6 DEF Serve, TypeOK, Phase
  <1>7. QED
    BY <1>1, <1>2, <1>3, <1>4, <1>5, <1>6 DEF Start

LEMMA StopType == TypeInv /\ Stop => TypeOK'
  <1> SUFFICES ASSUME TypeInv, Stop PROVE TypeOK'
    OBVIOUS
  <1>t. TypeOK
    BY DEF TypeInv
  <1> USE DEF queueVars, consumerVars
  <1>0. NoMessage \in Message
    BY DEF NoMessage, Message, EventType, EpicId
  <1>1. CASE Crash
    BY <1>t, <1>0, <1>1, SpendType DEF Crash, ProcessEnds, TypeOK, Phase, Stage
  <1>2. CASE Signal
    BY <1>t, <1>2, SpendType DEF Signal, TypeOK, Phase
  <1>3. CASE DownSaved
    BY <1>t, <1>3 DEF DownSaved, TypeOK, Phase
  <1>4. CASE Exit
    BY <1>t, <1>0, <1>4 DEF Exit, ProcessEnds, TypeOK, Phase, Stage
  <1>5. QED
    BY <1>1, <1>2, <1>3, <1>4 DEF Stop

\* A run changes at most the status of the epic in hand, and only to a status.
LEMMA RunType == TypeInv /\ Run => TypeOK'
  <1> SUFFICES ASSUME TypeInv, Run PROVE TypeOK'
    OBVIOUS
  <1>t. TypeOK
    BY DEF TypeInv
  <1> USE DEF queueVars
  <1>1. CASE ReviewerDecides
    <2>1. PICK verdict \in Verdicts(message.epicId) :
              /\ epicStatus' = [epicStatus EXCEPT ![message.epicId] = verdict]
              /\ IF verdict = "changes-requested" /\ epicStatus[message.epicId] = "in-review"
                 THEN Spend("reworks") ELSE UNCHANGED budget
      BY <1>1 DEF ReviewerDecides
    <2>2. epicStatus' \in [Epics -> EpicStatus]
      BY <1>t, <2>1 DEF Verdicts, TypeOK, EpicStatus
    <2>3. budget' \in [{"failures", "reworks", "stops", "triggers"} -> Nat]
      BY <1>t, <2>1, SpendType DEF TypeOK
    <2>4. QED
      BY <1>t, <1>1, <2>2, <2>3 DEF ReviewerDecides, TypeOK
  <1>2. CASE GatekeeperRecords
    BY <1>t, <1>2 DEF GatekeeperRecords, TypeOK
  <1>3. ASSUME NEW failed \in BOOLEAN, FinalizeEpic(failed)
        PROVE  epicStatus' \in [Epics -> EpicStatus]
    BY <1>t, <1>3 DEF FinalizeEpic, TypeOK, EpicStatus
  <1>4. CASE DispatchSucceeds
    <2>1. epicStatus' \in [Epics -> EpicStatus]
      BY <1>3, <1>4 DEF DispatchSucceeds
    <2>2. polished' \subseteq Epics
      BY <1>t, <1>4 DEF DispatchSucceeds, CanRun, TypeOK, Message, EpicId, EpicEvent
    <2>3. QED
      BY <1>t, <1>4, <2>1, <2>2 DEF DispatchSucceeds, TypeOK, Stage
  <1>5. CASE DispatchFails
    <2>1. epicStatus' \in [Epics -> EpicStatus]
      BY <1>3, <1>5 DEF DispatchFails
    <2>2. budget' \in [{"failures", "reworks", "stops", "triggers"} -> Nat]
      BY <1>t, <1>5, SpendType DEF DispatchFails, TypeOK
    <2>3. QED
      BY <1>t, <1>5, <2>1, <2>2 DEF DispatchFails, TypeOK, Stage
  <1>6. QED
    BY <1>1, <1>2, <1>4, <1>5 DEF Run

\* What the end of a message leaves behind has the right type.
LEMMA MoveType ==
    ASSUME TypeInv, NEW queueState \in {"done", "failed"}, MoveToTerminal(queueState),
           stage \in {"finishing", "rejecting"}
    PROVE  TypeOK'
  <1>t. TypeOK /\ batch > 0 /\ agent \in Agents
    BY DEF TypeInv, HandInv, TypeOK
  <1> USE DEF queueVars
  <1>1. processing' \in [Agents -> Seq(Message)]
    <2>1. processing[agent] = <<message>> /\ message \in Message
      BY DEF TypeInv, HandInv, TypeOK
    <2>2. SubSeq(processing[agent], 1, Len(processing[agent]) - 1) \in Seq(Message)
      BY <2>1
    <2>3. QED
      BY <1>t, <2>2 DEF MoveToTerminal, TypeOK
  <1>2. terminal' \subseteq Terminal
    BY <1>t DEF MoveToTerminal, TypeOK, Message, Terminal
  <1>3. NoMessage \in Message
    BY DEF NoMessage, Message, EventType, EpicId
  <1>4. batch' \in Nat /\ stage' \in Stage /\ agent' = agent
    BY <1>t DEF MoveToTerminal, NextOfListing, TypeOK, Stage
  <1>5. QED
    BY <1>t, <1>1, <1>2, <1>3, <1>4 DEF MoveToTerminal, TypeOK

LEMMA ConsumeType == TypeInv /\ Consume => TypeOK'
  <1> SUFFICES ASSUME TypeInv, Consume PROVE TypeOK'
    OBVIOUS
  <1>t. TypeOK
    BY DEF TypeInv
  <1> USE DEF queueVars
  <1>1. CASE BeginPass
    BY <1>t, <1>1 DEF BeginPass, TypeOK
  <1>2. CASE Visit
    <2>1. PICK a \in Foremost(pass) :
              /\ pass' = pass \ {a}
              /\ agent' = a
              /\ batch' = Least(Len(pending[a]), QueueConsumeMax)
              /\ stage' = IF pending[a] # <<>> THEN "claiming" ELSE "idle"
      BY <1>2 DEF Visit
    <2>2. a \in Agents /\ Len(pending[a]) \in Nat
      BY <1>t, <2>1 DEF Foremost, TypeOK
    <2>3. batch' \in Nat
      BY <2>1, <2>2, BoundsAssumption DEF Least
    <2>4. QED
      BY <1>t, <1>2, <2>1, <2>2, <2>3 DEF Visit, TypeOK, Stage
  <1>3. CASE ClaimFile
    <2>1. agent \in Agents /\ pending[agent] \in Seq(Message) /\ processing[agent] \in Seq(Message)
      BY <1>t, <1>3 DEF ClaimFile, TypeOK
    <2>2. Head(pending[agent]) \in Message /\ Tail(pending[agent]) \in Seq(Message)
      BY <1>3, <2>1 DEF ClaimFile
    <2>3. Append(processing[agent], Head(pending[agent])) \in Seq(Message)
      BY <2>1, <2>2
    <2>4. pending' \in [Agents -> Seq(Message)] /\ processing' \in [Agents -> Seq(Message)]
      BY <1>t, <1>3, <2>1, <2>2, <2>3 DEF ClaimFile, TypeOK
    <2>5. QED
      BY <1>t, <1>3, <2>2, <2>4 DEF ClaimFile, TypeOK, Stage
  <1>4. CASE PrepareDispatch
    <2>1. epicStatus' \in [Epics -> EpicStatus]
      BY <1>t, <1>4 DEF PrepareDispatch, Claim, TypeOK, EpicStatus
    <2>2. QED
      BY <1>t, <1>4, <2>1 DEF PrepareDispatch, TypeOK, Stage
  <1>5. CASE EmitFollowUp
    <2>1. EmitEvent[message.type] \in EventType /\ message.epicId \in EpicId
      <3>1. stage = "emitting" /\ message \in Message
        BY <1>t, <1>5 DEF EmitFollowUp, TypeOK
      <3>2. EmitEvent[message.type] # NoEvent
        BY <3>1 DEF TypeInv, HandInv
      <3>3. \A t \in EventType : EmitEvent[t] # NoEvent => EmitEvent[t] \in EventType
        BY DEF EmitEvent, EventType, EpicEvent
      <3>4. QED
        BY <3>1, <3>2, <3>3 DEF Message
    <2>2. intent' \in [Enqueuer -> SUBSET Intent]
      BY <1>t, <1>5, <2>1, DecideType DEF EmitFollowUp, Enqueuer
    <2>3. QED
      BY <1>t, <1>5, <2>2 DEF EmitFollowUp, TypeOK, Stage
  <1>6. CASE EmitWrite
    BY <1>t, <1>6, WriteType DEF EmitWrite, TypeOK, Stage, Enqueuer
  <1>7. CASE MoveToDone
    BY <1>7, MoveType DEF MoveToDone
  <1>8. CASE MoveToFailed
    BY <1>8, MoveType DEF MoveToFailed
  <1>9. QED
    BY <1>1, <1>2, <1>3, <1>4, <1>5, <1>6, <1>7, <1>8, RunType DEF Consume

LEMMA PollType == TypeInv /\ Poll => TypeOK'
  <1> SUFFICES ASSUME TypeInv, Poll PROVE TypeOK'
    OBVIOUS
  <1>t. TypeOK
    BY DEF TypeInv
  <1> USE DEF queueVars, consumerVars
  <1>0. /\ "poller" \in Enqueuer /\ NoEpic \in EpicId
        /\ EpicReady \in EventType /\ AcceptanceRequired \in EventType
    BY DEF Enqueuer, EpicId, EventType, EpicEvent
  <1>1. CASE PollProbe
    BY <1>t, <1>1 DEF PollProbe, TypeOK
  <1>2. CASE PollReady
    BY <1>t, <1>0, <1>2, DecideType DEF PollReady, TypeOK
  <1>3. CASE PollAcceptance
    BY <1>t, <1>0, <1>3, DecideType DEF PollAcceptance, TypeOK
  <1>4. CASE PollWrite
    BY <1>t, <1>0, <1>4, WriteType DEF PollWrite, TypeOK
  <1>5. QED
    BY <1>1, <1>2, <1>3, <1>4 DEF Poll

LEMMA OperatorType == TypeInv /\ Operator => TypeOK'
  <1> SUFFICES ASSUME TypeInv, Operator PROVE TypeOK'
    OBVIOUS
  <1>t. TypeOK
    BY DEF TypeInv
  <1> USE DEF queueVars, consumerVars
  <1>0. "operator" \in Enqueuer /\ TriggerEvents \subseteq EventType
    BY SetsAssumption DEF Enqueuer
  <1>1. ASSUME NEW t \in TriggerEvents, NEW e \in EpicId, Trigger(t, e) PROVE TypeOK'
    BY <1>t, <1>0, <1>1, DecideType, SpendType DEF Trigger, TypeOK
  <1>2. CASE TriggerWrite
    BY <1>t, <1>0, <1>2, WriteType DEF TriggerWrite, TypeOK
  <1>3. QED
    BY <1>1, <1>2 DEF Operator

--------------------------------------------------------------------------------
(* The file in hand and its processing directory. *)

LEMMA StartHand == TypeInv /\ Start => HandInv'
  <1> SUFFICES ASSUME TypeInv, Start PROVE HandInv'
    OBVIOUS
  <1>h. HandInv
    BY DEF TypeInv
  <1> USE DEF queueVars, consumerVars, HandInv, Up
  <1>1. CASE Preflight
    BY <1>h, <1>1 DEF Preflight
  <1>2. CASE RecoverStaleQueueProcessingFiles
    BY <1>h, <1>2 DEF RecoverStaleQueueProcessingFiles
  <1>3. CASE BringUp
    BY <1>h, <1>3 DEF BringUp
  <1>4. CASE AutoRecover
    BY <1>h, <1>4 DEF AutoRecover
  <1>5. CASE AutoRecoverWrite
    BY <1>h, <1>5 DEF AutoRecoverWrite
  <1>6. CASE Serve
    BY <1>h, <1>6 DEF Serve
  <1>7. QED
    BY <1>1, <1>2, <1>3, <1>4, <1>5, <1>6 DEF Start

LEMMA StopHand == TypeInv /\ Stop => HandInv'
  <1> SUFFICES ASSUME TypeInv, Stop PROVE HandInv'
    OBVIOUS
  <1>h. HandInv
    BY DEF TypeInv
  <1> USE DEF queueVars, consumerVars, HandInv, Up
  <1>1. CASE Crash
    BY <1>h, <1>1 DEF Crash, ProcessEnds
  <1>2. CASE Signal
    BY <1>h, <1>2 DEF Signal
  <1>3. CASE DownSaved
    BY <1>h, <1>3 DEF DownSaved
  <1>4. CASE Exit
    BY <1>h, <1>4 DEF Exit, ProcessEnds
  <1>5. QED
    BY <1>1, <1>2, <1>3, <1>4 DEF Stop

LEMMA RunHand == TypeInv /\ Run => HandInv'
  <1> SUFFICES ASSUME TypeInv, Run PROVE HandInv'
    OBVIOUS
  <1>h. HandInv
    BY DEF TypeInv
  <1> USE DEF queueVars, HandInv, Up
  <1>1. CASE ReviewerDecides
    BY <1>h, <1>1 DEF ReviewerDecides
  <1>2. CASE GatekeeperRecords
    BY <1>h, <1>2 DEF GatekeeperRecords
  <1>3. CASE DispatchSucceeds
    BY <1>h, <1>3 DEF DispatchSucceeds
  <1>4. CASE DispatchFails
    BY <1>h, <1>4 DEF DispatchFails
  <1>5. QED
    BY <1>1, <1>2, <1>3, <1>4 DEF Run

LEMMA ConsumeHand == TypeInv /\ Consume => HandInv'
  <1> SUFFICES ASSUME TypeInv, Consume PROVE HandInv'
    OBVIOUS
  <1>h. HandInv
    BY DEF TypeInv
  <1>t. TypeOK
    BY DEF TypeInv
  <1> USE DEF queueVars, HandInv, Up
  <1>1. CASE BeginPass
    BY <1>h, <1>1 DEF BeginPass
  <1>2. CASE Visit
    <2>1. PICK a \in Foremost(pass) :
              /\ agent' = a
              /\ batch' = Least(Len(pending[a]), QueueConsumeMax)
              /\ stage' = IF pending[a] # <<>> THEN "claiming" ELSE "idle"
      BY <1>2 DEF Visit
    <2>2. a \in Agents /\ pending[a] \in Seq(Message)
      BY <1>t, <2>1 DEF Foremost, TypeOK
    <2>3. pending[a] # <<>> => Len(pending[a]) > 0
      BY <2>2
    <2>4. stage' # "idle" => batch' > 0
      BY <2>1, <2>3, BoundsAssumption DEF Least
    <2>5. QED
      BY <1>h, <1>2, <2>1, <2>4 DEF Visit
  <1>3. CASE ClaimFile
    <2>1. processing[agent] = <<>> /\ agent \in Agents /\ pending[agent] \in Seq(Message)
      BY <1>h, <1>t, <1>3 DEF ClaimFile, TypeOK
    <2>2. Append(processing[agent], Head(pending[agent])) = <<Head(pending[agent])>>
      BY <2>1
    <2>3. processing' = [processing EXCEPT ![agent] = <<message'>>]
      BY <1>3, <2>2 DEF ClaimFile
    <2>4. processing \in [Agents -> Seq(Message)]
      BY <1>t DEF TypeOK
    <2>5. QED
      BY <1>h, <1>3, <2>1, <2>3, <2>4 DEF ClaimFile
  <1>4. CASE PrepareDispatch
    BY <1>h, <1>4 DEF PrepareDispatch
  <1>5. CASE Run
    BY <1>5, RunHand
  <1>6. CASE EmitFollowUp
    BY <1>h, <1>6 DEF EmitFollowUp
  <1>7. CASE EmitWrite
    BY <1>h, <1>7 DEF EmitWrite
  <1>8. ASSUME Up, stage \in {"finishing", "rejecting"},
               NEW queueState \in {"done", "failed"}, MoveToTerminal(queueState)
        PROVE  HandInv'
    <2>1. processing[agent] = <<message>> /\ agent \in Agents /\ batch \in Nat /\ batch > 0
      BY <1>h, <1>t, <1>8 DEF TypeOK
    <2>2. SubSeq(processing[agent], 1, Len(processing[agent]) - 1) = <<>>
      BY <2>1
    <2>3. processing' = [processing EXCEPT ![agent] = <<>>]
      BY <1>8, <2>2 DEF MoveToTerminal
    <2>4. processing \in [Agents -> Seq(Message)]
      BY <1>t DEF TypeOK
    <2>5. stage' \in {"claiming", "idle"} /\ (stage' # "idle" => batch' > 0)
      BY <1>8, <2>1 DEF MoveToTerminal, NextOfListing
    <2>6. QED
      BY <1>h, <1>8, <2>1, <2>3, <2>4, <2>5 DEF MoveToTerminal
  <1>9. CASE MoveToDone \/ MoveToFailed
    BY <1>8, <1>9 DEF MoveToDone, MoveToFailed
  <1>10. QED
    BY <1>1, <1>2, <1>3, <1>4, <1>5, <1>6, <1>7, <1>9 DEF Consume

LEMMA PollOperatorHand == TypeInv /\ (Poll \/ Operator) => HandInv'
  <1> SUFFICES ASSUME TypeInv, Poll \/ Operator PROVE HandInv'
    OBVIOUS
  <1>h. HandInv
    BY DEF TypeInv
  <1>1. UNCHANGED <<processing, manager, consumerVars>>
    BY DEF Poll, PollProbe, PollReady, PollAcceptance, PollWrite, Operator, Trigger, TriggerWrite, queueVars
  <1>2. QED
    BY <1>h, <1>1 DEF HandInv, Up, consumerVars

LEMMA InitTypeInv == Init => TypeInv
  <1> SUFFICES ASSUME Init PROVE TypeInv
    OBVIOUS
  <1>1. epicStatus \in [Epics -> EpicStatus] /\ message \in Message
    BY DEF Init, EpicStatus, NoMessage, Message, EventType, EpicId
  <1>2. budget \in [{"failures", "reworks", "stops", "triggers"} -> Nat]
    BY BoundsAssumption DEF Init
  <1>3. intent \in [Enqueuer -> SUBSET Intent]
    BY DEF Init
  <1>4. pending \in [Agents -> Seq(Message)] /\ processing \in [Agents -> Seq(Message)]
    BY DEF Init
  <1>5. TypeOK
    BY <1>1, <1>2, <1>3, <1>4 DEF Init, TypeOK, Phase, Stage
  <1>6. HandInv
    BY DEF Init, HandInv, Up
  <1>7. QED
    BY <1>5, <1>6 DEF TypeInv

LEMMA TypeInvStep == TypeInv /\ [Next]_vars => TypeInv'
  <1> SUFFICES ASSUME TypeInv, [Next]_vars PROVE TypeInv'
    OBVIOUS
  <1>1. CASE Next
    BY <1>1, StartType, StopType, ConsumeType, PollType, OperatorType,
       StartHand, StopHand, ConsumeHand, PollOperatorHand DEF Next, TypeInv
  <1>2. CASE UNCHANGED vars
    BY <1>2 DEF vars, queueVars, consumerVars, TypeInv, TypeOK, HandInv, Up
  <1>3. QED
    BY <1>1, <1>2

\* Every variable keeps its type, whatever the configuration.
THEOREM TypeCorrect == Spec => []TypeOK
  <1>1. TypeInv => TypeOK
    BY DEF TypeInv
  <1>2. QED
    BY <1>1, InitTypeInv, TypeInvStep, PTL DEF Spec

\* A file being handled is always in its agent's processing directory, alone, so that the
\* next start finds it there (recoverStaleQueueProcessingFiles).
THEOREM InHandIsOnDisk == Spec => []InHandOnDisk
  <1>1. TypeInv => InHandOnDisk
    BY DEF TypeInv, HandInv, InHandOnDisk, Up
  <1>2. QED
    BY <1>1, InitTypeInv, TypeInvStep, PTL DEF Spec

--------------------------------------------------------------------------------
(* The pipeline implements the gate. *)

FullInv == TypeInv /\ ClaimHeld

\* Nothing but the claim, the run and the preflight touches a status.
LEMMA StatusFrame ==
    TypeInv /\ [Next]_vars =>
        \/ Preflight \/ PrepareDispatch \/ Run
        \/ UNCHANGED epicStatus /\ (UNCHANGED <<stage, message>> \/ stage' # "dispatching")
  <1> SUFFICES ASSUME TypeInv, [Next]_vars,
                      ~Preflight, ~PrepareDispatch, ~Run
               PROVE  UNCHANGED epicStatus /\ (UNCHANGED <<stage, message>> \/ stage' # "dispatching")
    OBVIOUS
  <1> USE DEF queueVars, consumerVars
  <1>1. CASE Start
    BY <1>1 DEF Start, RecoverStaleQueueProcessingFiles, BringUp, AutoRecover, AutoRecoverWrite, Serve
  <1>2. CASE Stop
    BY <1>2 DEF Stop, Crash, Signal, DownSaved, Exit, ProcessEnds
  <1>3. CASE Consume
    <2>1. CASE BeginPass
      BY <2>1 DEF BeginPass
    <2>2. CASE Visit
      BY <2>2 DEF Visit
    <2>3. CASE ClaimFile
      BY <2>3 DEF ClaimFile
    <2>4. CASE EmitFollowUp
      BY <2>4 DEF EmitFollowUp
    <2>5. CASE EmitWrite
      BY <2>5 DEF EmitWrite
    <2>6. CASE MoveToDone \/ MoveToFailed
      BY <2>6 DEF MoveToDone, MoveToFailed, MoveToTerminal, NextOfListing
    <2>7. QED
      BY <1>3, <2>1, <2>2, <2>3, <2>4, <2>5, <2>6 DEF Consume
  <1>4. CASE Poll
    BY <1>4 DEF Poll, PollProbe, PollReady, PollAcceptance, PollWrite
  <1>5. CASE Operator
    BY <1>5 DEF Operator, Trigger, TriggerWrite
  <1>6. CASE UNCHANGED vars
    BY <1>6 DEF vars
  <1>7. QED
    BY <1>1, <1>2, <1>3, <1>4, <1>5, <1>6 DEF Next

\* The claim: the message's epic enters the gate, or the message is dropped.
LEMMA PrepareGate ==
    TypeInv /\ PrepareDispatch => [Gate!GateNext]_epicStatus /\ ClaimHeld'
  <1> SUFFICES ASSUME TypeInv, PrepareDispatch PROVE [Gate!GateNext]_epicStatus /\ ClaimHeld'
    OBVIOUS
  <1>t. epicStatus \in [Epics -> EpicStatus] /\ message \in Message
    BY DEF TypeInv, TypeOK
  <1>1. UNCHANGED message
    BY DEF PrepareDispatch
  <1>2. CASE IsClaim /\ CanClaim(message.epicId)
    <2>1. message.epicId \in Epics
      BY <1>t, <1>2 DEF IsClaim, Message, EpicId
    <2>2. epicStatus' = [epicStatus EXCEPT ![message.epicId] = "in-progress"]
      BY <1>2 DEF PrepareDispatch, Claim
    <2>3. Gate!Enter(message.epicId)
      BY <1>2, <2>1, <2>2
         DEF CanClaim, HasActiveOrReviewingEpic, ReadyEpics, IsVisible, Gate!Enter,
             Gate!GateFree, Gate!GateVisible, ReadyStatus, ActiveStatus,
             Gate!ReadyStatus, Gate!ActiveStatus
    <2>4. Gate!GateNext
      BY <2>1, <2>3 DEF Gate!GateNext
    <2>5. ClaimHeld'
      BY <1>t, <1>1, <2>1, <2>2 DEF ClaimHeld
    <2>6. QED
      BY <2>4, <2>5
  <1>3. CASE ~(IsClaim /\ CanClaim(message.epicId))
    <2>1. UNCHANGED epicStatus
      BY <1>3 DEF PrepareDispatch
    <2>2. stage' = "dispatching" => ~IsClaim
      BY <1>3 DEF PrepareDispatch
    <2>3. ClaimHeld'
      BY <1>1, <2>2 DEF ClaimHeld, IsClaim
    <2>4. QED
      BY <2>1, <2>3
  <1>4. QED
    BY <1>2, <1>3

\* Finalizing is forced, but the epic it overwrites is the one its own claim put in progress.
LEMMA FinalizeGate ==
    ASSUME FullInv, NEW failed \in BOOLEAN, stage = "dispatching", FinalizeEpic(failed)
    PROVE  [Gate!GateNext]_epicStatus
  <1>t. epicStatus \in [Epics -> EpicStatus] /\ message \in Message
    BY DEF FullInv, TypeInv, TypeOK
  <1>1. CASE ~IsClaim
    BY <1>1 DEF FinalizeEpic
  <1>2. CASE IsClaim
    <2>1. message.epicId \in Epics
      BY <1>t, <1>2 DEF IsClaim, Message, EpicId
    <2>2. epicStatus[message.epicId] = "in-progress"
      BY <1>2 DEF FullInv, ClaimHeld
    <2>3. CASE failed
      <3>1. Gate!GiveUp(message.epicId)
        BY <1>2, <2>2, <2>3 DEF FinalizeEpic, Gate!GiveUp
      <3>2. QED
        BY <2>1, <3>1 DEF Gate!GateNext
    <2>4. CASE ~failed /\ message.type = EpicFrontendReady
      BY <1>t, <1>2, <2>1, <2>2, <2>4 DEF FinalizeEpic
    <2>5. CASE ~failed /\ message.type # EpicFrontendReady
      <3>1. Gate!Submit(message.epicId)
        BY <1>2, <2>2, <2>5 DEF FinalizeEpic, Gate!Submit
      <3>2. QED
        BY <2>1, <3>1 DEF Gate!GateNext
    <2>6. QED
      BY <2>3, <2>4, <2>5
  <1>3. QED
    BY <1>1, <1>2

\* A reviewer's decision, which the tool does not force, is a step of the gate.
LEMMA DecideGate == TypeInv /\ ReviewerDecides => [Gate!GateNext]_epicStatus /\ ClaimHeld'
  <1> SUFFICES ASSUME TypeInv, ReviewerDecides PROVE [Gate!GateNext]_epicStatus /\ ClaimHeld'
    OBVIOUS
  <1>t. epicStatus \in [Epics -> EpicStatus] /\ message \in Message
    BY DEF TypeInv, TypeOK
  <1>1. PICK verdict \in Verdicts(message.epicId) :
            epicStatus' = [epicStatus EXCEPT ![message.epicId] = verdict]
    BY DEF ReviewerDecides
  <1>2. message.epicId \in Epics
    BY <1>t DEF ReviewerDecides, CanRun, EpicEvent, Message, EpicId
  <1>3. verdict \in {"done", "changes-requested"} /\ ValidTransition(epicStatus[message.epicId], verdict)
    BY <1>1 DEF Verdicts
  <1>4. \/ epicStatus[message.epicId] = verdict
        \/ epicStatus[message.epicId] = "in-review"
        \/ epicStatus[message.epicId] = "failed" /\ verdict = "changes-requested"
    BY <1>t, <1>2, <1>3 DEF ValidTransition, EpicTransition, EpicStatus
  <1>5. [Gate!GateNext]_epicStatus
    <2>1. CASE epicStatus[message.epicId] = verdict
      BY <1>t, <1>1, <1>2, <2>1
    <2>2. CASE epicStatus[message.epicId] = "in-review"
      BY <1>1, <1>2, <1>3, <2>2 DEF Gate!GateNext, Gate!Decide
    <2>3. CASE epicStatus[message.epicId] = "failed" /\ verdict = "changes-requested"
      BY <1>1, <1>2, <2>3 DEF Gate!GateNext, Gate!SendBack
    <2>4. QED
      BY <1>4, <2>1, <2>2, <2>3
  <1>6. ~IsClaim /\ UNCHANGED message
    BY DEF ReviewerDecides, IsClaim, ImplementationEvent, EpicReviewReady, EpicReady, EpicFrontendReady
  <1>7. QED
    BY <1>5, <1>6 DEF ClaimHeld, IsClaim

\* Every step of the pipeline is a step of the gate or leaves the statuses alone, and the
\* claim in hand survives it.
LEMMA GateStep == FullInv /\ [Next]_vars => [Gate!GateNext]_epicStatus /\ ClaimHeld'
  <1> SUFFICES ASSUME FullInv, [Next]_vars PROVE [Gate!GateNext]_epicStatus /\ ClaimHeld'
    OBVIOUS
  <1>1. CASE Preflight
    <2>1. [Gate!GateNext]_epicStatus
      BY <1>1 DEF Preflight, ResetInProgressToTodo, Gate!GateNext, Gate!PutBack
    <2>2. stage' = "idle"
      BY <1>1 DEF Preflight, consumerVars, FullInv, TypeInv, HandInv, Up
    <2>3. QED
      BY <2>1, <2>2 DEF ClaimHeld
  <1>2. CASE PrepareDispatch
    BY <1>2, PrepareGate DEF FullInv
  <1>3. CASE ReviewerDecides
    BY <1>3, DecideGate DEF FullInv
  <1>4. CASE GatekeeperRecords
    BY <1>4 DEF GatekeeperRecords, FullInv, ClaimHeld, IsClaim
  <1>5. CASE DispatchSucceeds
    <2>1. stage' # "dispatching"
      BY <1>5 DEF DispatchSucceeds
    <2>2. QED
      BY <1>5, <2>1, FinalizeGate DEF DispatchSucceeds, ClaimHeld
  <1>6. CASE DispatchFails
    <2>1. stage' # "dispatching"
      BY <1>6 DEF DispatchFails
    <2>2. QED
      BY <1>6, <2>1, FinalizeGate DEF DispatchFails, ClaimHeld
  <1>7. CASE UNCHANGED epicStatus /\ (UNCHANGED <<stage, message>> \/ stage' # "dispatching")
    BY <1>7 DEF FullInv, ClaimHeld, IsClaim
  <1>8. QED
    BY <1>1, <1>2, <1>3, <1>4, <1>5, <1>6, <1>7, StatusFrame DEF Run, FullInv

LEMMA FullInvStep == FullInv /\ [Next]_vars => FullInv'
  BY GateStep, TypeInvStep DEF FullInv

LEMMA InitFullInv == Init => FullInv
  <1>1. Init => ClaimHeld
    BY DEF Init, ClaimHeld
  <1>2. QED
    BY <1>1, InitTypeInv DEF FullInv

\* An implementation run's epic stays the one in progress until the run is finalized.
THEOREM ClaimIsHeld == Spec => []ClaimHeld
  <1>1. FullInv => ClaimHeld
    BY DEF FullInv
  <1>2. QED
    BY <1>1, InitFullInv, FullInvStep, PTL DEF Spec

\* The pipeline implements the gate: forced finalization, recovery, crashes and manual
\* triggers never move a status the gate would not move.
THEOREM PipelineImplementsGate == Spec => GateRefined
  <1>1. Init => Gate!GateInit
    BY DEF Init, Gate!GateInit
  <1>2. QED
    BY <1>1, InitFullInv, FullInvStep, GateStep, PTL DEF Spec, GateRefined, Gate!GateSpec

--------------------------------------------------------------------------------
(* The abstract gate keeps the promise it is named for, for every set of epics. *)

\* Type correctness of the gate, carried along by every step.
LEMMA GateTypeStep == Gate!GateTypeOK /\ [Gate!GateNext]_epicStatus => Gate!GateTypeOK'
  <1> SUFFICES ASSUME Gate!GateTypeOK, [Gate!GateNext]_epicStatus PROVE Gate!GateTypeOK'
    OBVIOUS
  <1> USE DEF Gate!GateTypeOK, Gate!EpicStatus
  <1>1. ASSUME NEW e \in Epics, Gate!Enter(e) PROVE Gate!GateTypeOK'
    BY <1>1 DEF Gate!Enter
  <1>2. ASSUME NEW e \in Epics, Gate!Submit(e) PROVE Gate!GateTypeOK'
    BY <1>2 DEF Gate!Submit
  <1>3. ASSUME NEW e \in Epics, Gate!GiveUp(e) PROVE Gate!GateTypeOK'
    BY <1>3 DEF Gate!GiveUp
  <1>4. ASSUME NEW e \in Epics, Gate!Decide(e) PROVE Gate!GateTypeOK'
    BY <1>4 DEF Gate!Decide
  <1>5. ASSUME NEW e \in Epics, Gate!SendBack(e) PROVE Gate!GateTypeOK'
    BY <1>5 DEF Gate!SendBack
  <1>6. CASE Gate!PutBack
    BY <1>6 DEF Gate!PutBack
  <1>7. CASE UNCHANGED epicStatus
    BY <1>7
  <1>8. QED
    BY <1>1, <1>2, <1>3, <1>4, <1>5, <1>6, <1>7 DEF Gate!GateNext

\* No step lets a second epic in: only Enter makes an epic active, and only a free gate.
LEMMA GateExclusiveStep ==
    Gate!GateTypeOK /\ Gate!GateExclusive /\ [Gate!GateNext]_epicStatus => Gate!GateExclusive'
  <1> SUFFICES ASSUME Gate!GateTypeOK, Gate!GateExclusive, [Gate!GateNext]_epicStatus
               PROVE  Gate!GateExclusive'
    OBVIOUS
  <1> USE DEF Gate!GateTypeOK, Gate!GateExclusive, Gate!ActiveStatus
  <1>1. ASSUME NEW e \in Epics, Gate!Enter(e) PROVE Gate!GateExclusive'
    BY <1>1 DEF Gate!Enter, Gate!GateFree
  <1>2. ASSUME NEW e \in Epics, Gate!Submit(e) PROVE Gate!GateExclusive'
    BY <1>2 DEF Gate!Submit
  <1>3. ASSUME NEW e \in Epics, Gate!GiveUp(e) PROVE Gate!GateExclusive'
    BY <1>3 DEF Gate!GiveUp
  <1>4. ASSUME NEW e \in Epics, Gate!Decide(e) PROVE Gate!GateExclusive'
    BY <1>4 DEF Gate!Decide
  <1>5. ASSUME NEW e \in Epics, Gate!SendBack(e) PROVE Gate!GateExclusive'
    BY <1>5 DEF Gate!SendBack
  <1>6. CASE Gate!PutBack
    BY <1>6 DEF Gate!PutBack
  <1>7. CASE UNCHANGED epicStatus
    BY <1>7
  <1>8. QED
    BY <1>1, <1>2, <1>3, <1>4, <1>5, <1>6, <1>7 DEF Gate!GateNext

\* At most one epic is implemented or reviewed at any time (claimEpicForImplementation's gate).
THEOREM GateIsExclusive == Gate!GateSpec => []Gate!GateExclusive
  <1>1. Gate!GateInit => Gate!GateTypeOK /\ Gate!GateExclusive
    BY DEF Gate!GateInit, Gate!GateTypeOK, Gate!GateExclusive, Gate!EpicStatus, Gate!ActiveStatus
  <1>2. QED
    BY <1>1, GateTypeStep, GateExclusiveStep, PTL DEF Gate!GateSpec

\* The same of the pipeline's statuses.
LEMMA SerializedStep == TypeOK /\ Serialized /\ [Gate!GateNext]_epicStatus => Serialized'
  <1>1. TypeOK => Gate!GateTypeOK
    BY DEF TypeOK, Gate!GateTypeOK, EpicStatus, Gate!EpicStatus
  <1>2. QED
    BY <1>1, GateExclusiveStep DEF Serialized

\* Implementation is serialized around the review gate, for every number of epics and agents
\* and every schedule: what claimEpicForImplementation's comment asks for.
THEOREM ImplementationSerialized == Spec => []Serialized
  <1>1. Init => Serialized
    BY DEF Init, Serialized, Gate!GateExclusive, Gate!ActiveStatus
  <1>2. FullInv /\ Serialized /\ [Next]_vars => Serialized'
    BY GateStep, SerializedStep DEF FullInv, TypeInv
  <1>3. QED
    BY <1>1, <1>2, InitFullInv, FullInvStep, PTL DEF Spec
================================================================================
