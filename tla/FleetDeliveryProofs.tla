-------------------------- MODULE FleetDeliveryProofs --------------------------
(***************************************************************************)
(* How the fleet carries its epics, for every set of epics and agents.     *)
(* Without events triggered by hand no agent ever has two events of a kind *)
(* on file, over every crash, shutdown and failed delivery.  No step       *)
(* forgets an epic in review, whatever happens, except in the ways         *)
(* HandoffHeld names.  Without stops, failed reviews and frontend stages   *)
(* there is no exception, and the reviewer sees only polished epics it can *)
(* decide on.                                                              *)
(***************************************************************************)
EXTENDS FleetPipelineProofs

--------------------------------------------------------------------------------
(* Queue directories as sequences of messages. *)

\* No two files of one directory hold events of one type.
Distinct(files) == \A i, j \in DOMAIN files : files[i].type = files[j].type => i = j

LEMMA AppendFiles ==
    ASSUME NEW s \in Seq(Message), NEW m \in Message
    PROVE  /\ Append(s, m) \in Seq(Message)
           /\ Files(Append(s, m)) = Files(s) \cup {m}
  <1>1. /\ Append(s, m) \in Seq(Message)
        /\ DOMAIN Append(s, m) = 1 .. Len(s) + 1 /\ DOMAIN s = 1 .. Len(s) /\ Len(s) \in Nat
        /\ \A i \in 1 .. Len(s) : Append(s, m)[i] = s[i]
        /\ Append(s, m)[Len(s) + 1] = m
    OBVIOUS
  <1>2. QED
    BY <1>1 DEF Files

LEMMA ConcatFiles ==
    ASSUME NEW s \in Seq(Message), NEW t \in Seq(Message)
    PROVE  /\ s \o t \in Seq(Message)
           /\ Files(s \o t) = Files(s) \cup Files(t)
  <1>1. /\ s \o t \in Seq(Message)
        /\ DOMAIN (s \o t) = 1 .. Len(s) + Len(t) /\ Len(s) \in Nat /\ Len(t) \in Nat
        /\ DOMAIN s = 1 .. Len(s) /\ DOMAIN t = 1 .. Len(t)
        /\ \A i \in 1 .. Len(s) : (s \o t)[i] = s[i]
        /\ \A i \in 1 .. Len(t) : (s \o t)[Len(s) + i] = t[i]
    OBVIOUS
  <1>2. \A i \in 1 .. Len(s) + Len(t) : i \in 1 .. Len(s) \/ (i - Len(s) \in 1 .. Len(t) /\ i = Len(s) + (i - Len(s)))
    BY <1>1
  <1>3. \A i \in 1 .. Len(t) : Len(s) + i \in 1 .. Len(s) + Len(t)
    BY <1>1
  <1>4. \A i \in 1 .. Len(s) : i \in 1 .. Len(s) + Len(t)
    BY <1>1
  <1>5. Files(s \o t) \subseteq Files(s) \cup Files(t)
    BY <1>1, <1>2 DEF Files
  <1>6. Files(s) \cup Files(t) \subseteq Files(s \o t)
    BY <1>1, <1>3, <1>4 DEF Files
  <1>7. QED
    BY <1>1, <1>5, <1>6

LEMMA ConcatAppend ==
    ASSUME NEW s \in Seq(Message), NEW t \in Seq(Message), NEW m \in Message
    PROVE  s \o Append(t, m) = Append(s \o t, m)
OBVIOUS

LEMMA TailFiles ==
    ASSUME NEW s \in Seq(Message), s # <<>>
    PROVE  /\ Head(s) \in Message /\ Tail(s) \in Seq(Message)
           /\ s = <<Head(s)>> \o Tail(s)
           /\ Files(s) = {Head(s)} \cup Files(Tail(s))
  <1>1. Head(s) \in Message /\ Tail(s) \in Seq(Message) /\ <<Head(s)>> \in Seq(Message)
    OBVIOUS
  <1>2. s = <<Head(s)>> \o Tail(s)
    OBVIOUS
  <1>3. Files(<<Head(s)>>) = {Head(s)}
    BY DEF Files
  <1>4. QED
    BY <1>1, <1>2, <1>3, ConcatFiles

LEMMA DistinctAppend ==
    ASSUME NEW s \in Seq(Message), NEW m \in Message, Distinct(s), \A x \in Files(s) : x.type # m.type
    PROVE  Distinct(Append(s, m))
  <1>1. /\ DOMAIN Append(s, m) = 1 .. Len(s) + 1 /\ DOMAIN s = 1 .. Len(s) /\ Len(s) \in Nat
        /\ \A i \in 1 .. Len(s) : Append(s, m)[i] = s[i]
        /\ Append(s, m)[Len(s) + 1] = m
    OBVIOUS
  <1>2. \A i \in 1 .. Len(s) : s[i].type # m.type
    BY <1>1 DEF Files
  <1>3. \A i \in 1 .. Len(s) + 1 : i \in 1 .. Len(s) \/ i = Len(s) + 1
    BY <1>1
  <1>4. QED
    BY <1>1, <1>2, <1>3 DEF Distinct

LEMMA DistinctTail ==
    ASSUME NEW m \in Message, NEW s \in Seq(Message), Distinct(<<m>> \o s)
    PROVE  /\ Distinct(s)
           /\ \A x \in Files(s) : x.type # m.type
  <1>1. /\ DOMAIN (<<m>> \o s) = 1 .. Len(s) + 1 /\ DOMAIN s = 1 .. Len(s) /\ Len(s) \in Nat
        /\ (<<m>> \o s)[1] = m
        /\ \A i \in 1 .. Len(s) : (<<m>> \o s)[i + 1] = s[i]
    OBVIOUS
  <1>2. \A i \in 1 .. Len(s) : i + 1 \in 1 .. Len(s) + 1 /\ i + 1 # 1 /\ 1 \in 1 .. Len(s) + 1
    BY <1>1
  <1>3. ASSUME NEW i \in 1 .. Len(s), NEW j \in 1 .. Len(s), s[i].type = s[j].type PROVE i = j
    <2>1. i + 1 \in DOMAIN (<<m>> \o s) /\ j + 1 \in DOMAIN (<<m>> \o s)
      BY <1>1, <1>2
    <2>2. (<<m>> \o s)[i + 1].type = (<<m>> \o s)[j + 1].type
      BY <1>1, <1>3
    <2>3. i + 1 = j + 1
      BY <2>1, <2>2 DEF Distinct
    <2>4. QED
      BY <1>1, <2>3
  <1>4. ASSUME NEW i \in 1 .. Len(s) PROVE s[i].type # m.type
    <2>1. i + 1 \in DOMAIN (<<m>> \o s) /\ 1 \in DOMAIN (<<m>> \o s) /\ i + 1 # 1
      BY <1>1, <1>2
    <2>2. (<<m>> \o s)[i + 1] = s[i] /\ (<<m>> \o s)[1] = m
      BY <1>1
    <2>3. QED
      BY <2>1, <2>2 DEF Distinct
  <1>5. QED
    BY <1>1, <1>3, <1>4 DEF Distinct, Files

--------------------------------------------------------------------------------
(* The two halves of enqueueToRunningAgents. *)

\* The first decides on one file at most, for an agent with no event of its type in flight.
LEMMA DecideOne ==
    ASSUME TypeOK, NEW p \in Enqueuer, NEW type \in EventType, NEW epicId \in EpicId,
           DecideEnqueue(p, type, epicId)
    PROVE  \E S \in SUBSET Intent :
               /\ intent' = [intent EXCEPT ![p] = S]
               /\ \A i, j \in S : i = j
               /\ \A i \in S : /\ ~HasInFlightEvent(i.agent, i.type)
                               /\ type # EpicReady => i.type = type /\ i.epicId = epicId
                               /\ type = EpicReady => i.type \in {EpicReady, EpicFrontendReady}
  <1>1. PICK event \in ResolveQueueEvent(type, epicId) :
            intent' = [intent EXCEPT ![p] =
                {[agent |-> a, type |-> event.type, epicId |-> event.epicId] :
                    a \in ResolveTargetAgents(event.type)}]
    BY DEF DecideEnqueue
  <1> DEFINE S == {[agent |-> a, type |-> event.type, epicId |-> event.epicId] :
                       a \in ResolveTargetAgents(event.type)}
  <1>2. /\ event \in [type : EventType, epicId : EpicId]
        /\ type # EpicReady => event.type = type /\ event.epicId = epicId
        /\ type = EpicReady => event.type \in {EpicReady, EpicFrontendReady}
    BY ResolveType DEF ResolveQueueEvent
  <1>3. /\ ResolveTargetAgents(event.type) \subseteq Agents
        /\ \A a, b \in ResolveTargetAgents(event.type) : a <= b /\ b <= a
        /\ \A a \in ResolveTargetAgents(event.type) : ~HasInFlightEvent(a, event.type)
    BY DEF ResolveTargetAgents, FirstRunningAgent, Foremost, TypeOK
  <1>4. ASSUME NEW a \in ResolveTargetAgents(event.type), NEW b \in ResolveTargetAgents(event.type) PROVE a = b
    <2>1. a \in Nat /\ b \in Nat
      BY <1>3, AgentsAssumption
    <2>2. a <= b /\ b <= a
      BY <1>3
    <2>3. QED
      BY <2>1, <2>2
  <1>5. S \in SUBSET Intent
    BY <1>2, <1>3 DEF Intent
  <1>6. \A i \in S : i.agent \in ResolveTargetAgents(event.type) /\ i.type = event.type /\ i.epicId = event.epicId
    OBVIOUS
  <1>7. \A i, j \in S : i = j
    BY <1>4
  <1>8. QED
    BY <1>1, <1>2, <1>3, <1>5, <1>6, <1>7

\* The second appends the file that was decided on, and forgets it.
LEMMA WriteOne ==
    ASSUME TypeOK, NEW p \in Enqueuer, WriteQueueFile(p)
    PROVE  \E i \in intent[p], m \in Message :
               /\ i.agent \in Agents /\ m.type = i.type /\ m.epicId = i.epicId
               /\ pending' = [pending EXCEPT ![i.agent] = Append(@, m)]
               /\ intent' = [intent EXCEPT ![p] = @ \ {i}]
  <1>1. PICK i \in intent[p] :
            /\ pending' = [pending EXCEPT ![i.agent] = Append(@,
                   [type |-> i.type, epicId |-> i.epicId,
                    createdAt |-> IF i.type \in ReviewStageEvent THEN clock ELSE 0])]
            /\ intent' = [intent EXCEPT ![p] = @ \ {i}]
    BY DEF WriteQueueFile
  <1> DEFINE m == [type |-> i.type, epicId |-> i.epicId,
                   createdAt |-> IF i.type \in ReviewStageEvent THEN clock ELSE 0]
  <1>2. i \in Intent
    BY <1>1 DEF TypeOK
  <1>3. m \in Message /\ m.type = i.type /\ m.epicId = i.epicId /\ i.agent \in Agents
    BY <1>2 DEF TypeOK, Intent, Message
  <1>4. QED
    BY <1>1, <1>3

--------------------------------------------------------------------------------
(* Without hand triggers no agent has two events of a kind. *)

PollerEvent   == {EpicReady, EpicFrontendReady, AcceptanceRequired}
FollowUpEvent == {EpicFrontendDone, EpicPolishReady, EpicReviewReady}

\* The enqueuers that may be half-way at once write events of different types: the operator writes
\* none, the poller what the consume loop never follows up with.
Lanes ==
    /\ intent["operator"] = {}
    /\ \A i \in intent["poller"] : i.type \in PollerEvent
    /\ ~Up => intent["poller"] = {}
    /\ Up => \A i \in intent["manager"] : i.type \in FollowUpEvent
    /\ Up /\ stage # "enqueuing" => intent["manager"] = {}

\* What has been decided is one file, whose type its agent has not in flight yet.
DecidedOnce ==
    \A p \in Enqueuer : \A i \in intent[p] : /\ ~HasInFlightEvent(i.agent, i.type)
                                             /\ \A j \in intent[p] : i = j

LaneInv == TypeInv /\ OneInFlight /\ Lanes /\ DecidedOnce

\* An agent's files, in hand or waiting.
OnFile(a) == processing[a] \o pending[a]

LEMMA InFlightOnFile ==
    ASSUME TypeOK, NEW a \in Agents, NEW type
    PROVE  HasInFlightEvent(a, type) <=> \E m \in Files(OnFile(a)) : m.type = type
  BY ConcatFiles DEF TypeOK, OnFile, HasInFlightEvent

LEMMA OneInFlightDistinct == OneInFlight <=> \A a \in Agents : Distinct(OnFile(a))
  BY DEF OneInFlight, Distinct, OnFile

\* Steps that leave every agent's files together as they are, or take some away.
LEMMA FewerFiles ==
    ASSUME LaneInv, TypeOK', intent' = intent,
           \A a \in Agents : \/ OnFile(a)' = OnFile(a)
                             \/ \E m \in Message, s \in Seq(Message) : OnFile(a) = <<m>> \o s /\ OnFile(a)' = s
    PROVE  OneInFlight' /\ DecidedOnce'
  <1>1. \A a \in Agents : Distinct(OnFile(a))
    BY OneInFlightDistinct DEF LaneInv
  <1>2. ASSUME NEW a \in Agents PROVE Distinct(OnFile(a)') /\ Files(OnFile(a)') \subseteq Files(OnFile(a))
    <2>1. CASE OnFile(a)' = OnFile(a)
      BY <1>1, <2>1
    <2>2. ASSUME NEW m \in Message, NEW s \in Seq(Message), OnFile(a) = <<m>> \o s, OnFile(a)' = s
          PROVE  Distinct(OnFile(a)') /\ Files(OnFile(a)') \subseteq Files(OnFile(a))
      <3>1. Distinct(<<m>> \o s)
        BY <1>1, <2>2
      <3>2. <<m>> \in Seq(Message)
        OBVIOUS
      <3>3. Distinct(s)
        BY <3>1, DistinctTail
      <3>4. Files(<<m>> \o s) = Files(<<m>>) \cup Files(s)
        BY <3>2, ConcatFiles
      <3>5. QED
        BY <2>2, <3>3, <3>4
    <2>3. QED
      BY <2>1, <2>2
  <1>3. OneInFlight'
    <2>1. (\A a \in Agents : Distinct(OnFile(a)))'
      BY <1>2 DEF Distinct
    <2>2. QED
      BY <2>1 DEF OneInFlight, Distinct, OnFile
  <1>4. ASSUME NEW a \in Agents, NEW type, HasInFlightEvent(a, type)' PROVE HasInFlightEvent(a, type)
    <2>1. processing'[a] \in Seq(Message) /\ pending'[a] \in Seq(Message)
      BY DEF TypeOK
    <2>2. Files(OnFile(a)') = Files(processing'[a]) \cup Files(pending'[a])
      BY <2>1, ConcatFiles DEF OnFile
    <2>3. \E m \in Files(OnFile(a)') : m.type = type
      BY <1>4, <2>2 DEF HasInFlightEvent, Files
    <2>4. QED
      BY <1>2, <2>3, InFlightOnFile DEF LaneInv, TypeInv
  <1>5. \A p \in Enqueuer : \A i \in intent[p] : i.agent \in Agents
    BY DEF LaneInv, TypeInv, TypeOK, Intent
  <1>6. DecidedOnce'
    BY <1>4, <1>5 DEF DecidedOnce, LaneInv
  <1>7. QED
    BY <1>3, <1>6

\* Deciding looks at what is in flight, and at nothing another enqueuer has only decided.
LEMMA DecideKeeps ==
    ASSUME LaneInv, NEW p \in Enqueuer, NEW type \in EventType, NEW epicId \in EpicId,
           DecideEnqueue(p, type, epicId), UNCHANGED <<pending, processing>>
    PROVE  OneInFlight' /\ DecidedOnce'
  <1>t. TypeOK
    BY DEF LaneInv, TypeInv
  <1>1. PICK S \in SUBSET Intent :
            /\ intent' = [intent EXCEPT ![p] = S]
            /\ \A i, j \in S : i = j
            /\ \A i \in S : ~HasInFlightEvent(i.agent, i.type)
    BY <1>t, DecideOne
  <1>2. \A q \in Enqueuer : intent'[q] = IF q = p THEN S ELSE intent[q]
    BY <1>t, <1>1 DEF TypeOK
  <1>3. DecidedOnce'
    BY <1>1, <1>2 DEF LaneInv, DecidedOnce, HasInFlightEvent
  <1>4. OneInFlight'
    BY DEF LaneInv, OneInFlight
  <1>5. QED
    BY <1>3, <1>4

\* Nobody else has decided on an event of the written type meanwhile.
LEMMA WriteKeeps ==
    ASSUME LaneInv, TypeOK', NEW p \in Enqueuer, WriteQueueFile(p), processing' = processing
    PROVE  /\ OneInFlight' /\ DecidedOnce'
           /\ intent' = [intent EXCEPT ![p] = {}]
  <1>t. TypeOK
    BY DEF LaneInv, TypeInv
  <1>1. PICK i \in intent[p], m \in Message :
            /\ i.agent \in Agents /\ m.type = i.type
            /\ pending' = [pending EXCEPT ![i.agent] = Append(@, m)]
            /\ intent' = [intent EXCEPT ![p] = @ \ {i}]
    BY <1>t, WriteOne
  <1>2. intent[p] = {i}
    BY <1>1 DEF LaneInv, DecidedOnce
  <1>3. intent' = [intent EXCEPT ![p] = {}]
    BY <1>1, <1>2
  <1>4. \A a \in Agents : processing[a] \in Seq(Message) /\ pending[a] \in Seq(Message)
    BY <1>t DEF TypeOK
  <1>5. \A a \in Agents : pending'[a] = IF a = i.agent THEN Append(pending[a], m) ELSE pending[a]
    BY <1>t, <1>1 DEF TypeOK
  <1>6. \A a \in Agents : Distinct(OnFile(a))
    BY OneInFlightDistinct DEF LaneInv
  <1>7. Distinct(OnFile(i.agent)')
    <2>1. OnFile(i.agent)' = Append(OnFile(i.agent), m)
      <3>1. processing[i.agent] \o Append(pending[i.agent], m) = Append(processing[i.agent] \o pending[i.agent], m)
        BY <1>1, <1>4, ConcatAppend
      <3>2. processing'[i.agent] = processing[i.agent] /\ pending'[i.agent] = Append(pending[i.agent], m)
        BY <1>1, <1>5
      <3>3. QED
        BY <3>1, <3>2 DEF OnFile
    <2>2. \A x \in Files(OnFile(i.agent)) : x.type # m.type
      BY <1>t, <1>1, InFlightOnFile DEF LaneInv, DecidedOnce
    <2>3. OnFile(i.agent) \in Seq(Message)
      BY <1>1, <1>4, ConcatFiles DEF OnFile
    <2>4. QED
      BY <1>1, <1>6, <2>1, <2>2, <2>3, DistinctAppend
  <1>8. OneInFlight'
    <2>1. \A a \in Agents : Distinct(OnFile(a)')
      BY <1>5, <1>6, <1>7 DEF OnFile
    <2>2. QED
      BY <2>1 DEF OneInFlight, Distinct, OnFile
  <1>9. ASSUME NEW q \in Enqueuer, NEW j \in intent'[q]
        PROVE  ~HasInFlightEvent(j.agent, j.type)' /\ \A k \in intent'[q] : j = k
    <2>1. q # p /\ intent'[q] = intent[q]
      BY <1>t, <1>3, <1>9 DEF TypeOK
    <2>2. j.type # m.type
      <3>1. PollerEvent \cap FollowUpEvent = {}
        BY DEF PollerEvent, FollowUpEvent, EpicReady, EpicFrontendReady, EpicFrontendDone,
               EpicPolishReady, EpicReviewReady, AcceptanceRequired
      <3>2. {p, q} = {"poller", "manager"} /\ i \in intent[p] /\ j \in intent[q]
        BY <1>1, <1>9, <2>1 DEF LaneInv, Lanes, Enqueuer
      <3>3. Up
        BY <3>2 DEF LaneInv, Lanes
      <3>4. \/ i.type \in PollerEvent /\ j.type \in FollowUpEvent
            \/ j.type \in PollerEvent /\ i.type \in FollowUpEvent
        BY <3>2, <3>3 DEF LaneInv, Lanes
      <3>5. QED
        BY <1>1, <3>1, <3>4
    <2>3. j.agent \in Agents
      BY <1>t, <1>9, <2>1 DEF TypeOK, Intent
    <2>4. Files(pending'[j.agent]) \subseteq Files(pending[j.agent]) \cup {m}
      BY <1>4, <1>5, <2>3, AppendFiles
    <2>5. ~HasInFlightEvent(j.agent, j.type) /\ \A k \in intent[q] : j = k
      BY <1>9, <2>1 DEF LaneInv, DecidedOnce
    <2>6. QED
      BY <2>1, <2>2, <2>4, <2>5 DEF HasInFlightEvent
  <1>10. DecidedOnce'
    BY <1>9 DEF DecidedOnce
  <1>11. QED
    BY <1>3, <1>8, <1>10

--------------------------------------------------------------------------------
(* Every step keeps the lanes apart. *)

\* A step that leaves the queues and the decided writes alone keeps all but the lanes.
LEMMA LaneFrame ==
    ASSUME LaneInv, TypeInv', UNCHANGED <<pending, processing, intent>>, Lanes'
    PROVE  LaneInv'
  <1>1. OneInFlight'
    BY DEF LaneInv, OneInFlight
  <1>2. DecidedOnce'
    BY DEF LaneInv, DecidedOnce, HasInFlightEvent
  <1>3. QED
    BY <1>1, <1>2 DEF LaneInv

LEMMA LaneStart == LaneInv /\ TypeInv' /\ Start => LaneInv'
  <1> SUFFICES ASSUME LaneInv, TypeInv', Start PROVE LaneInv'
    OBVIOUS
  <1>t. TypeOK /\ TypeOK' /\ "manager" \in Enqueuer
    BY DEF LaneInv, TypeInv, Enqueuer
  <1> USE DEF queueVars, consumerVars
  <1>1. CASE Preflight
    <2>1. Lanes'
      BY <1>1 DEF Preflight, LaneInv, TypeInv, HandInv, Lanes, Up
    <2>2. QED
      BY <1>1, <2>1, LaneFrame DEF Preflight
  <1>2. CASE RecoverStaleQueueProcessingFiles
    <2>1. \A a \in Agents : OnFile(a)' = OnFile(a)
      <3>1. \A a \in Agents : /\ processing[a] \in Seq(Message) /\ pending[a] \in Seq(Message)
                              /\ processing'[a] = <<>> /\ pending'[a] = processing[a] \o pending[a]
        BY <1>t, <1>2 DEF RecoverStaleQueueProcessingFiles, TypeOK
      <3>2. \A a \in Agents : <<>> \o (processing[a] \o pending[a]) = processing[a] \o pending[a]
        BY <3>1
      <3>3. QED
        BY <3>1, <3>2 DEF OnFile
    <2>2. OneInFlight' /\ DecidedOnce'
      BY <1>t, <1>2, <2>1, FewerFiles DEF RecoverStaleQueueProcessingFiles
    <2>3. Lanes'
      BY <1>2 DEF RecoverStaleQueueProcessingFiles, LaneInv, Lanes, Up
    <2>4. QED
      BY <2>2, <2>3 DEF LaneInv
  <1>3. CASE BringUp
    <2>1. Lanes'
      BY <1>3 DEF BringUp, LaneInv, TypeInv, HandInv, Lanes, Up
    <2>2. QED
      BY <1>3, <2>1, LaneFrame DEF BringUp
  <1>4. CASE AutoRecover
    <2>1. PICK e \in Foremost(recovery) : DecideEnqueue("manager", RecoveryEventType(e), e)
      BY <1>4 DEF AutoRecover
    <2>2. e \in EpicId /\ RecoveryEventType(e) \in EventType
      BY <1>t, <2>1 DEF Foremost, TypeOK, EpicId, RecoveryEventType, EventType, EpicEvent
    <2>3. OneInFlight' /\ DecidedOnce'
      BY <1>4, <1>t, <2>1, <2>2, DecideKeeps DEF AutoRecover
    <2>4. \E S : intent' = [intent EXCEPT !["manager"] = S]
      BY <2>1 DEF DecideEnqueue
    <2>5. Lanes'
      BY <1>4, <1>t, <2>4 DEF AutoRecover, LaneInv, Lanes, Up, TypeOK, Enqueuer
    <2>6. QED
      BY <2>3, <2>5 DEF LaneInv
  <1>5. CASE AutoRecoverWrite
    <2>1. OneInFlight' /\ DecidedOnce' /\ intent' = [intent EXCEPT !["manager"] = {}]
      BY <1>t, <1>5, WriteKeeps DEF AutoRecoverWrite
    <2>2. Lanes'
      BY <1>t, <1>5, <2>1 DEF AutoRecoverWrite, LaneInv, Lanes, Up, TypeOK, Enqueuer
    <2>3. QED
      BY <2>1, <2>2 DEF LaneInv
  <1>6. CASE Serve
    <2>1. Lanes'
      BY <1>6 DEF Serve, LaneInv, TypeInv, HandInv, Lanes, Up
    <2>2. QED
      BY <1>6, <2>1, LaneFrame DEF Serve
  <1>7. QED
    BY <1>1, <1>2, <1>3, <1>4, <1>5, <1>6 DEF Start

LEMMA LaneStop == LaneInv /\ TypeInv' /\ Stop => LaneInv'
  <1> SUFFICES ASSUME LaneInv, TypeInv', Stop PROVE LaneInv'
    OBVIOUS
  <1>t. TypeOK
    BY DEF LaneInv, TypeInv
  <1> USE DEF queueVars, consumerVars
  <1>1. CASE Crash \/ Exit
    <2>1. UNCHANGED <<pending, processing>> /\ ProcessEnds
      BY <1>1 DEF Crash, Exit
    <2>2. \A p \in Enqueuer : intent'[p] = intent[p] \/ intent'[p] = {}
      BY <1>t, <2>1 DEF ProcessEnds, TypeOK, Enqueuer
    <2>3. intent'["operator"] = {} /\ intent'["poller"] = {} /\ ~Up'
      BY <1>t, <2>1 DEF ProcessEnds, TypeOK, Enqueuer, LaneInv, Lanes, Up
    <2>4. DecidedOnce'
      BY <2>1, <2>2 DEF LaneInv, DecidedOnce, HasInFlightEvent
    <2>5. OneInFlight'
      BY <2>1 DEF LaneInv, OneInFlight
    <2>6. QED
      BY <2>3, <2>4, <2>5 DEF LaneInv, Lanes
  <1>2. CASE Signal
    <2>1. Lanes'
      BY <1>2 DEF Signal, LaneInv, TypeInv, HandInv, Lanes, Up
    <2>2. QED
      BY <1>2, <2>1, LaneFrame DEF Signal
  <1>3. CASE DownSaved
    <2>1. Lanes'
      BY <1>3 DEF DownSaved, LaneInv, TypeInv, HandInv, Lanes, Up
    <2>2. QED
      BY <1>3, <2>1, LaneFrame DEF DownSaved
  <1>4. QED
    BY <1>1, <1>2, <1>3 DEF Stop

LEMMA LaneConsume == LaneInv /\ TypeInv' /\ Consume => LaneInv'
  <1> SUFFICES ASSUME LaneInv, TypeInv', Consume PROVE LaneInv'
    OBVIOUS
  <1>t. TypeOK /\ TypeOK' /\ HandInv /\ "manager" \in Enqueuer
    BY DEF LaneInv, TypeInv, Enqueuer
  <1> USE DEF queueVars
  <1>1. CASE BeginPass \/ Visit \/ PrepareDispatch \/ Run
    <2>1. /\ UNCHANGED <<pending, processing, intent, manager>>
          /\ stage = "enqueuing" <=> stage' = "enqueuing"
      BY <1>1 DEF BeginPass, Visit, PrepareDispatch, Run, ReviewerDecides, GatekeeperRecords,
                  DispatchSucceeds, DispatchFails
    <2>2. Lanes'
      BY <2>1 DEF LaneInv, Lanes, Up
    <2>3. QED
      BY <2>1, <2>2, LaneFrame
  <1>2. CASE ClaimFile
    <2>1. /\ agent \in Agents /\ pending[agent] \in Seq(Message) /\ pending[agent] # <<>>
          /\ processing[agent] = <<>>
      BY <1>t, <1>2 DEF ClaimFile, TypeOK, HandInv, Up
    <2>2. /\ pending'[agent] = Tail(pending[agent])
          /\ processing'[agent] = Append(<<>>, Head(pending[agent]))
          /\ \A a \in Agents \ {agent} : pending'[a] = pending[a] /\ processing'[a] = processing[a]
      BY <1>t, <1>2, <2>1 DEF ClaimFile, TypeOK
    <2>3. Append(<<>>, Head(pending[agent])) = <<Head(pending[agent])>> /\ <<>> \o pending[agent] = pending[agent]
      BY <2>1
    <2>4. pending[agent] = <<Head(pending[agent])>> \o Tail(pending[agent])
      BY <2>1, TailFiles
    <2>5. processing'[agent] \o pending'[agent] = processing[agent] \o pending[agent]
      BY <2>1, <2>2, <2>3, <2>4
    <2>6. \A a \in Agents : OnFile(a)' = OnFile(a)
      BY <2>2, <2>5 DEF OnFile
    <2>7. OneInFlight' /\ DecidedOnce'
      BY <1>t, <1>2, <2>6, FewerFiles DEF ClaimFile
    <2>8. Lanes'
      BY <1>2 DEF ClaimFile, LaneInv, Lanes, Up
    <2>9. QED
      BY <2>7, <2>8 DEF LaneInv
  <1>3. CASE EmitFollowUp
    <2>1. EmitEvent[message.type] \in FollowUpEvent /\ message.epicId \in EpicId
      <3>1. \A t \in EventType : EmitEvent[t] # NoEvent => EmitEvent[t] \in FollowUpEvent
        BY DEF EmitEvent, FollowUpEvent, EventType, EpicEvent
      <3>2. QED
        BY <1>t, <1>3, <3>1 DEF EmitFollowUp, HandInv, TypeOK, Message
    <2>2. EmitEvent[message.type] \in EventType /\ EmitEvent[message.type] # EpicReady
      BY <2>1 DEF FollowUpEvent, EventType, EpicEvent, EpicReady, EpicFrontendDone, EpicPolishReady, EpicReviewReady
    <2>3. DecideEnqueue("manager", EmitEvent[message.type], message.epicId)
      BY <1>3 DEF EmitFollowUp
    <2>4. OneInFlight' /\ DecidedOnce'
      BY <1>3, <1>t, <2>1, <2>2, <2>3, DecideKeeps DEF EmitFollowUp
    <2>5. PICK S \in SUBSET Intent :
              /\ intent' = [intent EXCEPT !["manager"] = S]
              /\ \A i \in S : i.type = EmitEvent[message.type]
      BY <1>t, <2>1, <2>2, <2>3, DecideOne
    <2>6. Lanes'
      BY <1>3, <1>t, <2>1, <2>5 DEF EmitFollowUp, LaneInv, Lanes, Up, TypeOK, Enqueuer
    <2>7. QED
      BY <2>4, <2>6 DEF LaneInv
  <1>4. CASE EmitWrite
    <2>1. CASE intent["manager"] = {} /\ UNCHANGED <<pending, clock, intent>>
      <3>1. Lanes'
        BY <1>4, <2>1 DEF EmitWrite, LaneInv, Lanes, Up
      <3>2. QED
        BY <1>4, <2>1, <3>1, LaneFrame DEF EmitWrite
    <2>2. CASE WriteQueueFile("manager")
      <3>1. OneInFlight' /\ DecidedOnce' /\ intent' = [intent EXCEPT !["manager"] = {}]
        BY <1>4, <1>t, <2>2, WriteKeeps DEF EmitWrite
      <3>2. Lanes'
        BY <1>4, <1>t, <3>1 DEF EmitWrite, LaneInv, Lanes, Up, TypeOK, Enqueuer
      <3>3. QED
        BY <3>1, <3>2 DEF LaneInv
    <2>3. QED
      BY <1>4, <2>1, <2>2 DEF EmitWrite
  <1>5. ASSUME Up, stage \in {"finishing", "rejecting"},
               NEW queueState \in {"done", "failed"}, MoveToTerminal(queueState)
        PROVE  LaneInv'
    <2>1. processing[agent] = <<message>> /\ agent \in Agents /\ message \in Message
      BY <1>t, <1>5 DEF TypeOK, HandInv
    <2>2. SubSeq(processing[agent], 1, Len(processing[agent]) - 1) = <<>>
      BY <2>1
    <2>3. /\ processing'[agent] = <<>>
          /\ \A a \in Agents \ {agent} : processing'[a] = processing[a]
          /\ pending' = pending
      BY <1>5, <1>t, <2>1, <2>2 DEF MoveToTerminal, TypeOK
    <2>4. pending[agent] \in Seq(Message) /\ <<>> \o pending[agent] = pending[agent]
      BY <1>t, <2>1 DEF TypeOK
    <2>5. \A a \in Agents : \/ OnFile(a)' = OnFile(a)
                            \/ \E m \in Message, s \in Seq(Message) : OnFile(a) = <<m>> \o s /\ OnFile(a)' = s
      BY <2>1, <2>3, <2>4 DEF OnFile
    <2>6. OneInFlight' /\ DecidedOnce'
      BY <1>t, <1>5, <2>5, FewerFiles DEF MoveToTerminal
    <2>7. Lanes'
      BY <1>5 DEF MoveToTerminal, NextOfListing, LaneInv, Lanes, Up
    <2>8. QED
      BY <2>6, <2>7 DEF LaneInv
  <1>6. CASE MoveToDone \/ MoveToFailed
    BY <1>5, <1>6 DEF MoveToDone, MoveToFailed
  <1>7. QED
    BY <1>1, <1>2, <1>3, <1>4, <1>6 DEF Consume

LEMMA LanePoll == LaneInv /\ TypeInv' /\ Poll => LaneInv'
  <1> SUFFICES ASSUME LaneInv, TypeInv', Poll PROVE LaneInv'
    OBVIOUS
  <1>t. TypeOK /\ TypeOK' /\ "poller" \in Enqueuer
    BY DEF LaneInv, TypeInv, Enqueuer
  <1> USE DEF queueVars, consumerVars
  <1>1. CASE PollProbe
    <2>1. Lanes'
      BY <1>1 DEF PollProbe, LaneInv, Lanes, Up
    <2>2. QED
      BY <1>1, <2>1, LaneFrame DEF PollProbe
  <1>2. CASE PollReady \/ PollAcceptance
    <2>1. PICK type \in {EpicReady, AcceptanceRequired} : DecideEnqueue("poller", type, NoEpic)
      BY <1>2 DEF PollReady, PollAcceptance
    <2>2. type \in EventType /\ NoEpic \in EpicId
      BY DEF EventType, EpicEvent, EpicId
    <2>3. UNCHANGED <<pending, processing, manager, stage>> /\ Up
      BY <1>2 DEF PollReady, PollAcceptance, Polling, Up
    <2>4. OneInFlight' /\ DecidedOnce'
      BY <1>t, <2>1, <2>2, <2>3, DecideKeeps
    <2>5. PICK S \in SUBSET Intent :
              /\ intent' = [intent EXCEPT !["poller"] = S]
              /\ \A i \in S : i.type \in PollerEvent
      BY <1>t, <2>1, <2>2, DecideOne DEF PollerEvent
    <2>6. Lanes'
      BY <1>t, <2>3, <2>5 DEF LaneInv, Lanes, Up, TypeOK, Enqueuer
    <2>7. QED
      BY <2>4, <2>6 DEF LaneInv
  <1>3. CASE PollWrite
    <2>1. OneInFlight' /\ DecidedOnce' /\ intent' = [intent EXCEPT !["poller"] = {}]
      BY <1>t, <1>3, WriteKeeps DEF PollWrite
    <2>2. Lanes'
      BY <1>t, <1>3, <2>1 DEF PollWrite, LaneInv, Lanes, Up, TypeOK, Enqueuer
    <2>3. QED
      BY <2>1, <2>2 DEF LaneInv
  <1>4. QED
    BY <1>1, <1>2, <1>3 DEF Poll

LEMMA LaneStep ==
    ASSUME TriggerEvents = {}, LaneInv, [Next]_vars
    PROVE  LaneInv'
  <1>1. TypeInv'
    BY TypeInvStep DEF LaneInv
  <1>2. ~Operator
    BY DEF LaneInv, Lanes, Operator, TriggerWrite, WriteQueueFile
  <1>3. CASE UNCHANGED vars
    <2>1. Lanes'
      BY <1>3 DEF vars, queueVars, consumerVars, LaneInv, Lanes, Up
    <2>2. QED
      BY <1>1, <1>3, <2>1, LaneFrame DEF vars, queueVars
  <1>4. QED
    BY <1>1, <1>2, <1>3, LaneStart, LaneStop, LaneConsume, LanePoll DEF Next

LEMMA InitLane == Init => LaneInv
  <1> SUFFICES ASSUME Init PROVE LaneInv
    OBVIOUS
  <1>1. \A a \in Agents : OnFile(a) = <<>>
    BY DEF Init, OnFile
  <1>2. OneInFlight
    <2>1. Distinct(<<>>)
      BY DEF Distinct
    <2>2. QED
      BY <1>1, <2>1, OneInFlightDistinct
  <1>3. \A p \in Enqueuer : intent[p] = {}
    BY DEF Init
  <1>4. Lanes /\ DecidedOnce
    BY <1>3 DEF Init, Lanes, DecidedOnce, Enqueuer, Up
  <1>5. QED
    BY <1>2, <1>4, InitTypeInv DEF LaneInv

\* Although every enqueuer looks for an event in flight in one step and writes its file in another,
\* no agent ever has two events of a kind on file, over every crash, shutdown, recovery and failure
\* (enqueueToRunningAgents), as long as nobody triggers events by hand.
THEOREM EventsInFlightOnce == ASSUME TriggerEvents = {} PROVE Spec => []OneInFlight
  <1>1. LaneInv => OneInFlight
    BY DEF LaneInv
  <1>2. LaneInv /\ [Next]_vars => LaneInv'
    BY LaneStep
  <1>3. QED
    BY <1>1, <1>2, InitLane, PTL DEF Spec
--------------------------------------------------------------------------------
(* No step forgets an epic in review but in the ways HandoffHeld names, whatever stops the fleet   *)
(* or is triggered by hand.                                                                        *)

Waiting(e) == \E a \in Agents : \E m \in Files(pending[a]) : m.type \in ReviewStageEvent /\ m.epicId = e
OthersWaiting(e) == \E a \in Agents : \E m \in Files(pending[a]) : m.type \in ReviewStageEvent /\ m.epicId # e

\* The file that takes e further waits, or its absence is excused.
Onward(e) == Waiting(e) \/ OthersWaiting(e) \/ NobodyToTell

DecidedFor(e) == \E i \in intent["manager"] : i.type \in ReviewStageEvent /\ i.epicId = e

\* Startup recovery has not come to an epic in review yet, or has decided on its file or written it.
RecoveryTraced ==
    manager = "recovering" => \A e \in Epics : epicStatus[e] = "in-review" =>
        e \in recovery \/ DecidedFor(e) \/ Handoff(e) \/ OthersInFlight(e) \/ NobodyToTell

\* What is followed up has a follow-up; the frontend stage hands its epic on before it is in review.
FollowsUp ==
    stage \in {"emitting", "enqueuing"} =>
        /\ EmitEvent[message.type] # NoEvent
        /\ message.type = EpicFrontendReady =>
               message.epicId \in Epics /\ epicStatus[message.epicId] = "in-progress"

\* The follow-up is decided on, or it is written or excused.
FollowUpTraced ==
    manager = "serving" /\ stage = "enqueuing" /\ EmitEvent[message.type] \in ReviewStageEvent =>
        /\ \A i \in intent["manager"] : i.type \in ReviewStageEvent /\ i.epicId = message.epicId
        /\ intent["manager"] = {} => Onward(message.epicId)

\* So it is when the polisher's file is about to leave its directory.
PolishTraced ==
    manager = "serving" /\ stage = "finishing" /\ message.type = EpicPolishReady => Onward(message.epicId)

Traced == RecoveryTraced /\ FollowsUp /\ FollowUpTraced /\ PolishTraced

TraceInv == FullInv /\ Traced

LEMMA Emissions ==
    ASSUME NEW t \in EventType
    PROVE  /\ EmitEvent[t] # t /\ EmitEvent[t] # EpicReady
           /\ EmitEvent[t] # NoEvent => t = EpicFrontendReady \/ EmitEvent[t] \in ReviewStageEvent
           /\ EmitEvent[t] # NoEvent => EmitEvent[t] \in EventType
           /\ EmitEvent[EpicPolishReady] # NoEvent
  <1> USE DEF EmitEvent, EventType, EpicEvent, ReviewStageEvent, EpicReady, EpicFrontendReady, EpicFrontendDone,
              EpicPolishReady, EpicReviewReady, AcceptanceRequired, NoEvent
  <1>1. t = EpicReady => EmitEvent[t] = EpicPolishReady
    OBVIOUS
  <1>2. t = EpicFrontendReady => EmitEvent[t] = EpicFrontendDone
    OBVIOUS
  <1>3. t = EpicFrontendDone => EmitEvent[t] = EpicPolishReady
    OBVIOUS
  <1>4. t = EpicPolishReady => EmitEvent[t] = EpicReviewReady
    OBVIOUS
  <1>5. t \in {EpicReviewReady, AcceptanceRequired} => EmitEvent[t] = NoEvent
    OBVIOUS
  <1>6. EmitEvent[EpicPolishReady] = EpicReviewReady
    OBVIOUS
  <1>7. QED
    BY <1>1, <1>2, <1>3, <1>4, <1>5, <1>6

\* A polish or review event is decided on for its epic, unless nobody runs or one is in flight.
LEMMA DecideReview ==
    ASSUME TypeOK, NEW p \in Enqueuer, NEW type \in ReviewStageEvent, NEW epicId \in EpicId,
           DecideEnqueue(p, type, epicId)
    PROVE  /\ \A i \in intent'[p] : i.type = type /\ i.epicId = epicId
           /\ intent'[p] # {} \/ NobodyToTell \/ \E a \in Agents : HasInFlightEvent(a, type)
  <1>1. ResolveQueueEvent(type, epicId) = {[type |-> type, epicId |-> epicId]}
    BY DEF ResolveQueueEvent, ReviewStageEvent, EpicReady, EpicPolishReady, EpicReviewReady
  <1>2. PICK event \in ResolveQueueEvent(type, epicId) :
            intent' = [intent EXCEPT ![p] =
                {[agent |-> a, type |-> event.type, epicId |-> event.epicId] :
                    a \in ResolveTargetAgents(event.type)}]
    BY DEF DecideEnqueue
  <1>3. event.type = type /\ event.epicId = epicId
    BY <1>1
  <1>4. intent'[p] = {[agent |-> a, type |-> type, epicId |-> epicId] : a \in ResolveTargetAgents(type)}
    BY <1>2, <1>3 DEF TypeOK
  <1>5. CASE FirstRunningAgent(type) = {}
    BY <1>4, <1>5 DEF NobodyToTell
  <1>6. ASSUME NEW a \in FirstRunningAgent(type) PROVE intent'[p] # {} \/ HasInFlightEvent(a, type)
    BY <1>4 DEF ResolveTargetAgents
  <1>7. FirstRunningAgent(type) \subseteq Agents
    BY DEF FirstRunningAgent, Foremost, TypeOK
  <1>8. QED
    BY <1>4, <1>5, <1>6, <1>7

\* A written file waits for its epic, and nothing else is taken away.
LEMMA WriteWaits ==
    ASSUME TypeOK, NEW p \in Enqueuer, WriteQueueFile(p)
    PROVE  /\ \A a \in Agents : Files(pending[a]) \subseteq Files(pending'[a])
           /\ intent' = [intent EXCEPT ![p] = intent'[p]]
           /\ \E i \in intent[p] : /\ intent'[p] = intent[p] \ {i}
                                   /\ i.type \in ReviewStageEvent => Waiting(i.epicId)'
  <1>1. PICK i \in intent[p], m \in Message :
            /\ i.agent \in Agents /\ m.type = i.type /\ m.epicId = i.epicId
            /\ pending' = [pending EXCEPT ![i.agent] = Append(@, m)]
            /\ intent' = [intent EXCEPT ![p] = @ \ {i}]
    BY WriteOne
  <1>2. /\ pending[i.agent] \in Seq(Message) /\ pending \in [Agents -> Seq(Message)]
        /\ intent \in [Enqueuer -> SUBSET Intent]
    BY <1>1 DEF TypeOK
  <1>3. Files(Append(pending[i.agent], m)) = Files(pending[i.agent]) \cup {m}
    BY <1>2, AppendFiles
  <1>4. \A a \in Agents : pending'[a] = IF a = i.agent THEN Append(pending[i.agent], m) ELSE pending[a]
    BY <1>1, <1>2
  <1>5. m \in Files(pending'[i.agent])
    BY <1>1, <1>3, <1>4
  <1>6. i.type \in ReviewStageEvent => Waiting(i.epicId)'
    <2> SUFFICES ASSUME i.type \in ReviewStageEvent
                 PROVE  \E a \in Agents : \E n \in Files(pending'[a]) : n.type \in ReviewStageEvent /\ n.epicId = i.epicId
      BY DEF Waiting
    <2>1. QED
      BY <1>1, <1>5
  <1>7. \A a \in Agents : Files(pending[a]) \subseteq Files(pending'[a])
    BY <1>3, <1>4
  <1>8. intent'[p] = intent[p] \ {i} /\ intent' = [intent EXCEPT ![p] = intent'[p]]
    BY <1>1, <1>2
  <1>9. QED
    BY <1>6, <1>7, <1>8

\* What waits goes on waiting while files are only added.
LEMMA OnwardStays ==
    ASSUME \A a \in Agents : Files(pending[a]) \subseteq Files(pending'[a]), running' = running,
           NEW e, Onward(e)
    PROVE  Onward(e)'
  BY DEF Onward, Waiting, OthersWaiting, NobodyToTell, FirstRunningAgent

LEMMA HandoffStays ==
    ASSUME \A a \in Agents : Files(pending[a]) \cup Files(processing[a]) \subseteq Files(pending'[a]) \cup Files(processing'[a]),
           NEW e, stage \in {"emitting", "enqueuing"} => stage' \in {"emitting", "enqueuing"} /\ message' = message,
           Handoff(e)
    PROVE  Handoff(e)'
  BY DEF Handoff

LEMMA OthersStay ==
    ASSUME \A a \in Agents : Files(pending[a]) \cup Files(processing[a]) \subseteq Files(pending'[a]) \cup Files(processing'[a]),
           NEW e, OthersInFlight(e)
    PROVE  OthersInFlight(e)'
  BY DEF OthersInFlight

\* What HandoffHeld says of one step.
Held == \A e \in Epics : Forgotten(e)' => Forgotten(e) \/ OthersInFlight(e) \/ NobodyToTell \/ RunEndedUndecided(e)

\* Steps beside the consume loop that at most add waiting files.
LEMMA TraceAdds ==
    ASSUME TraceInv, UNCHANGED <<epicStatus, processing, running, manager, recovery, stage, message>>,
           intent'["manager"] = intent["manager"],
           \A a \in Agents : Files(pending[a]) \subseteq Files(pending'[a])
    PROVE  Traced' /\ Held
  <1>1. \A a \in Agents : Files(pending[a]) \cup Files(processing[a]) \subseteq Files(pending'[a]) \cup Files(processing'[a])
    OBVIOUS
  <1>2. ASSUME NEW e PROVE /\ Handoff(e) => Handoff(e)'
                           /\ OthersInFlight(e) => OthersInFlight(e)'
                           /\ Onward(e) => Onward(e)'
                           /\ DecidedFor(e) => DecidedFor(e)'
    <2>1. Handoff(e) => Handoff(e)'
      BY <1>1, HandoffStays
    <2>2. OthersInFlight(e) => OthersInFlight(e)'
      BY <1>1, OthersStay
    <2>3. Onward(e) => Onward(e)'
      BY OnwardStays
    <2>4. DecidedFor(e) => DecidedFor(e)'
      BY DEF DecidedFor
    <2>5. QED
      BY <2>1, <2>2, <2>3, <2>4
  <1>3. NobodyToTell => NobodyToTell'
    BY DEF NobodyToTell, FirstRunningAgent
  <1>4. RecoveryTraced'
    BY <1>2, <1>3 DEF TraceInv, Traced, RecoveryTraced
  <1>5. FollowsUp'
    BY DEF TraceInv, Traced, FollowsUp
  <1>6. FollowUpTraced'
    <2> SUFFICES ASSUME manager = "serving", stage = "enqueuing", EmitEvent[message.type] \in ReviewStageEvent
                 PROVE  /\ \A i \in intent["manager"] : i.type \in ReviewStageEvent /\ i.epicId = message.epicId
                        /\ intent["manager"] = {} => Onward(message.epicId)'
      BY DEF FollowUpTraced, Onward, Waiting, OthersWaiting, NobodyToTell, FirstRunningAgent
    <2>1. QED
      BY <1>2 DEF TraceInv, Traced, FollowUpTraced
  <1>7. PolishTraced'
    <2> SUFFICES ASSUME manager = "serving", stage = "finishing", message.type = EpicPolishReady
                 PROVE  Onward(message.epicId)'
      BY DEF PolishTraced, Onward, Waiting, OthersWaiting, NobodyToTell, FirstRunningAgent
    <2>1. QED
      BY <1>2 DEF TraceInv, Traced, PolishTraced
  <1>8. Held
    BY <1>2 DEF Held, Forgotten
  <1>9. QED
    BY <1>4, <1>5, <1>6, <1>7, <1>8 DEF Traced

LEMMA TracePoll == TraceInv /\ Poll => Traced' /\ Held
  <1> SUFFICES ASSUME TraceInv, Poll PROVE Traced' /\ Held
    OBVIOUS
  <1>t. TypeOK
    BY DEF TraceInv, FullInv, TypeInv
  <1>1. UNCHANGED <<epicStatus, processing, running, manager, recovery, stage, message>>
    BY DEF Poll, PollProbe, PollReady, PollAcceptance, PollWrite, queueVars, consumerVars
  <1>2. intent'["manager"] = intent["manager"]
    <2>1. CASE PollProbe
      BY <2>1 DEF PollProbe
    <2>2. CASE PollReady \/ PollAcceptance
      BY <1>t, <2>2 DEF PollReady, PollAcceptance, DecideEnqueue, TypeOK, Enqueuer
    <2>3. CASE PollWrite
      BY <1>t, <2>3 DEF PollWrite, WriteQueueFile, TypeOK, Enqueuer
    <2>4. QED
      BY <2>1, <2>2, <2>3 DEF Poll
  <1>3. \A a \in Agents : Files(pending[a]) \subseteq Files(pending'[a])
    <2>1. CASE PollProbe \/ PollReady \/ PollAcceptance
      BY <2>1 DEF PollProbe, PollReady, PollAcceptance, queueVars
    <2>2. CASE PollWrite
      BY <1>t, <2>2, WriteWaits DEF PollWrite, Enqueuer
    <2>3. QED
      BY <2>1, <2>2 DEF Poll
  <1>4. QED
    BY <1>1, <1>2, <1>3, TraceAdds

LEMMA TraceOperator == TraceInv /\ Operator => Traced' /\ Held
  <1> SUFFICES ASSUME TraceInv, Operator PROVE Traced' /\ Held
    OBVIOUS
  <1>t. TypeOK
    BY DEF TraceInv, FullInv, TypeInv
  <1>1. UNCHANGED <<epicStatus, processing, running, manager, recovery, stage, message>>
    BY DEF Operator, Trigger, TriggerWrite, queueVars, consumerVars
  <1>2. intent'["manager"] = intent["manager"]
    BY <1>t DEF Operator, Trigger, TriggerWrite, DecideEnqueue, WriteQueueFile, TypeOK, Enqueuer
  <1>3. \A a \in Agents : Files(pending[a]) \subseteq Files(pending'[a])
    <2>1. CASE \E type \in TriggerEvents, e \in EpicId : Trigger(type, e)
      BY <2>1 DEF Trigger, queueVars
    <2>2. CASE TriggerWrite
      BY <1>t, <2>2, WriteWaits DEF TriggerWrite, Enqueuer
    <2>3. QED
      BY <2>1, <2>2 DEF Operator
  <1>4. QED
    BY <1>1, <1>2, <1>3, TraceAdds

LEMMA TraceStop == TraceInv /\ Stop => Traced' /\ Held
  <1> SUFFICES ASSUME TraceInv, Stop PROVE Traced' /\ Held
    OBVIOUS
  <1>1. manager' \notin {"recovering", "serving"} /\ epicStatus' = epicStatus
    BY DEF Stop, Crash, Signal, DownSaved, Exit, ProcessEnds
  <1>2. stage' = "idle" \/ UNCHANGED <<stage, message>>
    BY DEF Stop, Crash, Signal, DownSaved, Exit, ProcessEnds, consumerVars
  <1>3. FollowsUp'
    BY <1>1, <1>2 DEF TraceInv, Traced, FollowsUp
  <1>4. QED
    BY <1>1, <1>3 DEF Traced, RecoveryTraced, FollowUpTraced, PolishTraced, Held, Forgotten

\* Startup recovery comes to every epic in review, and writes what it decides before it serves.
LEMMA TraceStart == TraceInv /\ TypeOK' /\ Start => Traced' /\ Held
  <1> SUFFICES ASSUME TraceInv, TypeOK', Start PROVE Traced' /\ Held
    OBVIOUS
  <1>t. TypeOK
    BY DEF TraceInv, FullInv, TypeInv
  <1>1. ~Up /\ stage' = "idle"
    <2>1. ~Up
      BY DEF Start, Preflight, RecoverStaleQueueProcessingFiles, BringUp, AutoRecover, AutoRecoverWrite, Serve, Up
    <2>2. stage = "idle"
      BY <2>1 DEF TraceInv, FullInv, TypeInv, HandInv
    <2>3. stage' = stage
      BY DEF Start, Preflight, RecoverStaleQueueProcessingFiles, BringUp, AutoRecover, AutoRecoverWrite, Serve,
             consumerVars
    <2>4. QED
      BY <2>1, <2>2, <2>3
  <1>2. FollowsUp' /\ FollowUpTraced' /\ PolishTraced'
    BY <1>1 DEF FollowsUp, FollowUpTraced, PolishTraced
  <1>3. CASE Preflight \/ RecoverStaleQueueProcessingFiles
    <2>1. manager' \notin {"recovering", "serving"}
      BY <1>3 DEF Preflight, RecoverStaleQueueProcessingFiles
    <2>2. QED
      BY <1>2, <2>1 DEF Traced, RecoveryTraced, Held, Forgotten
  <1>4. CASE BringUp
    <2>1. manager' = "recovering" /\ epicStatus' = epicStatus /\ recovery' = Recoverable
      BY <1>4 DEF BringUp
    <2>2. RecoveryTraced'
      BY <2>1 DEF RecoveryTraced, Recoverable, ActiveStatus
    <2>3. QED
      BY <1>2, <2>1, <2>2 DEF Traced, Held, Forgotten
  <1>5. CASE AutoRecover
    <2>1. /\ manager = "recovering" /\ manager' = "recovering" /\ intent["manager"] = {}
          /\ UNCHANGED <<epicStatus, pending, processing, running>>
      BY <1>5 DEF AutoRecover, queueVars
    <2>2. PICK f \in Foremost(recovery) :
              recovery' = recovery \ {f} /\ DecideEnqueue("manager", RecoveryEventType(f), f)
      BY <1>5 DEF AutoRecover
    <2>3. ASSUME NEW e \in Epics, epicStatus[e] = "in-review", e # f
          PROVE  e \in recovery' \/ DecidedFor(e)' \/ Handoff(e)' \/ OthersInFlight(e)' \/ NobodyToTell'
      <3>1. ~DecidedFor(e)
        BY <2>1 DEF DecidedFor
      <3>2. e \in recovery \/ Handoff(e) \/ OthersInFlight(e) \/ NobodyToTell
        BY <2>1, <2>3, <3>1 DEF TraceInv, Traced, RecoveryTraced
      <3>3. Handoff(e) => Handoff(e)'
        BY <1>1, <2>1, HandoffStays DEF TraceInv, FullInv, TypeInv, HandInv
      <3>4. OthersInFlight(e) => OthersInFlight(e)'
        BY <2>1, OthersStay
      <3>5. NobodyToTell => NobodyToTell'
        BY <2>1 DEF NobodyToTell, FirstRunningAgent
      <3>6. QED
        BY <2>2, <2>3, <3>2, <3>3, <3>4, <3>5
    <2>4. ASSUME f \in Epics, epicStatus[f] = "in-review"
          PROVE  DecidedFor(f)' \/ Handoff(f)' \/ OthersInFlight(f)' \/ NobodyToTell'
      <3>1. PICK type \in ReviewStageEvent : type = RecoveryEventType(f)
        BY <2>4 DEF RecoveryEventType, ReviewStageEvent
      <3>2. type \in EventType /\ f \in EpicId /\ "manager" \in Enqueuer
        BY <2>4, <3>1 DEF ReviewStageEvent, EventType, EpicEvent, EpicId, Enqueuer
      <3>3. DecideEnqueue("manager", type, f)
        BY <2>2, <3>1
      <3>4. /\ \A i \in intent'["manager"] : i.type = type /\ i.epicId = f
            /\ intent'["manager"] # {} \/ NobodyToTell \/ \E a \in Agents : HasInFlightEvent(a, type)
        BY <1>t, <3>2, <3>3, DecideReview
      <3>5. intent'["manager"] # {} => DecidedFor(f)'
        BY <3>1, <3>4 DEF DecidedFor
      <3>6. NobodyToTell => NobodyToTell'
        BY <2>1 DEF NobodyToTell, FirstRunningAgent
      <3>7. (\E a \in Agents : HasInFlightEvent(a, type)) => Handoff(f)' \/ OthersInFlight(f)'
        BY <2>1, <3>1 DEF HasInFlightEvent, Handoff, OthersInFlight
      <3>8. QED
        BY <3>4, <3>5, <3>6, <3>7
    <2>5. RecoveryTraced'
      BY <2>1, <2>3, <2>4 DEF RecoveryTraced
    <2>6. QED
      BY <1>2, <2>1, <2>5 DEF Traced, Held, Forgotten
  <1>6. CASE AutoRecoverWrite
    <2>1. /\ manager = "recovering" /\ manager' = "recovering" /\ WriteQueueFile("manager")
          /\ UNCHANGED <<epicStatus, processing, running, recovery, stage, message>>
      BY <1>6 DEF AutoRecoverWrite, consumerVars
    <2>2. "manager" \in Enqueuer
      BY DEF Enqueuer
    <2>3. /\ \A a \in Agents : Files(pending[a]) \subseteq Files(pending'[a])
          /\ \E i \in intent["manager"] : /\ intent'["manager"] = intent["manager"] \ {i}
                                          /\ i.type \in ReviewStageEvent => Waiting(i.epicId)'
      BY <1>t, <2>1, <2>2, WriteWaits
    <2>4. ASSUME NEW e \in Epics, epicStatus[e] = "in-review"
          PROVE  e \in recovery' \/ DecidedFor(e)' \/ Handoff(e)' \/ OthersInFlight(e)' \/ NobodyToTell'
      <3>1. e \in recovery \/ DecidedFor(e) \/ Handoff(e) \/ OthersInFlight(e) \/ NobodyToTell
        BY <2>1, <2>4 DEF TraceInv, Traced, RecoveryTraced
      <3>2. Handoff(e) => Handoff(e)'
        BY <2>1, <2>3, HandoffStays
      <3>3. OthersInFlight(e) => OthersInFlight(e)'
        BY <2>1, <2>3, OthersStay
      <3>4. NobodyToTell => NobodyToTell'
        BY <2>1 DEF NobodyToTell, FirstRunningAgent
      <3>5. DecidedFor(e) => DecidedFor(e)' \/ Waiting(e)'
        BY <2>3 DEF DecidedFor
      <3>6. Waiting(e)' => Handoff(e)'
        BY DEF Waiting, Handoff
      <3>7. QED
        BY <2>1, <3>1, <3>2, <3>3, <3>4, <3>5, <3>6
    <2>5. RecoveryTraced'
      BY <2>1, <2>4 DEF RecoveryTraced
    <2>6. QED
      BY <1>2, <2>1, <2>5 DEF Traced, Held, Forgotten
  <1>7. CASE Serve
    <2>1. /\ manager = "recovering" /\ recovery = {} /\ intent["manager"] = {} /\ manager' = "serving"
          /\ UNCHANGED <<epicStatus, pending, processing, stage, message>>
      BY <1>7 DEF Serve, queueVars, consumerVars
    <2>2. ASSUME NEW e \in Epics, Forgotten(e)' PROVE OthersInFlight(e) \/ NobodyToTell
      <3>1. epicStatus[e] = "in-review" /\ ~Handoff(e)'
        BY <2>1, <2>2 DEF Forgotten
      <3>2. ~Handoff(e)
        BY <2>1, <3>1, HandoffStays
      <3>3. QED
        BY <2>1, <3>1, <3>2 DEF TraceInv, Traced, RecoveryTraced, DecidedFor
    <2>3. QED
      BY <1>2, <2>1, <2>2 DEF Traced, RecoveryTraced, Held
  <1>8. QED
    BY <1>3, <1>4, <1>5, <1>6, <1>7 DEF Start

\* A visit, a claimed file and a decision to dispatch leave what is traced as it is.
LEMMA TraceVisit ==
    ASSUME TraceInv, TypeInv', BeginPass \/ Visit \/ ClaimFile \/ PrepareDispatch
    PROVE  Traced' /\ Held
  <1>t. TypeOK /\ HandInv
    BY DEF TraceInv, FullInv, TypeInv
  <1>1. /\ stage \notin {"emitting", "enqueuing"} /\ stage' \notin {"emitting", "enqueuing"}
        /\ manager' = manager /\ manager # "recovering"
    BY DEF BeginPass, Visit, ClaimFile, PrepareDispatch, Up
  <1>2. stage' = "finishing" => message'.type # EpicPolishReady
    BY DEF BeginPass, Visit, ClaimFile, PrepareDispatch, IsClaim, ImplementationEvent, EpicReady, EpicFrontendReady,
           EpicPolishReady
  <1>3. Traced'
    BY <1>1, <1>2 DEF Traced, RecoveryTraced, FollowsUp, FollowUpTraced, PolishTraced
  <1>4. \A a \in Agents : Files(pending[a]) \cup Files(processing[a]) \subseteq Files(pending'[a]) \cup Files(processing'[a])
    <2>1. CASE ClaimFile
      <3>1. /\ agent \in Agents /\ pending[agent] \in Seq(Message) /\ pending[agent] # <<>>
            /\ pending \in [Agents -> Seq(Message)] /\ processing \in [Agents -> Seq(Message)]
        BY <1>t, <2>1 DEF ClaimFile, TypeOK
      <3>2. Files(pending[agent]) = {Head(pending[agent])} \cup Files(Tail(pending[agent])) /\ Head(pending[agent]) \in Message
        BY <3>1, TailFiles
      <3>3. Files(Append(processing[agent], Head(pending[agent]))) = Files(processing[agent]) \cup {Head(pending[agent])}
        BY <3>1, <3>2, AppendFiles
      <3>4. \A a \in Agents :
                /\ pending'[a] = IF a = agent THEN Tail(pending[agent]) ELSE pending[a]
                /\ processing'[a] = IF a = agent THEN Append(processing[agent], Head(pending[agent])) ELSE processing[a]
        BY <2>1, <3>1 DEF ClaimFile
      <3>5. QED
        BY <3>2, <3>3, <3>4
    <2>2. CASE BeginPass \/ Visit \/ PrepareDispatch
      BY <2>2 DEF BeginPass, Visit, PrepareDispatch, queueVars
    <2>3. QED
      BY <2>1, <2>2
  <1>5. ASSUME NEW e \in Epics, epicStatus'[e] = "in-review" PROVE epicStatus[e] = "in-review"
    BY <1>t, <1>5 DEF BeginPass, Visit, ClaimFile, PrepareDispatch, Claim, TypeOK
  <1>6. Held
    BY <1>1, <1>4, <1>5, HandoffStays DEF Held, Forgotten
  <1>7. QED
    BY <1>3, <1>6

\* A run puts an epic in review only where it goes on to queue the polish event.
LEMMA TraceRun ==
    ASSUME TraceInv, TypeInv', Run
    PROVE  Traced' /\ Held
  <1>t. TypeOK /\ HandInv /\ ClaimHeld
    BY DEF TraceInv, FullInv, TypeInv
  <1>1. /\ stage = "dispatching" /\ UNCHANGED <<pending, processing, message, manager>>
        /\ stage' \in {"dispatching", "finishing", "emitting", "rejecting"}
    BY DEF Run, ReviewerDecides, GatekeeperRecords, DispatchSucceeds, DispatchFails, queueVars
  <1>2. Up /\ manager # "recovering"
    BY <1>t, <1>1 DEF HandInv, Up
  <1>3. message.type \in EventType /\ message.epicId \in EpicId
    BY <1>t DEF TypeOK, Message
  <1>4. DispatchSucceeds => stage' = IF EmitEvent[message.type] = NoEvent THEN "finishing" ELSE "emitting"
    BY DEF DispatchSucceeds
  <1>5. ~DispatchSucceeds => stage' \in {"dispatching", "rejecting"}
    BY <1>1 DEF Run, ReviewerDecides, GatekeeperRecords, DispatchFails
  <1>6. ~(stage' = "finishing" /\ message'.type = EpicPolishReady)
    BY <1>1, <1>3, <1>4, <1>5, Emissions
  <1>7. ASSUME DispatchSucceeds, message.type = EpicFrontendReady
        PROVE  message.epicId \in Epics /\ epicStatus'[message.epicId] = "in-progress"
    <2>1. message.epicId \in Epics /\ IsClaim
      BY <1>3, <1>7 DEF DispatchSucceeds, CanRun, EpicEvent, EpicId, IsClaim, ImplementationEvent
    <2>2. FinalizeEpic(FALSE)
      BY <1>7 DEF DispatchSucceeds
    <2>3. epicStatus' = [epicStatus EXCEPT ![message.epicId] = "in-progress"]
      BY <1>7, <2>1, <2>2 DEF FinalizeEpic
    <2>4. QED
      BY <1>t, <2>1, <2>3 DEF TypeOK
  <1>8. Traced'
    <2>1. FollowsUp'
      BY <1>1, <1>4, <1>5, <1>7 DEF FollowsUp
    <2>2. QED
      BY <1>1, <1>2, <1>6, <2>1 DEF Traced, RecoveryTraced, FollowUpTraced, PolishTraced
  <1>9. ASSUME NEW e \in Epics, epicStatus'[e] = "in-review"
        PROVE  epicStatus[e] = "in-review" \/ Handoff(e)'
    <2>1. CASE ReviewerDecides
      <3>1. PICK verdict \in Verdicts(message.epicId) : epicStatus' = [epicStatus EXCEPT ![message.epicId] = verdict]
        BY <2>1 DEF ReviewerDecides
      <3>2. verdict # "in-review"
        BY DEF Verdicts
      <3>3. QED
        BY <1>t, <1>9, <3>1, <3>2 DEF TypeOK
    <2>2. CASE GatekeeperRecords
      BY <1>9, <2>2 DEF GatekeeperRecords
    <2>3. CASE DispatchFails
      BY <1>t, <1>9, <2>3 DEF DispatchFails, FinalizeEpic, TypeOK
    <2>4. CASE DispatchSucceeds
      <3>1. FinalizeEpic(FALSE)
        BY <2>4 DEF DispatchSucceeds
      <3>2. epicStatus[e] = "in-review" \/ (IsClaim /\ message.epicId = e /\ message.type # EpicFrontendReady)
        BY <1>t, <1>9, <3>1 DEF FinalizeEpic, TypeOK
      <3>3. ASSUME IsClaim, message.epicId = e, message.type # EpicFrontendReady PROVE Handoff(e)'
        <4>1. message.type = EpicReady
          BY <3>3 DEF IsClaim, ImplementationEvent
        <4>2. EmitEvent[message.type] # NoEvent
          BY <4>1 DEF EmitEvent, EventType, EpicEvent, EpicReady, EpicFrontendReady, EpicFrontendDone,
                      EpicPolishReady, EpicReviewReady, AcceptanceRequired, NoEvent
        <4>3. QED
          BY <1>1, <1>4, <2>4, <3>3, <4>2 DEF Handoff
      <3>4. QED
        BY <3>2, <3>3
    <2>5. QED
      BY <2>1, <2>2, <2>3, <2>4 DEF Run
  <1>10. ASSUME NEW e \in Epics, Handoff(e) PROVE Handoff(e)'
    BY <1>1, <1>10, HandoffStays
  <1>11. Held
    BY <1>1, <1>9, <1>10 DEF Held, Forgotten
  <1>12. QED
    BY <1>8, <1>11

\* The follow-up is dropped only for want of an agent, or for an event of its kind in flight.
LEMMA TraceEmit ==
    ASSUME TraceInv, TypeInv', EmitFollowUp
    PROVE  Traced' /\ Held
  <1>t. TypeOK /\ HandInv
    BY DEF TraceInv, FullInv, TypeInv
  <1>1. /\ stage = "emitting" /\ stage' = "enqueuing" /\ Up
        /\ UNCHANGED <<epicStatus, pending, processing, running, manager, message>>
        /\ DecideEnqueue("manager", EmitEvent[message.type], message.epicId)
    BY DEF EmitFollowUp, queueVars
  <1>2. message.type \in EventType /\ message.epicId \in EpicId /\ "manager" \in Enqueuer
    BY <1>t DEF TypeOK, Message, Enqueuer
  <1>3. PICK next : next = EmitEvent[message.type]
    OBVIOUS
  <1>4. ASSUME next \in ReviewStageEvent
        PROVE  /\ \A i \in intent'["manager"] : i.type \in ReviewStageEvent /\ i.epicId = message.epicId
               /\ intent'["manager"] = {} => Onward(message.epicId)'
    <2>1. /\ \A i \in intent'["manager"] : i.type = next /\ i.epicId = message.epicId
          /\ intent'["manager"] # {} \/ NobodyToTell \/ \E a \in Agents : HasInFlightEvent(a, next)
      BY <1>t, <1>1, <1>2, <1>3, <1>4, DecideReview
    <2>2. ASSUME NEW a \in Agents, HasInFlightEvent(a, next)
          PROVE  Waiting(message.epicId)' \/ OthersWaiting(message.epicId)'
      <3>1. processing[a] = <<>> \/ processing[a] = <<message>>
        BY <1>t, <1>1 DEF HandInv, Up
      <3>2. \A m \in Files(processing[a]) : m = message
        BY <3>1 DEF Files
      <3>3. message.type # next
        BY <1>2, <1>3, Emissions
      <3>4. \E m \in Files(pending[a]) : m.type = next
        BY <2>2, <3>2, <3>3 DEF HasInFlightEvent
      <3>5. QED
        BY <1>1, <1>4, <3>4 DEF Waiting, OthersWaiting
    <2>3. NobodyToTell => NobodyToTell'
      BY <1>1 DEF NobodyToTell, FirstRunningAgent
    <2>4. intent'["manager"] = {} => Onward(message.epicId)'
      <3>1. (Waiting(message.epicId)' \/ OthersWaiting(message.epicId)' \/ NobodyToTell') => Onward(message.epicId)'
        BY <1>1 DEF Onward, Waiting, OthersWaiting, NobodyToTell, FirstRunningAgent
      <3>2. QED
        BY <2>1, <2>2, <2>3, <3>1
    <2>5. QED
      BY <1>4, <2>1, <2>4
  <1>5. FollowUpTraced'
    <2> SUFFICES ASSUME next \in ReviewStageEvent
                 PROVE  /\ \A i \in intent'["manager"] : i.type \in ReviewStageEvent /\ i.epicId = message.epicId
                        /\ intent'["manager"] = {} => Onward(message.epicId)'
      BY <1>1, <1>3 DEF FollowUpTraced, Onward, Waiting, OthersWaiting, NobodyToTell, FirstRunningAgent
    <2>1. QED
      BY <1>4
  <1>6. FollowsUp'
    BY <1>1 DEF TraceInv, Traced, FollowsUp
  <1>7. Traced'
    BY <1>1, <1>5, <1>6 DEF Traced, RecoveryTraced, PolishTraced, Up
  <1>8. ASSUME NEW e \in Epics, Handoff(e) PROVE Handoff(e)'
    BY <1>1, <1>8, HandoffStays
  <1>9. Held
    BY <1>1, <1>8 DEF Held, Forgotten
  <1>10. QED
    BY <1>7, <1>9

\* What was decided on is written before the file in hand leaves.
LEMMA TraceWrite ==
    ASSUME TraceInv, TypeInv', EmitWrite
    PROVE  Traced' /\ Held
  <1>t. TypeOK /\ HandInv
    BY DEF TraceInv, FullInv, TypeInv
  <1>1. /\ stage = "enqueuing" /\ stage' = "finishing" /\ Up
        /\ UNCHANGED <<epicStatus, processing, running, manager, message>>
        /\ (intent["manager"] = {} /\ pending' = pending) \/ WriteQueueFile("manager")
    BY DEF EmitWrite
  <1>2. message.type \in EventType /\ message.epicId \in EpicId /\ "manager" \in Enqueuer
    BY <1>t DEF TypeOK, Message, Enqueuer
  <1>3. \A a \in Agents : Files(pending[a]) \subseteq Files(pending'[a])
    BY <1>t, <1>1, <1>2, WriteWaits
  <1>4. ASSUME manager = "serving", EmitEvent[message.type] \in ReviewStageEvent
        PROVE  Onward(message.epicId)'
    <2>1. /\ \A i \in intent["manager"] : i.type \in ReviewStageEvent /\ i.epicId = message.epicId
          /\ intent["manager"] = {} => Onward(message.epicId)
      BY <1>1, <1>4 DEF TraceInv, Traced, FollowUpTraced
    <2>2. CASE intent["manager"] = {}
      BY <1>1, <1>3, <2>1, <2>2, OnwardStays
    <2>3. CASE intent["manager"] # {}
      <3>1. WriteQueueFile("manager")
        BY <1>1, <2>3
      <3>2. \E i \in intent["manager"] : i.type \in ReviewStageEvent => Waiting(i.epicId)'
        BY <1>t, <1>2, <3>1, WriteWaits
      <3>3. Waiting(message.epicId)'
        BY <1>1, <2>1, <3>2 DEF Waiting
      <3>4. QED
        BY <1>1, <3>3 DEF Onward, Waiting
    <2>4. QED
      BY <2>2, <2>3
  <1>5. PolishTraced'
    <2> SUFFICES ASSUME manager = "serving", message.type = EpicPolishReady PROVE Onward(message.epicId)'
      BY <1>1 DEF PolishTraced, Onward, Waiting, OthersWaiting, NobodyToTell, FirstRunningAgent
    <2>1. EmitEvent[message.type] \in ReviewStageEvent
      BY <1>2, Emissions DEF EpicPolishReady, EpicFrontendReady
    <2>2. QED
      BY <1>4, <2>1
  <1>6. Traced'
    BY <1>1, <1>5 DEF Traced, RecoveryTraced, FollowsUp, FollowUpTraced, Up
  <1>7. ASSUME NEW e \in Epics, Forgotten(e)', ~Forgotten(e) PROVE OthersInFlight(e) \/ NobodyToTell
    <2>1. manager = "serving" /\ epicStatus[e] = "in-review" /\ Handoff(e) /\ ~Handoff(e)'
      BY <1>1, <1>7 DEF Forgotten
    <2>2. message.epicId = e
      BY <1>1, <1>3, <2>1 DEF Handoff
    <2>3. EmitEvent[message.type] # NoEvent /\ message.type # EpicFrontendReady
      BY <1>1, <2>1, <2>2 DEF TraceInv, Traced, FollowsUp
    <2>4. EmitEvent[message.type] \in ReviewStageEvent
      BY <1>2, <2>3, Emissions
    <2>5. ~Waiting(e)'
      BY <2>1 DEF Waiting, Handoff
    <2>6. ~Waiting(e)
      BY <1>3, <2>5 DEF Waiting
    <2>7. /\ \A i \in intent["manager"] : i.type \in ReviewStageEvent /\ i.epicId = message.epicId
          /\ intent["manager"] = {} => Onward(message.epicId)
      BY <1>1, <2>1, <2>4 DEF TraceInv, Traced, FollowUpTraced
    <2>8. CASE intent["manager"] = {}
      BY <2>2, <2>6, <2>7, <2>8 DEF Onward, OthersWaiting, OthersInFlight
    <2>9. CASE intent["manager"] # {}
      <3>1. \E i \in intent["manager"] : i.type \in ReviewStageEvent => Waiting(i.epicId)'
        BY <1>t, <1>1, <1>2, <2>9, WriteWaits
      <3>2. QED
        BY <2>2, <2>5, <2>7, <3>1 DEF Waiting
    <2>10. QED
      BY <2>8, <2>9
  <1>8. Held
    BY <1>7 DEF Held
  <1>9. QED
    BY <1>6, <1>8

\* The file in hand leaves its directory: a reviewer's or a failed run's, or a polisher's whose
\* follow-up is traced.
LEMMA TraceMove ==
    ASSUME TraceInv, TypeInv', NEW queueState \in {"done", "failed"}, MoveToTerminal(queueState), Up,
           stage = "finishing" \/ stage = "rejecting"
    PROVE  Traced' /\ Held
  <1>t. TypeOK /\ HandInv
    BY DEF TraceInv, FullInv, TypeInv
  <1>1. /\ stage' \in {"claiming", "idle"}
        /\ UNCHANGED <<epicStatus, pending, running, manager>>
    BY DEF MoveToTerminal, NextOfListing
  <1>2. Traced'
    BY <1>1 DEF Traced, RecoveryTraced, FollowsUp, FollowUpTraced, PolishTraced, Up
  <1>3. processing[agent] = <<message>> /\ agent \in Agents /\ processing \in [Agents -> Seq(Message)]
    BY <1>t DEF HandInv, TypeOK
  <1>4. Files(processing[agent]) = {message}
    BY <1>3 DEF Files
  <1>5. \A a \in Agents : a # agent => processing'[a] = processing[a]
    BY <1>3 DEF MoveToTerminal
  <1>6. ASSUME NEW e \in Epics, Forgotten(e)', ~Forgotten(e)
        PROVE  OthersInFlight(e) \/ NobodyToTell \/ RunEndedUndecided(e)
    <2>1. manager = "serving" /\ epicStatus[e] = "in-review" /\ Handoff(e) /\ ~Handoff(e)'
      BY <1>1, <1>6 DEF Forgotten
    <2>2. PICK a \in Agents : \E m \in Files(pending[a]) \cup Files(processing[a]) :
              m.type \in ReviewStageEvent /\ m.epicId = e
      BY <2>1 DEF Handoff
    <2>3. PICK m \in Files(pending[a]) \cup Files(processing[a]) : m.type \in ReviewStageEvent /\ m.epicId = e
      BY <2>2
    <2>4. m \notin Files(pending'[a]) \cup Files(processing'[a])
      BY <2>1, <2>3 DEF Handoff
    <2>5. m \in Files(processing[a]) /\ a = agent
      BY <1>1, <1>5, <2>3, <2>4
    <2>6. message.type \in ReviewStageEvent /\ message.epicId = e
      BY <1>4, <2>3, <2>5
    <2>7. ~Waiting(e)
      BY <1>1, <2>1 DEF Waiting, Handoff
    <2>8. CASE stage = "finishing" /\ message.type = EpicPolishReady
      <3>1. Onward(e)
        BY <2>1, <2>6, <2>8 DEF TraceInv, Traced, PolishTraced
      <3>2. QED
        BY <2>7, <3>1 DEF Onward, OthersWaiting, OthersInFlight
    <2>9. CASE stage = "rejecting" \/ message.type = EpicReviewReady
      BY <2>6, <2>9 DEF RunEndedUndecided
    <2>10. QED
      BY <2>6, <2>8, <2>9 DEF ReviewStageEvent
  <1>7. Held
    BY <1>6 DEF Held
  <1>8. QED
    BY <1>2, <1>7

LEMMA TraceStep == TraceInv /\ [Next]_vars => TraceInv' /\ Held
  <1> SUFFICES ASSUME TraceInv, [Next]_vars PROVE TraceInv' /\ Held
    OBVIOUS
  <1>1. FullInv' /\ TypeInv' /\ TypeOK'
    BY FullInvStep DEF TraceInv, FullInv, TypeInv
  <1>2. CASE UNCHANGED vars
    <2>1. /\ UNCHANGED <<epicStatus, processing, running, manager, recovery, stage, message, pending, intent>>
      BY <1>2 DEF vars, queueVars, consumerVars
    <2>2. QED
      BY <1>1, <2>1, TraceAdds DEF TraceInv
  <1>3. CASE Consume
    <2>1. ASSUME MoveToDone \/ MoveToFailed PROVE Traced' /\ Held
      BY <1>1, <2>1, TraceMove DEF MoveToDone, MoveToFailed
    <2>2. Traced' /\ Held
      BY <1>1, <1>3, <2>1, TraceVisit, TraceRun, TraceEmit, TraceWrite DEF Consume
    <2>3. QED
      BY <1>1, <2>2 DEF TraceInv
  <1>4. CASE Start \/ Stop \/ Poll \/ Operator
    BY <1>1, <1>4, TraceStart, TraceStop, TracePoll, TraceOperator DEF TraceInv
  <1>5. QED
    BY <1>2, <1>3, <1>4 DEF Next

\* No step of the fleet forgets an epic in review but in the ways the property names, for every
\* set of epics and agents, over any stops, failures and events triggered by hand
\* (runFleetStartupAutoRecovery, processOneQueuedMessage).
THEOREM ReviewNotForgotten == Spec => HandoffHeld
  <1>1. Init => TraceInv
    <2>1. Init => Traced
      BY DEF Init, Traced, RecoveryTraced, FollowsUp, FollowUpTraced, PolishTraced
    <2>2. QED
      BY <2>1, InitFullInv DEF TraceInv
  <1>2. TraceInv /\ [Next]_vars => TraceInv'
    BY TraceStep
  <1>3. TraceInv /\ [Next]_vars =>
            [\A e \in Epics : Forgotten(e)' =>
                Forgotten(e) \/ OthersInFlight(e) \/ NobodyToTell \/ RunEndedUndecided(e)]_vars
    BY TraceStep DEF Held
  <1>4. QED
    BY <1>1, <1>2, <1>3, PTL DEF Spec, HandoffHeld

--------------------------------------------------------------------------------
(* What carries an epic through review in a fleet nobody stops. *)

\* The operator neither stops the fleet nor triggers events, and the backlog has no frontend stage.
Uninterrupted == MaxStops = 0 /\ TriggerEvents = {} /\ Frontend = {}

\* Every agent comes up and obeys, polish and review runs succeed, and the fleet has a polisher and
\* a reviewer.
Favourable ==
    /\ FlakyAgents = {} /\ AgentsObeyPrompts
    /\ FailingEvents \cap ReviewStageEvent = {}
    /\ \A type \in ReviewStageEvent : Foremost({a \in Agents : Role[a] = SerializedRole[type]}) # {}

\* The manager comes up once, on an untouched backlog and empty queues.
Calm ==
    /\ manager \in {"off", "starting", "bringing-up", "recovering", "serving"}
    /\ budget["stops"] = 0
    /\ Favourable /\ manager \in {"recovering", "serving"} => running = Agents
    /\ manager # "serving" => /\ recovery = {}
                              /\ \A e \in Epics : epicStatus[e] = "todo"
                              /\ \A a \in Agents : pending[a] = <<>> /\ processing[a] = <<>>
                              /\ \A p \in Enqueuer : intent[p] = {}

FrontendEvent == {EpicFrontendReady, EpicFrontendDone}

NoFrontendEvents ==
    /\ \A a \in Agents : \A m \in Files(pending[a]) : m.type \notin FrontendEvent
    /\ message.type \notin FrontendEvent
    /\ \A i \in intent["poller"] : i.type \notin FrontendEvent

\* m asks for the stage its epic waits for.
Due(m) == /\ m.epicId \in Epics /\ epicStatus[m.epicId] = "in-review"
          /\ m.type = EpicReviewReady => m.epicId \in polished

\* One pending file at most asks for a polish or a review, and it is due.
OneWaiting ==
    \A a \in Agents : \A m \in Files(pending[a]) :
        m.type \in ReviewStageEvent =>
            /\ Due(m)
            /\ \A b \in Agents : \A n \in Files(pending[b]) : n.type \in ReviewStageEvent => b = a /\ n = m

NoneWaiting == \A a \in Agents : \A m \in Files(pending[a]) : m.type \notin ReviewStageEvent

UnderReview == stage \in {"claimed", "dispatching"} /\ message.type \in ReviewStageEvent
FollowingUp == stage \in {"emitting", "enqueuing"}

\* A polish or review run in hand is the only one due, until the reviewer has decided.
ReviewInHand ==
    UnderReview =>
        /\ NoneWaiting
        /\ message.epicId \in Epics
        /\ message.type = EpicReviewReady => message.epicId \in polished
        /\ decided => message.type = EpicReviewReady /\ epicStatus[message.epicId] \in {"done", "changes-requested"}
        /\ ~decided => epicStatus[message.epicId] = "in-review"

\* A successful implementation or polish run is followed by one file for the epic's next stage.
FollowUpInHand ==
    FollowingUp =>
        /\ NoneWaiting
        /\ message.type \in {EpicReady, EpicPolishReady}
        /\ message.epicId \in Epics /\ epicStatus[message.epicId] = "in-review"
        /\ message.type = EpicPolishReady => message.epicId \in polished
        /\ stage = "enqueuing" =>
               \/ intent["manager"] = {} /\ ~Favourable
               \/ \E a \in Agents : intent["manager"] =
                      {[agent |-> a, type |-> EmitEvent[message.type], epicId |-> message.epicId]}

\* An epic in review waits, is under review, or is about to get the file it will wait with.
Carried ==
    Favourable => \A e \in Epics : epicStatus[e] = "in-review" =>
        Waiting(e) \/ ((UnderReview \/ FollowingUp) /\ message.epicId = e)

Course == /\ Calm /\ NoFrontendEvents /\ OneWaiting /\ ReviewInHand /\ FollowUpInHand /\ Carried
          /\ stage = "claimed" => ~decided

FlowInv == FullInv /\ Serialized /\ LaneInv /\ Course

--------------------------------------------------------------------------------
(* What the steps of an uninterrupted fleet keep. *)

\* The manager serves whenever the consume loop or the poller moves.
LEMMA Serving ==
    ASSUME Calm, Up
    PROVE  manager = "serving" /\ (Favourable => running = Agents)
  BY DEF Calm, Up

LEMMA StaysCalm ==
    ASSUME Calm, manager = "serving", UNCHANGED <<manager, running>>, budget'["stops"] = budget["stops"]
    PROVE  Calm'
  BY DEF Calm

\* With nothing queued and every epic untouched there is nothing to carry.
LEMMA FreshCourse ==
    ASSUME Calm', TypeOK', NoFrontendEvents', stage' = "idle",
           \A a \in Agents : pending'[a] = <<>>, \A e \in Epics : epicStatus'[e] = "todo"
    PROVE  Course'
  <1>1. \A a \in Agents : Files(pending'[a]) = {}
    BY DEF Files
  <1>2. OneWaiting'
    BY <1>1 DEF OneWaiting
  <1>3. ReviewInHand' /\ FollowUpInHand'
    BY DEF ReviewInHand, FollowUpInHand, UnderReview, FollowingUp
  <1>4. Carried'
    BY DEF Carried
  <1>5. QED
    BY <1>2, <1>3, <1>4 DEF Course

\* What waits stays due while statuses and polishing are left alone.
LEMMA WaitingFrame ==
    ASSUME OneWaiting, pending' = pending,
           NoneWaiting \/ (epicStatus' = epicStatus /\ polished \subseteq polished')
    PROVE  OneWaiting'
  BY DEF OneWaiting, NoneWaiting, Due

\* In a fleet whose events are serialized, nothing waits beside an epic in progress.
LEMMA NothingElseWaits ==
    ASSUME Serialized, OneWaiting, TypeOK, NEW e \in Epics, epicStatus[e] = "in-progress"
    PROVE  NoneWaiting /\ \A f \in Epics : epicStatus[f] # "in-review"
  <1>1. \A f \in Epics : epicStatus[f] # "in-review"
    BY DEF Serialized, Gate!GateExclusive, Gate!ActiveStatus
  <1>2. QED
    BY <1>1 DEF OneWaiting, Due, NoneWaiting

\* A file that leaves pending takes nothing with it.
LEMMA TailWaiting ==
    ASSUME TypeInv, OneInFlight, OneWaiting, NEW a \in Agents, pending[a] # <<>>, processing[a] = <<>>,
           pending' = [pending EXCEPT ![a] = Tail(@)], UNCHANGED <<epicStatus, polished>>
    PROVE  /\ Head(pending[a]) \in Files(pending[a])
           /\ \A b \in Agents : Files(pending'[b]) \subseteq Files(pending[b])
           /\ \A b \in Agents : \A m \in Files(pending[b]) :
                  m \in Files(pending'[b]) \/ (b = a /\ m = Head(pending[a]))
           /\ OneWaiting'
           /\ Head(pending[a]).type \in ReviewStageEvent => NoneWaiting'
  <1>1. pending[a] \in Seq(Message) /\ pending'[a] = Tail(pending[a])
        /\ \A b \in Agents \ {a} : pending'[b] = pending[b]
    BY DEF TypeInv, TypeOK
  <1>2. /\ Head(pending[a]) \in Message /\ Tail(pending[a]) \in Seq(Message)
        /\ pending[a] = <<Head(pending[a])>> \o Tail(pending[a])
        /\ Files(pending[a]) = {Head(pending[a])} \cup Files(Tail(pending[a]))
    BY <1>1, TailFiles
  <1>3. \A b \in Agents : Files(pending'[b]) \subseteq Files(pending[b])
    BY <1>1, <1>2
  <1>4. OneWaiting'
    <2>1. \A m \in Message : Due(m) <=> Due(m)'
      BY DEF Due
    <2>2. \A b \in Agents : Files(pending[b]) \subseteq Message
      BY DEF TypeInv, TypeOK, Files
    <2>3. QED
      BY <1>3, <2>1, <2>2 DEF OneWaiting
  <1>5. ASSUME Head(pending[a]).type \in ReviewStageEvent PROVE NoneWaiting'
    <2>1. Distinct(pending[a])
      <3>1. <<>> \o pending[a] = pending[a]
        BY <1>1
      <3>2. QED
        BY <3>1, OneInFlightDistinct DEF OnFile
    <2>2. \A x \in Files(Tail(pending[a])) : x.type # Head(pending[a]).type
      BY <1>2, <2>1, DistinctTail
    <2>3. \A b \in Agents : \A m \in Files(pending'[b]) : m.type \notin ReviewStageEvent
      BY <1>1, <1>2, <1>3, <1>5, <2>2 DEF OneWaiting
    <2>4. QED
      BY <2>3 DEF NoneWaiting
  <1>6. QED
    BY <1>1, <1>2, <1>3, <1>4, <1>5

\* Coming up: nothing is queued, interrupted or to be recovered.
LEMMA CourseStart ==
    ASSUME Uninterrupted, FlowInv, TypeInv', Start
    PROVE  Course'
  <1>t. TypeOK /\ TypeOK' /\ HandInv /\ Calm /\ NoFrontendEvents
    BY DEF FlowInv, FullInv, TypeInv, Course
  <1>1. manager # "serving" /\ ~Up
    BY <1>t DEF Start, Preflight, RecoverStaleQueueProcessingFiles, BringUp, AutoRecover, AutoRecoverWrite,
                Serve, Up
  <1>2. /\ stage = "idle" /\ recovery = {} /\ running \subseteq Agents
        /\ \A e \in Epics : epicStatus[e] = "todo"
        /\ \A a \in Agents : pending[a] = <<>> /\ processing[a] = <<>>
        /\ \A p \in Enqueuer : intent[p] = {}
    BY <1>t, <1>1 DEF Calm, HandInv, TypeOK
  <1>3. /\ UNCHANGED <<stage, message, budget, intent>>
        /\ \A e \in Epics : epicStatus'[e] = "todo"
        /\ \A a \in Agents : pending'[a] = <<>> /\ processing'[a] = <<>>
        /\ Calm'
    <2> USE DEF queueVars, consumerVars
    <2>1. CASE Preflight
      <3>1. \A e \in Epics : epicStatus'[e] = "todo"
        BY <1>2, <2>1 DEF Preflight, ResetInProgressToTodo
      <3>2. QED
        BY <1>t, <1>2, <2>1, <3>1 DEF Preflight, Calm
    <2>2. CASE RecoverStaleQueueProcessingFiles
      <3>1. \A a \in Agents : pending'[a] = <<>> /\ processing'[a] = <<>>
        BY <1>2, <2>2 DEF RecoverStaleQueueProcessingFiles
      <3>2. QED
        BY <1>t, <1>2, <2>2, <3>1 DEF RecoverStaleQueueProcessingFiles, Calm
    <2>3. CASE BringUp
      <3>1. Favourable => running' = Agents
        BY <2>3 DEF BringUp, Favourable
      <3>2. recovery' = {}
        BY <1>2, <2>3 DEF BringUp, Recoverable, ActiveStatus
      <3>3. QED
        BY <1>t, <1>2, <2>3, <3>1, <3>2 DEF BringUp, Calm
    <2>4. CASE AutoRecover \/ AutoRecoverWrite
      BY <1>2, <2>4 DEF AutoRecover, AutoRecoverWrite, WriteQueueFile, Enqueuer
    <2>5. CASE Serve
      BY <1>t, <1>2, <2>5 DEF Serve, Calm
    <2>6. QED
      BY <2>1, <2>2, <2>3, <2>4, <2>5 DEF Start
  <1>4. NoFrontendEvents'
    <2>1. \A a \in Agents : Files(pending'[a]) = {}
      BY <1>3 DEF Files
    <2>2. intent'["poller"] = {}
      BY <1>2, <1>3 DEF Enqueuer
    <2>3. QED
      BY <1>t, <1>3, <2>1, <2>2 DEF NoFrontendEvents
  <1>5. QED
    BY <1>t, <1>2, <1>3, <1>4, FreshCourse

\* Nobody stops the fleet.
LEMMA NoStop ==
    ASSUME Uninterrupted, Calm, Stop
    PROVE  FALSE
  BY DEF Uninterrupted, Calm, Stop, Crash, Signal, DownSaved, Exit, Spend

\* The loop goes from one file or agent to the next: the statuses, what waits and what has been
\* decided stay, and no run begins.
LEMMA CourseNext ==
    ASSUME FlowInv, TypeInv', BeginPass \/ Visit \/ MoveToDone \/ MoveToFailed
    PROVE  Course'
  <1>t. TypeOK /\ HandInv /\ Course /\ Calm /\ NoFrontendEvents
    BY DEF FlowInv, FullInv, TypeInv, Course
  <1>1. manager = "serving"
    BY <1>t, Serving DEF BeginPass, Visit, MoveToDone, MoveToFailed
  <1>2. /\ UNCHANGED <<epicStatus, polished, pending, running, manager, intent, budget>>
        /\ ~UnderReview /\ ~FollowingUp /\ ~UnderReview' /\ ~FollowingUp'
        /\ message' \in {message, NoMessage} /\ stage' # "claimed"
    BY DEF BeginPass, Visit, MoveToDone, MoveToFailed, MoveToTerminal, NextOfListing, UnderReview, FollowingUp,
           queueVars, consumerVars
  <1>3. Calm'
    BY <1>t, <1>1, <1>2, StaysCalm
  <1>4. NoFrontendEvents'
    BY <1>t, <1>2 DEF NoFrontendEvents, NoMessage, FrontendEvent, AcceptanceRequired, EpicFrontendReady,
                      EpicFrontendDone
  <1>5. OneWaiting'
    BY <1>t, <1>2, WaitingFrame DEF Course
  <1>6. Carried'
    BY <1>t, <1>2 DEF Course, Carried, Waiting
  <1>7. QED
    BY <1>2, <1>3, <1>4, <1>5, <1>6 DEF Course, ReviewInHand, FollowUpInHand

\* A claimed file is the one that waited, and takes its place.
LEMMA CourseClaim ==
    ASSUME FlowInv, TypeInv', ClaimFile
    PROVE  Course'
  <1>t. TypeOK /\ TypeInv /\ HandInv /\ Course /\ Calm /\ NoFrontendEvents /\ OneWaiting /\ OneInFlight
    BY DEF FlowInv, FullInv, LaneInv, TypeInv, Course
  <1>1. manager = "serving" /\ stage = "claiming" /\ stage' = "claimed" /\ ~decided'
        /\ agent \in Agents /\ pending[agent] # <<>> /\ processing[agent] = <<>>
    BY <1>t, Serving DEF ClaimFile, HandInv, TypeOK
  <1>2. /\ UNCHANGED <<epicStatus, polished, running, manager, intent, budget>>
        /\ message' = Head(pending[agent])
        /\ pending' = [pending EXCEPT ![agent] = Tail(@)]
    BY DEF ClaimFile
  <1>3. /\ Head(pending[agent]) \in Files(pending[agent])
        /\ \A b \in Agents : Files(pending'[b]) \subseteq Files(pending[b])
        /\ \A b \in Agents : \A m \in Files(pending[b]) :
               m \in Files(pending'[b]) \/ (b = agent /\ m = Head(pending[agent]))
        /\ OneWaiting'
        /\ Head(pending[agent]).type \in ReviewStageEvent => NoneWaiting'
    BY <1>t, <1>1, <1>2, TailWaiting
  <1>4. Calm'
    BY <1>t, <1>1, <1>2, StaysCalm
  <1>5. NoFrontendEvents'
    BY <1>t, <1>1, <1>2, <1>3 DEF NoFrontendEvents
  <1>6. message'.type \in ReviewStageEvent => Due(message')
    BY <1>t, <1>1, <1>2, <1>3 DEF OneWaiting
  <1>7. ReviewInHand'
    BY <1>1, <1>2, <1>3, <1>6 DEF ReviewInHand, UnderReview, Due
  <1>8. FollowUpInHand'
    BY <1>1 DEF FollowUpInHand, FollowingUp
  <1>9. ASSUME Favourable, NEW e \in Epics, epicStatus'[e] = "in-review"
        PROVE  Waiting(e)' \/ ((UnderReview \/ FollowingUp)' /\ message'.epicId = e)
    <2>1. Waiting(e)
      BY <1>t, <1>1, <1>2, <1>9 DEF Course, Carried, UnderReview, FollowingUp
    <2>b. PICK b \in Agents : \E m \in Files(pending[b]) : m.type \in ReviewStageEvent /\ m.epicId = e
      BY <2>1 DEF Waiting
    <2>2. PICK m \in Files(pending[b]) : m.type \in ReviewStageEvent /\ m.epicId = e
      BY <2>b
    <2>3. CASE m \in Files(pending'[b])
      BY <2>2, <2>3 DEF Waiting
    <2>4. CASE b = agent /\ m = Head(pending[agent])
      BY <1>1, <1>2, <2>2, <2>4 DEF UnderReview
    <2>5. QED
      BY <1>3, <2>2, <2>3, <2>4
  <1>10. Carried'
    BY <1>9 DEF Carried
  <1>11. QED
    BY <1>1, <1>3, <1>4, <1>5, <1>7, <1>8, <1>10 DEF Course

\* A claim finds no epic in review, so nothing waits that it could overtake.
LEMMA CoursePrepare ==
    ASSUME FlowInv, TypeInv', PrepareDispatch
    PROVE  Course'
  <1>t. TypeOK /\ Course /\ Calm /\ NoFrontendEvents /\ OneWaiting
    BY DEF FlowInv, FullInv, TypeInv, Course
  <1>1. manager = "serving" /\ stage = "claimed" /\ stage' \in {"dispatching", "finishing"} /\ ~FollowingUp
        /\ ~FollowingUp'
    BY <1>t, Serving DEF PrepareDispatch, FollowingUp
  <1>2. UNCHANGED <<pending, processing, running, manager, message, decided, intent, budget>>
    BY DEF PrepareDispatch, queueVars
  <1>3. Calm' /\ NoFrontendEvents'
    BY <1>t, <1>1, <1>2, StaysCalm DEF NoFrontendEvents
  <1>4. ImplementationEvent \cap ReviewStageEvent = {}
    BY DEF ImplementationEvent, ReviewStageEvent, EpicReady, EpicFrontendReady, EpicPolishReady, EpicReviewReady
  <1>5. CASE IsClaim /\ CanClaim(message.epicId)
    <2>1. \A e \in Epics : epicStatus[e] \notin ActiveStatus
      BY <1>5 DEF CanClaim, HasActiveOrReviewingEpic
    <2>2. \A e \in Epics : epicStatus[e] # "in-review"
      BY <2>1 DEF ActiveStatus
    <2>3. NoneWaiting
      BY <1>t, <2>2 DEF OneWaiting, NoneWaiting, Due
    <2>4. \A e \in Epics : epicStatus'[e] # "in-review"
      BY <1>t, <1>5, <2>2 DEF PrepareDispatch, Claim, TypeOK
    <2>5. OneWaiting'
      BY <1>t, <1>2, <2>3, WaitingFrame
    <2>6. Carried'
      BY <2>4 DEF Carried
    <2>7. ~UnderReview'
      BY <1>2, <1>4, <1>5 DEF UnderReview, IsClaim
    <2>8. QED
      BY <1>1, <1>3, <2>5, <2>6, <2>7 DEF Course, ReviewInHand, FollowUpInHand
  <1>6. CASE IsClaim /\ ~CanClaim(message.epicId)
    <2>1. UNCHANGED <<epicStatus, polished>> /\ ~UnderReview /\ ~UnderReview'
      BY <1>2, <1>4, <1>6 DEF PrepareDispatch, UnderReview, IsClaim
    <2>2. OneWaiting'
      BY <1>t, <1>2, <2>1, WaitingFrame
    <2>3. Carried'
      BY <1>t, <1>1, <1>2, <2>1 DEF Course, Carried, Waiting
    <2>4. QED
      BY <1>1, <1>3, <2>1, <2>2, <2>3 DEF Course, ReviewInHand, FollowUpInHand
  <1>7. CASE ~IsClaim
    <2>1. UNCHANGED <<epicStatus, polished>> /\ stage' = "dispatching"
      BY <1>7 DEF PrepareDispatch
    <2>2. UnderReview <=> UnderReview'
      BY <1>1, <1>2, <2>1 DEF UnderReview
    <2>3. OneWaiting'
      BY <1>t, <1>2, <2>1, WaitingFrame
    <2>4. Carried'
      BY <1>t, <1>1, <1>2, <2>1, <2>2 DEF Course, Carried, Waiting
    <2>5. ReviewInHand'
      BY <1>t, <1>2, <2>1, <2>2 DEF Course, ReviewInHand, NoneWaiting
    <2>6. QED
      BY <1>1, <1>3, <2>1, <2>3, <2>4, <2>5 DEF Course, FollowUpInHand
  <1>8. QED
    BY <1>5, <1>6, <1>7

\* The tool accepts a decision on an epic in review, and on one that was just decided.
LEMMA VerdictExists ==
    ASSUME Course, TypeOK, stage = "dispatching", message.type = EpicReviewReady
    PROVE  Verdicts(message.epicId) # {}
  <1>1. UnderReview
    BY DEF UnderReview, ReviewStageEvent
  <1>2. message.epicId \in Epics /\ epicStatus[message.epicId] \in {"in-review", "done", "changes-requested"}
    BY <1>1 DEF Course, ReviewInHand
  <1>3. \/ ValidTransition(epicStatus[message.epicId], "done")
        \/ ValidTransition(epicStatus[message.epicId], "changes-requested")
    BY <1>2 DEF ValidTransition, EpicTransition, EpicStatus
  <1>4. QED
    BY <1>3 DEF Verdicts

\* The decision takes the epic out of review.
LEMMA CourseDecide ==
    ASSUME FlowInv, TypeInv', ReviewerDecides
    PROVE  Course'
  <1>t. TypeOK /\ HandInv /\ Course /\ Calm /\ NoFrontendEvents /\ OneWaiting
    BY DEF FlowInv, FullInv, TypeInv, Course
  <1>1. /\ manager = "serving" /\ stage = "dispatching" /\ message.type = EpicReviewReady /\ UnderReview
        /\ decided' /\ ~FollowingUp'
        /\ UNCHANGED <<pending, running, manager, stage, message, intent, polished>>
    BY <1>t, Serving DEF ReviewerDecides, HandInv, UnderReview, FollowingUp, ReviewStageEvent, queueVars
  <1>2. NoneWaiting /\ message.epicId \in Epics /\ message.epicId \in polished
    BY <1>t, <1>1 DEF Course, ReviewInHand
  <1>3. PICK verdict \in {"done", "changes-requested"} :
            epicStatus' = [epicStatus EXCEPT ![message.epicId] = verdict]
    BY DEF ReviewerDecides, Verdicts
  <1>4. \A e \in Epics : epicStatus'[e] = IF e = message.epicId THEN verdict ELSE epicStatus[e]
    BY <1>t, <1>3 DEF TypeOK
  <1>5. budget'["stops"] = budget["stops"]
    BY <1>t DEF ReviewerDecides, Spend, TypeOK
  <1>6. Calm' /\ NoFrontendEvents'
    BY <1>t, <1>1, <1>5, StaysCalm DEF NoFrontendEvents
  <1>7. OneWaiting' /\ NoneWaiting'
    BY <1>t, <1>1, <1>2, WaitingFrame DEF NoneWaiting
  <1>8. ReviewInHand'
    BY <1>1, <1>2, <1>4, <1>7 DEF ReviewInHand
  <1>9. Carried'
    BY <1>t, <1>1, <1>2, <1>4 DEF Course, Carried, Waiting, UnderReview, FollowingUp
  <1>10. QED
    BY <1>1, <1>6, <1>7, <1>8, <1>9 DEF Course, FollowUpInHand

LEMMA CourseRecords ==
    ASSUME FlowInv, TypeInv', GatekeeperRecords
    PROVE  Course'
  <1>t. TypeOK /\ HandInv /\ Course /\ Calm /\ NoFrontendEvents /\ OneWaiting
    BY DEF FlowInv, FullInv, TypeInv, Course
  <1>1. /\ manager = "serving" /\ stage = "dispatching" /\ ~UnderReview /\ ~UnderReview' /\ ~FollowingUp /\ ~FollowingUp'
        /\ UNCHANGED <<epicStatus, polished, pending, running, manager, stage, message, intent, budget>>
    BY <1>t, Serving DEF GatekeeperRecords, HandInv, UnderReview, FollowingUp, ReviewStageEvent, queueVars,
                         AcceptanceRequired, EpicPolishReady, EpicReviewReady
  <1>2. Calm' /\ NoFrontendEvents'
    BY <1>t, <1>1, StaysCalm DEF NoFrontendEvents
  <1>3. OneWaiting'
    BY <1>t, <1>1, WaitingFrame
  <1>4. Carried'
    BY <1>t, <1>1 DEF Course, Carried, Waiting
  <1>5. QED
    BY <1>1, <1>2, <1>3, <1>4 DEF Course, ReviewInHand, FollowUpInHand

\* A failed implementation run ends alone, a failed polish or review run leaves its epic in review.
LEMMA CourseFails ==
    ASSUME Uninterrupted, FlowInv, TypeInv', DispatchFails
    PROVE  Course'
  <1>t. TypeOK /\ Course /\ Calm /\ NoFrontendEvents /\ OneWaiting /\ ClaimHeld /\ Serialized
    BY DEF FlowInv, FullInv, TypeInv, Course
  <1>1. /\ manager = "serving" /\ stage = "dispatching" /\ stage' = "rejecting"
        /\ ~FollowingUp /\ ~FollowingUp' /\ ~UnderReview'
        /\ UNCHANGED <<polished, pending, running, manager, message, intent>>
        /\ FinalizeEpic(TRUE)
    BY <1>t, Serving DEF DispatchFails, UnderReview, FollowingUp, queueVars
  <1>2. Favourable => ~UnderReview
    <2> SUFFICES ASSUME Favourable, UnderReview PROVE FALSE
      OBVIOUS
    <2>1. message.epicId \in Epics /\ message.type \in ReviewStageEvent
      BY <1>t DEF Course, ReviewInHand, UnderReview
    <2>2. CanRun
      BY <2>1, EpicsAssumption DEF CanRun, NoEpic
    <2>3. message.type \in FailingEvents
      BY <1>1, <2>2 DEF DispatchFails
    <2>4. QED
      BY <2>1, <2>3 DEF Favourable
  <1>3. budget'["stops"] = budget["stops"]
    BY <1>t DEF DispatchFails, Spend, TypeOK
  <1>4. Calm' /\ NoFrontendEvents'
    BY <1>t, <1>1, <1>3, StaysCalm DEF NoFrontendEvents
  <1>5. OneWaiting' /\ Carried'
    <2>1. CASE IsClaim
      <3>1. message.epicId \in Epics /\ epicStatus[message.epicId] = "in-progress"
        BY <1>t, <1>1, <2>1 DEF ClaimHeld, IsClaim, TypeOK, Message, EpicId
      <3>2. NoneWaiting /\ \A f \in Epics : epicStatus[f] # "in-review"
        BY <1>t, <3>1, NothingElseWaits
      <3>3. \A f \in Epics : epicStatus'[f] # "in-review"
        BY <1>t, <1>1, <2>1, <3>1, <3>2 DEF FinalizeEpic, TypeOK
      <3>4. QED
        BY <1>t, <1>1, <3>2, <3>3, WaitingFrame DEF Carried
    <2>2. CASE ~IsClaim
      <3>1. epicStatus' = epicStatus
        BY <1>1, <2>2 DEF FinalizeEpic
      <3>2. OneWaiting'
        BY <1>t, <1>1, <3>1, WaitingFrame
      <3>3. Carried'
        BY <1>t, <1>1, <1>2, <3>1 DEF Course, Carried, Waiting
      <3>4. QED
        BY <3>2, <3>3
    <2>3. QED
      BY <2>1, <2>2
  <1>6. QED
    BY <1>1, <1>4, <1>5 DEF Course, ReviewInHand, FollowUpInHand

\* A run that succeeds brings its epic into review, takes it further in review, or leaves it decided.
LEMMA CourseSucceeds ==
    ASSUME Uninterrupted, FlowInv, TypeInv', DispatchSucceeds
    PROVE  Course'
  <1>t. TypeOK /\ Course /\ Calm /\ NoFrontendEvents /\ OneWaiting /\ ClaimHeld /\ Serialized
    BY DEF FlowInv, FullInv, TypeInv, Course
  <1>1. /\ manager = "serving" /\ stage = "dispatching" /\ stage' # "claimed" /\ stage' # "enqueuing"
        /\ ~FollowingUp /\ ~UnderReview'
        /\ UNCHANGED <<pending, running, manager, message, intent, budget>>
        /\ CanRun /\ MandatoryCommandDone /\ FinalizeEpic(FALSE)
        /\ stage' = IF EmitEvent[message.type] = NoEvent THEN "finishing" ELSE "emitting"
    BY <1>t, Serving DEF DispatchSucceeds, UnderReview, FollowingUp, queueVars
  <1>2. Calm' /\ NoFrontendEvents'
    BY <1>t, <1>1, StaysCalm DEF NoFrontendEvents
  <1>3. message.type \in {EpicReady, EpicPolishReady, EpicReviewReady, AcceptanceRequired} /\ message.epicId \in EpicId
    BY <1>t DEF NoFrontendEvents, FrontendEvent, TypeOK, Message, EventType, EpicEvent
  <1>4. CASE message.type = EpicReady
    <2>1. message.epicId \in Epics /\ IsClaim
      BY <1>1, <1>3, <1>4 DEF CanRun, EpicEvent, EpicId, IsClaim, ImplementationEvent
    <2>2. NoneWaiting /\ \A f \in Epics : epicStatus[f] # "in-review"
      BY <1>t, <1>1, <2>1, NothingElseWaits DEF ClaimHeld
    <2>3. epicStatus' = [epicStatus EXCEPT ![message.epicId] = "in-review"]
      BY <1>1, <1>4, <2>1 DEF FinalizeEpic, EpicReady, EpicFrontendReady
    <2>4. \A f \in Epics : epicStatus'[f] = IF f = message.epicId THEN "in-review" ELSE epicStatus[f]
      BY <1>t, <2>3 DEF TypeOK
    <2>5. EmitEvent[message.type] = EpicPolishReady /\ EpicPolishReady # NoEvent
      BY <1>4 DEF EmitEvent, EventType, EpicEvent, EpicReady, EpicFrontendReady, EpicFrontendDone,
                  EpicPolishReady, EpicReviewReady, AcceptanceRequired, NoEvent
    <2>6. stage' = "emitting" /\ FollowingUp'
      BY <1>1, <2>5 DEF FollowingUp
    <2>7. OneWaiting' /\ NoneWaiting'
      BY <1>t, <1>1, <2>2, WaitingFrame DEF NoneWaiting
    <2>8. FollowUpInHand'
      BY <1>1, <1>4, <2>1, <2>4, <2>6, <2>7 DEF FollowUpInHand, EpicReady, EpicPolishReady
    <2>9. Carried'
      BY <1>1, <2>2, <2>4, <2>6 DEF Carried
    <2>10. QED
      BY <1>1, <1>2, <2>7, <2>8, <2>9 DEF Course, ReviewInHand
  <1>5. CASE message.type = EpicPolishReady
    <2>1. UnderReview /\ ~IsClaim
      BY <1>1, <1>5 DEF UnderReview, ReviewStageEvent, IsClaim, ImplementationEvent,
                        EpicPolishReady, EpicReady, EpicFrontendReady
    <2>2. NoneWaiting /\ message.epicId \in Epics /\ epicStatus[message.epicId] = "in-review"
      BY <1>t, <1>5, <2>1 DEF Course, ReviewInHand, EpicPolishReady, EpicReviewReady
    <2>3. epicStatus' = epicStatus /\ polished' = polished \cup {message.epicId}
      BY <1>1, <1>5, <2>1 DEF FinalizeEpic, DispatchSucceeds
    <2>4. EmitEvent[message.type] = EpicReviewReady /\ EpicReviewReady # NoEvent
      BY <1>5 DEF EmitEvent, EventType, EpicEvent, EpicReady, EpicFrontendReady, EpicFrontendDone,
                  EpicPolishReady, EpicReviewReady, AcceptanceRequired, NoEvent
    <2>5. stage' = "emitting" /\ FollowingUp'
      BY <1>1, <2>4 DEF FollowingUp
    <2>6. OneWaiting' /\ NoneWaiting'
      BY <1>t, <1>1, <2>2, WaitingFrame DEF NoneWaiting
    <2>7. FollowUpInHand'
      BY <1>1, <1>5, <2>2, <2>3, <2>5, <2>6 DEF FollowUpInHand
    <2>8. Carried'
      BY <1>t, <1>1, <2>2, <2>3, <2>5 DEF Course, Carried, NoneWaiting, Waiting
    <2>9. QED
      BY <1>1, <1>2, <2>6, <2>7, <2>8 DEF Course, ReviewInHand
  <1>6. CASE message.type \in {EpicReviewReady, AcceptanceRequired}
    <2>1. ~IsClaim /\ UNCHANGED <<epicStatus, polished>>
      BY <1>1, <1>6 DEF IsClaim, FinalizeEpic, DispatchSucceeds, ImplementationEvent, EpicReviewReady,
                        AcceptanceRequired, EpicReady, EpicFrontendReady, EpicPolishReady
    <2>2. EmitEvent[message.type] = NoEvent
      BY <1>6 DEF EmitEvent, EventType, EpicEvent, EpicReady, EpicFrontendReady, EpicFrontendDone,
                  EpicPolishReady, EpicReviewReady, AcceptanceRequired
    <2>3. ~FollowingUp'
      BY <1>1, <2>2 DEF FollowingUp
    <2>4. OneWaiting'
      BY <1>t, <1>1, <2>1, WaitingFrame
    <2>5. Favourable /\ UnderReview => epicStatus[message.epicId] # "in-review"
      <3> SUFFICES ASSUME Favourable, UnderReview PROVE epicStatus[message.epicId] # "in-review"
        OBVIOUS
      <3>1. message.type = EpicReviewReady
        BY <1>6 DEF UnderReview, ReviewStageEvent, AcceptanceRequired, EpicPolishReady, EpicReviewReady
      <3>2. decided
        BY <1>t, <1>1, <3>1, VerdictExists DEF MandatoryCommandDone, Favourable
      <3>3. QED
        BY <1>t, <3>2 DEF Course, ReviewInHand
    <2>6. Carried'
      BY <1>t, <1>1, <2>1, <2>5 DEF Course, Carried, Waiting
    <2>7. QED
      BY <1>1, <1>2, <2>3, <2>4, <2>6 DEF Course, ReviewInHand, FollowUpInHand
  <1>7. QED
    BY <1>3, <1>4, <1>5, <1>6

\* There is one agent to take a follow-up event at most, as nothing of the kind is in flight, and in
\* a favourable fleet there is one.
LEMMA TargetExists ==
    ASSUME Uninterrupted, FlowInv, stage = "emitting", Up
    PROVE  \/ ResolveTargetAgents(EmitEvent[message.type]) = {} /\ ~Favourable
           \/ \E a \in Agents : ResolveTargetAgents(EmitEvent[message.type]) = {a}
  <1>t. TypeOK /\ HandInv /\ Course /\ Calm
    BY DEF FlowInv, FullInv, TypeInv, Course
  <1>1. /\ manager = "serving" /\ (Favourable => running = Agents) /\ running \subseteq Agents /\ agent \in Agents
        /\ NoneWaiting /\ message.type \in {EpicReady, EpicPolishReady}
    BY <1>t, Serving DEF Course, FollowUpInHand, FollowingUp, TypeOK
  <1> DEFINE next == EmitEvent[message.type]
  <1>2. next \in ReviewStageEvent /\ next # message.type
    <2> USE DEF EmitEvent, EventType, EpicEvent, ReviewStageEvent, EpicReady, EpicFrontendReady, EpicFrontendDone,
                EpicPolishReady, EpicReviewReady, AcceptanceRequired
    <2>1. message.type = EpicReady => next = EpicPolishReady
      OBVIOUS
    <2>2. message.type = EpicPolishReady => next = EpicReviewReady
      OBVIOUS
    <2>3. QED
      BY <1>1, <2>1, <2>2
  <1>3. ASSUME NEW a \in Agents PROVE ~HasInFlightEvent(a, next)
    <2>1. \A m \in Files(pending[a]) : m.type # next
      BY <1>1, <1>2 DEF NoneWaiting
    <2>2. processing[a] = <<>> \/ processing[a] = <<message>>
      BY <1>t, <1>1 DEF HandInv
    <2>3. \A m \in Files(processing[a]) : m = message
      BY <2>2 DEF Files
    <2>4. QED
      BY <1>2, <2>1, <2>3 DEF HasInFlightEvent
  <1>4. FirstRunningAgent(next) \subseteq Agents /\ (Favourable => FirstRunningAgent(next) # {})
    <2>1. FirstRunningAgent(next) \subseteq Agents
      BY <1>1 DEF FirstRunningAgent, Foremost
    <2>2. ASSUME Favourable PROVE FirstRunningAgent(next) # {}
      <3>1. FirstRunningAgent(next) = Foremost({b \in Agents : Role[b] = SerializedRole[next]})
        BY <1>1, <2>2 DEF FirstRunningAgent
      <3>2. QED
        BY <1>2, <2>2, <3>1 DEF Favourable
    <2>3. QED
      BY <2>1, <2>2
  <1>5. ASSUME NEW a \in FirstRunningAgent(next), NEW b \in FirstRunningAgent(next) PROVE b = a
    <2>1. a <= b /\ b <= a /\ a \in Nat /\ b \in Nat
      BY <1>4, AgentsAssumption DEF FirstRunningAgent, Foremost
    <2>2. QED
      BY <2>1
  <1>6. ResolveTargetAgents(next) = FirstRunningAgent(next)
    BY <1>3, <1>4 DEF ResolveTargetAgents
  <1>7. CASE FirstRunningAgent(next) = {}
    BY <1>4, <1>6, <1>7
  <1>8. ASSUME NEW a \in FirstRunningAgent(next)
        PROVE  ResolveTargetAgents(next) = {a} /\ a \in Agents
    BY <1>4, <1>5, <1>6
  <1>9. QED
    BY <1>6, <1>7, <1>8

\* The follow-up is decided for an agent that is there, if there is one.
LEMMA CourseEmit ==
    ASSUME Uninterrupted, FlowInv, TypeInv', EmitFollowUp
    PROVE  Course'
  <1>t. TypeOK /\ Course /\ Calm /\ NoFrontendEvents /\ OneWaiting
    BY DEF FlowInv, FullInv, TypeInv, Course
  <1>1. /\ manager = "serving" /\ stage = "emitting" /\ stage' = "enqueuing" /\ FollowingUp /\ FollowingUp'
        /\ ~UnderReview /\ ~UnderReview'
        /\ UNCHANGED <<epicStatus, polished, pending, running, manager, message, budget>>
    BY <1>t, Serving DEF EmitFollowUp, UnderReview, FollowingUp, queueVars
  <1>2. message.type \in {EpicReady, EpicPolishReady} /\ message.epicId \in Epics /\ NoneWaiting
    BY <1>t, <1>1 DEF Course, FollowUpInHand
  <1>3. EmitEvent[message.type] # EpicReady
    <2> USE DEF EmitEvent, EventType, EpicEvent, EpicReady, EpicFrontendReady, EpicFrontendDone,
                EpicPolishReady, EpicReviewReady, AcceptanceRequired
    <2>1. message.type = EpicReady => EmitEvent[message.type] = EpicPolishReady
      OBVIOUS
    <2>2. message.type = EpicPolishReady => EmitEvent[message.type] = EpicReviewReady
      OBVIOUS
    <2>3. QED
      BY <1>2, <2>1, <2>2
  <1>4. \/ ResolveTargetAgents(EmitEvent[message.type]) = {} /\ ~Favourable
        \/ \E a \in Agents : ResolveTargetAgents(EmitEvent[message.type]) = {a}
    BY <1>1, TargetExists DEF EmitFollowUp
  <1>5. intent' = [intent EXCEPT !["manager"] =
            {[agent |-> b, type |-> EmitEvent[message.type], epicId |-> message.epicId] :
                b \in ResolveTargetAgents(EmitEvent[message.type])}]
    <2>1. ResolveQueueEvent(EmitEvent[message.type], message.epicId) =
              {[type |-> EmitEvent[message.type], epicId |-> message.epicId]}
      BY <1>3 DEF ResolveQueueEvent
    <2>2. DecideEnqueue("manager", EmitEvent[message.type], message.epicId)
      BY DEF EmitFollowUp
    <2>3. PICK event \in ResolveQueueEvent(EmitEvent[message.type], message.epicId) :
              intent' = [intent EXCEPT !["manager"] =
                  {[agent |-> b, type |-> event.type, epicId |-> event.epicId] :
                      b \in ResolveTargetAgents(event.type)}]
      BY <2>2 DEF DecideEnqueue
    <2>4. event.type = EmitEvent[message.type] /\ event.epicId = message.epicId
      BY <2>1
    <2>5. QED
      BY <2>3, <2>4
  <1>6. /\ \/ intent'["manager"] = {} /\ ~Favourable
           \/ \E a \in Agents : intent'["manager"] =
                  {[agent |-> a, type |-> EmitEvent[message.type], epicId |-> message.epicId]}
        /\ intent'["poller"] = intent["poller"]
    <2> DEFINE next == EmitEvent[message.type]
    <2>1. /\ intent'["manager"] = {[agent |-> b, type |-> next, epicId |-> message.epicId] :
                                       b \in ResolveTargetAgents(next)}
          /\ intent'["poller"] = intent["poller"]
      BY <1>t, <1>5 DEF TypeOK, Enqueuer
    <2> HIDE DEF next
    <2>2. CASE ResolveTargetAgents(next) = {} /\ ~Favourable
      BY <2>1, <2>2
    <2>3. ASSUME NEW a \in Agents, ResolveTargetAgents(next) = {a}
          PROVE  intent'["manager"] = {[agent |-> a, type |-> next, epicId |-> message.epicId]}
      BY <2>1, <2>3
    <2>4. QED
      BY <1>4, <2>1, <2>2, <2>3 DEF next
  <1>7. Calm' /\ NoFrontendEvents'
    BY <1>t, <1>1, <1>6, StaysCalm DEF NoFrontendEvents
  <1>8. OneWaiting' /\ NoneWaiting'
    BY <1>t, <1>1, <1>2, WaitingFrame DEF NoneWaiting
  <1>9. FollowUpInHand'
    BY <1>t, <1>1, <1>6, <1>8 DEF Course, FollowUpInHand
  <1>10. Carried'
    BY <1>t, <1>1 DEF Course, Carried, Waiting
  <1>11. QED
    BY <1>1, <1>7, <1>8, <1>9, <1>10 DEF Course, ReviewInHand

\* The follow-up's file is the one the epic waits with.
LEMMA CourseWritten ==
    ASSUME FlowInv, TypeInv', EmitWrite, NEW a \in Agents,
           intent["manager"] = {[agent |-> a, type |-> EmitEvent[message.type], epicId |-> message.epicId]}
    PROVE  Course'
  <1>t. TypeOK /\ Course /\ Calm /\ NoFrontendEvents /\ "manager" \in Enqueuer
    BY DEF FlowInv, FullInv, TypeInv, Course, Enqueuer
  <1>1. /\ manager = "serving" /\ stage = "enqueuing" /\ stage' = "finishing" /\ FollowingUp /\ ~FollowingUp'
        /\ ~UnderReview /\ ~UnderReview'
        /\ UNCHANGED <<epicStatus, polished, running, manager, message, budget>>
    BY <1>t, Serving DEF EmitWrite, UnderReview, FollowingUp
  <1>2. /\ message.type \in {EpicReady, EpicPolishReady} /\ message.epicId \in Epics /\ NoneWaiting
        /\ epicStatus[message.epicId] = "in-review"
        /\ message.type = EpicPolishReady => message.epicId \in polished
    BY <1>t, <1>1 DEF Course, FollowUpInHand
  <1>3. intent["manager"] = {[agent |-> a, type |-> EmitEvent[message.type], epicId |-> message.epicId]}
    OBVIOUS
  <1>4. EmitEvent[message.type] = IF message.type = EpicReady THEN EpicPolishReady ELSE EpicReviewReady
    <2> USE DEF EmitEvent, EventType, EpicEvent, EpicReady, EpicFrontendReady, EpicFrontendDone,
                EpicPolishReady, EpicReviewReady, AcceptanceRequired
    <2>1. message.type = EpicReady => EmitEvent[message.type] = EpicPolishReady
      OBVIOUS
    <2>2. message.type = EpicPolishReady => EmitEvent[message.type] = EpicReviewReady
      OBVIOUS
    <2>3. QED
      BY <1>2, <2>1, <2>2
  <1>5. PICK i \in intent["manager"], m \in Message :
            /\ i.agent \in Agents /\ m.type = i.type /\ m.epicId = i.epicId
            /\ pending' = [pending EXCEPT ![i.agent] = Append(@, m)]
            /\ intent' = [intent EXCEPT !["manager"] = @ \ {i}]
    <2>1. WriteQueueFile("manager")
      BY <1>3 DEF EmitWrite
    <2>2. QED
      BY <1>t, <2>1, WriteOne
  <1>6. i.agent = a /\ m.type = EmitEvent[message.type] /\ m.epicId = message.epicId
    BY <1>3, <1>5
  <1>7. \A b \in Agents : Files(pending'[b]) = IF b = a THEN Files(pending[b]) \cup {m} ELSE Files(pending[b])
    <2>1. \A b \in Agents : pending[b] \in Seq(Message)
                            /\ pending'[b] = IF b = a THEN Append(pending[b], m) ELSE pending[b]
      BY <1>t, <1>5, <1>6 DEF TypeOK
    <2>2. QED
      BY <2>1, AppendFiles
  <1>8. intent'["poller"] = intent["poller"]
    BY <1>t, <1>5 DEF TypeOK, Enqueuer
  <1>9. m.type \in ReviewStageEvent /\ m.type \notin FrontendEvent
    BY <1>4, <1>6 DEF ReviewStageEvent, FrontendEvent, EpicFrontendReady, EpicFrontendDone, EpicPolishReady,
                      EpicReviewReady
  <1>10. Calm' /\ NoFrontendEvents'
    BY <1>t, <1>1, <1>7, <1>8, <1>9, StaysCalm DEF NoFrontendEvents
  <1>11. OneWaiting'
    <2>1. \A b \in Agents : \A n \in Files(pending'[b]) : n.type \in ReviewStageEvent => b = a /\ n = m
      BY <1>2, <1>7 DEF NoneWaiting
    <2>2. Due(m)'
      BY <1>1, <1>2, <1>4, <1>6 DEF Due, EpicPolishReady, EpicReviewReady
    <2>3. QED
      BY <2>1, <2>2 DEF OneWaiting
  <1>12. Carried'
    <2>1. Waiting(message.epicId)'
      BY <1>1, <1>6, <1>7, <1>9 DEF Waiting
    <2>2. \A e \in Epics : Waiting(e) => Waiting(e)'
      BY <1>7 DEF Waiting
    <2>3. QED
      BY <1>t, <1>1, <2>1, <2>2 DEF Course, Carried
  <1>13. QED
    BY <1>1, <1>10, <1>11, <1>12 DEF Course, ReviewInHand, FollowUpInHand

LEMMA CourseWrite ==
    ASSUME FlowInv, TypeInv', EmitWrite
    PROVE  Course'
  <1>t. TypeOK /\ Course /\ Calm /\ NoFrontendEvents /\ "manager" \in Enqueuer
    BY DEF FlowInv, FullInv, TypeInv, Course, Enqueuer
  <1>1. /\ manager = "serving" /\ stage = "enqueuing" /\ stage' = "finishing" /\ FollowingUp /\ ~FollowingUp'
        /\ ~UnderReview /\ ~UnderReview'
        /\ UNCHANGED <<epicStatus, polished, running, manager, message, budget>>
    BY <1>t, Serving DEF EmitWrite, UnderReview, FollowingUp
  <1>2. /\ message.type \in {EpicReady, EpicPolishReady} /\ message.epicId \in Epics /\ NoneWaiting
        /\ epicStatus[message.epicId] = "in-review"
        /\ message.type = EpicPolishReady => message.epicId \in polished
    BY <1>t, <1>1 DEF Course, FollowUpInHand
  <1>3. CASE intent["manager"] = {} /\ ~Favourable
    <2>1. UNCHANGED <<pending, intent>>
      BY <1>3 DEF EmitWrite, WriteQueueFile
    <2>2. Calm' /\ NoFrontendEvents'
      BY <1>t, <1>1, <2>1, StaysCalm DEF NoFrontendEvents
    <2>3. OneWaiting' /\ Carried'
      BY <1>t, <1>1, <1>3, <2>1, WaitingFrame DEF Course, Carried
    <2>4. QED
      BY <1>1, <2>2, <2>3 DEF Course, ReviewInHand, FollowUpInHand
  <1>4. ASSUME NEW a \in Agents,
               intent["manager"] = {[agent |-> a, type |-> EmitEvent[message.type], epicId |-> message.epicId]}
        PROVE  Course'
    BY <1>4, CourseWritten
  <1>5. QED
    BY <1>t, <1>1, <1>3, <1>4 DEF Course, FollowUpInHand

\* The poller adds neither polish nor review events.
LEMMA CoursePoll ==
    ASSUME Uninterrupted, FlowInv, TypeInv', Poll
    PROVE  Course'
  <1>t. TypeOK /\ Course /\ Calm /\ NoFrontendEvents /\ OneWaiting /\ "poller" \in Enqueuer
    BY DEF FlowInv, FullInv, TypeInv, Course, Enqueuer
  <1>1. manager = "serving"
    BY <1>t, Serving DEF Poll, PollProbe, PollReady, PollAcceptance, PollWrite, Polling, Up
  <1>2. UNCHANGED <<epicStatus, polished, running, manager, stage, message, decided, budget>>
    BY DEF Poll, PollProbe, PollReady, PollAcceptance, PollWrite, consumerVars
  <1>3. Calm'
    BY <1>t, <1>1, <1>2, StaysCalm
  <1> DEFINE
        Kept ==
        /\ intent'["manager"] = intent["manager"]
        /\ \A i \in intent'["poller"] : i.type \notin FrontendEvent
        /\ \A b \in Agents : \A m \in Files(pending'[b]) :
               m \in Files(pending[b]) \/ m.type \notin ReviewStageEvent \cup FrontendEvent
        /\ \A b \in Agents : Files(pending[b]) \subseteq Files(pending'[b])
  <1>4. Kept
    <2>1. CASE PollProbe
      BY <1>t, <2>1 DEF PollProbe, NoFrontendEvents, queueVars
    <2>2. ASSUME NEW type \in {EpicReady, AcceptanceRequired}, DecideEnqueue("poller", type, NoEpic),
                 pending' = pending
          PROVE  Kept
      <3>1. \A event \in ResolveQueueEvent(type, NoEpic) : event.type = type
        BY <2>2 DEF ResolveQueueEvent, Uninterrupted
      <3>2. PICK S : /\ intent' = [intent EXCEPT !["poller"] = S]
                     /\ \A i \in S : i.type = type
        <4>1. PICK event \in ResolveQueueEvent(type, NoEpic) :
                  intent' = [intent EXCEPT !["poller"] =
                      {[agent |-> a, type |-> event.type, epicId |-> event.epicId] :
                          a \in ResolveTargetAgents(event.type)}]
          BY <2>2 DEF DecideEnqueue
        <4>2. \A i \in {[agent |-> a, type |-> event.type, epicId |-> event.epicId] :
                           a \in ResolveTargetAgents(event.type)} : i.type = type
          BY <3>1
        <4>3. QED
          BY <4>1, <4>2
      <3>3. type \notin FrontendEvent
        BY DEF FrontendEvent, EpicReady, AcceptanceRequired, EpicFrontendReady, EpicFrontendDone
      <3>4. QED
        BY <1>t, <2>2, <3>2, <3>3 DEF TypeOK, Enqueuer
    <2>3. CASE PollWrite
      <3>1. PICK i \in intent["poller"], m \in Message :
                /\ i.agent \in Agents /\ m.type = i.type
                /\ pending' = [pending EXCEPT ![i.agent] = Append(@, m)]
                /\ intent' = [intent EXCEPT !["poller"] = @ \ {i}]
        BY <1>t, <2>3, WriteOne DEF PollWrite
      <3>2. m.type \notin ReviewStageEvent \cup FrontendEvent
        BY <1>t, <3>1 DEF NoFrontendEvents, FrontendEvent, FlowInv, LaneInv, Lanes, PollerEvent, ReviewStageEvent,
                          EpicReady, AcceptanceRequired, EpicFrontendReady, EpicFrontendDone,
                          EpicPolishReady, EpicReviewReady
      <3>3. \A b \in Agents : Files(pending'[b]) =
                IF b = i.agent THEN Files(pending[b]) \cup {m} ELSE Files(pending[b])
        <4>1. \A b \in Agents : pending[b] \in Seq(Message)
                                /\ pending'[b] = IF b = i.agent THEN Append(pending[b], m) ELSE pending[b]
          BY <1>t, <3>1 DEF TypeOK
        <4>2. m \in Message
          BY <3>1
        <4>3. \A b \in Agents : Files(Append(pending[b], m)) = Files(pending[b]) \cup {m}
          BY <4>1, <4>2, AppendFiles
        <4>4. QED
          BY <4>1, <4>3
      <3>4. intent'["manager"] = intent["manager"] /\ intent'["poller"] \subseteq intent["poller"]
        BY <1>t, <3>1 DEF TypeOK, Enqueuer
      <3>5. QED
        BY <1>t, <3>2, <3>3, <3>4 DEF NoFrontendEvents
    <2>4. QED
      BY <2>1, <2>2, <2>3 DEF Poll, PollReady, PollAcceptance, queueVars
  <1>5. NoFrontendEvents'
    BY <1>t, <1>2, <1>4 DEF NoFrontendEvents
  <1>6. OneWaiting'
    <2>1. \A m : Due(m) <=> Due(m)'
      BY <1>2 DEF Due
    <2>2. QED
      BY <1>t, <1>4, <2>1 DEF OneWaiting
  <1>7. NoneWaiting => NoneWaiting'
    BY <1>4 DEF NoneWaiting
  <1>8. ReviewInHand' /\ FollowUpInHand' /\ (stage = "claimed" => ~decided)'
    BY <1>t, <1>2, <1>4, <1>7 DEF Course, ReviewInHand, FollowUpInHand, UnderReview, FollowingUp
  <1>9. Carried'
    <2>1. \A e \in Epics : Waiting(e) => Waiting(e)'
      BY <1>4 DEF Waiting
    <2>2. QED
      BY <1>t, <1>2, <2>1 DEF Course, Carried, UnderReview, FollowingUp
  <1>10. QED
    BY <1>3, <1>5, <1>6, <1>8, <1>9 DEF Course

--------------------------------------------------------------------------------

LEMMA FlowStep ==
    ASSUME Uninterrupted, FlowInv, [Next]_vars
    PROVE  FlowInv'
  <1>1. FullInv' /\ TypeInv'
    BY FullInvStep DEF FlowInv, FullInv
  <1>2. Serialized'
    BY GateStep, SerializedStep DEF FlowInv, FullInv, TypeInv
  <1>3. LaneInv'
    BY LaneStep DEF FlowInv, Uninterrupted
  <1>4. ~Operator
    BY DEF FlowInv, LaneInv, Lanes, Operator, TriggerWrite, WriteQueueFile, Uninterrupted
  <1>5. Calm
    BY DEF FlowInv, Course
  <1>6. CASE UNCHANGED vars
    <2>1. UNCHANGED <<epicStatus, polished, pending, processing, running, manager, recovery, stage, message,
                      decided, intent, budget>>
      BY <1>6 DEF vars, queueVars, consumerVars
    <2>2. Calm' /\ NoFrontendEvents' /\ OneWaiting'
      BY <2>1 DEF FlowInv, Course, Calm, NoFrontendEvents, OneWaiting, Due
    <2>3. ReviewInHand' /\ FollowUpInHand' /\ Carried' /\ (stage = "claimed" => ~decided)'
      BY <2>1 DEF FlowInv, Course, ReviewInHand, FollowUpInHand, Carried, UnderReview, FollowingUp, NoneWaiting,
                  Waiting
    <2>4. QED
      BY <1>1, <1>2, <1>3, <2>2, <2>3 DEF FlowInv, Course
  <1>7. CASE Next
    <2>1. Course'
      BY <1>1, <1>4, <1>5, <1>7, CourseStart, NoStop, CourseNext, CourseClaim, CoursePrepare, CourseDecide,
         CourseRecords, CourseFails, CourseSucceeds, CourseEmit, CourseWrite, CoursePoll
         DEF Next, Consume, Run
    <2>2. QED
      BY <1>1, <1>2, <1>3, <2>1 DEF FlowInv
  <1>8. QED
    BY <1>6, <1>7

LEMMA InitFlow ==
    ASSUME Uninterrupted, Init
    PROVE  FlowInv
  <1>1. Serialized
    BY DEF Init, Serialized, Gate!GateExclusive, Gate!ActiveStatus
  <1>2. \A a \in Agents : Files(pending[a]) = {}
    BY DEF Init, Files
  <1>3. Calm
    BY DEF Init, Calm, Uninterrupted
  <1>4. NoFrontendEvents
    BY <1>2 DEF Init, NoFrontendEvents, Enqueuer, NoMessage, FrontendEvent, AcceptanceRequired, EpicFrontendReady,
                EpicFrontendDone
  <1>5. OneWaiting /\ Carried /\ ~UnderReview /\ ~FollowingUp
    BY <1>2 DEF Init, OneWaiting, Carried, UnderReview, FollowingUp
  <1>6. Course
    BY <1>3, <1>4, <1>5 DEF Init, Course, ReviewInHand, FollowUpInHand
  <1>7. QED
    BY <1>1, <1>6, InitFullInv, InitLane DEF FlowInv

NoneForgotten == \A e \in Epics : ~Forgotten(e)

\* In an uninterrupted and favourable fleet no epic in review is ever forgotten, without exception: the
\* file that takes it further waits or is in hand, or the step in hand is about to write it
\* (processOneQueuedMessage).
THEOREM UninterruptedNeverForgets == ASSUME Uninterrupted, Favourable PROVE Spec => []NoneForgotten
  <1>1. FlowInv => NoneForgotten
    <2> SUFFICES ASSUME FlowInv, NEW e \in Epics, epicStatus[e] = "in-review"
                 PROVE  Handoff(e)
      BY DEF NoneForgotten, Forgotten
    <2>1. CASE Waiting(e)
      BY <2>1 DEF Waiting, Handoff
    <2>2. CASE UnderReview /\ message.epicId = e
      <3>1. agent \in Agents /\ processing[agent] = <<message>>
        BY <2>2 DEF FlowInv, FullInv, TypeInv, TypeOK, HandInv, UnderReview
      <3>2. message \in Files(processing[agent])
        BY <3>1 DEF Files
      <3>3. QED
        BY <2>2, <3>1, <3>2 DEF Handoff, UnderReview
    <2>3. CASE FollowingUp /\ message.epicId = e
      BY <2>3 DEF FollowingUp, Handoff
    <2>4. QED
      BY <2>1, <2>2, <2>3 DEF FlowInv, Course, Carried
  <1>2. Init => FlowInv
    BY InitFlow
  <1>3. FlowInv /\ [Next]_vars => FlowInv'
    BY FlowStep
  <1>4. QED
    BY <1>1, <1>2, <1>3, PTL DEF Spec

\* In an uninterrupted fleet, whatever its agents do or fail to do, the reviewer only ever sees an epic
\* that was polished since its last claim (processOneQueuedMessage, claimEpicForImplementation).
THEOREM PolishPrecedesReview == ASSUME Uninterrupted PROVE Spec => []PolishedBeforeReview
  <1>1. FlowInv => PolishedBeforeReview
    BY DEF FlowInv, Course, ReviewInHand, UnderReview, PolishedBeforeReview, ReviewStageEvent
  <1>2. Init => FlowInv
    BY InitFlow
  <1>3. FlowInv /\ [Next]_vars => FlowInv'
    BY FlowStep
  <1>4. QED
    BY <1>1, <1>2, <1>3, PTL DEF Spec

\* In such a fleet the decision tool accepts one of the decisions the review prompt demands.
THEOREM ReviewerCanDecide == ASSUME Uninterrupted PROVE Spec => []DecisionPossible
  <1>1. FlowInv => DecisionPossible
    BY VerdictExists DEF FlowInv, FullInv, TypeInv, DecisionPossible
  <1>2. Init => FlowInv
    BY InitFlow
  <1>3. FlowInv /\ [Next]_vars => FlowInv'
    BY FlowStep
  <1>4. QED
    BY <1>1, <1>2, <1>3, PTL DEF Spec
================================================================================
