--------------------------- MODULE AgentOutputProofs ---------------------------
(***************************************************************************)
(* Proofs about AgentSessions and AgentOutput, for every set of agents,    *)
(* every cache size and every bound.                                       *)
(*                                                                         *)
(* The invariant of the sessions, TurnsInv, ties what a codex agent's      *)
(* connection holds to the one caller that awaits it: at most one entry is *)
(* outstanding, it is the caller's latest request or its turn, and whoever *)
(* awaits has been given an outcome or has such an entry.  DownInv follows *)
(* `down' through the children, Sound follows the lines of one agent       *)
(* through its chain into its file.                                        *)
(***************************************************************************)
EXTENDS AgentOutput, TLAPS

\* An answer names the request it belongs to, nothing, or the rejection.
LinesTrue ==
    \A a \in Codex : \A i \in DOMAIN lines[a] :
        lines[a][i].kind = "response" => lines[a][i].body \in {lines[a][i].id, Nameless, Rejected}

\* Where a dispatch can be: with a codex agent, a Claude agent, or nowhere.
RunTrue ==
    /\ run.pc = "idle" <=> run.agent = Nobody
    /\ run.pc \in Awaiting => run.agent \in Codex
    /\ run.pc = "query" => run.agent \in Claude
    /\ \A a \in query : run.agent = a /\ run.pc = "query"
    /\ phase = "up" => run.pc = "idle" /\ listed = {}

\* Somebody awaits codex agent a: `up' (even when the process is gone), or the dispatch.
AwaitedByUp(a) == phase \in {"up", "crashed"} /\ at = a
AwaitedByRun(a) == run.agent = a /\ run.pc \in Awaiting

Outstanding(a) == pending[a] \cup waiters[a]

\* What is outstanding is one request or one turn of the caller that waits for it and has been
\* given nothing; a dispatch that waits has been given something or has something outstanding.
OwedAt(a) ==
    /\ Outstanding(a) # {} => /\ a \in connected /\ reply[a] = NoReply
                              /\ AwaitedByUp(a) \/ AwaitedByRun(a)
    /\ pending[a] = {} \/ waiters[a] = {}
    /\ \A x, y \in Outstanding(a) : x = y
    /\ AwaitedByRun(a) => reply[a] # NoReply \/ Outstanding(a) # {}
Owed == \A a \in Codex : OwedAt(a)

\* The dispatch to a codex agent waits for its own request, then for the turn that request started.
OwnRequest ==
    run.agent \in Codex =>
        /\ run.pc \in {"thread", "turn"} =>
               /\ waiters[run.agent] = {} /\ pending[run.agent] \subseteq {run.asked}
               /\ reply[run.agent] > Nameless => reply[run.agent] = run.asked
        /\ run.pc = "wait" =>
               /\ pending[run.agent] = {} /\ waiters[run.agent] \subseteq {run.turn}
               /\ run.turn = run.asked /\ run.turn # Nameless
               /\ reply[run.agent] > Nameless => reply[run.agent] = run.turn /\ run.turn \in heard[run.agent]
        /\ run.pc \in {"save", "after"} /\ run.turn # Nameless =>
               run.turn = run.asked /\ run.turn \in heard[run.agent]

Remembered == \A a \in Codex : \A i \in DOMAIN completed[a] : completed[a][i] \in heard[a]

TurnsInv == LinesTrue /\ RunTrue /\ Owed /\ OwnRequest /\ Remembered

\* A child without a connection is the one `down' has sent SIGTERM; whoever it is through with is stopped.
DownInv ==
    /\ \A a \in Codex : child[a] = "running" /\ a \notin connected => at = a /\ grace = "SIGTERM"
    /\ phase \in {"up", "serving"} => grace = "none"
    /\ phase \in {"serving", "stopped", "exited"} => at = Nobody
    /\ phase = "down" /\ at # Nobody => at \in todo /\ at \in Codex \ connected
    /\ phase \in {"down", "stopped", "exited"} =>
           \A a \in Agents \ todo : draft[a] = "stopped" /\ (a \in Codex => child[a] # "running")
    /\ phase \in {"stopped", "exited"} => todo = {} /\ agents = draft


\* No completion has been forgotten for a later one, and none has been forgotten at all.
CacheNotFull == \A a \in Codex : Len(completed[a]) < MaxCompletedTurnCache
AllRemembered == \A a \in Codex : \A turn \in heard[a] : \E i \in DOMAIN completed[a] : completed[a][i] = turn
NotWaitedFor == \A a \in Codex : waiters[a] \cap heard[a] = {}

USE DEF managerVars, childVars, clientVars, dispatchVars

--------------------------------------------------------------------------------
(* Types. *)

\* A bound that is spent.
LEMMA SpendTyped ==
    ASSUME TypeOK, NEW what \in {"dispatches", "faults"}, Spend(what)
    PROVE  budget' \in [{"dispatches", "faults"} -> Nat]
  BY DEF TypeOK, Spend

\* The consume loop between two dispatches.
LEMMA NoRunTyped == NoRun \in [agent : Agents \cup {Nobody},
                               pc : {"idle", "prompt", "query", "save", "after"} \cup Awaiting,
                               turn : Nat, asked : Nat, view : [Agents -> Session]]
  BY DEF NoRun, Session

\* A connection that is forgotten.
LEMMA FinalizeTyped ==
    ASSUME TypeOK, NEW a \in Codex, Finalize(a)
    PROVE  /\ pending' \in [Codex -> SUBSET Nat] /\ waiters' \in [Codex -> SUBSET Nat]
           /\ reply' \in [Agents -> Int] /\ lines' \in [Codex -> Seq(Line)]
           /\ connected' \subseteq {b \in connected : b # a}
           /\ UNCHANGED <<nextId, completed, heard>>
  <1>1. a \in Agents
    BY DEF Agents
  <1>2. <<>> \in Seq(Line)
    OBVIOUS
  <1>3. reply' \in [Agents -> Int]
    BY <1>1 DEF Finalize, TypeOK, Rejected
  <1>4. QED
    BY <1>2, <1>3 DEF Finalize, TypeOK

\* `up' and `down', one agent at a time.
LEMMA UpTyped ==
    ASSUME TypeOK, NEW a \in Agents,
           \/ StartAgent(a) \/ PrepareFails(a) \/ Handshake(a) \/ PrepareClaude(a)
           \/ ValidateClaudeRuntimeConfigFails(a)
    PROVE  TypeOK'
  <1>1. CASE StartAgent(a)
    <2>1. a \in Codex
      BY <1>1 DEF StartAgent
    <2>2. child' \in [Codex -> {"none", "running", "killed", "exited", "gone"}]
          /\ connected' \subseteq {b \in Codex : child'[b] \notin {"none", "gone"}}
      BY <1>1, <2>1 DEF StartAgent, TypeOK
    <2>3. reply' \in [Agents -> Int]
      BY <1>1 DEF StartAgent, TypeOK, Consumed, NoReply
    <2>4. asked' \in [Codex -> SUBSET [id : Nat, method : Method]]
      <3>1. {[id |-> 1, method |-> "initialize"]} \subseteq [id : Nat, method : Method]
        BY DEF Method
      <3>2. QED
        BY <1>1, <3>1 DEF StartAgent, TypeOK
    <2>5. nextId' \in [Codex -> Nat \ {0}] /\ pending' \in [Codex -> SUBSET Nat]
      BY <1>1 DEF StartAgent, TypeOK
    <2>6. QED
      BY <1>1, <2>2, <2>3, <2>4, <2>5 DEF StartAgent, TypeOK
  <1>2. CASE PrepareFails(a)
    BY <1>2, SpendTyped DEF PrepareFails, Prepared, TypeOK, Status, Session
  <1>3. CASE Handshake(a)
    <2>1. reply' \in [Agents -> Int]
      BY <1>3 DEF Handshake, TypeOK, Consumed, NoReply
    <2>2. CASE Prepared(a, "failed", "error")
      BY <1>3, <2>1, <2>2 DEF Handshake, Prepared, TypeOK, Status, Session
    <2>3. CASE Prepared(a, "running", "ready")
      BY <1>3, <2>1, <2>3 DEF Handshake, Prepared, TypeOK, Status, Session
    <2>4. QED
      BY <1>3, <2>2, <2>3 DEF Handshake
  <1>4. CASE PrepareClaude(a)
    BY <1>4 DEF PrepareClaude, Prepared, TypeOK, Status, Session
  <1>5. CASE ValidateClaudeRuntimeConfigFails(a)
    BY <1>5, SpendTyped DEF ValidateClaudeRuntimeConfigFails, Prepared, TypeOK, Status, Session
  <1>6. QED
    BY <1>1, <1>2, <1>3, <1>4, <1>5

\* `down', one agent at a time.
LEMMA DownTyped ==
    ASSUME TypeOK, NEW a \in Agents,
           \/ ShutdownAgent(a) \/ ShutdownUnconnected(a)
           \/ ChildSeenExiting(a) \/ KillChild(a) \/ KillGraceOver(a)
    PROVE  TypeOK'
  <1>1. CASE ShutdownAgent(a)
    <2>1. a \in Codex /\ Finalize(a)
      BY <1>1 DEF ShutdownAgent, TypeOK
    <2>2. connected' \subseteq connected
      BY <2>1, FinalizeTyped
    <2>3. QED
      BY <1>1, <2>1, <2>2, FinalizeTyped DEF ShutdownAgent, Shutting, TypeOK
  <1>2. CASE ShutdownUnconnected(a)
    BY <1>2 DEF ShutdownUnconnected, Shutting, Released, TypeOK, Status
  <1>3. CASE ChildSeenExiting(a)
    BY <1>3 DEF ChildSeenExiting, Released, TypeOK, Status
  <1>4. CASE KillChild(a)
    BY <1>4 DEF KillChild, TypeOK
  <1>5. CASE KillGraceOver(a)
    BY <1>5 DEF KillGraceOver, Released, TypeOK, Status
  <1>6. QED
    BY <1>1, <1>2, <1>3, <1>4, <1>5

\* The connection: the reader, the timers, the exit event.
LEMMA ReadTyped ==
    ASSUME TypeOK, NEW a \in Codex, ReadLine(a)
    PROVE  TypeOK'
  <1> DEFINE line == Head(lines[a])
  <1>1. line \in Line /\ lines' \in [Codex -> Seq(Line)]
    <2>1. lines[a] \in Seq(Line) /\ lines[a] # <<>>
      BY DEF ReadLine, TypeOK
    <2>2. Head(lines[a]) \in Line /\ Tail(lines[a]) \in Seq(Line)
      BY <2>1
    <2>3. QED
      BY <2>2 DEF ReadLine, TypeOK
  <1>2. line.kind = "response" => line.id \in Nat /\ line.body \in Int
    BY <1>1 DEF Line
  <1>3. line.kind = "completed" => line.id \in Nat
    BY <1>1 DEF Line
  <1>4. a \in Agents
    BY DEF Agents
  <1>5. CASE line.kind = "response" /\ Resolve(a, line) /\ UNCHANGED <<completed, waiters, heard, phase>>
    <2>1. pending' \in [Codex -> SUBSET Nat]
      <3>1. pending' = pending \/ pending' = [pending EXCEPT ![a] = @ \ {line.id}]
        BY <1>5 DEF Resolve
      <3>2. pending \in [Codex -> SUBSET Nat] /\ pending[a] \ {line.id} \subseteq Nat
        BY DEF TypeOK
      <3>3. QED
        BY <3>1, <3>2
    <2>2. reply' = reply \/ reply' = [reply EXCEPT ![a] = line.body]
      BY <1>5 DEF Resolve
    <2>3. reply' \in [Agents -> Int]
      BY <1>2, <1>4, <1>5, <2>2 DEF TypeOK
    <2>4. QED
      BY <1>1, <1>5, <2>1, <2>3 DEF ReadLine, TypeOK
  <1>6. CASE line.kind = "completed" /\ MarkTurnCompleted(a, line.id)
             /\ heard' = [heard EXCEPT ![a] = @ \cup {line.id}] /\ UNCHANGED <<pending, phase>>
    <2>1. completed' \in [Codex -> Seq(Nat)]
          /\ \A b \in Codex : Len(completed'[b]) =< MaxCompletedTurnCache
      <3>1. line.id \in Nat
        BY <1>3, <1>6
      <3>2. completed[a] \in Seq(Nat) /\ Len(completed[a]) =< MaxCompletedTurnCache
        BY DEF TypeOK
      <3> DEFINE longer == Append(completed[a], line.id)
      <3>3. longer \in Seq(Nat) /\ Len(longer) = Len(completed[a]) + 1 /\ longer # <<>>
        BY <3>1, <3>2
      <3>4. Tail(longer) \in Seq(Nat) /\ Len(Tail(longer)) = Len(completed[a])
        BY <3>2, <3>3
      <3>5. Remember(completed[a], line.id) \in {completed[a], Tail(longer), longer}
            /\ (Len(longer) > MaxCompletedTurnCache => Remember(completed[a], line.id) \in {completed[a], Tail(longer)})
        BY DEF Remember
      <3>6. Remember(completed[a], line.id) \in Seq(Nat)
        BY <3>2, <3>3, <3>4, <3>5
      <3>7. Len(Remember(completed[a], line.id)) =< MaxCompletedTurnCache
        BY <3>2, <3>3, <3>4, <3>5, CacheAssumption
      <3>8. completed' = [completed EXCEPT ![a] = Remember(completed[a], line.id)]
        BY <1>6 DEF MarkTurnCompleted
      <3>9. QED
        BY <3>6, <3>7, <3>8 DEF TypeOK
    <2>2. waiters' \in [Codex -> SUBSET Nat] /\ heard' \in [Codex -> SUBSET Nat]
      BY <1>3, <1>6 DEF MarkTurnCompleted, TypeOK
    <2>3. reply' \in [Agents -> Int]
      BY <1>3, <1>4, <1>6 DEF MarkTurnCompleted, TypeOK
    <2>4. QED
      BY <1>1, <1>6, <2>1, <2>2, <2>3 DEF ReadLine, TypeOK
  <1>7. CASE line.kind = "ask" /\ (UNCHANGED phase \/ WriteMayCrash(a))
             /\ UNCHANGED <<pending, completed, waiters, heard, reply>>
    BY <1>1, <1>7 DEF ReadLine, WriteMayCrash, TypeOK
  <1>8. QED
    BY <1>5, <1>6, <1>7 DEF ReadLine

\* The timers and the exit event.
LEMMA ConnectionTyped ==
    ASSUME TypeOK, NEW a \in Codex, ConnectionStep(a)
    PROVE  TypeOK'
  <1>1. a \in Agents
    BY DEF Agents
  <1>2. CASE RequestTimesOut(a)
    BY <1>1, <1>2 DEF RequestTimesOut, Rejected, TypeOK
  <1>3. CASE TurnTimesOut(a)
    <2>1. waiters' \in [Codex -> SUBSET Nat]
      BY <1>3 DEF TurnTimesOut, TypeOK
    <2>2. reply' \in [Agents -> Int]
      BY <1>1, <1>3 DEF TurnTimesOut, Rejected, TypeOK
    <2>3. QED
      BY <1>3, <2>1, <2>2 DEF TurnTimesOut, TypeOK
  <1>4. CASE ExitEvent(a)
    <2>1. CASE a \in connected
      <3>1. Finalize(a)
        BY <1>4, <2>1 DEF ExitEvent
      <3>2. child' \in [Codex -> {"none", "running", "killed", "exited", "gone"}]
            /\ \A b \in Codex : b # a => child'[b] = child[b]
        BY <1>4 DEF ExitEvent, TypeOK
      <3>3. connected' \subseteq {b \in Codex : child'[b] \notin {"none", "gone"}}
        BY <3>1, <3>2, FinalizeTyped DEF TypeOK
      <3>4. QED
        BY <1>4, <3>1, <3>2, <3>3, FinalizeTyped DEF ExitEvent, TypeOK
    <2>2. CASE a \notin connected
      BY <1>4, <2>2 DEF ExitEvent, TypeOK
    <2>3. QED
      BY <2>1, <2>2
  <1>5. QED
    BY <1>2, <1>3, <1>4 DEF ConnectionStep

\* The child.
LEMMA WritesTyped ==
    ASSUME TypeOK, NEW a \in Codex, NEW line \in Line, Writes(a, line)
    PROVE  lines' \in [Codex -> Seq(Line)]
  BY DEF Writes, TypeOK

\* The processes that run, and their connections.
LEMMA ChildTyped ==
    ASSUME TypeOK, NEW a \in Codex, ChildStep(a)
    PROVE  TypeOK'
  <1>1. CASE ChildAnswers(a)
    <2>1. PICK request \in asked[a] : ChildAnswers(a)!2!(request)
      BY <1>1 DEF ChildAnswers
    <2>2. request.id \in Nat
      BY DEF TypeOK
    <2>3. asked' \in [Codex -> SUBSET [id : Nat, method : Method]]
      BY <2>1 DEF TypeOK
    <2>4. \A body \in Int : [kind |-> "response", id |-> request.id, body |-> body] \in Line
      BY <2>2 DEF Line
    <2>5. lines' \in [Codex -> Seq(Line)]
      BY <2>1, <2>2, <2>4, WritesTyped DEF Nameless, Rejected
    <2>6. turning' \in [Codex -> SUBSET Nat]
      <3>1. turning' = turning \/ turning' = [turning EXCEPT ![a] = @ \cup {request.id}]
        BY <2>1
      <3>2. turning \in [Codex -> SUBSET Nat] /\ turning[a] \cup {request.id} \subseteq Nat
        BY <2>2 DEF TypeOK
      <3>3. QED
        BY <3>1, <3>2
    <2>7. budget' \in [{"dispatches", "faults"} -> Nat]
      BY <2>1, SpendTyped DEF TypeOK
    <2>8. QED
      BY <1>1, <2>3, <2>5, <2>6, <2>7 DEF ChildAnswers, ChildOnly, TypeOK
  <1>2. CASE ChildCompletes(a)
    <2>1. PICK turn \in turning[a] : ChildCompletes(a)!2!(turn)
      BY <1>2 DEF ChildCompletes
    <2>2. turn \in Nat
      BY DEF TypeOK
    <2>3. [kind |-> "completed", id |-> turn] \in Line
      BY <2>2 DEF Line
    <2>4. lines' \in [Codex -> Seq(Line)]
      BY <2>1, <2>3, WritesTyped
    <2>5. QED
      BY <1>2, <2>1, <2>4 DEF ChildCompletes, ChildOnly, TypeOK
  <1>3. CASE ChildAsks(a)
    <2>1. [kind |-> "ask", id |-> 0] \in Line
      BY DEF Line
    <2>2. lines' \in [Codex -> Seq(Line)]
      BY <1>3, <2>1, WritesTyped DEF ChildAsks
    <2>3. QED
      BY <1>3, <2>2, SpendTyped DEF ChildAsks, ChildOnly, TypeOK
  <1>4. CASE ChildExits(a)
    BY <1>4, SpendTyped DEF ChildExits, Exits, ChildOnly, TypeOK
  <1>5. CASE ChildStops(a)
    BY <1>5 DEF ChildStops, Exits, ChildOnly, TypeOK
  <1>6. QED
    BY <1>1, <1>2, <1>3, <1>4, <1>5 DEF ChildStep

\* The dispatch.
LEMMA SendTyped ==
    ASSUME TypeOK, NEW a \in Agents, NEW method \in Method, NEW pc, Request(a, method, pc),
           pc \in Awaiting
    PROVE  /\ nextId' \in [Codex -> Nat \ {0}] /\ pending' \in [Codex -> SUBSET Nat]
           /\ asked' \in [Codex -> SUBSET [id : Nat, method : Method]]
           /\ reply' \in [Agents -> Int]
           /\ phase' \in {phase, "crashed"}
           /\ run' = NoRun \/ run' = [run EXCEPT !.pc = pc, !.asked = nextId[a]]
           /\ UNCHANGED <<connected, waiters, completed, heard, child, lines, turning>>
  <1>1. a \in connected => a \in Codex
    BY DEF TypeOK
  <1>2. reply' \in [Agents -> Int]
    BY DEF Request, SendRequest, Consumed, NoReply, TypeOK
  <1>3. CASE a \notin connected
    BY <1>2, <1>3 DEF Request, Fail, TypeOK
  <1>4. CASE a \in connected
    <2>0. a \in Codex
      BY <1>1, <1>4
    <2>1. SendRequest(a, method) /\ run' = [run EXCEPT !.pc = pc, !.asked = nextId[a]]
          /\ (UNCHANGED phase \/ WriteMayCrash(a))
      BY <1>4 DEF Request
    <2>2. nextId[a] \in Nat \ {0} /\ nextId[a] + 1 \in Nat \ {0}
      BY <2>0 DEF TypeOK
    <2>3. nextId' \in [Codex -> Nat \ {0}] /\ pending' \in [Codex -> SUBSET Nat]
      BY <2>1, <2>2 DEF SendRequest, TypeOK
    <2>4. asked' \in [Codex -> SUBSET [id : Nat, method : Method]]
      <3>1. asked \in [Codex -> SUBSET [id : Nat, method : Method]]
            /\ asked[a] \cup {[id |-> nextId[a], method |-> method]} \subseteq [id : Nat, method : Method]
        BY <2>0, <2>2 DEF TypeOK
      <3>2. asked' = asked \/ asked' = [asked EXCEPT ![a] = @ \cup {[id |-> nextId[a], method |-> method]}]
        BY <2>1 DEF SendRequest
      <3>3. QED
        BY <3>1, <3>2
    <2>5. QED
      BY <1>2, <2>1, <2>3, <2>4 DEF SendRequest, WriteMayCrash
  <1>5. QED
    BY <1>3, <1>4

\* The steps of a dispatch.
LEMMA DispatchTyped ==
    ASSUME TypeOK, NEW a \in Agents,
           \/ Dispatch(a) \/ StartThread(a) \/ StartTurn(a) \/ WaitForTurnCompletion(a)
           \/ TurnCompleted(a) \/ RequestFailed(a) \/ StartQuery(a) \/ QueryEnds(a)
           \/ ShutdownClaude(a)
    PROVE  TypeOK'
  <1> DEFINE Run == [agent : Agents \cup {Nobody},
                     pc : {"idle", "prompt", "query", "save", "after"} \cup Awaiting,
                     turn : Nat, asked : Nat, view : [Agents -> Session]]
  <1>1. CASE Dispatch(a)
    <2>1. [sessions EXCEPT ![a] = "ready"] \in [Agents -> Session]
      BY DEF TypeOK, Session
    <2>2. run' \in Run
      BY <1>1, <2>1, NoRunTyped DEF Dispatch, NoRun
    <2>3. QED
      BY <1>1, <2>2, SpendTyped DEF Dispatch, TypeOK
  <1>2. CASE StartThread(a) \/ StartTurn(a)
    <2>1. PICK method \in Method : \E pc \in Awaiting : Request(a, method, pc) /\ DispatchOnly
      BY <1>2 DEF StartThread, StartTurn, Method, Awaiting
    <2>2. PICK pc \in Awaiting : Request(a, method, pc) /\ DispatchOnly
      BY <2>1
    <2>3. run \in Run /\ (a \in connected => nextId[a] \in Nat)
      BY DEF TypeOK
    <2>4. run' \in Run
      <3>1. CASE a \in connected
        <4>1. [run EXCEPT !.pc = pc, !.asked = nextId[a]] \in Run
          BY <2>2, <2>3, <3>1
        <4>2. QED
          BY <2>2, <4>1, <3>1 DEF Request
      <3>2. CASE a \notin connected
        BY <2>2, <3>2, NoRunTyped DEF Request, Fail
      <3>3. QED
        BY <3>1, <3>2
    <2>5. phase' \in {"up", "serving", "down", "stopped", "exited", "crashed"}
      BY <2>2, SendTyped DEF TypeOK
    <2>6. QED
      BY <2>2, <2>4, <2>5, SendTyped DEF TypeOK, DispatchOnly
  <1>3. CASE WaitForTurnCompletion(a)
    <2>1. reply[a] \in Nat
      BY <1>3 DEF WaitForTurnCompletion, TypeOK, Nameless
    <2>2. run' \in Run
      <3>1. \A pc \in {"save", "wait"} : [run EXCEPT !.pc = pc, !.turn = reply[a]] \in Run
        BY <2>1 DEF TypeOK, Awaiting
      <3>2. run' = NoRun \/ \E pc \in {"save", "wait"} : run' = [run EXCEPT !.pc = pc, !.turn = reply[a]]
        BY <1>3 DEF WaitForTurnCompletion, Await, Fail
      <3>3. QED
        BY <3>1, <3>2, NoRunTyped
    <2>3. waiters' \in [Codex -> SUBSET Nat]
      <3>1. waiters' = waiters \/ (a \in connected /\ waiters' = [waiters EXCEPT ![a] = @ \cup {reply[a]}])
        BY <1>3 DEF WaitForTurnCompletion, Await
      <3>2. waiters \in [Codex -> SUBSET Nat] /\ connected \subseteq Codex
        BY DEF TypeOK
      <3>3. QED
        BY <2>1, <3>1, <3>2
    <2>4. reply' \in [Agents -> Int]
      BY <1>3 DEF WaitForTurnCompletion, Consumed, NoReply, TypeOK
    <2>5. QED
      BY <1>3, <2>2, <2>3, <2>4 DEF WaitForTurnCompletion, DispatchOnly, TypeOK
  <1>4. CASE TurnCompleted(a) \/ RequestFailed(a)
    <2>1. run' \in Run
      <3>1. [run EXCEPT !.pc = "save"] \in Run
        BY DEF TypeOK, Awaiting
      <3>2. QED
        BY <1>4, <3>1, NoRunTyped DEF TurnCompleted, RequestFailed, Fail
    <2>2. reply' \in [Agents -> Int]
      BY <1>4 DEF TurnCompleted, RequestFailed, Consumed, NoReply, TypeOK
    <2>3. QED
      BY <1>4, <2>1, <2>2 DEF TurnCompleted, RequestFailed, DispatchOnly, TypeOK
  <1>5. CASE StartQuery(a) \/ QueryEnds(a)
    <2>1. run' \in Run
      <3>1. [run EXCEPT !.pc = "save"] \in Run /\ [run EXCEPT !.pc = "query"] \in Run
        BY DEF TypeOK
      <3>2. QED
        BY <1>5, <3>1, NoRunTyped DEF StartQuery, QueryEnds, Fail
    <2>2. query' \subseteq Claude /\ budget' \in [{"dispatches", "faults"} -> Nat]
      BY <1>5, SpendTyped DEF StartQuery, QueryEnds, TypeOK
    <2>3. QED
      BY <1>5, <2>1, <2>2 DEF StartQuery, QueryEnds, TypeOK
  <1>6. CASE ShutdownClaude(a)
    <2>1. [run EXCEPT !.pc = "save"] \in Run
      BY DEF TypeOK
    <2>2. run' \in Run
      BY <1>6, <2>1 DEF ShutdownClaude, TypeOK
    <2>3. QED
      BY <1>6, <2>2 DEF ShutdownClaude, Shutting, Released, TypeOK, Status
  <1>7. QED
    BY <1>1, <1>2, <1>3, <1>4, <1>5, <1>6

\* The steps of the manager that are about no agent in particular.
LEMMA AloneTyped ==
    ASSUME TypeOK, SaveUp \/ ReadStatus \/ SaveSession \/ FinishDispatch \/ BeginDown \/ SaveDown \/ Exit
    PROVE  TypeOK'
  <1> DEFINE Run == [agent : Agents \cup {Nobody},
                     pc : {"idle", "prompt", "query", "save", "after"} \cup Awaiting,
                     turn : Nat, asked : Nat, view : [Agents -> Session]]
  <1>1. CASE SaveUp
    BY <1>1 DEF SaveUp, TypeOK
  <1>2. CASE ReadStatus
    BY <1>2 DEF ReadStatus, TypeOK
  <1>3. CASE SaveSession
    <2>1. [run EXCEPT !.pc = "after"] \in Run /\ run.view \in [Agents -> Session]
      BY DEF TypeOK
    <2>2. QED
      BY <1>3, <2>1 DEF SaveSession, TypeOK
  <1>4. CASE FinishDispatch
    BY <1>4, NoRunTyped DEF FinishDispatch, TypeOK
  <1>5. CASE BeginDown
    BY <1>5 DEF BeginDown, ResolveRuntimeTargets, TypeOK
  <1>6. CASE SaveDown
    BY <1>6 DEF SaveDown, TypeOK, Session
  <1>7. CASE Exit
    BY <1>7 DEF Exit, TypeOK
  <1>8. QED
    BY <1>1, <1>2, <1>3, <1>4, <1>5, <1>6, <1>7

\* The types outlive a step that changes nothing.
LEMMA StutterTyped ==
    ASSUME TypeOK, UNCHANGED vars
    PROVE  TypeOK'
  BY DEF TypeOK, vars

\* Every step, of the sessions alone or of those that also report.
LEMMA StepTyped ==
    ASSUME TypeOK, [Next]_vars
    PROVE  TypeOK'
  <1>1. CASE SilentStep
    <2>1. CASE SaveUp \/ ReadStatus \/ SaveSession \/ FinishDispatch \/ BeginDown \/ SaveDown \/ Exit
      BY <2>1, AloneTyped
    <2>2. ASSUME NEW a \in Agents, ManagerStep(a) \/ Dispatch(a)
          PROVE  TypeOK'
      BY <2>2, UpTyped, DownTyped, DispatchTyped DEF ManagerStep
    <2>3. ASSUME NEW a \in Agents, PrepareFails(a) \/ ValidateClaudeRuntimeConfigFails(a)
          PROVE  TypeOK'
      BY <2>3, UpTyped
    <2>4. ASSUME NEW a \in Codex, ConnectionStep(a) \/ ChildStep(a)
          PROVE  TypeOK'
      BY <2>4, ConnectionTyped, ChildTyped
    <2>5. QED
      BY <1>1, <2>1, <2>2, <2>3, <2>4 DEF SilentStep
  <1>2. ASSUME NEW a \in Codex, ReadLine(a)
        PROVE  TypeOK'
    BY <1>2, ReadTyped
  <1>3. ASSUME NEW a \in Claude, QueryEnds(a)
        PROVE  TypeOK'
    BY <1>3, DispatchTyped DEF Agents
  <1>4. CASE UNCHANGED vars
    BY <1>4, StutterTyped
  <1>5. QED
    BY <1>1, <1>2, <1>3, <1>4 DEF Next

\* The types hold at first.
LEMMA InitTyped == Init => TypeOK
  <1> SUFFICES ASSUME Init PROVE TypeOK
    OBVIOUS
  <1>1. run \in [agent : Agents \cup {Nobody},
                 pc : {"idle", "prompt", "query", "save", "after"} \cup Awaiting,
                 turn : Nat, asked : Nat, view : [Agents -> Session]]
    BY NoRunTyped DEF Init
  <1>2. <<>> \in Seq(Nat) /\ Len(<<>>) = 0 /\ <<>> \in Seq(Line)
    OBVIOUS
  <1>3. completed \in [Codex -> Seq(Nat)] /\ lines \in [Codex -> Seq(Line)]
        /\ \A a \in Codex : Len(completed[a]) =< MaxCompletedTurnCache
    BY <1>2, CacheAssumption DEF Init
  <1>4. budget \in [{"dispatches", "faults"} -> Nat]
    BY SessionBounds DEF Init
  <1>5. reply \in [Agents -> Int] /\ nextId \in [Codex -> Nat \ {0}]
    BY DEF Init, NoReply
  <1>6. QED
    BY <1>1, <1>3, <1>4, <1>5 DEF Init, TypeOK, Status, Session

--------------------------------------------------------------------------------
(* The sessions behind the output.                                             *)

\* Whatever is reported, the sessions take one of their own steps or none.
LEMMA ReportsAreSteps ==
    ASSUME [OutputNext]_allVars
    PROVE  [Next]_vars
  <1>1. CASE UNCHANGED allVars
    BY <1>1 DEF allVars
  <1>2. CASE OutputNext
    <2>1. CASE SilentSessionStep
      BY <1>2, <2>1 DEF SilentSessionStep, OutputNext, Next
    <2>2. ASSUME NEW a \in Codex, CodexNotifies(a) \/ ReadAndReport(a)
          PROVE  [Next]_vars
      BY <1>2, <2>2 DEF CodexNotifies, ReadAndReport, OutputNext, Next
    <2>3. ASSUME NEW a \in Claude, ClaudeMessage(a) \/ EndAndReport(a)
          PROVE  [Next]_vars
      BY <1>2, <2>3 DEF ClaudeMessage, EndAndReport, OutputNext, Next
    <2>4. ASSUME NEW a \in Claude, NEW i \in Blocks, BlockStarts(a, i) \/ BlockDelta(a, i) \/ BlockStops(a, i)
          PROVE  [Next]_vars
      BY <2>4 DEF BlockStarts, BlockDelta, BlockStops
    <2>5. ASSUME NEW a \in Agents, AppendLine(a) \/ AppendFails(a)
          PROVE  [Next]_vars
      BY <2>5 DEF AppendLine, AppendFails
    <2>6. QED
      BY <1>2, <2>1, <2>2, <2>3, <2>4, <2>5 DEF OutputNext
  <1>3. QED
    BY <1>1, <1>2

--------------------------------------------------------------------------------
(* `down'.                                                                      *)

\* What only the child, the reader, the timers or the dispatch do leaves `up' and `down' alone.
LEMMA DownFrame ==
    ASSUME TypeOK, DownInv,
           UNCHANGED <<todo, at, grace, draft, agents>>, phase' \in {phase, "crashed"},
           \A a \in Codex : child'[a] = "running" => child[a] = "running" /\ (a \in connected => a \in connected'),
           connected' \subseteq connected
    PROVE  DownInv'
  BY DEF DownInv

\* DownInv holds at first.
LEMMA InitDown == Init => DownInv
  BY NobodyAssumption DEF Init, DownInv, Agents

\* The steps of `up'.
LEMMA DownUpSteps ==
    ASSUME TypeOK, DownInv, NEW a \in Agents,
           StartAgent(a) \/ PrepareFails(a) \/ Handshake(a) \/ PrepareClaude(a) \/ ValidateClaudeRuntimeConfigFails(a)
    PROVE  DownInv'
  <1>1. CASE StartAgent(a)
    BY <1>1, NobodyAssumption DEF StartAgent, DownInv, TypeOK, Agents
  <1>2. CASE Handshake(a)
    BY <1>2 DEF Handshake, Prepared, DownInv
  <1>3. CASE PrepareFails(a) \/ PrepareClaude(a) \/ ValidateClaudeRuntimeConfigFails(a)
    BY <1>3 DEF PrepareFails, PrepareClaude, ValidateClaudeRuntimeConfigFails, Prepared, DownInv
  <1>4. QED
    BY <1>1, <1>2, <1>3

\* The steps of `down', agent by agent.
LEMMA DownDownSteps ==
    ASSUME TypeOK, DownInv, NEW a \in Agents,
           \/ ShutdownAgent(a) \/ ShutdownUnconnected(a) \/ ShutdownClaude(a)
           \/ ChildSeenExiting(a) \/ KillChild(a) \/ KillGraceOver(a)
    PROVE  DownInv'
  <1>1. CASE ShutdownAgent(a)
    BY <1>1, NobodyAssumption DEF ShutdownAgent, Shutting, Finalize, DownInv, TypeOK, Agents
  <1>2. CASE ShutdownUnconnected(a)
    BY <1>2, NobodyAssumption DEF ShutdownUnconnected, Shutting, Released, DownInv, TypeOK, Agents
  <1>3. CASE ShutdownClaude(a)
    BY <1>3, NobodyAssumption, AgentsAssumption DEF ShutdownClaude, Shutting, Released, DownInv, TypeOK, Agents
  <1>4. CASE ChildSeenExiting(a)
    BY <1>4, NobodyAssumption DEF ChildSeenExiting, Released, DownInv, TypeOK, Agents
  <1>5. CASE KillChild(a)
    BY <1>5, NobodyAssumption DEF KillChild, DownInv, TypeOK, Agents
  <1>6. CASE KillGraceOver(a)
    BY <1>6, NobodyAssumption DEF KillGraceOver, Released, DownInv, TypeOK, Agents
  <1>7. QED
    BY <1>1, <1>2, <1>3, <1>4, <1>5, <1>6

\* Every step keeps DownInv.
LEMMA DownStep ==
    ASSUME TypeOK, DownInv, [Next]_vars
    PROVE  DownInv'
  <1>1. CASE SaveUp \/ BeginDown \/ SaveDown \/ Exit
    BY <1>1 DEF SaveUp, BeginDown, ResolveRuntimeTargets, SaveDown, Exit, DownInv, TypeOK
  <1>2. CASE ReadStatus \/ SaveSession \/ FinishDispatch \/ UNCHANGED vars
    BY <1>2, DownFrame DEF ReadStatus, SaveSession, FinishDispatch, vars
  <1>3. ASSUME NEW a \in Agents, ManagerStep(a) \/ Dispatch(a)
        PROVE  DownInv'
    <2>1. CASE StartThread(a) \/ StartTurn(a)
      <3>1. PICK method \in Method : \E pc \in Awaiting : Request(a, method, pc) /\ DispatchOnly
        BY <2>1 DEF StartThread, StartTurn, Method, Awaiting
      <3>2. QED
        BY <3>1, SendTyped, DownFrame DEF DispatchOnly
    <2>2. CASE WaitForTurnCompletion(a) \/ TurnCompleted(a) \/ RequestFailed(a) \/ StartQuery(a) \/ Dispatch(a)
      BY <2>2, DownFrame
         DEF WaitForTurnCompletion, TurnCompleted, RequestFailed, StartQuery, Dispatch, DispatchOnly
    <2>3. QED
      BY <1>3, <2>1, <2>2, DownUpSteps, DownDownSteps DEF ManagerStep
  <1>4. ASSUME NEW a \in Agents, PrepareFails(a) \/ ValidateClaudeRuntimeConfigFails(a)
        PROVE  DownInv'
    BY <1>4, DownUpSteps
  <1>5. ASSUME NEW a \in Codex, ConnectionStep(a)
        PROVE  DownInv'
    <2>1. CASE RequestTimesOut(a) \/ TurnTimesOut(a)
      BY <2>1, DownFrame DEF RequestTimesOut, TurnTimesOut
    <2>2. CASE ExitEvent(a)
      BY <2>2, DownFrame DEF ExitEvent, Finalize, TypeOK
    <2>3. QED
      BY <1>5, <2>1, <2>2 DEF ConnectionStep
  <1>6. ASSUME NEW a \in Codex, ChildStep(a)
        PROVE  DownInv'
    <2>1. CASE ChildAnswers(a) \/ ChildCompletes(a) \/ ChildAsks(a)
      BY <2>1, DownFrame DEF ChildAnswers, ChildCompletes, ChildAsks, ChildOnly
    <2>2. CASE ChildExits(a) \/ ChildStops(a)
      BY <2>2, DownFrame DEF ChildExits, ChildStops, Exits, ChildOnly, TypeOK
    <2>3. QED
      BY <1>6, <2>1, <2>2 DEF ChildStep
  <1>7. ASSUME NEW a \in Codex, ReadLine(a)
        PROVE  DownInv'
    BY <1>7, DownFrame DEF ReadLine, WriteMayCrash
  <1>8. ASSUME NEW a \in Claude, QueryEnds(a)
        PROVE  DownInv'
    BY <1>8, DownFrame DEF QueryEnds
  <1>9. QED
    BY <1>1, <1>2, <1>3, <1>4, <1>5, <1>6, <1>7, <1>8 DEF Next, SilentStep

\* The types of AgentSessions.
THEOREM SessionsTyped == Spec => []TypeOK
  <1>1. TypeOK /\ [Next]_vars => TypeOK'
    BY StepTyped
  <1>2. QED
    BY InitTyped, <1>1, PTL DEF Spec

\* Once `down' has returned no codex child is left working and the status is "stopped", whatever a
\* dispatch still saves (FleetService.down, AppServerClient.shutdownAgent, summarizeStatus).
THEOREM DownLeavesNoChild ==
    ASSUME Agents # {}
    PROVE  Spec => []DownCompletes
  <1>1. Init => TypeOK /\ DownInv
    BY InitTyped, InitDown
  <1>2. TypeOK /\ DownInv /\ [Next]_vars => (TypeOK /\ DownInv)'
    BY StepTyped, DownStep
  <1>3. TypeOK /\ DownInv => DownCompletes
    BY DEF DownInv, DownCompletes, Summary, Agents
  <1>4. QED
    BY <1>1, <1>2, <1>3, PTL DEF Spec

--------------------------------------------------------------------------------
(* A dispatch and the answers it is given.                                     *)

\* TurnsInv holds at first.
LEMMA InitTurns == Init => TurnsInv
  BY NobodyAssumption
     DEF Init, TurnsInv, LinesTrue, RunTrue, Owed, OwedAt, OwnRequest, Remembered, NoRun, Outstanding,
         AwaitedByUp, AwaitedByRun, Awaiting, Agents

\* The lines in flight: what a child writes names its request, and reading takes the first line.
LEMMA LinesKept ==
    ASSUME TypeOK, LinesTrue, \A a \in Codex : lines'[a] \in {lines[a], Tail(lines[a]), <<>>},
           \A a \in Codex : lines[a] = <<>> => lines'[a] = <<>>
    PROVE  LinesTrue'
  <1> SUFFICES ASSUME NEW a \in Codex, NEW i \in DOMAIN lines'[a], lines'[a][i].kind = "response"
               PROVE  lines'[a][i].body \in {lines'[a][i].id, Nameless, Rejected}
    BY DEF LinesTrue
  <1>1. lines[a] \in Seq(Line)
    BY DEF TypeOK
  <1>2. CASE lines'[a] = lines[a]
    BY <1>2 DEF LinesTrue
  <1>3. CASE lines'[a] = Tail(lines[a]) /\ lines[a] # <<>>
    <2>1. i + 1 \in DOMAIN lines[a] /\ lines'[a][i] = lines[a][i + 1]
      BY <1>1, <1>3
    <2>2. QED
      BY <2>1 DEF LinesTrue
  <1>4. CASE lines'[a] = <<>>
    BY <1>4
  <1>5. QED
    BY <1>2, <1>3, <1>4

\* A line that a child writes.
LEMMA LinesWritten ==
    ASSUME TypeOK, LinesTrue, NEW a \in Codex, NEW line \in Line, Writes(a, line),
           line.kind = "response" => line.body \in {line.id, Nameless, Rejected}
    PROVE  LinesTrue'
  <1> SUFFICES ASSUME NEW b \in Codex, NEW i \in DOMAIN lines'[b], lines'[b][i].kind = "response"
               PROVE  lines'[b][i].body \in {lines'[b][i].id, Nameless, Rejected}
    BY DEF LinesTrue
  <1>1. lines[a] \in Seq(Line) /\ lines \in [Codex -> Seq(Line)]
    BY DEF TypeOK
  <1>2. CASE lines'[b] = lines[b]
    BY <1>2 DEF LinesTrue
  <1>3. CASE b = a /\ lines'[b] = Append(lines[a], line)
    <2>1. CASE i \in DOMAIN lines[a]
      BY <1>1, <1>3, <2>1 DEF LinesTrue
    <2>2. CASE i \notin DOMAIN lines[a]
      <3>1. lines'[b][i] = line
        BY <1>1, <1>3, <2>2
      <3>2. QED
        BY <3>1
    <2>3. QED
      BY <2>1, <2>2
  <1>4. QED
    BY <1>1, <1>2, <1>3 DEF Writes

\* Every step keeps LinesTrue.
LEMMA LinesStep ==
    ASSUME TypeOK, LinesTrue, [Next]_vars
    PROVE  LinesTrue'
  <1> DEFINE Kept == \A a \in Codex : lines'[a] \in {lines[a], Tail(lines[a]), <<>>}
                                      /\ (lines[a] = <<>> => lines'[a] = <<>>)
  <1>1. CASE lines' = lines
    BY <1>1, LinesKept
  <1>2. ASSUME NEW a \in Codex, Finalize(a)
        PROVE  LinesTrue'
    BY <1>2, LinesKept DEF Finalize, TypeOK
  <1>3. ASSUME NEW a \in Codex, ReadLine(a)
        PROVE  LinesTrue'
    BY <1>3, LinesKept DEF ReadLine, TypeOK
  <1>4. ASSUME NEW a \in Codex, ChildStep(a)
        PROVE  LinesTrue'
    <2>1. CASE ChildAnswers(a)
      <3>1. PICK request \in asked[a] : ChildAnswers(a)!2!(request)
        BY <2>1 DEF ChildAnswers
      <3>2. request.id \in Nat
        BY DEF TypeOK
      <3>3. PICK body \in {request.id, Nameless, Rejected} :
                Writes(a, [kind |-> "response", id |-> request.id, body |-> body])
        BY <3>1
      <3>4. [kind |-> "response", id |-> request.id, body |-> body] \in Line
        BY <3>2 DEF Line, Nameless, Rejected
      <3>5. QED
        BY <3>3, <3>4, LinesWritten
    <2>2. CASE ChildCompletes(a)
      <3>1. PICK turn \in turning[a] : Writes(a, [kind |-> "completed", id |-> turn])
        BY <2>2 DEF ChildCompletes
      <3>2. [kind |-> "completed", id |-> turn] \in Line
        BY DEF TypeOK, Line
      <3>3. QED
        BY <3>1, <3>2, LinesWritten
    <2>3. CASE ChildAsks(a)
      <3>1. [kind |-> "ask", id |-> 0] \in Line
        BY DEF Line
      <3>2. QED
        BY <2>3, <3>1, LinesWritten DEF ChildAsks
    <2>4. CASE ChildExits(a) \/ ChildStops(a)
      BY <1>1, <2>4 DEF ChildExits, ChildStops, Exits
    <2>5. QED
      BY <1>4, <2>1, <2>2, <2>3, <2>4 DEF ChildStep
  <1>5. ASSUME NEW a \in Codex, ConnectionStep(a)
        PROVE  LinesTrue'
    BY <1>1, <1>2, <1>5 DEF ConnectionStep, RequestTimesOut, TurnTimesOut, ExitEvent
  <1>6. ASSUME NEW a \in Agents, ManagerStep(a) \/ Dispatch(a) \/ PrepareFails(a)
                                 \/ ValidateClaudeRuntimeConfigFails(a)
        PROVE  LinesTrue'
    <2>1. CASE ShutdownAgent(a)
      BY <1>2, <2>1 DEF ShutdownAgent, TypeOK
    <2>2. CASE StartThread(a) \/ StartTurn(a)
      BY <1>1, <2>2 DEF StartThread, StartTurn, Request, SendRequest
    <2>3. QED
      BY <1>1, <1>6, <2>1, <2>2
         DEF ManagerStep, StartAgent, Handshake, PrepareClaude, WaitForTurnCompletion, TurnCompleted,
             RequestFailed, StartQuery, ShutdownUnconnected, ShutdownClaude, ChildSeenExiting,
             KillChild, KillGraceOver, Dispatch, PrepareFails, ValidateClaudeRuntimeConfigFails
  <1>7. CASE SaveUp \/ ReadStatus \/ SaveSession \/ FinishDispatch \/ BeginDown \/ SaveDown \/ Exit
             \/ UNCHANGED vars
    BY <1>1, <1>7 DEF SaveUp, ReadStatus, SaveSession, FinishDispatch, BeginDown, SaveDown, Exit, vars
  <1>8. ASSUME NEW a \in Claude, QueryEnds(a)
        PROVE  LinesTrue'
    BY <1>1, <1>8 DEF QueryEnds
  <1>9. QED
    BY <1>3, <1>4, <1>5, <1>6, <1>7, <1>8 DEF Next, SilentStep

\* What has been remembered has been heard.
LEMMA RememberedStep ==
    ASSUME TypeOK, Remembered, [Next]_vars
    PROVE  Remembered' /\ \A a \in Codex : heard[a] \subseteq heard'[a]
  <1>1. CASE UNCHANGED <<completed, heard>>
    BY <1>1 DEF Remembered
  <1>2. ASSUME NEW a \in Codex, ReadLine(a)
        PROVE  Remembered' /\ \A b \in Codex : heard[b] \subseteq heard'[b]
    <2> DEFINE turn == Head(lines[a]).id
               longer == Append(completed[a], turn)
    <2>1. CASE MarkTurnCompleted(a, turn) /\ heard' = [heard EXCEPT ![a] = @ \cup {turn}]
      <3>1. completed[a] \in Seq(Nat) /\ heard \in [Codex -> SUBSET Nat] /\ completed \in [Codex -> Seq(Nat)]
        BY DEF TypeOK
      <3>2. \A b \in Codex : heard[b] \subseteq heard'[b]
        BY <2>1, <3>1
      <3>3. completed'[a] \in {completed[a], Tail(longer), longer}
            /\ \A b \in Codex : b # a => completed'[b] = completed[b]
        BY <2>1, <3>1 DEF MarkTurnCompleted, Remember
      <3>4. turn \in heard'[a]
        BY <2>1, <3>1
      <3>5. \A i \in DOMAIN completed[a] : completed[a][i] \in heard'[a]
        BY <3>2 DEF Remembered
      <3>6. turn \in Nat
        <4>1. heard' \in [Codex -> SUBSET Nat]
          BY <1>2, ReadTyped DEF TypeOK
        <4>2. QED
          BY <3>4, <4>1
      <3>7. longer \in Seq(Nat) /\ Len(longer) = Len(completed[a]) + 1
            /\ \A i \in DOMAIN longer : longer[i] \in heard'[a]
        <4>1. longer \in Seq(Nat) /\ Len(longer) = Len(completed[a]) + 1
          BY <3>1, <3>6
        <4>2. \A i \in DOMAIN longer : longer[i] = turn \/ (i \in DOMAIN completed[a] /\ longer[i] = completed[a][i])
          BY <3>1, <3>6
        <4>3. QED
          BY <3>4, <3>5, <4>1, <4>2
      <3>8. \A i \in DOMAIN Tail(longer) : i + 1 \in DOMAIN longer /\ Tail(longer)[i] = longer[i + 1]
        BY <3>1, <3>7
      <3>9. \A i \in DOMAIN completed'[a] : completed'[a][i] \in heard'[a]
        BY <3>3, <3>5, <3>7, <3>8
      <3>10. QED
        BY <3>2, <3>3, <3>9 DEF Remembered
    <2>2. QED
      BY <1>1, <1>2, <2>1 DEF ReadLine
  <1>3. ASSUME NEW a \in Codex, ChildStep(a) \/ ConnectionStep(a)
        PROVE  UNCHANGED <<completed, heard>>
    <2>1. CASE ChildStep(a)
      BY <2>1 DEF ChildStep, ChildAnswers, ChildCompletes, ChildAsks, ChildExits, ChildStops, Exits, ChildOnly
    <2>2. CASE ConnectionStep(a)
      BY <2>2 DEF ConnectionStep, RequestTimesOut, TurnTimesOut, ExitEvent, Finalize
    <2>3. QED
      BY <1>3, <2>1, <2>2
  <1>4. ASSUME NEW a \in Agents, ManagerStep(a) \/ Dispatch(a) \/ PrepareFails(a)
                                 \/ ValidateClaudeRuntimeConfigFails(a) \/ QueryEnds(a)
        PROVE  UNCHANGED <<completed, heard>>
    BY <1>4
       DEF ManagerStep, StartAgent, Handshake, PrepareClaude, WaitForTurnCompletion, TurnCompleted,
           RequestFailed, StartQuery, ShutdownAgent, Finalize, ShutdownUnconnected, ShutdownClaude,
           ChildSeenExiting, KillChild, KillGraceOver, Dispatch, PrepareFails,
           ValidateClaudeRuntimeConfigFails, StartThread, StartTurn, Request, SendRequest, QueryEnds
  <1>5. CASE SaveUp \/ ReadStatus \/ SaveSession \/ FinishDispatch \/ BeginDown \/ SaveDown \/ Exit
             \/ UNCHANGED vars
    BY <1>1, <1>5 DEF SaveUp, ReadStatus, SaveSession, FinishDispatch, BeginDown, SaveDown, Exit, vars
  <1>6. QED
    BY <1>1, <1>2, <1>3, <1>4, <1>5 DEF Next, SilentStep, Agents

\* Where the dispatch is.
LEMMA RunFrame ==
    ASSUME TypeOK, RunTrue, UNCHANGED <<run, query, listed>>, phase' \in {phase, "crashed"}
    PROVE  RunTrue'
  BY DEF RunTrue

\* The steps that move the dispatch on.
LEMMA RunDispatchSteps ==
    ASSUME TypeOK, RunTrue, NEW a \in Agents,
           \/ Dispatch(a) \/ StartThread(a) \/ StartTurn(a) \/ WaitForTurnCompletion(a)
           \/ TurnCompleted(a) \/ RequestFailed(a) \/ StartQuery(a) \/ QueryEnds(a)
           \/ ShutdownClaude(a)
    PROVE  RunTrue'
  <1> USE NobodyAssumption, AgentsAssumption DEF Agents, Awaiting
  <1>1. CASE Dispatch(a)
    <2>1. phase # "up" /\ query = {} /\ UNCHANGED <<phase, listed, query>>
      BY <1>1 DEF Dispatch, RunTrue
    <2>2. (run'.agent = a /\ run'.pc = "prompt") \/ run' = NoRun
      BY <1>1 DEF Dispatch, NoRun
    <2>3. QED
      BY <2>1, <2>2 DEF RunTrue, NoRun
  <1>2. CASE StartThread(a) \/ StartTurn(a)
    <2>1. PICK pc \in {"thread", "turn"} : \E method \in Method : Request(a, method, pc)
      BY <1>2 DEF StartThread, StartTurn, Method
    <2>2. phase' \in {phase, "crashed"} /\ (run' = NoRun \/ run' = [run EXCEPT !.pc = pc, !.asked = nextId[a]])
      BY <2>1, SendTyped
    <2>3. run.agent = a /\ a \in Codex /\ run.pc \in {"prompt", "thread"}
      BY <1>2 DEF StartThread, StartTurn, RunTrue
    <2>4. query = {}
      BY <2>3 DEF RunTrue
    <2>5. UNCHANGED <<query, listed>>
      BY <1>2 DEF StartThread, StartTurn, DispatchOnly
    <2>6. phase # "up"
      BY <2>3 DEF RunTrue
    <2>7. CASE run' = NoRun
      BY <2>2, <2>4, <2>5, <2>6, <2>7 DEF RunTrue, NoRun
    <2>8. CASE run' = [run EXCEPT !.pc = pc, !.asked = nextId[a]]
      <3>1. run'.pc = pc /\ run'.agent = a
        BY <2>3, <2>8 DEF TypeOK
      <3>2. QED
        BY <2>1, <2>2, <2>3, <2>4, <2>5, <2>6, <3>1 DEF RunTrue
    <2>9. QED
      BY <2>2, <2>7, <2>8
  <1>3. CASE WaitForTurnCompletion(a)
    <2>1. run.agent = a /\ run.pc = "turn" /\ a \in Codex /\ query = {} /\ phase # "up"
      BY <1>3 DEF WaitForTurnCompletion, RunTrue
    <2>2. run' = NoRun \/ (run'.agent = a /\ run'.pc \in {"save", "wait"})
      BY <1>3, <2>1 DEF WaitForTurnCompletion, Await, Fail, TypeOK
    <2>3. QED
      BY <1>3, <2>1, <2>2 DEF WaitForTurnCompletion, DispatchOnly, RunTrue, NoRun
  <1>4. CASE TurnCompleted(a) \/ RequestFailed(a)
    <2>1. run.agent = a /\ run.pc \in {"thread", "turn", "wait"} /\ a \in Codex /\ query = {} /\ phase # "up"
      BY <1>4 DEF TurnCompleted, RequestFailed, RunTrue
    <2>2. run' = NoRun \/ (run'.agent = a /\ run'.pc = "save")
      BY <1>4, <2>1 DEF TurnCompleted, RequestFailed, Fail, TypeOK
    <2>3. QED
      BY <1>4, <2>1, <2>2 DEF TurnCompleted, RequestFailed, DispatchOnly, RunTrue, NoRun
  <1>5. CASE StartQuery(a)
    BY <1>5 DEF StartQuery, RunTrue, TypeOK
  <1>6. CASE QueryEnds(a)
    <2>1. run.agent = a /\ run.pc = "query" /\ phase # "up" /\ query' = {}
      BY <1>6 DEF QueryEnds, RunTrue
    <2>2. run' = NoRun \/ (run'.agent = a /\ run'.pc = "save")
      BY <1>6, <2>1 DEF QueryEnds, Fail, TypeOK
    <2>3. QED
      BY <1>6, <2>1, <2>2 DEF QueryEnds, RunTrue, NoRun
  <1>7. CASE ShutdownClaude(a)
    <2>1. phase = "down" /\ phase' = phase /\ UNCHANGED listed
      BY <1>7 DEF ShutdownClaude, Shutting, Released
    <2>2. CASE a \in query
      <3>1. run'.agent = a /\ run'.pc = "save" /\ query' = {}
        BY <1>7, <2>2 DEF ShutdownClaude, RunTrue, TypeOK
      <3>2. QED
        BY <2>1, <3>1 DEF RunTrue
    <2>3. CASE a \notin query
      BY <1>7, <2>1, <2>3 DEF ShutdownClaude, RunTrue
    <2>4. QED
      BY <2>2, <2>3
  <1>8. QED
    BY <1>1, <1>2, <1>3, <1>4, <1>5, <1>6, <1>7

\* Every step keeps RunTrue.
LEMMA RunStep ==
    ASSUME TypeOK, RunTrue, [Next]_vars
    PROVE  RunTrue'
  <1>1. CASE SaveUp \/ ReadStatus \/ SaveSession \/ FinishDispatch \/ BeginDown \/ SaveDown \/ Exit
    <2>1. CASE SaveUp \/ BeginDown \/ SaveDown \/ Exit
      BY <2>1 DEF SaveUp, BeginDown, SaveDown, Exit, RunTrue
    <2>2. CASE ReadStatus
      BY <2>2 DEF ReadStatus, RunTrue
    <2>3. CASE SaveSession
      <3>1. run'.agent = run.agent /\ run'.pc = "after" /\ run.pc = "save"
        BY <2>3 DEF SaveSession, TypeOK
      <3>2. QED
        BY <2>3, <3>1 DEF SaveSession, RunTrue, Awaiting
    <2>4. CASE FinishDispatch
      BY <2>4 DEF FinishDispatch, RunTrue, NoRun, Awaiting
    <2>5. QED
      BY <1>1, <2>1, <2>2, <2>3, <2>4
  <1>2. ASSUME NEW a \in Agents, ManagerStep(a) \/ Dispatch(a) \/ PrepareFails(a)
                                 \/ ValidateClaudeRuntimeConfigFails(a)
        PROVE  RunTrue'
    <2>1. CASE StartAgent(a) \/ Handshake(a) \/ PrepareClaude(a) \/ PrepareFails(a)
               \/ ValidateClaudeRuntimeConfigFails(a)
      BY <2>1 DEF StartAgent, Handshake, PrepareClaude, PrepareFails, ValidateClaudeRuntimeConfigFails,
                  Prepared, RunTrue
    <2>2. CASE ShutdownAgent(a) \/ ShutdownUnconnected(a) \/ ChildSeenExiting(a) \/ KillChild(a)
               \/ KillGraceOver(a)
      BY <2>2 DEF ShutdownAgent, ShutdownUnconnected, ChildSeenExiting, KillChild, KillGraceOver,
                  Shutting, Released, Finalize, RunTrue
    <2>3. QED
      BY <1>2, <2>1, <2>2, RunDispatchSteps DEF ManagerStep
  <1>3. ASSUME NEW a \in Codex, ConnectionStep(a) \/ ChildStep(a) \/ ReadLine(a)
        PROVE  RunTrue'
    <2>1. CASE ConnectionStep(a)
      BY <2>1, RunFrame DEF ConnectionStep, RequestTimesOut, TurnTimesOut, ExitEvent
    <2>2. CASE ChildStep(a)
      BY <2>2, RunFrame
         DEF ChildStep, ChildAnswers, ChildCompletes, ChildAsks, ChildExits, ChildStops, Exits, ChildOnly
    <2>3. CASE ReadLine(a)
      BY <2>3, RunFrame DEF ReadLine, WriteMayCrash
    <2>4. QED
      BY <1>3, <2>1, <2>2, <2>3
  <1>4. ASSUME NEW a \in Claude, QueryEnds(a)
        PROVE  RunTrue'
    BY <1>4, RunDispatchSteps DEF Agents
  <1>5. CASE UNCHANGED vars
    BY <1>5 DEF vars, RunTrue
  <1>6. QED
    BY <1>1, <1>2, <1>3, <1>4, <1>5 DEF Next, SilentStep

\* A step that is not about agent b.
LEMMA OwedElsewhere ==
    ASSUME NEW b \in Codex, OwedAt(b),
           pending'[b] = pending[b], waiters'[b] = waiters[b], reply'[b] = reply[b],
           b \in connected => b \in connected',
           phase \in {"up", "crashed"} /\ at = b => phase' \in {"up", "crashed"} /\ at' = b,
           run'.agent = b /\ run'.pc \in Awaiting <=> run.agent = b /\ run.pc \in Awaiting
    PROVE  OwedAt(b)'
  BY DEF OwedAt, Outstanding, AwaitedByUp, AwaitedByRun

\* Who has been given something, or awaits nothing, has nothing outstanding.
LEMMA NothingOutstanding ==
    ASSUME TypeOK, RunTrue, Owed, Running, NEW a \in Codex,
           \/ reply[a] # NoReply
           \/ at = Nobody /\ ~AwaitedByRun(a)
           \/ run.agent = a /\ run.pc \notin Awaiting
    PROVE  pending[a] = {} /\ waiters[a] = {}
  BY NobodyAssumption
     DEF Owed, OwedAt, Outstanding, AwaitedByUp, AwaitedByRun, RunTrue, Running, Ended, Agents

\* The steps of the manager that are about no agent.
LEMMA OwedAloneSteps ==
    ASSUME TypeOK, RunTrue, Owed, Running,
           SaveUp \/ ReadStatus \/ SaveSession \/ FinishDispatch \/ BeginDown \/ SaveDown \/ Exit
           \/ UNCHANGED vars
    PROVE  Owed'
  <1> SUFFICES ASSUME NEW b \in Codex PROVE OwedAt(b)'
    BY DEF Owed
  <1> USE DEF Owed
  <1>1. CASE SaveUp
    BY <1>1, OwedElsewhere, NobodyAssumption DEF SaveUp, Agents
  <1>2. CASE ReadStatus \/ UNCHANGED vars
    BY <1>2, OwedElsewhere DEF ReadStatus, vars
  <1>3. CASE SaveSession
    <2>1. run.pc = "save" /\ run'.pc = "after"
      BY <1>3 DEF SaveSession, TypeOK
    <2>2. QED
      BY <1>3, <2>1, OwedElsewhere DEF SaveSession, Awaiting
  <1>4. CASE FinishDispatch
    BY <1>4, OwedElsewhere DEF FinishDispatch, NoRun, Awaiting
  <1>5. CASE BeginDown \/ SaveDown \/ Exit
    BY <1>5, OwedElsewhere DEF BeginDown, SaveDown, Exit
  <1>6. QED
    BY <1>1, <1>2, <1>3, <1>4, <1>5

\* The steps of `up'.
LEMMA OwedUpSteps ==
    ASSUME TypeOK, RunTrue, Owed, Running, NEW a \in Agents,
           StartAgent(a) \/ PrepareFails(a) \/ Handshake(a) \/ PrepareClaude(a) \/ ValidateClaudeRuntimeConfigFails(a)
    PROVE  Owed'
  <1> SUFFICES ASSUME NEW b \in Codex PROVE OwedAt(b)'
    BY DEF Owed
  <1> USE NobodyAssumption DEF Owed, Agents
  <1>1. CASE StartAgent(a)
    <2>1. CASE b # a
      BY <1>1, <2>1, OwedElsewhere DEF StartAgent, Consumed, TypeOK
    <2>2. CASE b = a
      <3>1. ~AwaitedByRun(a) /\ at = Nobody
        BY <1>1 DEF StartAgent, RunTrue, AwaitedByRun
      <3>2. waiters[a] = {} /\ waiters' = waiters
        BY <1>1, <2>2, <3>1, NothingOutstanding DEF StartAgent
      <3>3. pending'[a] = {1} /\ reply'[a] = NoReply /\ a \in connected' /\ at' = a /\ phase' = "up"
        BY <1>1, <2>2 DEF StartAgent, Consumed, TypeOK
      <3>4. QED
        BY <2>2, <3>2, <3>3 DEF OwedAt, Outstanding, AwaitedByUp
    <2>3. QED
      BY <2>1, <2>2
  <1>2. CASE Handshake(a)
    <2>1. UNCHANGED <<run, phase, pending, waiters, connected>> /\ at = a /\ at' = Nobody
      BY <1>2 DEF Handshake, Prepared
    <2>2. CASE b # a
      BY <1>2, <2>1, <2>2, OwedElsewhere DEF Handshake, Consumed, TypeOK
    <2>3. CASE b = a
      <3>1. pending[a] = {} /\ waiters[a] = {}
        BY <1>2, <2>3, NothingOutstanding DEF Handshake
      <3>2. run.pc = "idle"
        BY <1>2 DEF Handshake, RunTrue
      <3>3. QED
        BY <2>1, <2>3, <3>1, <3>2 DEF OwedAt, Outstanding, AwaitedByRun, Awaiting
    <2>4. QED
      BY <2>2, <2>3
  <1>3. CASE PrepareFails(a) \/ PrepareClaude(a) \/ ValidateClaudeRuntimeConfigFails(a)
    BY <1>3, OwedElsewhere DEF PrepareFails, PrepareClaude, ValidateClaudeRuntimeConfigFails, Prepared
  <1>4. QED
    BY <1>1, <1>2, <1>3

\* A connection that is forgotten rejects whoever waits on it.
LEMMA FinalizeOwed ==
    ASSUME TypeOK, Owed, NEW a \in Codex, Finalize(a), UNCHANGED run,
           \A b \in Codex \ {a} : phase \in {"up", "crashed"} /\ at = b => phase' \in {"up", "crashed"} /\ at' = b
    PROVE  Owed'
  <1> SUFFICES ASSUME NEW b \in Codex PROVE OwedAt(b)'
    BY DEF Owed
  <1>1. CASE b # a
    <2>1. reply'[b] = reply[b]
      BY <1>1 DEF Finalize, TypeOK
    <2>2. pending'[b] = pending[b] /\ waiters'[b] = waiters[b] /\ (b \in connected => b \in connected')
      BY <1>1 DEF Finalize, TypeOK
    <2>3. QED
      BY <1>1, <2>1, <2>2, OwedElsewhere DEF Owed
  <1>2. CASE b = a
    <2>1. pending'[a] = {} /\ waiters'[a] = {}
      BY DEF Finalize, TypeOK
    <2>2. reply'[a] = IF Outstanding(a) # {} THEN Rejected ELSE reply[a]
      BY DEF Finalize, Outstanding, TypeOK, Agents
    <2>3. QED
      BY <1>2, <2>1, <2>2 DEF Owed, OwedAt, Outstanding, AwaitedByRun, Rejected, NoReply
  <1>3. QED
    BY <1>1, <1>2

\* The steps of `down', agent by agent.
LEMMA OwedDownSteps ==
    ASSUME TypeOK, RunTrue, Owed, Running, NEW a \in Agents,
           \/ ShutdownAgent(a) \/ ShutdownUnconnected(a) \/ ShutdownClaude(a)
           \/ ChildSeenExiting(a) \/ KillChild(a) \/ KillGraceOver(a)
    PROVE  Owed'
  <1>1. CASE ShutdownAgent(a)
    BY <1>1, FinalizeOwed DEF ShutdownAgent, Shutting, TypeOK
  <1>2. CASE ShutdownUnconnected(a) \/ ChildSeenExiting(a) \/ KillChild(a) \/ KillGraceOver(a)
    BY <1>2, OwedElsewhere
       DEF ShutdownUnconnected, ChildSeenExiting, KillChild, KillGraceOver, Shutting, Released, Owed
  <1>3. CASE ShutdownClaude(a)
    <2>1. run'.pc \in Awaiting <=> run.pc \in Awaiting
      BY <1>3 DEF ShutdownClaude, RunTrue, TypeOK, Awaiting
    <2>2. run'.agent = run.agent
      BY <1>3 DEF ShutdownClaude, TypeOK
    <2>3. QED
      BY <1>3, <2>1, <2>2, OwedElsewhere DEF ShutdownClaude, Shutting, Released, Owed
  <1>4. QED
    BY <1>1, <1>2, <1>3

\* The reader, the timers and the exit event give something to the one who waits.
LEMMA OwedConnectionSteps ==
    ASSUME TypeOK, LinesTrue, RunTrue, Owed, Running, NEW a \in Codex, ConnectionStep(a) \/ ReadLine(a)
    PROVE  Owed'
  <1>0. pending \in [Codex -> SUBSET Nat] /\ waiters \in [Codex -> SUBSET Nat] /\ reply \in [Agents -> Int]
    BY DEF TypeOK
  <1>1. a \in Agents
    BY DEF Agents
  <1>2. CASE RequestTimesOut(a) \/ TurnTimesOut(a)
    <2> SUFFICES ASSUME NEW b \in Codex PROVE OwedAt(b)'
      BY DEF Owed
    <2>1. CASE b # a
      <3>1. pending'[b] = pending[b] /\ waiters'[b] = waiters[b] /\ reply'[b] = reply[b]
        <4>1. reply' = [reply EXCEPT ![a] = Rejected]
          BY <1>2 DEF RequestTimesOut, TurnTimesOut
        <4>2. pending' = pending \/ \E id \in pending[a] : pending' = [pending EXCEPT ![a] = @ \ {id}]
          BY <1>2 DEF RequestTimesOut, TurnTimesOut
        <4>3. waiters' = waiters \/ \E turn \in waiters[a] : waiters' = [waiters EXCEPT ![a] = @ \ {turn}]
          BY <1>2 DEF RequestTimesOut, TurnTimesOut
        <4>4. reply'[b] = reply[b]
          BY <1>0, <2>1, <4>1
        <4>5. pending'[b] = pending[b]
          BY <1>0, <2>1, <4>2
        <4>6. waiters'[b] = waiters[b]
          BY <1>0, <2>1, <4>3
        <4>7. QED
          BY <4>4, <4>5, <4>6
      <3>2. UNCHANGED <<run, connected, at, phase>>
        BY <1>2 DEF RequestTimesOut, TurnTimesOut
      <3>3. QED
        BY <3>1, <3>2, OwedElsewhere DEF Owed
    <2>2. CASE b = a
      <3>1. reply'[a] = Rejected /\ UNCHANGED <<run, connected, at, phase>>
        BY <1>1, <1>2 DEF RequestTimesOut, TurnTimesOut, TypeOK
      <3>2. pending'[a] = {} /\ waiters'[a] = {}
        <4>1. CASE RequestTimesOut(a)
          <5>1. PICK id \in pending[a] : pending' = [pending EXCEPT ![a] = @ \ {id}]
            BY <4>1 DEF RequestTimesOut
          <5>2. pending[a] \subseteq {id} /\ waiters[a] = {}
            BY <5>1 DEF Owed, OwedAt, Outstanding
          <5>3. QED
            BY <4>1, <5>1, <5>2 DEF RequestTimesOut, TypeOK
        <4>2. CASE TurnTimesOut(a)
          <5>1. PICK turn \in waiters[a] : waiters' = [waiters EXCEPT ![a] = @ \ {turn}]
            BY <4>2 DEF TurnTimesOut
          <5>2. waiters[a] \subseteq {turn} /\ pending[a] = {}
            BY <5>1 DEF Owed, OwedAt, Outstanding
          <5>3. QED
            BY <4>2, <5>1, <5>2 DEF TurnTimesOut, TypeOK
        <4>3. QED
          BY <1>2, <4>1, <4>2
      <3>3. QED
        BY <2>2, <3>1, <3>2 DEF OwedAt, Outstanding, Rejected, NoReply
    <2>3. QED
      BY <2>1, <2>2
  <1>3. CASE ExitEvent(a)
    <2>1. CASE a \in connected
      BY <1>3, <2>1, FinalizeOwed DEF ExitEvent
    <2>2. CASE a \notin connected
      BY <1>3, <2>2, OwedElsewhere DEF ExitEvent, Owed
    <2>3. QED
      BY <2>1, <2>2
  <1>4. CASE ReadLine(a)
    <2> SUFFICES ASSUME NEW b \in Codex PROVE OwedAt(b)'
      BY DEF Owed
    <2> DEFINE line == Head(lines[a])
    <2>1. UNCHANGED <<run, connected, at>> /\ phase' \in {phase, "crashed"}
      BY <1>4 DEF ReadLine, WriteMayCrash
    <2>2. line \in Line /\ (line.kind = "response" => line.body \in {line.id, Nameless, Rejected})
      BY <1>4 DEF ReadLine, TypeOK, LinesTrue
    <2>3. CASE line.kind = "response" /\ Resolve(a, line) /\ UNCHANGED waiters
      <3>1. line.body # NoReply
        BY <2>2, <2>3 DEF Line, NoReply, Nameless, Rejected
      <3>2. CASE line.id \notin pending[a]
        BY <2>1, <2>3, <3>2, OwedElsewhere DEF Resolve, Owed
      <3>3. CASE line.id \in pending[a]
        <4>1. pending' = [pending EXCEPT ![a] = @ \ {line.id}] /\ reply' = [reply EXCEPT ![a] = line.body]
          BY <2>3, <3>3 DEF Resolve
        <4>2. CASE b # a
          <5>1. pending'[b] = pending[b] /\ reply'[b] = reply[b]
            BY <4>1, <4>2 DEF TypeOK
          <5>2. QED
            BY <2>1, <2>3, <5>1, OwedElsewhere DEF Owed
        <4>3. CASE b = a
          <5>1. pending'[a] = {} /\ waiters'[a] = {} /\ reply'[a] = line.body
            <6>1. waiters[a] = {} /\ pending[a] \subseteq {line.id}
              BY <3>3 DEF Owed, OwedAt, Outstanding
            <6>2. QED
              BY <1>0, <1>1, <2>3, <4>1, <6>1
          <5>2. QED
            BY <3>1, <4>3, <5>1 DEF OwedAt, Outstanding
        <4>4. QED
          BY <4>2, <4>3
      <3>4. QED
        BY <3>2, <3>3
    <2>4. CASE line.kind = "completed" /\ MarkTurnCompleted(a, line.id) /\ UNCHANGED pending
      <3>1. line.id # NoReply
        BY <2>2, <2>4 DEF Line, NoReply
      <3>2. waiters' = [waiters EXCEPT ![a] = @ \ {line.id}]
            /\ reply' = IF line.id \in waiters[a] THEN [reply EXCEPT ![a] = line.id] ELSE reply
        BY <2>4 DEF MarkTurnCompleted
      <3>3. CASE line.id \notin waiters[a] \/ b # a
        <4>1. waiters'[b] = waiters[b] /\ reply'[b] = reply[b]
          BY <3>2, <3>3 DEF TypeOK
        <4>2. QED
          BY <2>1, <2>4, <4>1, OwedElsewhere DEF Owed
      <3>4. CASE line.id \in waiters[a] /\ b = a
        <4>1. pending'[a] = {} /\ waiters'[a] = {} /\ reply'[a] = line.id
          <5>1. pending[a] = {} /\ waiters[a] \subseteq {line.id}
            BY <3>4 DEF Owed, OwedAt, Outstanding
          <5>2. QED
            BY <1>0, <1>1, <2>4, <3>2, <3>4, <5>1
        <4>2. QED
          BY <3>1, <3>4, <4>1 DEF OwedAt, Outstanding
      <3>5. QED
        BY <3>3, <3>4
    <2>5. CASE UNCHANGED <<pending, waiters, reply>>
      BY <2>1, <2>5, OwedElsewhere DEF Owed
    <2>6. QED
      BY <1>4, <2>3, <2>4, <2>5 DEF ReadLine
  <1>5. QED
    BY <1>2, <1>3, <1>4 DEF ConnectionStep

\* A child's steps reach nobody before its lines are read.
LEMMA OwedChildSteps ==
    ASSUME Owed, NEW a \in Codex, ChildStep(a)
    PROVE  Owed'
  BY OwedElsewhere
     DEF ChildStep, ChildAnswers, ChildCompletes, ChildAsks, ChildExits, ChildStops, Exits, ChildOnly, Owed

\* The steps of a dispatch: a request or a wait is what is outstanding then.
LEMMA OwedDispatchSteps ==
    ASSUME TypeOK, RunTrue, Owed, Running, NEW a \in Agents,
           \/ Dispatch(a) \/ StartThread(a) \/ StartTurn(a) \/ WaitForTurnCompletion(a)
           \/ TurnCompleted(a) \/ RequestFailed(a) \/ StartQuery(a) \/ QueryEnds(a)
    PROVE  Owed'
  <1> SUFFICES ASSUME NEW b \in Codex PROVE OwedAt(b)'
    BY DEF Owed
  <1>0. pending \in [Codex -> SUBSET Nat] /\ waiters \in [Codex -> SUBSET Nat] /\ reply \in [Agents -> Int]
        /\ nextId \in [Codex -> Nat \ {0}] /\ b \in Agents
    BY DEF TypeOK, Agents
  <1>1. CASE Dispatch(a)
    <2>1. run.pc \notin Awaiting /\ run'.pc \notin Awaiting
      <3>1. run' = NoRun \/ run'.pc = "prompt"
        BY <1>1 DEF Dispatch, NoRun
      <3>2. run'.pc \in {"idle", "prompt"}
        BY <3>1 DEF NoRun
      <3>3. QED
        BY <1>1, <3>2 DEF Dispatch, Awaiting
    <2>2. QED
      BY <1>1, <2>1, OwedElsewhere DEF Dispatch, Owed
  <1>2. CASE StartQuery(a) \/ QueryEnds(a)
    <2>1. run.pc \notin Awaiting /\ run'.pc \notin Awaiting
      BY <1>2 DEF StartQuery, QueryEnds, Fail, NoRun, Awaiting, TypeOK
    <2>2. QED
      BY <1>2, <2>1, OwedElsewhere DEF StartQuery, QueryEnds, Owed
  <1>3. CASE StartThread(a) \/ StartTurn(a)
    <2>1. PICK method \in Method : \E pc \in {"thread", "turn"} : Request(a, method, pc) /\ DispatchOnly
      BY <1>3 DEF StartThread, StartTurn, Method
    <2>2. PICK pc \in {"thread", "turn"} : Request(a, method, pc) /\ DispatchOnly
      BY <2>1
    <2>3. run.agent = a /\ a \in Codex /\ phase' \in {phase, "crashed"} /\ UNCHANGED <<at, connected, waiters>>
      BY <1>3, <2>2, SendTyped DEF StartThread, StartTurn, RunTrue, Awaiting, DispatchOnly
    <2>4. pending[a] = {} /\ waiters[a] = {}
      BY <1>3, <2>3, NothingOutstanding DEF StartThread, StartTurn, Awaiting, Nameless, NoReply
    <2>5. reply' = [reply EXCEPT ![a] = NoReply]
      BY <2>2 DEF Request, SendRequest, Consumed
    <2>6. CASE a \notin connected
      <3>1. run' = NoRun /\ pending' = pending
        BY <2>2, <2>6 DEF Request, Fail
      <3>2. CASE b = a
        BY <2>3, <2>4, <3>1, <3>2, NobodyAssumption DEF OwedAt, Outstanding, AwaitedByRun, NoRun, Awaiting
      <3>3. CASE b # a
        BY <1>0, <2>3, <2>5, <3>1, <3>3, OwedElsewhere DEF NoRun, Awaiting, Owed
      <3>4. QED
        BY <3>2, <3>3
    <2>7. CASE a \in connected
      <3>1. pending' = [pending EXCEPT ![a] = @ \cup {nextId[a]}]
            /\ run' = [run EXCEPT !.pc = pc, !.asked = nextId[a]]
        BY <2>2, <2>7 DEF Request, SendRequest
      <3>2. run'.pc = pc /\ run'.agent = a
        BY <2>3, <3>1 DEF TypeOK
      <3>3. CASE b = a
        <4>1. pending'[a] = {nextId[a]} /\ waiters'[a] = {} /\ reply'[a] = NoReply
          BY <1>0, <2>3, <2>4, <2>5, <3>1, <3>3
        <4>2. QED
          BY <2>3, <2>7, <3>2, <3>3, <4>1 DEF OwedAt, Outstanding, AwaitedByRun, Awaiting
      <3>4. CASE b # a
        <4>1. pending'[b] = pending[b] /\ waiters'[b] = waiters[b] /\ reply'[b] = reply[b]
          BY <1>0, <2>3, <2>5, <3>1, <3>4
        <4>2. QED
          BY <2>3, <3>2, <3>4, <4>1, OwedElsewhere DEF Owed
      <3>5. QED
        BY <3>3, <3>4
    <2>8. QED
      BY <2>6, <2>7
  <1>4. CASE WaitForTurnCompletion(a)
    <2>1. run.agent = a /\ a \in Codex /\ reply[a] \in Nat /\ UNCHANGED <<at, phase, connected, pending>>
      BY <1>0, <1>4 DEF WaitForTurnCompletion, RunTrue, Awaiting, DispatchOnly, Nameless
    <2>2. pending[a] = {} /\ waiters[a] = {}
      BY <1>4, <2>1, NothingOutstanding DEF NoReply
    <2>3. reply' = [reply EXCEPT ![a] = NoReply]
      BY <1>4 DEF WaitForTurnCompletion, Consumed
    <2>4. CASE waiters' = waiters /\ run'.pc \notin Awaiting
      BY <1>0, <2>1, <2>2, <2>3, <2>4, OwedElsewhere DEF OwedAt, Outstanding, AwaitedByRun, Owed
    <2>5. CASE a \in connected /\ waiters' = [waiters EXCEPT ![a] = @ \cup {reply[a]}]
               /\ run' = [run EXCEPT !.pc = "wait", !.turn = reply[a]]
      <3>1. run'.pc = "wait" /\ run'.agent = a
        BY <2>1, <2>5 DEF TypeOK
      <3>2. CASE b = a
        <4>1. pending'[a] = {} /\ waiters'[a] = {reply[a]} /\ reply'[a] = NoReply
          BY <1>0, <2>1, <2>2, <2>3, <2>5, <3>2
        <4>2. QED
          BY <2>1, <2>5, <3>1, <3>2, <4>1 DEF OwedAt, Outstanding, AwaitedByRun, Awaiting
      <3>3. CASE b # a
        <4>1. pending'[b] = pending[b] /\ waiters'[b] = waiters[b] /\ reply'[b] = reply[b]
          BY <1>0, <2>1, <2>3, <2>5, <3>3
        <4>2. QED
          BY <2>1, <3>1, <3>3, <4>1, OwedElsewhere DEF Owed
      <3>4. QED
        BY <3>2, <3>3
    <2>6. (waiters' = waiters /\ run'.pc \notin Awaiting)
          \/ (a \in connected /\ waiters' = [waiters EXCEPT ![a] = @ \cup {reply[a]}]
              /\ run' = [run EXCEPT !.pc = "wait", !.turn = reply[a]])
      <3>1. [run EXCEPT !.pc = "save", !.turn = reply[a]].pc \notin Awaiting /\ NoRun.pc \notin Awaiting
        BY DEF NoRun, Awaiting, TypeOK
      <3>2. QED
        BY <1>4, <3>1 DEF WaitForTurnCompletion, Await, Fail
    <2>7. QED
      BY <2>4, <2>5, <2>6
  <1>5. CASE TurnCompleted(a) \/ RequestFailed(a)
    <2>1. run.agent = a /\ a \in Codex /\ reply[a] # NoReply
      BY <1>0, <1>5 DEF TurnCompleted, RequestFailed, NoThreadId, RunTrue, Awaiting, Nameless, Rejected, NoReply
    <2>2. UNCHANGED <<at, phase, connected, pending, waiters>> /\ reply' = [reply EXCEPT ![a] = NoReply]
      BY <1>5 DEF TurnCompleted, RequestFailed, Consumed, DispatchOnly
    <2>3. pending[a] = {} /\ waiters[a] = {}
      BY <2>1, NothingOutstanding
    <2>4. run'.pc \notin Awaiting
      BY <1>5 DEF TurnCompleted, RequestFailed, Fail, NoRun, Awaiting, TypeOK
    <2>5. QED
      BY <1>0, <2>1, <2>2, <2>3, <2>4, OwedElsewhere DEF OwedAt, Outstanding, AwaitedByRun, Owed
  <1>6. QED
    BY <1>1, <1>2, <1>3, <1>4, <1>5

\* Every step keeps Owed.
LEMMA OwedStep ==
    ASSUME TypeOK, LinesTrue, RunTrue, Owed, [Next]_vars
    PROVE  Owed'
  <1>1. CASE UNCHANGED vars
    BY <1>1, OwedElsewhere DEF vars, Owed
  <1>2. CASE Next
    <2>1. Running
      BY <1>2 DEF Next
    <2>2. CASE SaveUp \/ ReadStatus \/ SaveSession \/ FinishDispatch \/ BeginDown \/ SaveDown \/ Exit
      BY <2>1, <2>2, OwedAloneSteps
    <2>3. ASSUME NEW a \in Agents, ManagerStep(a) \/ Dispatch(a) \/ PrepareFails(a)
                                   \/ ValidateClaudeRuntimeConfigFails(a)
          PROVE  Owed'
      BY <2>1, <2>3, OwedUpSteps, OwedDownSteps, OwedDispatchSteps DEF ManagerStep
    <2>4. ASSUME NEW a \in Codex, ConnectionStep(a) \/ ChildStep(a) \/ ReadLine(a)
          PROVE  Owed'
      BY <2>1, <2>4, OwedConnectionSteps, OwedChildSteps
    <2>5. ASSUME NEW a \in Claude, QueryEnds(a)
          PROVE  Owed'
      BY <2>1, <2>5, OwedDispatchSteps DEF Agents
    <2>6. QED
      BY <1>2, <2>2, <2>3, <2>4, <2>5 DEF Next, SilentStep
  <1>3. QED
    BY <1>1, <1>2

\* The dispatch stays where it is and loses no more than what is outstanding.
LEMMA OwnFrame ==
    ASSUME OwnRequest, run' = run,
           run.agent \in Codex => /\ pending'[run.agent] \subseteq pending[run.agent]
                                  /\ waiters'[run.agent] \subseteq waiters[run.agent]
                                  /\ reply'[run.agent] \in {reply[run.agent], Rejected}
                                  /\ heard[run.agent] \subseteq heard'[run.agent]
    PROVE  OwnRequest'
  BY DEF OwnRequest, Rejected, Nameless

\* The steps that leave the dispatch as it is.
LEMMA OwnOtherSteps ==
    ASSUME TypeOK, LinesTrue, RunTrue, Owed, OwnRequest, Running, NEW a \in Agents,
           \/ StartAgent(a) \/ PrepareFails(a) \/ Handshake(a) \/ PrepareClaude(a)
           \/ ValidateClaudeRuntimeConfigFails(a) \/ ShutdownAgent(a) \/ ShutdownUnconnected(a)
           \/ ChildSeenExiting(a) \/ KillChild(a) \/ KillGraceOver(a) \/ ConnectionStep(a) \/ ChildStep(a)
    PROVE  OwnRequest'
  <1>0. pending \in [Codex -> SUBSET Nat] /\ waiters \in [Codex -> SUBSET Nat] /\ reply \in [Agents -> Int]
        /\ Codex \subseteq Agents
    BY DEF TypeOK, Agents
  <1>1. CASE phase = "up"
    <2>1. run.agent \notin Codex /\ run' = run
      BY <1>1, NobodyAssumption
         DEF RunTrue, Agents, StartAgent, PrepareFails, Handshake, PrepareClaude,
             ValidateClaudeRuntimeConfigFails, Prepared, ShutdownAgent, ShutdownUnconnected,
             ChildSeenExiting, KillChild, KillGraceOver, ConnectionStep, RequestTimesOut, TurnTimesOut,
             ExitEvent, ChildStep, ChildAnswers, ChildCompletes, ChildAsks, ChildExits, ChildStops,
             Exits, ChildOnly
    <2>2. QED
      BY <2>1 DEF OwnRequest
  <1>2. CASE ShutdownUnconnected(a) \/ ChildSeenExiting(a) \/ KillChild(a) \/ KillGraceOver(a)
    BY <1>2, OwnFrame
       DEF ShutdownUnconnected, ChildSeenExiting, KillChild, KillGraceOver, Shutting, Released
  <1>3. CASE ChildStep(a)
    BY <1>3, OwnFrame
       DEF ChildStep, ChildAnswers, ChildCompletes, ChildAsks, ChildExits, ChildStops, Exits, ChildOnly
  <1>4. ASSUME Finalize(a), UNCHANGED run
        PROVE  OwnRequest'
    <2>1. pending' = [pending EXCEPT ![a] = {}] /\ waiters' = [waiters EXCEPT ![a] = {}] /\ heard' = heard
          /\ (reply' = reply \/ reply' = [reply EXCEPT ![a] = Rejected])
      BY <1>4 DEF Finalize
    <2>2. QED
      BY <1>0, <1>4, <2>1, OwnFrame
  <1>5. CASE ShutdownAgent(a)
    BY <1>4, <1>5 DEF ShutdownAgent
  <1>6. CASE ExitEvent(a)
    BY <1>4, <1>6, OwnFrame DEF ExitEvent
  <1>7. CASE RequestTimesOut(a)
    <2>1. PICK id \in pending[a] : pending' = [pending EXCEPT ![a] = @ \ {id}]
      BY <1>7 DEF RequestTimesOut
    <2>2. reply' = [reply EXCEPT ![a] = Rejected] /\ UNCHANGED <<waiters, heard, run>>
      BY <1>7 DEF RequestTimesOut
    <2>3. QED
      BY <1>0, <2>1, <2>2, OwnFrame
  <1>8. CASE TurnTimesOut(a)
    <2>1. PICK turn \in waiters[a] : waiters' = [waiters EXCEPT ![a] = @ \ {turn}]
      BY <1>8 DEF TurnTimesOut
    <2>2. reply' = [reply EXCEPT ![a] = Rejected] /\ UNCHANGED <<pending, heard, run>>
      BY <1>8 DEF TurnTimesOut
    <2>3. QED
      BY <1>0, <2>1, <2>2, OwnFrame
  <1>9. QED
    BY <1>1, <1>2, <1>3, <1>5, <1>6, <1>7, <1>8
       DEF ConnectionStep, StartAgent, PrepareFails, Handshake, PrepareClaude, ValidateClaudeRuntimeConfigFails

\* The steps of the manager that are about no agent.
LEMMA OwnAloneSteps ==
    ASSUME TypeOK, OwnRequest,
           SaveUp \/ ReadStatus \/ SaveSession \/ FinishDispatch \/ BeginDown \/ SaveDown \/ Exit
           \/ UNCHANGED vars
    PROVE  OwnRequest'
  <1>1. CASE SaveSession
    <2>1. run' = [run EXCEPT !.pc = "after"] /\ run.pc = "save" /\ UNCHANGED heard
      BY <1>1 DEF SaveSession
    <2>2. run'.pc = "after" /\ run'.agent = run.agent /\ run'.turn = run.turn /\ run'.asked = run.asked
      BY <2>1 DEF TypeOK
    <2>3. QED
      BY <2>1, <2>2 DEF OwnRequest
  <1>2. CASE FinishDispatch
    BY <1>2, NobodyAssumption DEF FinishDispatch, OwnRequest, NoRun, Agents
  <1>3. CASE SaveUp \/ ReadStatus \/ BeginDown \/ SaveDown \/ Exit \/ UNCHANGED vars
    BY <1>3, OwnFrame DEF SaveUp, ReadStatus, BeginDown, SaveDown, Exit, vars
  <1>4. QED
    BY <1>1, <1>2, <1>3

\* A line that is read: an answer to the request that is waited for, or the end of the turn.
LEMMA OwnReadStep ==
    ASSUME TypeOK, LinesTrue, Owed, OwnRequest, NEW a \in Codex, ReadLine(a)
    PROVE  OwnRequest'
  <1> DEFINE line == Head(lines[a])
  <1>0. pending \in [Codex -> SUBSET Nat] /\ waiters \in [Codex -> SUBSET Nat] /\ reply \in [Agents -> Int]
        /\ heard \in [Codex -> SUBSET Nat] /\ a \in Agents /\ Codex \subseteq Agents
    BY DEF TypeOK, Agents
  <1>1. run' = run
    BY DEF ReadLine
  <1>2. line \in Line /\ (line.kind = "response" => line.body \in {line.id, Nameless, Rejected})
    BY DEF ReadLine, TypeOK, LinesTrue
  <1>3. CASE UNCHANGED <<pending, waiters, reply, heard>>
    BY <1>1, <1>3, OwnFrame
  <1>4. CASE run.agent # a /\ run.agent \in Codex
    <2>1. pending'[run.agent] = pending[run.agent] /\ reply'[run.agent] = reply[run.agent]
      <3>1. pending' = pending \/ pending' = [pending EXCEPT ![a] = @ \ {line.id}]
        BY DEF ReadLine, Resolve
      <3>2. reply' = reply \/ reply' = [reply EXCEPT ![a] = line.body] \/ reply' = [reply EXCEPT ![a] = line.id]
        BY DEF ReadLine, Resolve, MarkTurnCompleted
      <3>3. pending'[run.agent] = pending[run.agent]
        BY <1>0, <1>4, <3>1
      <3>4. reply'[run.agent] = reply[run.agent]
        BY <1>0, <1>4, <3>2
      <3>5. QED
        BY <3>3, <3>4
    <2>2. waiters'[run.agent] = waiters[run.agent] /\ heard'[run.agent] = heard[run.agent]
      <3>1. waiters' = waiters \/ waiters' = [waiters EXCEPT ![a] = @ \ {line.id}]
        BY DEF ReadLine, MarkTurnCompleted
      <3>2. heard' = heard \/ heard' = [heard EXCEPT ![a] = @ \cup {line.id}]
        BY DEF ReadLine
      <3>3. QED
        BY <1>0, <1>4, <3>1, <3>2
    <2>3. QED
      BY <1>1, <2>1, <2>2, OwnFrame
  <1>5. CASE run.agent = a /\ line.kind = "response" /\ line.id \in pending[a] /\ Resolve(a, line)
             /\ UNCHANGED <<waiters, heard>>
    <2>1. pending' = [pending EXCEPT ![a] = @ \ {line.id}] /\ reply' = [reply EXCEPT ![a] = line.body]
      BY <1>5 DEF Resolve
    <2>2. pending'[a] \subseteq pending[a] /\ reply'[a] = line.body
      BY <1>0, <2>1
    <2>3. line.body > Nameless => line.body = line.id
      BY <1>2, <1>5 DEF Nameless, Rejected
    <2>4. QED
      BY <1>1, <1>5, <2>2, <2>3 DEF OwnRequest
  <1>6. CASE run.agent = a /\ line.kind = "completed" /\ MarkTurnCompleted(a, line.id)
             /\ heard' = [heard EXCEPT ![a] = @ \cup {line.id}] /\ UNCHANGED pending
    <2>1. heard[a] \subseteq heard'[a] /\ line.id \in heard'[a] /\ waiters'[a] \subseteq waiters[a]
      BY <1>0, <1>6 DEF MarkTurnCompleted
    <2>2. CASE line.id \notin waiters[a]
      BY <1>1, <1>6, <2>1, <2>2, OwnFrame DEF MarkTurnCompleted
    <2>3. CASE line.id \in waiters[a]
      <3>1. reply'[a] = line.id
        BY <1>0, <1>6, <2>3 DEF MarkTurnCompleted
      <3>2. QED
        BY <1>1, <1>6, <2>1, <2>3, <3>1 DEF OwnRequest
    <2>4. QED
      BY <2>2, <2>3
  <1>7. CASE run.agent \notin Codex
    BY <1>1, <1>7 DEF OwnRequest
  <1>8. QED
    <2>1. CASE line.kind = "response" /\ Resolve(a, line) /\ UNCHANGED <<waiters, heard>>
      BY <1>3, <1>4, <1>5, <1>7, <2>1 DEF Resolve
    <2>2. CASE line.kind = "completed" /\ MarkTurnCompleted(a, line.id)
               /\ heard' = [heard EXCEPT ![a] = @ \cup {line.id}] /\ UNCHANGED pending
      BY <1>4, <1>6, <1>7, <2>2
    <2>3. CASE UNCHANGED <<pending, waiters, reply, heard>>
      BY <1>3, <2>3
    <2>4. QED
      BY <2>1, <2>2, <2>3 DEF ReadLine

\* The steps of a dispatch: it asks, it waits for the turn the answer names, it is given its end.
LEMMA OwnDispatchSteps ==
    ASSUME TypeOK, RunTrue, Owed, OwnRequest, Remembered, Running, NEW a \in Agents,
           \/ Dispatch(a) \/ StartThread(a) \/ StartTurn(a) \/ WaitForTurnCompletion(a)
           \/ TurnCompleted(a) \/ RequestFailed(a) \/ StartQuery(a) \/ QueryEnds(a) \/ ShutdownClaude(a)
    PROVE  OwnRequest'
  <1>0. pending \in [Codex -> SUBSET Nat] /\ waiters \in [Codex -> SUBSET Nat] /\ reply \in [Agents -> Int]
        /\ nextId \in [Codex -> Nat \ {0}] /\ Codex \subseteq Agents /\ Nobody \notin Codex
    BY NobodyAssumption DEF TypeOK, Agents
  <1>1. CASE run' = NoRun
    BY <1>0, <1>1 DEF OwnRequest, NoRun
  <1>2. CASE Dispatch(a)
    <2>1. run' = NoRun \/ run'.pc = "prompt"
      BY <1>2 DEF Dispatch, NoRun
    <2>2. QED
      BY <1>1, <2>1 DEF OwnRequest
  <1>3. CASE StartQuery(a) \/ QueryEnds(a) \/ ShutdownClaude(a)
    <2>1. run' = NoRun \/ run'.agent \notin Codex \/ (run' = run /\ UNCHANGED <<pending, waiters, reply, heard>>)
      BY <1>3, AgentsAssumption DEF StartQuery, QueryEnds, ShutdownClaude, Fail, RunTrue, TypeOK
    <2>2. QED
      BY <1>1, <2>1, OwnFrame DEF OwnRequest
  <1>4. CASE StartThread(a) \/ StartTurn(a)
    <2>1. PICK method \in Method : \E pc \in {"thread", "turn"} : Request(a, method, pc) /\ DispatchOnly
      BY <1>4 DEF StartThread, StartTurn, Method
    <2>2. PICK pc \in {"thread", "turn"} : Request(a, method, pc) /\ DispatchOnly
      BY <2>1
    <2>3. run.agent = a /\ a \in Codex
      BY <1>4 DEF StartThread, StartTurn, RunTrue, Awaiting
    <2>4. pending[a] = {} /\ waiters[a] = {}
      BY <1>4, <2>3, NothingOutstanding DEF StartThread, StartTurn, Awaiting, Nameless, NoReply
    <2>5. CASE a \in connected
      <3>1. pending' = [pending EXCEPT ![a] = @ \cup {nextId[a]}] /\ waiters' = waiters
            /\ reply' = [reply EXCEPT ![a] = NoReply] /\ run' = [run EXCEPT !.pc = pc, !.asked = nextId[a]]
        BY <2>2, <2>5 DEF Request, SendRequest, Consumed
      <3>2. run'.agent = a /\ run'.pc = pc /\ run'.asked = nextId[a]
        BY <2>3, <3>1 DEF TypeOK
      <3>3. pending'[a] = {nextId[a]} /\ waiters'[a] = {} /\ reply'[a] = NoReply
        BY <1>0, <2>3, <2>4, <3>1
      <3>4. QED
        BY <2>3, <3>2, <3>3 DEF OwnRequest, NoReply, Nameless
    <2>6. QED
      BY <1>1, <2>2, <2>5 DEF Request, Fail
  <1>5. CASE WaitForTurnCompletion(a)
    <2>1. run.agent = a /\ a \in Codex /\ run.pc = "turn" /\ reply[a] >= Nameless /\ UNCHANGED <<heard, pending>>
      BY <1>5 DEF WaitForTurnCompletion, RunTrue, Awaiting
    <2>2. pending[a] = {} /\ waiters[a] = {}
      BY <2>1, NothingOutstanding DEF NoReply, Nameless
    <2>3. reply[a] # Nameless => reply[a] = run.asked
      BY <1>0, <2>1 DEF OwnRequest, Nameless
    <2>4. reply'[a] = NoReply
      BY <1>0, <2>1, <1>5 DEF WaitForTurnCompletion, Consumed
    <2>5. CASE run' = [run EXCEPT !.pc = "save", !.turn = reply[a]]
      <3>1. run'.agent = a /\ run'.pc = "save" /\ run'.turn = reply[a] /\ run'.asked = run.asked
        BY <2>1, <2>5 DEF TypeOK
      <3>2. reply[a] # Nameless => \E i \in DOMAIN completed[a] : completed[a][i] = reply[a]
        <4>1. run' # NoRun
          BY <3>1 DEF NoRun
        <4>2. [run EXCEPT !.pc = "wait", !.turn = reply[a]].pc = "wait"
          BY DEF TypeOK
        <4>3. run' # [run EXCEPT !.pc = "wait", !.turn = reply[a]]
          BY <3>1, <4>2
        <4>4. QED
          BY <1>5, <4>1, <4>3 DEF WaitForTurnCompletion, Await, Fail
      <3>3. reply[a] # Nameless => reply[a] \in heard[a]
        BY <2>1, <3>2 DEF Remembered
      <3>4. QED
        BY <2>1, <2>3, <3>1, <3>3 DEF OwnRequest
    <2>6. CASE reply[a] # Nameless /\ waiters' = [waiters EXCEPT ![a] = @ \cup {reply[a]}]
               /\ run' = [run EXCEPT !.pc = "wait", !.turn = reply[a]]
      <3>1. run'.agent = a /\ run'.pc = "wait" /\ run'.turn = reply[a] /\ run'.asked = run.asked
        BY <2>1, <2>6 DEF TypeOK
      <3>2. waiters'[a] = {reply[a]} /\ pending'[a] = {}
        BY <1>0, <2>1, <2>2, <2>6
      <3>3. QED
        BY <2>1, <2>3, <2>4, <2>6, <3>1, <3>2 DEF OwnRequest, NoReply, Nameless
    <2>7. QED
      BY <1>1, <1>5, <2>5, <2>6 DEF WaitForTurnCompletion, Await, Fail
  <1>6. CASE TurnCompleted(a)
    <2>1. run.agent = a /\ run.pc = "wait" /\ reply[a] > Nameless /\ UNCHANGED heard
      BY <1>6 DEF TurnCompleted
    <2>2. run'.agent = a /\ run'.pc = "save" /\ run'.turn = run.turn /\ run'.asked = run.asked
      BY <1>6, <2>1 DEF TurnCompleted, TypeOK
    <2>3. QED
      BY <2>1, <2>2 DEF OwnRequest
  <1>7. CASE RequestFailed(a)
    BY <1>1, <1>7 DEF RequestFailed, Fail
  <1>8. QED
    BY <1>2, <1>3, <1>4, <1>5, <1>6, <1>7

\* Every step keeps TurnsInv.
LEMMA TurnsStep ==
    ASSUME TypeOK, TurnsInv, [Next]_vars
    PROVE  TurnsInv'
  <1> USE DEF TurnsInv
  <1>1. OwnRequest'
    <2>1. CASE UNCHANGED vars
      BY <2>1, OwnAloneSteps
    <2>2. CASE Next
      <3>1. Running
        BY <2>2 DEF Next
      <3>2. CASE SaveUp \/ ReadStatus \/ SaveSession \/ FinishDispatch \/ BeginDown \/ SaveDown \/ Exit
        BY <3>2, OwnAloneSteps
      <3>3. ASSUME NEW a \in Agents, ManagerStep(a) \/ Dispatch(a) \/ PrepareFails(a)
                                     \/ ValidateClaudeRuntimeConfigFails(a)
            PROVE  OwnRequest'
        BY <3>1, <3>3, OwnOtherSteps, OwnDispatchSteps DEF ManagerStep
      <3>4. ASSUME NEW a \in Codex, ConnectionStep(a) \/ ChildStep(a) \/ ReadLine(a)
            PROVE  OwnRequest'
        BY <3>1, <3>4, OwnOtherSteps, OwnReadStep DEF Agents
      <3>5. ASSUME NEW a \in Claude, QueryEnds(a)
            PROVE  OwnRequest'
        BY <3>1, <3>5, OwnDispatchSteps DEF Agents
      <3>6. QED
        BY <2>2, <3>2, <3>3, <3>4, <3>5 DEF Next, SilentStep
    <2>3. QED
      BY <2>1, <2>2
  <1>2. QED
    BY <1>1, LinesStep, RunStep, OwedStep, RememberedStep

\* A dispatch goes on with the answer to its own latest request and succeeds only when the end of
\* the turn it started has been read (AppServerClient's pending and pendingTurnCompletions maps).
THEOREM DispatchesFollowTheirTurn == Spec => []OwnTurn
  <1>1. Init => TypeOK /\ TurnsInv
    BY InitTyped, InitTurns
  <1>2. TypeOK /\ TurnsInv /\ [Next]_vars => (TypeOK /\ TurnsInv)'
    BY StepTyped, TurnsStep
  <1>3. TypeOK /\ TurnsInv => OwnTurn
    BY DEF TurnsInv, OwnRequest, OwnTurn
  <1>4. QED
    BY <1>1, <1>2, <1>3, PTL DEF Spec

\* The steps that change no more than the requests of the connections: who waits for turns either
\* is given up or stays, and nothing is heard.
LEMMA WaitersOnlyByWaiting ==
    ASSUME TypeOK, [Next]_vars
    PROVE  \/ \A a \in Codex : waiters'[a] \subseteq waiters[a] /\ UNCHANGED <<completed, heard>>
           \/ \E a \in Codex : ReadLine(a)
           \/ \E a \in Agents : WaitForTurnCompletion(a)
  <1> DEFINE Quiet == UNCHANGED <<completed, heard>> /\ \A a \in Codex : waiters'[a] \subseteq waiters[a]
  <1>0. waiters \in [Codex -> SUBSET Nat]
    BY DEF TypeOK
  <1>1. CASE UNCHANGED <<completed, heard, waiters>>
    BY <1>1
  <1>2. ASSUME NEW a \in Codex, Finalize(a)
        PROVE  Quiet
    BY <1>0, <1>2 DEF Finalize
  <1>3. ASSUME NEW a \in Codex, ChildStep(a) \/ ConnectionStep(a)
        PROVE  Quiet
    <2>1. CASE ChildStep(a)
      BY <1>1, <2>1 DEF ChildStep, ChildAnswers, ChildCompletes, ChildAsks, ChildExits, ChildStops, Exits, ChildOnly
    <2>2. CASE RequestTimesOut(a) \/ ExitEvent(a)
      BY <1>1, <1>2, <2>2 DEF RequestTimesOut, ExitEvent
    <2>3. CASE TurnTimesOut(a)
      <3>1. PICK turn \in waiters[a] : waiters' = [waiters EXCEPT ![a] = @ \ {turn}]
        BY <2>3 DEF TurnTimesOut
      <3>2. \A b \in Codex : waiters'[b] \subseteq waiters[b]
        BY <1>0, <3>1
      <3>3. QED
        BY <2>3, <3>2 DEF TurnTimesOut
    <2>4. QED
      BY <1>3, <2>1, <2>2, <2>3 DEF ConnectionStep
  <1>4. ASSUME NEW a \in Agents, ManagerStep(a) \/ Dispatch(a) \/ PrepareFails(a)
                                 \/ ValidateClaudeRuntimeConfigFails(a) \/ QueryEnds(a),
               ~WaitForTurnCompletion(a)
        PROVE  Quiet
    <2>1. CASE ShutdownAgent(a)
      BY <1>2, <2>1 DEF ShutdownAgent, TypeOK
    <2>2. CASE StartThread(a) \/ StartTurn(a)
      BY <1>1, <2>2 DEF StartThread, StartTurn, Request, SendRequest
    <2>3. QED
      BY <1>1, <1>4, <2>1, <2>2
         DEF ManagerStep, StartAgent, Handshake, PrepareClaude, TurnCompleted, RequestFailed, StartQuery,
             ShutdownUnconnected, ShutdownClaude, ChildSeenExiting, KillChild, KillGraceOver, Dispatch,
             PrepareFails, ValidateClaudeRuntimeConfigFails, QueryEnds
  <1>5. CASE SaveUp \/ ReadStatus \/ SaveSession \/ FinishDispatch \/ BeginDown \/ SaveDown \/ Exit
             \/ UNCHANGED vars
    BY <1>1, <1>5 DEF SaveUp, ReadStatus, SaveSession, FinishDispatch, BeginDown, SaveDown, Exit, vars
  <1>6. QED
    BY <1>3, <1>4, <1>5 DEF Next, SilentStep, Agents

\* While the cache has room, the completion of a turn that nobody waits for yet is found later.
LEMMA WaitingStep ==
    ASSUME TypeOK, RunTrue, AllRemembered, NotWaitedFor, CacheNotFull, [Next]_vars
    PROVE  AllRemembered' /\ NotWaitedFor'
  <1>0. waiters \in [Codex -> SUBSET Nat] /\ heard \in [Codex -> SUBSET Nat]
        /\ completed \in [Codex -> Seq(Nat)] /\ reply \in [Agents -> Int]
    BY DEF TypeOK
  <1>1. CASE UNCHANGED <<completed, heard>> /\ \A a \in Codex : waiters'[a] \subseteq waiters[a]
    BY <1>1 DEF AllRemembered, NotWaitedFor
  <1>2. ASSUME NEW a \in Codex, ReadLine(a)
        PROVE  AllRemembered' /\ NotWaitedFor'
    <2> DEFINE turn == Head(lines[a]).id
               longer == Append(completed[a], turn)
    <2>1. CASE UNCHANGED <<completed, heard, waiters>>
      BY <1>1, <2>1
    <2>2. CASE MarkTurnCompleted(a, turn) /\ heard' = [heard EXCEPT ![a] = @ \cup {turn}]
      <3>1. turn \in heard'[a] /\ heard' \in [Codex -> SUBSET Nat]
        BY <1>0, <1>2, <2>2, ReadTyped DEF TypeOK
      <3>2. turn \in Nat
        BY <3>1
      <3>3. longer \in Seq(Nat) /\ Len(longer) =< MaxCompletedTurnCache
        BY <1>0, <3>2, CacheAssumption DEF CacheNotFull
      <3>4. completed' = [completed EXCEPT ![a] = Remember(completed[a], turn)]
        BY <2>2 DEF MarkTurnCompleted
      <3>5. \/ completed'[a] = completed[a] /\ \E i \in DOMAIN completed[a] : completed[a][i] = turn
            \/ completed'[a] = longer
        BY <1>0, <3>3, <3>4, CacheAssumption DEF Remember
      <3>6. \A other \in heard[a] \cup {turn} : \E i \in DOMAIN completed'[a] : completed'[a][i] = other
        <4>1. CASE completed'[a] = completed[a] /\ \E i \in DOMAIN completed[a] : completed[a][i] = turn
          BY <4>1 DEF AllRemembered
        <4>2. CASE completed'[a] = longer
          <5>1. \A i \in DOMAIN completed[a] : i \in DOMAIN longer /\ longer[i] = completed[a][i]
            BY <1>0, <3>2
          <5>2. Len(longer) \in DOMAIN longer /\ longer[Len(longer)] = turn
            BY <1>0, <3>2
          <5>3. QED
            BY <4>2, <5>1, <5>2 DEF AllRemembered
        <4>3. QED
          BY <3>5, <4>1, <4>2
      <3>7. AllRemembered'
        <4> SUFFICES ASSUME NEW b \in Codex, NEW other \in heard'[b]
                     PROVE  \E i \in DOMAIN completed'[b] : completed'[b][i] = other
          BY DEF AllRemembered
        <4>1. CASE b = a
          BY <1>0, <2>2, <3>6, <4>1
        <4>2. CASE b # a
          <5>1. heard'[b] = heard[b] /\ completed'[b] = completed[b]
            BY <1>0, <2>2, <3>4, <4>2
          <5>2. QED
            BY <5>1 DEF AllRemembered
        <4>3. QED
          BY <4>1, <4>2
      <3>8. NotWaitedFor'
        <4>1. waiters' = [waiters EXCEPT ![a] = @ \ {turn}]
          BY <2>2 DEF MarkTurnCompleted
        <4>2. QED
          BY <1>0, <2>2, <4>1 DEF NotWaitedFor
      <3>9. QED
        BY <3>7, <3>8
    <2>3. QED
      BY <1>2, <2>1, <2>2 DEF ReadLine
  <1>3. ASSUME NEW a \in Agents, WaitForTurnCompletion(a)
        PROVE  AllRemembered' /\ NotWaitedFor'
    <2>1. a \in Codex /\ UNCHANGED <<completed, heard>>
      BY <1>3 DEF WaitForTurnCompletion, RunTrue, Awaiting
    <2>2. \/ waiters' = waiters
          \/ waiters' = [waiters EXCEPT ![a] = @ \cup {reply[a]}]
             /\ \A i \in DOMAIN completed[a] : completed[a][i] # reply[a]
      BY <1>3 DEF WaitForTurnCompletion, Await
    <2>3. AllRemembered'
      BY <2>1 DEF AllRemembered
    <2>4. CASE waiters' = waiters
      BY <1>1, <2>1, <2>4
    <2>5. CASE waiters' = [waiters EXCEPT ![a] = @ \cup {reply[a]}]
               /\ \A i \in DOMAIN completed[a] : completed[a][i] # reply[a]
      <3>1. reply[a] \notin heard[a]
        BY <2>1, <2>5 DEF AllRemembered
      <3>2. \A b \in Codex : waiters'[b] \subseteq waiters[b] \cup {reply[a]} /\ (b # a => waiters'[b] = waiters[b])
        BY <1>0, <2>5
      <3>3. QED
        BY <2>1, <2>3, <3>1, <3>2 DEF NotWaitedFor
    <2>6. QED
      BY <2>2, <2>4, <2>5
  <1>4. CASE \A a \in Codex : waiters'[a] \subseteq waiters[a] /\ UNCHANGED <<completed, heard>>
    <2>1. CASE Codex = {}
      BY <2>1 DEF AllRemembered, NotWaitedFor
    <2>2. CASE Codex # {}
      BY <1>1, <1>4, <2>2
    <2>3. QED
      BY <2>1, <2>2
  <1>5. QED
    BY <1>2, <1>3, <1>4, WaitersOnlyByWaiting

\* No wait is lost as long as no completion is forgotten for a later one.
THEOREM WaitsAreJustified == Spec /\ []CacheNotFull => []WaitJustified
  <1> DEFINE Inv == TypeOK /\ TurnsInv /\ AllRemembered /\ NotWaitedFor
  <1>1. Init => Inv
    <2> SUFFICES ASSUME Init PROVE Inv
      OBVIOUS
    <2>1. AllRemembered /\ NotWaitedFor
      BY DEF Init, AllRemembered, NotWaitedFor
    <2>2. QED
      BY <2>1, InitTyped, InitTurns
  <1>2. Inv /\ CacheNotFull /\ [Next]_vars => Inv'
    BY StepTyped, TurnsStep, WaitingStep DEF TurnsInv
  <1>3. Inv => WaitJustified
    BY DEF TurnsInv, RunTrue, Owed, OwedAt, Outstanding, AwaitedByRun, NotWaitedFor, WaitJustified
  <1>4. QED
    BY <1>1, <1>2, <1>3, PTL DEF Spec

\* Whatever the agents report, their sessions go on as AgentSessions describes them.
THEOREM OutputKeepsSessions == OutputSpec => Spec
  <1>1. OutputInit => Init
    BY DEF OutputInit
  <1>2. [OutputNext]_allVars => [Next]_vars
    BY ReportsAreSteps
  <1>3. QED
    BY <1>1, <1>2, PTL DEF OutputSpec, Spec

--------------------------------------------------------------------------------
(* What is shown, and the files.                                               *)

\* What has been heard of turns has been shown.
HeardTold == \A a \in Codex : heard[a] \subseteq told[a]

OutputTyped ==
    /\ told \in [Codex -> SUBSET Nat]
    /\ shown \in [Agents -> Nat] /\ failed \in [Agents -> SUBSET Nat]
    /\ log \in [Agents -> Seq(Nat)] /\ queue \in [Agents -> Seq(Nat)]

\* The lines of an agent, written and waiting: numbered as they were shown, in order, and
\* complete but for those whose append failed.
InOrder(s) == \A i, j \in DOMAIN s : i < j => s[i] < s[j]
Among(n, s) == \E i \in DOMAIN s : s[i] = n
Sound(written, failures, waiting, last) ==
    /\ InOrder(written) /\ InOrder(waiting)
    /\ \A i \in DOMAIN written : written[i] =< last /\ \A j \in DOMAIN waiting : written[i] < waiting[j]
    /\ \A j \in DOMAIN waiting : waiting[j] =< last
    /\ \A n \in 1 .. last : n \in failures \/ Among(n, written) \/ Among(n, waiting)
LogInv == \A a \in Agents : Sound(log[a], failed[a], queue[a], shown[a])

\* The end of a turn has a line in either mode.
LEMMA TurnEndsArePersisted ==
    ASSUME NEW line \in LinesOf(MapAppServerNotification("turn/completed", NoText))
    PROVE  IsPersisted(line)
  <1>1. PICK end : end = MapAppServerNotification("turn/completed", NoText)
    OBVIOUS
  <1>2. end = [kind |-> "invocation_finished", type |-> "turn/completed",
               message |-> [head |-> "invocation finished", text |-> NoText]]
    BY <1>1 DEF MapAppServerNotification, Event, Message
  <1>3. end.kind = "invocation_finished" /\ end.message.head = "invocation finished" /\ end.message # NoMessage
    BY <1>2 DEF NoMessage, Message
  <1>4. BuildSummary(end) = "invocation finished" /\ ~ShouldSuppress(end) /\ IsAllowedConsoleMessage(end.message)
    BY <1>3 DEF BuildSummary, ShouldSuppress, IsAllowedConsoleMessage
  <1>5. \A mode \in LogMode : LineOf(mode, end) = "invocation finished"
    BY <1>3, <1>4 DEF LineOf, LogMode
  <1>6. PICK mode \in LogMode : line = LineOf(mode, end)
    BY <1>1, <1>3 DEF LinesOf
  <1>7. QED
    BY <1>5, <1>6 DEF IsPersisted

\* Only the reader hears.
LEMMA HeardOnlyByReading ==
    ASSUME SilentStep
    PROVE  UNCHANGED heard
  <1>1. ASSUME NEW a \in Codex, ChildStep(a) \/ ConnectionStep(a)
        PROVE  UNCHANGED heard
    <2>1. CASE ChildStep(a)
      BY <2>1 DEF ChildStep, ChildAnswers, ChildCompletes, ChildAsks, ChildExits, ChildStops, Exits, ChildOnly
    <2>2. CASE ConnectionStep(a)
      BY <2>2 DEF ConnectionStep, RequestTimesOut, TurnTimesOut, ExitEvent, Finalize
    <2>3. QED
      BY <1>1, <2>1, <2>2
  <1>2. ASSUME NEW a \in Agents, ManagerStep(a) \/ Dispatch(a) \/ PrepareFails(a)
                                 \/ ValidateClaudeRuntimeConfigFails(a)
        PROVE  UNCHANGED heard
    BY <1>2
       DEF ManagerStep, StartAgent, Handshake, PrepareClaude, WaitForTurnCompletion, TurnCompleted,
           RequestFailed, StartQuery, ShutdownAgent, Finalize, ShutdownUnconnected, ShutdownClaude,
           ChildSeenExiting, KillChild, KillGraceOver, Dispatch, PrepareFails,
           ValidateClaudeRuntimeConfigFails, StartThread, StartTurn, Request, SendRequest
  <1>3. CASE SaveUp \/ ReadStatus \/ SaveSession \/ FinishDispatch \/ BeginDown \/ SaveDown \/ Exit
    BY <1>3 DEF SaveUp, ReadStatus, SaveSession, FinishDispatch, BeginDown, SaveDown, Exit
  <1>4. QED
    BY <1>1, <1>2, <1>3 DEF SilentStep

\* Every completion that is read is shown.
LEMMA ToldStep ==
    ASSUME TypeOK, told \in [Codex -> SUBSET Nat], HeardTold, [OutputNext]_allVars
    PROVE  HeardTold' /\ told' \in [Codex -> SUBSET Nat]
  <1>1. CASE UNCHANGED <<heard, told>>
    BY <1>1 DEF HeardTold
  <1>2. CASE SilentSessionStep
    BY <1>1, <1>2, HeardOnlyByReading DEF SilentSessionStep
  <1>3. ASSUME NEW a \in Codex, ReadAndReport(a)
        PROVE  HeardTold' /\ told' \in [Codex -> SUBSET Nat]
    <2> DEFINE line == Head(lines[a])
    <2>0. heard \in [Codex -> SUBSET Nat] /\ told \in [Codex -> SUBSET Nat]
      BY DEF TypeOK
    <2>1. line \in Line
      BY <1>3 DEF ReadAndReport, ReadLine, TypeOK
    <2>2. CASE line.kind = "completed"
      <3>1. heard' = [heard EXCEPT ![a] = @ \cup {line.id}]
        BY <1>3, <2>2 DEF ReadAndReport, ReadLine
      <3>2. told' = [told EXCEPT ![a] = @ \cup {line.id}]
        BY <1>3, <2>2, TurnEndsArePersisted DEF ReadAndReport
      <3>3. line.id \in Nat
        BY <2>1 DEF Line
      <3>4. told' \in [Codex -> SUBSET Nat]
        BY <2>0, <3>2, <3>3
      <3>5. QED
        BY <2>0, <3>1, <3>2, <3>4 DEF HeardTold
    <2>3. CASE line.kind # "completed"
      BY <1>1, <1>3, <2>3 DEF ReadAndReport, ReadLine
    <2>4. QED
      BY <2>2, <2>3
  <1>4. ASSUME NEW a \in Codex, CodexNotifies(a)
        PROVE  UNCHANGED <<heard, told>>
    BY <1>4 DEF CodexNotifies, vars
  <1>5. ASSUME NEW a \in Claude, ClaudeMessage(a) \/ EndAndReport(a)
        PROVE  UNCHANGED <<heard, told>>
    BY <1>5 DEF ClaudeMessage, EndAndReport, QueryEnds, vars
  <1>6. ASSUME NEW a \in Claude, NEW i \in Blocks, BlockStarts(a, i) \/ BlockDelta(a, i) \/ BlockStops(a, i)
        PROVE  UNCHANGED <<heard, told>>
    BY <1>6 DEF BlockStarts, BlockDelta, BlockStops, vars
  <1>7. ASSUME NEW a \in Agents, AppendLine(a) \/ AppendFails(a)
        PROVE  UNCHANGED <<heard, told>>
    BY <1>7 DEF AppendLine, AppendFails, vars
  <1>8. CASE UNCHANGED allVars
    BY <1>1, <1>8 DEF allVars, outputVars, vars
  <1>9. QED
    BY <1>1, <1>2, <1>3, <1>4, <1>5, <1>6, <1>7, <1>8 DEF OutputNext

\* No dispatch to a codex agent whose turn has a name succeeds without that the operator has been
\* shown the end of that turn, in either mode (mapAppServerNotificationToRuntimeEvent, isAllowedConsoleMessage,
\* shouldSuppressAgentRuntimeEvent).
THEOREM TurnEndsAreShown == OutputSpec => []EndsShown
  <1> DEFINE Inv == TypeOK /\ TurnsInv /\ HeardTold /\ told \in [Codex -> SUBSET Nat]
  <1>1. OutputInit => Inv
    <2> SUFFICES ASSUME OutputInit PROVE Inv
      OBVIOUS
    <2>1. told \in [Codex -> SUBSET Nat] /\ HeardTold
      BY DEF OutputInit, Init, HeardTold
    <2>2. QED
      BY <2>1, InitTyped, InitTurns DEF OutputInit
  <1>2. Inv /\ [OutputNext]_allVars => Inv'
    BY ReportsAreSteps, StepTyped, TurnsStep, ToldStep
  <1>3. Inv => EndsShown
    BY DEF TurnsInv, OwnRequest, HeardTold, EndsShown
  <1>4. QED
    BY <1>1, <1>2, <1>3, PTL DEF OutputSpec

\* An empty chain.
LEMMA SoundEmpty == Sound(<<>>, {}, <<>>, 0)
  BY DEF Sound, InOrder, Among

\* A line more is shown.
LEMMA SoundShown ==
    ASSUME NEW w \in Seq(Nat), NEW r \in Seq(Nat), NEW f \in SUBSET Nat, NEW n \in Nat, Sound(w, f, r, n)
    PROVE  Sound(w, f, Append(r, n + 1), n + 1)
  <1> DEFINE s == Append(r, n + 1)
  <1>1. s \in Seq(Nat) /\ Len(s) = Len(r) + 1
        /\ (\A i \in DOMAIN r : i \in DOMAIN s /\ s[i] = r[i])
        /\ (\A i \in DOMAIN s : i \notin DOMAIN r => i = Len(s) /\ s[i] = n + 1)
    OBVIOUS
  <1>2. InOrder(s)
    <2> SUFFICES ASSUME NEW i \in DOMAIN s, NEW j \in DOMAIN s, i < j PROVE s[i] < s[j]
      BY DEF InOrder
    <2>1. i \in DOMAIN r
      BY <1>1
    <2>2. CASE j \in DOMAIN r
      BY <1>1, <2>1, <2>2 DEF Sound, InOrder
    <2>3. CASE j \notin DOMAIN r
      <3>1. s[j] = n + 1 /\ s[i] = r[i] /\ r[i] =< n /\ r[i] \in Nat
        BY <1>1, <2>1, <2>3 DEF Sound
      <3>2. QED
        BY <3>1
    <2>4. QED
      BY <2>2, <2>3
  <1>3. \A j \in DOMAIN s : s[j] \in Nat /\ s[j] =< n + 1
    BY <1>1 DEF Sound
  <1>4. \A i \in DOMAIN w : w[i] \in Nat /\ w[i] =< n + 1 /\ \A j \in DOMAIN s : w[i] < s[j]
    <2> SUFFICES ASSUME NEW i \in DOMAIN w PROVE w[i] \in Nat /\ w[i] =< n + 1 /\ \A j \in DOMAIN s : w[i] < s[j]
      OBVIOUS
    <2>1. w[i] \in Nat /\ w[i] =< n /\ \A j \in DOMAIN r : w[i] < r[j]
      BY DEF Sound
    <2>2. QED
      BY <1>1, <2>1
  <1>5. \A m \in 1 .. (n + 1) : m \in f \/ Among(m, w) \/ Among(m, s)
    <2> SUFFICES ASSUME NEW m \in 1 .. (n + 1) PROVE m \in f \/ Among(m, w) \/ Among(m, s)
      OBVIOUS
    <2>1. CASE m = n + 1
      <3>1. Len(s) \in DOMAIN s /\ Len(s) \notin DOMAIN r
        BY <1>1
      <3>2. QED
        BY <1>1, <2>1, <3>1 DEF Among
    <2>2. CASE m \in 1 .. n
      BY <1>1, <2>2 DEF Sound, Among
    <2>3. QED
      BY <2>1, <2>2
  <1>6. QED
    BY <1>2, <1>3, <1>4, <1>5 DEF Sound

\* The first line that waits is appended, or its append fails.
LEMMA SoundAppended ==
    ASSUME NEW w \in Seq(Nat), NEW r \in Seq(Nat), NEW f \in SUBSET Nat, NEW n \in Nat, Sound(w, f, r, n),
           r # <<>>
    PROVE  Sound(Append(w, Head(r)), f, Tail(r), n) /\ Sound(w, f \cup {Head(r)}, Tail(r), n)
  <1> DEFINE v == Append(w, Head(r))
             s == Tail(r)
  <1>1. s \in Seq(Nat) /\ Head(r) = r[1] /\ 1 \in DOMAIN r /\ r[1] \in Nat
        /\ (\A i \in DOMAIN s : i + 1 \in DOMAIN r /\ i + 1 > 1 /\ s[i] = r[i + 1] /\ s[i] \in Nat)
        /\ (\A i \in DOMAIN r : i # 1 => i - 1 \in DOMAIN s /\ s[i - 1] = r[i])
    <2>1. Len(r) \in Nat /\ Len(r) > 0 /\ DOMAIN r = 1 .. Len(r) /\ Head(r) = r[1]
          /\ \A i \in 1 .. Len(r) : r[i] \in Nat
      OBVIOUS
    <2>2. s \in Seq(Nat) /\ Len(s) = Len(r) - 1 /\ DOMAIN s = 1 .. (Len(r) - 1)
          /\ \A i \in 1 .. (Len(r) - 1) : s[i] = r[i + 1]
      OBVIOUS
    <2>3. \A i \in DOMAIN s : i + 1 \in DOMAIN r /\ i + 1 > 1 /\ s[i] = r[i + 1] /\ s[i] \in Nat
      BY <2>1, <2>2
    <2>4. \A i \in DOMAIN r : i # 1 => i - 1 \in DOMAIN s /\ s[i - 1] = r[i]
      BY <2>1, <2>2
    <2>5. QED
      BY <2>1, <2>2, <2>3, <2>4
  <1>2. v \in Seq(Nat) /\ Len(v) = Len(w) + 1
        /\ (\A i \in DOMAIN w : i \in DOMAIN v /\ v[i] = w[i] /\ w[i] \in Nat)
        /\ (\A i \in DOMAIN v : i \notin DOMAIN w => i = Len(v) /\ v[i] = r[1])
        /\ v[Len(v)] = r[1] /\ Len(v) \in DOMAIN v
    BY <1>1
  <1>3. InOrder(s) /\ \A j \in DOMAIN s : s[j] =< n /\ r[1] < s[j]
    <2>1. InOrder(s)
      <3> SUFFICES ASSUME NEW i \in DOMAIN s, NEW j \in DOMAIN s, i < j PROVE s[i] < s[j]
        BY DEF InOrder
      <3>1. i + 1 \in DOMAIN r /\ j + 1 \in DOMAIN r /\ i + 1 < j + 1 /\ s[i] = r[i + 1] /\ s[j] = r[j + 1]
        BY <1>1
      <3>2. QED
        BY <3>1 DEF Sound, InOrder
    <2>2. \A j \in DOMAIN s : s[j] =< n /\ r[1] < s[j]
      <3> SUFFICES ASSUME NEW j \in DOMAIN s PROVE s[j] =< n /\ r[1] < s[j]
        OBVIOUS
      <3>1. j + 1 \in DOMAIN r /\ 1 < j + 1 /\ s[j] = r[j + 1]
        BY <1>1
      <3>2. QED
        BY <1>1, <3>1 DEF Sound, InOrder
    <2>3. QED
      BY <2>1, <2>2
  <1>4. \A i \in DOMAIN w : w[i] =< n /\ w[i] < r[1] /\ \A j \in DOMAIN s : w[i] < s[j]
    BY <1>1 DEF Sound
  <1>5. \A m \in 1 .. n : Among(m, r) => m = r[1] \/ Among(m, s)
    BY <1>1 DEF Among
  <1>6. \A m \in 1 .. n : m \in f \/ Among(m, w) \/ m = r[1] \/ Among(m, s)
    BY <1>5 DEF Sound
  <1>7. Sound(w, f \cup {Head(r)}, Tail(r), n)
    <2>1. InOrder(w)
      BY DEF Sound
    <2>2. \A m \in 1 .. n : m \in f \cup {r[1]} \/ Among(m, w) \/ Among(m, s)
      BY <1>6
    <2>3. QED
      BY <1>1, <1>3, <1>4, <2>1, <2>2 DEF Sound
  <1>8. InOrder(v)
    <2> SUFFICES ASSUME NEW i \in DOMAIN v, NEW j \in DOMAIN v, i < j PROVE v[i] < v[j]
      BY DEF InOrder
    <2>1. i \in DOMAIN w
      BY <1>2
    <2>2. CASE j \in DOMAIN w
      BY <1>2, <2>1, <2>2 DEF Sound, InOrder
    <2>3. CASE j \notin DOMAIN w
      BY <1>2, <1>4, <2>1, <2>3
    <2>4. QED
      BY <2>2, <2>3
  <1>9. r[1] =< n
    BY <1>1 DEF Sound
  <1>10. \A i \in DOMAIN v : v[i] =< n /\ \A j \in DOMAIN s : v[i] < s[j]
    BY <1>2, <1>3, <1>4, <1>9
  <1>11. \A m \in 1 .. n : m \in f \/ Among(m, v) \/ Among(m, s)
    <2>1. \A m \in 1 .. n : Among(m, w) \/ m = r[1] => Among(m, v)
      BY <1>2 DEF Among
    <2>2. QED
      BY <1>6, <2>1
  <1>12. QED
    BY <1>3, <1>7, <1>8, <1>10, <1>11 DEF Sound

\* What a step does to the file of one agent leaves the others' alone.
LEMMA SettledSound ==
    ASSUME OutputTyped, LogInv, NEW a \in Agents, NEW w \in Seq(Nat), NEW f \in SUBSET Nat, NEW r \in Seq(Nat),
           Sound(w, f, r, shown[a]), Settled(a, w, f, r), UNCHANGED told
    PROVE  OutputTyped' /\ LogInv'
  <1> USE DEF OutputTyped
  <1>1. CASE /\ shown' = [shown EXCEPT ![a] = 0] /\ log' = [log EXCEPT ![a] = <<>>]
             /\ failed' = [failed EXCEPT ![a] = {}] /\ queue' = [queue EXCEPT ![a] = <<>>]
    <2>1. OutputTyped'
      BY <1>1
    <2>2. ASSUME NEW b \in Agents PROVE Sound(log'[b], failed'[b], queue'[b], shown'[b])
      <3>1. CASE b = a
        <4>1. log'[b] = <<>> /\ failed'[b] = {} /\ queue'[b] = <<>> /\ shown'[b] = 0
          BY <1>1, <3>1
        <4>2. QED
          BY <4>1, SoundEmpty
      <3>2. CASE b # a
        <4>1. log'[b] = log[b] /\ failed'[b] = failed[b] /\ queue'[b] = queue[b] /\ shown'[b] = shown[b]
          BY <1>1, <3>2
        <4>2. QED
          BY <4>1 DEF LogInv
      <3>3. QED
        BY <3>1, <3>2
    <2>3. QED
      BY <2>1, <2>2 DEF LogInv
  <1>2. CASE /\ UNCHANGED shown /\ log' = [log EXCEPT ![a] = w]
             /\ failed' = [failed EXCEPT ![a] = f] /\ queue' = [queue EXCEPT ![a] = r]
    <2>1. OutputTyped'
      BY <1>2
    <2>2. ASSUME NEW b \in Agents PROVE Sound(log'[b], failed'[b], queue'[b], shown'[b])
      <3>1. CASE b = a
        <4>1. log'[b] = w /\ failed'[b] = f /\ queue'[b] = r /\ shown'[b] = shown[a]
          BY <1>2, <3>1
        <4>2. QED
          BY <4>1
      <3>2. CASE b # a
        <4>1. log'[b] = log[b] /\ failed'[b] = failed[b] /\ queue'[b] = queue[b] /\ shown'[b] = shown[b]
          BY <1>2, <3>2
        <4>2. QED
          BY <4>1 DEF LogInv
      <3>3. QED
        BY <3>1, <3>2
    <2>3. QED
      BY <2>1, <2>2 DEF LogInv
  <1>3. QED
    BY <1>1, <1>2 DEF Settled

\* A line is shown, or one that is not followed.
LEMMA EmitSound ==
    ASSUME OutputTyped, LogInv, NEW a \in Agents, NEW line, EmitLog(a, line), told' \in [Codex -> SUBSET Nat]
    PROVE  OutputTyped' /\ LogInv'
  <1> USE DEF OutputTyped
  <1>1. CASE UNCHANGED fileVars
    BY <1>1 DEF fileVars, LogInv
  <1>2. CASE /\ shown' = [shown EXCEPT ![a] = @ + 1]
             /\ queue' = [queue EXCEPT ![a] = Append(@, shown'[a])] /\ UNCHANGED <<log, failed>>
    <2>1. shown'[a] = shown[a] + 1 /\ shown' \in [Agents -> Nat]
      BY <1>2
    <2>2. Append(queue[a], shown'[a]) \in Seq(Nat)
      BY <2>1
    <2>3. OutputTyped'
      BY <1>2, <2>1, <2>2
    <2>4. ASSUME NEW b \in Agents PROVE Sound(log'[b], failed'[b], queue'[b], shown'[b])
      <3>1. CASE b = a
        <4>1. log'[b] = log[a] /\ failed'[b] = failed[a] /\ queue'[b] = Append(queue[a], shown[a] + 1)
              /\ shown'[b] = shown[a] + 1
          BY <1>2, <2>1, <3>1
        <4>2. Sound(log[a], failed[a], queue[a], shown[a])
          BY DEF LogInv
        <4>3. Sound(log[a], failed[a], Append(queue[a], shown[a] + 1), shown[a] + 1)
          BY <4>2, SoundShown
        <4>4. QED
          BY <4>1, <4>3
      <3>2. CASE b # a
        <4>1. log'[b] = log[b] /\ failed'[b] = failed[b] /\ queue'[b] = queue[b] /\ shown'[b] = shown[b]
          BY <1>2, <3>2
        <4>2. QED
          BY <4>1 DEF LogInv
      <3>3. QED
        BY <3>1, <3>2
    <2>5. QED
      BY <2>3, <2>4 DEF LogInv
  <1>3. QED
    BY <1>1, <1>2 DEF EmitLog

\* Every step of the output.
LEMMA LogStep ==
    ASSUME TypeOK, HeardTold, OutputTyped, LogInv, [OutputNext]_allVars
    PROVE  OutputTyped' /\ LogInv'
  <1>0. told' \in [Codex -> SUBSET Nat]
    BY ToldStep DEF OutputTyped
  <1>1. CASE UNCHANGED fileVars
    BY <1>0, <1>1 DEF fileVars, OutputTyped, LogInv
  <1>2. CASE SilentSessionStep \/ UNCHANGED allVars
    BY <1>1, <1>2 DEF SilentSessionStep, allVars, outputVars
  <1>3. ASSUME NEW a \in Codex, CodexNotifies(a) \/ ReadAndReport(a)
        PROVE  OutputTyped' /\ LogInv'
    <2>1. UNCHANGED fileVars \/ \E line : EmitLog(a, line)
      BY <1>3 DEF CodexNotifies, ReadAndReport, OnRuntimeEvent
    <2>2. QED
      BY <1>0, <1>1, <2>1, EmitSound DEF Agents
  <1>4. ASSUME NEW a \in Claude, ClaudeMessage(a) \/ EndAndReport(a)
        PROVE  OutputTyped' /\ LogInv'
    <2>1. UNCHANGED fileVars \/ \E line : EmitLog(a, line)
      BY <1>4 DEF ClaudeMessage, EndAndReport, OnRuntimeEvent
    <2>2. QED
      BY <1>0, <1>1, <2>1, EmitSound DEF Agents
  <1>5. ASSUME NEW a \in Claude, NEW i \in Blocks, BlockStarts(a, i) \/ BlockDelta(a, i) \/ BlockStops(a, i)
        PROVE  OutputTyped' /\ LogInv'
    <2>1. UNCHANGED fileVars \/ \E line : EmitLog(a, line)
      BY <1>5 DEF BlockStarts, BlockDelta, BlockStops, OnRuntimeEvent
    <2>2. QED
      BY <1>0, <1>1, <2>1, EmitSound DEF Agents
  <1>6. ASSUME NEW a \in Agents, AppendLine(a) \/ AppendFails(a)
        PROVE  OutputTyped' /\ LogInv'
    <2>1. queue[a] # <<>> /\ UNCHANGED told /\ queue[a] \in Seq(Nat) /\ log[a] \in Seq(Nat)
          /\ failed[a] \in SUBSET Nat /\ shown[a] \in Nat
      BY <1>6 DEF AppendLine, AppendFails, OutputTyped
    <2>2. Head(queue[a]) \in Nat /\ Tail(queue[a]) \in Seq(Nat)
      BY <2>1
    <2>3. Sound(log[a], failed[a], queue[a], shown[a])
      BY DEF LogInv
    <2>4. /\ Sound(Append(log[a], Head(queue[a])), failed[a], Tail(queue[a]), shown[a])
          /\ Sound(log[a], failed[a] \cup {Head(queue[a])}, Tail(queue[a]), shown[a])
      BY <2>1, <2>3, SoundAppended
    <2>5. Append(log[a], Head(queue[a])) \in Seq(Nat) /\ failed[a] \cup {Head(queue[a])} \in SUBSET Nat
      BY <2>1, <2>2
    <2>6. CASE AppendLine(a)
      BY <2>1, <2>2, <2>4, <2>5, <2>6, SettledSound DEF AppendLine
    <2>7. CASE AppendFails(a)
      BY <2>1, <2>2, <2>4, <2>5, <2>7, SettledSound DEF AppendFails
    <2>8. QED
      BY <1>6, <2>6, <2>7
  <1>7. QED
    BY <1>2, <1>3, <1>4, <1>5, <1>6 DEF OutputNext

\* Written and waiting lines, one after the other.
LEMMA SoundConcatenated ==
    ASSUME NEW w \in Seq(Nat), NEW r \in Seq(Nat), NEW f \in SUBSET Nat, NEW n \in Nat, Sound(w, f, r, n)
    PROVE  InOrder(w \o r) /\ \A m \in 1 .. n : m \in f \/ Among(m, w \o r)
  <1> DEFINE s == w \o r
  <1>1. DOMAIN w = 1 .. Len(w) /\ DOMAIN r = 1 .. Len(r) /\ DOMAIN s = 1 .. (Len(w) + Len(r))
        /\ Len(w) \in Nat /\ Len(r) \in Nat
    OBVIOUS
  <1>2. \A i \in DOMAIN w : i \in DOMAIN s /\ s[i] = w[i]
    BY <1>1
  <1>3. \A i \in DOMAIN r : i + Len(w) \in DOMAIN s /\ s[i + Len(w)] = r[i]
    BY <1>1
  <1>4. \A i \in DOMAIN s : i \notin DOMAIN w => i - Len(w) \in DOMAIN r /\ s[i] = r[i - Len(w)]
    BY <1>1
  <1>5. ASSUME NEW i \in DOMAIN s, NEW j \in DOMAIN s, i < j
        PROVE  s[i] < s[j]
    <2>1. CASE i \in DOMAIN w /\ j \in DOMAIN w
      BY <1>2, <1>5, <2>1 DEF Sound, InOrder
    <2>2. CASE i \in DOMAIN w /\ j \notin DOMAIN w
      BY <1>2, <1>4, <2>2 DEF Sound
    <2>3. CASE i \notin DOMAIN w
      <3>1. j \notin DOMAIN w
        BY <1>1, <1>5, <2>3
      <3>2. i - Len(w) \in DOMAIN r /\ j - Len(w) \in DOMAIN r /\ i - Len(w) < j - Len(w)
            /\ s[i] = r[i - Len(w)] /\ s[j] = r[j - Len(w)]
        BY <1>1, <1>4, <1>5, <2>3, <3>1
      <3>3. QED
        BY <3>2 DEF Sound, InOrder
    <2>4. QED
      BY <2>1, <2>2, <2>3
  <1>6. ASSUME NEW m \in 1 .. n
        PROVE  m \in f \/ \E i \in DOMAIN s : s[i] = m
    <2>1. m \in f \/ Among(m, w) \/ Among(m, r)
      BY DEF Sound
    <2>2. Among(m, w) => \E i \in DOMAIN s : s[i] = m
      BY <1>2 DEF Among
    <2>3. Among(m, r) => \E i \in DOMAIN s : s[i] = m
      BY <1>3 DEF Among
    <2>4. QED
      BY <2>1, <2>2, <2>3
  <1>7. QED
    BY <1>5, <1>6 DEF InOrder, Among

\* A file holds the lines in the order they were shown and lacks only those whose own append failed
\* (enqueueFleetAgentLogWrite).
THEOREM FilesKeepTheOrder == OutputSpec => []OutputLogged
  <1> DEFINE Inv == TypeOK /\ HeardTold /\ OutputTyped /\ LogInv
  <1>1. OutputInit => Inv
    <2> SUFFICES ASSUME OutputInit PROVE Inv
      OBVIOUS
    <2>1. OutputTyped /\ HeardTold
      BY DEF OutputInit, Init, HeardTold, OutputTyped
    <2>2. LogInv
      BY SoundEmpty DEF OutputInit, LogInv
    <2>3. QED
      BY <2>1, <2>2, InitTyped DEF OutputInit
  <1>2. Inv /\ [OutputNext]_allVars => Inv'
    BY ReportsAreSteps, StepTyped, ToldStep, LogStep DEF OutputTyped
  <1>3. Inv => OutputLogged
    <2> SUFFICES ASSUME Inv, NEW a \in Agents
                 PROVE  LET written == log[a] \o queue[a] IN
                        /\ \A i, j \in DOMAIN written : i < j => written[i] < written[j]
                        /\ \A n \in 1 .. shown[a] : n \in failed[a] \/ \E i \in DOMAIN written : written[i] = n
      BY DEF OutputLogged
    <2>1. log[a] \in Seq(Nat) /\ queue[a] \in Seq(Nat) /\ shown[a] \in Nat
          /\ failed[a] \in SUBSET Nat /\ Sound(log[a], failed[a], queue[a], shown[a])
      BY DEF OutputTyped, LogInv
    <2>2. InOrder(log[a] \o queue[a]) /\ \A n \in 1 .. shown[a] : n \in failed[a] \/ Among(n, log[a] \o queue[a])
      BY <2>1, SoundConcatenated
    <2>3. QED
      BY <2>2 DEF InOrder, Among
  <1>4. QED
    BY <1>1, <1>2, <1>3, PTL DEF OutputSpec
================================================================================
