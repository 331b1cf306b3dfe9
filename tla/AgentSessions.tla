----------------------------- MODULE AgentSessions -----------------------------
(***************************************************************************)
(* The manager's agents: the codex child process and JSON-RPC connection   *)
(* of each codex agent, the one query at a time of each Claude agent, and  *)
(* the three callers that share them - `up' preparing the agents, the      *)
(* queue's consume loop dispatching one message at a time, and `down'      *)
(* shutting the agents down while a dispatch may be under way.             *)
(*                                                                         *)
(* A request is named by its id.  The thread or turn a request makes the   *)
(* child create has the same name, which is all the properties compare.    *)
(***************************************************************************)
EXTENDS Integers, FiniteSets, Sequences

CONSTANTS
    Codex,                  \* agents run by a codex app-server process
    Claude,                 \* agents run by the Claude SDK
    Nobody,                 \* no agent
    MaxCompletedTurnCache,  \* MAX_COMPLETED_TURN_CACHE (256 in the code)
    MaxDispatches,          \* bound: messages dispatched
    MaxLines,               \* bound: lines a child has written and nobody has read
    MaxFaults               \* bound: exits, failures, approval requests and timers that run out

ASSUME CacheAssumption == MaxCompletedTurnCache \in Nat \ {0}
ASSUME AgentsAssumption == Codex \cap Claude = {}
ASSUME SessionBounds == MaxDispatches \in Nat /\ MaxLines \in Nat \ {0} /\ MaxFaults \in Nat

Agents == Codex \cup Claude
ASSUME NobodyAssumption == Nobody \notin Agents

\* What an awaiting caller has been given: nothing yet, a rejection, an answer without an id,
\* or (a positive number) the thread or turn the answer names.
NoReply  == -2
Rejected == -1
Nameless == 0

VARIABLES
    phase,      \* the manager: "up", "serving", "down", "stopped", "exited" or "crashed"
    todo,       \* agents the `up' or `down' under way has not handled yet
    at,         \* the agent it is handling
    grace,      \* the signal whose grace period `down' is waiting out
    draft,      \* up's and down's copy of agents.json
    agents,     \* agents.json: the status of each agent
    sessions,   \* agent-sessions.json: the status of each session
    child,      \* child[a]: the process of codex agent a
    connected,  \* agents with an entry in AppServerClient's connections
    nextId,     \* nextId[a]: nextRequestId of the connection
    pending,    \* pending[a]: ids of requests without an answer
    waiters,    \* waiters[a]: turns with a pendingTurnCompletions entry
    completed,  \* completed[a]: completedTurnKeys, the latest last
    reply,      \* reply[a]: what the caller awaiting agent a has been given
    lines,      \* lines[a]: what the child has written and the reader has not read
    asked,      \* asked[a]: requests the child has and has not answered
    turning,    \* turning[a]: turns the child is working on
    heard,      \* heard[a]: turns whose completion the reader has read
    query,      \* Claude agents with an entry in inFlightQueries
    listed,     \* agents the consume loop has found running
    run,        \* the dispatch under way
    budget      \* what the bounds leave

managerVars == <<phase, todo, at, grace, draft, agents>>
childVars   == <<child, lines, asked, turning>>
clientVars  == <<connected, nextId, pending, waiters, completed, reply, heard>>
dispatchVars == <<sessions, listed, run>>
vars == <<managerVars, childVars, clientVars, dispatchVars, query, budget>>

Status == {"none", "running", "stopped", "failed"}
Session == {"none", "ready", "error", "disconnected"}
Method == {"initialize", "thread/start", "turn/start"}
Awaiting == {"thread", "turn", "wait"}
Line == [kind : {"response"}, id : Nat, body : Int] \cup [kind : {"completed", "ask"}, id : Nat]

NoRun == [agent |-> Nobody, pc |-> "idle", turn |-> 0, asked |-> 0, view |-> [a \in Agents |-> "none"]]

TypeOK ==
    /\ phase \in {"up", "serving", "down", "stopped", "exited", "crashed"}
    /\ todo \subseteq Agents /\ at \in Agents \cup {Nobody}
    /\ grace \in {"none", "SIGTERM", "SIGKILL"}
    /\ draft \in [Agents -> Status] /\ agents \in [Agents -> Status]
    /\ sessions \in [Agents -> Session]
    /\ child \in [Codex -> {"none", "running", "killed", "exited", "gone"}]
    /\ connected \subseteq {a \in Codex : child[a] \notin {"none", "gone"}}
    /\ nextId \in [Codex -> Nat \ {0}]
    /\ pending \in [Codex -> SUBSET Nat] /\ waiters \in [Codex -> SUBSET Nat]
    /\ completed \in [Codex -> Seq(Nat)]
    /\ \A a \in Codex : Len(completed[a]) =< MaxCompletedTurnCache
    /\ reply \in [Agents -> Int]
    /\ lines \in [Codex -> Seq(Line)]
    /\ asked \in [Codex -> SUBSET [id : Nat, method : Method]]
    /\ turning \in [Codex -> SUBSET Nat]
    /\ heard \in [Codex -> SUBSET Nat]
    /\ query \subseteq Claude /\ listed \subseteq Agents
    /\ run \in [agent : Agents \cup {Nobody},
                pc : {"idle", "prompt", "query", "save", "after"} \cup Awaiting,
                turn : Nat, asked : Nat, view : [Agents -> Session]]
    /\ budget \in [{"dispatches", "faults"} -> Nat]

Init ==
    /\ phase = "up" /\ todo = Agents /\ at = Nobody /\ grace = "none"
    /\ draft = [a \in Agents |-> "none"] /\ agents = draft
    /\ sessions = [a \in Agents |-> "none"]
    /\ child = [a \in Codex |-> "none"] /\ connected = {}
    /\ nextId = [a \in Codex |-> 1]
    /\ pending = [a \in Codex |-> {}] /\ waiters = pending
    /\ completed = [a \in Codex |-> <<>>]
    /\ reply = [a \in Agents |-> NoReply]
    /\ lines = [a \in Codex |-> <<>>]
    /\ asked = [a \in Codex |-> {}] /\ turning = asked /\ heard = asked
    /\ query = {} /\ listed = {} /\ run = NoRun
    /\ budget = [dispatches |-> MaxDispatches, faults |-> MaxFaults]

--------------------------------------------------------------------------------
Spend(what) == budget[what] > 0 /\ budget' = [budget EXCEPT ![what] = @ - 1]

Ended == {"exited", "crashed"}

\* Nothing awaits agent a: its reply is consumed.
Consumed(a) == reply' = [reply EXCEPT ![a] = NoReply]

\* sendRequest: a fresh id, a pending entry, a line to the child.  A child that is not there
\* any more does not read it.
SendRequest(a, method) ==
    /\ nextId' = [nextId EXCEPT ![a] = @ + 1]
    /\ pending' = [pending EXCEPT ![a] = @ \cup {nextId[a]}]
    /\ asked' = IF child[a] # "running" THEN asked
                ELSE [asked EXCEPT ![a] = @ \cup {[id |-> nextId[a], method |-> method]}]
    /\ Consumed(a)
    /\ UNCHANGED <<connected, waiters, completed, heard, child, lines, turning>>

\* The `finalize' of a connection: everyone who waits on it is rejected and it is forgotten.
Finalize(a) ==
    /\ connected' = connected \ {a}
    /\ pending' = [pending EXCEPT ![a] = {}]
    /\ waiters' = [waiters EXCEPT ![a] = {}]
    /\ reply' = IF pending[a] \cup waiters[a] # {} THEN [reply EXCEPT ![a] = Rejected] ELSE reply
    /\ lines' = [lines EXCEPT ![a] = <<>>]
    /\ UNCHANGED <<nextId, completed, heard>>

--------------------------------------------------------------------------------
(* `up': startAgent and the handshake, one agent after the other.              *)
Prepared(a, status, session) ==
    /\ draft' = [draft EXCEPT ![a] = status]
    /\ sessions' = [sessions EXCEPT ![a] = session]
    /\ at' = Nobody /\ todo' = todo \ {a}
    /\ UNCHANGED <<phase, grace, agents, listed, run, query>>

StartAgent(a) ==
    /\ phase = "up" /\ at = Nobody /\ a \in todo \cap Codex
    /\ at' = a
    /\ child' = [child EXCEPT ![a] = "running"]
    /\ connected' = connected \cup {a}
    /\ nextId' = [nextId EXCEPT ![a] = 2]
    /\ pending' = [pending EXCEPT ![a] = {1}]
    /\ asked' = [asked EXCEPT ![a] = {[id |-> 1, method |-> "initialize"]}]
    /\ Consumed(a)
    /\ UNCHANGED <<phase, todo, grace, draft, agents, waiters, completed, heard, lines, turning,
                   dispatchVars, query, budget>>

\* spawn's `error' event comes before the handshake finds its connection.
PrepareFails(a) ==
    /\ phase = "up" /\ at = Nobody /\ a \in todo \cap Codex
    /\ Spend("faults")
    /\ Prepared(a, "failed", "error")
    /\ UNCHANGED <<childVars, clientVars>>

Handshake(a) ==
    /\ phase = "up" /\ at = a /\ reply[a] # NoReply
    /\ IF reply[a] = Rejected THEN Prepared(a, "failed", "error") ELSE Prepared(a, "running", "ready")
    /\ Consumed(a)
    /\ UNCHANGED <<childVars, connected, nextId, pending, waiters, completed, heard, budget>>

PrepareClaude(a) ==
    /\ phase = "up" /\ at = Nobody /\ a \in todo \cap Claude
    /\ Prepared(a, "running", "ready")
    /\ UNCHANGED <<childVars, clientVars, budget>>

ValidateClaudeRuntimeConfigFails(a) ==
    /\ phase = "up" /\ at = Nobody /\ a \in todo \cap Claude
    /\ Spend("faults")
    /\ Prepared(a, "failed", "error")
    /\ UNCHANGED <<childVars, clientVars>>

\* The consume loop starts after both files are saved: what Prepared did to the sessions is
\* not read before.
SaveUp ==
    /\ phase = "up" /\ todo = {} /\ at = Nobody
    /\ phase' = "serving"
    /\ agents' = draft
    /\ UNCHANGED <<todo, at, grace, draft, childVars, clientVars, dispatchVars, query, budget>>

--------------------------------------------------------------------------------
(* The connection's reader, timers and exit event.                             *)

\* The answer of request id reaches the caller that waits for it, if it still does.
ResolveOldest(a, line) ==
    IF pending[a] = {} THEN UNCHANGED <<pending, reply>>
    ELSE LET oldest == CHOOSE id \in pending[a] : \A other \in pending[a] : id =< other
         IN /\ pending' = [pending EXCEPT ![a] = @ \ {oldest}]
            /\ reply' = [reply EXCEPT ![a] = line.body]

Resolve(a, line) ==
    IF line.id \notin pending[a] THEN UNCHANGED <<pending, reply>>
    ELSE /\ pending' = [pending EXCEPT ![a] = @ \ {line.id}]
         /\ reply' = [reply EXCEPT ![a] = line.body]

\* A completion nobody waits for yet is remembered, the oldest one forgotten for it.
Remember(turns, turn) ==
    LET longer == Append(turns, turn)
    IN CASE \E i \in DOMAIN turns : turns[i] = turn -> turns
         [] Len(longer) > MaxCompletedTurnCache -> Tail(longer)
         [] OTHER -> longer

MarkUnremembered(a, turn) ==
    /\ UNCHANGED completed
    /\ waiters' = [waiters EXCEPT ![a] = @ \ {turn}]
    /\ reply' = IF turn \in waiters[a] THEN [reply EXCEPT ![a] = turn] ELSE reply

MarkTurnCompleted(a, turn) ==
    /\ completed' = [completed EXCEPT ![a] = Remember(@, turn)]
    /\ waiters' = [waiters EXCEPT ![a] = @ \ {turn}]
    /\ reply' = IF turn \in waiters[a] THEN [reply EXCEPT ![a] = turn] ELSE reply

\* Writing to a pipe whose reader has exited raises EPIPE, which no listener handles.
WriteMayCrash(a) == child[a] = "exited" /\ phase' = "crashed"

ReadLine(a) ==
    /\ a \in connected /\ lines[a] # <<>>
    /\ LET line == Head(lines[a]) IN
       \/ /\ line.kind = "response"
          /\ Resolve(a, line)
          /\ UNCHANGED <<completed, waiters, heard, phase>>
       \/ /\ line.kind = "completed"
          /\ MarkTurnCompleted(a, line.id)
          /\ heard' = [heard EXCEPT ![a] = @ \cup {line.id}]
          /\ UNCHANGED <<pending, phase>>
       \/ \* handleServerRequest: declined, in a line of its own
          /\ line.kind = "ask"
          /\ UNCHANGED phase \/ WriteMayCrash(a)
          /\ UNCHANGED <<pending, completed, waiters, heard, reply>>
    /\ lines' = [lines EXCEPT ![a] = Tail(@)]
    /\ UNCHANGED <<todo, at, grace, draft, agents, connected, nextId, child, asked, turning,
                   dispatchVars, query, budget>>

RequestForgotten(a) ==
    /\ \E id \in pending[a] : pending' = [pending EXCEPT ![a] = @ \ {id}]
    /\ UNCHANGED <<managerVars, childVars, connected, nextId, waiters, completed, heard, reply,
                   dispatchVars, query, budget>>

RequestTimesOut(a) ==
    /\ \E id \in pending[a] : pending' = [pending EXCEPT ![a] = @ \ {id}]
    /\ reply' = [reply EXCEPT ![a] = Rejected]
    /\ UNCHANGED <<managerVars, childVars, connected, nextId, waiters, completed, heard,
                   dispatchVars, query, budget>>

TurnTimesOut(a) ==
    /\ \E turn \in waiters[a] : waiters' = [waiters EXCEPT ![a] = @ \ {turn}]
    /\ reply' = [reply EXCEPT ![a] = Rejected]
    /\ UNCHANGED <<managerVars, childVars, connected, nextId, pending, completed, heard,
                   dispatchVars, query, budget>>

\* The `exit' event, which drops what the child wrote and nobody read.
ExitEvent(a) ==
    /\ child[a] = "exited"
    /\ child' = [child EXCEPT ![a] = "gone"]
    /\ IF a \in connected THEN Finalize(a) ELSE UNCHANGED <<clientVars, lines>>
    /\ UNCHANGED <<managerVars, asked, turning, dispatchVars, query, budget>>

--------------------------------------------------------------------------------
(* The codex child.                                                            *)
Writes(a, line) ==
    /\ a \in connected => Len(lines[a]) < MaxLines
    /\ lines' = IF a \in connected THEN [lines EXCEPT ![a] = Append(@, line)] ELSE lines

ChildOnly == UNCHANGED <<managerVars, clientVars, dispatchVars, query>>

\* An answer, an answer without an id, or an error; a turn starts with its answer.
ChildAnswers(a) ==
    /\ child[a] = "running"
    /\ \E request \in asked[a] :
       LET Response(body) == [kind |-> "response", id |-> request.id, body |-> body] IN
       /\ asked' = [asked EXCEPT ![a] = @ \ {request}]
       /\ \/ /\ Writes(a, Response(request.id))
             /\ turning' = IF request.method # "turn/start" THEN turning
                           ELSE [turning EXCEPT ![a] = @ \cup {request.id}]
             /\ UNCHANGED budget
          \/ /\ \E body \in {Nameless, Rejected} : Writes(a, Response(body))
             /\ Spend("faults")
             /\ UNCHANGED turning
    /\ UNCHANGED child
    /\ ChildOnly

ChildCompletes(a) ==
    /\ child[a] = "running"
    /\ \E turn \in turning[a] :
       /\ turning' = [turning EXCEPT ![a] = @ \ {turn}]
       /\ Writes(a, [kind |-> "completed", id |-> turn])
    /\ UNCHANGED <<child, asked, budget>>
    /\ ChildOnly

\* A request for an approval the auto-reviewer did not give.
ChildAsks(a) ==
    /\ child[a] = "running" /\ turning[a] # {}
    /\ Spend("faults")
    /\ Writes(a, [kind |-> "ask", id |-> 0])
    /\ UNCHANGED <<child, asked, turning>>
    /\ ChildOnly

Exits(a) ==
    /\ child' = [child EXCEPT ![a] = "exited"]
    /\ asked' = [asked EXCEPT ![a] = {}]
    /\ turning' = [turning EXCEPT ![a] = {}]
    /\ UNCHANGED lines
    /\ ChildOnly

ChildExits(a) ==
    /\ child[a] = "running"
    /\ Spend("faults")
    /\ Exits(a)

\* Told to stop: by a signal, or by the end of its input.
ChildStops(a) ==
    /\ child[a] = "killed" \/ (child[a] = "running" /\ a \notin connected)
    /\ Exits(a)
    /\ UNCHANGED budget

--------------------------------------------------------------------------------
(* The consume loop and FleetService.dispatchAgentEvent.                       *)

\* consumeLoop reads the status anew between passes; `polling' ends with `down'.
ReadStatus ==
    /\ phase \in {"serving", "down"} /\ run.pc = "idle"
    /\ listed' = {a \in Agents : agents[a] = "running"}
    /\ UNCHANGED <<managerVars, childVars, clientVars, sessions, run, query, budget>>

\* The before_start hook, then the session in a copy of the whole file.
Dispatch(a) ==
    /\ run.pc = "idle" /\ a \in listed
    /\ Spend("dispatches")
    /\ \/ run' = [NoRun EXCEPT !.agent = a, !.pc = "prompt", !.view = [sessions EXCEPT ![a] = "ready"]]
       \/ run' = NoRun
    /\ UNCHANGED <<managerVars, childVars, clientVars, sessions, listed, query>>

\* dispatchAgentEvent throws: after_fail hooks, and the loop goes on.
Fail == run' = NoRun

\* sendRequest on behalf of the dispatch; requireConnection throws without a connection.
Request(a, method, pc) ==
    \/ /\ a \notin connected
       /\ Fail
       /\ Consumed(a)
       /\ UNCHANGED <<phase, connected, nextId, pending, waiters, completed, heard, childVars>>
    \/ /\ a \in connected
       /\ run' = [run EXCEPT !.pc = pc, !.asked = nextId[a]]
       /\ SendRequest(a, method)
       /\ UNCHANGED phase \/ WriteMayCrash(a)

DispatchOnly == UNCHANGED <<todo, at, grace, draft, agents, sessions, listed, query, budget>>

StartThread(a) ==
    /\ run.pc = "prompt" /\ run.agent = a /\ a \in Codex
    /\ Request(a, "thread/start", "thread")
    /\ DispatchOnly

StartTurn(a) ==
    /\ run.pc = "thread" /\ run.agent = a /\ reply[a] > Nameless
    /\ Request(a, "turn/start", "turn")
    /\ DispatchOnly

\* waitForTurnCompletion: a turn that is completed already is not waited for, an answer without
\* a turn id ends the dispatch.
Await(a, turn) ==
    \/ /\ turn = Nameless
       /\ run' = [run EXCEPT !.pc = "save", !.turn = turn]
       /\ UNCHANGED waiters
    \/ /\ turn # Nameless /\ a \notin connected
       /\ Fail
       /\ UNCHANGED waiters
    \/ /\ turn # Nameless /\ a \in connected
       /\ \E i \in DOMAIN completed[a] : completed[a][i] = turn
       /\ run' = [run EXCEPT !.pc = "save", !.turn = turn]
       /\ UNCHANGED waiters
    \/ /\ turn # Nameless /\ a \in connected
       /\ \A i \in DOMAIN completed[a] : completed[a][i] # turn
       /\ run' = [run EXCEPT !.pc = "wait", !.turn = turn]
       /\ waiters' = [waiters EXCEPT ![a] = @ \cup {turn}]

WaitForTurnCompletion(a) ==
    /\ run.pc = "turn" /\ run.agent = a /\ reply[a] >= Nameless
    /\ Await(a, reply[a])
    /\ Consumed(a)
    /\ UNCHANGED <<phase, childVars, connected, nextId, pending, completed, heard>>
    /\ DispatchOnly

TurnCompleted(a) ==
    /\ run.pc = "wait" /\ run.agent = a /\ reply[a] > Nameless
    /\ run' = [run EXCEPT !.pc = "save"]
    /\ Consumed(a)
    /\ UNCHANGED <<phase, childVars, connected, nextId, pending, waiters, completed, heard>>
    /\ DispatchOnly

\* A thread must be named to be used; a turn need not be.
NoThreadId(a) == run.pc = "thread" /\ reply[a] = Nameless

RequestFailed(a) ==
    /\ run.pc \in Awaiting /\ run.agent = a
    /\ reply[a] = Rejected \/ NoThreadId(a)
    /\ Fail
    /\ Consumed(a)
    /\ UNCHANGED <<phase, childVars, connected, nextId, pending, waiters, completed, heard>>
    /\ DispatchOnly

\* ClaudeAgentSdkRuntime.execute: the stream ends with a result message of any kind, without one,
\* or because down closed it - all a success - or it throws.
StartQuery(a) ==
    /\ run.pc = "prompt" /\ run.agent = a /\ a \in Claude
    /\ run' = [run EXCEPT !.pc = "query"]
    /\ query' = query \cup {a}
    /\ UNCHANGED <<managerVars, childVars, clientVars, sessions, listed, budget>>

QueryEnds(a) ==
    /\ run.pc = "query" /\ run.agent = a
    /\ \/ run' = [run EXCEPT !.pc = "save"] /\ UNCHANGED budget
       \/ Fail /\ Spend("faults")
    /\ query' = query \ {a}
    /\ UNCHANGED <<managerVars, childVars, clientVars, sessions, listed>>

\* The copy of the whole file, taken before the agent ran, is written back.
SaveSession ==
    /\ run.pc = "save"
    /\ sessions' = run.view
    /\ run' = [run EXCEPT !.pc = "after"]
    /\ UNCHANGED <<managerVars, childVars, clientVars, listed, query, budget>>

\* The after_complete hook, whose failure is the dispatch's.
FinishDispatch ==
    /\ run.pc = "after"
    /\ run' = NoRun
    /\ UNCHANGED <<managerVars, childVars, clientVars, sessions, listed, query, budget>>

--------------------------------------------------------------------------------
(* `down', in the process of the manager, while the consume loop goes on.      *)
\* The targets of a `down' without a role: every agent, a failed one too.
ResolveRuntimeTargets == Agents

BeginDownOfRunning ==
    /\ phase = "serving"
    /\ phase' = "down"
    /\ todo' = {a \in Agents : agents[a] = "running"} /\ draft' = agents
    /\ UNCHANGED <<at, grace, agents, childVars, clientVars, dispatchVars, query, budget>>

BeginDown ==
    /\ phase = "serving"
    /\ phase' = "down"
    /\ todo' = ResolveRuntimeTargets /\ draft' = agents
    /\ UNCHANGED <<at, grace, agents, childVars, clientVars, dispatchVars, query, budget>>

\* The agent is stopped in down's copy; processManager.stop signals a process that is gone.
Released(a) ==
    /\ draft' = [draft EXCEPT ![a] = "stopped"]
    /\ todo' = todo \ {a} /\ at' = Nobody /\ grace' = "none"

Shutting(a) == phase = "down" /\ at = Nobody /\ a \in todo

\* shutdownAgent: pending work is rejected, then the child gets SIGTERM and 1.5 s to exit.
ShutdownAgent(a) ==
    /\ Shutting(a) /\ a \in connected
    /\ Finalize(a)
    /\ at' = a /\ grace' = "SIGTERM"
    /\ UNCHANGED <<phase, todo, draft, agents, child, asked, turning, dispatchVars, query, budget>>

ShutdownUnconnected(a) ==
    /\ Shutting(a) /\ a \in Codex \ connected
    /\ Released(a)
    /\ UNCHANGED <<phase, agents, childVars, clientVars, dispatchVars, query, budget>>

\* An iteration that waits for the query ends; the dispatch goes on as if it had a result.
ShutdownClaude(a) ==
    /\ Shutting(a) /\ a \in Claude
    /\ query' = query \ {a}
    /\ run' = IF a \in query THEN [run EXCEPT !.pc = "save"] ELSE run
    /\ Released(a)
    /\ UNCHANGED <<phase, agents, childVars, clientVars, sessions, listed, budget>>

ChildSeenExiting(a) ==
    /\ phase = "down" /\ at = a /\ child[a] = "gone"
    /\ Released(a)
    /\ UNCHANGED <<phase, agents, childVars, clientVars, dispatchVars, query, budget>>

\* SIGTERM's grace period is over: SIGKILL, and 0.5 s more.
KillChild(a) ==
    /\ phase = "down" /\ at = a /\ grace = "SIGTERM" /\ child[a] # "gone"
    /\ child' = [child EXCEPT ![a] = IF @ = "running" THEN "killed" ELSE @]
    /\ grace' = "SIGKILL"
    /\ UNCHANGED <<phase, todo, at, draft, agents, lines, asked, turning, clientVars, dispatchVars,
                   query, budget>>

KillGraceOver(a) ==
    /\ phase = "down" /\ at = a /\ grace = "SIGKILL" /\ child[a] # "gone"
    /\ Released(a)
    /\ UNCHANGED <<phase, agents, childVars, clientVars, dispatchVars, query, budget>>

\* agents.json and agent-sessions.json are saved and polling ends.
SaveDown ==
    /\ phase = "down" /\ todo = {} /\ at = Nobody
    /\ phase' = "stopped"
    /\ agents' = draft
    /\ sessions' = [a \in Agents |-> "disconnected"]
    /\ UNCHANGED <<todo, at, grace, draft, childVars, clientVars, listed, run, query, budget>>

\* The API server is closed and the process exits, whatever a dispatch is doing.
Exit ==
    /\ phase = "stopped"
    /\ phase' = "exited"
    /\ UNCHANGED <<todo, at, grace, draft, agents, childVars, clientVars, dispatchVars, query, budget>>

--------------------------------------------------------------------------------
ManagerStep(a) ==
    \/ StartAgent(a) \/ Handshake(a) \/ PrepareClaude(a)
    \/ StartThread(a) \/ StartTurn(a) \/ WaitForTurnCompletion(a) \/ TurnCompleted(a)
    \/ RequestFailed(a) \/ StartQuery(a)
    \/ ShutdownAgent(a) \/ ShutdownUnconnected(a) \/ ShutdownClaude(a)
    \/ ChildSeenExiting(a) \/ KillChild(a) \/ KillGraceOver(a)

ConnectionStep(a) == RequestTimesOut(a) \/ TurnTimesOut(a) \/ ExitEvent(a)
ChildStep(a) == ChildAnswers(a) \/ ChildCompletes(a) \/ ChildAsks(a) \/ ChildExits(a) \/ ChildStops(a)

\* The steps with which no agent reports anything.
SilentStep ==
    \/ SaveUp \/ ReadStatus \/ SaveSession \/ FinishDispatch \/ BeginDown \/ SaveDown \/ Exit
    \/ \E a \in Agents : ManagerStep(a) \/ Dispatch(a)
    \/ \E a \in Agents : PrepareFails(a) \/ ValidateClaudeRuntimeConfigFails(a)
    \/ \E a \in Codex : ConnectionStep(a) \/ ChildStep(a)

Running == phase \notin Ended

Next ==
    /\ Running
    /\ SilentStep \/ (\E a \in Codex : ReadLine(a)) \/ (\E a \in Claude : QueryEnds(a))

\* The event loop goes on and timers run out; a child or a query need never do anything, nobody
\* need ask for `down'.
Fairness ==
    /\ WF_vars(Running /\ (SaveUp \/ SaveSession \/ FinishDispatch \/ SaveDown))
    /\ \A a \in Agents : WF_vars(Running /\ ManagerStep(a))
    /\ \A a \in Codex : WF_vars(Running /\ RequestTimesOut(a)) /\ WF_vars(Running /\ TurnTimesOut(a))

Spec == Init /\ [][Next]_vars /\ Fairness

--------------------------------------------------------------------------------
(* Properties *)

\* A dispatch goes on with the answer to its own latest request, never with a late answer to an
\* earlier one, and it succeeds only when the completion of the turn it started has been read or
\* the answer named no turn (AppServerClient's pending and pendingTurnCompletions maps).
OwnTurn ==
    run.agent \in Codex =>
        /\ run.pc \in {"thread", "turn"} /\ reply[run.agent] > Nameless => reply[run.agent] = run.asked
        /\ run.pc = "save" /\ run.turn # Nameless => run.turn = run.asked /\ run.turn \in heard[run.agent]

\* No wait is lost: whoever awaits a request or a turn has been given its outcome or has an entry
\* that a live connection will settle, and no turn is waited for whose completion was read
\* (sendRequest, waitForTurnCompletion, markTurnCompleted, finalize).
WaitJustified ==
    /\ \A a \in Codex :
          /\ pending[a] \cup waiters[a] # {} => a \in connected
          /\ waiters[a] \cap heard[a] = {}
    /\ run.pc \in Awaiting => \/ reply[run.agent] # NoReply
                              \/ pending[run.agent] \cup waiters[run.agent] # {}

\* FleetService.summarizeStatus, the API server left out.
Summary ==
    CASE \A a \in Agents : agents[a] = "running" /\ sessions[a] = "ready" -> "running"
      [] \A a \in Agents : agents[a] = "stopped" -> "stopped"
      [] OTHER -> "degraded"

\* When `down' has returned no codex child is left working, not even one whose handshake failed
\* or that ignores SIGTERM, and the status stays "stopped" whatever a dispatch that was under way
\* still saves (FleetService.down, AppServerClient.shutdownAgent, summarizeStatus).
DownCompletes ==
    phase \in {"stopped", "exited"} =>
        /\ \A a \in Codex : child[a] # "running"
        /\ Summary = "stopped"

\* Whatever the children do or fail to do, `up' and `down' come to an end and so does every
\* dispatch to a codex agent: each wait has a timer.
Settles ==
    /\ phase = "up" ~> phase # "up"
    /\ phase = "down" ~> phase # "down"
    /\ run.agent \in Codex ~> (run.pc = "idle" \/ phase \in Ended)
================================================================================
