------------------------------- MODULE FleetWatch -------------------------------
(***************************************************************************)
(* How the board of the user interface follows a fleet: fleet.watch, one   *)
(* stream with three watches in the API server (the change log of the      *)
(* backlog, the agents' activity, their logs), the notifications on their  *)
(* way, and Board, which reloads the backlog when a notification says it   *)
(* has changed and shows agents and log lines in its console.  Streams     *)
(* end, watches fail, and every opening of the dashboard replaces the      *)
(* stream by a new one.                                                    *)
(***************************************************************************)
EXTENDS Naturals, Sequences, FiniteSets, SequencesExt

CONSTANTS
    Agents,       \* agents of the fleet
    TailPerAgent, \* log lines a new watch starts with
    LogLimit,     \* CONSOLE_LOG_LIMIT_PER_AGENT
    MaxChanges,   \* bound: changes of the backlog and of what agents do, log lines
    MaxFaults     \* bound: ended streams, failed watches and requests, lost log entries,
                  \* openings of the board and of its dashboard

ASSUME WatchBounds == {TailPerAgent, LogLimit, MaxChanges, MaxFaults} \subseteq Nat

VARIABLES
    backlog,   \* items.json's content by number, entries not yet appended, lines in the change log
    activity,  \* what each agent does, from agents.json, its queue and the execution log
    lines,     \* lines in the agents' log (one log: they are watched alike)
    server,    \* the watches of the stream that is open
    wire,      \* its notifications, in order
    board,     \* Board: its stream, debounce timer, refresh and dashboard
    request,   \* request[s]: what the backlog requests of a refresh have been answered
    shown,     \* the epics and items on the board
    console,   \* the agents and the log lines in the console
    missed,    \* TRUE: the backlog changed in a way no refresh that will come has to see
    budget

vars == <<backlog, activity, lines, server, wire, board, request, shown, console, missed, budget>>

Nothing == 0                                \* no content: contents count from 1
\* Who refreshes: Board, CodefleetScreen itself, or the Board there was before its tab was opened again.
Screens == {"board", "screen", "former"}
Doing == [status : {"running", "stopped"}, busy : BOOLEAN]
Seen == [status : {"running", "idle", "stopped"}, busy : BOOLEAN]
Unseen == [status |-> "stopped", busy |-> FALSE]

Closed == [open |-> FALSE, backlog |-> "off", cursor |-> 0,
           activity |-> "off", previous |-> [a \in Agents |-> Unseen], logs |-> "off", offset |-> 0]

Notification ==
    [type : {"snapshot"}, agents : [Agents -> Doing]]
    \cup [type : {"changed"}, agent : Agents, after : Doing]
    \cup [type : {"chunk"}, first : Nat, last : Nat]
    \cup [type : {"backlog.changed", "error"}]

InFlight(s) == request[s].active

TypeOK ==
    /\ backlog \in [items : Nat, pending : Nat, log : Nat]
    /\ activity \in [Agents -> Doing] /\ lines \in Nat
    /\ server.open \in BOOLEAN /\ server.cursor =< backlog.log /\ server.offset =< lines
    /\ \A w \in {"backlog", "activity", "logs"} : server[w] \in {"off", "polling", "dead"}
    /\ wire \in Seq(Notification)
    /\ ~server.open => server = Closed /\ wire = <<>>
    /\ board \in [stream : {"starting", "open", "waiting"}, timer : BOOLEAN,
                  rerun : SUBSET {"board", "former"}, dashboard : BOOLEAN]
    /\ server.open <=> board.stream = "open"
    /\ \A s \in board.rerun : InFlight(s)
    /\ request \in [Screens -> [active : BOOLEAN, epics : Nat, items : Nat]]
    /\ shown \in [epics : Nat, items : Nat]
    /\ console.agents \in [Agents -> Seen] /\ console.lines \in Seq(Nat)
    /\ Len(console.lines) =< LogLimit
    /\ missed \in BOOLEAN /\ budget \in [{"changes", "faults"} -> Nat]

NewRequest == [active |-> TRUE, epics |-> Nothing, items |-> Nothing]
NoRequest == [NewRequest EXCEPT !.active = FALSE]

\* The screen has just been opened: its first refresh and its first stream are on their way.
Init ==
    /\ backlog = [items |-> 1, pending |-> 0, log |-> 0]
    /\ activity = [a \in Agents |-> [status |-> "running", busy |-> FALSE]] /\ lines = 0
    /\ server = Closed /\ wire = <<>>
    /\ board = [stream |-> "starting", timer |-> FALSE, rerun |-> {}, dashboard |-> FALSE]
    /\ request = [board |-> NoRequest, screen |-> NewRequest, former |-> NoRequest]
    /\ shown = [epics |-> Nothing, items |-> Nothing]
    /\ console = [agents |-> [a \in Agents |-> Unseen], lines |-> <<>>]
    /\ missed = FALSE
    /\ budget = [changes |-> MaxChanges, faults |-> MaxFaults]

--------------------------------------------------------------------------------
Spend(what) == budget[what] > 0 /\ budget' = [budget EXCEPT ![what] = @ - 1]

files == <<backlog, activity, lines>>
view == <<shown, console>>

(* The files, written by other processes.                                      *)

\* writeBacklog: items.json first, its entry in the change log afterwards.
SaveItems ==
    /\ Spend("changes")
    /\ backlog' = [backlog EXCEPT !.items = @ + 1, !.pending = @ + 1]
    /\ UNCHANGED <<activity, lines, server, wire, board, request, view, missed>>

\* An entry that no watch is there to see reaches no board.
AppendChangeLog ==
    /\ backlog.pending > 0
    /\ backlog' = [backlog EXCEPT !.pending = @ - 1, !.log = @ + 1]
    /\ missed' = (missed \/ server.backlog # "polling")
    /\ UNCHANGED <<activity, lines, server, wire, board, request, view, budget>>

WriterDies ==
    /\ backlog.pending > 0 /\ Spend("faults")
    /\ backlog' = [backlog EXCEPT !.pending = @ - 1]
    /\ missed' = TRUE
    /\ UNCHANGED <<activity, lines, server, wire, board, request, view>>

AgentChanges(a) ==
    /\ Spend("changes")
    /\ \E now \in Doing : now # activity[a] /\ activity' = [activity EXCEPT ![a] = now]
    /\ UNCHANGED <<backlog, lines, server, wire, board, request, view, missed>>

AppendLogLine ==
    /\ Spend("changes") /\ lines' = lines + 1
    /\ UNCHANGED <<backlog, activity, server, wire, board, request, view, missed>>

--------------------------------------------------------------------------------
(* The API server: the three watches of one stream.                            *)

Send(notifications) == wire' = wire \o notifications

Chunk(first, last) ==
    IF first > last THEN <<>> ELSE <<[type |-> "chunk", first |-> first, last |-> last]>>

\* executeFleetWatchTool starts the three watches.  The backlog's begins at the end of the change
\* log, and the snapshot it sends says nothing to Board; the others begin with what there is.
Connect ==
    /\ board.stream = "starting"
    /\ board' = [board EXCEPT !.stream = "open"]
    /\ server' = [open |-> TRUE, backlog |-> "polling", cursor |-> backlog.log,
                  activity |-> "polling", previous |-> activity, logs |-> "polling", offset |-> lines]
    /\ Send(<<[type |-> "snapshot", agents |-> activity]>>
            \o Chunk(IF lines > TailPerAgent THEN lines - TailPerAgent + 1 ELSE 1, lines))
    /\ UNCHANGED <<files, request, view, missed, budget>>

PollBacklog ==
    /\ server.backlog = "polling" /\ server.cursor < backlog.log
    /\ Send([i \in 1 .. backlog.log - server.cursor |-> [type |-> "backlog.changed"]])
    /\ server' = [server EXCEPT !.cursor = backlog.log]
    /\ UNCHANGED <<files, board, request, view, missed, budget>>

StartedOrStopped(before, after) ==
    {a \in Agents : before[a].status # after[a].status \/ (~before[a].busy /\ after[a].busy)}

DetectActivityChanges(before, after) ==
    {a \in Agents : before[a].status # after[a].status \/ before[a].busy # after[a].busy}

PollActivity ==
    /\ server.activity = "polling"
    /\ LET changed == DetectActivityChanges(server.previous, activity)
       IN /\ server.previous # activity
          /\ Send(SetToSeq({[type |-> "changed", agent |-> a, after |-> activity[a]] : a \in changed}))
    /\ server' = [server EXCEPT !.previous = activity]
    /\ UNCHANGED <<files, board, request, view, missed, budget>>

PollLogs ==
    /\ server.logs = "polling" /\ server.offset < lines
    /\ Send(Chunk(server.offset + 1, lines))
    /\ server' = [server EXCEPT !.offset = lines]
    /\ UNCHANGED <<files, board, request, view, missed, budget>>

\* runWatch: a watch that throws reports it and ends; the stream goes on with the other two.
WatchFails(w) ==
    /\ server[w] = "polling" /\ Spend("faults")
    /\ Send(<<[type |-> "error"]>>)
    /\ server' = [server EXCEPT ![w] = "dead"]
    /\ missed' = (missed \/ (w = "backlog" /\ server.cursor < backlog.log))
    /\ UNCHANGED <<files, board, request, view>>

--------------------------------------------------------------------------------
(* The refresh of the backlog: useCodefleetBoard.refreshBoard, and Board's way *)
(* of calling it, one at a time.                                               *)

StartRequest(s, others) ==
    /\ request' = [others EXCEPT ![s] = NewRequest]
    /\ missed' = \E other \in Screens \ {s} : others[other].active

\* listBacklogEpics and listBacklogItems are two requests, each answered from the file of its moment.
Answer(s, list) ==
    /\ InFlight(s) /\ request[s][list] = Nothing
    /\ request' = [request EXCEPT ![s][list] = backlog.items]
    /\ UNCHANGED <<files, server, wire, board, view, missed, budget>>

SkipWhileRefreshing ==
    /\ board' = [board EXCEPT !.timer = FALSE]
    /\ IF InFlight("board") THEN UNCHANGED <<request, missed>> ELSE StartRequest("board", request)

RunBacklogRefresh ==
    \/ /\ InFlight("board")
       /\ board' = [board EXCEPT !.timer = FALSE, !.rerun = @ \cup {"board"}]
       /\ UNCHANGED <<request, missed>>
    \/ /\ ~InFlight("board")
       /\ board' = [board EXCEPT !.timer = FALSE]
       /\ StartRequest("board", request)

\* The finally of runBacklogRefresh: a refresh that was asked for meanwhile starts now.
EndRequest(s) ==
    LET ended == [request EXCEPT ![s] = NoRequest]
    IN IF s \in board.rerun
       THEN board' = [board EXCEPT !.rerun = @ \ {s}] /\ StartRequest(s, ended)
       ELSE request' = ended /\ UNCHANGED <<board, missed>>

RefreshDone(s) ==
    /\ InFlight(s) /\ Nothing \notin {request[s].epics, request[s].items}
    /\ shown' = [epics |-> request[s].epics, items |-> request[s].items]
    /\ EndRequest(s)
    /\ UNCHANGED <<files, server, wire, console, budget>>

RefreshFails(s) ==
    /\ InFlight(s) /\ Spend("faults")
    /\ IF s \in board.rerun THEN EndRequest(s)
       ELSE /\ request' = [request EXCEPT ![s] = NoRequest]
            /\ missed' = TRUE
            /\ UNCHANGED board
    /\ UNCHANGED <<files, server, wire, view>>

TimerFires ==
    /\ board.timer
    /\ RunBacklogRefresh
    /\ UNCHANGED <<files, server, wire, view, budget>>

--------------------------------------------------------------------------------
(* Board's stream.                                                             *)

NormalizeAgent(doing) ==
    IF ~doing.busy /\ doing.status = "running" THEN [doing EXCEPT !.status = "idle"] ELSE doing

ShowLines(first, last) ==
    LET merged == console.lines \o [i \in 1 .. last - first + 1 |-> first + i - 1]
    IN IF Len(merged) =< LogLimit THEN merged ELSE SubSeq(merged, Len(merged) - LogLimit + 1, Len(merged))

\* onNotification: a change of the backlog starts the debounce timer, or finds it running.
OnNotification(n) ==
    \/ /\ n.type = "snapshot"
       /\ console' = [console EXCEPT !.agents = [a \in Agents |-> NormalizeAgent(n.agents[a])]]
       /\ UNCHANGED board
    \/ /\ n.type = "changed"
       /\ console' = [console EXCEPT !.agents[n.agent] = NormalizeAgent(n.after)]
       /\ UNCHANGED board
    \/ /\ n.type = "chunk"
       /\ console' = [console EXCEPT !.lines = IF board.dashboard THEN ShowLines(n.first, n.last) ELSE @]
       /\ UNCHANGED board
    \/ /\ n.type = "backlog.changed"
       /\ board' = [board EXCEPT !.timer = TRUE]
       /\ UNCHANGED console
    \/ /\ n.type = "error"
       /\ UNCHANGED <<board, console>>

Deliver ==
    /\ wire # <<>>
    /\ wire' = Tail(wire)
    /\ OnNotification(Head(wire))
    /\ UNCHANGED <<files, server, request, shown, missed, budget>>

\* What a stream takes with it when it ends: entries not yet polled, notifications not yet handled.
LeftBehind ==
    \/ server.backlog = "polling" /\ server.cursor < backlog.log
    \/ [type |-> "backlog.changed"] \in ToSet(wire)

StreamEnds ==
    /\ server.open /\ Spend("faults")
    /\ server' = Closed /\ wire' = <<>>
    /\ board' = [board EXCEPT !.stream = "waiting"]
    /\ missed' = (missed \/ LeftBehind)
    /\ UNCHANGED <<files, request, view>>

Reconnect ==
    /\ board.stream = "waiting"
    /\ board' = [board EXCEPT !.stream = "starting"]
    /\ UNCHANGED <<files, server, wire, request, view, missed, budget>>

\* The effect that watches depends on isDashboardMounted: its cleanup aborts the stream and clears
\* the debounce timer, and the next one starts a stream of its own.
AbortWatch == server' = Closed /\ wire' = <<>>

ToggleDashboard ==
    /\ Spend("faults")
    /\ AbortWatch
    /\ board' = [board EXCEPT !.dashboard = ~@, !.timer = FALSE, !.stream = "starting"]
    /\ missed' = (missed \/ board.timer \/ LeftBehind)
    /\ UNCHANGED <<files, request, view>>

\* CodefleetScreen refreshes by itself when the tab is opened, and mounts another Board: with a
\* stream and a console of its own, while a refresh of the one before goes on.
OpenBoardTab ==
    /\ ~InFlight("screen") /\ ~InFlight("former") /\ Spend("faults")
    /\ AbortWatch
    /\ board' = [board EXCEPT !.timer = FALSE, !.stream = "starting",
                             !.rerun = IF "board" \in @ THEN {"former"} ELSE {}]
    /\ StartRequest("screen", [request EXCEPT !["board"] = NoRequest, !["former"] = request["board"]])
    /\ console' = [agents |-> [a \in Agents |-> Unseen], lines |-> <<>>]
    /\ UNCHANGED <<files, shown>>

--------------------------------------------------------------------------------
Watches == PollBacklog \/ PollActivity \/ PollLogs

Refreshes ==
    \E s \in Screens : (\E list \in {"epics", "items"} : Answer(s, list)) \/ RefreshDone(s)

Next ==
    \/ SaveItems \/ AppendChangeLog \/ WriterDies \/ AppendLogLine
    \/ \E a \in Agents : AgentChanges(a)
    \/ Connect \/ Watches \/ Deliver \/ TimerFires \/ Refreshes \/ Reconnect
    \/ \E w \in {"backlog", "activity", "logs"} : WatchFails(w)
    \/ \E s \in Screens : RefreshFails(s)
    \/ StreamEnds \/ OpenBoardTab \/ ToggleDashboard

Spec == Init /\ [][Next]_vars

\* Processes that started a write finish it, timers and polls fire, requests and notifications
\* arrive unless a fault says otherwise.
Fairness ==
    /\ WF_vars(AppendChangeLog) /\ WF_vars(Connect) /\ WF_vars(Reconnect)
    /\ WF_vars(PollBacklog) /\ WF_vars(PollActivity) /\ WF_vars(PollLogs)
    /\ WF_vars(Deliver) /\ WF_vars(TimerFires) /\ WF_vars(Refreshes)

FairSpec == Spec /\ Fairness

--------------------------------------------------------------------------------
(* Properties *)

\* The board ends up with the backlog on file, whatever arrives while a refresh is under way,
\* unless the last change fell into one of the gaps that `missed' names: no watch was polling
\* when its entry came, a stream or a timer was dropped with it, its refresh failed, or two
\* refreshes overlapped and the older one may have been shown last.
BoardCatchesUp == <>[](missed \/ shown = [epics |-> backlog.items, items |-> backlog.items])

\* The console ends up with what every agent does and with the log's last line, across ended
\* streams and dashboards opened and closed, unless that watch of the last stream has failed.
ConsoleCatchesUp ==
    <>[]( /\ server.activity = "dead" \/ \A a \in Agents : console.agents[a] = NormalizeAgent(activity[a])
          /\ server.logs = "dead" \/ ~board.dashboard \/ lines = 0
             \/ (console.lines # <<>> /\ Last(console.lines) = lines) )
================================================================================
