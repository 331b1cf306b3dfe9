------------------------------- MODULE ThreadPane -------------------------------
(***************************************************************************)
(* ThreadPane, the chat of the user interface: a run of the agent whose    *)
(* events stream in, conversations loaded from the server, and polls of a  *)
(* conversation that some other run is changing, all writing one list of   *)
(* messages.  Requests are answered out of order, the user switches        *)
(* conversations, stops runs and starts others meanwhile.  A question and  *)
(* its answer are one entry, an answer is the list of runs its pieces of   *)
(* text came from, and timeline items are left out.                        *)
(***************************************************************************)
EXTENDS Naturals, Sequences, FiniteSets, SequencesExt

CONSTANTS
    Sessions,  \* conversations on the server; those without a turn are yet to come
    Opened,    \* those that have a finished turn when the pane is opened
    MaxRuns,   \* bound: runs the pane starts
    MaxDeltas, \* bound: pieces of text a run streams
    MaxActs,   \* bound: what the user does
    MaxFaults, \* bound: failed runs and failed loads
    MaxLoads   \* bound: requests for a conversation under way

ASSUME ThreadBounds == {MaxRuns, MaxDeltas, MaxActs, MaxFaults, MaxLoads} \subseteq Nat /\ Opened \subseteq Sessions

VARIABLES
    conv,     \* conv[s]: the turns of a conversation on the server
    run,      \* run[r]: a call of handleSubmit: its phase, conversation and latestAgentEntry
    wire,     \* wire[r]: what its stream has sent and the pane not handled
    pane,     \* selectedSessionId, isSubmitting, isRunningRemote and whose abortRef it is
    messages, \* the entries on display
    draft,    \* streamDraft and its ref, a sequence of at most one entry
    history,  \* turnHistoryRef, for each run a sequence of at most one entry
    loads,    \* requests for a conversation, in the order they were made
    gap,      \* TRUE: the display has missed something and no load has made up for it
    budget

vars == <<conv, run, wire, pane, messages, draft, history, loads, gap, budget>>

Runs == 1 .. MaxRuns
New == "new"
Nobody == 0                                       \* no run of the pane
Earlier == 0                                      \* the run of the turns that are there from the start
Active == {"sent", "streaming", "aborting", "loading", "closing"}

Entry == [run : Nat, text : Seq(Nat), status : {"running", "completed", "failed", "unanswered"}, local : BOOLEAN]
Load == [session : Sessions, for : {Nobody} \cup Runs, alone : BOOLEAN, answered : BOOLEAN, turns : Seq(Entry)]

TypeOK ==
    /\ conv \in [Sessions -> Seq(Entry)]
    /\ run \in [Runs -> [phase : {"none", "ended"} \cup Active, session : Sessions \cup {New}, latest : Seq(Nat)]]
    /\ wire \in [Runs -> Seq({"delta", "completed", "failed"})]
    /\ pane \in [selected : Sessions \cup {New}, submitting : BOOLEAN, running : BOOLEAN, controller : {Nobody} \cup Runs]
    /\ messages \in Seq(Entry) /\ draft \in Seq(Entry) /\ Len(draft) =< 1
    /\ \A r \in Runs : history[r] \in Seq(Entry) /\ Len(history[r]) =< 1
    /\ loads \in Seq(Load) /\ Len(loads) =< MaxLoads
    /\ gap \in BOOLEAN /\ budget \in [{"acts", "faults"} -> Nat]
    /\ pane.controller # Nobody => run[pane.controller].phase \in {"sent", "streaming"}
    /\ \A s \in Sessions : Cardinality({i \in 1 .. Len(conv[s]) : conv[s][i].status = "running"}) =< 1

--------------------------------------------------------------------------------
Turn(r, text, status) == [run |-> r, text |-> text, status |-> status, local |-> FALSE]
Optimistic(r) == [Turn(r, <<>>, "running") EXCEPT !.local = TRUE]

Spend(what) == budget[what] > 0 /\ budget' = [budget EXCEPT ![what] = @ - 1]

\* A request is alone when no other was under way, and no other run of the pane active, when it was
\* made, and nothing of the kind has begun since.
Request(s, r) ==
    [session |-> s, for |-> r, answered |-> FALSE, turns |-> <<>>,
     alone |-> loads = <<>> /\ \A q \in Runs \ {r} : run[q].phase \notin Active]

NotAlone == [i \in 1 .. Len(loads) |-> [loads[i] EXCEPT !.alone = FALSE]]

\* loadConversation of a conversation still to be created shows the draft, if there is one.
Init ==
    /\ conv = [s \in Sessions |-> IF s \in Opened THEN <<Turn(Earlier, <<Earlier>>, "completed")>> ELSE <<>>]
    /\ run = [r \in Runs |-> [phase |-> "none", session |-> New, latest |-> <<>>]]
    /\ wire = [r \in Runs |-> <<>>]
    /\ pane = [selected |-> New, submitting |-> FALSE, running |-> FALSE, controller |-> Nobody]
    /\ messages = <<>> /\ draft = <<>> /\ history = [r \in Runs |-> <<>>] /\ loads = <<>>
    /\ gap = FALSE
    /\ budget = [acts |-> MaxActs, faults |-> MaxFaults]

server == <<conv, wire>>
view == <<messages, draft, history, gap>>

--------------------------------------------------------------------------------
(* The server: it runs the agent of an agent.run request, which goes on when   *)
(* the pane has gone, and answers conversations.get from what it has by then.  *)

InProgress(turns) == turns # <<>> /\ Last(turns).status = "running"

ServerStarts(r) ==
    /\ run[r].phase = "sent"
    /\ \E s \in Sessions :
        /\ IF run[r].session = New THEN conv[s] = <<>> ELSE s = run[r].session
        /\ ~InProgress(conv[s])
        /\ conv' = [conv EXCEPT ![s] = Append(@, Turn(r, <<>>, "running"))]
        /\ run' = [run EXCEPT ![r].phase = "streaming", ![r].session = s]
    /\ UNCHANGED <<wire, pane, view, loads, budget>>

Emit(r, what) == wire' = [wire EXCEPT ![r] = IF run[r].phase = "streaming" THEN Append(@, what) ELSE @]

ServerStreams(r) ==
    \E s \in Sessions :
        /\ InProgress(conv[s]) /\ Last(conv[s]).run = r
        /\ LET turn == Last(conv[s])
               Becomes(next) == conv' = [conv EXCEPT ![s] = Append(Front(@), next)]
           IN \/ /\ Len(turn.text) < MaxDeltas
                 /\ Becomes([turn EXCEPT !.text = Append(@, r)]) /\ Emit(r, "delta")
              \/ \E status \in {"completed", "failed"} :
                     Becomes([turn EXCEPT !.status = status]) /\ Emit(r, status)
        /\ UNCHANGED <<run, pane, view, loads, budget>>

Answer(i) ==
    /\ ~loads[i].answered
    /\ loads' = [loads EXCEPT ![i].answered = TRUE, ![i].turns = conv[loads[i].session]]
    /\ UNCHANGED <<server, run, pane, view, budget>>

--------------------------------------------------------------------------------
(* loadConversation                                                            *)

LocalAlwaysWins(remote, local) == [remote EXCEPT !.text = local.text]

\* mergeAgentEntry: the longer text wins, the server's at equal length.
Merge(remote, local) ==
    [remote EXCEPT !.text = IF Len(local.text) > Len(@) THEN local.text ELSE @,
                   !.status = IF @ = "running" /\ local.status = "failed" THEN "failed" ELSE @]

Remember(past, local) == IF past = <<>> THEN <<local>> ELSE <<Merge(past[1], local)>>

\* toThreadMessages, with what the pane remembers of its own runs merged in.
ToThreadMessages(turns, known) ==
    [i \in 1 .. Len(turns) |->
        LET r == turns[i].run
        IN IF r \in Runs /\ known[r] # <<>> THEN Merge(turns[i], known[r][1]) ELSE turns[i]]

\* The promise of handleSubmit goes on when its own load has ended, one way or the other.
AfterLoad(i) ==
    /\ loads' = RemoveAt(loads, i)
    /\ run' = [r \in Runs |-> IF r = loads[i].for THEN [run[r] EXCEPT !.phase = "closing"] ELSE run[r]]

\* The display has made up for a gap when a request that has been alone all the time brings the
\* conversation that is selected, and what is still running there will be polled.
MakesUp(i) ==
    /\ Len(loads) = 1 /\ loads[i].alone /\ loads[i].session = pane.selected
    /\ InProgress(loads[i].turns) => draft = <<>>

LoadArrives(i) ==
    /\ loads[i].answered
    /\ LET turns == loads[i].turns
           progress == InProgress(turns)
           known == IF progress /\ draft # <<>> /\ Last(turns).run \in Runs
                    THEN [history EXCEPT ![Last(turns).run] = Remember(@, draft[1])] ELSE history
       IN /\ history' = known
          /\ messages' = ToThreadMessages(turns, known)
          /\ pane' = [pane EXCEPT !.running = progress]
          /\ draft' = IF progress THEN draft ELSE <<>>
    /\ gap' = IF MakesUp(i) THEN FALSE ELSE gap \/ i # 1 \/ loads[i].session # pane.selected
    /\ AfterLoad(i)
    /\ UNCHANGED <<server, budget>>

LoadFails(i) ==
    /\ Spend("faults")
    /\ messages' = <<>> /\ pane' = [pane EXCEPT !.running = FALSE] /\ gap' = TRUE
    /\ AfterLoad(i)
    /\ UNCHANGED <<server, draft, history>>

\* The poll of a conversation in which something runs, though not while the pane streams itself.
Poll ==
    /\ pane.running /\ pane.selected # New /\ draft = <<>>
    /\ Len(loads) + 2 < MaxLoads                    \* leaves room for those of a result
    /\ loads' = Append(NotAlone, Request(pane.selected, Nobody))
    /\ UNCHANGED <<server, run, pane, view, budget>>

--------------------------------------------------------------------------------
(* What the user does.                                                         *)

Select(s) ==
    /\ s # pane.selected /\ Spend("acts")
    /\ IF s = New
       THEN /\ messages' = draft
            /\ pane' = [pane EXCEPT !.selected = s, !.running = (draft # <<>>)]
            /\ gap' = (draft # <<>> \/ loads # <<>>)
            /\ UNCHANGED loads
       ELSE /\ conv[s] # <<>> /\ Len(loads) < MaxLoads
            /\ loads' = Append(NotAlone, Request(s, Nobody))
            /\ pane' = [pane EXCEPT !.selected = s]
            /\ UNCHANGED <<messages, gap>>
    /\ UNCHANGED <<server, run, draft, history>>

\* handleSubmit up to its first await.
Submit(r) ==
    /\ ~pane.submitting /\ Spend("acts")
    /\ run[r].phase = "none" /\ \A q \in 1 .. r - 1 : run[q].phase # "none"
    /\ pane.selected = New => \E s \in Sessions : conv[s] = <<>>
    /\ run' = [run EXCEPT ![r] = [phase |-> "sent", session |-> pane.selected, latest |-> <<>>]]
    /\ pane' = [pane EXCEPT !.submitting = TRUE, !.running = TRUE, !.controller = r]
    /\ draft' = <<Optimistic(r)>>
    /\ messages' = Append(messages, Optimistic(r))
    /\ loads' = NotAlone
    /\ UNCHANGED <<server, history, gap>>

\* What a stopped and a failed run leave of isSubmitting, isRunningRemote and abortRef.
Idle(p) == [p EXCEPT !.submitting = FALSE, !.running = FALSE, !.controller = Nobody]

\* handleAbort: the button is there while isSubmitting, whatever abortRef holds by then.
Abort ==
    /\ pane.submitting /\ Spend("acts")
    /\ run' = [r \in Runs |-> IF r = pane.controller THEN [run[r] EXCEPT !.phase = "aborting"] ELSE run[r]]
    /\ pane' = Idle(pane)
    /\ draft' = <<>> /\ gap' = TRUE
    /\ UNCHANGED <<server, messages, history, loads>>

--------------------------------------------------------------------------------
(* handleSubmit goes on.                                                       *)

\* applyStreamEvent adds to the last answer on display, whichever conversation that is of.
Streamed(entry, r) == [entry EXCEPT !.text = Append(@, r), !.status = "running"]

ReceiveDelta(r) ==
    /\ run[r].phase = "streaming" /\ wire[r] # <<>> /\ Head(wire[r]) = "delta"
    /\ wire' = [wire EXCEPT ![r] = Tail(@)]
    /\ LET shown == messages # <<>> /\ Last(messages).status # "unanswered"
       IN /\ messages' = IF shown THEN Append(Front(messages), Streamed(Last(messages), r)) ELSE messages
          /\ draft' = IF draft = <<>> THEN <<>> ELSE <<Streamed(draft[1], r)>>
          /\ run' = [run EXCEPT ![r].latest = IF draft # <<>> THEN draft'[1].text
                                              ELSE IF shown THEN Last(messages').text ELSE @]
    /\ UNCHANGED <<conv, pane, history, loads, gap, budget>>

\* The result selects the conversation it belongs to, whose effect loads it, and loads it as well.
ReceiveResult(r) ==
    /\ run[r].phase = "streaming" /\ wire[r] # <<>> /\ Head(wire[r]) # "delta"
    /\ Len(loads) + 2 =< MaxLoads
    /\ LET s == run[r].session
           own == [Turn(r, run[r].latest, Head(wire[r])) EXCEPT !.local = TRUE]
       IN /\ history' = [history EXCEPT ![r] = Remember(@, own)]
          /\ pane' = [pane EXCEPT !.controller = Nobody, !.selected = s]
          /\ loads' = NotAlone \o <<Request(s, r)>> \o IF s = pane.selected THEN <<>> ELSE <<Request(s, Nobody)>>
    /\ wire' = [wire EXCEPT ![r] = Tail(@)]
    /\ run' = [run EXCEPT ![r].phase = "loading"]
    /\ UNCHANGED <<conv, messages, draft, gap, budget>>

\* The finally of handleSubmit.
Close(r) ==
    /\ run[r].phase = "closing"
    /\ run' = [run EXCEPT ![r].phase = "ended"]
    /\ pane' = [pane EXCEPT !.submitting = FALSE]
    /\ UNCHANGED <<server, view, loads, budget>>

AbortRejects(r) ==
    /\ run[r].phase = "aborting"
    /\ run' = [run EXCEPT ![r].phase = "ended"]
    /\ messages' = [i \in 1 .. Len(messages) |->
                        IF messages[i].local /\ messages[i].run = r
                        THEN [messages[i] EXCEPT !.status = "unanswered", !.text = <<>>] ELSE messages[i]]
    /\ draft' = <<>>
    /\ pane' = [pane EXCEPT !.submitting = FALSE, !.controller = Nobody]
    /\ gap' = TRUE
    /\ UNCHANGED <<server, history, loads, budget>>

RunFails(r) ==
    /\ run[r].phase \in {"sent", "streaming"} /\ Spend("faults")
    /\ run' = [run EXCEPT ![r].phase = "ended"]
    /\ messages' = IF messages = <<>> \/ Last(messages).status = "unanswered" THEN messages
                   ELSE Append(Front(messages), [Last(messages) EXCEPT !.status = "failed"])
    /\ draft' = <<>>
    /\ pane' = Idle(pane)
    /\ gap' = TRUE
    /\ UNCHANGED <<server, history, loads>>

--------------------------------------------------------------------------------
Serve(r) == ServerStarts(r) \/ ServerStreams(r)
AnswerAny == \E i \in 1 .. Len(loads) : Answer(i)
Arrive == \E i \in 1 .. Len(loads) : LoadArrives(i)
Resume(r) == ReceiveDelta(r) \/ ReceiveResult(r) \/ Close(r) \/ AbortRejects(r)

Next ==
    \/ AnswerAny \/ Arrive \/ Poll \/ Abort
    \/ \E r \in Runs : Serve(r) \/ Resume(r) \/ Submit(r) \/ RunFails(r)
    \/ \E i \in 1 .. Len(loads) : LoadFails(i)
    \/ \E s \in Sessions \cup {New} : Select(s)

Spec == Init /\ [][Next]_vars

\* The server goes on with what it has been asked, answers arrive, timers fire, promises resume.
Fairness ==
    /\ WF_vars(AnswerAny) /\ WF_vars(Arrive) /\ WF_vars(Poll)
    /\ \A r \in Runs : WF_vars(Serve(r)) /\ WF_vars(Resume(r))

FairSpec == Spec /\ Fairness

--------------------------------------------------------------------------------
(* Properties *)

\* What the pane remembers of a run is longer than what the run has said: some of it is another
\* conversation's, or came twice, because the user opened another conversation while it streamed.
Garbled ==
    \E s \in Sessions : \E i \in 1 .. Len(conv[s]) :
        LET r == conv[s][i].run
        IN r \in Runs /\ history[r] # <<>> /\ Len(history[r][1].text) > Len(conv[s][i].text)

\* The pane settles: it ends up showing the selected conversation as the server has it, nothing
\* running and the composer free, whatever streams, loads and polls arrive in whatever order.
\* Not covered: a conversation that failed to load or was overtaken by an older answer, and a run
\* that failed or was stopped, until the user opens it again; garbled answers.
PaneSettles ==
    <>[]( \/ gap \/ Garbled
          \/ /\ ~pane.submitting /\ ~pane.running
             /\ pane.selected # New => messages = conv[pane.selected] )
================================================================================
