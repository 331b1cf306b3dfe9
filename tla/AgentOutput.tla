------------------------------ MODULE AgentOutput ------------------------------
(***************************************************************************)
(* What the manager's agents report while they work: notifications of the  *)
(* codex child, messages of the Claude stream, the runtime events both are *)
(* mapped to, the lines `up' shows of them, and the file of each agent     *)
(* that the shown lines are appended to, one after the other, while the    *)
(* sessions of AgentSessions go on.                                        *)
(***************************************************************************)
EXTENDS AgentSessions

CONSTANTS
    Texts,      \* what an agent can say
    NoText,     \* nothing said, no command, no id
    Blocks,     \* indices of the content blocks of a Claude stream
    MaxQueued   \* bound: lines of all agents on their way to a file that are followed

ASSUME TextsAssumption == NoText \notin Texts
ASSUME OutputBound == MaxQueued \in Nat

VARIABLES
    blocks,     \* blocks[a]: streamBlocksByAgent
    told,       \* told[a]: turns of codex agent a whose end was shown
    shown,      \* shown[a]: lines shown since the chain was last empty, numbered from 1
    queue,      \* queue[a]: those not appended yet (agentLogWriteChainByAgentId)
    log,        \* log[a]: those appended to the agent's file
    failed      \* failed[a]: those whose own append failed

fileVars == <<shown, queue, log, failed>>
outputVars == <<blocks, told, fileVars>>
allVars == <<vars, outputVars>>

LogMode == {"human", "jsonl"}
Block == {"none", "thinking", "thought", "tool_use"}
NoBlocks == [i \in Blocks |-> "none"]

OutputInit ==
    /\ Init
    /\ blocks = [a \in Claude |-> NoBlocks]
    /\ told = [a \in Codex |-> {}]
    /\ shown = [a \in Agents |-> 0]
    /\ queue = [a \in Agents |-> <<>>] /\ log = queue
    /\ failed = [a \in Agents |-> {}]

--------------------------------------------------------------------------------
(* Runtime events: what a notification or a message is mapped to.              *)

\* A message is its beginning and what follows the colon.
Message(head, text) == [head |-> head, text |-> text]
NoMessage == Message("none", NoText)
IfSaid(head, text) == IF text = NoText THEN NoMessage ELSE Message(head, text)
Event(kind, type, message) == [kind |-> kind, type |-> type, message |-> message]

\* "delta" stands for the types the verbose mode suppresses, "other" for the remaining ones.
CodexMethod == {"exec_command_begin", "exec_command_end", "agent_reasoning",
                "item_completed/AgentMessage", "item_completed/Reasoning", "agent_message",
                "item/completed", "thread/started", "turn/started", "delta", "other"}

MapAppServerNotification(method, text) ==
    CASE method = "exec_command_begin" -> Event("tool_started", method, Message("tool start", text))
      [] method = "exec_command_end" -> Event("tool_finished", method, Message("tool end", text))
      [] method = "agent_reasoning" -> Event("reasoning", method, IfSaid("reasoning", text))
      [] method \in {"item_completed/AgentMessage", "agent_message", "item/completed"} ->
            Event("assistant_message", method, IfSaid("assistant", text))
      [] method = "item_completed/Reasoning" ->
            Event("reasoning", method,
                  Message("reasoning", IF text = NoText THEN "<empty>" ELSE text))
      [] method = "requestApproval" -> Event("native", method, Message("approval", text))
      [] method = "thread/started" ->
            Event("conversation_started", method, Message("conversation started", text))
      [] method = "turn/started" ->
            Event("invocation_started", method, Message("invocation started", text))
      [] method = "turn/completed" ->
            Event("invocation_finished", method, Message("invocation finished", text))
      [] OTHER -> Event("native", method, NoMessage)

ClaudeType == {"assistant", "tool_progress", "tool_use_summary", "system/init",
               "system/task_started", "system/task_notification", "system/task_progress",
               "system/status", "other"}

MapClaudeMessage(type, text) ==
    CASE type = "assistant" -> Event("assistant_message", type, IfSaid("assistant", text))
      [] type \in {"tool_use_summary", "system/task_notification"} ->
            Event("tool_finished", type, Message("tool end", text))
      [] type = "system/init" ->
            Event("conversation_started", type, Message("conversation started", text))
      [] type = "system/task_started" ->
            Event("invocation_started", type, Message("invocation started", text))
      [] type = "system/task_progress" -> Event("native", type, Message("tool progress", text))
      [] type = "result" ->
            Event("invocation_finished", type, Message("invocation finished", text))
      [] OTHER -> Event("native", type, NoMessage)

CodexEvents == {MapAppServerNotification(method, text) :
                    method \in CodexMethod, text \in Texts \cup {NoText}}
ClaudeEvents == {MapClaudeMessage(type, text) : type \in ClaudeType, text \in Texts \cup {NoText}}

--------------------------------------------------------------------------------
(* The lines of `up' and the files they are appended to.                       *)

\* In the verbose mode some native events are only counted.
ShouldSuppress(event) ==
    event.kind = "native" /\ event.type \in {"delta", "system/task_progress", "system/status"}

HasColonMessage(message) ==
    /\ message.text # NoText
    /\ message.head \in {"tool start", "tool end", "tool progress", "reasoning", "assistant",
                         "conversation started", "invocation started", "invocation finished"}

\* In the default mode only messages that begin as the listed ones do are shown.
IsAllowedConsoleMessage(message) ==
    \/ message.head = "invocation finished"
    \/ /\ message.text # NoText
       /\ message.head \in {"tool start", "tool end", "tool progress", "reasoning", "assistant",
                            "conversation started", "invocation started"}

\* The verbose mode shows a summary: the message, or else what kind of event it is.
BuildSummary(event) ==
    CASE event.message # NoMessage -> event.message.head
      [] event.message = NoMessage /\ event.kind = "native" -> event.type
      [] OTHER -> event.kind

\* What an event comes to.  The mode, fixed for an `up', and what the agent said last, which an
\* assistant message of the default mode must differ from, are left open.
LineOf(mode, event) ==
    CASE mode = "jsonl" /\ ~ShouldSuppress(event) -> BuildSummary(event)
      [] mode = "human" /\ IsAllowedConsoleMessage(event.message) -> event.message.head
      [] OTHER -> "nothing"
LinesOf(event) ==
    {LineOf(mode, event) : mode \in LogMode} \cup
    (IF event.kind = "assistant_message" THEN {"nothing"} ELSE {})

CodexLines == UNION {LinesOf(event) : event \in CodexEvents}
ClaudeLines == UNION {LinesOf(event) : event \in ClaudeEvents}

\* A line with a text has a line in the file.
IsPersisted(line) == line # "nothing"

\* A shown line goes to the end of its agent's chain, unless it is one that is not followed.
EmitLog(a, line) ==
    \/ /\ IsPersisted(line)
       /\ \A b \in Agents \ {a} : shown[a] + shown[b] < MaxQueued
       /\ shown' = [shown EXCEPT ![a] = @ + 1]
       /\ queue' = [queue EXCEPT ![a] = Append(@, shown'[a])]
       /\ UNCHANGED <<log, failed>>
    \/ UNCHANGED fileVars

OnRuntimeEvent(a, event) == \E line \in LinesOf(event) : EmitLog(a, line)

\* Once a chain is empty and has lost nothing but its failures its lines are forgotten.
Settled(a, written, failures, rest) ==
    IF rest = <<>> /\ \A n \in 1 .. shown[a] : n \in failures \/ \E i \in DOMAIN written : written[i] = n
    THEN /\ shown' = [shown EXCEPT ![a] = 0]
         /\ log' = [log EXCEPT ![a] = <<>>]
         /\ failed' = [failed EXCEPT ![a] = {}]
         /\ queue' = [queue EXCEPT ![a] = <<>>]
    ELSE /\ UNCHANGED shown
         /\ log' = [log EXCEPT ![a] = written]
         /\ failed' = [failed EXCEPT ![a] = failures]
         /\ queue' = [queue EXCEPT ![a] = rest]

\* The first link of a file's chain.
AppendLine(a) ==
    /\ queue[a] # <<>>
    /\ Settled(a, Append(log[a], Head(queue[a])), failed[a], Tail(queue[a]))
    /\ UNCHANGED <<vars, blocks, told>>

ChainRejected(a) ==
    /\ queue[a] # <<>>
    /\ Settled(a, log[a], failed[a] \cup {Head(queue[a])}, <<>>)
    /\ UNCHANGED <<vars, blocks, told>>

\* The rejection of one append is caught before the next one.
AppendFails(a) ==
    /\ queue[a] # <<>>
    /\ Settled(a, log[a], failed[a] \cup {Head(queue[a])}, Tail(queue[a]))
    /\ UNCHANGED <<vars, blocks, told>>

--------------------------------------------------------------------------------
(* The agents report.                                                          *)

\* A notification that is not the end of a turn.
CodexNotifies(a) ==
    /\ a \in connected
    /\ \E line \in CodexLines : EmitLog(a, line)
    /\ UNCHANGED <<vars, blocks, told>>

\* The end of a turn and a declined request are reported in the step that reads them.
ReadAndReport(a) ==
    /\ ReadLine(a)
    /\ LET line == Head(lines[a]) IN
       \/ /\ line.kind = "completed"
          /\ \E end \in LinesOf(MapAppServerNotification("turn/completed", NoText)) :
                 /\ EmitLog(a, end)
                 /\ told' = IF ~IsPersisted(end) THEN told ELSE [told EXCEPT ![a] = @ \cup {line.id}]
       \/ /\ line.kind = "ask"
          /\ OnRuntimeEvent(a, MapAppServerNotification("requestApproval", NoText))
          /\ UNCHANGED told
       \/ /\ line.kind = "response"
          /\ UNCHANGED <<fileVars, told>>
    /\ UNCHANGED blocks

ClaudeMessage(a) ==
    /\ a \in query
    /\ \E line \in ClaudeLines : EmitLog(a, line)
    /\ UNCHANGED <<vars, blocks, told>>

SetBlock(a, i, block) == blocks' = [blocks EXCEPT ![a][i] = block]

\* Text blocks are not kept.
BlockStarts(a, i) ==
    /\ a \in query
    /\ \E block \in Block \ {"none"} : SetBlock(a, i, block)
    /\ UNCHANGED <<vars, told, fileVars>>

\* Deltas of a kind the block does not take are dropped.
BlockDelta(a, i) ==
    /\ a \in query /\ blocks[a][i] = "thinking"
    /\ SetBlock(a, i, "thought")
    /\ UNCHANGED <<vars, told, fileVars>>

\* Thoughts and tool calls are reported when their block stops.
StoppedEvent(block, text) ==
    CASE block = "thought" -> Event("reasoning", "stream_event", Message("reasoning", text))
      [] block = "tool_use" -> Event("tool_started", "stream_event", Message("tool start", text))

BlockStops(a, i) ==
    /\ a \in query
    /\ IF blocks[a][i] \in {"thought", "tool_use"}
       THEN \E text \in Texts : OnRuntimeEvent(a, StoppedEvent(blocks[a][i], text))
       ELSE UNCHANGED fileVars
    /\ SetBlock(a, i, "none")
    /\ UNCHANGED <<vars, told>>

\* The query is over with its result, without one, or by an exception; its blocks go with it.
EndAndReport(a) ==
    /\ QueryEnds(a)
    /\ blocks' = [blocks EXCEPT ![a] = NoBlocks]
    /\ \/ run'.pc = "save" /\ OnRuntimeEvent(a, MapClaudeMessage("result", NoText))
       \/ UNCHANGED fileVars
    /\ UNCHANGED told

\* Shutting a Claude agent down drops its blocks.
SilentSessionStep ==
    /\ SilentStep
    /\ blocks' = [a \in Claude |-> IF a \in query' THEN blocks[a] ELSE NoBlocks]
    /\ UNCHANGED <<told, fileVars>>

OutputNext ==
    /\ Running
    /\ \/ SilentSessionStep
       \/ \E a \in Codex : CodexNotifies(a) \/ ReadAndReport(a)
       \/ \E a \in Claude : ClaudeMessage(a) \/ EndAndReport(a)
       \/ \E a \in Claude, i \in Blocks : BlockStarts(a, i) \/ BlockDelta(a, i) \/ BlockStops(a, i)
       \/ \E a \in Agents : AppendLine(a) \/ AppendFails(a)

OutputSpec == OutputInit /\ [][OutputNext]_allVars /\ Fairness

--------------------------------------------------------------------------------
(* Properties *)

\* An agent's file holds its lines in the order they were shown, and up to its last one it lacks
\* only those whose own append failed: one failure takes no other line with it, and what the end
\* of the process cuts off is the tail (enqueueFleetAgentLogWrite).
OutputLogged ==
    \A a \in Agents :
        LET written == log[a] \o queue[a] IN
        /\ \A i, j \in DOMAIN written : i < j => written[i] < written[j]
        /\ \A n \in 1 .. shown[a] : n \in failed[a] \/ \E i \in DOMAIN written : written[i] = n

\* A dispatch to a codex agent that goes on because its named turn ended has shown the operator that
\* end, in either mode (mapAppServerNotificationToRuntimeEvent, isAllowedConsoleMessage,
\* shouldSuppressAgentRuntimeEvent).  A turn the server gave no name is left out, and so is a Claude
\* query, which may end without a result and count as a success with nothing shown.
EndsShown ==
    run.agent \in Codex /\ run.pc \in {"save", "after"} /\ run.turn # Nameless =>
        run.turn \in told[run.agent]
================================================================================
