----------------------------- MODULE MCBacklogStore -----------------------------
(* Instances of BacklogStore for TLC. *)
EXTENDS BacklogStore

Todo == <<[from |-> "todo", to |-> "todo"]>>

\* Left by four additions: E-001, E-002, an item of E-002 and a question.
Left ==
    [epics |-> {[id |-> n, status |-> "todo", history |-> Todo, dependsOn |-> {}] : n \in {1, 2}},
     items |-> {[id |-> 1, epicId |-> 2, status |-> "todo", history |-> Todo]},
     questions |-> {[id |-> 1, status |-> "open", answered |-> FALSE]}]

LeftBacklogs == {Left}
=================================================================================
