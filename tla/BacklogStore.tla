------------------------------ MODULE BacklogStore ------------------------------
(***************************************************************************)
(* The backlog directory as its processes share it: items.json, which      *)
(* every operation of BacklogService reads whole, changes in memory and    *)
(* renames into place, and change-logs.jsonl, to which it appends an entry *)
(* afterwards.  Nothing locks either file: the manager, the poller, the    *)
(* agents' command lines and the API server interleave, and any of them    *)
(* may end between two of its steps.  The guard compares the two files'    *)
(* modification times; the model takes them to grow with every write.      *)
(*                                                                         *)
(* An operation is the set of contents a successful call may leave, given  *)
(* the contents it read: empty where every call is refused.                *)
(***************************************************************************)
EXTENDS FleetEvents, Sequences, FiniteSets

CONSTANTS
    Processes,       \* the processes that use the backlog
    EpicTargets,     \* epic statuses a caller asks for
    ItemTargets,     \* item statuses a caller asks for
    Forced,          \* values of the force options
    Reopened,        \* values of the reopen options
    StartBacklogs,   \* contents items.json may have been left with by earlier processes
    MaxChanges,      \* bound: changing operations
    MaxCrashes       \* bound: processes that end within an operation, and reads that fail

ItemStatus == {"todo", "wait-implementation", "in-progress", "done", "blocked"}
QuestionStatus == {"open", "answered"}

ASSUME TargetsAssumption == EpicTargets \subseteq EpicStatus /\ ItemTargets \subseteq ItemStatus
ASSUME OptionsAssumption == Forced \subseteq BOOLEAN /\ Reopened \subseteq BOOLEAN
ASSUME LimitsAssumption == MaxChanges \in Nat /\ MaxCrashes \in Nat

VARIABLES
    exists,      \* items.json is there
    backlog,     \* its contents
    log,         \* change-logs.jsonl: the entries, each with the change it reports
    itemsNewer,  \* items.json was modified after change-logs.jsonl, or there is no log
    pc,          \* where each process stands in its operation
    work,        \* what it holds in memory: the contents to save, its change, its entry id
    changes,     \* changes begun
    crashes      \* crashes and failed reads so far

vars == <<exists, backlog, log, itemsNewer, pc, work, changes, crashes>>

History(S) == Seq([from : S, to : S])
EpicRecord == [id : Nat, status : EpicStatus, history : History(EpicStatus), dependsOn : SUBSET Nat]
ItemRecord == [id : Nat, epicId : Nat, status : ItemStatus, history : History(ItemStatus)]
QuestionRecord == [id : Nat, status : QuestionStatus, answered : BOOLEAN]
Backlog == [epics : SUBSET EpicRecord, items : SUBSET ItemRecord, questions : SUBSET QuestionRecord]

EmptyBacklog == [epics |-> {}, items |-> {}, questions |-> {}]
NoWork == [items |-> EmptyBacklog, change |-> 0, id |-> 0]
Work == [items : Backlog, change : Nat, id : Nat]
Entry == [id : Nat, change : Nat]
Step == {"idle", "cleared", "initializing", "saving", "numbering", "appending"}

TypeOK ==
    /\ exists \in BOOLEAN /\ itemsNewer \in BOOLEAN
    /\ backlog \in Backlog
    /\ log \in Seq(Entry)
    /\ pc \in [Processes -> Step]
    /\ work \in [Processes -> Work]
    /\ changes \in Nat /\ crashes \in Nat

(* What makes the contents of items.json sound. *)

ItemsBelong(b) == \A i \in b.items : \E e \in b.epics : e.id = i.epicId

IdsUnique(b) == \A S \in {b.epics, b.items, b.questions} : \A x, y \in S : x.id = y.id => x = y

Chained(x) ==
    /\ x.history # <<>>
    /\ x.history[Len(x.history)].to = x.status
    /\ \A n \in 2..Len(x.history) : x.history[n].from = x.history[n - 1].to

HistoriesChain(b) == \A x \in b.epics \cup b.items : Chained(x)

ASSUME StartAssumption ==
    \A b \in StartBacklogs : b \in Backlog /\ ItemsBelong(b) /\ IdsUnique(b) /\ HistoriesChain(b)

--------------------------------------------------------------------------------
(* The operations on the contents. *)

CountedId(S) == {Cardinality(S) + 1}

\* nextEpicId, nextItemId, nextQuestionId: one more than the largest id in use.
NextId(S) == {n + 1 : n \in {m \in {0} \cup {x.id : x \in S} : \A x \in S : x.id <= m}}

ItemTransition ==
    [from \in ItemStatus |->
        CASE from = "todo"                -> {"wait-implementation", "in-progress", "blocked"}
          [] from = "wait-implementation" -> {"in-progress", "blocked"}
          [] from = "in-progress"         -> {"done", "blocked"}
          [] from = "done"                -> {}
          [] from = "blocked"             -> {"todo", "wait-implementation", "in-progress"}]

Reopens(from, to, reopen) == reopen /\ from = "done" /\ to = "in-progress"
UntypedSeed(s) == <<[from |-> "none", to |-> s]>>
Seed(s) == <<[from |-> s, to |-> s]>>

SilentStatus(x, to) == [x EXCEPT !.status = to]

\* The status with its entry in the history, unless it stays as it is.
WithStatus(x, to) ==
    IF x.status = to THEN x
    ELSE [x EXCEPT !.status = to, !.history = Append(@, [from |-> x.status, to |-> to])]

Replace(S, x, y) == (S \ {x}) \cup {y}
StatusOf(b, id) == {e.status : e \in {x \in b.epics : x.id = id}}
IsVisible(b, e) == \A d \in e.dependsOn : StatusOf(b, d) = {"done"}

AddEpic(b) ==
    {[b EXCEPT !.epics = @ \cup {[id |-> n, status |-> s, history |-> Seed(s), dependsOn |-> d]}] :
        n \in NextId(b.epics), s \in EpicTargets, d \in {{}} \cup {{e.id} : e \in b.epics}}

\* The statuses updateEpic accepts for e among those a caller asks for.
AcceptedEpicStatus(e) ==
    {s \in EpicTargets : \/ TRUE \in Forced
                         \/ ValidTransition(e.status, s)
                         \/ \E reopen \in Reopened : Reopens(e.status, s, reopen)}

UpdateEpic(b) ==
    UNION {{[b EXCEPT !.epics = Replace(@, e, WithStatus(e, s))] : s \in AcceptedEpicStatus(e)} : e \in b.epics}

LinkedItems(b, e) == {i \in b.items : i.epicId = e.id}

DeleteAnyEpic(b) ==
    {[b EXCEPT !.epics = @ \ {e}, !.items = IF force THEN @ \ LinkedItems(b, e) ELSE @] :
        e \in b.epics, force \in Forced}

\* Without force an epic with items is not deleted; with force its items go too.
DeleteEpic(b) ==
    UNION {{[b EXCEPT !.epics = @ \ {e}, !.items = IF force THEN @ \ LinkedItems(b, e) ELSE @] :
              e \in {x \in b.epics : force \/ LinkedItems(b, x) = {}}} : force \in Forced}

AddItem(b) ==
    {[b EXCEPT !.items = @ \cup {[id |-> n, epicId |-> e.id, status |-> s, history |-> Seed(s)]}] :
        n \in NextId(b.items), e \in b.epics, s \in ItemTargets}

AcceptedItemStatus(i) ==
    {s \in ItemTargets : \/ s = i.status \/ s \in ItemTransition[i.status]
                         \/ \E reopen \in Reopened : Reopens(i.status, s, reopen)}

UpdateItem(b) ==
    UNION {{[b EXCEPT !.items = Replace(@, i, WithStatus(i, s))] : s \in AcceptedItemStatus(i)} : i \in b.items}

DeleteItem(b) == {[b EXCEPT !.items = @ \ {i}] : i \in b.items}

AddQuestion(b) ==
    {[b EXCEPT !.questions = @ \cup {[id |-> n, status |-> "open", answered |-> FALSE]}] :
        n \in NextId(b.questions)}

\* Opening a question again forgets its answer.
WithQuestionStatus(q, s) == [q EXCEPT !.status = s, !.answered = @ /\ s # "open"]

UpdateQuestion(b) ==
    {[b EXCEPT !.questions = Replace(@, q, WithQuestionStatus(q, s))] : q \in b.questions, s \in QuestionStatus}

AnswerQuestion(b) ==
    {[b EXCEPT !.questions = Replace(@, q, [q EXCEPT !.status = "answered", !.answered = TRUE])] :
        q \in b.questions}

DeleteQuestion(b) == {[b EXCEPT !.questions = @ \ {q}] : q \in b.questions}

\* Nothing is claimed while an epic is implemented or under review.
ClaimEpicForImplementation(b) ==
    {[b EXCEPT !.epics = Replace(@, e, WithStatus(e, "in-progress"))] :
        e \in {x \in b.epics : /\ \A y \in b.epics : y.status \notin ActiveStatus
                               /\ x.status \in ReadyStatus /\ IsVisible(b, x)}}

\* The administrative resets: every status, or those in progress, back to todo.
Rewound(b, S) ==
    {c \in {[b EXCEPT !.epics = {IF e.status \in S THEN WithStatus(e, "todo") ELSE e : e \in @},
                      !.items = {IF i.status \in S THEN WithStatus(i, "todo") ELSE i : i \in @}]} : c # b}
UpdateStatusAllTodo(b)   == Rewound(b, EpicStatus \cup ItemStatus)
ResetInProgressToTodo(b) == Rewound(b, {"in-progress"})

Operations(b) ==
    UNION {AddEpic(b), UpdateEpic(b), DeleteEpic(b), AddItem(b), UpdateItem(b), DeleteItem(b),
           AddQuestion(b), UpdateQuestion(b), AnswerQuestion(b), DeleteQuestion(b),
           ClaimEpicForImplementation(b), UpdateStatusAllTodo(b), ResetInProgressToTodo(b)}

--------------------------------------------------------------------------------
(* The steps of a process. *)

\* A fleet that has just been initialised, or one whose backlog was written before.
Init ==
    /\ exists \in BOOLEAN
    /\ IF exists THEN backlog \in StartBacklogs ELSE backlog = EmptyBacklog
    /\ log = <<>>
    /\ itemsNewer = ~exists
    /\ pc = [p \in Processes |-> "idle"]
    /\ work = [p \in Processes |-> NoWork]
    /\ changes = 0 /\ crashes = 0

Goto(p, step) == pc' = [pc EXCEPT ![p] = step]

\* The operation read b and has changed it in memory.
Change(p, b) ==
    /\ changes < MaxChanges
    /\ \E c \in Operations(b) : work' = [work EXCEPT ![p] = [items |-> c, change |-> changes + 1, id |-> 0]]
    /\ changes' = changes + 1
    /\ Goto(p, "saving")

\* getOrInitializeItems, when the file is there.
ReadItems(p) ==
    /\ pc[p] = "idle" /\ exists
    /\ Change(p, backlog)
    /\ UNCHANGED <<exists, backlog, log, itemsNewer, crashes>>

FindNoItems(p) ==
    /\ pc[p] \in {"idle", "cleared"} /\ ~exists
    /\ Goto(p, "initializing")
    /\ UNCHANGED <<exists, backlog, log, itemsNewer, work, changes, crashes>>

\* A read that fails for any reason is taken for a missing file (JsonRepository.get).
FailToRead(p) ==
    /\ pc[p] \in {"idle", "cleared"} /\ exists
    /\ crashes < MaxCrashes /\ crashes' = crashes + 1
    /\ Goto(p, "initializing")
    /\ UNCHANGED <<exists, backlog, log, itemsNewer, work, changes>>

\* An empty file is saved over whatever is there by now; no entry is logged for it.  The
\* operation then goes on, unless it only reads or is refused.
InitializeItems(p) ==
    /\ pc[p] = "initializing"
    /\ exists' = TRUE /\ backlog' = EmptyBacklog /\ itemsNewer' = TRUE
    /\ \/ Change(p, EmptyBacklog)
       \/ Goto(p, "idle") /\ UNCHANGED <<work, changes>>
    /\ UNCHANGED <<log, crashes>>

\* persistWithChangeLog: items.json first.
SaveItems(p) ==
    /\ pc[p] = "saving"
    /\ exists' = TRUE /\ backlog' = work[p].items /\ itemsNewer' = TRUE
    /\ Goto(p, "numbering")
    /\ UNCHANGED <<log, work, changes, crashes>>

\* nextChangeLogId: one more than the largest id of today's entries.
NextChangeLogId(p) ==
    /\ pc[p] = "numbering"
    /\ \E n \in NextId({log[i] : i \in DOMAIN log}) : work' = [work EXCEPT ![p].id = n]
    /\ Goto(p, "appending")
    /\ UNCHANGED <<exists, backlog, log, itemsNewer, changes, crashes>>

SkipChangeLog(p) ==
    /\ pc[p] = "appending"
    /\ Goto(p, "idle")
    /\ work' = [work EXCEPT ![p] = NoWork]
    /\ UNCHANGED <<exists, backlog, log, itemsNewer, changes, crashes>>

AppendChangeLog(p) ==
    /\ pc[p] = "appending"
    /\ log' = Append(log, [id |-> work[p].id, change |-> work[p].change])
    /\ itemsNewer' = FALSE
    /\ Goto(p, "idle")
    /\ work' = [work EXCEPT ![p] = NoWork]
    /\ UNCHANGED <<exists, backlog, changes, crashes>>

\* list with status wait-implementation: the guard, then a read of its own.
PassGuard(p) ==
    /\ pc[p] = "idle" /\ (exists => ~itemsNewer)
    /\ Goto(p, "cleared")
    /\ UNCHANGED <<exists, backlog, log, itemsNewer, work, changes, crashes>>

ListItems(p) ==
    /\ pc[p] = "cleared" /\ exists
    /\ Goto(p, "idle")
    /\ UNCHANGED <<exists, backlog, log, itemsNewer, work, changes, crashes>>

\* The process ends within its operation; another one takes its place.
Crash(p) ==
    /\ pc[p] # "idle" /\ crashes < MaxCrashes
    /\ crashes' = crashes + 1
    /\ Goto(p, "idle")
    /\ work' = [work EXCEPT ![p] = NoWork]
    /\ UNCHANGED <<exists, backlog, log, itemsNewer, changes>>

Write(p) == \/ FindNoItems(p) \/ InitializeItems(p) \/ SaveItems(p) \/ NextChangeLogId(p) \/ AppendChangeLog(p)
List(p)  == PassGuard(p) \/ ListItems(p)

Next == \E p \in Processes : ReadItems(p) \/ FailToRead(p) \/ Write(p) \/ List(p) \/ Crash(p)

Spec == Init /\ [][Next]_vars

\* What a process has begun it goes on with, and a refused list is tried again; nobody has to
\* begin another change.
FairSpec == Spec /\ \A p \in Processes : WF_vars(Write(p)) /\ WF_vars(List(p))

--------------------------------------------------------------------------------
(* What must hold. *)

\* Every item belongs to an epic of the same file, although one process may delete the epic
\* while another adds the item: whole files replace each other (deleteEpic, addItem).
NoDanglingItem == ItemsBelong(backlog)

\* Ids are unique among the epics, the items and the questions, although they are computed
\* from a copy of the file and deleted ones leave gaps (nextEpicId and its like).
UniqueIds == IdsUnique(backlog)

\* The status history explains the status: each change begins where the last one ended, and
\* it ends at the current status, forced changes and resets included (recordStatusChange).
HistoryChained == HistoriesChain(backlog)

\* "backlog is being updated; retry later": where the backlog was there from the start, no
\* process ends in the middle and no read fails, one that retries a wait-implementation list is
\* served again and again, once the writers pause.
RetryServed ==
    exists /\ [](crashes = 0) => \A p \in Processes : []<>(pc[p] = "cleared")
=================================================================================
