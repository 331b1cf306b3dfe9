-------------------------------- MODULE Documents --------------------------------
(***************************************************************************)
(* The shared documents: editors save a file through the server, agents    *)
(* write it behind the server's back, and watchers are told of changes by  *)
(* the writes and by a poll of their own.  A read of the directory, a read *)
(* of a file, a rename and the answer to each are steps of their own, and  *)
(* all requests share one process.                                         *)
(*                                                                         *)
(* A version is a hash of the text.  Here every write makes a new one.     *)
(***************************************************************************)
EXTENDS Naturals, FiniteSets

CONSTANTS
    Docs,      \* paths below the documents directory
    Existing,  \* the documents there are at the start
    Editors,   \* clients that save documents, one request at a time
    Anonymous, \* the editors that name no actor
    Watchers,  \* the connections to the watch route looked at
    MaxNews,   \* bound: changes published by polls of other connections
    MaxPolls,  \* bound: polls of one connection under way at the same time
    MaxWrites  \* bound: versions ever written

ASSUME DocumentBounds == {MaxPolls, MaxWrites, MaxNews} \subseteq Nat /\ Anonymous \subseteq Editors /\ Existing \subseteq Docs

VARIABLES
    file,    \* file[d]: the version on disk, 0 when there is no such file
    written, \* the number of versions written
    actor,   \* actorByPath
    put,     \* put[e]: the editor's request
    watch,   \* watch[w]: the connection and its previousIndex
    tree,    \* tree[w]: the walk of its snapshot's listTree
    scan,    \* scan[w][i]: a walk of listIndex, the snapshot's (0) or a poll's
    told,    \* told[w][d]: what the stream has told the client
    others,  \* changes other connections may still publish
    gap      \* gap[w]: the documents whose last news, not from the connection itself, was wrong

vars == <<file, written, actor, put, watch, tree, scan, told, others, gap>>

Absent == 0
Listed == MaxWrites + 1               \* in the tree the client got, and not yet opened
Nobody == "nobody"
Snapshot == 0
Slots == 0 .. MaxPolls
Versions == 0 .. MaxWrites
Index == [Docs -> Versions]
Nothing == [d \in Docs |-> Absent]

Request == [phase : {"idle", "checked", "renamed", "named", "read"}, doc : Docs, reply : Versions]
NoRequest == [phase |-> "idle", doc |-> CHOOSE d \in Docs : TRUE, reply |-> Absent]
Phases == {"idle", "begun", "walking", "done"}
Walk == [phase : Phases, left : SUBSET Docs, index : Index]
NoWalk == [phase |-> "idle", left |-> {}, index |-> Nothing]
NoTree == [phase |-> "idle", names |-> {}]

TypeOK ==
    /\ file \in Index /\ written \in Versions
    /\ actor \in [Docs -> Editors \cup {Nobody}]
    /\ put \in [Editors -> Request]
    /\ watch \in [Watchers -> [state : {"none", "open", "closed"}, known : BOOLEAN, index : Index]]
    /\ tree \in [Watchers -> [phase : Phases, names : SUBSET Docs]]
    /\ scan \in [Watchers -> [Slots -> Walk]]
    /\ told \in [Watchers -> [Docs -> 0 .. Listed]] /\ others \in 0 .. MaxNews /\ gap \in [Watchers -> SUBSET Docs]
    /\ \A w \in Watchers : watch[w].state = "none" => ~watch[w].known /\ scan[w] = [i \in Slots |-> NoWalk]
    /\ \A d \in Docs : actor[d] \notin Anonymous
    /\ \A w \in Watchers, d \in Docs : told[w][d] = Listed => watch[w].known

Init ==
    /\ file = [d \in Docs |-> IF d \in Existing THEN 1 ELSE Absent] /\ written = 1
    /\ actor = [d \in Docs |-> Nobody]
    /\ put = [e \in Editors |-> NoRequest]
    /\ watch = [w \in Watchers |-> [state |-> "none", known |-> FALSE, index |-> Nothing]]
    /\ tree = [w \in Watchers |-> NoTree]
    /\ scan = [w \in Watchers |-> [i \in Slots |-> NoWalk]]
    /\ told = [w \in Watchers |-> Nothing]
    /\ others = MaxNews
    /\ gap = [w \in Watchers |-> {}]

disk == <<file, written>>
edits == <<actor, put>>
walks == <<watch, tree, scan>>
news == <<told, others, gap>>

--------------------------------------------------------------------------------
(* The files.                                                                  *)

Write(d) ==
    /\ written < MaxWrites
    /\ written' = written + 1 /\ file' = [file EXCEPT ![d] = written']

\* An agent writes a document.
EditOutside(d) ==
    /\ Write(d)
    /\ UNCHANGED <<edits, walks, news>>

\* An agent removes one.  A connection whose polls have not seen it yet will not see it go.
RemoveOutside(d) ==
    /\ file[d] # Absent
    /\ file' = [file EXCEPT ![d] = Absent]
    /\ gap' = [w \in Watchers |->
                  IF watch[w].state = "open" /\ watch[w].index[d] = Absent THEN gap[w] \cup {d} ELSE gap[w]]
    /\ UNCHANGED <<written, edits, walks, told, others>>

--------------------------------------------------------------------------------
(* The bus.  A document's news reaches every open connection.                  *)

\* A version that is not the one on disk leaves a gap with whoever did not find it itself.
Gaps(source, changes, index) ==
    [w \in Watchers |->
        IF watch[w].state # "open" THEN {}
        ELSE (gap[w] \ {d \in changes : index[d] = file[d]})
             \cup {d \in changes : index[d] # file[d] /\ w \notin source}]

Publish(source, changes, index) ==
    /\ told' = [w \in Watchers |->
                   IF watch[w].state = "open" THEN [d \in Docs |-> IF d \in changes THEN index[d] ELSE told[w][d]]
                   ELSE told[w]]
    /\ gap' = Gaps(source, changes, index)

\* A poll of some other connection, which may be late and whose connection may have ended.
OtherPoll(d, version) ==
    /\ others > 0 /\ others' = others - 1
    /\ Publish({}, {d}, [Nothing EXCEPT ![d] = version])
    /\ UNCHANGED <<disk, edits, walks>>

--------------------------------------------------------------------------------
(* Saving a document.                                                          *)

\* writeFile reads the version on disk; without a conflict the rename comes later.
ConflictFree(base, current) == base = Absent \/ base = current

Save(e, d, base) ==
    /\ put[e].phase = "idle"
    /\ ConflictFree(base, file[d])
    /\ put' = [put EXCEPT ![e].phase = "checked", ![e].doc = d]
    /\ UNCHANGED <<disk, actor, walks, news>>

Rename(e) ==
    /\ put[e].phase = "checked"
    /\ Write(put[e].doc)
    /\ put' = [put EXCEPT ![e].phase = "renamed"]
    /\ UNCHANGED <<actor, walks, news>>

NameActor(e) ==
    /\ put[e].phase = "renamed"
    /\ put' = [put EXCEPT ![e].phase = "named"]
    /\ actor' = [actor EXCEPT ![put[e].doc] = IF e \in Anonymous THEN Nobody ELSE e]
    /\ UNCHANGED <<disk, walks, news>>

\* The reply holds whatever is on disk by now.
ReadBack(e) ==
    /\ put[e].phase = "named"
    /\ put' = [put EXCEPT ![e].phase = "read", ![e].reply = file[put[e].doc]]
    /\ UNCHANGED <<disk, actor, walks, news>>

\* A file that is gone by then makes the answer an error, and nobody is told.
Reply(e) ==
    /\ put[e].phase = "read"
    /\ put' = [put EXCEPT ![e] = NoRequest]
    /\ LET d == put[e].doc
       IN IF put[e].reply = Absent THEN UNCHANGED news
          ELSE Publish({}, {d}, [Nothing EXCEPT ![d] = put[e].reply]) /\ UNCHANGED others
    /\ UNCHANGED <<disk, actor, walks>>

--------------------------------------------------------------------------------
(* Walking the directory: its names are read first, each file afterwards.  A   *)
(* file that is gone by then fails the walk.                                   *)

Present == {d \in Docs : file[d] # Absent}

ListTree(w) ==
    /\ tree[w].phase = "begun"
    /\ tree' = [tree EXCEPT ![w] = [phase |-> "walking", names |-> Present]]
    /\ UNCHANGED <<disk, edits, watch, scan, news>>

\* A poll's first step is taken when its timer fires, whether or not the one before has ended.
ListIndex(w, i) ==
    /\ IF i = Snapshot THEN scan[w][i].phase = "begun"
       ELSE /\ watch[w].state = "open" /\ scan[w][i].phase = "idle"
            /\ \A j \in 1 .. (i - 1) : scan[w][j].phase # "idle"
    /\ scan' = [scan EXCEPT ![w][i] =
                   [NoWalk EXCEPT !.phase = IF Present = {} THEN "done" ELSE "walking", !.left = Present]]
    /\ UNCHANGED <<disk, edits, watch, tree, news>>

WalkFile(w, i) ==
    \E d \in scan[w][i].left :
        /\ file[d] # Absent
        /\ scan' = [scan EXCEPT ![w][i] = [phase |-> IF @.left = {d} THEN "done" ELSE "walking",
                                          left |-> @.left \ {d}, index |-> [@.index EXCEPT ![d] = file[d]]]]
        /\ UNCHANGED <<disk, edits, watch, tree, news>>

BuildTreeNodes(w) ==
    /\ tree[w].phase = "walking" /\ tree[w].names \subseteq Present
    /\ tree' = [tree EXCEPT ![w].phase = "done"]
    /\ UNCHANGED <<disk, edits, watch, scan, news>>

--------------------------------------------------------------------------------
(* The watch route.                                                            *)

Connect(w) ==
    /\ watch[w].state = "none"
    /\ watch' = [watch EXCEPT ![w].state = "open"]
    /\ tree' = [tree EXCEPT ![w].phase = "begun"]
    /\ scan' = [scan EXCEPT ![w][Snapshot].phase = "begun"]
    /\ UNCHANGED <<disk, edits, news>>

\* The walks of the connection go on.
Disconnect(w) ==
    /\ watch[w].state = "open"
    /\ watch' = [watch EXCEPT ![w].state = "closed"]
    /\ told' = [told EXCEPT ![w] = Nothing] /\ gap' = [gap EXCEPT ![w] = {}]
    /\ UNCHANGED <<disk, edits, tree, scan, others>>

EndSnapshot(w) ==
    /\ tree' = [tree EXCEPT ![w] = NoTree]
    /\ scan' = [scan EXCEPT ![w][Snapshot] = NoWalk]
    /\ UNCHANGED <<disk, edits>>

\* The client is to open what is listed.  The two walks are not one: a document in the index alone
\* may never be told of, one in the tree alone may be removed before a poll has seen it.
SendInitialSnapshot(w) ==
    LET names == tree[w].names
        index == scan[w][Snapshot].index
    IN /\ tree[w].phase = "done" /\ scan[w][Snapshot].phase = "done"
       /\ EndSnapshot(w)
       /\ watch' = [watch EXCEPT ![w].known = TRUE, ![w].index = index]
       /\ IF watch[w].state = "open"
          THEN /\ told' = [told EXCEPT ![w] = [d \in Docs |-> IF d \in names THEN Listed ELSE Absent]]
               /\ gap' = [gap EXCEPT ![w] = {d \in Docs : d \in names <=> index[d] = Absent}]
               /\ UNCHANGED others
          ELSE UNCHANGED news

\* A file is gone before it is looked at: the stream says that it has no snapshot and goes on.
SnapshotFails(w) ==
    /\ \/ tree[w].phase = "walking" /\ ~(tree[w].names \subseteq Present)
       \/ ~(scan[w][Snapshot].left \subseteq Present)
    /\ EndSnapshot(w)
    /\ gap' = [gap EXCEPT ![w] = IF watch[w].state = "open" THEN Docs ELSE {}]
    /\ UNCHANGED <<watch, told, others>>

OpenListed(w, d) ==
    /\ told[w][d] = Listed
    /\ told' = [told EXCEPT ![w][d] = file[d]]
    /\ UNCHANGED <<disk, edits, walks, others, gap>>

NeverGone(before, index) == {d \in Docs : index[d] # Absent /\ before[d] # index[d]}

ChangedIn(before, index) == {d \in Docs : before[d] # index[d]}

\* publishIndexDiff; the first index of a connection that has none yet is kept and not published.
PollDone(w, i) ==
    LET index == scan[w][i].index
    IN /\ i # Snapshot /\ scan[w][i].phase = "done"
       /\ scan' = [scan EXCEPT ![w][i] = NoWalk]
       /\ watch' = [watch EXCEPT ![w].known = TRUE, ![w].index = index]
       /\ IF watch[w].known THEN Publish({w}, ChangedIn(watch[w].index, index), index)
          ELSE /\ gap' = [gap EXCEPT ![w] = IF watch[w].state = "open" THEN @ \cup ChangedIn(told[w], index) ELSE @]
               /\ UNCHANGED told
       /\ UNCHANGED others
       /\ UNCHANGED <<disk, edits, tree>>

PollFails(w, i) ==
    /\ i # Snapshot /\ ~(scan[w][i].left \subseteq Present)
    /\ scan' = [scan EXCEPT ![w][i] = NoWalk]
    /\ UNCHANGED <<disk, edits, watch, tree, news>>

--------------------------------------------------------------------------------
Next ==
    \/ \E d \in Docs : EditOutside(d) \/ RemoveOutside(d) \/ \E version \in 0 .. written : OtherPoll(d, version)
    \/ \E e \in Editors :
          \/ \E d \in Docs, base \in 0 .. written : Save(e, d, base)
          \/ Rename(e) \/ NameActor(e) \/ ReadBack(e) \/ Reply(e)
    \/ \E w \in Watchers :
          \/ Connect(w) \/ Disconnect(w) \/ ListTree(w) \/ BuildTreeNodes(w)
          \/ SendInitialSnapshot(w) \/ SnapshotFails(w)
          \/ \E d \in Docs : OpenListed(w, d)
          \/ \E i \in Slots : ListIndex(w, i) \/ WalkFile(w, i) \/ PollDone(w, i) \/ PollFails(w, i)

Spec == Init /\ [][Next]_vars

\* The timer keeps starting polls, which go on to their end, and the client opens what it is shown.
\* Nothing is asked of the editors and of the snapshot: they may stay where they are.
Fairness ==
    \A w \in Watchers :
        /\ \A d \in Docs : WF_vars(OpenListed(w, d))
        /\ \A i \in Slots \ {Snapshot} :
              WF_vars(ListIndex(w, i) \/ WalkFile(w, i) \/ PollDone(w, i) \/ PollFails(w, i))

FairSpec == Spec /\ Fairness

--------------------------------------------------------------------------------
\* Once the files rest, what an open connection has been told is what they hold: no order of saves,
\* polls that overlap and snapshots leaves it with an old version, except the ones gap names.
WatchCatchesUp ==
    \A w \in Watchers : <>[](watch[w].state = "open" => \A d \in Docs \ gap[w] : told[w][d] = file[d])

================================================================================
