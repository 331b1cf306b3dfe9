--------------------------- MODULE BacklogStoreProofs ---------------------------
(***************************************************************************)
(* The contents of items.json stay sound, for any processes, statuses and  *)
(* bounds: an operation takes sound contents to sound contents, a process  *)
(* holds only what an operation returned, and files are replaced whole.    *)
(***************************************************************************)
EXTENDS BacklogStore, TLAPS

Sound(b) == b \in Backlog /\ ItemsBelong(b) /\ IdsUnique(b) /\ HistoriesChain(b)

\* The inductive invariant: what is on disk and what every process holds in memory is sound.
SoundInv == TypeOK /\ Sound(backlog) /\ \A p \in Processes : Sound(work[p].items)

--------------------------------------------------------------------------------

\* The id a new record gets is a number no record has.
LEMMA NextIdFresh ==
    ASSUME NEW S, \A x \in S : x.id \in Nat, NEW n \in NextId(S)
    PROVE  n \in Nat /\ \A x \in S : x.id # n
  BY DEF NextId

\* A new history is a chain that ends at the status.
LEMMA SeedChained ==
    ASSUME NEW T, NEW s \in T
    PROVE  /\ Seed(s) \in History(T) /\ Seed(s) # <<>> /\ Seed(s)[Len(Seed(s))].to = s
           /\ \A n \in 2..Len(Seed(s)) : Seed(s)[n].from = Seed(s)[n - 1].to
  BY DEF Seed, History

\* A chain extended from the status it ends at is a chain.
LEMMA AppendChained ==
    ASSUME NEW T, NEW h \in History(T), h # <<>>,
           \A n \in 2..Len(h) : h[n].from = h[n - 1].to,
           NEW last \in [from : T, to : T], last.from = h[Len(h)].to
    PROVE  /\ Append(h, last) \in History(T) /\ Append(h, last) # <<>>
           /\ Append(h, last)[Len(Append(h, last))] = last
           /\ \A n \in 2..Len(Append(h, last)) : Append(h, last)[n].from = Append(h, last)[n - 1].to
  <1> DEFINE g == Append(h, last)
  <1>2. h \in Seq([from : T, to : T])
    BY DEF History
  <1>3. /\ g \in Seq([from : T, to : T]) /\ Len(g) = Len(h) + 1 /\ Len(h) \in Nat
        /\ g[Len(g)] = last /\ \A n \in 1..Len(h) : g[n] = h[n]
    BY <1>2
  <1>4. Len(h) >= 1
    BY <1>2
  <1> HIDE DEF g
  <1>5. ASSUME NEW n \in 2..Len(g) PROVE g[n].from = g[n - 1].to
    <2>1. CASE n \in 2..Len(h)
      <3>1. n \in 1..Len(h) /\ n - 1 \in 1..Len(h)
        BY <2>1, <1>3
      <3>2. g[n] = h[n] /\ g[n - 1] = h[n - 1]
        BY <3>1, <1>3
      <3> QED BY <2>1, <3>2
    <2>2. CASE n = Len(g)
      <3>1. n - 1 = Len(h) /\ Len(h) \in 1..Len(h)
        BY <2>2, <1>3, <1>4
      <3>2. g[n - 1] = h[Len(h)]
        BY <3>1, <1>3
      <3> QED BY <2>2, <3>2, <1>3
    <2> QED BY <2>1, <2>2, <1>3
  <1>6. g # <<>>
    BY <1>3, <1>4
  <1> QED BY <1>3, <1>5, <1>6 DEF History, g

\* A status change keeps an epic's type, id and chain.
LEMMA EpicWithStatus ==
    ASSUME NEW e \in EpicRecord, Chained(e), NEW s \in EpicStatus
    PROVE  LET x == WithStatus(e, s) IN x \in EpicRecord /\ x.id = e.id /\ Chained(x)
  <1>1. CASE e.status = s
    BY <1>1 DEF WithStatus
  <1>2. CASE e.status # s
    <2> DEFINE g == Append(e.history, [from |-> e.status, to |-> s])
    <2>0. /\ e.history \in History(EpicStatus) /\ e.status \in EpicStatus /\ e.history # <<>>
          /\ e.history[Len(e.history)].to = e.status
          /\ \A n \in 2..Len(e.history) : e.history[n].from = e.history[n - 1].to
      BY DEF EpicRecord, Chained
    <2>1. /\ g \in History(EpicStatus) /\ g # <<>> /\ g[Len(g)].to = s
          /\ \A n \in 2..Len(g) : g[n].from = g[n - 1].to
      <3> DEFINE last == [from |-> e.status, to |-> s]
      <3>1. last \in [from : EpicStatus, to : EpicStatus] /\ last.from = e.status /\ last.to = s
        BY <2>0
      <3> HIDE DEF last
      <3>2. g = Append(e.history, last)
        BY DEF last
      <3> QED BY <2>0, <3>1, <3>2, AppendChained
    <2>2. WithStatus(e, s) = [e EXCEPT !.status = s, !.history = g]
      BY <1>2 DEF WithStatus
    <2> HIDE DEF g
    <2> QED BY <2>1, <2>2 DEF EpicRecord, Chained
  <1> QED BY <1>1, <1>2

\* The same for an item, which also keeps its epic.
LEMMA ItemWithStatus ==
    ASSUME NEW i \in ItemRecord, Chained(i), NEW s \in ItemStatus
    PROVE  LET x == WithStatus(i, s)
           IN  x \in ItemRecord /\ x.id = i.id /\ x.epicId = i.epicId /\ Chained(x)
  <1>1. CASE i.status = s
    BY <1>1 DEF WithStatus
  <1>2. CASE i.status # s
    <2> DEFINE g == Append(i.history, [from |-> i.status, to |-> s])
    <2>0. /\ i.history \in History(ItemStatus) /\ i.status \in ItemStatus /\ i.history # <<>>
          /\ i.history[Len(i.history)].to = i.status
          /\ \A n \in 2..Len(i.history) : i.history[n].from = i.history[n - 1].to
      BY DEF ItemRecord, Chained
    <2>1. /\ g \in History(ItemStatus) /\ g # <<>> /\ g[Len(g)].to = s
          /\ \A n \in 2..Len(g) : g[n].from = g[n - 1].to
      <3> DEFINE last == [from |-> i.status, to |-> s]
      <3>1. last \in [from : ItemStatus, to : ItemStatus] /\ last.from = i.status /\ last.to = s
        BY <2>0
      <3> HIDE DEF last
      <3>2. g = Append(i.history, last)
        BY DEF last
      <3> QED BY <2>0, <3>1, <3>2, AppendChained
    <2>2. WithStatus(i, s) = [i EXCEPT !.status = s, !.history = g]
      BY <1>2 DEF WithStatus
    <2> HIDE DEF g
    <2> QED BY <2>1, <2>2 DEF ItemRecord, Chained
  <1> QED BY <1>1, <1>2

--------------------------------------------------------------------------------
(* Every operation takes sound contents to sound contents. *)

\* An epic may be replaced by one with its id and a chained history.
LEMMA ReplaceEpic ==
    ASSUME NEW b, Sound(b), NEW e \in b.epics, NEW x \in EpicRecord, x.id = e.id, Chained(x)
    PROVE  Sound([b EXCEPT !.epics = Replace(@, e, x)])
  <1> DEFINE c == [b EXCEPT !.epics = Replace(@, e, x)]
  <1>1. c \in Backlog /\ c.epics = (b.epics \ {e}) \cup {x} /\ c.items = b.items /\ c.questions = b.questions
    BY DEF Sound, Backlog, Replace
  <1> HIDE DEF c
  <1>2. ItemsBelong(c)
    BY <1>1 DEF Sound, ItemsBelong
  <1>3. IdsUnique(c)
    BY <1>1 DEF Sound, IdsUnique
  <1>4. HistoriesChain(c)
    BY <1>1 DEF Sound, HistoriesChain
  <1>5. Sound(c)
    BY <1>1, <1>2, <1>3, <1>4 DEF Sound
  <1> QED BY <1>5 DEF c

\* An item may be replaced by one with its id and its epic.
LEMMA ReplaceItem ==
    ASSUME NEW b, Sound(b), NEW i \in b.items, NEW x \in ItemRecord, x.id = i.id, x.epicId = i.epicId, Chained(x)
    PROVE  Sound([b EXCEPT !.items = Replace(@, i, x)])
  <1> DEFINE c == [b EXCEPT !.items = Replace(@, i, x)]
  <1>1. c \in Backlog /\ c.items = (b.items \ {i}) \cup {x} /\ c.epics = b.epics /\ c.questions = b.questions
    BY DEF Sound, Backlog, Replace
  <1> HIDE DEF c
  <1>2. ItemsBelong(c)
    BY <1>1 DEF Sound, ItemsBelong
  <1>3. IdsUnique(c)
    BY <1>1 DEF Sound, IdsUnique
  <1>4. HistoriesChain(c)
    BY <1>1 DEF Sound, HistoriesChain
  <1>5. Sound(c)
    BY <1>1, <1>2, <1>3, <1>4 DEF Sound
  <1> QED BY <1>5 DEF c

\* The questions matter to their own ids only.
LEMMA OtherQuestions ==
    ASSUME NEW b, Sound(b), NEW Q \in SUBSET QuestionRecord, \A x, y \in Q : x.id = y.id => x = y
    PROVE  Sound([b EXCEPT !.questions = Q])
  <1> DEFINE c == [b EXCEPT !.questions = Q]
  <1>1. c \in Backlog /\ c.items = b.items /\ c.epics = b.epics /\ c.questions = Q
    BY DEF Sound, Backlog
  <1> HIDE DEF c
  <1>2. ItemsBelong(c) /\ IdsUnique(c) /\ HistoriesChain(c)
    BY <1>1 DEF Sound, ItemsBelong, IdsUnique, HistoriesChain
  <1>3. Sound(c)
    BY <1>1, <1>2 DEF Sound
  <1> QED BY <1>3 DEF c

LEMMA AddEpicSound == ASSUME NEW b, Sound(b), NEW c \in AddEpic(b) PROVE Sound(c)
  <1>1. PICK n \in NextId(b.epics), s \in EpicTargets, d \in {{}} \cup {{e.id} : e \in b.epics} :
            c = [b EXCEPT !.epics = @ \cup {[id |-> n, status |-> s, history |-> Seed(s), dependsOn |-> d]}]
    BY DEF AddEpic
  <1> DEFINE x == [id |-> n, status |-> s, history |-> Seed(s), dependsOn |-> d]
  <1>2. n \in Nat /\ \A e \in b.epics : e.id # n
    BY NextIdFresh DEF Sound, Backlog, EpicRecord
  <1>3. d \in SUBSET Nat
    BY DEF Sound, Backlog, EpicRecord
  <1>4. s \in EpicStatus
    BY TargetsAssumption
  <1>5. x \in EpicRecord /\ x.id = n /\ Chained(x)
    BY <1>2, <1>3, <1>4, SeedChained DEF EpicRecord, Chained
  <1>6. c \in Backlog /\ c.epics = b.epics \cup {x} /\ c.items = b.items /\ c.questions = b.questions
    BY <1>1, <1>5 DEF Sound, Backlog
  <1> HIDE DEF x
  <1>7. ItemsBelong(c)
    BY <1>6 DEF Sound, ItemsBelong
  <1>8. IdsUnique(c)
    BY <1>2, <1>5, <1>6 DEF Sound, IdsUnique
  <1>9. HistoriesChain(c)
    BY <1>5, <1>6 DEF Sound, HistoriesChain
  <1> QED BY <1>6, <1>7, <1>8, <1>9 DEF Sound

LEMMA UpdateEpicSound == ASSUME NEW b, Sound(b), NEW c \in UpdateEpic(b) PROVE Sound(c)
  <1>0. PICK e \in b.epics : \E s \in AcceptedEpicStatus(e) : c = [b EXCEPT !.epics = Replace(@, e, WithStatus(e, s))]
    BY DEF UpdateEpic
  <1>1. PICK s \in AcceptedEpicStatus(e) : c = [b EXCEPT !.epics = Replace(@, e, WithStatus(e, s))]
    BY <1>0
  <1>2. s \in EpicStatus /\ e \in EpicRecord /\ Chained(e)
    BY TargetsAssumption DEF AcceptedEpicStatus, Sound, Backlog, HistoriesChain
  <1>3. WithStatus(e, s) \in EpicRecord /\ WithStatus(e, s).id = e.id /\ Chained(WithStatus(e, s))
    BY <1>2, EpicWithStatus
  <1> QED BY <1>1, <1>3, ReplaceEpic

LEMMA DeleteEpicSound == ASSUME NEW b, Sound(b), NEW c \in DeleteEpic(b) PROVE Sound(c)
  <1>0. PICK force \in Forced :
            \E e \in {x \in b.epics : force \/ LinkedItems(b, x) = {}} :
                c = [b EXCEPT !.epics = @ \ {e}, !.items = IF force THEN @ \ LinkedItems(b, e) ELSE @]
    BY DEF DeleteEpic
  <1>1. PICK e \in {x \in b.epics : force \/ LinkedItems(b, x) = {}} :
            c = [b EXCEPT !.epics = @ \ {e}, !.items = IF force THEN @ \ LinkedItems(b, e) ELSE @]
    BY <1>0
  <1> DEFINE kept == IF force THEN b.items \ LinkedItems(b, e) ELSE b.items
  <1>2. c = [[b EXCEPT !.epics = b.epics \ {e}] EXCEPT !.items = kept]
    BY <1>1 DEF Sound, Backlog
  <1>3. kept \subseteq b.items /\ \A i \in kept : i.epicId # e.id
    BY <1>1 DEF LinkedItems
  <1> HIDE DEF kept
  <1>4. c \in Backlog /\ c.epics = b.epics \ {e} /\ c.items = kept /\ c.questions = b.questions
    BY <1>2, <1>3 DEF Sound, Backlog
  <1>5. ItemsBelong(c)
    BY <1>3, <1>4 DEF Sound, ItemsBelong
  <1>6. IdsUnique(c) /\ HistoriesChain(c)
    BY <1>3, <1>4 DEF Sound, IdsUnique, HistoriesChain
  <1> QED BY <1>4, <1>5, <1>6 DEF Sound

LEMMA AddItemSound == ASSUME NEW b, Sound(b), NEW c \in AddItem(b) PROVE Sound(c)
  <1>1. PICK n \in NextId(b.items), e \in b.epics, s \in ItemTargets :
            c = [b EXCEPT !.items = @ \cup {[id |-> n, epicId |-> e.id, status |-> s, history |-> Seed(s)]}]
    BY DEF AddItem
  <1> DEFINE x == [id |-> n, epicId |-> e.id, status |-> s, history |-> Seed(s)]
  <1>2. n \in Nat /\ \A i \in b.items : i.id # n
    BY NextIdFresh DEF Sound, Backlog, ItemRecord
  <1>3. s \in ItemStatus /\ e.id \in Nat
    BY TargetsAssumption DEF Sound, Backlog, EpicRecord
  <1>4. x \in ItemRecord /\ x.id = n /\ x.epicId = e.id /\ Chained(x)
    BY <1>2, <1>3, SeedChained DEF ItemRecord, Chained
  <1>5. c \in Backlog /\ c.items = b.items \cup {x} /\ c.epics = b.epics /\ c.questions = b.questions
    BY <1>1, <1>4 DEF Sound, Backlog
  <1> HIDE DEF x
  <1>6. ItemsBelong(c)
    BY <1>4, <1>5 DEF Sound, ItemsBelong
  <1>7. IdsUnique(c)
    BY <1>2, <1>4, <1>5 DEF Sound, IdsUnique
  <1>8. HistoriesChain(c)
    BY <1>4, <1>5 DEF Sound, HistoriesChain
  <1> QED BY <1>5, <1>6, <1>7, <1>8 DEF Sound

LEMMA UpdateItemSound == ASSUME NEW b, Sound(b), NEW c \in UpdateItem(b) PROVE Sound(c)
  <1>0. PICK i \in b.items : \E s \in AcceptedItemStatus(i) : c = [b EXCEPT !.items = Replace(@, i, WithStatus(i, s))]
    BY DEF UpdateItem
  <1>1. PICK s \in AcceptedItemStatus(i) : c = [b EXCEPT !.items = Replace(@, i, WithStatus(i, s))]
    BY <1>0
  <1>2. s \in ItemStatus /\ i \in ItemRecord /\ Chained(i)
    BY TargetsAssumption DEF AcceptedItemStatus, Sound, Backlog, HistoriesChain
  <1>3. /\ WithStatus(i, s) \in ItemRecord /\ WithStatus(i, s).id = i.id
        /\ WithStatus(i, s).epicId = i.epicId /\ Chained(WithStatus(i, s))
    BY <1>2, ItemWithStatus
  <1> QED BY <1>1, <1>3, ReplaceItem

LEMMA DeleteItemSound == ASSUME NEW b, Sound(b), NEW c \in DeleteItem(b) PROVE Sound(c)
  <1>1. PICK i \in b.items : c = [b EXCEPT !.items = @ \ {i}]
    BY DEF DeleteItem
  <1>2. c \in Backlog /\ c.items = b.items \ {i} /\ c.epics = b.epics /\ c.questions = b.questions
    BY <1>1 DEF Sound, Backlog
  <1>3. ItemsBelong(c) /\ IdsUnique(c) /\ HistoriesChain(c)
    BY <1>2 DEF Sound, ItemsBelong, IdsUnique, HistoriesChain
  <1> QED BY <1>2, <1>3 DEF Sound

\* The operations on questions.
LEMMA QuestionsSound ==
    ASSUME NEW b, Sound(b),
           NEW c \in UNION {AddQuestion(b), UpdateQuestion(b), AnswerQuestion(b), DeleteQuestion(b)}
    PROVE  Sound(c)
  <1>1. /\ b.questions \in SUBSET QuestionRecord /\ \A x, y \in b.questions : x.id = y.id => x = y
        /\ b.questions \in SUBSET QuestionRecord => \A x \in b.questions : x.id \in Nat
    BY DEF Sound, Backlog, IdsUnique, QuestionRecord
  <1>2. ASSUME c \in AddQuestion(b) PROVE Sound(c)
    <2>1. PICK n \in NextId(b.questions) :
              c = [b EXCEPT !.questions = @ \cup {[id |-> n, status |-> "open", answered |-> FALSE]}]
      BY <1>2 DEF AddQuestion
    <2> DEFINE x == [id |-> n, status |-> "open", answered |-> FALSE]
    <2>2. n \in Nat /\ \A q \in b.questions : q.id # n
      BY <1>1, NextIdFresh
    <2>3. x \in QuestionRecord /\ x.id = n
      BY <2>2 DEF QuestionRecord, QuestionStatus
    <2>4. c = [b EXCEPT !.questions = b.questions \cup {x}]
      BY <2>1 DEF Sound, Backlog
    <2> HIDE DEF x
    <2> QED BY <1>1, <2>2, <2>3, <2>4, OtherQuestions
  <1>3. ASSUME NEW q \in b.questions, NEW r \in QuestionRecord, r.id = q.id,
               c = [b EXCEPT !.questions = Replace(@, q, r)]
        PROVE  Sound(c)
    <2>1. c = [b EXCEPT !.questions = Replace(b.questions, q, r)]
      BY <1>3 DEF Sound, Backlog
    <2>2. /\ Replace(b.questions, q, r) \in SUBSET QuestionRecord
          /\ \A x, y \in Replace(b.questions, q, r) : x.id = y.id => x = y
      BY <1>1, <1>3 DEF Replace
    <2> QED BY <2>1, <2>2, OtherQuestions
  <1>4. ASSUME c \in UpdateQuestion(b) PROVE Sound(c)
    <2>1. PICK q \in b.questions, s \in QuestionStatus :
              c = [b EXCEPT !.questions = Replace(@, q, WithQuestionStatus(q, s))]
      BY <1>4 DEF UpdateQuestion
    <2>2. WithQuestionStatus(q, s) \in QuestionRecord /\ WithQuestionStatus(q, s).id = q.id
      BY <1>1 DEF QuestionRecord, QuestionStatus, WithQuestionStatus
    <2> QED BY <2>1, <2>2, <1>3
  <1>5. ASSUME c \in AnswerQuestion(b) PROVE Sound(c)
    <2>1. PICK q \in b.questions :
              c = [b EXCEPT !.questions = Replace(@, q, [q EXCEPT !.status = "answered", !.answered = TRUE])]
      BY <1>5 DEF AnswerQuestion
    <2> DEFINE r == [q EXCEPT !.status = "answered", !.answered = TRUE]
    <2>2. r \in QuestionRecord /\ r.id = q.id
      BY <1>1 DEF QuestionRecord, QuestionStatus
    <2>3. c = [b EXCEPT !.questions = Replace(@, q, r)]
      BY <2>1
    <2> HIDE DEF r
    <2> QED BY <2>2, <2>3, <1>3
  <1>6. ASSUME c \in DeleteQuestion(b) PROVE Sound(c)
    <2>1. PICK q \in b.questions : c = [b EXCEPT !.questions = @ \ {q}]
      BY <1>6 DEF DeleteQuestion
    <2>2. c = [b EXCEPT !.questions = b.questions \ {q}]
      BY <2>1 DEF Sound, Backlog
    <2> QED BY <1>1, <2>2, OtherQuestions
  <1> QED BY <1>2, <1>4, <1>5, <1>6

LEMMA ClaimSound == ASSUME NEW b, Sound(b), NEW c \in ClaimEpicForImplementation(b) PROVE Sound(c)
  <1>1. PICK e \in b.epics : c = [b EXCEPT !.epics = Replace(@, e, WithStatus(e, "in-progress"))]
    BY DEF ClaimEpicForImplementation
  <1>2. e \in EpicRecord /\ Chained(e) /\ "in-progress" \in EpicStatus
    BY DEF Sound, Backlog, HistoriesChain, EpicStatus
  <1>3. /\ WithStatus(e, "in-progress") \in EpicRecord /\ WithStatus(e, "in-progress").id = e.id
        /\ Chained(WithStatus(e, "in-progress"))
    BY <1>2, EpicWithStatus
  <1> QED BY <1>1, <1>3, ReplaceEpic

\* The resets change statuses of many epics and items at once.
LEMMA RewoundSound == ASSUME NEW b, Sound(b), NEW S, NEW c \in Rewound(b, S) PROVE Sound(c)
  <1> DEFINE RE(e) == IF e.status \in S THEN WithStatus(e, "todo") ELSE e
             RI(i) == IF i.status \in S THEN WithStatus(i, "todo") ELSE i
             E == {RE(e) : e \in b.epics}
             I == {RI(i) : i \in b.items}
  <1>1. c = [b EXCEPT !.epics = E, !.items = I]
    BY DEF Rewound, Sound, Backlog
  <1>2. ASSUME NEW e \in b.epics PROVE RE(e) \in EpicRecord /\ RE(e).id = e.id /\ Chained(RE(e))
    <2>1. e \in EpicRecord /\ Chained(e) /\ "todo" \in EpicStatus
      BY DEF Sound, Backlog, HistoriesChain, EpicStatus
    <2>2. /\ WithStatus(e, "todo") \in EpicRecord /\ WithStatus(e, "todo").id = e.id
          /\ Chained(WithStatus(e, "todo"))
      BY <2>1, EpicWithStatus
    <2> QED BY <2>1, <2>2
  <1>3. ASSUME NEW i \in b.items
        PROVE  RI(i) \in ItemRecord /\ RI(i).id = i.id /\ RI(i).epicId = i.epicId /\ Chained(RI(i))
    <2>1. i \in ItemRecord /\ Chained(i) /\ "todo" \in ItemStatus
      BY DEF Sound, Backlog, HistoriesChain, ItemStatus
    <2>2. /\ WithStatus(i, "todo") \in ItemRecord /\ WithStatus(i, "todo").id = i.id
          /\ WithStatus(i, "todo").epicId = i.epicId /\ Chained(WithStatus(i, "todo"))
      BY <2>1, ItemWithStatus
    <2> QED BY <2>1, <2>2
  <1> HIDE DEF RE, RI
  <1>4. /\ E \in SUBSET EpicRecord /\ I \in SUBSET ItemRecord
        /\ c.epics = E /\ c.items = I /\ c.questions = b.questions /\ c \in Backlog
    <2>1. E \in SUBSET EpicRecord /\ I \in SUBSET ItemRecord
      BY <1>2, <1>3
    <2> HIDE DEF E, I
    <2> QED BY <1>1, <2>1 DEF Sound, Backlog
  <1>5. ItemsBelong(c)
    BY <1>2, <1>3, <1>4 DEF Sound, ItemsBelong
  <1>6. IdsUnique(c)
    BY <1>2, <1>3, <1>4 DEF Sound, IdsUnique
  <1>7. HistoriesChain(c)
    BY <1>2, <1>3, <1>4 DEF HistoriesChain
  <1> QED BY <1>4, <1>5, <1>6, <1>7 DEF Sound

LEMMA OperationSound == ASSUME NEW b, Sound(b), NEW c \in Operations(b) PROVE Sound(c)
  <1>1. CASE c \in AddEpic(b)    BY <1>1, AddEpicSound
  <1>2. CASE c \in UpdateEpic(b) BY <1>2, UpdateEpicSound
  <1>3. CASE c \in DeleteEpic(b) BY <1>3, DeleteEpicSound
  <1>4. CASE c \in AddItem(b)    BY <1>4, AddItemSound
  <1>5. CASE c \in UpdateItem(b) BY <1>5, UpdateItemSound
  <1>6. CASE c \in DeleteItem(b) BY <1>6, DeleteItemSound
  <1>7. CASE c \in UNION {AddQuestion(b), UpdateQuestion(b), AnswerQuestion(b), DeleteQuestion(b)}
    BY <1>7, QuestionsSound
  <1>8. CASE c \in ClaimEpicForImplementation(b) BY <1>8, ClaimSound
  <1>9. CASE c \in UpdateStatusAllTodo(b) \cup ResetInProgressToTodo(b)
    BY <1>9, RewoundSound DEF UpdateStatusAllTodo, ResetInProgressToTodo
  <1> QED BY <1>1, <1>2, <1>3, <1>4, <1>5, <1>6, <1>7, <1>8, <1>9 DEF Operations

--------------------------------------------------------------------------------
(* The invariant of the processes. *)

LEMMA EmptySound == Sound(EmptyBacklog)
  BY DEF Sound, EmptyBacklog, Backlog, ItemsBelong, IdsUnique, HistoriesChain

LEMMA InitSound == Init => SoundInv
  <1> SUFFICES ASSUME Init PROVE SoundInv
    OBVIOUS
  <1>1. Sound(backlog)
    BY EmptySound, StartAssumption DEF Init, Sound
  <1>2. \A p \in Processes : Sound(work[p].items)
    BY EmptySound DEF Init, NoWork
  <1>3. TypeOK
    <2>1. NoWork \in Work
      BY EmptySound DEF NoWork, Work, Sound
    <2> QED BY <1>1, <2>1 DEF Init, TypeOK, Step, Sound
  <1> QED BY <1>1, <1>2, <1>3 DEF SoundInv

\* Begun from sound contents, a change is sound.
LEMMA ChangeSound ==
    ASSUME SoundInv, NEW p \in Processes, NEW b, Sound(b), Change(p, b)
    PROVE  /\ \A q \in Processes : Sound(work'[q].items)
           /\ work' \in [Processes -> Work] /\ changes' \in Nat /\ pc' \in [Processes -> Step]
  <1>1. PICK c \in Operations(b) : work' = [work EXCEPT ![p] = [items |-> c, change |-> changes + 1, id |-> 0]]
    BY DEF Change
  <1>2. Sound(c)
    BY OperationSound
  <1>3. [items |-> c, change |-> changes + 1, id |-> 0] \in Work
    BY <1>2 DEF Work, Sound, SoundInv, TypeOK
  <1>4. work' \in [Processes -> Work] /\ changes' \in Nat /\ pc' \in [Processes -> Step]
    BY <1>1, <1>3 DEF Change, Goto, SoundInv, TypeOK, Step
  <1>5. \A q \in Processes : Sound(work'[q].items)
    BY <1>1, <1>2 DEF SoundInv, TypeOK
  <1> QED BY <1>4, <1>5

\* Every step, a crash included, keeps disk and memory sound.
LEMMA SoundStep == SoundInv /\ [Next]_vars => SoundInv'
  <1> SUFFICES ASSUME SoundInv, [Next]_vars PROVE SoundInv'
    OBVIOUS
  <1> USE DEF SoundInv
  <1>0. /\ NoWork \in Work /\ Sound(NoWork.items) /\ Sound(EmptyBacklog)
        /\ Sound(backlog) /\ TypeOK /\ \A q \in Processes : work[q] \in Work /\ work[q].items \in Backlog
    BY EmptySound DEF NoWork, Work, Sound, TypeOK
  <1>1. ASSUME NEW p \in Processes, ReadItems(p) PROVE SoundInv'
    <2>1. /\ \A q \in Processes : Sound(work'[q].items)
          /\ work' \in [Processes -> Work] /\ changes' \in Nat /\ pc' \in [Processes -> Step]
      BY <1>1, <1>0, ChangeSound DEF ReadItems
    <2>2. Sound(backlog') /\ TypeOK'
      BY <1>1, <2>1 DEF ReadItems, TypeOK
    <2> QED BY <2>1, <2>2
  <1>2. ASSUME NEW p \in Processes, FindNoItems(p) PROVE SoundInv'
    <2>1. TypeOK' /\ work' = work /\ backlog' = backlog
      BY <1>2 DEF FindNoItems, Goto, TypeOK, Step
    <2> QED BY <2>1
  <1>3. ASSUME NEW p \in Processes, InitializeItems(p) PROVE SoundInv'
    <2>1. /\ \A q \in Processes : Sound(work'[q].items)
          /\ work' \in [Processes -> Work] /\ changes' \in Nat /\ pc' \in [Processes -> Step]
      <3>1. CASE Change(p, EmptyBacklog)
        BY <1>0, <3>1, ChangeSound
      <3>2. CASE Goto(p, "idle") /\ UNCHANGED <<work, changes>>
        BY <3>2 DEF Goto, TypeOK, Step
      <3> QED BY <1>3, <3>1, <3>2 DEF InitializeItems
    <2>2. Sound(backlog') /\ TypeOK'
      BY <1>3, <1>0, <2>1 DEF InitializeItems, TypeOK, Sound
    <2> QED BY <2>1, <2>2
  <1>4. ASSUME NEW p \in Processes, SaveItems(p) PROVE SoundInv'
    <2>1. Sound(backlog') /\ work' = work
      BY <1>4 DEF SaveItems
    <2>2. backlog' \in Backlog /\ pc' \in [Processes -> Step]
      BY <1>4, <1>0 DEF SaveItems, Goto, TypeOK, Step
    <2>3. TypeOK'
      BY <1>4, <1>0, <2>2 DEF SaveItems, TypeOK
    <2> QED BY <2>1, <2>3
  <1>5. ASSUME NEW p \in Processes, NextChangeLogId(p) PROVE SoundInv'
    <2>1. PICK n \in NextId({log[i] : i \in DOMAIN log}) : work' = [work EXCEPT ![p].id = n]
      BY <1>5 DEF NextChangeLogId
    <2>2. \A x \in {log[i] : i \in DOMAIN log} : x.id \in Nat
      <3>1. ASSUME NEW i \in DOMAIN log PROVE log[i] \in Entry
        <4>1. log \in Seq(Entry) /\ DOMAIN log = 1..Len(log)
          BY DEF TypeOK
        <4> QED BY <4>1
      <3> QED BY <3>1 DEF Entry
    <2>3. n \in Nat
      BY <2>2, NextIdFresh
    <2>4. work' \in [Processes -> Work] /\ \A q \in Processes : work'[q].items = work[q].items
      BY <2>1, <2>3 DEF TypeOK, Work
    <2>5. TypeOK' /\ backlog' = backlog
      BY <1>5, <2>4 DEF NextChangeLogId, Goto, TypeOK, Step
    <2> QED BY <2>4, <2>5
  <1>6. ASSUME NEW p \in Processes, work' = [work EXCEPT ![p] = NoWork]
        PROVE  work' \in [Processes -> Work] /\ \A q \in Processes : Sound(work'[q].items)
    BY <1>0, <1>6 DEF TypeOK
  <1>7. ASSUME NEW p \in Processes, AppendChangeLog(p) PROVE SoundInv'
    <2>1. work' \in [Processes -> Work] /\ \A q \in Processes : Sound(work'[q].items)
      BY <1>6, <1>7 DEF AppendChangeLog
    <2>2. [id |-> work[p].id, change |-> work[p].change] \in Entry
      BY <1>0 DEF Work, Entry
    <2>3. log' \in Seq(Entry)
      BY <1>7, <2>2 DEF AppendChangeLog, TypeOK
    <2>4. TypeOK' /\ backlog' = backlog
      BY <1>7, <2>1, <2>3 DEF AppendChangeLog, Goto, TypeOK, Step
    <2> QED BY <2>1, <2>4
  <1>8. ASSUME NEW p \in Processes, List(p) PROVE SoundInv'
    <2>1. TypeOK' /\ work' = work /\ backlog' = backlog
      BY <1>8 DEF List, PassGuard, ListItems, Goto, TypeOK, Step
    <2> QED BY <2>1
  <1>9. ASSUME NEW p \in Processes, Crash(p) PROVE SoundInv'
    <2>1. work' \in [Processes -> Work] /\ \A q \in Processes : Sound(work'[q].items)
      BY <1>6, <1>9 DEF Crash
    <2>2. TypeOK' /\ backlog' = backlog
      BY <1>9, <2>1 DEF Crash, Goto, TypeOK, Step
    <2> QED BY <2>1, <2>2
  <1>10. ASSUME NEW p \in Processes, FailToRead(p) PROVE SoundInv'
    <2>1. TypeOK' /\ work' = work /\ backlog' = backlog
      BY <1>10 DEF FailToRead, Goto, TypeOK, Step
    <2> QED BY <2>1
  <1>11. CASE UNCHANGED vars
    <2>1. TypeOK' /\ work' = work /\ backlog' = backlog
      BY <1>11 DEF vars, TypeOK
    <2> QED BY <2>1
  <1> QED BY <1>1, <1>2, <1>3, <1>4, <1>5, <1>7, <1>8, <1>9, <1>10, <1>11 DEF Next, Write

\* Type correctness of the store, for any processes and bounds.
THEOREM StoreTypeCorrect == Spec => []TypeOK
  <1>1. SoundInv => TypeOK
    BY DEF SoundInv
  <1> QED BY <1>1, InitSound, SoundStep, PTL DEF Spec

\* No interleaving of deletions and additions leaves an item without its epic.
THEOREM ItemsKeepTheirEpic == Spec => []NoDanglingItem
  <1>1. SoundInv => NoDanglingItem
    BY DEF SoundInv, Sound, NoDanglingItem
  <1> QED BY <1>1, InitSound, SoundStep, PTL DEF Spec

\* No two epics, items or questions ever have the same id.
THEOREM IdsStayUnique == Spec => []UniqueIds
  <1>1. SoundInv => UniqueIds
    BY DEF SoundInv, Sound, UniqueIds
  <1> QED BY <1>1, InitSound, SoundStep, PTL DEF Spec

\* The status history always explains the status.
THEOREM HistoryExplainsStatus == Spec => []HistoryChained
  <1>1. SoundInv => HistoryChained
    BY DEF SoundInv, Sound, HistoryChained
  <1> QED BY <1>1, InitSound, SoundStep, PTL DEF Spec

=================================================================================
