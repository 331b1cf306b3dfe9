-------------------------- MODULE AcceptanceTestsProofs --------------------------
(***************************************************************************)
(* For every number of callers, tests and results, and every order of      *)
(* operations, crashes and failed saves: test ids stay unique, also when   *)
(* callers overlap.  When they do not, a status in the cache has a result  *)
(* that says so, and between two operations it is that of the latest.      *)
(*                                                                         *)
(* The invariant of callers in turn relates the one at work, its copy of   *)
(* the spec and the result it has not yet saved to the spec and the        *)
(* results on file; that each number, id and time is higher than all       *)
(* before makes the result that was made last the one that is chosen.      *)
(***************************************************************************)
EXTENDS AcceptanceTests, TLAPS, WellFoundedInduction

\* A caller begins only when the others are idle.
Alone == Overlap = FALSE

Phase == {"idle", "save", "number", "result", "cache", "reload", "heal", "clearing"}
CallerState == [pc : Phase, spec : Seq(Test), file : Nat, result : Result]

\* The tests of a spec are in the order of their ids: each new one gets the highest id.
Ascending(spec) == \A i, j \in DOMAIN spec : i < j => spec[i].id < spec[j].id

SpecTyped == tests \in Seq(Test) /\ Ascending(tests)
CallersTyped == caller \in [Callers -> CallerState] /\ \A c \in Callers : Ascending(caller[c].spec)
ResultsTyped == DOMAIN results \subseteq Nat \ {0} /\ \A r \in DOMAIN results : results[r] \in Result
NotesTyped ==
    /\ clock \in Nat /\ byHand \in BOOLEAN /\ behind \in BOOLEAN /\ torn \in BOOLEAN /\ retired \subseteq Nat
    /\ budget \in [{"ops", "faults"} -> Nat]

ATyped == SpecTyped /\ CallersTyped /\ ResultsTyped /\ NotesTyped

\* One caller is at work at a time.
OneBusy == \A c, d \in Callers : caller[c].pc # "idle" /\ caller[d].pc # "idle" => c = d

\* The results have been numbered and made one after the other, and each test that has results has
\* one that was made last.
IsLatest(r) == \A other \in DOMAIN results :
                   results[other].test = results[r].test => results[other].at =< results[r].at
Numbered == \E m \in {0} \cup DOMAIN results : \A r \in DOMAIN results : r =< m
InTime == \A r \in DOMAIN results :
             results[r].at < clock /\ \A s \in DOMAIN results : results[r].at = results[s].at => r = s
HasLatest == \A r \in DOMAIN results : \E s \in DOMAIN results : results[s].test = results[r].test /\ IsLatest(s)

\* Every result is of a test in the spec, or of one that was deleted.
Covers(spec) == \A r \in DOMAIN results :
    results[r].test \in retired \/ \E i \in DOMAIN spec : spec[i].id = results[r].test

\* Without the callers taking turns this is left: times are of the past, and results about to be
\* saved have a number.
Dated == \A r \in DOMAIN results : results[r].at < clock
Prepared ==
    \A c \in Callers : /\ caller[c].pc \in {"number", "result"} => caller[c].result.at < clock
                       /\ caller[c].pc = "result" => caller[c].file # 0
TypeInv == ATyped /\ Numbered /\ Dated /\ Prepared

\* What the cache of a spec is to say of the results.
Backed(spec) == \A i \in DOMAIN spec :
    spec[i].last # "not-run" =>
        \E r \in DOMAIN results : results[r].test = spec[i].id /\ results[r].status = spec[i].last
Fits(spec) == \A i \in DOMAIN spec : spec[i].id \in retired \/ spec[i].last = LatestStatus(spec[i].id)

\* A result that is not yet on file is later than all that are, and the copy of the spec beside it
\* differs from the spec in that test only.
Awaited(c) ==
    /\ \E i \in DOMAIN tests : tests[i].id = caller[c].result.test
    /\ caller[c].result.at < clock /\ \A r \in DOMAIN results : results[r].at < caller[c].result.at
    /\ caller[c].spec = Cached(tests, caller[c].result.test, caller[c].result.status)

\* A spec that is about to be saved is as true as the rest of the history allows.
Ready(spec) ==
    /\ Covers(spec)
    /\ ~byHand /\ ~torn => Backed(spec)
    /\ ~byHand /\ ~torn /\ ~behind => Fits(spec)

AtWork(c) ==
    /\ caller[c].pc \in {"number", "result"} => Awaited(c)
    /\ caller[c].pc = "result" => caller[c].file # 0 /\ \A r \in DOMAIN results : r < caller[c].file
    /\ caller[c].pc \in {"save", "cache"} => Ready(caller[c].spec)
    /\ caller[c].pc = "heal" => caller[c].spec = tests

\* The cache in the spec itself fits until a result is on file that it does not know of.
Settled == \A c \in Callers : caller[c].pc \in {"idle", "save", "number", "result", "clearing"}
CacheTrue ==
    /\ Covers(tests)
    /\ ~byHand /\ ~torn => Backed(tests)
    /\ ~byHand /\ ~torn /\ ~behind /\ Settled => Fits(tests)

ResultFacts == Numbered /\ InTime /\ HasLatest

IInv == ATyped /\ OneBusy /\ ResultFacts /\ CacheTrue /\ \A c \in Callers : AtWork(c)

--------------------------------------------------------------------------------
(* Lemmas about the operators. *)

\* The greatest number of a set, when it is known.
LEMMA MaxIs ==
    ASSUME NEW S \in SUBSET Nat, NEW m \in S, \A x \in S : x =< m
    PROVE  Max(S) = m
<1>1. \E x \in S : \A y \in S : x >= y
  OBVIOUS
<1>2. Max(S) \in S /\ \A y \in S : Max(S) >= y
  BY <1>1, Zenon DEF Max
<1>3. PICK n \in S : n = Max(S)
  BY <1>2
<1>4. n \in Nat /\ m \in Nat /\ n >= m /\ n =< m
  BY <1>2, <1>3
<1> QED BY <1>3, <1>4

\* The parts of a test.
LEMMA TestParts ==
    ASSUME NEW spec \in Seq(Test)
    PROVE  \A i \in DOMAIN spec : /\ spec[i] \in Test
                                  /\ spec[i].id \in Nat \ {0} /\ spec[i].status \in CaseStatus
                                  /\ spec[i].last \in ExecutionStatus
<1>1. \A i \in DOMAIN spec : spec[i] \in Test
  OBVIOUS
<1> QED BY <1>1 DEF Test

\* The id of a new test is higher than all others.
LEMMA NextTestIdIsNew ==
    ASSUME NEW spec \in Seq(Test), Ascending(spec)
    PROVE  NextTestId(spec) \in Nat \ {0} /\ \A i \in DOMAIN spec : spec[i].id < NextTestId(spec)
<1> DEFINE ids == {0} \cup {spec[i].id : i \in DOMAIN spec}
<1>0. \A i \in DOMAIN spec : spec[i].id \in Nat \ {0}
  BY TestParts
<1>1. ids \in SUBSET Nat /\ 0 \in ids /\ \A i \in DOMAIN spec : spec[i].id \in ids
  BY <1>0
<1>a. \A x \in ids : x = 0 \/ \E i \in DOMAIN spec : x = spec[i].id
  OBVIOUS
<1>b. NextTestId(spec) = Max(ids) + 1
  BY DEF NextTestId
<1> HIDE DEF ids
<1>2. CASE spec = <<>>
  <2>1. DOMAIN spec = {}
    BY <1>2
  <2>2. Max(ids) = 0
    BY <1>1, <1>a, <2>1, MaxIs
  <2> QED BY <1>b, <2>1, <2>2
<1>3. CASE spec # <<>>
  <2>1. Len(spec) \in DOMAIN spec
    BY <1>3
  <2>2. \A i \in DOMAIN spec : spec[i].id =< spec[Len(spec)].id
    BY <1>0, <2>1 DEF Ascending
  <2>3. \A x \in ids : x =< spec[Len(spec)].id
    BY <1>0, <1>a, <2>1, <2>2
  <2>4. Max(ids) = spec[Len(spec)].id
    BY <1>1, <2>1, <2>3, MaxIs
  <2> QED BY <1>0, <1>b, <2>1, <2>2, <2>4
<1> QED BY <1>2, <1>3

\* The number of a new result is higher than all others.
LEMMA NextResultIdIsNew ==
    ASSUME ATyped, Numbered, NEW t
    PROVE  NextResultId(t) \in Nat \ {0} /\ \A r \in DOMAIN results : r < NextResultId(t)
<1>1. {0} \cup DOMAIN results \in SUBSET Nat
  BY DEF ATyped, ResultsTyped
<1>2. PICK m \in {0} \cup DOMAIN results : \A r \in DOMAIN results : r =< m
  BY DEF Numbered
<1>3. \A x \in {0} \cup DOMAIN results : x =< m
  BY <1>1, <1>2
<1>4. Max({0} \cup DOMAIN results) = m
  BY <1>1, <1>3, MaxIs
<1> QED BY <1>1, <1>2, <1>4 DEF NextResultId

\* Of a set of dates before some time one is the last.
LEMMA LastExists ==
    ASSUME NEW dates \in SUBSET Nat, dates # {}, NEW bound \in Nat, \A d \in dates : d < bound
    PROVE  \E d \in dates : \A other \in dates : other =< d
<1> DEFINE togo == {n \in Nat : \E d \in dates : n = bound - d}
<1>1. \A d \in dates : d \in Nat /\ d < bound /\ bound - d \in Nat
  OBVIOUS
<1>2. togo \subseteq Nat /\ \A d \in dates : bound - d \in togo
  BY <1>1
<1>3. togo # {}
  BY <1>2
<1>4. \A n \in togo : \E d \in dates : n = bound - d
  OBVIOUS
<1> HIDE DEF togo
<1>5. PICK least \in togo : \A n \in togo : ~(<<n, least>> \in OpToRel(<, Nat))
  BY <1>2, <1>3, NatLessThanWellFounded, WFMin
<1>6. \A n \in togo : ~(n < least)
  BY <1>2, <1>5 DEF OpToRel
<1>7. PICK d \in dates : least = bound - d
  BY <1>4
<1>8. ASSUME NEW other \in dates PROVE other =< d
  <2>1. ~(bound - other < bound - d)
    BY <1>2, <1>6, <1>7
  <2> QED BY <1>1, <2>1
<1> QED BY <1>8

\* However results overwrite each other, a test's latest status is one.
LEMMA LatestStatusTyped ==
    ASSUME ATyped, Dated, NEW t
    PROVE  LatestStatus(t) \in ExecutionStatus
<1>1. PICK ofTest : ofTest = {r \in DOMAIN results : results[r].test = t}
  OBVIOUS
<1>2. CASE ofTest = {}
  BY <1>1, <1>2 DEF LatestStatus, ExecutionStatus
<1>3. CASE ofTest # {}
  <2>1. \A r \in DOMAIN results : /\ results[r].at \in Nat /\ results[r].at < clock
                                  /\ results[r].status \in ExecutionStatus
    BY DEF ATyped, ResultsTyped, Result, Dated
  <2>2. PICK dates : dates = {results[r].at : r \in ofTest}
    OBVIOUS
  <2>3. dates \in SUBSET Nat /\ dates # {} /\ clock \in Nat /\ \A d \in dates : d < clock
    BY <1>1, <1>3, <2>1, <2>2 DEF ATyped, NotesTyped
  <2>4. PICK d \in dates : \A other \in dates : other =< d
    BY <2>3, LastExists
  <2>5. PICK r \in ofTest : results[r].at = d
    BY <2>2, <2>4
  <2>6. \A other \in ofTest : results[other].at =< results[r].at
    BY <2>2, <2>4, <2>5
  <2>7. \E n \in ofTest : n = CHOOSE m \in ofTest : \A other \in ofTest : results[other].at =< results[m].at
    BY <2>5, <2>6
  <2>8. PICK n \in ofTest : n = CHOOSE m \in ofTest : \A other \in ofTest : results[other].at =< results[m].at
    BY <2>7
  <2>9. LatestStatus(t) = results[n].status
    BY <1>1, <1>3, <2>8 DEF LatestStatus
  <2> QED BY <1>1, <2>1, <2>9
<1> QED BY <1>2, <1>3

\* Of the results of a test the latest is chosen, when no two were made at the same time.
LEMMA LatestChosen ==
    ASSUME NEW rs, NEW t, NEW r \in DOMAIN rs, rs[r].test = t,
           \A s \in DOMAIN rs : rs[s].at \in Nat /\ (rs[s].at = rs[r].at => s = r),
           \A s \in DOMAIN rs : rs[s].test = t => rs[s].at =< rs[r].at,
           NEW ofTest, ofTest = {s \in DOMAIN rs : rs[s].test = t}
    PROVE  (CHOOSE s \in ofTest : \A other \in ofTest : rs[other].at =< rs[s].at) = r
<1> DEFINE last == CHOOSE s \in ofTest : \A other \in ofTest : rs[other].at =< rs[s].at
<1>1. r \in ofTest /\ \A other \in ofTest : rs[other].at =< rs[r].at
  OBVIOUS
<1>2. last \in ofTest /\ \A other \in ofTest : rs[other].at =< rs[last].at
  BY <1>1
<1> HIDE DEF last
<1>3. rs[last].at = rs[r].at
  BY <1>1, <1>2
<1>4. last = r
  BY <1>2, <1>3
<1> QED BY <1>4 DEF last

\* latestResultStatuses gives the status of the result that was made last, before a step
LEMMA LatestStatusIs ==
    ASSUME ATyped, InTime, NEW r \in DOMAIN results, IsLatest(r), NEW t, t = results[r].test
    PROVE  LatestStatus(t) = results[r].status
<1>1. PICK rs : rs = results
  OBVIOUS
<1>2. PICK ofTest : ofTest = {s \in DOMAIN rs : rs[s].test = t}
  OBVIOUS
<1>3. (CHOOSE s \in ofTest : \A other \in ofTest : rs[other].at =< rs[s].at) = r
  <2>1. \A s \in DOMAIN rs : rs[s].at \in Nat /\ (rs[s].at = rs[r].at => s = r)
    BY <1>1 DEF ATyped, ResultsTyped, Result, InTime
  <2>2. \A s \in DOMAIN rs : rs[s].test = t => rs[s].at =< rs[r].at
    BY <1>1 DEF IsLatest
  <2> QED BY <1>1, <1>2, <2>1, <2>2, LatestChosen
<1>4. ofTest # {}
  BY <1>1, <1>2
<1> QED BY <1>1, <1>2, <1>3, <1>4 DEF LatestStatus

\* ... and after a step.
LEMMA LatestStatusIsNext ==
    ASSUME ATyped', InTime', NEW r \in DOMAIN results', IsLatest(r)', NEW t, t = results'[r].test
    PROVE  LatestStatus(t)' = results'[r].status
<1>1. PICK rs : rs = results'
  OBVIOUS
<1>2. PICK ofTest : ofTest = {s \in DOMAIN rs : rs[s].test = t}
  OBVIOUS
<1>3. (CHOOSE s \in ofTest : \A other \in ofTest : rs[other].at =< rs[s].at) = r
  <2>1. \A s \in DOMAIN rs : rs[s].at \in Nat /\ (rs[s].at = rs[r].at => s = r)
    BY <1>1 DEF ATyped, ResultsTyped, Result, InTime
  <2>2. \A s \in DOMAIN rs : rs[s].test = t => rs[s].at =< rs[r].at
    BY <1>1 DEF IsLatest
  <2> QED BY <1>1, <1>2, <2>1, <2>2, LatestChosen
<1>4. ofTest # {}
  BY <1>1, <1>2
<1> QED BY <1>1, <1>2, <1>3, <1>4 DEF LatestStatus

\* A test without results has not run.
LEMMA LatestStatusOfNone ==
    ASSUME NEW t, \A r \in DOMAIN results : results[r].test # t
    PROVE  LatestStatus(t) = "not-run"
  BY DEF LatestStatus

\* The latest status has a result that says so.
LEMMA LatestStatusBacked ==
    ASSUME ATyped, InTime, HasLatest, NEW t
    PROVE  /\ LatestStatus(t) \in ExecutionStatus
           /\ LatestStatus(t) # "not-run" =>
                  \E r \in DOMAIN results : results[r].test = t /\ results[r].status = LatestStatus(t)
<1>1. CASE \A r \in DOMAIN results : results[r].test # t
  BY <1>1, LatestStatusOfNone DEF ExecutionStatus
<1>2. ASSUME NEW r \in DOMAIN results, results[r].test = t
      PROVE  \E s \in DOMAIN results : results[s].test = t /\ LatestStatus(t) = results[s].status
  <2>1. PICK s \in DOMAIN results : results[s].test = results[r].test /\ IsLatest(s)
    BY DEF HasLatest
  <2> QED BY <1>2, <2>1, LatestStatusIs
<1>3. \A r \in DOMAIN results : results[r].status \in ExecutionStatus
  BY DEF ATyped, ResultsTyped, Result
<1> QED BY <1>1, <1>2, <1>3

\* Nothing but the results matters.
LEMMA LatestStatusKept ==
    ASSUME results' = results, NEW t
    PROVE  LatestStatus(t)' = LatestStatus(t)
  BY DEF LatestStatus

\* A change of the case status is to a case status.
LEMMA TransitionsTyped ==
    ASSUME NEW from \in CaseStatus
    PROVE  TransitionAllowed[from] \subseteq CaseStatus
<1>1. TransitionAllowed["draft"] = {"ready", "archived"} /\ TransitionAllowed["ready"] = {"in-progress", "archived"}
  BY DEF TransitionAllowed, CaseStatus
<1>2. TransitionAllowed["in-progress"] = {"ready", "archived"} /\ TransitionAllowed["archived"] = {}
  BY DEF TransitionAllowed, CaseStatus
<1> QED BY <1>1, <1>2 DEF CaseStatus

\* The tests without one of them.
Without(spec, i) == SubSeq(spec, 1, i - 1) \o SubSeq(spec, i + 1, Len(spec))

\* Its elements.
LEMMA WithoutOne ==
    ASSUME NEW spec \in Seq(Test), NEW i \in DOMAIN spec
    PROVE  /\ Without(spec, i) \in Seq(Test)
           /\ Len(Without(spec, i)) = Len(spec) - 1
           /\ \A k \in 1 .. Len(spec) - 1 : Without(spec, i)[k] = spec[IF k < i THEN k ELSE k + 1]
<1>1. i \in 1 .. Len(spec) /\ Len(spec) \in Nat
  OBVIOUS
<1>2. SubSeq(spec, 1, i - 1) \in Seq(Test) /\ Len(SubSeq(spec, 1, i - 1)) = i - 1
  BY <1>1
<1>3. SubSeq(spec, i + 1, Len(spec)) \in Seq(Test) /\ Len(SubSeq(spec, i + 1, Len(spec))) = Len(spec) - i
  BY <1>1
<1>4. \A k \in 1 .. i - 1 : SubSeq(spec, 1, i - 1)[k] = spec[k]
  BY <1>1
<1>5. \A k \in 1 .. Len(spec) - i : SubSeq(spec, i + 1, Len(spec))[k] = spec[i + k]
  BY <1>1
<1>6. Without(spec, i) \in Seq(Test) /\ Len(Without(spec, i)) = Len(spec) - 1
  <2>1. PICK left \in Seq(Test) : left = SubSeq(spec, 1, i - 1)
    BY <1>2
  <2>2. PICK right \in Seq(Test) : right = SubSeq(spec, i + 1, Len(spec))
    BY <1>3
  <2>3. Without(spec, i) = left \o right
    BY <2>1, <2>2 DEF Without
  <2>4. left \o right \in Seq(Test) /\ Len(left \o right) = Len(left) + Len(right)
    OBVIOUS
  <2>5. Len(left) = i - 1 /\ Len(right) = Len(spec) - i
    BY <1>2, <1>3, <2>1, <2>2
  <2>6. Len(left \o right) = Len(spec) - 1
    BY <1>1, <2>4, <2>5
  <2> QED BY <2>3, <2>4, <2>6
<1>7. ASSUME NEW k \in 1 .. Len(spec) - 1 PROVE Without(spec, i)[k] = spec[IF k < i THEN k ELSE k + 1]
  <2>1. CASE k < i
    BY <1>1, <1>2, <1>3, <1>4, <2>1 DEF Without
  <2>2. CASE ~(k < i)
    <3>1. k - (i - 1) \in 1 .. Len(spec) - i
      BY <1>1, <2>2
    <3>2. PICK left \in Seq(Test) : left = SubSeq(spec, 1, i - 1)
      BY <1>2
    <3>3. PICK right \in Seq(Test) : right = SubSeq(spec, i + 1, Len(spec))
      BY <1>3
    <3>4. Len(left) = i - 1 /\ Len(right) = Len(spec) - i
      BY <1>2, <1>3, <3>2, <3>3
    <3>5. (left \o right)[k] = right[k - (i - 1)]
      <4>1. k \in Nat /\ k > Len(left) /\ k - Len(left) = k - (i - 1) /\ k =< Len(left) + Len(right)
        BY <1>1, <2>2, <3>4
      <4>2. (left \o right)[k] = right[k - Len(left)]
        BY <4>1
      <4> QED BY <4>1, <4>2
    <3>6. Without(spec, i)[k] = right[k - (i - 1)]
      BY <3>2, <3>3, <3>5 DEF Without
    <3>7. right[k - (i - 1)] = spec[i + (k - (i - 1))]
      BY <1>5, <3>1, <3>3
    <3>8. i + (k - (i - 1)) = k + 1
      BY <1>1
    <3> QED BY <2>2, <3>6, <3>7, <3>8
  <2> QED BY <2>1, <2>2
<1> QED BY <1>6, <1>7

\* An order by ids gives every test an id of its own.
LEMMA AscendingUnique ==
    ASSUME NEW spec \in Seq(Test), Ascending(spec)
    PROVE  UniqueIds(spec)
<1>1. \A i \in DOMAIN spec : spec[i].id \in Nat
  BY TestParts
<1>2. DOMAIN spec \subseteq Nat
  OBVIOUS
<1> QED BY <1>1, <1>2 DEF Ascending, UniqueIds

\* The changes of a spec keep the order.
LEMMA SpecsAscend ==
    ASSUME NEW spec \in Seq(Test), Ascending(spec)
    PROVE  /\ \A status \in CaseStatus :
                  LET more == Append(spec, [id |-> NextTestId(spec), status |-> status, last |-> "not-run"])
                  IN  more \in Seq(Test) /\ Ascending(more)
           /\ \A i \in DOMAIN spec : Without(spec, i) \in Seq(Test) /\ Ascending(Without(spec, i))
<1>0. DOMAIN spec = 1 .. Len(spec) /\ Len(spec) \in Nat
  OBVIOUS
<1>1. ASSUME NEW status \in CaseStatus,
             NEW test, test = [id |-> NextTestId(spec), status |-> status, last |-> "not-run"]
      PROVE  Append(spec, test) \in Seq(Test) /\ Ascending(Append(spec, test))
  <2>1. test \in Test /\ \A i \in DOMAIN spec : spec[i].id < test.id
    BY <1>1, NextTestIdIsNew DEF Test, ExecutionStatus
  <2>2. Append(spec, test) \in Seq(Test)
    BY <2>1
  <2>3. ASSUME NEW i \in DOMAIN Append(spec, test), NEW j \in DOMAIN Append(spec, test), i < j
        PROVE  Append(spec, test)[i].id < Append(spec, test)[j].id
    <3>1. i \in 1 .. Len(spec) /\ (j \in 1 .. Len(spec) \/ j = Len(spec) + 1)
      BY <1>0, <2>1, <2>3
    <3>2. Append(spec, test)[i] = spec[i]
      BY <1>0, <2>1, <3>1
    <3>3. CASE j \in 1 .. Len(spec)
      <4>1. Append(spec, test)[j] = spec[j]
        BY <1>0, <2>1, <3>3
      <4> QED BY <1>0, <2>3, <3>1, <3>2, <3>3, <4>1 DEF Ascending
    <3>4. CASE j = Len(spec) + 1
      <4>1. Append(spec, test)[j] = test
        BY <1>0, <2>1, <3>4
      <4> QED BY <1>0, <2>1, <3>1, <3>2, <4>1
    <3> QED BY <3>1, <3>3, <3>4
  <2> QED BY <2>2, <2>3 DEF Ascending
<1>2. ASSUME NEW i \in DOMAIN spec PROVE Without(spec, i) \in Seq(Test) /\ Ascending(Without(spec, i))
  <2>1. /\ Without(spec, i) \in Seq(Test) /\ DOMAIN Without(spec, i) = 1 .. Len(spec) - 1
        /\ \A k \in 1 .. Len(spec) - 1 : Without(spec, i)[k] = spec[IF k < i THEN k ELSE k + 1]
    BY WithoutOne
  <2>2. ASSUME NEW k \in 1 .. Len(spec) - 1, NEW m \in 1 .. Len(spec) - 1, k < m
        PROVE  Without(spec, i)[k].id < Without(spec, i)[m].id
    <3>1. PICK kk \in DOMAIN spec : kk = IF k < i THEN k ELSE k + 1
      BY <1>0
    <3>2. PICK mm \in DOMAIN spec : mm = IF m < i THEN m ELSE m + 1
      BY <1>0
    <3>3. kk < mm
      BY <1>0, <2>2, <3>1, <3>2
    <3>4. spec[kk].id < spec[mm].id
      BY <3>3 DEF Ascending
    <3> QED BY <2>1, <3>1, <3>2, <3>4
  <2> QED BY <2>1, <2>2 DEF Ascending
<1> QED BY <1>1, <1>2

\* A spec whose tests keep their ids.
LEMMA SameIdsAscend ==
    ASSUME NEW spec \in Seq(Test), Ascending(spec), NEW other \in Seq(Test), Len(other) = Len(spec),
           \A i \in DOMAIN spec : other[i].id = spec[i].id
    PROVE  Ascending(other)
<1>1. DOMAIN other = DOMAIN spec
  OBVIOUS
<1> QED BY <1>1 DEF Ascending

\* addResult changes the last status of one test, the repair that of all.
LEMMA CachedTyped ==
    ASSUME NEW spec \in Seq(Test), Ascending(spec), NEW t, NEW status \in ExecutionStatus
    PROVE  /\ Cached(spec, t, status) \in Seq(Test) /\ Ascending(Cached(spec, t, status))
           /\ DOMAIN Cached(spec, t, status) = DOMAIN spec
           /\ \A i \in DOMAIN spec : /\ Cached(spec, t, status)[i].id = spec[i].id
                                     /\ Cached(spec, t, status)[i].last = IF spec[i].id = t THEN status ELSE spec[i].last
<1>0. \A i \in DOMAIN spec : spec[i] \in Test
  OBVIOUS
<1>1. \A i \in DOMAIN spec : spec[i] \in Test /\ [spec[i] EXCEPT !.last = status] \in Test
  BY <1>0 DEF Test
<1>2. Cached(spec, t, status) \in [1 .. Len(spec) -> Test]
  BY <1>1 DEF Cached
<1>3. Cached(spec, t, status) \in Seq(Test) /\ Len(Cached(spec, t, status)) = Len(spec)
  BY <1>2
<1>4. \A i \in DOMAIN spec : /\ Cached(spec, t, status)[i].id = spec[i].id
                             /\ Cached(spec, t, status)[i].last = IF spec[i].id = t THEN status ELSE spec[i].last
  BY <1>1 DEF Cached, Test
<1>5. DOMAIN Cached(spec, t, status) = DOMAIN spec
  BY DEF Cached
<1> QED BY <1>3, <1>4, <1>5, SameIdsAscend

\* Every test with a last status of its own.
Restated(spec, f) == [i \in DOMAIN spec |-> [spec[i] EXCEPT !.last = f[i]]]

\* Such a spec keeps its ids.
LEMMA RestatedTyped ==
    ASSUME NEW spec \in Seq(Test), Ascending(spec), NEW f \in [DOMAIN spec -> ExecutionStatus]
    PROVE  /\ Restated(spec, f) \in Seq(Test) /\ Ascending(Restated(spec, f))
           /\ DOMAIN Restated(spec, f) = DOMAIN spec
           /\ \A i \in DOMAIN spec : Restated(spec, f)[i].id = spec[i].id /\ Restated(spec, f)[i].last = f[i]
<1>0. \A i \in DOMAIN spec : spec[i] \in Test
  OBVIOUS
<1>1. \A i \in DOMAIN spec : spec[i] \in Test /\ [spec[i] EXCEPT !.last = f[i]] \in Test
  BY <1>0 DEF Test
<1>2. Restated(spec, f) \in [1 .. Len(spec) -> Test]
  BY <1>1 DEF Restated
<1>3. Restated(spec, f) \in Seq(Test) /\ Len(Restated(spec, f)) = Len(spec)
  BY <1>2
<1>4. \A i \in DOMAIN spec : Restated(spec, f)[i].id = spec[i].id /\ Restated(spec, f)[i].last = f[i]
  BY <1>1 DEF Restated, Test
<1>5. DOMAIN Restated(spec, f) = DOMAIN spec
  BY DEF Restated
<1> QED BY <1>3, <1>4, <1>5, SameIdsAscend

\* The repaired spec, and what it is to say.
LEMMA HealedTyped ==
    ASSUME ATyped, InTime, HasLatest, NEW spec \in Seq(Test), Ascending(spec)
    PROVE  /\ Healed(spec) \in Seq(Test) /\ Ascending(Healed(spec)) /\ DOMAIN Healed(spec) = DOMAIN spec
           /\ \A i \in DOMAIN spec : Healed(spec)[i].id = spec[i].id
           /\ Backed(Healed(spec)) /\ Fits(Healed(spec))
<1> DEFINE f == [i \in DOMAIN spec |-> LatestStatus(spec[i].id)]
<1>1. f \in [DOMAIN spec -> ExecutionStatus]
  BY LatestStatusBacked
<1>2. Healed(spec) = Restated(spec, f)
  BY DEF Healed, Restated
<1>3. \A i \in DOMAIN spec : f[i] = LatestStatus(spec[i].id)
  OBVIOUS
<1> HIDE DEF f
<1>4. /\ Healed(spec) \in Seq(Test) /\ Ascending(Healed(spec)) /\ DOMAIN Healed(spec) = DOMAIN spec
      /\ \A i \in DOMAIN spec : Healed(spec)[i].id = spec[i].id /\ Healed(spec)[i].last = LatestStatus(spec[i].id)
  BY <1>1, <1>2, <1>3, RestatedTyped
<1>5. Backed(Healed(spec))
  BY <1>4, LatestStatusBacked DEF Backed
<1>6. Fits(Healed(spec))
  BY <1>4 DEF Fits
<1> QED BY <1>4, <1>5, <1>6

--------------------------------------------------------------------------------
(* Types. *)

\* A caller at rest.
LEMMA IdleTyped == Idle \in CallerState /\ Ascending(Idle.spec) /\ Idle.pc = "idle"
<1>1. [test |-> 1, status |-> "passed", at |-> 0] \in Result
  BY DEF Result, ExecutionStatus
<1>2. <<>> \in Seq(Test) /\ Ascending(<<>>)
  BY DEF Ascending
<1> QED BY <1>1, <1>2 DEF Idle, CallerState, Phase

\* A caller that is about to save a spec.
LEMMA SavingTyped ==
    ASSUME NEW spec \in Seq(Test), NEW pc \in Phase
    PROVE  /\ [Idle EXCEPT !.pc = pc, !.spec = spec] \in CallerState
           /\ [Idle EXCEPT !.pc = pc, !.spec = spec].spec = spec
           /\ [Idle EXCEPT !.pc = pc, !.spec = spec].pc = pc
<1>1. [test |-> 1, status |-> "passed", at |-> 0] \in Result
  BY DEF Result, ExecutionStatus
<1> QED BY <1>1 DEF Idle, CallerState

\* A caller that is about to repair the cache.
LEMMA RepairingTyped ==
    ASSUME NEW pc \in Phase
    PROVE  /\ [Idle EXCEPT !.pc = pc] \in CallerState
           /\ [Idle EXCEPT !.pc = pc].pc = pc /\ [Idle EXCEPT !.pc = pc].spec = <<>>
<1>1. [test |-> 1, status |-> "passed", at |-> 0] \in Result /\ <<>> \in Seq(Test)
  BY DEF Result, ExecutionStatus
<1> QED BY <1>1 DEF Idle, CallerState

\* The parts of a caller.
LEMMA CallerParts ==
    ASSUME CallersTyped, NEW c \in Callers
    PROVE  /\ caller[c] \in CallerState /\ caller[c].pc \in Phase
           /\ caller[c].spec \in Seq(Test) /\ Ascending(caller[c].spec)
           /\ caller[c].file \in Nat /\ caller[c].result \in Result
<1>1. PICK own \in CallerState : own = caller[c] /\ Ascending(own.spec)
  BY DEF CallersTyped
<1>2. own.pc \in Phase /\ own.spec \in Seq(Test) /\ own.file \in Nat /\ own.result \in Result
  BY DEF CallerState
<1> QED BY <1>1, <1>2

\* A caller that goes on to another step as it is,
LEMMA GoesOn ==
    ASSUME CallersTyped, NEW c \in Callers, NEW pc \in Phase
    PROVE  /\ [caller[c] EXCEPT !.pc = pc] \in CallerState
           /\ [caller[c] EXCEPT !.pc = pc] = [pc |-> pc, spec |-> caller[c].spec, file |-> caller[c].file,
                                              result |-> caller[c].result]
<1>1. PICK own \in CallerState : own = caller[c]
  BY CallerParts
<1>2. [own EXCEPT !.pc = pc] = [pc |-> pc, spec |-> own.spec, file |-> own.file, result |-> own.result]
  BY DEF CallerState
<1>3. [own EXCEPT !.pc = pc] \in CallerState
  BY DEF CallerState
<1> QED BY <1>1, <1>2, <1>3

\* ... with the name of a file,
LEMMA GoesOnWithFile ==
    ASSUME CallersTyped, NEW c \in Callers, NEW pc \in Phase, NEW file \in Nat
    PROVE  /\ [caller[c] EXCEPT !.pc = pc, !.file = file] \in CallerState
           /\ [caller[c] EXCEPT !.pc = pc, !.file = file] =
                 [pc |-> pc, spec |-> caller[c].spec, file |-> file, result |-> caller[c].result]
<1>1. PICK own \in CallerState : own = [caller[c] EXCEPT !.pc = pc]
  BY GoesOn
<1>2. own.pc = pc /\ own.spec = caller[c].spec /\ own.result = caller[c].result
  BY <1>1, GoesOn
<1>3. [own EXCEPT !.file = file] = [pc |-> own.pc, spec |-> own.spec, file |-> file, result |-> own.result]
  BY DEF CallerState
<1>4. [own EXCEPT !.file = file] \in CallerState
  BY DEF CallerState
<1>5. [caller[c] EXCEPT !.pc = pc, !.file = file] = [own EXCEPT !.file = file]
  BY <1>1
<1> QED BY <1>2, <1>3, <1>4, <1>5

\* ... or with another spec.
LEMMA GoesOnWithSpec ==
    ASSUME CallersTyped, NEW c \in Callers, NEW pc \in Phase, NEW spec \in Seq(Test)
    PROVE  /\ [caller[c] EXCEPT !.pc = pc, !.spec = spec] \in CallerState
           /\ [caller[c] EXCEPT !.pc = pc, !.spec = spec] =
                 [pc |-> pc, spec |-> spec, file |-> caller[c].file, result |-> caller[c].result]
<1>1. PICK own \in CallerState : own = [caller[c] EXCEPT !.pc = pc]
  BY GoesOn
<1>2. own.pc = pc /\ own.file = caller[c].file /\ own.result = caller[c].result
  BY <1>1, GoesOn
<1>3. [own EXCEPT !.spec = spec] = [pc |-> own.pc, spec |-> spec, file |-> own.file, result |-> own.result]
  BY DEF CallerState
<1>4. [own EXCEPT !.spec = spec] \in CallerState
  BY DEF CallerState
<1>5. [caller[c] EXCEPT !.pc = pc, !.spec = spec] = [own EXCEPT !.spec = spec]
  BY <1>1
<1> QED BY <1>2, <1>3, <1>4, <1>5

\* One caller changes, the others stay.
LEMMA SetTyped ==
    ASSUME CallersTyped, NEW c \in Callers, NEW record \in CallerState, Ascending(record.spec), Set(c, record)
    PROVE  CallersTyped' /\ caller'[c] = record /\ \A d \in Callers \ {c} : caller'[d] = caller[d]
  BY DEF CallersTyped, Set

\* What is left of a bound stays a number.
LEMMA SpendTyped ==
    ASSUME budget \in [{"ops", "faults"} -> Nat], NEW what \in {"ops", "faults"}, budget' = budget \/ Spend(what)
    PROVE  budget' \in [{"ops", "faults"} -> Nat]
  BY DEF Spend

\* Steps that begin an operation on the spec.
LEMMA ChangeTyped ==
    ASSUME ATyped, NEW c \in Callers, NEW spec \in Seq(Test), Ascending(spec), Change(c, spec)
    PROVE  /\ CallersTyped' /\ \A d \in Callers \ {c} : caller'[d] = caller[d]
           /\ caller'[c].pc = "save" /\ caller'[c].spec = spec
<1>1. PICK pc \in Phase : pc = "save"
  BY DEF Phase
<1>2. PICK record \in CallerState :
          record = [Idle EXCEPT !.pc = pc, !.spec = spec] /\ record.pc = pc /\ record.spec = spec
  BY SavingTyped
<1>3. Set(c, record)
  BY <1>1, <1>2 DEF Change
<1>4. CallersTyped
  BY DEF ATyped
<1> QED BY <1>1, <1>2, <1>3, <1>4, SetTyped

\* The four operations that save a changed spec, and what they change in it.
Edit(c) == Add(c) \/ Update(c) \/ Delete(c) \/ UpdateLastExecutionStatusAll(c)

\* They keep the types.
LEMMA EditTyped ==
    ASSUME ATyped, NEW c \in Callers, Edit(c)
    PROVE  ATyped' /\ caller'[c].pc = "save" /\ \A d \in Callers \ {c} : caller'[d] = caller[d]
<1>0. tests \in Seq(Test) /\ Ascending(tests) /\ budget \in [{"ops", "faults"} -> Nat]
  BY DEF ATyped, SpecTyped, NotesTyped
<1>1. PICK spec \in Seq(Test) : Ascending(spec) /\ Change(c, spec)
  <2>1. CASE Add(c)
    <3>1. PICK status \in CaseStatus :
              Change(c, Append(tests, [id |-> NextTestId(tests), status |-> status, last |-> "not-run"]))
      BY <2>1 DEF Add
    <3> QED BY <1>0, <3>1, SpecsAscend
  <2>2. CASE Update(c)
    <3>1. PICK i \in DOMAIN tests : \E status \in TransitionAllowed[tests[i].status] :
              Change(c, [tests EXCEPT ![i].status = status])
      BY <2>2 DEF Update
    <3>2. PICK status \in TransitionAllowed[tests[i].status] : Change(c, [tests EXCEPT ![i].status = status])
      BY <3>1
    <3>3. status \in CaseStatus
      BY <1>0, TestParts, TransitionsTyped
    <3>4. tests[i] \in Test /\ [tests[i] EXCEPT !.status = status] \in Test
          /\ [tests[i] EXCEPT !.status = status].id = tests[i].id
      BY <1>0, <3>3, TestParts DEF Test
    <3>5. PICK spec : spec = [tests EXCEPT ![i].status = status]
      OBVIOUS
    <3>6. spec \in Seq(Test) /\ Len(spec) = Len(tests)
      BY <1>0, <3>4, <3>5
    <3>7. \A k \in DOMAIN tests : spec[k].id = tests[k].id
      BY <1>0, <3>4, <3>5
    <3>8. Ascending(spec)
      BY <1>0, <3>6, <3>7, SameIdsAscend
    <3> QED BY <3>2, <3>5, <3>6, <3>8
  <2>3. CASE Delete(c)
    <3>1. PICK i \in DOMAIN tests : Change(c, Without(tests, i))
      BY <2>3 DEF Delete, Without
    <3> QED BY <1>0, <3>1, SpecsAscend
  <2>4. CASE UpdateLastExecutionStatusAll(c)
    <3>1. PICK status \in ExecutionStatus : Change(c, [i \in DOMAIN tests |-> [tests[i] EXCEPT !.last = status]])
      BY <2>4 DEF UpdateLastExecutionStatusAll
    <3>2. PICK f \in [DOMAIN tests -> ExecutionStatus] : f = [i \in DOMAIN tests |-> status]
      OBVIOUS
    <3>3. [i \in DOMAIN tests |-> [tests[i] EXCEPT !.last = status]] = Restated(tests, f)
      BY <3>2 DEF Restated
    <3> QED BY <1>0, <3>1, <3>3, RestatedTyped
  <2> QED BY <2>1, <2>2, <2>3, <2>4 DEF Edit
<1>2. CallersTyped' /\ caller'[c].pc = "save" /\ \A d \in Callers \ {c} : caller'[d] = caller[d]
  BY <1>1, ChangeTyped
<1>3. Begin(c) /\ UNCHANGED <<tests, results, clock>>
  BY DEF Edit, Add, Update, Delete, UpdateLastExecutionStatusAll, FilesUnchanged
<1>4. budget' \in [{"ops", "faults"} -> Nat]
  BY <1>0, <1>3, SpendTyped DEF Begin
<1>5. byHand' \in BOOLEAN /\ behind' \in BOOLEAN /\ torn' \in BOOLEAN /\ retired' \subseteq Nat
  <2>1. \A i \in DOMAIN tests : retired \cup {tests[i].id} \subseteq Nat
    BY <1>0, TestParts DEF ATyped, NotesTyped
  <2> QED BY <2>1 DEF Edit, Add, Update, Delete, UpdateLastExecutionStatusAll, notes, ATyped, NotesTyped
<1>6. NotesTyped'
  BY <1>3, <1>4, <1>5 DEF NotesTyped, ATyped
<1>7. SpecTyped' /\ ResultsTyped'
  BY <1>3 DEF ATyped, SpecTyped, ResultsTyped, Ascending
<1> QED BY <1>2, <1>6, <1>7 DEF ATyped

\* A caller that is about to remove the files.
LEMMA ClearAllDataTyped ==
    ASSUME ATyped, NEW c \in Callers, ClearAllData(c)
    PROVE  /\ ATyped' /\ caller'[c].pc = "clearing" /\ \A d \in Callers \ {c} : caller'[d] = caller[d]
           /\ tests' = tests /\ results' = results /\ clock' = clock /\ UNCHANGED notes
<1>1. tests' = tests /\ results' = results /\ clock' = clock /\ UNCHANGED notes
  BY DEF ClearAllData, FilesUnchanged
<1>2. PICK pc \in Phase : pc = "clearing"
  BY DEF Phase
<1>3. PICK record \in CallerState :
          record = [Idle EXCEPT !.pc = pc] /\ record.pc = pc /\ record.spec = <<>>
  BY RepairingTyped
<1>4. Set(c, record) /\ Ascending(record.spec)
  BY <1>2, <1>3 DEF ClearAllData, Ascending
<1>5. CallersTyped' /\ caller'[c] = record /\ \A d \in Callers \ {c} : caller'[d] = caller[d]
  BY <1>4, SetTyped DEF ATyped
<1>6. budget' \in [{"ops", "faults"} -> Nat]
  BY SpendTyped DEF ClearAllData, Begin, ATyped, NotesTyped
<1>7. SpecTyped' /\ ResultsTyped' /\ NotesTyped'
  BY <1>1, <1>6 DEF notes, ATyped, SpecTyped, ResultsTyped, NotesTyped, Ascending
<1> QED BY <1>1, <1>2, <1>3, <1>5, <1>7 DEF ATyped

\* The spec goes, removed or not readable.
SpecLost(c) == RemoveSpec(c) \/ ReadFails(c)

\* It is empty then.
LEMMA SpecLostTyped ==
    ASSUME ATyped, NEW c \in Callers, SpecLost(c)
    PROVE  /\ ATyped' /\ DOMAIN tests' = {} /\ UNCHANGED <<caller, results, clock>>
           /\ retired' = retired \cup {tests[i].id : i \in DOMAIN tests}
<1>1. SpecGone /\ UNCHANGED <<caller, results, clock>>
  BY DEF SpecLost, RemoveSpec, ReadFails
<1>2. budget' \in [{"ops", "faults"} -> Nat]
  BY SpendTyped DEF SpecLost, RemoveSpec, ReadFails, ATyped, NotesTyped
<1>3. tests' = <<>> /\ DOMAIN tests' = {}
  BY <1>1 DEF SpecGone
<1>4. {tests[i].id : i \in DOMAIN tests} \subseteq Nat
  BY TestParts DEF ATyped, SpecTyped
<1>5. NotesTyped'
  BY <1>1, <1>2, <1>4 DEF SpecGone, ATyped, NotesTyped
<1>6. SpecTyped'
  BY <1>3 DEF SpecTyped, Ascending
<1>7. ResultsTyped' /\ CallersTyped'
  BY <1>1 DEF ATyped, ResultsTyped, CallersTyped, Ascending
<1> QED BY <1>1, <1>3, <1>5, <1>6, <1>7 DEF ATyped, SpecGone

\* A result goes.
LEMMA RemoveResultTyped ==
    ASSUME ATyped, NEW c \in Callers, RemoveResult(c)
    PROVE  /\ ATyped' /\ UNCHANGED <<caller, tests, clock, byHand, behind, retired>>
           /\ DOMAIN results' \subseteq DOMAIN results /\ \A r \in DOMAIN results' : results'[r] = results[r]
           /\ caller[c].pc = "clearing" /\ torn' = (torn \/ tests # <<>>)
<1>1. PICK r \in DOMAIN results : results' = [s \in DOMAIN results \ {r} |-> results[s]]
  BY DEF RemoveResult
<1>2. DOMAIN results' \subseteq DOMAIN results /\ \A s \in DOMAIN results' : results'[s] = results[s]
  BY <1>1
<1>3. /\ UNCHANGED <<caller, tests, clock, byHand, behind, retired, budget>>
      /\ torn' = (torn \/ tests # <<>>) /\ caller[c].pc = "clearing"
  BY DEF RemoveResult
<1>4. ResultsTyped'
  BY <1>2 DEF ATyped, ResultsTyped
<1>5. SpecTyped' /\ CallersTyped' /\ NotesTyped'
  BY <1>3 DEF ATyped, SpecTyped, CallersTyped, NotesTyped, Ascending
<1> QED BY <1>2, <1>3, <1>4, <1>5 DEF ATyped

\* Nothing is left to remove.
LEMMA AllRemovedTyped ==
    ASSUME ATyped, NEW c \in Callers, AllRemoved(c)
    PROVE  /\ ATyped' /\ caller'[c].pc = "idle" /\ \A d \in Callers \ {c} : caller'[d] = caller[d]
           /\ tests' = <<>> /\ DOMAIN results' = {} /\ UNCHANGED <<tests, results, clock>>
<1>1. tests' = <<>> /\ DOMAIN results' = {} /\ UNCHANGED <<tests, results, clock>>
  BY DEF AllRemoved, FilesUnchanged
<1>2. CallersTyped' /\ caller'[c].pc = "idle" /\ \A d \in Callers \ {c} : caller'[d] = caller[d]
  BY IdleTyped, SetTyped DEF AllRemoved, ATyped
<1>3. SpecTyped' /\ ResultsTyped' /\ NotesTyped'
  BY DEF AllRemoved, FilesUnchanged, ATyped, SpecTyped, ResultsTyped, NotesTyped, Ascending
<1> QED BY <1>1, <1>2, <1>3 DEF ATyped

\* The spec is replaced by the caller's copy.
LEMMA SaveSpecTyped ==
    ASSUME ATyped, NEW c \in Callers, SaveSpec(c)
    PROVE  ATyped' /\ caller'[c].pc = "idle" /\ \A d \in Callers \ {c} : caller'[d] = caller[d]
<1>1. CallersTyped' /\ caller'[c].pc = "idle" /\ \A d \in Callers \ {c} : caller'[d] = caller[d]
  BY IdleTyped, SetTyped DEF SaveSpec, ATyped
<1>2. SpecTyped'
  BY CallerParts DEF SaveSpec, ATyped, SpecTyped
<1>3. ResultsTyped' /\ NotesTyped'
  BY DEF SaveSpec, ATyped, ResultsTyped, NotesTyped, notes
<1> QED BY <1>1, <1>2, <1>3 DEF ATyped

\* A result is made, beside a copy of the spec that knows of it.
LEMMA AddResultTyped ==
    ASSUME ATyped, NEW c \in Callers, AddResult(c)
    PROVE  /\ ATyped' /\ caller'[c].pc = "number" /\ \A d \in Callers \ {c} : caller'[d] = caller[d]
           /\ \E i \in DOMAIN tests : \E status \in ExecutionStatus :
                 /\ caller'[c].spec = Cached(tests, tests[i].id, status)
                 /\ caller'[c].result = [test |-> tests[i].id, status |-> status, at |-> clock]
<1>0. tests \in Seq(Test) /\ Ascending(tests) /\ budget \in [{"ops", "faults"} -> Nat] /\ clock \in Nat
  BY DEF ATyped, SpecTyped, NotesTyped
<1>1. PICK i \in DOMAIN tests : \E status \in ExecutionStatus :
          Set(c, [pc |-> "number", spec |-> Cached(tests, tests[i].id, status), file |-> 0,
                  result |-> [test |-> tests[i].id, status |-> status, at |-> clock]])
  BY DEF AddResult
<1>2. PICK status \in ExecutionStatus :
          Set(c, [pc |-> "number", spec |-> Cached(tests, tests[i].id, status), file |-> 0,
                  result |-> [test |-> tests[i].id, status |-> status, at |-> clock]])
  BY <1>1
<1>3. PICK spec \in Seq(Test) : spec = Cached(tests, tests[i].id, status) /\ Ascending(spec)
  BY <1>0, CachedTyped
<1>4. PICK result \in Result : result = [test |-> tests[i].id, status |-> status, at |-> clock]
  BY <1>0, TestParts DEF Result
<1>5. PICK record \in CallerState : record = [pc |-> "number", spec |-> spec, file |-> 0, result |-> result]
  BY DEF CallerState, Phase
<1>6. record.pc = "number" /\ record.spec = spec /\ record.result = result
  BY <1>5
<1>7. Set(c, record)
  BY <1>2, <1>3, <1>4, <1>5
<1>8. CallersTyped' /\ caller'[c] = record /\ \A d \in Callers \ {c} : caller'[d] = caller[d]
  BY <1>3, <1>6, <1>7, SetTyped DEF ATyped
<1>9. SpecTyped' /\ ResultsTyped'
  BY DEF AddResult, FilesUnchanged, ATyped, SpecTyped, ResultsTyped, Ascending
<1>10. budget' \in [{"ops", "faults"} -> Nat]
  BY <1>0, SpendTyped DEF AddResult, Begin
<1>11. NotesTyped'
  BY <1>0, <1>10 DEF AddResult, ATyped, NotesTyped, notes
<1> QED BY <1>3, <1>4, <1>6, <1>8, <1>9, <1>11 DEF ATyped

\* It gets a number that is higher than all on file.
LEMMA NumberResultTyped ==
    ASSUME ATyped, Numbered, NEW c \in Callers, NumberResult(c)
    PROVE  /\ ATyped' /\ caller'[c].pc = "result" /\ \A d \in Callers \ {c} : caller'[d] = caller[d]
           /\ caller'[c].spec = caller[c].spec /\ caller'[c].result = caller[c].result
           /\ caller'[c].file # 0 /\ \A r \in DOMAIN results : r < caller'[c].file
<1>1. PICK file \in Nat \ {0} : file = NextResultId(caller[c].result.test) /\ \A r \in DOMAIN results : r < file
  BY NextResultIdIsNew
<1>2. PICK pc \in Phase : pc = "result"
  BY DEF Phase
<1>3. /\ [caller[c] EXCEPT !.pc = pc, !.file = file] \in CallerState /\ Ascending(caller[c].spec)
      /\ [caller[c] EXCEPT !.pc = pc, !.file = file] =
             [pc |-> pc, spec |-> caller[c].spec, file |-> file, result |-> caller[c].result]
  BY CallerParts, GoesOnWithFile DEF ATyped
<1>4. PICK record \in CallerState :
          /\ record = [caller[c] EXCEPT !.pc = pc, !.file = file]
          /\ record = [pc |-> "result", spec |-> caller[c].spec, file |-> file, result |-> caller[c].result]
  BY <1>2, <1>3
<1>a. Set(c, record)
  BY <1>1, <1>2, <1>4 DEF NumberResult
<1>5. CallersTyped' /\ caller'[c] = record /\ \A d \in Callers \ {c} : caller'[d] = caller[d]
  BY <1>3, <1>4, <1>a, SetTyped DEF ATyped
<1>6. SpecTyped' /\ ResultsTyped' /\ NotesTyped'
  BY DEF NumberResult, FilesUnchanged, ATyped, SpecTyped, ResultsTyped, NotesTyped, notes, Ascending
<1> QED BY <1>1, <1>4, <1>5, <1>6 DEF ATyped

\* It goes on file.
LEMMA SaveResultTyped ==
    ASSUME ATyped, NEW c \in Callers, SaveResult(c), caller[c].file # 0
    PROVE  /\ ATyped' /\ caller'[c].pc = "cache" /\ \A d \in Callers \ {c} : caller'[d] = caller[d]
           /\ caller'[c].spec = caller[c].spec /\ caller'[c].result = caller[c].result
           /\ DOMAIN results' = DOMAIN results \cup {caller[c].file}
           /\ results'[caller[c].file] = caller[c].result
           /\ \A r \in DOMAIN results \ {caller[c].file} : results'[r] = results[r]
<1>1. /\ caller[c].file \in Nat \ {0} /\ caller[c].result \in Result /\ Ascending(caller[c].spec)
      /\ caller[c].spec \in Seq(Test)
  BY CallerParts DEF ATyped
<1>a. PICK pc \in Phase : pc = "cache"
  BY DEF Phase
<1>2. PICK record \in CallerState :
          /\ record = [caller[c] EXCEPT !.pc = pc]
          /\ record = [pc |-> "cache", spec |-> caller[c].spec, file |-> caller[c].file, result |-> caller[c].result]
  BY <1>a, GoesOn DEF ATyped
<1>3. Set(c, record)
  BY <1>a, <1>2 DEF SaveResult
<1>4. CallersTyped' /\ caller'[c] = record /\ \A d \in Callers \ {c} : caller'[d] = caller[d]
  BY <1>1, <1>2, <1>3, SetTyped DEF ATyped
<1>5. /\ DOMAIN results' = DOMAIN results \cup {caller[c].file}
      /\ results'[caller[c].file] = caller[c].result
      /\ \A r \in DOMAIN results \ {caller[c].file} : results'[r] = results[r]
  BY DEF SaveResult
<1>6. ResultsTyped'
  BY <1>1, <1>5 DEF ATyped, ResultsTyped
<1>7. SpecTyped' /\ NotesTyped'
  BY DEF SaveResult, ATyped, SpecTyped, NotesTyped, notes, Ascending
<1> QED BY <1>2, <1>4, <1>5, <1>6, <1>7 DEF ATyped

\* The copy is saved, or the save fails.
LEMMA SaveCacheTyped ==
    ASSUME ATyped, NEW c \in Callers, SaveCache(c)
    PROVE  /\ ATyped' /\ \A d \in Callers \ {c} : caller'[d] = caller[d]
           /\ \/ caller'[c].pc = "idle" /\ tests' = caller[c].spec
              \/ caller'[c].pc = "reload" /\ tests' = tests
<1>0. /\ caller[c].file \in Nat /\ caller[c].result \in Result /\ Ascending(caller[c].spec)
      /\ caller[c].spec \in Seq(Test)
  BY CallerParts DEF ATyped
<1>1. NotesTyped' /\ ResultsTyped'
  <2>1. budget' \in [{"ops", "faults"} -> Nat]
    BY SpendTyped DEF SaveCache, ATyped, NotesTyped
  <2> QED BY <2>1 DEF SaveCache, ATyped, NotesTyped, ResultsTyped, notes
<1>2. CASE tests' = caller[c].spec /\ Set(c, Idle)
  <2>1. CallersTyped' /\ caller'[c].pc = "idle" /\ \A d \in Callers \ {c} : caller'[d] = caller[d]
    BY <1>2, IdleTyped, SetTyped DEF ATyped
  <2> QED BY <1>0, <1>1, <1>2, <2>1 DEF ATyped, SpecTyped
<1>3. CASE tests' = tests /\ Set(c, [caller[c] EXCEPT !.pc = "reload"])
  <2>a. PICK pc \in Phase : pc = "reload"
    BY DEF Phase
  <2>1. PICK record \in CallerState :
            /\ record = [caller[c] EXCEPT !.pc = pc]
            /\ record = [pc |-> "reload", spec |-> caller[c].spec, file |-> caller[c].file, result |-> caller[c].result]
    BY <2>a, GoesOn DEF ATyped
  <2>2. Set(c, record)
    BY <1>3, <2>a, <2>1
  <2>3. CallersTyped' /\ caller'[c] = record /\ \A d \in Callers \ {c} : caller'[d] = caller[d]
    BY <1>0, <2>1, <2>2, SetTyped DEF ATyped
  <2>4. SpecTyped'
    BY <1>3 DEF ATyped, SpecTyped, Ascending
  <2> QED BY <1>1, <1>3, <2>1, <2>3, <2>4 DEF ATyped
<1> QED BY <1>2, <1>3 DEF SaveCache

\* A repair begins, or reads the spec again.
LEMMA ReloadTyped ==
    ASSUME ATyped, NEW c \in Callers, SelfHeal(c) \/ Reload(c)
    PROVE  /\ ATyped' /\ \A d \in Callers \ {c} : caller'[d] = caller[d]
           /\ caller'[c].pc = "reload" \/ (caller'[c].pc = "heal" /\ caller'[c].spec = tests)
<1>0. tests \in Seq(Test) /\ Ascending(tests) /\ budget \in [{"ops", "faults"} -> Nat]
  BY DEF ATyped, SpecTyped, NotesTyped
<1>1. SpecTyped' /\ ResultsTyped' /\ NotesTyped'
  <2>1. budget' \in [{"ops", "faults"} -> Nat]
    BY <1>0, SpendTyped DEF SelfHeal, Reload, Begin
  <2> QED BY <2>1 DEF SelfHeal, Reload, FilesUnchanged, ATyped, SpecTyped, ResultsTyped, NotesTyped, notes, Ascending
<1>2. CASE SelfHeal(c)
  <2>a. PICK pc \in Phase : pc = "reload"
    BY DEF Phase
  <2>1. PICK record \in CallerState : record = [Idle EXCEPT !.pc = pc] /\ record.pc = pc /\ record.spec = <<>>
    BY RepairingTyped
  <2>2. Set(c, record) /\ Ascending(record.spec)
    BY <1>2, <2>a, <2>1 DEF SelfHeal, Ascending
  <2> QED BY <1>1, <2>a, <2>1, <2>2, SetTyped DEF ATyped
<1>3. CASE Reload(c)
  <2>1. PICK pc \in Phase : pc = "heal"
    BY DEF Phase
  <2>2. PICK record \in CallerState :
            /\ record = [caller[c] EXCEPT !.pc = pc, !.spec = tests]
            /\ record = [pc |-> "heal", spec |-> tests, file |-> caller[c].file, result |-> caller[c].result]
    BY <1>0, <2>1, GoesOnWithSpec DEF ATyped
  <2>3. Set(c, record) /\ record.pc = "heal" /\ record.spec = tests
    BY <1>3, <2>1, <2>2 DEF Reload
  <2>4. CallersTyped' /\ caller'[c] = record /\ \A d \in Callers \ {c} : caller'[d] = caller[d]
    BY <1>0, <2>3, SetTyped DEF ATyped
  <2> QED BY <1>1, <2>3, <2>4 DEF ATyped
<1> QED BY <1>2, <1>3

\* The cache is rebuilt from the results.
LEMMA HealTyped ==
    ASSUME ATyped, Dated, NEW c \in Callers, Heal(c)
    PROVE  ATyped' /\ caller'[c].pc = "idle" /\ \A d \in Callers \ {c} : caller'[d] = caller[d]
<1>0. Ascending(caller[c].spec) /\ caller[c].spec \in Seq(Test)
  BY CallerParts DEF ATyped
<1>1. CallersTyped' /\ caller'[c].pc = "idle" /\ \A d \in Callers \ {c} : caller'[d] = caller[d]
  BY IdleTyped, SetTyped DEF Heal, ATyped
<1>2. SpecTyped'
  <2> DEFINE f == [i \in DOMAIN caller[c].spec |-> LatestStatus(caller[c].spec[i].id)]
  <2>1. f \in [DOMAIN caller[c].spec -> ExecutionStatus]
    BY LatestStatusTyped
  <2>2. Healed(caller[c].spec) = Restated(caller[c].spec, f)
    BY DEF Healed, Restated
  <2> HIDE DEF f
  <2>3. Healed(caller[c].spec) \in Seq(Test) /\ Ascending(Healed(caller[c].spec))
    BY <1>0, <2>1, <2>2, RestatedTyped
  <2> QED BY <2>3 DEF Heal, ATyped, SpecTyped, Ascending
<1>3. budget' \in [{"ops", "faults"} -> Nat]
  BY SpendTyped DEF Heal, ATyped, NotesTyped
<1>4. ResultsTyped' /\ NotesTyped'
  BY <1>3 DEF Heal, ATyped, ResultsTyped, NotesTyped
<1> QED BY <1>1, <1>2, <1>4 DEF ATyped

\* A caller ends anywhere.
LEMMA CrashTyped ==
    ASSUME ATyped, NEW c \in Callers, Crash(c)
    PROVE  ATyped' /\ caller'[c].pc = "idle" /\ \A d \in Callers \ {c} : caller'[d] = caller[d]
<1>1. CallersTyped' /\ caller'[c].pc = "idle" /\ \A d \in Callers \ {c} : caller'[d] = caller[d]
  BY IdleTyped, SetTyped DEF Crash, ATyped
<1>2. budget' \in [{"ops", "faults"} -> Nat]
  BY SpendTyped DEF Crash, ATyped, NotesTyped
<1>3. SpecTyped' /\ ResultsTyped' /\ NotesTyped'
  BY <1>2 DEF Crash, FilesUnchanged, ATyped, SpecTyped, ResultsTyped, NotesTyped, Ascending
<1> QED BY <1>1, <1>3 DEF ATyped

--------------------------------------------------------------------------------
(* The types, whether or not callers overlap. *)

\* A caller that prepares no result, and a step that saves none.
LEMMA NothingPrepared ==
    ASSUME ATyped, ATyped', Numbered, Dated, Prepared, NEW c \in Callers,
           \A d \in Callers \ {c} : caller'[d] = caller[d], caller'[c].pc \notin {"number", "result"},
           results' = results, clock' = clock
    PROVE  TypeInv'
<1>1. Numbered' /\ Dated'
  BY DEF Numbered, Dated
<1>2. Prepared'
  BY DEF Prepared
<1> QED BY <1>1, <1>2 DEF TypeInv

\* Of fewer results one still has the highest number.
LEMMA FewerNumbered ==
    ASSUME ATyped, Numbered, DOMAIN results' \subseteq DOMAIN results
    PROVE  Numbered'
<1>1. PICK fewer : fewer = DOMAIN results'
  OBVIOUS
<1>2. fewer \in SUBSET Nat
  BY <1>1 DEF ATyped, ResultsTyped
<1>3. PICK m \in {0} \cup DOMAIN results : \A r \in DOMAIN results : r =< m
  BY DEF Numbered
<1>4. m \in Nat
  BY <1>3 DEF ATyped, ResultsTyped
<1>5. CASE fewer = {}
  BY <1>1, <1>5 DEF Numbered
<1>6. CASE fewer # {}
  <2>1. PICK bound \in Nat : bound = m + 1
    BY <1>4
  <2>2. \A r \in fewer : r < bound
    BY <1>1, <1>2, <1>3, <1>4, <2>1
  <2>3. PICK d \in fewer : \A other \in fewer : other =< d
    BY <1>2, <1>6, <2>2, LastExists
  <2> QED BY <1>1, <2>3 DEF Numbered
<1> QED BY <1>5, <1>6

\* What has been prepared is of the past, and has a number.
LEMMA PreparedBy ==
    ASSUME Prepared, NEW c \in Callers
    PROVE  /\ caller[c].pc \in {"number", "result"} => caller[c].result.at < clock
           /\ caller[c].pc = "result" => caller[c].file # 0
  BY DEF Prepared

LEMMA TypeInvStep ==
    ASSUME TypeInv, [Next]_vars
    PROVE  TypeInv'
<1>0. ATyped /\ Numbered /\ Dated /\ Prepared /\ clock \in Nat
  BY DEF TypeInv, ATyped, NotesTyped
<1>1. ASSUME NEW c \in Callers, Edit(c) PROVE TypeInv'
  <2>1. ATyped' /\ caller'[c].pc = "save" /\ \A d \in Callers \ {c} : caller'[d] = caller[d]
    BY <1>0, <1>1, EditTyped
  <2>2. results' = results /\ clock' = clock
    BY <1>1 DEF Edit, Add, Update, Delete, UpdateLastExecutionStatusAll, FilesUnchanged
  <2> QED BY <1>0, <2>1, <2>2, NothingPrepared
<1>2. ASSUME NEW c \in Callers, ClearAllData(c) \/ AllRemoved(c) PROVE TypeInv'
  <2>1. /\ ATyped' /\ caller'[c].pc \in {"clearing", "idle"} /\ \A d \in Callers \ {c} : caller'[d] = caller[d]
        /\ results' = results /\ clock' = clock
    BY <1>0, <1>2, ClearAllDataTyped, AllRemovedTyped
  <2> QED BY <1>0, <2>1, NothingPrepared
<1>12. ASSUME NEW c \in Callers, SpecLost(c) \/ RemoveResult(c) PROVE TypeInv'
  <2>1. /\ ATyped' /\ UNCHANGED <<caller, clock>> /\ DOMAIN results' \subseteq DOMAIN results
        /\ \A r \in DOMAIN results' : results'[r] = results[r]
    BY <1>0, <1>12, SpecLostTyped, RemoveResultTyped
  <2>2. Numbered'
    BY <1>0, <2>1, FewerNumbered
  <2>3. Dated' /\ Prepared'
    BY <1>0, <2>1 DEF Dated, Prepared
  <2> QED BY <2>1, <2>2, <2>3 DEF TypeInv
<1>3. ASSUME NEW c \in Callers, SaveSpec(c) PROVE TypeInv'
  <2>1. ATyped' /\ caller'[c].pc = "idle" /\ \A d \in Callers \ {c} : caller'[d] = caller[d]
    BY <1>0, <1>3, SaveSpecTyped
  <2> QED BY <1>0, <1>3, <2>1, NothingPrepared DEF SaveSpec
<1>4. ASSUME NEW c \in Callers, AddResult(c) PROVE TypeInv'
  <2>1. /\ ATyped' /\ caller'[c].pc = "number" /\ \A d \in Callers \ {c} : caller'[d] = caller[d]
        /\ \E i \in DOMAIN tests : \E status \in ExecutionStatus :
               caller'[c].result = [test |-> tests[i].id, status |-> status, at |-> clock]
    BY <1>0, <1>4, AddResultTyped
  <2>2. caller'[c].result.at = clock /\ clock' = clock + 1 /\ results' = results
    BY <1>4, <2>1 DEF AddResult, FilesUnchanged
  <2>3. ASSUME NEW r \in DOMAIN results PROVE results[r].at < clock + 1
    <3>1. results[r].at \in Nat /\ results[r].at < clock
      BY <1>0 DEF ATyped, ResultsTyped, Result, Dated
    <3> QED BY <1>0, <3>1
  <2>4. Numbered' /\ Dated'
    BY <1>0, <2>2, <2>3 DEF Numbered, Dated
  <2>5. ASSUME NEW d \in Callers, d # c, caller[d].pc \in {"number", "result"} PROVE caller'[d].result.at < clock'
    <3>1. caller[d].result.at < clock
      BY <1>0, <2>5, PreparedBy
    <3>2. caller[d].result.at \in Nat
      BY <1>0, CallerParts DEF ATyped, Result
    <3>3. caller'[d] = caller[d]
      BY <2>1, <2>5
    <3> QED BY <1>0, <2>2, <3>1, <3>2, <3>3
  <2>6. Prepared'
    <3>1. caller'[c].result.at < clock' /\ caller'[c].pc # "result"
      BY <1>0, <2>1, <2>2
    <3>2. ASSUME NEW d \in Callers, d # c
          PROVE  /\ caller'[d].pc \in {"number", "result"} => caller'[d].result.at < clock'
                 /\ caller'[d].pc = "result" => caller'[d].file # 0
      <4>1. caller'[d] = caller[d]
        BY <2>1, <3>2
      <4>2. caller[d].pc = "result" => caller[d].file # 0
        BY <1>0, PreparedBy
      <4> QED BY <2>5, <3>2, <4>1, <4>2
    <3> QED BY <3>1, <3>2 DEF Prepared
  <2> QED BY <2>1, <2>4, <2>6 DEF TypeInv
<1>5. ASSUME NEW c \in Callers, NumberResult(c) PROVE TypeInv'
  <2>1. /\ ATyped' /\ caller'[c].pc = "result" /\ \A d \in Callers \ {c} : caller'[d] = caller[d]
        /\ caller'[c].result = caller[c].result /\ caller'[c].file # 0
    BY <1>0, <1>5, NumberResultTyped
  <2>2. caller[c].pc = "number" /\ results' = results /\ clock' = clock
    BY <1>5 DEF NumberResult, FilesUnchanged
  <2>3. Numbered' /\ Dated' /\ Prepared'
    BY <1>0, <2>1, <2>2 DEF Numbered, Dated, Prepared
  <2> QED BY <2>1, <2>3 DEF TypeInv
<1>6. ASSUME NEW c \in Callers, SaveResult(c) PROVE TypeInv'
  <2>0. caller[c].pc = "result" /\ clock' = clock
    BY <1>6 DEF SaveResult
  <2>1. caller[c].pc = "result" /\ caller[c].file # 0 /\ caller[c].result.at < clock /\ clock' = clock
    BY <1>0, <2>0, PreparedBy
  <2>2. /\ ATyped' /\ caller'[c].pc = "cache" /\ \A d \in Callers \ {c} : caller'[d] = caller[d]
        /\ DOMAIN results' = DOMAIN results \cup {caller[c].file}
        /\ results'[caller[c].file] = caller[c].result
        /\ \A r \in DOMAIN results \ {caller[c].file} : results'[r] = results[r]
    BY <1>0, <1>6, <2>1, SaveResultTyped
  <2>3. PICK file \in Nat : file = caller[c].file
    BY <1>0, CallerParts DEF ATyped
  <2>4. Numbered'
    <3>1. DOMAIN results \subseteq Nat
      BY <1>0 DEF ATyped, ResultsTyped
    <3>2. PICK m \in {0} \cup DOMAIN results : \A r \in DOMAIN results : r =< m
      BY <1>0 DEF Numbered
    <3>3. CASE file =< m
      BY <2>2, <2>3, <3>1, <3>2, <3>3 DEF Numbered
    <3>4. CASE m =< file
      BY <2>2, <2>3, <3>1, <3>2, <3>4 DEF Numbered
    <3> QED BY <2>3, <3>1, <3>2, <3>3, <3>4
  <2>5. Dated'
    BY <1>0, <2>1, <2>2 DEF Dated
  <2>6. Prepared'
    BY <1>0, <2>1, <2>2 DEF Prepared
  <2> QED BY <2>2, <2>4, <2>5, <2>6 DEF TypeInv
<1>7. ASSUME NEW c \in Callers, SaveCache(c) PROVE TypeInv'
  <2>1. ATyped' /\ caller'[c].pc \in {"idle", "reload"} /\ \A d \in Callers \ {c} : caller'[d] = caller[d]
    BY <1>0, <1>7, SaveCacheTyped
  <2> QED BY <1>0, <1>7, <2>1, NothingPrepared DEF SaveCache
<1>8. ASSUME NEW c \in Callers, SelfHeal(c) \/ Reload(c) PROVE TypeInv'
  <2>1. ATyped' /\ caller'[c].pc \in {"reload", "heal"} /\ \A d \in Callers \ {c} : caller'[d] = caller[d]
    BY <1>0, <1>8, ReloadTyped
  <2>2. results' = results /\ clock' = clock
    BY <1>8 DEF SelfHeal, Reload, FilesUnchanged
  <2> QED BY <1>0, <2>1, <2>2, NothingPrepared
<1>9. ASSUME NEW c \in Callers, Heal(c) PROVE TypeInv'
  <2>1. ATyped' /\ caller'[c].pc = "idle" /\ \A d \in Callers \ {c} : caller'[d] = caller[d]
    BY <1>0, <1>9, HealTyped
  <2> QED BY <1>0, <1>9, <2>1, NothingPrepared DEF Heal
<1>10. ASSUME NEW c \in Callers, Crash(c) PROVE TypeInv'
  <2>1. ATyped' /\ caller'[c].pc = "idle" /\ \A d \in Callers \ {c} : caller'[d] = caller[d]
    BY <1>0, <1>10, CrashTyped
  <2> QED BY <1>0, <1>10, <2>1, NothingPrepared DEF Crash, FilesUnchanged
<1>11. ASSUME UNCHANGED vars PROVE TypeInv'
  <2>1. ATyped'
    BY <1>0, <1>11 DEF vars, ATyped, SpecTyped, CallersTyped, ResultsTyped, NotesTyped, Ascending
  <2>2. Numbered' /\ Dated' /\ Prepared'
    BY <1>0, <1>11 DEF vars, Numbered, Dated, Prepared
  <2> QED BY <2>1, <2>2 DEF TypeInv
<1> QED BY <1>1, <1>2, <1>3, <1>4, <1>5, <1>6, <1>7, <1>8, <1>9, <1>10, <1>11, <1>12 DEF Next, Edit, SpecLost

LEMMA InitTypeInv == ASSUME Init PROVE TypeInv
<1>1. SpecTyped /\ ResultsTyped
  BY DEF Init, SpecTyped, ResultsTyped, Ascending
<1>2. CallersTyped /\ \A c \in Callers : caller[c].pc = "idle"
  BY IdleTyped DEF Init, CallersTyped
<1>3. budget \in [{"ops", "faults"} -> Nat]
  BY AcceptanceBounds DEF Init
<1>4. ATyped
  BY <1>1, <1>2, <1>3 DEF Init, ATyped, NotesTyped
<1>5. Numbered /\ Dated /\ Prepared
  BY <1>2 DEF Init, Numbered, Dated, Prepared
<1> QED BY <1>4, <1>5 DEF TypeInv

\* Tests have ids of their own, whatever is added, deleted and saved by callers in turn or at once,
\* and everything has its type.
THEOREM TestsTyped == Spec => []TypeOK
<1>1. TypeInv => TypeOK
  <2> SUFFICES ASSUME TypeInv PROVE TypeOK
    OBVIOUS
  <2>1. UniqueIds(tests)
    BY AscendingUnique DEF TypeInv, ATyped, SpecTyped
  <2>2. \A c \in Callers : /\ caller[c].pc \in Phase /\ caller[c].spec \in Seq(Test)
                           /\ caller[c].file \in Nat /\ caller[c].result \in Result
    BY CallerParts DEF TypeInv, ATyped
  <2> QED BY <2>1, <2>2 DEF TypeInv, ATyped, SpecTyped, ResultsTyped, NotesTyped, TypeOK, Phase
<1> QED BY <1>1, InitTypeInv, TypeInvStep, PTL DEF Spec

--------------------------------------------------------------------------------
(* The cache. *)

\* With callers that do not overlap the others are idle while one takes a step.
OthersIdle(c) == \A d \in Callers \ {c} : caller[d].pc = "idle"

\* ... since one begins only then.
LEMMA OthersAreIdle ==
    ASSUME Overlap = FALSE, OneBusy, NEW c \in Callers, Begin(c) \/ caller[c].pc # "idle"
    PROVE  OthersIdle(c)
  BY DEF OneBusy, Begin, OthersIdle

\* What a caller at work and the spec satisfy need only be shown for that caller.
LEMMA OthersStay ==
    ASSUME NEW c \in Callers, OthersIdle(c), \A d \in Callers \ {c} : caller'[d] = caller[d], AtWork(c)'
    PROVE  OneBusy' /\ \A d \in Callers : AtWork(d)'
<1>1. \A d \in Callers \ {c} : caller'[d].pc = "idle"
  BY DEF OthersIdle
<1>2. OneBusy'
  BY <1>1 DEF OneBusy
<1>3. \A d \in Callers \ {c} : AtWork(d)'
  BY <1>1 DEF AtWork
<1> QED BY <1>2, <1>3

\* Steps that leave the results alone.
LEMMA ResultFactsKept ==
    ASSUME ATyped, ResultFacts, results' = results, clock' \in {clock, clock + 1}
    PROVE  ResultFacts'
<1>1. Numbered' /\ HasLatest'
  BY DEF ResultFacts, Numbered, HasLatest, IsLatest
<1>2. \A r \in DOMAIN results : results[r].at \in Nat
  BY DEF ATyped, ResultsTyped, Result
<1>3. InTime'
  BY <1>2 DEF ATyped, NotesTyped, ResultFacts, InTime
<1> QED BY <1>1, <1>3 DEF ResultFacts

\* The cache of one and the same spec, before and after such a step.
LEMMA CacheKept ==
    ASSUME NEW spec, results' = results, retired \subseteq retired'
    PROVE  /\ Covers(spec) => Covers(spec)'
           /\ Backed(spec) => Backed(spec)'
           /\ Fits(spec) => Fits(spec)'
<1>1. \A t : LatestStatus(t)' = LatestStatus(t)
  BY DEF LatestStatus
<1>2. Fits(spec) => Fits(spec)'
  BY <1>1 DEF Fits
<1> QED BY <1>2 DEF Covers, Backed

\* A spec by its name and by its value after a step.
LEMMA TestsNamed ==
    ASSUME NEW spec, spec = tests'
    PROVE  /\ Covers(tests)' <=> Covers(spec)'
           /\ Backed(tests)' <=> Backed(spec)'
           /\ Fits(tests)' <=> Fits(spec)'
  BY DEF Covers, Backed, Fits

\* The copy of a caller by its name and by its value after a step.
LEMMA CopyNamed ==
    ASSUME NEW c \in Callers, NEW spec, spec = caller'[c].spec
    PROVE  Ready(caller[c].spec)' <=> Ready(spec)'
  BY DEF Ready, Covers, Backed, Fits

\* A spec that is saved.
LEMMA ReadySaved ==
    ASSUME NEW spec, spec = tests', results' = results, byHand' = byHand, behind' = behind, torn' = torn,
           retired' = retired, Ready(spec)
    PROVE  CacheTrue'
<1>1. Ready(spec)'
  BY CacheKept DEF Ready
<1> QED BY <1>1, TestsNamed DEF Ready, CacheTrue

\* A spec that stays.
LEMMA CacheTrueKept ==
    ASSUME CacheTrue, tests' = tests, results' = results, retired \subseteq retired', Settled' => Settled,
           byHand => byHand', behind => behind', torn => torn'
    PROVE  CacheTrue'
<1>1. PICK spec : spec = tests
  OBVIOUS
<1>2. /\ Covers(spec) /\ (~byHand /\ ~torn => Backed(spec))
      /\ (~byHand /\ ~torn /\ ~behind /\ Settled => Fits(spec))
  BY <1>1 DEF CacheTrue
<1>3. /\ Covers(spec)' /\ (~byHand' /\ ~torn' => Backed(spec)')
      /\ (~byHand' /\ ~torn' /\ ~behind' /\ Settled' => Fits(spec)')
  BY <1>2, CacheKept
<1> QED BY <1>1, <1>3, TestsNamed DEF CacheTrue

\* A spec with a new test: no result is of that test, unless it has taken over the id of a deleted one.
LEMMA AddReady ==
    ASSUME ATyped, Covers(tests), NEW status,
           NEW spec, spec = Append(tests, [id |-> NextTestId(tests), status |-> status, last |-> "not-run"])
    PROVE  Covers(spec) /\ (Backed(tests) => Backed(spec)) /\ (Fits(tests) => Fits(spec))
<1>0. tests \in Seq(Test) /\ Ascending(tests)
  BY DEF ATyped, SpecTyped
<1>1. PICK test : test = [id |-> NextTestId(tests), status |-> status, last |-> "not-run"]
  OBVIOUS
<1>2. test.id = NextTestId(tests) /\ test.last = "not-run"
  BY <1>1
<1>3. DOMAIN spec = DOMAIN tests \cup {Len(tests) + 1} /\ Len(tests) \in Nat /\ spec[Len(tests) + 1] = test
  BY <1>0, <1>1
<1>4. \A i \in DOMAIN tests : spec[i] = tests[i]
  BY <1>0, <1>1
<1>5. Covers(spec)
  BY <1>3, <1>4 DEF Covers
<1>6. Backed(tests) => Backed(spec)
  BY <1>2, <1>3, <1>4 DEF Backed
<1>7. test.id \in retired \/ LatestStatus(test.id) = "not-run"
  <2>1. \A i \in DOMAIN tests : tests[i].id # test.id
    BY <1>0, <1>2, NextTestIdIsNew, TestParts
  <2>2. test.id \in retired \/ \A r \in DOMAIN results : results[r].test # test.id
    BY <2>1 DEF Covers
  <2> QED BY <2>2, LatestStatusOfNone
<1>8. Fits(tests) => Fits(spec)
  BY <1>2, <1>3, <1>4, <1>7 DEF Fits
<1> QED BY <1>5, <1>6, <1>8

\* A change of a test's case status.
LEMMA UpdateReady ==
    ASSUME ATyped, Covers(tests), NEW i \in DOMAIN tests, NEW status,
           NEW spec, spec = [tests EXCEPT ![i].status = status]
    PROVE  Covers(spec) /\ (Backed(tests) => Backed(spec)) /\ (Fits(tests) => Fits(spec))
<1>0. tests \in Seq(Test) /\ tests[i] \in Test
  BY TestParts DEF ATyped, SpecTyped
<1>1. [tests[i] EXCEPT !.status = status].id = tests[i].id /\ [tests[i] EXCEPT !.status = status].last = tests[i].last
  BY <1>0 DEF Test
<1>2. DOMAIN spec = DOMAIN tests /\ \A k \in DOMAIN tests : spec[k].id = tests[k].id /\ spec[k].last = tests[k].last
  BY <1>0, <1>1
<1>3. Covers(spec) /\ (Backed(tests) => Backed(spec))
  BY <1>2 DEF Covers, Backed
<1>4. Fits(tests) => Fits(spec)
  BY <1>2 DEF Fits
<1> QED BY <1>3, <1>4

\* A test that is deleted leaves its results, and its id to a test to come.
LEMMA DeleteReady ==
    ASSUME ATyped, Covers(tests), NEW i \in DOMAIN tests, NEW spec, spec = Without(tests, i),
           results' = results, retired' = retired \cup {tests[i].id}
    PROVE  Covers(spec)' /\ (Backed(tests) => Backed(spec)') /\ (Fits(tests) => Fits(spec)')
<1>0. tests \in Seq(Test) /\ DOMAIN tests = 1 .. Len(tests) /\ Len(tests) \in Nat /\ i \in 1 .. Len(tests)
  BY DEF ATyped, SpecTyped
<1>1. DOMAIN spec = 1 .. Len(tests) - 1 /\ \A k \in DOMAIN spec : spec[k] = tests[IF k < i THEN k ELSE k + 1]
  BY <1>0, WithoutOne
<1>2. \A k \in DOMAIN spec : \E m \in DOMAIN tests : spec[k] = tests[m]
  BY <1>0, <1>1
<1>3. ASSUME NEW m \in DOMAIN tests, m # i PROVE \E k \in DOMAIN spec : spec[k] = tests[m]
  <2>1. CASE m < i
    <3>1. m \in DOMAIN spec /\ spec[m] = tests[m]
      BY <1>0, <1>1, <2>1
    <3> QED BY <3>1
  <2>2. CASE m > i
    <3>1. m - 1 \in DOMAIN spec /\ spec[m - 1] = tests[m]
      BY <1>0, <1>1, <2>2
    <3> QED BY <3>1
  <2> QED BY <1>0, <1>3, <2>1, <2>2
<1>4. Covers(spec)'
  BY <1>3 DEF Covers
<1>5. Backed(tests) => Backed(spec)
  BY <1>2 DEF Backed
<1>6. Fits(tests) => Fits(spec)
  BY <1>2 DEF Fits
<1> QED BY <1>4, <1>5, <1>6, CacheKept

\* A change of all the statuses by hand.
LEMMA SetByHandReady ==
    ASSUME Covers(tests), NEW status, NEW spec, spec = [i \in DOMAIN tests |-> [tests[i] EXCEPT !.last = status]],
           ATyped
    PROVE  Covers(spec)
<1>0. \A i \in DOMAIN tests : tests[i] \in Test
  BY TestParts DEF ATyped, SpecTyped
<1>1. \A i \in DOMAIN tests : [tests[i] EXCEPT !.last = status].id = tests[i].id
  BY <1>0 DEF Test
<1>2. DOMAIN spec = DOMAIN tests /\ \A i \in DOMAIN tests : spec[i].id = tests[i].id
  BY <1>1
<1> QED BY <1>2 DEF Covers

--------------------------------------------------------------------------------
(* Every step keeps the invariant. *)

\* An operation begins when everyone is idle, so the spec is as true as the history allows.
LEMMA BeginsReady ==
    ASSUME Alone, IInv, NEW c \in Callers, Begin(c)
    PROVE  OthersIdle(c) /\ Settled /\ Ready(tests)
<1>1. OthersIdle(c) /\ \A d \in Callers : caller[d].pc = "idle"
  BY OthersAreIdle DEF Alone, IInv, Begin, OneBusy
<1> QED BY <1>1 DEF IInv, CacheTrue, Ready, Settled

\* The operations on the spec keep the invariant.
LEMMA EditKeeps ==
    ASSUME Alone, IInv, NEW c \in Callers, Edit(c)
    PROVE  IInv'
<1>0. ATyped /\ Covers(tests) /\ Begin(c) /\ results' = results /\ tests' = tests /\ clock' = clock
  BY DEF IInv, CacheTrue, Edit, Add, Update, Delete, UpdateLastExecutionStatusAll, FilesUnchanged
<1>1. OthersIdle(c) /\ Settled /\ Ready(tests)
  BY <1>0, BeginsReady
<1>2. ATyped' /\ caller'[c].pc = "save" /\ \A d \in Callers \ {c} : caller'[d] = caller[d]
  BY <1>0, EditTyped
<1>3. (byHand => byHand') /\ (behind => behind') /\ (torn => torn') /\ retired \subseteq retired'
  BY DEF Edit, Add, Update, Delete, UpdateLastExecutionStatusAll, notes
<1>4. \A s : Change(c, s) => caller'[c].spec = s
  BY <1>0 DEF Change, Set, Idle, ATyped, CallersTyped
<1>5. Ready(caller[c].spec)'
  <2>1. CASE Add(c)
    <3>1. PICK status \in CaseStatus :
              Change(c, Append(tests, [id |-> NextTestId(tests), status |-> status, last |-> "not-run"]))
      BY <2>1 DEF Add
    <3>2. PICK spec : spec = Append(tests, [id |-> NextTestId(tests), status |-> status, last |-> "not-run"])
      OBVIOUS
    <3>3. Covers(spec) /\ (Backed(tests) => Backed(spec)) /\ (Fits(tests) => Fits(spec))
      BY <1>0, <3>2, AddReady
    <3>4. Ready(spec)'
      BY <1>0, <1>1, <1>3, <3>3, CacheKept DEF Ready
    <3> QED BY <1>4, <3>1, <3>2, <3>4, CopyNamed
  <2>2. CASE Update(c)
    <3>1. PICK i \in DOMAIN tests : \E status \in TransitionAllowed[tests[i].status] :
              Change(c, [tests EXCEPT ![i].status = status])
      BY <2>2 DEF Update
    <3>2. PICK status : Change(c, [tests EXCEPT ![i].status = status])
      BY <3>1
    <3>3. PICK spec : spec = [tests EXCEPT ![i].status = status]
      OBVIOUS
    <3>4. Covers(spec) /\ (Backed(tests) => Backed(spec)) /\ (Fits(tests) => Fits(spec))
      BY <1>0, <3>3, UpdateReady
    <3>5. Ready(spec)'
      BY <1>0, <1>1, <1>3, <3>4, CacheKept DEF Ready
    <3> QED BY <1>4, <3>2, <3>3, <3>5, CopyNamed
  <2>3. CASE Delete(c)
    <3>1. PICK i \in DOMAIN tests : Change(c, Without(tests, i)) /\ retired' = retired \cup {tests[i].id}
      BY <2>3 DEF Delete, Without
    <3>2. PICK spec : spec = Without(tests, i)
      OBVIOUS
    <3>3. Covers(spec)' /\ (Backed(tests) => Backed(spec)') /\ (Fits(tests) => Fits(spec)')
      BY <1>0, <3>1, <3>2, DeleteReady
    <3>4. Ready(spec)'
      BY <1>1, <1>3, <3>3 DEF Ready
    <3> QED BY <1>4, <3>1, <3>2, <3>4, CopyNamed
  <2>4. CASE UpdateLastExecutionStatusAll(c)
    <3>1. PICK status \in ExecutionStatus : Change(c, [i \in DOMAIN tests |-> [tests[i] EXCEPT !.last = status]])
      BY <2>4 DEF UpdateLastExecutionStatusAll
    <3>2. PICK spec : spec = [i \in DOMAIN tests |-> [tests[i] EXCEPT !.last = status]]
      OBVIOUS
    <3>3. Covers(spec)'
      BY <1>0, <1>3, <3>2, SetByHandReady, CacheKept
    <3>4. byHand' = TRUE
      BY <2>4 DEF UpdateLastExecutionStatusAll
    <3>5. Ready(spec)'
      BY <3>3, <3>4 DEF Ready
    <3> QED BY <1>4, <3>1, <3>2, <3>5, CopyNamed
  <2> QED BY <2>1, <2>2, <2>3, <2>4 DEF Edit
<1>6. AtWork(c)'
  BY <1>2, <1>5 DEF AtWork
<1>7. CacheTrue'
  BY <1>0, <1>1, <1>3, CacheTrueKept DEF IInv
<1>8. ResultFacts'
  BY <1>0, ResultFactsKept DEF IInv
<1> QED BY <1>1, <1>2, <1>6, <1>7, <1>8, OthersStay DEF IInv

\* So does the beginning of a removal.
LEMMA ClearAllDataKeeps ==
    ASSUME Alone, IInv, NEW c \in Callers, ClearAllData(c)
    PROVE  IInv'
<1>1. OthersIdle(c) /\ Settled
  BY BeginsReady DEF ClearAllData
<1>2. /\ ATyped' /\ caller'[c].pc = "clearing" /\ \A d \in Callers \ {c} : caller'[d] = caller[d]
      /\ tests' = tests /\ results' = results /\ clock' = clock /\ UNCHANGED notes
  BY ClearAllDataTyped DEF IInv
<1>3. AtWork(c)'
  BY <1>2 DEF AtWork
<1>4. CacheTrue'
  BY <1>1, <1>2, CacheTrueKept DEF notes, IInv
<1>5. ResultFacts'
  BY <1>2, ResultFactsKept DEF IInv
<1> QED BY <1>1, <1>2, <1>3, <1>4, <1>5, OthersStay DEF IInv

\* Steps that leave the callers alone, when none of them holds a spec or a result.
LEMMA NoneHolds ==
    ASSUME OneBusy, caller' = caller, \A d \in Callers : caller[d].pc \in {"idle", "clearing", "reload"}
    PROVE  OneBusy' /\ \A d \in Callers : AtWork(d)'
  BY DEF OneBusy, AtWork

\* So does the loss of the spec, whose tests' results stay.
LEMMA SpecLostKeeps ==
    ASSUME Alone, IInv, NEW c \in Callers, SpecLost(c)
    PROVE  IInv'
<1>1. /\ ATyped' /\ DOMAIN tests' = {} /\ UNCHANGED <<caller, results, clock>>
      /\ retired' = retired \cup {tests[i].id : i \in DOMAIN tests}
  BY SpecLostTyped DEF IInv
<1>2. \A d \in Callers : caller[d].pc \in {"idle", "clearing", "reload"}
  <2>1. CASE RemoveSpec(c)
    BY <2>1, OthersAreIdle DEF RemoveSpec, Alone, IInv, OthersIdle
  <2>2. CASE ReadFails(c)
    BY <2>2 DEF ReadFails, Alone
  <2> QED BY <2>1, <2>2 DEF SpecLost
<1>3. OneBusy' /\ \A d \in Callers : AtWork(d)'
  BY <1>1, <1>2, NoneHolds DEF IInv
<1>4. ResultFacts'
  BY <1>1, ResultFactsKept DEF IInv
<1>5. CacheTrue'
  <2>1. ASSUME NEW r \in DOMAIN results' PROVE results'[r].test \in retired'
    <3>1. results[r].test \in retired \/ \E i \in DOMAIN tests : tests[i].id = results[r].test
      BY <1>1, <2>1 DEF IInv, CacheTrue, Covers
    <3> QED BY <1>1, <3>1
  <2> QED BY <1>1, <2>1 DEF CacheTrue, Covers, Backed, Fits
<1> QED BY <1>1, <1>3, <1>4, <1>5 DEF IInv

\* With fewer results each test that has some still has one that was made last.
LEMMA FewerFacts ==
    ASSUME ATyped, ResultFacts, DOMAIN results' \subseteq DOMAIN results,
           \A r \in DOMAIN results' : results'[r] = results[r], clock' = clock
    PROVE  ResultFacts'
<1>1. Numbered'
  BY FewerNumbered DEF ResultFacts
<1>2. InTime'
  BY DEF ResultFacts, InTime
<1>3. clock \in Nat /\ \A r \in DOMAIN results' : results'[r].at \in Nat /\ results'[r].at < clock
  BY DEF ATyped, ResultsTyped, NotesTyped, Result, ResultFacts, InTime
<1>4. ASSUME NEW r \in DOMAIN results'
      PROVE  \E s \in DOMAIN results' : results'[s].test = results'[r].test /\ IsLatest(s)'
  <2>1. PICK dates : dates = {results'[s].at : s \in {u \in DOMAIN results' : results'[u].test = results'[r].test}}
    OBVIOUS
  <2>2. dates \in SUBSET Nat /\ dates # {} /\ \A d \in dates : d < clock
    BY <1>3, <1>4, <2>1
  <2>3. PICK d \in dates : \A other \in dates : other =< d
    BY <1>3, <2>2, LastExists
  <2>4. PICK s \in DOMAIN results' : results'[s].test = results'[r].test /\ results'[s].at = d
    BY <2>1, <2>3
  <2>5. IsLatest(s)'
    BY <2>1, <2>3, <2>4 DEF IsLatest
  <2> QED BY <2>4, <2>5
<1>5. HasLatest'
  BY <1>4 DEF HasLatest
<1> QED BY <1>1, <1>2, <1>5 DEF ResultFacts

\* So does the removal of a result: the spec is gone already, or the removal is noted.
LEMMA RemoveResultKeeps ==
    ASSUME Alone, IInv, NEW c \in Callers, RemoveResult(c)
    PROVE  IInv'
<1>1. /\ ATyped' /\ UNCHANGED <<caller, tests, clock, byHand, behind, retired>>
      /\ DOMAIN results' \subseteq DOMAIN results /\ \A r \in DOMAIN results' : results'[r] = results[r]
      /\ caller[c].pc = "clearing" /\ torn' = (torn \/ tests # <<>>)
  BY RemoveResultTyped DEF IInv
<1>2. \A d \in Callers : caller[d].pc \in {"idle", "clearing", "reload"}
  BY <1>1, OthersAreIdle DEF Alone, IInv, OthersIdle
<1>3. OneBusy' /\ \A d \in Callers : AtWork(d)'
  BY <1>1, <1>2, NoneHolds DEF IInv
<1>4. ResultFacts'
  BY <1>1, FewerFacts DEF IInv
<1>5. CacheTrue'
  <2>1. Covers(tests)'
    BY <1>1 DEF IInv, CacheTrue, Covers
  <2>a. torn' \/ tests = <<>>
    BY Zenon DEF RemoveResult
  <2>2. torn' \/ DOMAIN tests' = {}
    BY <1>1, <2>a
  <2>3. ~torn' => Backed(tests)' /\ Fits(tests)'
    BY <2>2 DEF Backed, Fits
  <2> QED BY <2>1, <2>3 DEF CacheTrue
<1> QED BY <1>1, <1>3, <1>4, <1>5 DEF IInv

\* So does its end.
LEMMA AllRemovedKeeps ==
    ASSUME Alone, IInv, NEW c \in Callers, AllRemoved(c)
    PROVE  IInv'
<1>1. OthersIdle(c)
  BY OthersAreIdle DEF IInv, Alone, AllRemoved
<1>2. /\ ATyped' /\ caller'[c].pc = "idle" /\ \A d \in Callers \ {c} : caller'[d] = caller[d]
      /\ tests' = <<>> /\ DOMAIN results' = {} /\ UNCHANGED <<tests, results, clock>>
  BY AllRemovedTyped DEF IInv
<1>3. AtWork(c)'
  BY <1>2 DEF AtWork
<1>4. ResultFacts'
  BY <1>2, ResultFactsKept DEF IInv
<1>5. CacheTrue'
  BY <1>2 DEF CacheTrue, Covers, Backed, Fits
<1> QED BY <1>1, <1>2, <1>3, <1>4, <1>5, OthersStay DEF IInv

\* So does a save of the spec.
LEMMA SaveSpecKeeps ==
    ASSUME Alone, IInv, NEW c \in Callers, SaveSpec(c)
    PROVE  IInv'
<1>1. OthersIdle(c)
  BY OthersAreIdle DEF IInv, Alone, SaveSpec
<1>2. ATyped' /\ caller'[c].pc = "idle" /\ \A d \in Callers \ {c} : caller'[d] = caller[d]
  BY SaveSpecTyped DEF IInv
<1>3. AtWork(c)'
  BY <1>2 DEF AtWork
<1>4. CacheTrue'
  <2>1. PICK spec : spec = caller[c].spec /\ spec = tests' /\ Ready(spec)
    BY DEF SaveSpec, IInv, AtWork
  <2> QED BY <2>1, ReadySaved DEF SaveSpec, notes
<1>5. ResultFacts'
  BY ResultFactsKept DEF SaveSpec, IInv
<1> QED BY <1>1, <1>2, <1>3, <1>4, <1>5, OthersStay DEF IInv

\* So does a result that is made,
LEMMA AddResultKeeps ==
    ASSUME Alone, IInv, NEW c \in Callers, AddResult(c)
    PROVE  IInv'
<1>1. OthersIdle(c) /\ Settled
  BY BeginsReady DEF AddResult
<1>2. /\ ATyped' /\ caller'[c].pc = "number" /\ \A d \in Callers \ {c} : caller'[d] = caller[d]
      /\ \E i \in DOMAIN tests : \E status \in ExecutionStatus :
             /\ caller'[c].spec = Cached(tests, tests[i].id, status)
             /\ caller'[c].result = [test |-> tests[i].id, status |-> status, at |-> clock]
  BY AddResultTyped DEF IInv
<1>3. tests' = tests /\ results' = results /\ clock' = clock + 1 /\ UNCHANGED notes
  BY DEF AddResult, FilesUnchanged
<1>4. clock \in Nat /\ \A r \in DOMAIN results : results[r].at < clock
  BY DEF IInv, ATyped, NotesTyped, ResultFacts, InTime
<1>5. PICK i \in DOMAIN tests : \E status \in ExecutionStatus :
          /\ caller'[c].spec = Cached(tests, tests[i].id, status)
          /\ caller'[c].result = [test |-> tests[i].id, status |-> status, at |-> clock]
  BY <1>2
<1>6. PICK status \in ExecutionStatus :
          /\ caller'[c].spec = Cached(tests, tests[i].id, status)
          /\ caller'[c].result = [test |-> tests[i].id, status |-> status, at |-> clock]
  BY <1>5
<1>7. caller'[c].result.test = tests[i].id /\ caller'[c].result.status = status /\ caller'[c].result.at = clock
  BY <1>6
<1>8. Cached(tests, tests[i].id, status)' = Cached(tests, tests[i].id, status)
  BY <1>3 DEF Cached
<1>9. Awaited(c)'
  BY <1>3, <1>4, <1>6, <1>7, <1>8 DEF Awaited, Cached
<1>10. AtWork(c)'
  BY <1>2, <1>9 DEF AtWork
<1>11. CacheTrue'
  BY <1>1, <1>3, CacheTrueKept DEF IInv, notes
<1>12. ResultFacts'
  BY <1>3, ResultFactsKept DEF IInv
<1> QED BY <1>1, <1>2, <1>10, <1>11, <1>12, OthersStay DEF IInv

\* ... numbered,
LEMMA NumberResultKeeps ==
    ASSUME Alone, IInv, NEW c \in Callers, NumberResult(c)
    PROVE  IInv'
<1>1. OthersIdle(c)
  BY OthersAreIdle DEF IInv, Alone, NumberResult
<1>2. /\ ATyped' /\ caller'[c].pc = "result" /\ \A d \in Callers \ {c} : caller'[d] = caller[d]
      /\ caller'[c].spec = caller[c].spec /\ caller'[c].result = caller[c].result
      /\ caller'[c].file # 0 /\ \A r \in DOMAIN results : r < caller'[c].file
  BY NumberResultTyped DEF IInv, ResultFacts
<1>3. tests' = tests /\ results' = results /\ clock' = clock /\ UNCHANGED notes /\ caller[c].pc = "number"
  BY DEF NumberResult, FilesUnchanged
<1>4. Awaited(c)
  BY <1>3 DEF IInv, AtWork
<1>5. Awaited(c)'
  BY <1>2, <1>3, <1>4 DEF Awaited, Cached
<1>6. AtWork(c)'
  BY <1>2, <1>3, <1>5 DEF AtWork
<1>7. Settled
  BY <1>1, <1>3 DEF Settled, OthersIdle
<1>8. CacheTrue'
  BY <1>3, <1>7, CacheTrueKept DEF IInv, notes
<1>9. ResultFacts'
  BY <1>3, ResultFactsKept DEF IInv
<1> QED BY <1>1, <1>2, <1>6, <1>8, <1>9, OthersStay DEF IInv

\* A result that goes on file with the highest number and the latest time is the latest of its
\* test, and changes nothing for the others.
LEMMA ResultFiled ==
    ASSUME ATyped, ATyped', ResultFacts, NEW file \in Nat, NEW result \in Result,
           \A r \in DOMAIN results : r < file /\ results[r].at < result.at, result.at < clock, clock' = clock,
           DOMAIN results' = DOMAIN results \cup {file}, results'[file] = result,
           \A r \in DOMAIN results : results'[r] = results[r]
    PROVE  /\ ResultFacts' /\ LatestStatus(result.test)' = result.status
           /\ \A t : t # result.test => LatestStatus(t)' = LatestStatus(t)
<1>0. Numbered /\ InTime /\ HasLatest
  BY DEF ResultFacts
<1>1. file \notin DOMAIN results /\ DOMAIN results \subseteq Nat
  BY DEF ATyped, ResultsTyped
<1>2. clock \in Nat /\ result.at \in Nat /\ \A r \in DOMAIN results : results[r].at \in Nat
  BY DEF Result, ATyped, ResultsTyped, NotesTyped
<1>3. Numbered'
  <2>1. \A r \in DOMAIN results' : r =< file
    BY <1>1
  <2> QED BY <2>1 DEF Numbered
<1>4. InTime'
  <2>1. ASSUME NEW r \in DOMAIN results'
        PROVE  results'[r].at < clock /\ \A s \in DOMAIN results' : results'[r].at = results'[s].at => r = s
    BY <1>0, <1>1, <1>2 DEF InTime
  <2> QED BY <2>1 DEF InTime
<1>5. IsLatest(file)'
  <2>1. \A r \in DOMAIN results' : results'[r].at =< results'[file].at
    BY <1>1, <1>2
  <2> QED BY <2>1 DEF IsLatest
<1>6. ASSUME NEW s \in DOMAIN results, results[s].test # result.test, IsLatest(s) PROVE IsLatest(s)'
  BY <1>1, <1>6 DEF IsLatest
<1>7. ASSUME NEW r \in DOMAIN results'
      PROVE  \E s \in DOMAIN results' : results'[s].test = results'[r].test /\ IsLatest(s)'
  <2>1. CASE results'[r].test = result.test
    BY <1>5, <2>1
  <2>2. CASE results'[r].test # result.test
    <3>1. r \in DOMAIN results /\ results'[r] = results[r]
      BY <1>1, <2>2
    <3>2. PICK s \in DOMAIN results : results[s].test = results[r].test /\ IsLatest(s)
      BY <1>0, <3>1 DEF HasLatest
    <3>3. IsLatest(s)' /\ results'[s].test = results'[r].test
      BY <1>6, <2>2, <3>1, <3>2
    <3> QED BY <3>2, <3>3
  <2> QED BY <2>1, <2>2
<1>8. HasLatest'
  BY <1>7 DEF HasLatest
<1>9. LatestStatus(result.test)' = result.status
  <2>1. PICK t : t = result.test
    OBVIOUS
  <2>2. file \in DOMAIN results' /\ t = results'[file].test
    BY <2>1
  <2>3. LatestStatus(t)' = results'[file].status
    BY <1>4, <1>5, <2>2, LatestStatusIsNext
  <2> QED BY <2>1, <2>3
<1>10. ASSUME NEW t, t # result.test PROVE LatestStatus(t)' = LatestStatus(t)
  <2>1. CASE \A r \in DOMAIN results : results[r].test # t
    <3>1. \A r \in DOMAIN results' : results'[r].test # t
      BY <1>10, <2>1
    <3>2. LatestStatus(t)' = "not-run"
      BY <3>1 DEF LatestStatus
    <3> QED BY <2>1, <3>2, LatestStatusOfNone
  <2>2. ASSUME NEW r \in DOMAIN results, results[r].test = t PROVE LatestStatus(t)' = LatestStatus(t)
    <3>1. PICK s \in DOMAIN results : results[s].test = t /\ IsLatest(s)
      BY <1>0, <2>2 DEF HasLatest
    <3>2. LatestStatus(t) = results[s].status
      BY <1>0, <3>1, LatestStatusIs
    <3>3. IsLatest(s)' /\ s \in DOMAIN results' /\ t = results'[s].test /\ results'[s].status = results[s].status
      BY <1>6, <1>10, <3>1
    <3>4. LatestStatus(t)' = results'[s].status
      BY <1>4, <3>3, LatestStatusIsNext
    <3> QED BY <3>2, <3>3, <3>4
  <2> QED BY <2>1, <2>2
<1> QED BY <1>3, <1>4, <1>8, <1>9, <1>10 DEF ResultFacts

\* The copy of the spec, with the status of the result, is ready to be saved once the result is on file.
LEMMA CopyReady ==
    ASSUME ATyped, CacheTrue, Settled, NEW file, NEW result \in Result,
           \E i \in DOMAIN tests : tests[i].id = result.test,
           DOMAIN results' = DOMAIN results \cup {file}, results'[file] = result,
           \A r \in DOMAIN results : results'[r] = results[r],
           LatestStatus(result.test)' = result.status,
           \A t : t # result.test => LatestStatus(t)' = LatestStatus(t),
           UNCHANGED <<tests, byHand, behind, torn, retired>>,
           NEW spec, spec = Cached(tests, result.test, result.status)
    PROVE  Ready(spec)' /\ Covers(tests)' /\ (~byHand /\ ~torn => Backed(tests)')
<1>1. result.status \in ExecutionStatus /\ tests \in Seq(Test) /\ Ascending(tests)
  BY DEF Result, ATyped, SpecTyped
<1>2. /\ DOMAIN spec = DOMAIN tests
      /\ \A i \in DOMAIN tests : /\ spec[i].id = tests[i].id
                                /\ spec[i].last = IF tests[i].id = result.test THEN result.status ELSE tests[i].last
  BY <1>1, CachedTyped
<1>3. Covers(spec)' /\ Covers(tests)'
  BY <1>2 DEF Covers, CacheTrue
<1>4. Backed(tests) => Backed(tests)'
  BY DEF Backed
<1>5. Backed(tests) => Backed(spec)'
  BY <1>2 DEF Backed
<1>6. Fits(tests) => Fits(spec)'
  BY <1>2 DEF Fits
<1> QED BY <1>3, <1>4, <1>5, <1>6 DEF Ready, CacheTrue

\* ... and saved.
LEMMA SaveResultKeeps ==
    ASSUME Alone, IInv, NEW c \in Callers, SaveResult(c)
    PROVE  IInv'
<1>0. ATyped /\ ResultFacts /\ CacheTrue /\ CallersTyped
  BY DEF IInv, ATyped
<1>1. OthersIdle(c)
  BY OthersAreIdle DEF IInv, Alone, SaveResult
<1>2. caller[c].pc = "result" /\ UNCHANGED <<tests, clock, byHand, behind, torn, retired>>
  BY DEF SaveResult, notes
<1>3. PICK file \in Nat : file = caller[c].file
  BY <1>0, CallerParts
<1>4. PICK result \in Result : result = caller[c].result
  BY <1>0, CallerParts
<1>5. PICK spec : spec = caller[c].spec
  OBVIOUS
<1>6. Awaited(c) /\ file # 0 /\ \A r \in DOMAIN results : r < file
  BY <1>2, <1>3 DEF IInv, AtWork
<1>7. /\ ATyped' /\ caller'[c].pc = "cache" /\ \A d \in Callers \ {c} : caller'[d] = caller[d]
      /\ caller'[c].spec = spec
      /\ DOMAIN results' = DOMAIN results \cup {file} /\ results'[file] = result
      /\ \A r \in DOMAIN results \ {file} : results'[r] = results[r]
  BY <1>0, <1>3, <1>4, <1>5, <1>6, SaveResultTyped
<1>8. \A r \in DOMAIN results : results'[r] = results[r]
  BY <1>6, <1>7
<1>9. /\ result.at < clock /\ \A r \in DOMAIN results : results[r].at < result.at
      /\ \E i \in DOMAIN tests : tests[i].id = result.test
      /\ spec = Cached(tests, result.test, result.status)
  BY <1>4, <1>5, <1>6 DEF Awaited
<1>10. /\ ResultFacts' /\ LatestStatus(result.test)' = result.status
       /\ \A t : t # result.test => LatestStatus(t)' = LatestStatus(t)
  BY <1>0, <1>2, <1>6, <1>7, <1>8, <1>9, ResultFiled
<1>11. Settled /\ ~Settled'
  BY <1>1, <1>2, <1>7 DEF Settled, OthersIdle
<1>12. Ready(spec)' /\ Covers(tests)' /\ (~byHand /\ ~torn => Backed(tests)')
  BY <1>0, <1>2, <1>7, <1>8, <1>9, <1>10, <1>11, CopyReady
<1>13. AtWork(c)'
  BY <1>7, <1>12, CopyNamed DEF AtWork
<1>14. CacheTrue'
  BY <1>2, <1>11, <1>12 DEF CacheTrue
<1> QED BY <1>1, <1>7, <1>10, <1>13, <1>14, OthersStay DEF IInv

\* So does the save of the cache, and its failure.
LEMMA SaveCacheKeeps ==
    ASSUME Alone, IInv, NEW c \in Callers, SaveCache(c)
    PROVE  IInv'
<1>1. OthersIdle(c) /\ caller[c].pc = "cache" /\ results' = results /\ clock' = clock /\ UNCHANGED notes
  BY OthersAreIdle DEF IInv, Alone, SaveCache
<1>2. /\ ATyped' /\ \A d \in Callers \ {c} : caller'[d] = caller[d]
      /\ \/ caller'[c].pc = "idle" /\ tests' = caller[c].spec
         \/ caller'[c].pc = "reload" /\ tests' = tests
  BY SaveCacheTyped DEF IInv
<1>3. AtWork(c)'
  BY <1>2 DEF AtWork
<1>4. CASE caller'[c].pc = "idle" /\ tests' = caller[c].spec
  <2>1. PICK spec : spec = tests' /\ Ready(spec)
    BY <1>1, <1>4 DEF IInv, AtWork
  <2> QED BY <1>1, <1>2, <1>3, <2>1, ReadySaved, ResultFactsKept, OthersStay DEF notes, IInv
<1>5. CASE caller'[c].pc = "reload" /\ tests' = tests
  <2>1. ~Settled'
    BY <1>5 DEF Settled
  <2>2. CacheTrue'
    BY <1>1, <1>5, <2>1, CacheTrueKept DEF IInv, notes
  <2> QED BY <1>1, <1>2, <1>3, <2>2, ResultFactsKept, OthersStay DEF IInv
<1> QED BY <1>2, <1>4, <1>5

\* So does a repair as far as it only reads.
LEMMA ReloadKeeps ==
    ASSUME Alone, IInv, NEW c \in Callers, SelfHeal(c) \/ Reload(c)
    PROVE  IInv'
<1>1. OthersIdle(c)
  BY OthersAreIdle DEF IInv, Alone, SelfHeal, Reload
<1>2. tests' = tests /\ results' = results /\ clock' = clock /\ UNCHANGED notes
  BY DEF SelfHeal, Reload, FilesUnchanged
<1>3. /\ ATyped' /\ \A d \in Callers \ {c} : caller'[d] = caller[d]
      /\ caller'[c].pc = "reload" \/ (caller'[c].pc = "heal" /\ caller'[c].spec = tests)
  BY ReloadTyped DEF IInv
<1>4. AtWork(c)'
  BY <1>2, <1>3 DEF AtWork
<1>5. ~Settled'
  BY <1>3 DEF Settled
<1>6. CacheTrue'
  BY <1>2, <1>5, CacheTrueKept DEF IInv, notes
<1> QED BY <1>1, <1>2, <1>3, <1>4, <1>6, ResultFactsKept, OthersStay DEF IInv

\* A repair makes the cache what the results say.
LEMMA HealKeeps ==
    ASSUME Alone, IInv, NEW c \in Callers, Heal(c)
    PROVE  IInv'
<1>1. OthersIdle(c) /\ caller[c].pc = "heal" /\ results' = results /\ clock' = clock /\ retired' = retired
  BY OthersAreIdle DEF IInv, Alone, Heal
<1>2. ATyped' /\ caller'[c].pc = "idle" /\ \A d \in Callers \ {c} : caller'[d] = caller[d]
  BY HealTyped DEF IInv, ResultFacts, InTime, Dated
<1>3. AtWork(c)'
  BY <1>2 DEF AtWork
<1>4. ATyped /\ InTime /\ HasLatest /\ Covers(tests) /\ tests \in Seq(Test) /\ Ascending(tests) /\ caller[c].spec = tests
  BY <1>1 DEF IInv, ResultFacts, CacheTrue, ATyped, SpecTyped, AtWork
<1>5. CASE tests' = Healed(caller[c].spec)
  <2>1. /\ DOMAIN Healed(tests) = DOMAIN tests /\ \A i \in DOMAIN tests : Healed(tests)[i].id = tests[i].id
        /\ Backed(Healed(tests)) /\ Fits(Healed(tests))
    BY <1>4, HealedTyped
  <2>2. PICK spec : spec = Healed(tests) /\ spec = tests'
    BY <1>4, <1>5
  <2>3. Covers(spec) /\ Backed(spec) /\ Fits(spec)
    BY <1>4, <2>1, <2>2 DEF Covers
  <2>4. CacheTrue'
    BY <1>1, <2>2, <2>3, CacheKept, TestsNamed DEF CacheTrue
  <2> QED BY <1>1, <1>2, <1>3, <2>4, ResultFactsKept, OthersStay DEF IInv
<1>6. CASE behind' = TRUE /\ UNCHANGED <<tests, byHand, torn>>
  <2>1. PICK spec : spec = tests
    OBVIOUS
  <2>2. Covers(spec) /\ (~byHand /\ ~torn => Backed(spec))
    BY <2>1 DEF IInv, CacheTrue
  <2>3. CacheTrue'
    BY <1>1, <1>6, <2>1, <2>2, CacheKept, TestsNamed DEF CacheTrue
  <2> QED BY <1>1, <1>2, <1>3, <2>3, ResultFactsKept, OthersStay DEF IInv
<1> QED BY <1>5, <1>6 DEF Heal

\* A crash leaves the cache as it was, or is noted.
LEMMA CrashKeeps ==
    ASSUME Alone, IInv, NEW c \in Callers, Crash(c)
    PROVE  IInv'
<1>1. OthersIdle(c)
  BY OthersAreIdle DEF IInv, Alone, Crash
<1>2. ATyped' /\ caller'[c].pc = "idle" /\ \A d \in Callers \ {c} : caller'[d] = caller[d]
  BY CrashTyped DEF IInv
<1>3. /\ tests' = tests /\ results' = results /\ clock' = clock
      /\ byHand' = byHand /\ torn' = torn /\ retired' = retired
      /\ behind' = (behind \/ caller[c].pc \in {"cache", "reload", "heal"})
  BY DEF Crash, FilesUnchanged
<1>4. AtWork(c)'
  BY <1>2 DEF AtWork
<1>5. CacheTrue'
  <2>1. PICK spec : spec = tests
    OBVIOUS
  <2>2. /\ Covers(spec) /\ (~byHand /\ ~torn => Backed(spec))
        /\ (~byHand /\ ~torn /\ ~behind /\ Settled => Fits(spec))
    BY <2>1 DEF IInv, CacheTrue
  <2>3. ~behind' => ~behind /\ Settled
    <3>1. \A d \in Callers : caller[d].pc \in Phase
      BY CallerParts DEF IInv, ATyped
    <3> QED BY <1>1, <1>3, <3>1 DEF Settled, OthersIdle, Phase
  <2>4. /\ Covers(spec)' /\ (~byHand' /\ ~torn' => Backed(spec)')
        /\ (~byHand' /\ ~torn' /\ ~behind' => Fits(spec)')
    BY <1>3, <2>2, <2>3, CacheKept
  <2> QED BY <1>3, <2>1, <2>4, TestsNamed DEF CacheTrue
<1> QED BY <1>1, <1>2, <1>3, <1>4, <1>5, ResultFactsKept, OthersStay DEF IInv

\* All steps together.
LEMMA NextKeeps ==
    ASSUME Alone, IInv, [Next]_vars
    PROVE  IInv'
<1>1. ASSUME NEW c \in Callers, Edit(c) \/ SaveSpec(c) PROVE IInv'
  BY <1>1, EditKeeps, SaveSpecKeeps
<1>5. ASSUME NEW c \in Callers, ClearAllData(c) \/ SpecLost(c) \/ RemoveResult(c) \/ AllRemoved(c) PROVE IInv'
  BY <1>5, ClearAllDataKeeps, SpecLostKeeps, RemoveResultKeeps, AllRemovedKeeps
<1>2. ASSUME NEW c \in Callers, AddResult(c) \/ NumberResult(c) \/ SaveResult(c) \/ SaveCache(c) PROVE IInv'
  BY <1>2, AddResultKeeps, NumberResultKeeps, SaveResultKeeps, SaveCacheKeeps
<1>3. ASSUME NEW c \in Callers, SelfHeal(c) \/ Reload(c) \/ Heal(c) \/ Crash(c) PROVE IInv'
  BY <1>3, ReloadKeeps, HealKeeps, CrashKeeps
<1>4. ASSUME UNCHANGED vars PROVE IInv'
  <2>1. ATyped'
    BY <1>4 DEF vars, notes, IInv, ATyped, SpecTyped, CallersTyped, ResultsTyped, NotesTyped, Ascending
  <2>2. OneBusy' /\ \A c \in Callers : AtWork(c)'
    <3>1. OneBusy'
      BY <1>4 DEF vars, IInv, OneBusy
    <3>2. ASSUME NEW c \in Callers PROVE AtWork(c)'
      <4>1. AtWork(c)
        BY DEF IInv
      <4>2. Awaited(c)' = Awaited(c)
        BY <1>4 DEF vars, Awaited, Cached
      <4>3. PICK spec : spec = caller[c].spec /\ spec = caller'[c].spec
        BY <1>4 DEF vars
      <4>4. Ready(spec) => Ready(spec)'
        BY <1>4, CacheKept DEF vars, notes, Ready
      <4> QED BY <1>4, <4>1, <4>2, <4>3, <4>4, CopyNamed DEF vars, AtWork
    <3> QED BY <3>1, <3>2
  <2>3. ResultFacts'
    BY <1>4, ResultFactsKept DEF vars, IInv
  <2>4. CacheTrue'
    <3>1. Settled' => Settled
      BY <1>4 DEF vars, Settled
    <3> QED BY <1>4, <3>1, CacheTrueKept DEF vars, notes, IInv
  <2> QED BY <2>1, <2>2, <2>3, <2>4 DEF IInv
<1> QED BY <1>1, <1>2, <1>3, <1>4, <1>5 DEF Next, Edit, SpecLost

\* It holds at the start.
LEMMA InitInv == ASSUME Init PROVE IInv
<1>4. ATyped
  BY InitTypeInv DEF TypeInv
<1>5. \A c \in Callers : caller[c].pc = "idle"
  BY IdleTyped DEF Init
<1>6. OneBusy /\ \A c \in Callers : AtWork(c)
  BY <1>5 DEF OneBusy, AtWork
<1>7. ResultFacts
  BY DEF Init, ResultFacts, Numbered, InTime, HasLatest
<1>8. CacheTrue
  BY DEF Init, CacheTrue, Covers, Backed, Fits
<1> QED BY <1>4, <1>6, <1>7, <1>8 DEF IInv

\* A status in the cache has a result that says so, between any two steps and after a crash at any of
\* them, unless it was set by hand or a removal of all files has begun with its result.
THEOREM StatusesAreBacked == ASSUME Alone PROVE Spec => []CacheBacked
<1>1. IInv => CacheBacked
  BY DEF IInv, CacheTrue, Backed, CacheBacked
<1> QED BY <1>1, InitInv, NextKeeps, PTL DEF Spec

\* Between two operations the cache says of every test what its latest result says, also when a save
\* of the spec has failed, unless a process ended half-way, the repair failed too, the cache was set
\* by hand, or a removal took results and left the spec.
THEOREM CacheIsCurrent == ASSUME Alone PROVE Spec => []CacheCurrent
<1>1. IInv => CacheCurrent
  BY DEF IInv, CacheTrue, Settled, Fits, CacheCurrent
<1> QED BY <1>1, InitInv, NextKeeps, PTL DEF Spec
================================================================================
