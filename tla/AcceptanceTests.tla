----------------------------- MODULE AcceptanceTests -----------------------------
(***************************************************************************)
(* AcceptanceTestService: spec.json, which caches for each test the status *)
(* of its last execution, and results/, one file for each execution, the   *)
(* source of truth.  Each caller is a process of its own (the role tools,  *)
(* the acceptance-test command), reads the spec, changes its copy and      *)
(* writes it back; it may end anywhere and a save of the spec may fail.    *)
(***************************************************************************)
EXTENDS Naturals, FiniteSets, Sequences, FiniteSetsExt

CONSTANTS
    Callers,      \* processes
    Overlap,      \* TRUE: a caller may start while another one is at work
    MaxTests,     \* bound: tests in the spec
    MaxResults,   \* bound: results recorded
    MaxOps,       \* bound: operations
    MaxFaults     \* bound: crashes and failed saves

ASSUME OverlapAssumption == Overlap \in BOOLEAN
ASSUME AcceptanceBounds == {MaxTests, MaxResults, MaxOps, MaxFaults} \subseteq Nat

VARIABLES
    tests,    \* spec.json: the tests, in the order they were added
    results,  \* results/: the files by the number in their id
    caller,   \* caller[c]: the operation, its step, and its copy of the spec
    clock,    \* the time of the next result
    byHand,   \* TRUE: a bulk change has set the cache by hand since it was built
    behind,   \* TRUE: a crash or a failed refresh has left the cache as it was
    torn,     \* TRUE: clearAllData has removed results of a cache that is still there
    retired,  \* ids of deleted tests: their results are still there
    budget

vars == <<tests, results, caller, clock, byHand, behind, torn, retired, budget>>

notes == <<byHand, behind, torn, retired>>

CaseStatus == {"draft", "ready", "in-progress", "archived"}
ExecutionStatus == {"not-run", "passed", "failed"}
Test == [id : Nat \ {0}, status : CaseStatus, last : ExecutionStatus]
Result == [test : Nat \ {0}, status : ExecutionStatus, at : Nat]

Idle == [pc |-> "idle", spec |-> <<>>, file |-> 0, result |-> [test |-> 1, status |-> "passed", at |-> 0]]

UniqueIds(spec) == \A i, j \in DOMAIN spec : spec[i].id = spec[j].id => i = j

TypeOK ==
    /\ tests \in Seq(Test) /\ UniqueIds(tests)
    /\ DOMAIN results \subseteq Nat \ {0} /\ \A r \in DOMAIN results : results[r] \in Result
    /\ \A c \in Callers :
          /\ caller[c].pc \in {"idle", "save", "number", "result", "cache", "reload", "heal", "clearing"}
          /\ caller[c].spec \in Seq(Test) /\ caller[c].file \in Nat /\ caller[c].result \in Result
    /\ clock \in Nat /\ byHand \in BOOLEAN /\ behind \in BOOLEAN /\ torn \in BOOLEAN /\ retired \subseteq Nat
    /\ budget \in [{"ops", "faults"} -> Nat]

Init ==
    /\ tests = <<>> /\ results = <<>> /\ clock = 1
    /\ byHand = FALSE /\ behind = FALSE /\ torn = FALSE /\ retired = {}
    /\ caller = [c \in Callers |-> Idle]
    /\ budget = [ops |-> MaxOps, faults |-> MaxFaults]

--------------------------------------------------------------------------------
Spend(what) == budget[what] > 0 /\ budget' = [budget EXCEPT ![what] = @ - 1]

TransitionAllowed ==
    [from \in CaseStatus |->
        CASE from = "draft"       -> {"ready", "archived"}
          [] from = "ready"       -> {"in-progress", "archived"}
          [] from = "in-progress" -> {"ready", "archived"}
          [] from = "archived"    -> {}]

\* nextTestId: one more than the ids that are left.
CountTests(spec) == Len(spec) + 1
NextTestId(spec) == Max({0} \cup {spec[i].id : i \in DOMAIN spec}) + 1

\* nextResultId: one more than the ids in the directory (of one day).
NextResultId(t) == Max({0} \cup DOMAIN results) + 1

Cached(spec, t, status) ==
    [i \in DOMAIN spec |-> IF spec[i].id = t THEN [spec[i] EXCEPT !.last = status] ELSE spec[i]]

\* latestResultStatuses: the result executed last, "not-run" without one.
LatestStatus(t) ==
    LET ofTest == {r \in DOMAIN results : results[r].test = t}
    IN IF ofTest = {} THEN "not-run"
       ELSE results[CHOOSE r \in ofTest : \A other \in ofTest : results[other].at =< results[r].at].status

--------------------------------------------------------------------------------
Set(c, record) == caller' = [caller EXCEPT ![c] = record]

\* A caller reads the spec and goes on with its copy.
Begin(c) ==
    /\ caller[c].pc = "idle"
    /\ Overlap \/ \A other \in Callers : caller[other].pc = "idle"
    /\ Spend("ops")

Change(c, spec) == Set(c, [Idle EXCEPT !.pc = "save", !.spec = spec])

FilesUnchanged == UNCHANGED <<tests, results>>

Add(c) ==
    /\ Begin(c) /\ Len(tests) < MaxTests
    /\ \E status \in CaseStatus :
          Change(c, Append(tests, [id |-> NextTestId(tests), status |-> status, last |-> "not-run"]))
    /\ FilesUnchanged /\ UNCHANGED <<clock, notes>>

Update(c) ==
    /\ Begin(c)
    /\ \E i \in DOMAIN tests : \E status \in TransitionAllowed[tests[i].status] :
          Change(c, [tests EXCEPT ![i].status = status])
    /\ FilesUnchanged /\ UNCHANGED <<clock, notes>>

Delete(c) ==
    /\ Begin(c)
    /\ \E i \in DOMAIN tests :
       /\ Change(c, SubSeq(tests, 1, i - 1) \o SubSeq(tests, i + 1, Len(tests)))
       /\ retired' = retired \cup {tests[i].id}
    /\ FilesUnchanged /\ UNCHANGED <<clock, byHand, behind, torn>>

\* updateLastExecutionStatusAll: the cache is set by hand.
UpdateLastExecutionStatusAll(c) ==
    /\ Begin(c)
    /\ \E status \in ExecutionStatus :
          Change(c, [i \in DOMAIN tests |-> [tests[i] EXCEPT !.last = status]])
    /\ byHand' = TRUE
    /\ FilesUnchanged /\ UNCHANGED <<clock, behind, torn, retired>>

SaveSpec(c) ==
    /\ caller[c].pc = "save"
    /\ tests' = caller[c].spec
    /\ Set(c, Idle)
    /\ UNCHANGED <<results, clock, notes, budget>>

--------------------------------------------------------------------------------
(* addResult: the result file first, then the cache.                           *)
AddResult(c) ==
    /\ Begin(c) /\ Cardinality(DOMAIN results) < MaxResults
    /\ \E i \in DOMAIN tests : \E status \in ExecutionStatus :
          Set(c, [pc |-> "number", spec |-> Cached(tests, tests[i].id, status), file |-> 0,
                  result |-> [test |-> tests[i].id, status |-> status, at |-> clock]])
    /\ clock' = clock + 1
    /\ FilesUnchanged /\ UNCHANGED notes

NumberResult(c) ==
    /\ caller[c].pc = "number"
    /\ Set(c, [caller[c] EXCEPT !.pc = "result", !.file = NextResultId(caller[c].result.test)])
    /\ FilesUnchanged /\ UNCHANGED <<clock, notes, budget>>

PublishCacheFirst(c) ==
    /\ caller[c].pc = "result"
    /\ tests' = caller[c].spec
    /\ Set(c, [caller[c] EXCEPT !.pc = "cache"])
    /\ UNCHANGED <<results, clock, notes, budget>>

SaveResult(c) ==
    /\ caller[c].pc = "result"
    /\ results' = [r \in DOMAIN results \cup {caller[c].file} |->
                      IF r = caller[c].file THEN caller[c].result ELSE results[r]]
    /\ Set(c, [caller[c] EXCEPT !.pc = "cache"])
    /\ UNCHANGED <<tests, clock, notes, budget>>

FailUnrepaired(c) ==
    /\ caller[c].pc = "cache"
    /\ \/ tests' = caller[c].spec /\ UNCHANGED budget
       \/ Spend("faults") /\ UNCHANGED tests
    /\ Set(c, Idle)
    /\ UNCHANGED <<results, clock, notes>>

\* The cache is saved, or the save fails and the cache is rebuilt from the results.
SaveCache(c) ==
    /\ caller[c].pc = "cache"
    /\ \/ /\ tests' = caller[c].spec
          /\ Set(c, Idle)
          /\ UNCHANGED budget
       \/ /\ Spend("faults")
          /\ Set(c, [caller[c] EXCEPT !.pc = "reload"])
          /\ UNCHANGED tests
    /\ UNCHANGED <<results, clock, notes>>

--------------------------------------------------------------------------------
(* selfHealLastExecutionStatus, also a command of its own.                     *)
SelfHeal(c) ==
    /\ Begin(c)
    /\ Set(c, [Idle EXCEPT !.pc = "reload"])
    /\ FilesUnchanged /\ UNCHANGED <<clock, notes>>

Reload(c) ==
    /\ caller[c].pc = "reload"
    /\ Set(c, [caller[c] EXCEPT !.pc = "heal", !.spec = tests])
    /\ FilesUnchanged /\ UNCHANGED <<clock, notes, budget>>

Healed(spec) == [i \in DOMAIN spec |-> [spec[i] EXCEPT !.last = LatestStatus(spec[i].id)]]

Heal(c) ==
    /\ caller[c].pc = "heal"
    /\ \/ /\ tests' = Healed(caller[c].spec)
          /\ byHand' = FALSE /\ behind' = FALSE /\ torn' = FALSE
          /\ UNCHANGED budget
       \/ /\ Healed(caller[c].spec) # caller[c].spec
          /\ Spend("faults")
          /\ behind' = TRUE
          /\ UNCHANGED <<tests, byHand, torn>>
    /\ Set(c, Idle)
    /\ UNCHANGED <<results, clock, retired>>

--------------------------------------------------------------------------------
(* What removes files.                                                         *)

ClearAllData(c) ==
    /\ Begin(c)
    /\ Set(c, [Idle EXCEPT !.pc = "clearing"])
    /\ FilesUnchanged /\ UNCHANGED <<clock, notes>>

\* A spec that is not there is taken for an empty one.
SpecGone ==
    /\ tests' = <<>>
    /\ byHand' = FALSE /\ behind' = FALSE /\ torn' = FALSE
    /\ retired' = retired \cup {tests[i].id : i \in DOMAIN tests}

\* The recursive removal takes the files one by one, in whatever order.
RemoveSpec(c) ==
    /\ caller[c].pc = "clearing" /\ tests # <<>>
    /\ SpecGone
    /\ UNCHANGED <<results, caller, clock, budget>>

RemoveResult(c) ==
    /\ caller[c].pc = "clearing"
    /\ \E r \in DOMAIN results : results' = [s \in DOMAIN results \ {r} |-> results[s]]
    /\ torn' = (torn \/ tests # <<>>)
    /\ UNCHANGED <<tests, caller, clock, byHand, behind, retired, budget>>

AllRemoved(c) ==
    /\ caller[c].pc = "clearing" /\ tests = <<>> /\ DOMAIN results = {}
    /\ Set(c, Idle)
    /\ retired' = {}
    /\ FilesUnchanged /\ UNCHANGED <<clock, byHand, behind, torn, budget>>

\* getOrInitializeSpec takes a read that fails for a spec that is not there, and saves an empty one.
ReadFails(c) ==
    /\ caller[c].pc \in {"idle", "reload"} /\ tests # <<>>
    /\ Overlap \/ \A other \in Callers \ {c} : caller[other].pc = "idle"
    /\ Spend("faults")
    /\ SpecGone
    /\ UNCHANGED <<results, caller, clock>>

Crash(c) ==
    /\ caller[c].pc # "idle"
    /\ Spend("faults")
    /\ behind' = (behind \/ caller[c].pc \in {"cache", "reload", "heal"})
    /\ Set(c, Idle)
    /\ FilesUnchanged /\ UNCHANGED <<clock, byHand, torn, retired>>

Next ==
    \E c \in Callers :
        \/ Add(c) \/ Update(c) \/ Delete(c) \/ UpdateLastExecutionStatusAll(c) \/ SaveSpec(c)
        \/ AddResult(c) \/ NumberResult(c) \/ SaveResult(c) \/ SaveCache(c)
        \/ SelfHeal(c) \/ Reload(c) \/ Heal(c)
        \/ ClearAllData(c) \/ RemoveSpec(c) \/ RemoveResult(c) \/ AllRemoved(c) \/ ReadFails(c) \/ Crash(c)

Spec == Init /\ [][Next]_vars

--------------------------------------------------------------------------------
(* Properties, of callers that do not overlap *)

\* A status in the cache has a result file that says so, between any two steps and after a crash at
\* any of them, because addResult saves the result first.  Two ways to lose that are excepted: a
\* status set by hand, and a clearAllData that is removing, or ended while removing, the results of
\* a cache still on file.  A heal ends both.
CacheBacked ==
    ~byHand /\ ~torn => \A i \in DOMAIN tests :
        tests[i].last # "not-run" =>
            \E r \in DOMAIN results : results[r].test = tests[i].id /\ results[r].status = tests[i].last

\* Between two operations the cache says of every test what its latest result says, also when a
\* save of the spec has failed, unless a process ended half-way or the repair failed too
\* (addResult, selfHealLastExecutionStatus).  A test that has taken over the id of one that was
\* deleted is left out: until its first result it is "not-run" beside the old one's results.
CacheCurrent ==
    (~byHand /\ ~behind /\ ~torn /\ \A c \in Callers : caller[c].pc = "idle") =>
        \A i \in DOMAIN tests :
            tests[i].id \in retired \/ tests[i].last = LatestStatus(tests[i].id)
================================================================================
