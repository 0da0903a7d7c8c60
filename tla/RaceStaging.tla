----------------------------- MODULE RaceStaging -----------------------------
(***************************************************************************)
(* One concurrency test of scripts/playwright_session_handling.js: a       *)
(* request is stalled in front of a frozen MongoDB, the sibling writer     *)
(* changes its session, MongoDB thaws, and the verdict the app logged is   *)
(* compared with the one the test expects.  The app serves one request at  *)
(* a time, and a health check with a cold cache needs MongoDB as well, so  *)
(* the race can be missed and is then staged again from a new session.     *)
(***************************************************************************)
EXTENDS SessionData, FiniteSets

CONSTANTS MaxAttempts,     \* RACE_ATTEMPTS
          MaxFaults        \* bound: docker and probe calls and requests that fail

ASSUME AttemptsAssumption == MaxAttempts \in Nat \ {0}
ASSUME FaultsAssumption == MaxFaults \in Nat

(* "a benign sibling change" (the fourth test): the language is not a path *)
(* whose change by another is fatal.                                       *)
ASSUME LanguageAssumption == "language" \notin FatalOtherWriter

(* What these tests put into a session; Redis' nothing is not a session.   *)
Contents == {"user", "en", "minted", "true", "sv", "stored"}
Sessions == [gen : 0..1, data : [Paths -> Contents \cup {Absent}]]

ASSUME SessionsAssumption ==
    /\ Absent \notin Contents
    /\ Gone \notin Sessions

VARIABLES
    case,       \* the test: how it prepares, what the sibling does, ...
    at,         \* where the test is
    attempt,    \* the attempt, which also names its session (the short id)
    store,      \* that session in Redis
    frozen,     \* MongoDB is frozen
    worker,     \* what the app's only worker is busy with
    warm,       \* the app's /status/healthy answer is cached
    request,    \* where the racing request is, or its status
    base,       \* the session it loaded
    log,        \* the verdict lines in the app's log
    hit,        \* the sibling wrote while the request had its session loaded
    conflicts,  \* the conflict lines raceOnce counted
    faults      \* the calls that failed so far

vars == <<case, at, attempt, store, frozen, worker, warm, request, base, log,
          hit, conflicts, faults>>
appVars == <<worker, warm, request, base, log>>
counts == <<conflicts, faults>>
testVars == <<case, at, attempt, store, frozen, hit, counts>>

(* The tests.  "none" prepares nothing; "delete" is the probe's delete.    *)
Case(prepare, sibling, status, verdict) ==
    [prepare |-> prepare, sibling |-> sibling,
     status |-> status, verdict |-> verdict]

Cases == {Case("none", "delete", "500", "generation"),
          Case("none", "dropCommon", "500", "cleared"),
          Case("prepare", "abort", "500", "fatalPath"),
          Case("none", "language", "200", "swallowed"),
          Case("dropCsrf", "language", "500", "notSafe"),
          Case("none", "regen", "500", "generation"),
          Case("none", "reset", "500", "generation")}

(* A short id that is not this test's. *)
Neighbour == 0

Verdicts == {"generation", "cleared", "fatalPath", "notSafe", "swallowed"}
Lines == [session : 0..MaxAttempts, verdict : Verdicts]

Init ==
    /\ case \in Cases
    /\ at = "create"
    /\ attempt = 1
    /\ store = NewSession
    /\ frozen = FALSE
    /\ worker = "free"
    /\ warm = FALSE
    /\ request = "none"
    /\ base = NewSession
    /\ log = {}
    /\ hit = FALSE
    /\ conflicts = 0
    /\ faults = 0

------------------------------------------------------------------------------
(* The test: raceOnce, stageRacingRequest, concurrencyTest *)

(* sessionContext and prepare: a session of this attempt's own. *)
Create ==
    /\ at = "create"
    /\ store' = IF case.prepare = "none" THEN NewSession
                ELSE Rewritten(case.prepare, NewSession, 0)
    /\ hit' = FALSE
    /\ at' = "warm"
    /\ request' = "none"
    /\ UNCHANGED <<case, attempt, frozen, worker, warm, base, log, counts>>

(* warmHealthCheckCache: it may time out, the test goes on regardless. *)
Warm ==
    /\ at = "warm"
    /\ warm' \in {warm, TRUE}
    /\ worker = "free" \/ warm' = warm
    /\ at' = "freeze"
    /\ UNCHANGED <<case, attempt, store, frozen, worker, request, base, log, hit,
                   counts>>

(* withFrozenMongo, once the freeze has taken effect. *)
Freeze ==
    /\ at = "freeze"
    /\ frozen' = TRUE
    /\ at' = "fire"
    /\ UNCHANGED <<case, attempt, store, hit, counts, appVars>>

Fire ==
    /\ at = "fire"
    /\ request' = "sent"
    /\ at' = "sibling"
    /\ UNCHANGED <<case, attempt, store, frozen, worker, warm, base, log, hit,
                   counts>>

Written == IF case.sibling = "delete" THEN Gone
           ELSE Rewritten(case.sibling, store, 1)

(* Mutant of SiblingWrite: the response is awaited inside the freeze. *)
SiblingWrite_AwaitsFrozen ==
    /\ at = "sibling"
    /\ store' = Written
    /\ hit' = (request = "loaded")
    /\ at' = "await"
    /\ UNCHANGED <<case, attempt, frozen, counts, appVars>>

(* 1.5 s later, asserting that the request is in flight (here it always    *)
(* is: a frozen MongoDB answers nobody).                                   *)
SiblingWrite ==
    /\ at = "sibling"
    /\ store' = Written
    /\ hit' = (request = "loaded")
    /\ at' = "thaw"
    /\ UNCHANGED <<case, attempt, frozen, counts, appVars>>

Thaw ==
    /\ at = "thaw"
    /\ frozen' = FALSE
    /\ at' = "await"
    /\ UNCHANGED <<case, attempt, store, hit, counts, appVars>>

Answered == request \in {"200", "401", "500"}

(* Mutant of LinesOf: any verdict line nearby counts. *)
LinesOf_AnySession(session) == log

(* The lines that name this session. *)
LinesOf(session) == {line \in log : line.session = session}

(* verdictCount: a grep that could not be run at all has found nothing.    *)
Count(lines, failed) == IF failed THEN 0 ELSE Cardinality(lines)

Failing(calls) ==
    /\ faults + Cardinality(calls) <= MaxFaults
    /\ faults' = faults + Cardinality(calls)

(* Mutant of AwaitResponse: judges without waiting for the response. *)
AwaitResponse_Early ==
    /\ at = "await"
    /\ conflicts' = Cardinality(LinesOf(attempt))
    /\ at' = "judge"
    /\ UNCHANGED <<case, attempt, store, frozen, hit, faults, appVars>>

(* Only a response that was awaited is judged, by what is counted then.    *)
AwaitResponse ==
    /\ at = "await"
    /\ Answered
    /\ \E failed \in SUBSET {"conflict"} :
          /\ Failing(failed)
          /\ conflicts' = Count(LinesOf(attempt), failed # {})
    /\ at' = "judge"
    /\ UNCHANGED <<case, attempt, store, frozen, hit, appVars>>

(* Mutant of Retry: one attempt too many. *)
Retry_OffByOne ==
    /\ at = "judge"
    /\ conflicts = 0
    /\ attempt <= MaxAttempts
    /\ attempt' = attempt + 1
    /\ at' = "create"
    /\ UNCHANGED <<case, store, frozen, hit, counts, appVars>>

(* No conflict was reported for this session: stage the race again. *)
Retry ==
    /\ at = "judge"
    /\ conflicts = 0
    /\ attempt < MaxAttempts
    /\ attempt' = attempt + 1
    /\ at' = "create"
    /\ UNCHANGED <<case, store, frozen, hit, counts, appVars>>

Expected(line) == line.verdict = case.verdict
FailsRequest(line) == line.verdict # "swallowed"

(* The assertions of concurrencyTest, with the greps of them that fail. *)
AsExpected(failed) ==
    /\ conflicts = 1
    /\ request = case.status
    /\ Count({line \in LinesOf(attempt) : Expected(line)}, "expect" \in failed) >= 1
    /\ (Count({line \in LinesOf(attempt) : FailsRequest(line)}, "fatal" \in failed) >= 1)
          <=> case.status = "500"

Judge ==
    /\ at = "judge"
    /\ conflicts >= 1 \/ attempt >= MaxAttempts
    /\ \E failed \in SUBSET {"expect", "fatal"} :
          /\ Failing(failed)
          /\ at' = IF AsExpected(failed) THEN "ok" ELSE "fail"
    /\ UNCHANGED <<case, attempt, store, frozen, hit, conflicts, appVars>>

(* A call that throws ends the test.  Outside of the freeze: the calls that *)
(* make and read the session, and the request, also one that is answered   *)
(* too late.                                                               *)
CallFails ==
    /\ faults < MaxFaults
    /\ faults' = faults + 1

CreateFails ==
    /\ at = "create"
    /\ CallFails
    /\ at' = "fail"
    /\ UNCHANGED <<case, attempt, store, frozen, hit, conflicts, appVars>>

AwaitFails ==
    /\ at = "await"
    /\ CallFails
    /\ at' = "fail"
    /\ UNCHANGED <<case, attempt, store, frozen, hit, conflicts, appVars>>

(* docker pause throws, with or without effect, or has none in time; what  *)
(* it leaves frozen is for the run's cleanup.                              *)
FreezeFails ==
    /\ at = "freeze"
    /\ CallFails
    /\ frozen' \in BOOLEAN
    /\ at' = "thrown"
    /\ UNCHANGED <<case, attempt, store, hit, conflicts, appVars>>

(* Within the freeze the request is rejected, or a probe call throws before *)
(* the write or after it: finally thaws, and the response is not looked at. *)
SiblingFails ==
    /\ at = "sibling"
    /\ CallFails
    /\ \/ UNCHANGED <<store, hit>>
       \/ store' = Written /\ hit' = (request = "loaded")
    /\ at' = "unwind"
    /\ UNCHANGED <<case, attempt, frozen, conflicts, appVars>>

Unwind ==
    /\ at = "unwind"
    /\ frozen' = FALSE
    /\ at' = "fail"
    /\ UNCHANGED <<case, attempt, store, hit, counts, appVars>>

(* docker unpause throws, with or without effect. *)
ThawFails ==
    /\ at \in {"thaw", "unwind"}
    /\ CallFails
    /\ frozen' \in BOOLEAN
    /\ at' = "thrown"
    /\ UNCHANGED <<case, attempt, store, hit, conflicts, appVars>>

TestStep ==
    \/ Create
    \/ Warm
    \/ Freeze
    \/ Fire
    \/ SiblingWrite
    \/ Thaw
    \/ AwaitResponse
    \/ Retry
    \/ Judge
    \/ Unwind

TestFails ==
    \/ CreateFails
    \/ FreezeFails
    \/ SiblingFails
    \/ ThawFails
    \/ AwaitFails

------------------------------------------------------------------------------
(* The app: one sync worker *)

(* haproxy's check finds a cold cache; the real one asks MongoDB. *)
HealthCheck ==
    /\ worker = "free"
    /\ ~warm
    /\ worker' = "health"
    /\ UNCHANGED <<testVars, warm, request, base, log>>

HealthAnswered ==
    /\ worker = "health"
    /\ ~frozen
    /\ worker' = "free"
    /\ warm' = TRUE
    /\ UNCHANGED <<testVars, request, base, log>>

(* status_cache_seconds have passed. *)
CacheExpires ==
    /\ warm
    /\ warm' = FALSE
    /\ UNCHANGED <<testVars, worker, request, base, log>>

(* The request reaches the worker and loads its session; without a login   *)
(* it is answered at once.                                                 *)
Serve ==
    /\ worker = "free"
    /\ request = "sent"
    /\ IF LoggedIn(store)
       THEN base' = store /\ request' = "loaded" /\ worker' = "request"
       ELSE request' = "401" /\ UNCHANGED <<base, worker>>
    /\ UNCHANGED <<testVars, warm, log>>

(* MongoDB answers, the request commits.  The view only reads, so without  *)
(* a conflict the stored session gains a csrf token at most.               *)
Commit ==
    /\ request = "loaded"
    /\ ~frozen
    /\ worker' = "free"
    /\ LET mine == Handled("read", base, "minted", 0)
           verdict == Verdict(base, mine, store)
       IN  IF store = base
           THEN request' = "200" /\ store' = mine /\ UNCHANGED log
           ELSE /\ request' = IF verdict = "swallowed" THEN "200" ELSE "500"
                /\ log' = log \cup {[session |-> attempt, verdict |-> verdict]}
                /\ UNCHANGED store
    /\ UNCHANGED <<case, at, attempt, frozen, warm, base, hit, counts>>

(* Another session's conflict is logged by the same app. *)
NeighbourConflict ==
    /\ \E verdict \in Verdicts :
          log' = log \cup {[session |-> Neighbour, verdict |-> verdict]}
    /\ LinesOf(Neighbour) = {}
    /\ UNCHANGED <<testVars, worker, warm, request, base>>

AppStep == HealthAnswered \/ Serve \/ Commit

Environment == HealthCheck \/ CacheExpires \/ NeighbourConflict

Next == TestStep \/ TestFails \/ AppStep \/ Environment

Spec == Init /\ [][Next]_vars

(* The test's own awaits are bounded and the worker serves what waits in   *)
(* its queue: a health check that is answered leaves a warm cache, so the  *)
(* request is not overtaken for ever (SF).                                 *)
FairSpec ==
    /\ Spec
    /\ WF_vars(TestStep)
    /\ WF_vars(HealthAnswered)
    /\ SF_vars(Serve)
    /\ WF_vars(Commit)

------------------------------------------------------------------------------
TypeOK ==
    /\ case \in Cases
    /\ at \in {"create", "warm", "freeze", "fire", "sibling", "thaw", "unwind",
               "await", "judge", "ok", "fail", "thrown"}
    /\ attempt \in 1..MaxAttempts
    /\ frozen \in BOOLEAN
    /\ worker \in {"free", "health", "request"}
    /\ warm \in BOOLEAN
    /\ request \in {"none", "sent", "loaded", "200", "401", "500"}
    /\ log \subseteq Lines
    /\ hit \in BOOLEAN
    /\ conflicts \in 0..1
    /\ faults \in 0..MaxFaults

(* No false pass: a test that reports ok has staged a real race, even when *)
(* a missed one is answered with the expected status, when another         *)
(* session's conflict is in the log, and when a grep could not be run.     *)
OkOnlyAfterRace == at = "ok" => hit

(* No false alarm: with the classification the webapps are meant to have,  *)
(* only an attempt that missed the race is staged again or fails the test, *)
(* unless a call failed: a grep, a probe call, a docker command, a request. *)
OnlyMissesRepeatOrFail ==
    [][(attempt' # attempt \/ at' \in {"fail", "thrown"}) => ~hit \/ faults' > 0]_vars

(* The test comes to a result and has thawed MongoDB, whatever throws in    *)
(* the freeze, unless docker pause or unpause itself failed.               *)
TestEnds == <>[](at = "thrown" \/ (at \in {"ok", "fail"} /\ ~frozen))
==============================================================================
