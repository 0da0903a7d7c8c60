----------------------------- MODULE SuiteOrder -----------------------------
(***************************************************************************)
(* The order of the tests in scripts/playwright_session_handling.js: what  *)
(* one test leaves to the next.  All tests of a run share one account and  *)
(* one browser context, found or made by whichever test calls ensureUser   *)
(* first; runs share the account file.  --only and --skip choose the       *)
(* tests, any call to the stack may fail, a developer may remove the       *)
(* account file and, between two runs, empty the database.                 *)
(*                                                                         *)
(* One run is modelled whole, and then the next.  A run that does not get  *)
(* the freeze lock goes on beside the one that has it, so there are other  *)
(* runs at any time; of these the model has what the first one can notice, *)
(* their dealings with the account file.                                   *)
(*                                                                         *)
(* An account is the number of the sign-up that created it; 0 is one the   *)
(* developer had before.  What the freezing tests do inside is MongoFreeze *)
(* and RaceStaging; here they pass unless they are in trouble.             *)
(***************************************************************************)
EXTENDS Naturals, Sequences, FiniteSets

CONSTANTS
  None,          \* no account, no file, no exit code
  Empty,         \* what is in a file between its truncation and its writing
  Choices,       \* command lines: records as in OptionsAssumption
  MaxRuns,       \* bound: runs of the suite
  MaxTroubles,   \* bound: failing calls and interruptions
  MaxResets,     \* bound: emptied databases, and removals of the account file
  MaxOthers      \* bound: sign-ups that runs beside this one set out on

VARIABLES
  accounts,      \* the accounts in the database
  signedUp,      \* number of sign-ups so far
  made,          \* history: how many of these were for ensureUser
  races,         \* history: sign-ups set out on while another was on its way
  accountFile,   \* the account named by --account-file
  fresh,         \* the account that signUp is about to return
  others,        \* number of sign-ups that other runs have set out on
  seeking,       \* how many of these have not created their account yet,
  unwritten, filling,  \* the accounts before and within writeAccountFile
  runs, troubles, resets, removals,
  opts,          \* OPTS of the run
  at, step,      \* the test the run has come to, and its place in it
  user,          \* suite's `user`
  main,          \* suite's `main`: no context yet, or what its session is
  results, failures, exit,
  hit            \* history: the tests of this run in which a call failed, or
                 \* the account file could not be read

world  == <<accounts, signedUp, made, races, accountFile, fresh>>
beside == <<others, seeking, unwritten, filling>>
bounds == <<runs, troubles, resets, removals, beside>>
vars == <<world, bounds, opts, at, step, user, main, results, failures, exit, hit>>

(* The tests in the order of the file; "race" stands for the seven         *)
(* concurrencyTest calls.                                                  *)
Tests == <<"first-contact", "log-in", "shared", "renews-ttl", "csrf", "expired",
           "tampered", "other-account", "parallel", "readiness", "path-lists", "race",
           "first-requests", "storm", "log-out", "password-again", "log-in-again">>
Names == {Tests[i] : i \in 1..Len(Tests)}

(* Those that do not call ensureUser, that freeze MongoDB, that are marked  *)
(* xfail, and that need the shared session logged in.                      *)
WithoutUser == {"first-contact", "path-lists", "log-in-again"}
Freezing    == {"readiness", "race"}
KnownGaps   == {"first-requests"}
UsesMain    == {"shared", "csrf", "other-account", "parallel", "log-out"}

ASSUME OptionsAssumption ==
  \A o \in Choices : /\ o.picked \subseteq Names      \* by --only and --skip
                     /\ {o.list, o.chaos, o.password} \subseteq BOOLEAN
                     /\ o.email \in {None, 0}
ASSUME NoneAssumption == None \notin Nat /\ Empty \notin Nat \union {None}
ASSUME BoundsAssumption == {MaxRuns, MaxTroubles, MaxResets, MaxOthers} \subseteq Nat

Emails  == {None} \union 0..signedUp
Running == step # "idle"
Test    == Tests[at]

Init ==
  /\ accounts = {0} /\ signedUp = 0 /\ made = 0 /\ races = 0
  /\ accountFile = None /\ fresh = None
  /\ others = 0 /\ seeking = 0 /\ unwritten = {} /\ filling = {}
  /\ runs = 0 /\ troubles = 0 /\ resets = 0 /\ removals = 0
  /\ opts \in Choices
  /\ at = 1 /\ step = "idle" /\ main = "none"
  /\ user = [email |-> None, password |-> FALSE, eppn |-> None]
  /\ results = [t \in Names |-> "pending"]
  /\ failures = 0 /\ exit = None /\ hit = {}

-----------------------------------------------------------------------------
(* The run and its small test harness.                                     *)

(* A run starts; with --list it does not even read the configuration. *)
Start(o) ==
  /\ ~Running /\ runs < MaxRuns
  /\ runs' = runs + 1
  /\ opts' = o
  /\ user' = [email |-> o.email, password |-> o.password, eppn |-> None]
  /\ main' = "none" /\ at' = 1
  /\ step' = IF o.list THEN "next" ELSE "config"
  /\ results' = [t \in Names |-> "pending"]
  /\ failures' = 0 /\ exit' = None /\ hit' = {}
  /\ UNCHANGED <<world, troubles, resets, removals, beside>>

InitFromConfig ==
  /\ step = "config"
  /\ step' = "next"
  /\ UNCHANGED <<world, bounds, opts, at, user, main, results, failures, exit, hit>>

(* SUITE ABORTED: the only call outside of test() that talks to the stack. *)
AbortSuite ==
  /\ step = "config" /\ troubles < MaxTroubles
  /\ troubles' = troubles + 1
  /\ step' = "idle" /\ exit' = 1
  /\ UNCHANGED <<world, runs, resets, removals, beside, opts, at, user, main, results, failures, hit>>

(* What test() does with the outcome of its function.                      *)
Record(status) ==
  /\ results' = [results EXCEPT ![Test] = status]
  /\ at' = at + 1 /\ step' = "next"
  /\ UNCHANGED <<opts, exit>>

Passes == /\ Record(IF Test \in KnownGaps THEN "XPASS" ELSE "ok")
          /\ UNCHANGED failures

(* Mutant of Fails: the failure is recorded and not counted. *)
Fails_Uncounted == /\ Record(IF Test \in KnownGaps THEN "XFAIL" ELSE "FAIL")
                   /\ UNCHANGED failures

Fails == IF Test \in KnownGaps
         THEN Record("XFAIL") /\ UNCHANGED failures
         ELSE Record("FAIL") /\ failures' = failures + 1

PassOver ==
  /\ step = "next" /\ at <= Len(Tests)
  /\ Test \notin opts.picked \/ opts.list
  /\ Record(IF Test \notin opts.picked THEN "skipped" ELSE "listed")
  /\ UNCHANGED <<world, bounds, user, main, failures, hit>>

Enters == step = "next" /\ at <= Len(Tests) /\ Test \in opts.picked /\ ~opts.list

(* requireChaosTarget throws Skip before anything else happens. *)
SkipFreezing ==
  /\ Enters
  /\ Test \in Freezing /\ ~opts.chaos
  /\ Record("skipped")
  /\ UNCHANGED <<world, bounds, user, main, failures, hit>>

Enter ==
  /\ Enters
  /\ ~(Test \in Freezing /\ ~opts.chaos)
  /\ step' = IF Test \in WithoutUser THEN "body" ELSE "ensure"
  /\ UNCHANGED <<world, bounds, opts, at, user, main, results, failures, exit, hit>>

End ==
  /\ step = "next" /\ at > Len(Tests)
  /\ step' = "idle"
  /\ exit' = IF failures > 0 THEN 1 ELSE 0
  /\ UNCHANGED <<world, bounds, opts, at, user, main, results, failures, hit>>

(* SIGINT or SIGTERM; node handles neither between two synchronous calls. *)
Interrupt ==
  /\ Running /\ step \notin {"read", "write", "fill"} /\ troubles < MaxTroubles
  /\ troubles' = troubles + 1
  /\ step' = "idle" /\ exit' = 130
  /\ UNCHANGED <<world, runs, resets, removals, beside, opts, at, user, main, results, failures, hit>>

(* A call to the stack or to the file system fails, before or after it     *)
(* took effect; the exception ends the test.                               *)
Trouble ==
  /\ step \notin {"idle", "config", "next"}
  /\ troubles < MaxTroubles
  /\ troubles' = troubles + 1
  /\ hit' = hit \union {Test}
  /\ Fails
  /\ UNCHANGED <<world, runs, resets, removals, beside, user, main>>

(* The storm's requests have no handler until the logout is through.  One  *)
(* that is rejected before, or by closing the context after a failed       *)
(* logout, is an unhandled rejection: node exits, nothing is recorded.     *)
StormCrash ==
  /\ step = "body" /\ Test = "storm" /\ troubles < MaxTroubles
  /\ troubles' = troubles + 1
  /\ hit' = hit \union {Test}
  /\ step' = "idle" /\ exit' = 1
  /\ UNCHANGED <<world, runs, resets, removals, beside, opts, at, user, main, results, failures>>

-----------------------------------------------------------------------------
(* ensureUser                                                              *)

From(place) == step = place
             /\ UNCHANGED <<bounds, opts, at, results, failures, exit, hit>>

LoggedIn  == main \in {"in", "expiring"}
CanLogIn  == user.email \in accounts /\ user.password
Opened    == main' = IF main = "none" THEN "out" ELSE main
SignUp    == /\ signedUp' = signedUp + 1
             /\ accounts' = accounts \union {signedUp'}

(* Mutant of KnownUser: a user that is known is logged in all the same. *)
KnownUser_LogsIn ==
  /\ From("ensure")
  /\ user.eppn # None
  /\ step' = "login"
  /\ UNCHANGED <<world, user, main>>

KnownUser ==
  /\ From("ensure")
  /\ user.eppn # None
  /\ step' = "body"
  /\ UNCHANGED <<world, user, main>>

UseGivenAccount ==
  /\ From("ensure")
  /\ user.eppn = None /\ user.email # None
  /\ step' = "login" /\ Opened
  /\ UNCHANGED <<world, user>>

(* Whether there is a file is asked once, and what the answer was decides. *)
FindAccountFile ==
  /\ From("ensure")
  /\ user.eppn = None /\ user.email = None /\ accountFile # None
  /\ step' = "read" /\ Opened
  /\ UNCHANGED <<world, user>>

UseAccountFile ==
  /\ From("read") /\ accountFile \notin {None, Empty}
  /\ user' = [user EXCEPT !.email = accountFile, !.password = TRUE]
  /\ step' = "login"
  /\ UNCHANGED <<world, main>>

(* JSON.parse of nothing, or ENOENT. *)
ReadFails ==
  /\ step = "read" /\ accountFile \in {None, Empty}
  /\ hit' = hit \union {Test}
  /\ Fails
  /\ UNCHANGED <<world, bounds, user, main>>

Signing == step \in {"signup", "created", "write"}
SignUpUnderWay == Signing \/ seeking > 0 \/ unwritten # {}
SetsOutToSignUp == /\ accountFile = None
                   /\ races' = races + IF SignUpUnderWay THEN 1 ELSE 0
                   /\ UNCHANGED <<accounts, signedUp, made, accountFile, fresh>>

FindNoAccount ==
  /\ From("ensure")
  /\ user.eppn = None /\ user.email = None /\ SetsOutToSignUp
  /\ step' = "signup" /\ Opened
  /\ UNCHANGED user

(* The new account exists before signUp has returned. *)
SignUpUser ==
  /\ From("signup")
  /\ SignUp /\ made' = made + 1 /\ fresh' = signedUp'
  /\ step' = "created"
  /\ UNCHANGED <<races, accountFile, user, main>>

SignUpReturns ==
  /\ From("created")
  /\ user' = [user EXCEPT !.email = fresh, !.password = TRUE]
  /\ step' = "write"
  /\ UNCHANGED <<world, main>>

(* Mutant of OpenAccountFile: the account is not written down. *)
OpenAccountFile_Not ==
  /\ From("write")
  /\ step' = "login"
  /\ UNCHANGED <<world, user, main>>

(* writeAccountFile: the file is truncated, then written. *)
OpenAccountFile ==
  /\ From("write")
  /\ accountFile' = Empty
  /\ step' = "fill"
  /\ UNCHANGED <<accounts, signedUp, made, races, fresh, user, main>>

WriteAccountFile ==
  /\ From("fill")
  /\ accountFile' = user.email
  /\ step' = "login"
  /\ UNCHANGED <<accounts, signedUp, made, races, fresh, user, main>>

(* logIn: loading the profile page is a request and renews the session. *)
LogsIn == main' = IF LoggedIn \/ CanLogIn THEN "in" ELSE main

LogIn ==
  /\ From("login")
  /\ LogsIn
  /\ step' = "check"
  /\ UNCHANGED <<world, user>>

LoginWorked ==
  /\ From("check")
  /\ LoggedIn
  /\ user' = [user EXCEPT !.eppn = user.email]
  /\ step' = "body"
  /\ UNCHANGED <<world, main>>

(* Mutant of LoginFailed: a login that did not work is not noticed. *)
LoginFailed_Ignored ==
  /\ From("check") /\ ~LoggedIn
  /\ step' = "body"
  /\ UNCHANGED <<world, user, main>>

LoginFailed ==
  /\ step = "check" /\ ~LoggedIn
  /\ Fails
  /\ UNCHANGED <<world, bounds, user, main, hit>>

-----------------------------------------------------------------------------
(* The tests' own functions.  A session with a short ttl may run out.      *)

Outcome(place, tests, good) ==
  /\ step = place /\ Test \in tests
  /\ IF good THEN Passes ELSE Fails
  /\ UNCHANGED <<world, bounds, user, hit>>

(* Tests of sessions of their own, from a new context or `probe create`. *)
Apart(tests) == Outcome("body", tests, TRUE) /\ UNCHANGED main

TestFirstContact == Apart({"first-contact"})
TestLogIn        == Apart({"log-in"})       \* ensureUser is all of it
TestOwnSession   == Apart({"expired", "tampered"})
TestFreezing     == Apart(Freezing)
TestPathLists    == Apart({"path-lists"})
TestStorm        == Apart({"storm"})

(* Two apps may write the first csrf token at once, or not. *)
TestFirstRequests ==
  /\ \E collide \in BOOLEAN : Outcome("body", KnownGaps, ~collide)
  /\ UNCHANGED main

(* Requests with main's cookie: answered, and renewing, if logged in. *)
WithMain(place, tests) ==
  /\ Outcome(place, tests, LoggedIn)
  /\ main' = IF LoggedIn THEN "in" ELSE main

TestShared   == WithMain("body", {"shared"})
TestCsrf     == WithMain("body", {"csrf"})
TestParallel == WithMain("body", {"parallel"})

ShortenTtl ==
  /\ From("body") /\ Test = "renews-ttl"
  /\ main' = IF LoggedIn THEN "expiring" ELSE main
  /\ step' = "body2"
  /\ UNCHANGED <<world, user>>

TestRenewal == WithMain("body2", {"renews-ttl"})

SignUpOther ==
  /\ From("body") /\ Test = "other-account"
  /\ SignUp
  /\ step' = "body2"
  /\ UNCHANGED <<made, races, accountFile, fresh, user, main>>

TestOtherAccount == WithMain("body2", {"other-account"})

LogOut ==
  /\ From("body") /\ Test = "log-out" /\ LoggedIn
  /\ main' = "out"
  /\ step' = "body2"
  /\ UNCHANGED <<world, user>>

TestLogOut ==
  /\ \/ Outcome("body", {"log-out"}, FALSE) /\ ~LoggedIn
     \/ Outcome("body2", {"log-out"}, TRUE)
  /\ UNCHANGED main

TestPasswordAgain ==
  /\ Outcome("body", {"password-again"}, ~LoggedIn)
  /\ main' = IF LoggedIn THEN "in" ELSE main

(* This test does not call ensureUser: it needs what that has left. *)
HasAccountAndContext == user.email # None /\ user.password /\ main # "none"

LogInAgain ==
  /\ From("body") /\ Test = "log-in-again" /\ HasAccountAndContext
  /\ LogsIn
  /\ step' = "body2"
  /\ UNCHANGED <<world, user>>

TestLogInAgain ==
  /\ \/ Outcome("body", {"log-in-again"}, FALSE) /\ ~HasAccountAndContext
     \/ Outcome("body2", {"log-in-again"}, LoggedIn /\ user.eppn # None)
  /\ UNCHANGED main

(* Not in the test of the ttl itself, which asks again within 300 s. *)
TtlRunsOut ==
  /\ Running /\ main = "expiring"
  /\ results["renews-ttl"] # "pending"
  /\ main' = "out"
  /\ UNCHANGED <<world, bounds, opts, at, step, user, results, failures, exit, hit>>

-----------------------------------------------------------------------------
(* The account file and the other runs                                     *)

ResetDatabase ==
  /\ ~Running /\ resets < MaxResets /\ accounts # {}
  /\ accounts' = {} /\ resets' = resets + 1
  /\ UNCHANGED <<signedUp, made, races, accountFile, fresh, runs, troubles, removals, beside,
                 opts, at, step, user, main, results, failures, exit, hit>>

(* At any time, but not between a truncation and the writing after it. *)
RemoveAccountFile ==
  /\ step # "fill" /\ filling = {} /\ removals < MaxResets /\ accountFile # None
  /\ accountFile' = None /\ removals' = removals + 1
  /\ UNCHANGED <<accounts, signedUp, made, races, fresh, runs, troubles, resets, beside,
                 opts, at, step, user, main, results, failures, exit, hit>>

(* ensureUser of another run: it finds no file, signs up and writes.       *)
Aside == UNCHANGED <<runs, resets, removals, fresh,
                     opts, at, step, user, main, results, failures, exit, hit>>

OtherFindsNone ==
  /\ others < MaxOthers /\ others' = others + 1
  /\ SetsOutToSignUp /\ seeking' = seeking + 1
  /\ UNCHANGED <<troubles, unwritten, filling>> /\ Aside

OtherSignsUp ==
  /\ seeking > 0 /\ seeking' = seeking - 1
  /\ SignUp /\ made' = made + 1
  /\ unwritten' = unwritten \union {signedUp'}
  /\ UNCHANGED <<races, accountFile, troubles, others, filling>> /\ Aside

OtherOpensFile(account) ==
  /\ account \in unwritten
  /\ unwritten' = unwritten \ {account} /\ filling' = filling \union {account}
  /\ accountFile' = Empty
  /\ UNCHANGED <<accounts, signedUp, made, races, troubles, others, seeking>> /\ Aside

OtherWritesFile(account) ==
  /\ account \in filling
  /\ filling' = filling \ {account} /\ accountFile' = account
  /\ UNCHANGED <<accounts, signedUp, made, races, troubles, others, seeking, unwritten>>
  /\ Aside

(* It fails, or ends, on the way. *)
OtherFails ==
  /\ troubles < MaxTroubles /\ troubles' = troubles + 1
  /\ \/ /\ seeking > 0 /\ seeking' = seeking - 1
        /\ UNCHANGED <<unwritten, filling>>
     \/ \E account \in unwritten \union filling :
          /\ unwritten' = unwritten \ {account} /\ filling' = filling \ {account}
          /\ UNCHANGED seeking
  /\ UNCHANGED <<accounts, signedUp, made, races, accountFile, others>> /\ Aside

Harness == (\E o \in Choices : Start(o)) \/ InitFromConfig \/ AbortSuite \/ PassOver
           \/ SkipFreezing \/ Enter \/ End \/ Interrupt \/ Trouble
           \/ StormCrash
EnsureUser == KnownUser \/ UseGivenAccount \/ FindAccountFile \/ UseAccountFile \/ ReadFails
              \/ FindNoAccount \/ SignUpUser \/ SignUpReturns \/ OpenAccountFile
              \/ WriteAccountFile \/ LogIn \/ LoginWorked \/ LoginFailed
Bodies == TestFirstContact \/ TestLogIn \/ TestOwnSession \/ TestFreezing \/ TestPathLists
          \/ TestStorm \/ TestFirstRequests \/ TestShared \/ TestCsrf \/ TestParallel
          \/ ShortenTtl \/ TestRenewal
          \/ SignUpOther \/ TestOtherAccount \/ LogOut \/ TestLogOut \/ TestPasswordAgain
          \/ LogInAgain \/ TestLogInAgain
Outside == TtlRunsOut \/ ResetDatabase \/ RemoveAccountFile
OtherRuns == \/ OtherFindsNone \/ OtherSignsUp \/ OtherFails
             \/ \E account \in 0..signedUp : OtherOpensFile(account) \/ OtherWritesFile(account)

Next == Harness \/ EnsureUser \/ Bodies \/ Outside \/ OtherRuns
Spec == Init /\ [][Next]_vars

-----------------------------------------------------------------------------
(* Properties                                                              *)

(* The variables have their types: the file and the user name accounts     *)
(* that somebody signed up for, and the counter of failures is that of the *)
(* results.                                                                *)
TypeOK ==
  /\ accounts \subseteq 0..signedUp
  /\ signedUp \in Nat /\ made \in 0..signedUp
  /\ accountFile \in Emails \union {Empty} /\ fresh \in Emails
  /\ others \in 0..MaxOthers /\ {races, seeking} \subseteq Nat
  /\ unwritten \union filling \subseteq 0..signedUp
  /\ runs \in 0..MaxRuns /\ troubles \in 0..MaxTroubles
  /\ {resets, removals} \subseteq 0..MaxResets
  /\ opts \in Choices
  /\ at \in 1..Len(Tests) + 1
  /\ step \in {"idle", "config", "next", "ensure", "read", "signup", "created", "write", "fill",
               "login", "check", "body", "body2"}
  /\ user \in [email : Emails, password : BOOLEAN, eppn : Emails]
  /\ main \in {"none", "out", "in", "expiring"}
  /\ results \in [Names -> {"pending", "skipped", "listed", "ok", "FAIL", "XPASS", "XFAIL"}]
  /\ failures = Cardinality({t \in Names : results[t] = "FAIL"})
  /\ exit \in {None, 0, 1, 130}
  /\ hit \subseteq Names

(* Why a test may fail that no call failed in.  The account cannot be      *)
(* used; the test of the password form has no logout before it that        *)
(* worked; the last test finds no user; or the test of the ttl was hit     *)
(* and left the session to run out.                                        *)
NoUsableAccount   == user.email # None /\ ~CanLogIn
NoLogoutBefore(t) == t = "password-again" /\ results["log-out"] # "ok"
NoUserBefore(t)   == t = "log-in-again" /\ user.eppn = None
SessionRanOut(t)  == t \in UsesMain /\ "renews-ttl" \in hit

(* One test's failure does not spread through the shared user and context  *)
(* except in these four ways; so a run of all tests in which no call fails *)
(* and whose account exists has no FAIL.  (ensureUser, test, and the order *)
(* of the tests)                                                           *)
FailuresAreExplained ==
  \A t \in Names : results[t] = "FAIL" =>
    t \in hit \/ NoUsableAccount \/ NoLogoutBefore(t) \/ NoUserBefore(t) \/ SessionRanOut(t)

(* What an exit code of 0 says: every selected test has been through and   *)
(* was ok, with a user that had logged in, except that a known gap may     *)
(* have failed for any reason, and the freezing tests may be skipped; a    *)
(* run of nothing but these, or of no test, says nothing about a login.    *)
(* (test, record, main)                                                    *)
GreenMeansTested ==
  exit = 0 /\ ~opts.list =>
    LET excused == KnownGaps \union (IF opts.chaos THEN {} ELSE Freezing)
    IN  /\ \A t \in opts.picked \ excused : results[t] = "ok"
        /\ \A t \in opts.picked \intersect excused : results[t] \in {"XPASS", "XFAIL", "skipped"}
        /\ opts.picked \subseteq excused \union WithoutUser \/ user.eppn # None

(* However often the suite is run, in however many runs at a time, and     *)
(* with whatever selection of tests, all runs sign up for one account, "to *)
(* re-run the suite against the same account without signing up again",    *)
(* and for one more only after a failed call, an interruption or the       *)
(* removal of the account file, or when a run found no file while another  *)
(* was on its way from finding none to making one.                         *)
(* (ensureUser, writeAccountFile)                                          *)
RunsShareTheAccount ==
  made <= 1 + troubles + removals + races
=============================================================================
