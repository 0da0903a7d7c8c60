-------------------------- MODULE SuiteOrderProofs --------------------------
(***************************************************************************)
(* Proofs about the test harness, for any command lines and any number of  *)
(* runs, failing calls and resets: type correctness, that a failure that   *)
(* no call explains has one of the named causes, what a green run has      *)
(* tested, and that runs share one account.  The last part is about what   *)
(* the harness shows of an app's log, for every log of whole records and   *)
(* any size of the window.                                                 *)
(***************************************************************************)
EXTENDS SuiteOrder, LogExcerpts, FiniteSetTheorems, TLAPS

------------------------------------------------------------------------------
(* The inductive invariant, part by part *)

InTest == step \in {"ensure", "read", "signup", "created", "write", "fill",
                    "login", "check", "body", "body2"}

(* A test is in progress only while there is one; those still to come have *)
(* no result, those before have.                                           *)
PlaceInv ==
  /\ InTest => at \in 1..Len(Tests)
  /\ Running => exit = None
  /\ step = "body2" => Test \in {"renews-ttl", "other-account", "log-out", "log-in-again"}
  /\ \A i \in at..Len(Tests) : results[Tests[i]] = "pending"
  /\ \A i \in 1..(at - 1) : results[Tests[i]] # "pending"

(* The sign-ups that were made or set out on are one, which is in the      *)
(* account file or on its way there, but for those that failed or raced    *)
(* another and files that were removed.                                    *)
Placed == accountFile # None \/ SignUpUnderWay

OneAccountInv ==
  made + seeking + (IF step = "signup" THEN 1 ELSE 0)
    <= troubles + removals + races + (IF Placed THEN 1 ELSE 0)

(* From where ensureUser has an account to log in with, to where it knows  *)
(* who has logged in.                                                      *)
UserInv ==
  /\ step \in {"read", "signup", "created"} => user.email = None
  /\ step = "created" => fresh # None
  /\ step \in {"write", "fill", "login", "check"} => user.email # None
  /\ step \in {"read", "signup", "created", "write", "fill", "login", "check"} =>
       user.eppn = None
  /\ LoggedIn => user.email # None /\ user.password
  /\ user.eppn # None => user.email # None /\ user.password /\ main # "none"
  /\ step \in {"body", "body2"} /\ Test \notin WithoutUser => user.eppn # None

(* After a login that worked the session is new; one that did not work had *)
(* no usable account.                                                      *)
JustTried == step = "check" \/ (step = "body2" /\ Test = "log-in-again")

LoginInv ==
  JustTried => user.email # None /\ (main = "in" \/ (~LoggedIn /\ ~CanLogIn))

(* A user that has logged in stays so until the logout, unless the test of *)
(* the ttl was hit between cutting the ttl and the request that renews it. *)
Expiring == step = "body2" /\ Test = "renews-ttl"
LoggingOut == step = "body2" /\ Test = "log-out"

SharedInv ==
  /\ results["renews-ttl"] = "pending" => "renews-ttl" \notin hit
  /\ Running =>
       /\ main = "expiring" => "renews-ttl" \in hit \/ Expiring
       /\ user.eppn # None /\ results["log-out"] = "pending" /\ ~LoggingOut =>
            LoggedIn \/ "renews-ttl" \in hit
       /\ results["log-out"] = "ok" /\ results["password-again"] = "pending" =>
            ~LoggedIn /\ user.eppn # None
       /\ LoggingOut => ~LoggedIn

(* What a test that was selected may have recorded.                        *)
Recorded(t) == IF t \in KnownGaps THEN {"XPASS", "XFAIL"}
               ELSE IF t \in Freezing /\ ~opts.chaos THEN {"skipped"}
               ELSE {"ok", "FAIL"}

GreenInv ==
  /\ exit = 0 => failures = 0 /\ at = Len(Tests) + 1
  /\ InTest /\ Test \in Freezing => opts.chaos
  /\ ~opts.list => \A i \in 1..(at - 1) :
       Tests[i] \in opts.picked => results[Tests[i]] \in Recorded(Tests[i])
  /\ \A t \in Names \ WithoutUser : results[t] = "ok" => user.eppn # None


------------------------------------------------------------------------------
(* The order of the tests *)

LEMMA TestsInOrder ==
  /\ Tests[1] = "first-contact" /\ Tests[2] = "log-in" /\ Tests[3] = "shared"
  /\ Tests[4] = "renews-ttl" /\ Tests[5] = "csrf" /\ Tests[6] = "expired"
  /\ Tests[7] = "tampered" /\ Tests[8] = "other-account" /\ Tests[9] = "parallel"
  /\ Tests[10] = "readiness" /\ Tests[11] = "path-lists" /\ Tests[12] = "race"
  /\ Tests[13] = "first-requests" /\ Tests[14] = "storm" /\ Tests[15] = "log-out"
  /\ Tests[16] = "password-again" /\ Tests[17] = "log-in-again"
  BY DEF Tests

LEMMA TestsFacts ==
  /\ Len(Tests) = 17 /\ DOMAIN Tests = 1..17
  /\ \A i \in 1..17 : Tests[i] \in Names
  /\ \A t \in Names : \E i \in 1..17 : Tests[i] = t
  /\ \A i, j \in 1..17 : Tests[i] = Tests[j] => i = j
<1>1. Len(Tests) = 17 /\ DOMAIN Tests = 1..17
  BY DEF Tests
<1>2. \A i \in 1..17 : Tests[i] \in Names
  BY <1>1 DEF Names
<1>3. \A t \in Names : \E i \in 1..17 : Tests[i] = t
  BY <1>1 DEF Names
<1>4. \A i, j \in 1..17 : Tests[i] = Tests[j] => i = j
  <2> SUFFICES ASSUME NEW i \in 1..17, NEW j \in 1..17, Tests[i] = Tests[j]
               PROVE  i = j
    OBVIOUS
  <2>1. \A k \in 1..17 :
          \/ k = 1 \/ k = 2 \/ k = 3 \/ k = 4 \/ k = 5 \/ k = 6
          \/ k = 7 \/ k = 8 \/ k = 9 \/ k = 10 \/ k = 11 \/ k = 12
          \/ k = 13 \/ k = 14 \/ k = 15 \/ k = 16 \/ k = 17
    OBVIOUS
  <2> QED
    BY SMTT(60), <2>1, TestsInOrder
<1> QED
  BY <1>1, <1>2, <1>3, <1>4

LEMMA NamesFinite == IsFiniteSet(Names)
<1>1. Tests \in Surjection(1..17, Names)
  <2>1. Tests \in [1..17 -> Names]
    <3>1. Tests = [i \in 1..17 |-> Tests[i]]
      BY DEF Tests
    <3> QED
      BY <3>1, TestsFacts
  <2> QED
    BY <2>1, TestsFacts DEF Surjection
<1> QED
  BY <1>1, FS_NatSurjection DEF ExistsSurjection
------------------------------------------------------------------------------
(* Types, and the place in the list of tests *)

Statuses == {"pending", "skipped", "listed", "ok", "FAIL", "XPASS", "XFAIL"}

Failed == {t \in Names : results[t] = "FAIL"}

LEMMA FailedFinite == IsFiniteSet(Failed) /\ Cardinality(Failed) \in Nat
  BY NamesFinite, FS_Subset, FS_CardinalityType DEF Failed

(* A result is recorded for the test the run has come to, once.            *)
LEMMA Recording ==
  ASSUME TypeOK, PlaceInv, Running, at \in 1..17,
         NEW status \in Statuses \ {"pending"}, Record(status)
  PROVE  /\ at' = at + 1 /\ at' \in 1..18 /\ step' = "next"
         /\ Test \in Names /\ results[Test] = "pending"
         /\ results' \in [Names -> Statuses]
         /\ results'[Test] = status
         /\ \A t \in Names \ {Test} : results'[t] = results[t]
         /\ Cardinality(Failed') = failures + (IF status = "FAIL" THEN 1 ELSE 0)
         /\ exit' = exit /\ opts' = opts
         /\ PlaceInv'
<1>1. /\ at' = at + 1 /\ step' = "next" /\ exit' = exit /\ opts' = opts
      /\ results' = [results EXCEPT ![Test] = status]
  BY DEF Record
<1>2. Test \in Names /\ results[Test] = "pending"
  BY TestsFacts DEF Test, PlaceInv
<1>3. results \in [Names -> Statuses] /\ failures = Cardinality(Failed)
  BY DEF TypeOK, Statuses, Failed
<1>4. /\ results' \in [Names -> Statuses] /\ results'[Test] = status
      /\ \A t \in Names \ {Test} : results'[t] = results[t]
  BY <1>1, <1>2, <1>3
<1>5. Cardinality(Failed') = failures + (IF status = "FAIL" THEN 1 ELSE 0)
  <2>1. CASE status = "FAIL"
    <3>1. Failed' = Failed \union {Test} /\ Test \notin Failed
      BY <1>2, <1>4, <2>1 DEF Failed
    <3> QED
      BY <1>3, <2>1, <3>1, FailedFinite, FS_AddElement
  <2>2. CASE status # "FAIL"
    <3>1. Failed' = Failed
      BY <1>2, <1>4, <2>2 DEF Failed
    <3> QED
      BY <1>3, <2>2, <3>1, FailedFinite
  <2> QED
    BY <2>1, <2>2
<1>6. PlaceInv'
  <2>1. \A i \in 1..17 : i # at => results'[Tests[i]] = results[Tests[i]]
    BY <1>4, TestsFacts DEF Test
  <2>2. /\ \A i \in at..17 : results[Tests[i]] = "pending"
        /\ \A i \in 1..(at - 1) : results[Tests[i]] # "pending"
    BY TestsFacts DEF PlaceInv
  <2>3. \A i \in (at + 1)..17 : results'[Tests[i]] = "pending"
    BY <2>1, <2>2
  <2>4. \A i \in 1..at : results'[Tests[i]] # "pending"
    BY <1>4, <2>1, <2>2 DEF Test
  <2> QED
    BY <1>1, <2>3, <2>4, TestsFacts DEF PlaceInv, InTest, Running
<1> QED
  BY <1>1, <1>2, <1>4, <1>5, <1>6
------------------------------------------------------------------------------
(* The steps, by what they do to the results *)

(* A test comes to its end.                                                *)
Judges ==
  \/ Trouble \/ ReadFails \/ LoginFailed
  \/ TestFirstContact \/ TestLogIn \/ TestOwnSession \/ TestFreezing \/ TestPathLists
  \/ TestStorm \/ TestFirstRequests \/ TestShared \/ TestCsrf \/ TestParallel
  \/ TestRenewal \/ TestOtherAccount \/ TestLogOut \/ TestPasswordAgain
  \/ TestLogInAgain

(* It goes on.                                                             *)
Moves ==
  \/ KnownUser \/ UseGivenAccount \/ FindAccountFile \/ UseAccountFile
  \/ FindNoAccount \/ SignUpUser \/ SignUpReturns
  \/ OpenAccountFile \/ WriteAccountFile \/ LogIn \/ LoginWorked
  \/ ShortenTtl \/ SignUpOther \/ LogOut \/ LogInAgain

(* The run comes to another test, or ends.                                 *)
Turns == InitFromConfig \/ AbortSuite \/ PassOver \/ SkipFreezing \/ Enter \/ End
         \/ Interrupt \/ StormCrash

LEMMA Kinds ==
  [Next]_vars => \/ \E o \in Choices : Start(o)
                 \/ Judges \/ Moves \/ Turns \/ Outside \/ OtherRuns
                 \/ UNCHANGED vars
  BY DEF Next, Harness, EnsureUser, Bodies, Judges, Moves, Turns

(* A test that comes to its end records what it passed or failed with, and *)
(* leaves the account alone; the session is renewed at most.               *)
LEMMA JudgeSteps ==
  ASSUME TypeOK, PlaceInv, Judges
  PROVE  /\ InTest /\ at \in 1..17
         /\ \E status \in {"ok", "FAIL", "XPASS", "XFAIL"} :
              /\ Record(status)
              /\ status \in {"XPASS", "XFAIL"} <=> Test \in KnownGaps
              /\ failures' = failures + (IF status = "FAIL" THEN 1 ELSE 0)
              /\ status = "ok" => step \in {"body", "body2"}
         /\ UNCHANGED <<world, runs, resets, removals, beside, user>>
         /\ main' = main \/ (LoggedIn /\ main' = "in")
         /\ hit' \in {hit, hit \union {Test}}
         /\ \/ UNCHANGED troubles
            \/ /\ troubles < MaxTroubles /\ troubles' = troubles + 1
<1> DEFINE Result == \E status \in {"ok", "FAIL", "XPASS", "XFAIL"} :
                       /\ Record(status)
                       /\ status \in {"XPASS", "XFAIL"} <=> Test \in KnownGaps
                       /\ failures' = failures + (IF status = "FAIL" THEN 1 ELSE 0)
                       /\ status = "ok" => step \in {"body", "body2"}
           Rest == /\ UNCHANGED <<world, runs, resets, removals, beside, user>>
                   /\ main' = main \/ (LoggedIn /\ main' = "in")
           Untroubled == UNCHANGED <<troubles, hit>>
<1>1. failures \in Nat
  BY FailedFinite DEF TypeOK, Failed
<1>2. Passes /\ step \in {"body", "body2"} => Result
  BY <1>1 DEF Passes
<1>3. Fails => Result
  BY <1>1 DEF Fails
<1> HIDE DEF Result
<1>4. CASE Trouble
  <2>1. InTest /\ Fails
    BY <1>4 DEF Trouble, TypeOK, InTest
  <2> QED
    BY <1>4, <1>3, <2>1, TestsFacts DEF Trouble, PlaceInv, Result
<1>5. CASE LoginFailed \/ ReadFails
  BY <1>5, <1>3, TestsFacts DEF LoginFailed, ReadFails, PlaceInv, InTest, Result, bounds
<1>6. ASSUME NEW place \in {"body", "body2"}, NEW tests, NEW good \in BOOLEAN,
             Outcome(place, tests, good)
      PROVE  InTest /\ at \in 1..17 /\ Result /\ Untroubled
             /\ UNCHANGED <<world, runs, resets, removals, beside, user>>
  BY <1>6, <1>2, <1>3, TestsFacts DEF Outcome, PlaceInv, InTest, bounds
<1>7. ASSUME NEW tests, Apart(tests)
      PROVE  InTest /\ at \in 1..17 /\ Result /\ Untroubled /\ Rest
  BY <1>7, <1>6 DEF Apart
<1>8. ASSUME NEW place \in {"body", "body2"}, NEW tests, WithMain(place, tests)
      PROVE  InTest /\ at \in 1..17 /\ Result /\ Untroubled /\ Rest
  <2>1. Outcome(place, tests, LoggedIn) /\ main' \in {main, "in"}
        /\ (main' # main => LoggedIn)
    BY <1>8 DEF WithMain
  <2>2. LoggedIn \in BOOLEAN
    BY DEF LoggedIn
  <2> HIDE DEF LoggedIn
  <2> QED
    BY <1>6, <2>1, <2>2
<1>9. CASE TestFirstRequests
  BY <1>9, <1>6 DEF TestFirstRequests, Result
<1>10. CASE TestLogOut
  BY <1>10, <1>6 DEF TestLogOut, Result
<1>11. CASE TestPasswordAgain
  BY <1>11, <1>6 DEF TestPasswordAgain, LoggedIn, Result
<1>12. CASE TestLogInAgain
  BY <1>12, <1>6 DEF TestLogInAgain, LoggedIn, Result
<1> QED
  BY <1>4, <1>5, <1>7, <1>8, <1>9, <1>10, <1>11, <1>12
     DEF Judges, Result, TestFirstContact, TestLogIn, TestOwnSession, TestFreezing,
         TestPathLists, TestStorm, TestShared, TestCsrf, TestParallel, TestRenewal,
         TestOtherAccount
------------------------------------------------------------------------------
(* Types *)

WorldOK ==
  /\ accounts \subseteq 0..signedUp /\ signedUp \in Nat /\ made \in 0..signedUp
  /\ accountFile \in Emails \union {Empty} /\ fresh \in Emails
  /\ others \in 0..MaxOthers /\ {races, seeking} \subseteq Nat
  /\ unwritten \union filling \subseteq 0..signedUp
  /\ user \in [email : Emails, password : BOOLEAN, eppn : Emails]
  /\ main \in {"none", "out", "in", "expiring"}

Steps == {"idle", "config", "next", "ensure", "read", "signup", "created", "write", "fill",
          "login", "check", "body", "body2"}

PlaceOK ==
  /\ runs \in 0..MaxRuns /\ troubles \in 0..MaxTroubles
  /\ {resets, removals} \subseteq 0..MaxResets
  /\ opts \in Choices
  /\ at \in 1..18 /\ step \in Steps
  /\ results \in [Names -> Statuses]
  /\ failures = Cardinality(Failed)
  /\ exit \in {None, 0, 1, 130}
  /\ hit \subseteq Names

LEMMA TypeParts == /\ TypeOK <=> WorldOK /\ PlaceOK
                   /\ TypeOK' <=> WorldOK' /\ PlaceOK'
  BY TestsFacts DEF TypeOK, WorldOK, PlaceOK, Steps, Statuses, Failed

LEMMA InitPlace == Init => TypeOK /\ PlaceInv
<1> SUFFICES ASSUME Init PROVE TypeOK /\ PlaceInv
  OBVIOUS
<1>1. WorldOK
  BY BoundsAssumption DEF Init, WorldOK, Emails
<1>2. Failed = {}
  BY DEF Init, Failed
<1>3. PlaceOK
  BY <1>2, BoundsAssumption, FS_EmptySet DEF Init, PlaceOK, Steps, Statuses
<1>4. PlaceInv
  BY TestsFacts DEF Init, PlaceInv, InTest, Running
<1> QED
  BY <1>1, <1>3, <1>4, TypeParts

(* Another run: at most one account more, and nothing of this run.         *)
LEMMA OtherSteps ==
  ASSUME WorldOK, OtherRuns
  PROVE  /\ Aside /\ WorldOK'
         /\ \/ UNCHANGED <<accounts, signedUp, made>>
            \/ accounts' = accounts \union {signedUp + 1}
         /\ \/ UNCHANGED troubles
            \/ troubles < MaxTroubles /\ troubles' = troubles + 1
<1>1. CASE OtherFindsNone
  BY <1>1, BoundsAssumption DEF OtherFindsNone, SetsOutToSignUp, Aside, WorldOK, Emails
<1>2. CASE OtherSignsUp
  <2>1. 0..signedUp \subseteq 0..signedUp' /\ signedUp' \in 0..signedUp'
        /\ signedUp' = signedUp + 1
    BY <1>2 DEF OtherSignsUp, SignUp, WorldOK
  <2>2. Emails \subseteq Emails'
    BY <2>1 DEF Emails
  <2>3. user \in [email : Emails', password : BOOLEAN, eppn : Emails']
    BY <2>2 DEF WorldOK
  <2> QED
    BY <1>2, <2>1, <2>2, <2>3 DEF OtherSignsUp, SignUp, Aside, WorldOK
<1>3. ASSUME NEW account \in 0..signedUp, OtherOpensFile(account)
      PROVE  /\ Aside /\ WorldOK' /\ UNCHANGED <<accounts, signedUp, made, troubles>>
  BY <1>3 DEF OtherOpensFile, Aside, WorldOK, Emails
<1>4. ASSUME NEW account \in 0..signedUp, OtherWritesFile(account)
      PROVE  /\ Aside /\ WorldOK' /\ UNCHANGED <<accounts, signedUp, made, troubles>>
  BY <1>4 DEF OtherWritesFile, Aside, WorldOK, Emails
<1>5. CASE OtherFails
  BY <1>5 DEF OtherFails, Aside, WorldOK, Emails
<1> QED
  BY <1>1, <1>2, <1>3, <1>4, <1>5 DEF OtherRuns

LEMMA WorldStep == TypeOK /\ PlaceInv /\ [Next]_vars => WorldOK'
<1> SUFFICES ASSUME TypeOK, PlaceInv, [Next]_vars PROVE WorldOK'
  OBVIOUS
<1>0. WorldOK
  BY TypeParts
<1>1. ASSUME NEW o \in Choices, Start(o) PROVE WorldOK'
  BY <1>0, <1>1, OptionsAssumption DEF Start, WorldOK, Emails, world, beside
<1>2. CASE Judges
  BY <1>0, <1>2, JudgeSteps DEF WorldOK, Emails, world, beside
<1>3. CASE Turns
  BY <1>0, <1>3 DEF Turns, InitFromConfig, AbortSuite, PassOver, SkipFreezing, Enter,
     End, Interrupt, StormCrash, WorldOK, Emails, world, bounds, beside
<1>4. CASE Moves
  <2>0. UNCHANGED beside
    BY <1>4 DEF Moves, From, KnownUser, UseGivenAccount, FindAccountFile, UseAccountFile,
       FindNoAccount, SignUpUser, SignUpReturns, OpenAccountFile, WriteAccountFile, LogIn,
       LoginWorked, ShortenTtl, SignUpOther, LogOut, LogInAgain, bounds
  <2>1. CASE KnownUser \/ FindAccountFile \/ FindNoAccount \/ OpenAccountFile
             \/ WriteAccountFile \/ LogIn \/ ShortenTtl \/ LogOut \/ LogInAgain
    <3>1. /\ UNCHANGED <<accounts, signedUp, made, fresh, user>>
          /\ races' \in {races, races + 0, races + 1}
          /\ accountFile' \in {accountFile, Empty, user.email}
          /\ main' \in {main, "out", "in", "expiring"}
      BY <2>1 DEF KnownUser, FindAccountFile, FindNoAccount, SetsOutToSignUp,
         OpenAccountFile, WriteAccountFile, LogIn, ShortenTtl, LogOut, LogInAgain, LogsIn,
         Opened, world
    <3>2. Emails' = Emails /\ user.email \in Emails
      BY <1>0, <3>1 DEF WorldOK, Emails
    <3> QED
      BY <1>0, <2>0, <3>1, <3>2 DEF WorldOK, beside
  <2>2. CASE UseGivenAccount \/ UseAccountFile \/ SignUpReturns \/ LoginWorked
    <3>1. /\ fresh \in Emails /\ user.email \in Emails
          /\ accountFile \in Emails \union {Empty}
      BY <1>0 DEF WorldOK
    <3>2. Emails' = Emails /\ UNCHANGED world
      BY <2>2 DEF UseGivenAccount, UseAccountFile, SignUpReturns, LoginWorked, Emails,
         world
    <3>3. user' \in [email : Emails, password : BOOLEAN, eppn : Emails]
      BY <1>0, <2>2, <3>1 DEF UseGivenAccount, UseAccountFile, SignUpReturns, LoginWorked,
         WorldOK, world
    <3>4. main' \in {"none", "out", "in", "expiring"}
      BY <1>0, <2>2 DEF UseGivenAccount, UseAccountFile, SignUpReturns, LoginWorked,
         Opened, WorldOK
    <3> QED
      BY <1>0, <2>0, <3>2, <3>3, <3>4 DEF WorldOK, world, beside
  <2>3. CASE SignUpUser \/ SignUpOther
    <3>1. /\ signedUp' = signedUp + 1 /\ accounts' = accounts \union {signedUp'}
          /\ made' \in {made, made + 1} /\ fresh' \in {fresh, signedUp'}
          /\ UNCHANGED <<races, accountFile, user, main>>
      BY <2>3 DEF SignUpUser, SignUpOther, SignUp
    <3>2. 0..signedUp \subseteq 0..signedUp' /\ signedUp' \in 0..signedUp'
      BY <1>0, <3>1 DEF WorldOK
    <3>3. Emails \subseteq Emails' /\ signedUp' \in Emails'
      BY <3>2 DEF Emails
    <3>4. user \in [email : Emails', password : BOOLEAN, eppn : Emails']
      BY <1>0, <3>3 DEF WorldOK
    <3> QED
      BY <1>0, <2>0, <3>1, <3>2, <3>3, <3>4 DEF WorldOK, beside
  <2> QED
    BY <1>4, <2>1, <2>2, <2>3 DEF Moves
<1>5. CASE Outside
  BY <1>0, <1>5 DEF Outside, TtlRunsOut, ResetDatabase, RemoveAccountFile, WorldOK,
     Emails, world, bounds, beside
<1>6. CASE OtherRuns
  BY <1>0, <1>6, OtherSteps
<1>7. CASE UNCHANGED vars
  BY <1>0, <1>7 DEF vars, world, bounds, beside, WorldOK, Emails
<1> QED
  BY <1>1, <1>2, <1>3, <1>4, <1>5, <1>6, <1>7, Kinds

(* Where the list of tests does not move, nothing about it changes.        *)
LEMMA SamePlace ==
  ASSUME TypeOK, PlaceInv, UNCHANGED <<at, results, failures, hit, opts, runs>>,
         resets' \in 0..MaxResets, removals' \in 0..MaxResets,
         troubles' \in 0..MaxTroubles, step' \in Steps, exit' \in {None, 0, 1, 130},
         InTest' => InTest \/ at \in 1..17, Running' => exit' = None,
         step' = "body2" => Test \in {"renews-ttl", "other-account", "log-out", "log-in-again"}
  PROVE  PlaceOK' /\ PlaceInv'
<1>1. PlaceOK'
  BY TypeParts DEF PlaceOK, Failed
<1>2. PlaceInv'
  BY TestsFacts DEF PlaceInv, Test
<1> QED
  BY <1>1, <1>2

LEMMA PlaceStep == TypeOK /\ PlaceInv /\ [Next]_vars => PlaceOK' /\ PlaceInv'
<1> SUFFICES ASSUME TypeOK, PlaceInv, [Next]_vars PROVE PlaceOK' /\ PlaceInv'
  OBVIOUS
<1>0. PlaceOK /\ failures \in Nat
  BY TypeParts, FailedFinite DEF PlaceOK
<1> USE BoundsAssumption
<1>1. ASSUME NEW o \in Choices, Start(o) PROVE PlaceOK' /\ PlaceInv'
  <2>1. Failed' = {}
    BY <1>1 DEF Start, Failed
  <2>2. PlaceOK'
    BY <1>0, <1>1, <2>1, FS_EmptySet DEF Start, PlaceOK, Steps, Statuses
  <2>3. PlaceInv'
    BY <1>1, TestsFacts DEF Start, PlaceInv, InTest, Running
  <2> QED
    BY <2>2, <2>3
<1>2. CASE Judges
  <2>1. PICK status \in {"ok", "FAIL", "XPASS", "XFAIL"} :
          /\ Record(status)
          /\ failures' = failures + (IF status = "FAIL" THEN 1 ELSE 0)
    BY <1>2, JudgeSteps
  <2>2. status \in Statuses \ {"pending"} /\ Running
    BY <1>2, JudgeSteps DEF Statuses, InTest, Running
  <2> QED
    BY <1>0, <1>2, <2>1, <2>2, JudgeSteps, Recording DEF PlaceOK, Steps
<1>3. CASE PassOver \/ SkipFreezing
  <2>1. at \in 1..17 /\ Running
    BY <1>0, <1>3, TestsFacts DEF PlaceOK, PassOver, SkipFreezing, Enters, Running
  <2>2. PICK status \in {"skipped", "listed"} : Record(status) /\ UNCHANGED failures
    BY <1>3 DEF PassOver, SkipFreezing
  <2>3. status \in Statuses \ {"pending"}
    BY DEF Statuses
  <2> QED
    BY <1>0, <1>3, <2>1, <2>2, <2>3, Recording DEF PlaceOK, Steps, PassOver, SkipFreezing,
       bounds
<1>4. CASE Turns /\ ~PassOver /\ ~SkipFreezing
  <2>1. CASE InitFromConfig \/ AbortSuite
    BY <1>0, <2>1, SamePlace DEF InitFromConfig, AbortSuite, PlaceOK, PlaceInv, Steps,
       InTest, Running, bounds
  <2>2. CASE End
    BY <1>0, <2>2, SamePlace DEF End, PlaceOK, PlaceInv, Steps, InTest, Running, bounds
  <2>3. CASE Enter
    BY <1>0, <2>3, SamePlace, TestsFacts DEF Enter, Enters, PlaceOK, PlaceInv, Steps,
       InTest, Running, bounds
  <2>4. CASE Interrupt
    BY <1>0, <2>4, SamePlace DEF Interrupt, PlaceOK, PlaceInv, Steps, InTest, Running
  <2>5. CASE StormCrash
    <3>1. Test \in Names
      BY <2>5, TestsFacts DEF StormCrash, PlaceInv, InTest, Test
    <3>2. PlaceOK'
      BY <1>0, <2>5, <3>1 DEF StormCrash, PlaceOK, Steps, Failed
    <3>3. PlaceInv'
      BY <2>5, TestsFacts DEF StormCrash, PlaceInv, InTest, Running, Test
    <3> QED
      BY <3>2, <3>3
  <2> QED
    BY <1>4, <2>1, <2>2, <2>3, <2>4, <2>5 DEF Turns
<1>5. CASE Moves
  BY <1>0, <1>5, SamePlace DEF Moves, From, KnownUser, UseGivenAccount, FindAccountFile,
     UseAccountFile, FindNoAccount, SetsOutToSignUp, SignUpUser, SignUpReturns,
     OpenAccountFile, WriteAccountFile, LogIn, LoginWorked, ShortenTtl, SignUpOther,
     LogOut, LogInAgain, PlaceOK, PlaceInv, Steps, InTest, Running, bounds
<1>6. CASE Outside
  <2>1. CASE TtlRunsOut
    BY <1>0, <2>1, SamePlace DEF TtlRunsOut, PlaceOK, PlaceInv, InTest, Running, bounds
  <2>2. CASE ResetDatabase
    BY <1>0, <2>2, SamePlace DEF ResetDatabase, PlaceOK, PlaceInv, Steps, InTest, Running
  <2>3. CASE RemoveAccountFile
    BY <1>0, <2>3, SamePlace DEF RemoveAccountFile, PlaceOK, PlaceInv, Steps, InTest,
       Running
  <2> QED
    BY <1>6, <2>1, <2>2, <2>3 DEF Outside
<1>7. CASE OtherRuns
  BY <1>0, <1>7, OtherSteps, SamePlace, TypeParts DEF Aside, PlaceOK, PlaceInv, InTest,
     Running
<1>8. CASE UNCHANGED vars
  BY <1>0, <1>8, SamePlace DEF vars, bounds, PlaceOK, PlaceInv, InTest, Running
<1> QED
  BY <1>1, <1>2, <1>3, <1>4, <1>5, <1>6, <1>7, <1>8, Kinds

LEMMA Inductive == Spec => [](TypeOK /\ PlaceInv)
<1>1. TypeOK /\ PlaceInv /\ [Next]_vars => TypeOK' /\ PlaceInv'
  BY WorldStep, PlaceStep, TypeParts
<1> QED
  BY <1>1, InitPlace, PTL DEF Spec

(* Every variable keeps its type, and `failures` counts what is recorded.  *)
(* (test, record)                                                          *)
THEOREM TypeCorrect == Spec => []TypeOK
  BY Inductive, PTL
------------------------------------------------------------------------------
(* The user, and one account for all runs *)

(* Between the tests nothing happens to the user or the session.           *)
LEMMA TurnSteps ==
  ASSUME Turns
  PROVE  /\ UNCHANGED <<world, runs, resets, removals, beside, user, main, opts>>
         /\ step' \in {"next", "idle", "ensure", "body"}
         /\ step' = "ensure" => UNCHANGED <<at, troubles, results, hit>>
         /\ step' = "body" => UNCHANGED <<at, troubles, results, hit>> /\ Test \in WithoutUser
         /\ troubles' \in {troubles, troubles + 1}
  BY DEF Turns, InitFromConfig, AbortSuite, PassOver, SkipFreezing, Enter, End,
     Interrupt, StormCrash, Record, bounds, world

LEMMA UserStep == TypeOK /\ PlaceInv /\ UserInv /\ [Next]_vars => UserInv'
<1> SUFFICES ASSUME TypeOK, PlaceInv, UserInv, [Next]_vars PROVE UserInv'
  OBVIOUS
<1>0. WorldOK /\ signedUp # None
  BY TypeParts, NoneAssumption DEF WorldOK
<1>1. ASSUME NEW o \in Choices, Start(o) PROVE UserInv'
  BY <1>1 DEF Start, UserInv, LoggedIn
<1>2. CASE Judges
  BY <1>2, JudgeSteps DEF Record, UserInv, LoggedIn
<1>3. CASE Turns
  BY <1>3, TurnSteps DEF UserInv, LoggedIn, Test
<1>4. CASE Moves
  <2>1. CASE KnownUser \/ UseGivenAccount \/ FindAccountFile \/ FindNoAccount
    BY <2>1 DEF KnownUser, UseGivenAccount, FindAccountFile, FindNoAccount, From, Opened,
       UserInv, LoggedIn, Test
  <2>2. CASE UseAccountFile \/ SignUpUser \/ SignUpReturns \/ LoginWorked
    <3>1. signedUp' # None
      BY <1>0, <2>2, NoneAssumption DEF UseAccountFile, SignUpUser, SignUpReturns,
         LoginWorked, SignUp, WorldOK, world
    <3> QED
      BY <1>0, <2>2, <3>1 DEF UseAccountFile, SignUpUser, SignUpReturns, LoginWorked, From,
         WorldOK, UserInv, LoggedIn, Test, world
  <2>3. CASE OpenAccountFile \/ WriteAccountFile \/ ShortenTtl \/ SignUpOther \/ LogOut
    BY <2>3 DEF OpenAccountFile, WriteAccountFile, ShortenTtl, SignUpOther, LogOut, From,
       UserInv, LoggedIn, Test
  <2>4. CASE LogIn \/ LogInAgain
    <3>1. None \notin accounts
      <4>1. 0..signedUp \subseteq Nat
        OBVIOUS
      <4>2. accounts \subseteq 0..signedUp
        BY <1>0 DEF WorldOK
      <4> QED
        BY <4>1, <4>2, NoneAssumption
    <3>2. CanLogIn => user.email # None /\ user.password
      BY <3>1, Zenon DEF CanLogIn
    <3>3. LoggedIn' => LoggedIn \/ CanLogIn
      BY <2>4 DEF LogIn, LogInAgain, LogsIn, LoggedIn
    <3>4. LoggedIn' => user.email # None /\ user.password
      BY <3>2, <3>3 DEF UserInv
    <3> QED
      BY <2>4, <3>4 DEF LogIn, LogInAgain, LogsIn, HasAccountAndContext, From, WithoutUser,
         UserInv, Test
  <2> QED
    BY <1>4, <2>1, <2>2, <2>3, <2>4 DEF Moves
<1>5. CASE Outside
  BY <1>5 DEF Outside, TtlRunsOut, ResetDatabase, RemoveAccountFile, Running, UserInv,
     LoggedIn, Test
<1>6. CASE OtherRuns
  BY <1>0, <1>6, OtherSteps DEF Aside, UserInv, LoggedIn, Test
<1>7. CASE UNCHANGED vars
  BY <1>7 DEF vars, world, UserInv, LoggedIn, Test
<1> QED
  BY <1>1, <1>2, <1>3, <1>4, <1>5, <1>6, <1>7, Kinds

LEMMA OneAccountStep ==
  TypeOK /\ PlaceInv /\ UserInv /\ OneAccountInv /\ [Next]_vars => OneAccountInv'
<1> SUFFICES ASSUME TypeOK, PlaceInv, UserInv, OneAccountInv, [Next]_vars
             PROVE  OneAccountInv'
  OBVIOUS
<1>0. /\ {made, seeking, troubles, removals, races} \subseteq Nat
      /\ step = "fill" => user.email # None
      /\ Empty # None /\ WorldOK
      /\ None \notin 0..signedUp
  BY TypeParts, BoundsAssumption, NoneAssumption DEF WorldOK, PlaceOK, UserInv
<1> USE DEF OneAccountInv, Placed, SignUpUnderWay, Signing
<1>1. ASSUME NEW o \in Choices, Start(o) PROVE OneAccountInv'
  BY <1>0, <1>1 DEF Start, Running, world, beside
<1>2. CASE Judges
  <2>0. step' = "next" /\ UNCHANGED <<made, accountFile, races, removals, seeking, unwritten>>
    BY <1>2, JudgeSteps DEF Record, world, beside
  <2>1. CASE UNCHANGED troubles
    <3>1. step \notin {"signup", "created", "write"}
      BY <1>0, <1>2, <2>1 DEF Judges, Trouble, ReadFails, LoginFailed,
         TestFirstContact, TestLogIn, TestOwnSession, TestFreezing, TestPathLists,
         TestStorm, TestFirstRequests, TestShared, TestCsrf, TestParallel, TestRenewal,
         TestOtherAccount, TestLogOut, TestPasswordAgain, TestLogInAgain, Apart, WithMain,
         Outcome
    <3> QED
      BY <1>0, <2>0, <2>1, <3>1
  <2>2. CASE troubles' = troubles + 1
    BY <1>0, <2>0, <2>2
  <2> QED
    BY <1>2, <2>1, <2>2, JudgeSteps
<1>3. CASE Turns
  <2>1. step \in {"signup", "created", "write"} => troubles' = troubles + 1
    BY <1>3 DEF Turns, InitFromConfig, AbortSuite, PassOver, SkipFreezing, Enters, Enter,
       End, Interrupt, StormCrash
  <2>2. UNCHANGED <<made, accountFile, races, removals, seeking, unwritten>>
    BY <1>3, TurnSteps DEF world, beside
  <2> QED
    BY <1>0, <1>3, <2>1, <2>2, TurnSteps
<1>4. CASE Moves
  <2>0. UNCHANGED <<troubles, removals, seeking, unwritten>>
    BY <1>4 DEF Moves, From, KnownUser, UseGivenAccount, FindAccountFile, UseAccountFile,
       FindNoAccount, SignUpUser, SignUpReturns, OpenAccountFile, WriteAccountFile, LogIn,
       LoginWorked, ShortenTtl, SignUpOther, LogOut, LogInAgain, bounds, beside
  <2>1. CASE FindNoAccount
    BY <1>0, <2>0, <2>1 DEF FindNoAccount, SetsOutToSignUp, From
  <2>2. CASE SignUpUser
    BY <1>0, <2>0, <2>2 DEF SignUpUser, From
  <2>3. CASE SignUpReturns \/ OpenAccountFile \/ WriteAccountFile
    BY <1>0, <2>0, <2>3 DEF SignUpReturns, OpenAccountFile, WriteAccountFile, From, world
  <2>4. CASE ~FindNoAccount /\ ~SignUpUser /\ ~SignUpReturns /\ ~OpenAccountFile
               /\ ~WriteAccountFile
    <3>1. /\ UNCHANGED <<made, races, accountFile>>
          /\ step \notin {"signup", "created", "write"}
          /\ step' \notin {"signup", "created", "write"}
      BY <1>4, <2>4 DEF Moves, KnownUser, UseGivenAccount, FindAccountFile, UseAccountFile,
         LogIn, LoginWorked, ShortenTtl, SignUpOther, LogOut, LogInAgain, From, world
    <3> QED
      BY <1>0, <2>0, <3>1
  <2> QED
    BY <2>1, <2>2, <2>3, <2>4
<1>5. CASE Outside
  BY <1>0, <1>5 DEF Outside, TtlRunsOut, ResetDatabase, RemoveAccountFile, Running, world,
     bounds, beside
<1>6. CASE OtherRuns
  <2>1. UNCHANGED <<step, removals>>
    BY <1>0, <1>6, OtherSteps DEF Aside
  <2>2. CASE OtherFindsNone
    BY <1>0, <2>1, <2>2 DEF OtherFindsNone, SetsOutToSignUp
  <2>3. CASE OtherSignsUp
    BY <1>0, <2>1, <2>3 DEF OtherSignsUp, SignUp
  <2>4. ASSUME NEW account \in 0..signedUp,
               OtherOpensFile(account) \/ OtherWritesFile(account)
        PROVE  OneAccountInv'
    BY <1>0, <2>1, <2>4 DEF OtherOpensFile, OtherWritesFile
  <2>5. CASE OtherFails
    BY <1>0, <2>1, <2>5 DEF OtherFails
  <2> QED
    BY <1>6, <2>2, <2>3, <2>4, <2>5 DEF OtherRuns
<1>7. CASE UNCHANGED vars
  BY <1>7 DEF vars, world, bounds, beside
<1> QED
  BY <1>1, <1>2, <1>3, <1>4, <1>5, <1>6, <1>7, Kinds

(* All runs, also those beside each other, sign up for one account, and    *)
(* for another one only after something failed, the file was removed, or a *)
(* run found no file while another was signing up.  (ensureUser,           *)
(* writeAccountFile)                                                       *)
THEOREM OneAccount == Spec => []RunsShareTheAccount
<1>1. Init => UserInv /\ OneAccountInv
  BY DEF Init, UserInv, OneAccountInv, LoggedIn
<1>2. TypeOK /\ OneAccountInv => RunsShareTheAccount
  BY TypeParts, BoundsAssumption DEF WorldOK, PlaceOK, OneAccountInv, RunsShareTheAccount
<1> QED
  BY <1>1, <1>2, UserStep, OneAccountStep, Inductive, PTL DEF Spec
------------------------------------------------------------------------------
(* What a green run has tested *)

LEMMA GreenStep ==
  TypeOK /\ PlaceInv /\ UserInv /\ GreenInv /\ [Next]_vars => GreenInv'
<1> SUFFICES ASSUME TypeOK, PlaceInv, UserInv, GreenInv, [Next]_vars PROVE GreenInv'
  OBVIOUS
<1>0. /\ None # 0 /\ at \in 1..18 /\ failures \in Nat
      /\ Running => exit = None
  BY TypeParts, FailedFinite, NoneAssumption DEF PlaceOK, PlaceInv
<1>1. ASSUME NEW o \in Choices, Start(o) PROVE GreenInv'
  BY <1>0, <1>1 DEF Start, GreenInv, InTest
(* A test's result is one it may have, and says who had logged in.         *)
<1>2. ASSUME NEW status \in Statuses \ {"pending"}, Record(status),
             Running, at \in 1..17, UNCHANGED user,
             Test \in opts.picked /\ ~opts.list => status \in Recorded(Test),
             status = "ok" => Test \in WithoutUser \/ user.eppn # None
      PROVE  GreenInv'
  <2>1. /\ at' = at + 1 /\ step' = "next" /\ exit' = None /\ opts' = opts
        /\ results'[Test] = status
        /\ \A t \in Names \ {Test} : results'[t] = results[t]
    BY <1>0, <1>2, Recording
  <2>2. \A t : Recorded(t)' = Recorded(t)
    BY <2>1 DEF Recorded
  <2>3. \A i \in 1..(at - 1) : Tests[i] \in Names /\ Tests[i] # Test
    BY <1>2, TestsFacts DEF Test
  <2>4. \A i \in 1..(at - 1) : results'[Tests[i]] = results[Tests[i]]
    BY <2>1, <2>3
  <2>5. ~opts.list => \A i \in 1..at :
          Tests[i] \in opts.picked => results'[Tests[i]] \in Recorded(Tests[i])
    BY <1>2, <2>1, <2>4 DEF GreenInv, Test
  <2> HIDE DEF Recorded
  <2>6. ~opts'.list => \A i \in 1..(at' - 1) :
          Tests[i] \in opts'.picked => results'[Tests[i]] \in Recorded(Tests[i])'
    BY <1>2, <2>1, <2>2, <2>5
  <2>7. \A t \in Names \ WithoutUser : results'[t] = "ok" => user'.eppn # None
    BY <1>2, <2>1 DEF GreenInv
  <2> QED
    BY <1>0, <2>1, <2>6, <2>7 DEF GreenInv, InTest
<1>3. CASE Judges
  <2>1. PICK status \in {"ok", "FAIL", "XPASS", "XFAIL"} :
          /\ Record(status)
          /\ status \in {"XPASS", "XFAIL"} <=> Test \in KnownGaps
          /\ status = "ok" => step \in {"body", "body2"}
    BY <1>3, JudgeSteps
  <2>2. status \in Recorded(Test)
    BY <1>3, <2>1, JudgeSteps DEF Recorded, GreenInv
  <2> QED
    BY <1>2, <1>3, <2>1, <2>2, JudgeSteps DEF Statuses, InTest, Running, UserInv
<1>4. CASE PassOver \/ SkipFreezing
  <2>1. at \in 1..17 /\ Running /\ UNCHANGED user
    BY <1>0, <1>4, TestsFacts DEF PassOver, SkipFreezing, Enters, Running
  <2>2. PICK status \in {"skipped", "listed"} :
          /\ Record(status)
          /\ Test \in opts.picked /\ ~opts.list => status \in Recorded(Test)
    BY <1>4 DEF PassOver, SkipFreezing, Recorded, KnownGaps, Freezing
  <2> QED
    BY <1>2, <2>1, <2>2 DEF Statuses
<1>5. CASE Enter
  BY <1>0, <1>5 DEF Enter, Enters, bounds, Test, GreenInv, Recorded, InTest, Running
<1>6. CASE InitFromConfig \/ AbortSuite \/ End \/ Interrupt \/ StormCrash
  BY <1>0, <1>6, TestsFacts DEF InitFromConfig, AbortSuite, End, Interrupt, StormCrash,
     bounds, GreenInv, Recorded, InTest
<1>7. CASE Moves
  <2>1. /\ UNCHANGED <<opts, at, results, failures, exit>>
        /\ InTest /\ user.eppn # None => user'.eppn # None
    BY <1>7 DEF Moves, KnownUser, UseGivenAccount, FindAccountFile, UseAccountFile,
       FindNoAccount, SetsOutToSignUp, SignUpUser, SignUpReturns, OpenAccountFile,
       WriteAccountFile, LogIn, LoginWorked, ShortenTtl, SignUpOther, LogOut, LogInAgain,
       From, InTest, UserInv
  <2> QED
    BY <1>7, <2>1 DEF Moves, KnownUser, UseGivenAccount, FindAccountFile, UseAccountFile,
       FindNoAccount, SetsOutToSignUp, SignUpUser, SignUpReturns, OpenAccountFile,
       WriteAccountFile, LogIn, LoginWorked, ShortenTtl, SignUpOther, LogOut, LogInAgain,
       From, GreenInv, Recorded, InTest, Test
<1>8. CASE Outside
  BY <1>8 DEF Outside, TtlRunsOut, ResetDatabase, RemoveAccountFile, Running, GreenInv,
     Recorded, InTest, Test
<1>9. CASE OtherRuns
  BY <1>9, OtherSteps, TypeParts DEF Aside, GreenInv, Recorded, InTest, Test
<1>10. CASE UNCHANGED vars
  BY <1>10 DEF vars, GreenInv, Recorded, InTest, Test
<1> QED
  BY <1>1, <1>3, <1>4, <1>5, <1>6, <1>7, <1>8, <1>9, <1>10, Kinds DEF Turns

(* A run that ends with exit code 0 has passed what was selected, with a   *)
(* user that had logged in if any of that needs one.  (test, record, main) *)
THEOREM GreenIsTested == Spec => []GreenMeansTested
<1>1. Init => UserInv /\ GreenInv
  BY NoneAssumption DEF Init, UserInv, GreenInv, LoggedIn, InTest
<1>2. TypeOK /\ GreenInv => GreenMeansTested
  <2> SUFFICES ASSUME TypeOK, GreenInv, exit = 0, ~opts.list
               PROVE  GreenMeansTested
    BY DEF GreenMeansTested
  <2>1. at = 18 /\ Failed = {}
    BY TestsFacts, FailedFinite, FS_EmptySet DEF GreenInv, TypeOK, Failed
  <2>2. opts.picked \subseteq Names
    BY OptionsAssumption DEF TypeOK
  <2>3. \A t \in opts.picked : results[t] \in Recorded(t) /\ results[t] # "FAIL"
    BY <2>1, <2>2, TestsFacts DEF GreenInv, Failed
  <2> QED
    BY <2>2, <2>3 DEF GreenMeansTested, Recorded, GreenInv, KnownGaps, Freezing
<1> QED
  BY <1>1, <1>2, UserStep, GreenStep, Inductive, PTL DEF Spec
------------------------------------------------------------------------------
(* The session that the tests share *)

LEMMA LoginStep ==
  TypeOK /\ PlaceInv /\ UserInv /\ LoginInv /\ [Next]_vars => LoginInv'
<1> SUFFICES ASSUME TypeOK, PlaceInv, UserInv, LoginInv, [Next]_vars, JustTried'
             PROVE  user'.email # None /\ (main' = "in" \/ (~LoggedIn' /\ ~CanLogIn'))
  BY DEF LoginInv
<1>1. ASSUME NEW o \in Choices, Start(o) PROVE FALSE
  BY <1>1 DEF Start, JustTried
<1>2. CASE Judges
  BY <1>2, JudgeSteps DEF Record, JustTried
<1>3. CASE Turns
  BY <1>3, TurnSteps DEF JustTried
<1>4. CASE Moves
  <2>1. CASE LogIn \/ LogInAgain
    BY <2>1 DEF LogIn, LogInAgain, LogsIn, From, HasAccountAndContext, LoggedIn, CanLogIn,
       UserInv, world
  <2>2. CASE ~LogIn /\ ~LogInAgain
    <3>1. ~JustTried'
      BY <1>4, <2>2 DEF Moves, KnownUser, UseGivenAccount, FindAccountFile,
         UseAccountFile, FindNoAccount, SetsOutToSignUp, SignUpUser, SignUpReturns,
         OpenAccountFile, WriteAccountFile, LoginWorked, ShortenTtl, SignUpOther, LogOut,
         From, JustTried, Test
    <3> QED
      BY <3>1
  <2> QED
    BY <2>1, <2>2
<1>5. CASE Outside
  BY <1>5 DEF Outside, TtlRunsOut, ResetDatabase, RemoveAccountFile, Running, LoginInv,
     JustTried, LoggedIn, CanLogIn, Test, world
<1>6. CASE OtherRuns
  <2>1. user.email # signedUp + 1
    BY TypeParts, NoneAssumption DEF WorldOK, Emails
  <2> QED
    BY <1>6, <2>1, OtherSteps, TypeParts DEF Aside, LoginInv, JustTried, LoggedIn,
       CanLogIn, Test
<1>7. CASE UNCHANGED vars
  BY <1>7 DEF vars, world, LoginInv, JustTried, LoggedIn, CanLogIn, Test
<1> QED
  BY <1>1, <1>2, <1>3, <1>4, <1>5, <1>6, <1>7, Kinds

(* The results of the tests that come after the one that is recorded are   *)
(* as before, and those that came before it are too.                       *)
LEMMA Earlier ==
  ASSUME TypeOK, PlaceInv, at \in 1..17
  PROVE  /\ \A i \in 1..17 : (results[Tests[i]] = "pending" <=> i >= at)
         /\ \A i \in 1..17 : Test = Tests[i] => i = at
<1>1. \A i \in 1..17 : i >= at => i \in at..Len(Tests)
  BY TestsFacts
<1>2. \A i \in 1..17 : i < at => i \in 1..(at - 1)
  BY TestsFacts
<1> QED
  BY <1>1, <1>2, TestsFacts DEF PlaceInv, Test

LEMMA SharedStep ==
  TypeOK /\ PlaceInv /\ UserInv /\ SharedInv /\ [Next]_vars => SharedInv'
<1> SUFFICES ASSUME TypeOK, PlaceInv, UserInv, SharedInv, [Next]_vars PROVE SharedInv'
  OBVIOUS
<1>0. {"renews-ttl", "log-out", "password-again"} \subseteq Names
  BY TestsFacts, TestsInOrder
<1>1. ASSUME NEW o \in Choices, Start(o) PROVE SharedInv'
  BY <1>0, <1>1 DEF Start, SharedInv, LoggingOut
<1>2. CASE Judges
  <2>1. PICK status \in {"ok", "FAIL", "XPASS", "XFAIL"} :
          /\ Record(status)
          /\ status = "ok" => step \in {"body", "body2"}
    BY <1>2, JudgeSteps
  <2>2. /\ at \in 1..17 /\ Running /\ step' = "next" /\ UNCHANGED user
        /\ main' = main \/ (LoggedIn /\ main' = "in")
        /\ hit' = hit \/ hit' = hit \union {Test}
    BY <1>2, <2>1, JudgeSteps DEF Record, InTest, Running
  <2>3. /\ results'[Test] = status
        /\ \A t \in Names \ {Test} : results'[t] = results[t]
    BY <2>1, <2>2, Recording DEF Statuses
  <2>4. results'["renews-ttl"] = "pending" => "renews-ttl" \notin hit'
    BY <1>0, <2>1, <2>2, <2>3 DEF SharedInv
  <2>5. main' = "expiring" => "renews-ttl" \in hit'
    <3>1. Expiring /\ main = "expiring" => "renews-ttl" \in hit' \/ main' = "in"
      BY <1>2 DEF Judges, Trouble, ReadFails, LoginFailed, TestFirstContact, TestLogIn,
         TestOwnSession, TestFreezing, TestPathLists, TestStorm, TestFirstRequests,
         TestShared, TestCsrf, TestParallel, TestRenewal, TestOtherAccount, TestLogOut,
         TestPasswordAgain, TestLogInAgain, Apart, WithMain, Outcome, Freezing, KnownGaps,
         LoggedIn, Expiring
    <3> QED
      BY <2>2, <3>1 DEF SharedInv
  <2>6. user.eppn # None /\ results'["log-out"] = "pending" =>
          LoggedIn' \/ "renews-ttl" \in hit'
    BY <1>0, <2>1, <2>2, <2>3 DEF SharedInv, LoggingOut, LoggedIn
  <2>7. results'["log-out"] = "ok" /\ results'["password-again"] = "pending" =>
          ~LoggedIn' /\ user.eppn # None
    <3>1. CASE Test = "log-out"
      <4>1. step = "body" => Fails
        BY <1>2, <3>1 DEF Judges, Trouble, ReadFails, LoginFailed, TestFirstContact,
           TestLogIn, TestOwnSession, TestFreezing, TestPathLists, TestStorm,
           TestFirstRequests, TestShared, TestCsrf, TestParallel, TestRenewal,
           TestOtherAccount, TestLogOut, TestPasswordAgain, TestLogInAgain, Apart,
           WithMain, Outcome, Freezing, KnownGaps
      <4>2. Fails => status # "ok"
        <5>1. Fails => results' = [results EXCEPT ![Test] = "FAIL"]
          BY <3>1 DEF Fails, Record, KnownGaps
        <5> QED
          BY <1>0, <2>3, <3>1, <5>1 DEF TypeOK
      <4>3. status = "ok" => ~LoggedIn /\ user.eppn # None
        BY <2>1, <2>2, <3>1, <4>1, <4>2 DEF SharedInv, LoggingOut, UserInv, WithoutUser
      <4> QED
        BY <2>2, <2>3, <3>1, <4>3 DEF LoggedIn
    <3>2. CASE Test # "log-out"
      BY <1>0, <2>1, <2>2, <2>3, <3>2 DEF SharedInv, LoggedIn
    <3> QED
      BY <3>1, <3>2
  <2> QED
    BY <2>2, <2>4, <2>5, <2>6, <2>7 DEF SharedInv, LoggingOut, LoggedIn
<1>3. CASE PassOver \/ SkipFreezing
  <2>1. at \in 1..17 /\ Running
    BY <1>3, TypeParts, TestsFacts DEF PlaceOK, PassOver, SkipFreezing, Enters, Running
  <2>2. PICK status \in {"skipped", "listed"} : Record(status)
    BY <1>3 DEF PassOver, SkipFreezing
  <2>3. /\ results'[Test] = status
        /\ \A t \in Names \ {Test} : results'[t] = results[t]
    BY <2>1, <2>2, Recording DEF Statuses
  <2>4. step = "next" /\ step' = "next" /\ UNCHANGED <<user, main, hit>>
    BY <1>3 DEF PassOver, SkipFreezing, Enters, Record
  <2> QED
    BY <1>0, <2>1, <2>2, <2>3, <2>4 DEF SharedInv, Expiring, LoggingOut, LoggedIn, Running
<1>4. CASE Turns /\ ~PassOver /\ ~SkipFreezing
  BY <1>4 DEF Turns, InitFromConfig, AbortSuite, Enter, Enters, End, Interrupt, StormCrash,
     SharedInv, Expiring, LoggingOut, LoggedIn, Running, Test
<1>5. CASE Moves
  <2>1. /\ UNCHANGED <<at, results, hit>> /\ Running /\ InTest
        /\ ~Expiring /\ ~LoggingOut
    BY <1>5 DEF Moves, KnownUser, UseGivenAccount, FindAccountFile, UseAccountFile,
       FindNoAccount, SetsOutToSignUp, SignUpUser, SignUpReturns, OpenAccountFile,
       WriteAccountFile, LogIn, LoginWorked, ShortenTtl, SignUpOther, LogOut, LogInAgain,
       From, Expiring, LoggingOut, Running, InTest
  <2>2. at \in 1..17
    BY <2>1, TestsFacts DEF PlaceInv
  <2>3. CASE KnownUser \/ UseGivenAccount \/ FindAccountFile \/ UseAccountFile
             \/ FindNoAccount \/ SignUpUser \/ SignUpReturns \/ OpenAccountFile
             \/ WriteAccountFile
    <3>1. /\ user'.eppn = user.eppn /\ Running' /\ ~LoggingOut'
          /\ main' = main \/ (user.eppn = None /\ main' = "out")
      BY <2>3, TypeParts DEF KnownUser, UseGivenAccount, FindAccountFile, UseAccountFile,
         FindNoAccount, SetsOutToSignUp, SignUpUser, SignUpReturns, OpenAccountFile,
         WriteAccountFile, Opened, Running, LoggingOut, WorldOK
    <3> QED
      BY <2>1, <3>1 DEF SharedInv, LoggedIn
  <2>4. CASE LogIn \/ LoginWorked
    BY <2>1, <2>4 DEF LogIn, LoginWorked, LogsIn, From, SharedInv, UserInv, Expiring,
       LoggingOut, LoggedIn, Test
  <2>5. CASE ShortenTtl \/ SignUpOther \/ LogOut
    <3>1. results["log-out"] = "pending"
      BY <2>2, <2>5, Earlier, TestsInOrder DEF ShortenTtl, SignUpOther, LogOut
    <3> QED
      BY <2>1, <2>5, <3>1 DEF ShortenTtl, SignUpOther, LogOut, From, SharedInv, UserInv,
         Expiring, LoggingOut, LoggedIn, Test
  <2>6. CASE LogInAgain
    <3>1. results["password-again"] # "pending"
      BY <2>2, <2>6, Earlier, TestsInOrder DEF LogInAgain
    <3> QED
      BY <2>1, <2>6, <3>1 DEF LogInAgain, LogsIn, From, SharedInv, Expiring, LoggingOut,
         LoggedIn, Test
  <2> QED
    BY <1>5, <2>3, <2>4, <2>5, <2>6 DEF Moves
<1>6. CASE Outside
  <2>1. CASE TtlRunsOut
    <3>1. ~Expiring
      BY <2>1, Earlier, TestsInOrder, TestsFacts DEF TtlRunsOut, PlaceInv, InTest, Expiring
    <3> QED
      BY <2>1, <3>1 DEF TtlRunsOut, SharedInv, LoggingOut, LoggedIn, Running, Test
  <2>2. CASE ResetDatabase \/ RemoveAccountFile
    BY <2>2 DEF ResetDatabase, RemoveAccountFile, SharedInv, Expiring, LoggingOut,
       LoggedIn, Running, Test
  <2> QED
    BY <1>6, <2>1, <2>2 DEF Outside
<1>7. CASE OtherRuns
  BY <1>7, OtherSteps, TypeParts DEF Aside, SharedInv, Expiring, LoggingOut, LoggedIn,
     Running, Test
<1>8. CASE UNCHANGED vars
  BY <1>8 DEF vars, SharedInv, Expiring, LoggingOut, LoggedIn, Running, Test
<1> QED
  BY <1>1, <1>2, <1>3, <1>4, <1>5, <1>6, <1>7, <1>8, Kinds

------------------------------------------------------------------------------
(* Why a test fails *)

Cause(t) ==
  t \in hit \/ NoUsableAccount \/ NoLogoutBefore(t) \/ NoUserBefore(t) \/ SessionRanOut(t)

(* A test that needs the shared session, and finds it logged out, comes    *)
(* after the test of the ttl was hit.                                      *)
LEMMA LoggedOutByTtl ==
  ASSUME TypeOK, PlaceInv, UserInv, SharedInv, step \in {"body", "body2"}, ~LoggedIn,
         Test \in UsesMain \union {"renews-ttl"}, ~LoggingOut
  PROVE  "renews-ttl" \in hit /\ Test \in UsesMain
<1>1. at \in 1..17 /\ Running
  BY TestsFacts DEF PlaceInv, InTest, Running
<1>2. at <= 15
  BY <1>1, Earlier, TestsInOrder DEF UsesMain
<1>3. results["log-out"] = "pending"
  BY <1>1, <1>2, Earlier, TestsInOrder
<1>4. user.eppn # None
  BY DEF UserInv, UsesMain, WithoutUser
<1>5. "renews-ttl" \in hit
  BY <1>1, <1>3, <1>4 DEF SharedInv
<1>6. Test # "renews-ttl"
  BY <1>1, <1>5, Earlier, TestsInOrder DEF SharedInv
<1> QED
  BY <1>5, <1>6

(* The test that fails has a cause now.                                    *)
LEMMA FailsForCause ==
  ASSUME TypeOK, PlaceInv, UserInv, LoginInv, SharedInv, Judges,
         NEW t \in Names, Test = t, results'[t] = "FAIL"
  PROVE  Cause(t)'
<1>1. /\ UNCHANGED <<accounts, user>> /\ hit \subseteq hit'
      /\ at \in 1..17 /\ Running
  BY JudgeSteps DEF world, InTest, Running
<1>2. ~Passes
  <2>1. Passes => results'[t] \in {"ok", "XPASS"}
    BY DEF Passes, Record, TypeOK
  <2> QED
    BY <2>1
<1>3. CASE Trouble \/ ReadFails
  BY <1>3 DEF Trouble, ReadFails, Cause
<1>4. CASE LoginFailed
  <2>1. user.email # None /\ ~CanLogIn
    BY <1>4 DEF LoginFailed, LoginInv, JustTried, LoggedIn
  <2> QED
    BY <1>1, <2>1 DEF NoUsableAccount, CanLogIn, Cause
<1>5. CASE \E tests : Apart(tests)
  BY <1>2, <1>5 DEF Apart, Outcome
<1>6. CASE TestFirstRequests
  <2>1. Fails => results'[t] = "XFAIL"
    BY <1>6 DEF TestFirstRequests, Outcome, Fails, Record, TypeOK
  <2> QED
    BY <1>2, <1>6, <2>1 DEF TestFirstRequests, Outcome
<1>7. CASE TestShared \/ TestCsrf \/ TestParallel \/ TestRenewal \/ TestOtherAccount
  <2>1. /\ ~LoggedIn /\ step \in {"body", "body2"} /\ ~LoggingOut
        /\ t \in UsesMain \union {"renews-ttl"}
    BY <1>2, <1>7 DEF TestShared, TestCsrf, TestParallel, TestRenewal, TestOtherAccount,
       WithMain, Outcome, LoggingOut, UsesMain
  <2> QED
    BY <1>1, <2>1, LoggedOutByTtl DEF SessionRanOut, Cause
<1>8. CASE TestLogOut
  <2>1. ~LoggedIn /\ step = "body" /\ t = "log-out"
    BY <1>2, <1>8 DEF TestLogOut, Outcome
  <2> QED
    BY <1>1, <2>1, LoggedOutByTtl DEF SessionRanOut, UsesMain, LoggingOut, Cause
<1>9. CASE TestPasswordAgain
  <2>1. LoggedIn /\ t = "password-again"
    BY <1>2, <1>9 DEF TestPasswordAgain, Outcome
  <2>2. results["log-out"] # "ok"
    BY <1>1, <2>1, Earlier, TestsInOrder DEF SharedInv
  <2>3. results'["log-out"] = results["log-out"]
    <3>1. \E status \in Statuses \ {"pending"} : Record(status)
      BY JudgeSteps DEF Statuses
    <3> QED
      BY <1>1, <2>1, <3>1, Recording, TestsFacts, TestsInOrder
  <2> QED
    BY <2>1, <2>2, <2>3 DEF NoLogoutBefore, Cause
<1>10. CASE TestLogInAgain
  <2>1. t = "log-in-again"
    BY <1>10 DEF TestLogInAgain, Outcome
  <2>2. CASE step = "body"
    <3>1. user.eppn = None
      BY <1>10, <2>2 DEF TestLogInAgain, Outcome, HasAccountAndContext, UserInv
    <3> QED
      BY <1>1, <2>1, <3>1 DEF NoUserBefore, Cause
  <2>3. CASE step = "body2"
    <3>1. user.eppn = None \/ (user.email # None /\ ~CanLogIn)
      BY <1>2, <1>10, <2>1, <2>3 DEF TestLogInAgain, Outcome, LoginInv, JustTried, LoggedIn
    <3> QED
      BY <1>1, <2>1, <3>1 DEF NoUserBefore, NoUsableAccount, CanLogIn, Cause
  <2> QED
    BY <1>10, <2>2, <2>3 DEF TestLogInAgain, Outcome
<1> QED
  BY <1>3, <1>4, <1>5, <1>6, <1>7, <1>8, <1>9, <1>10
     DEF Judges, TestFirstContact, TestLogIn, TestOwnSession, TestFreezing, TestPathLists,
         TestStorm

(* An account that cannot be used stays so until the next run.             *)
LEMMA StaysUnusable ==
  ASSUME TypeOK, PlaceInv, UserInv, NoUsableAccount,
         Judges \/ Moves \/ Turns \/ Outside \/ OtherRuns
  PROVE  NoUsableAccount'
<1>0. user.email # signedUp + 1
  BY TypeParts DEF WorldOK, Emails, NoUsableAccount
<1>1. CASE Judges
  BY <1>1, JudgeSteps DEF NoUsableAccount, CanLogIn, world
<1>2. CASE Turns
  BY <1>2, TurnSteps DEF NoUsableAccount, CanLogIn, world
<1>3. CASE Outside
  BY <1>3 DEF Outside, TtlRunsOut, ResetDatabase, RemoveAccountFile, NoUsableAccount,
     CanLogIn, world
<1>4. CASE Moves
  <2>1. CASE SignUpUser \/ SignUpOther
    <3>1. UNCHANGED user /\ accounts' = accounts \union {signedUp + 1}
      BY <2>1 DEF SignUpUser, SignUpOther, SignUp
    <3> QED
      BY <1>0, <3>1 DEF NoUsableAccount, CanLogIn
  <2>2. CASE ~SignUpUser /\ ~SignUpOther
    <3>1. /\ UNCHANGED accounts
          /\ user'.email = user.email /\ user'.password = user.password
      <4>1. ~UseAccountFile /\ ~SignUpReturns
        BY DEF UseAccountFile, SignUpReturns, From, UserInv, NoUsableAccount
      <4>2. CASE LoginWorked
        BY <4>2, TypeParts DEF LoginWorked, world, WorldOK
      <4>3. CASE ~LoginWorked
        BY <1>4, <2>2, <4>1, <4>3 DEF Moves, KnownUser, UseGivenAccount, FindAccountFile,
           FindNoAccount, SetsOutToSignUp, OpenAccountFile, WriteAccountFile, LogIn,
           ShortenTtl, LogOut, LogInAgain, world
      <4> QED
        BY <4>2, <4>3
    <3> QED
      BY <3>1 DEF NoUsableAccount, CanLogIn
  <2> QED
    BY <2>1, <2>2
<1>5. CASE OtherRuns
  BY <1>0, <1>5, OtherSteps, TypeParts DEF Aside, NoUsableAccount, CanLogIn
<1> QED
  BY <1>1, <1>2, <1>3, <1>4, <1>5

LEMMA ExplainedStep ==
  TypeOK /\ PlaceInv /\ UserInv /\ LoginInv /\ SharedInv /\ FailuresAreExplained
    /\ [Next]_vars => FailuresAreExplained'
<1> SUFFICES ASSUME TypeOK, PlaceInv, UserInv, LoginInv, SharedInv, FailuresAreExplained,
                    [Next]_vars, NEW t \in Names, results'[t] = "FAIL"
             PROVE  Cause(t)'
  BY DEF FailuresAreExplained, Cause
<1>0. results[t] = "FAIL" => Cause(t)
  BY DEF FailuresAreExplained, Cause
(* The cause of an earlier failure lasts.                                  *)
<1>1. ASSUME results[t] = "FAIL", NoUsableAccount => NoUsableAccount', hit \subseteq hit',
             t = "password-again" => results'["log-out"] = results["log-out"],
             t = "log-in-again" => UNCHANGED user
      PROVE  Cause(t)'
  BY <1>0, <1>1 DEF Cause, NoLogoutBefore, NoUserBefore, SessionRanOut
<1>2. ASSUME NEW o \in Choices, Start(o) PROVE FALSE
  BY <1>2 DEF Start
<1>3. ASSUME at \in 1..17, Running, Test # t, hit \subseteq hit', UNCHANGED user,
             NoUsableAccount => NoUsableAccount',
             NEW status \in Statuses \ {"pending"}, Record(status)
      PROVE  Cause(t)'
  <2>1. results[t] = "FAIL" /\ \A u \in Names \ {Test} : results'[u] = results[u]
    BY <1>3, Recording
  <2>2. t = "password-again" => Test # "log-out"
    BY <1>3, <2>1, Earlier, TestsInOrder
  <2>3. t = "password-again" => results'["log-out"] = results["log-out"]
    BY <2>1, <2>2, TestsFacts, TestsInOrder
  <2> QED
    BY <1>1, <1>3, <2>1, <2>3
<1>4. CASE Judges
  <2>1. PICK status \in Statuses \ {"pending"} : Record(status)
    BY <1>4, JudgeSteps DEF Statuses
  <2>2. at \in 1..17 /\ Running /\ UNCHANGED user /\ hit \subseteq hit'
    BY <1>4, JudgeSteps DEF InTest, Running
  <2> QED
    BY <1>3, <1>4, <2>1, <2>2, FailsForCause, StaysUnusable
<1>5. CASE PassOver \/ SkipFreezing
  <2>1. at \in 1..17 /\ Running /\ UNCHANGED <<user, hit>>
    BY <1>5, TypeParts, TestsFacts DEF PlaceOK, PassOver, SkipFreezing, Enters, Running
  <2>2. PICK status \in {"skipped", "listed"} : Record(status)
    BY <1>5 DEF PassOver, SkipFreezing
  <2>3. Test # t
    BY <2>1, <2>2, Recording DEF Statuses
  <2> QED
    BY <1>3, <1>5, <2>1, <2>2, <2>3, StaysUnusable DEF Turns, Statuses
<1>6. CASE Turns /\ ~PassOver /\ ~SkipFreezing
  <2>1. UNCHANGED <<results, user>> /\ hit \subseteq hit'
    BY <1>6 DEF Turns, InitFromConfig, AbortSuite, Enter, End, Interrupt, StormCrash
  <2> QED
    BY <1>1, <1>6, <2>1, StaysUnusable
<1>7. CASE Moves
  <2>1. UNCHANGED <<at, results, hit>> /\ InTest
    BY <1>7 DEF Moves, KnownUser, UseGivenAccount, FindAccountFile, UseAccountFile,
       FindNoAccount, SetsOutToSignUp, SignUpUser, SignUpReturns, OpenAccountFile,
       WriteAccountFile, LogIn, LoginWorked, ShortenTtl, SignUpOther, LogOut, LogInAgain,
       From, InTest
  <2>2. t # "log-in-again"
    BY <2>1, Earlier, TestsFacts, TestsInOrder DEF PlaceInv
  <2> QED
    BY <1>1, <1>7, <2>1, <2>2, StaysUnusable
<1>8. CASE Outside
  BY <1>1, <1>8, StaysUnusable DEF Outside, TtlRunsOut, ResetDatabase, RemoveAccountFile
<1>9. CASE OtherRuns
  <2>1. UNCHANGED <<results, user, hit>>
    BY <1>9, OtherSteps, TypeParts DEF Aside
  <2> QED
    BY <1>1, <1>9, <2>1, StaysUnusable
<1>10. CASE UNCHANGED vars
  BY <1>1, <1>10 DEF vars, world, NoUsableAccount, CanLogIn
<1> QED
  BY <1>2, <1>4, <1>5, <1>6, <1>7, <1>8, <1>9, <1>10, Kinds

(* A test that fails was hit by a failing call, or failed for one of the   *)
(* four causes by which a failure can spread.  (ensureUser, test, and the  *)
(* order of the tests)                                                     *)
THEOREM FailuresHaveCauses == Spec => []FailuresAreExplained
<1>1. Init => UserInv /\ LoginInv /\ SharedInv /\ FailuresAreExplained
  BY DEF Init, UserInv, LoginInv, JustTried, SharedInv, FailuresAreExplained, LoggedIn,
     Running
<1> QED
  BY <1>1, UserStep, LoginStep, SharedStep, ExplainedStep, Inductive, PTL DEF Spec
------------------------------------------------------------------------------
(* What the harness shows of an app's log                                  *)

(* One more line, the first of a record or a further one, leaves every     *)
(* earlier line where it was.                                              *)
LEMMA AppendedLine ==
    ASSUME log \in Seq(Line), NEW line \in Line, log' = Append(log, line)
    PROVE  /\ log' \in Seq(Line)
           /\ DOMAIN log = 1..Len(log)
           /\ DOMAIN log' = 1..(Len(log) + 1)
           /\ Len(log) \in Nat
           /\ \A i \in 1..Len(log) : log'[i] = log[i]
           /\ log'[Len(log) + 1] = line
  OBVIOUS

(* A line that starts a record, or goes on with the record of the line     *)
(* before it, keeps the log one of whole records.                          *)
LEMMA RecordsStayWhole ==
    ASSUME RecordsAreWhole, NEW line \in Line, log' = Append(log, line),
           \/ line.first = Len(log) + 1 /\ (line.debug => line.word)
           \/ /\ Len(log) \in DOMAIN log
              /\ line.first = log[Len(log)].first
              /\ line.debug = log[Len(log)].debug
    PROVE  RecordsAreWhole'
<1> DEFINE n == Len(log)
           Whole(s, i) == /\ s[i].first \in 1..i
                          /\ s[s[i].first].first = s[i].first
                          /\ s[i].debug = s[s[i].first].debug
                          /\ s[i].debug => s[s[i].first].word
                          /\ \A k \in (s[i].first + 1)..i : s[k].first # k
<1>1. /\ log' \in Seq(Line) /\ DOMAIN log' = 1..(n + 1) /\ DOMAIN log = 1..n
      /\ n \in Nat /\ \A i \in 1..n : log'[i] = log[i]
      /\ log'[n + 1] = line
  <2>1. log \in Seq(Line)
    BY DEF RecordsAreWhole
  <2> QED BY <2>1, AppendedLine
<1> HIDE DEF n
<1>2. \A i \in 1..n : Whole(log, i)
  BY <1>1 DEF RecordsAreWhole, IsFirst
<1>3. ASSUME NEW i \in 1..n PROVE Whole(log', i)
  <2>1. Whole(log, i) /\ log[i].first \in 1..i /\ i \in Nat
    BY <1>1, <1>2
  <2>2. log'[i] = log[i] /\ log'[log[i].first] = log[log[i].first]
    BY <1>1, <2>1
  <2>3. \A k \in (log[i].first + 1)..i : log'[k] = log[k]
    BY <1>1, <2>1
  <2> QED BY <2>1, <2>2, <2>3
<1>4. CASE line.first = n + 1 /\ (line.debug => line.word)
  <2>1. Whole(log', n + 1)
    BY <1>1, <1>4
  <2> QED BY <1>1, <1>3, <2>1 DEF RecordsAreWhole, IsFirst
<1>5. CASE n \in DOMAIN log /\ line.first = log[n].first /\ line.debug = log[n].debug
  <2>1. n \in 1..n /\ Whole(log', n) /\ log'[n] = log[n]
    BY <1>1, <1>3, <1>5
  <2>2. /\ log'[n + 1].first = log'[n].first /\ log'[n + 1].debug = log'[n].debug
        /\ log'[n].first \in 1..n
    BY <1>1, <1>5, <2>1
  <2>3. \A k \in (log'[n].first + 1)..(n + 1) : log'[k].first # k
    <3> DEFINE f == log'[n].first
    <3>1. f \in 1..n /\ n \in Nat /\ log'[n + 1].first = f
      BY <1>1, <2>2
    <3>2. \A k \in (f + 1)..n : log'[k].first # k
      BY <2>1
    <3> HIDE DEF f
    <3>3. \A k \in (f + 1)..(n + 1) : k \in (f + 1)..n \/ k = n + 1
      BY <3>1
    <3>4. log'[n + 1].first # n + 1
      BY <3>1
    <3>5. \A k \in (f + 1)..(n + 1) : log'[k].first # k
      BY <3>2, <3>3, <3>4
    <3> QED BY <3>5 DEF f
  <2>4. Whole(log', n + 1)
    BY <1>1, <2>1, <2>2, <2>3
  <2> QED BY <1>1, <1>3, <2>4 DEF RecordsAreWhole, IsFirst
<1> QED BY <1>4, <1>5 DEF n

(* The log consists of whole records, however the app logs them.           *)
THEOREM LogIsOfRecords == LogSpec => []RecordsAreWhole
<1>1. LogInit => RecordsAreWhole
  BY DEF LogInit, RecordsAreWhole
<1>2. RecordsAreWhole /\ [LogNext]_log => RecordsAreWhole'
  <2> SUFFICES ASSUME RecordsAreWhole, [LogNext]_log
               PROVE  RecordsAreWhole'
    OBVIOUS
  <2>0. log \in Seq(Line) /\ Len(log) \in Nat /\ DOMAIN log = 1..Len(log)
    BY DEF RecordsAreWhole
  <2>1. ASSUME NEW debug \in BOOLEAN, NEW word \in BOOLEAN, NEW names \in BOOLEAN,
               LogFirst(debug, word, names)
        PROVE  RecordsAreWhole'
    <3> DEFINE line == [first |-> Len(log) + 1, debug |-> debug, word |-> word,
                        names |-> names]
    <3>1. /\ line \in Line /\ line.first = Len(log) + 1
          /\ line.debug = debug /\ line.word = word
      BY <2>0 DEF Line
    <3>2. log' = Append(log, line) /\ (debug => word)
      BY <2>1 DEF LogFirst
    <3> HIDE DEF line
    <3> QED BY <3>1, <3>2, RecordsStayWhole
  <2>2. ASSUME NEW word \in BOOLEAN, NEW names \in BOOLEAN, LogFurther(word, names)
        PROVE  RecordsAreWhole'
    <3> DEFINE line == [log[Len(log)] EXCEPT !.word = word, !.names = names]
    <3>1. log' = Append(log, line)
      BY <2>2 DEF LogFurther
    <3>2. Len(log) # 0
      BY <2>2 DEF LogFurther
    <3>3. Len(log) \in DOMAIN log
      BY <2>0, <3>2
    <3>4. log[Len(log)] \in Line
      BY <2>0, <3>3
    <3>5. /\ line \in Line /\ line.first = log[Len(log)].first
          /\ line.debug = log[Len(log)].debug
      BY <3>4 DEF Line
    <3> HIDE DEF line
    <3> QED BY <3>1, <3>3, <3>5, RecordsStayWhole
  <2>3. CASE UNCHANGED log
    BY <2>3 DEF RecordsAreWhole, IsFirst
  <2> QED BY <2>1, <2>2, <2>3 DEF LogNext
<1> QED BY <1>1, <1>2, PTL DEF LogSpec

(* A line whose record's first line is in the excerpt is kept by quiet     *)
(* exactly if that first line does not have the word: no other record can  *)
(* decide for it.                                                          *)
LEMMA RecordDecides ==
    ASSUME RecordsAreWhole,
           NEW excerpt \in SUBSET DOMAIN log,
           NEW i \in excerpt, log[i].first \in excerpt
    PROVE  i \in Quiet(excerpt) <=> ~log[log[i].first].word
<1> DEFINE f == log[i].first
<1>1. /\ i \in DOMAIN log /\ f \in 1..i /\ IsFirst(f) /\ i \in Nat
      /\ \A k \in (f + 1)..i : ~IsFirst(k)
  BY DEF RecordsAreWhole
<1>2. ASSUME log[f].word PROVE i \notin Quiet(excerpt)
  BY <1>1, <1>2 DEF Quiet
<1>3. ASSUME i \notin Quiet(excerpt) PROVE log[f].word
  <2>1. PICK j \in excerpt : /\ j <= i /\ IsFirst(j) /\ log[j].word
                             /\ \A k \in excerpt : k \in (j + 1)..i => ~IsFirst(k)
    BY <1>3 DEF Quiet
  <2>2. j \in Nat
    BY DEF RecordsAreWhole
  <2>3. ~(j < f)
    BY <1>1, <2>1, <2>2
  <2>4. ~(f < j)
    BY <1>1, <2>1, <2>2
  <2> QED BY <1>1, <2>1, <2>2, <2>3, <2>4
<1> QED BY <1>2, <1>3

LEMMA WindowIsOfTheLog ==
    SessionLogWindow \subseteq DOMAIN log /\ Naming \subseteq DOMAIN log
  BY DEF SessionLogWindow, Naming

(* Dumps of session values reach the output only from records that start   *)
(* outside of the window.                                                  *)
THEOREM NoDumpIsShown == LogSpec => []DumpsAreNotShown
<1>1. RecordsAreWhole => DumpsAreNotShown
  <2> SUFFICES ASSUME RecordsAreWhole, NEW i \in Diagnose, log[i].debug,
                      log[i].first \in SessionLogWindow
               PROVE  FALSE
    BY DEF DumpsAreNotShown
  <2>1. i \in Quiet(SessionLogWindow) /\ i \in SessionLogWindow
    BY DEF Diagnose, Answers, Quiet
  <2>2. log[log[i].first].word
    BY <2>1, WindowIsOfTheLog DEF RecordsAreWhole
  <2> QED BY <2>1, <2>2, WindowIsOfTheLog, RecordDecides
<1> QED BY <1>1, LogIsOfRecords, PTL

(* Nothing else than a DEBUG level, a cut window, the word itself or newer *)
(* lines keeps a line that names the session out of the output.            *)
THEOREM NamingLinesSurvive == LogSpec => []NamingLinesAreShown
<1>1. RecordsAreWhole => NamingLinesAreShown
  <2> SUFFICES ASSUME RecordsAreWhole, NEW i \in Naming,
                      i \notin Diagnose,
                      log[i].first \in SessionLogWindow,
                      ~log[log[i].first].word
               PROVE  Cardinality({j \in Answers : j > i}) >= MaxShown
    BY DEF NamingLinesAreShown
  <2>1. i \in SessionLogWindow
    <3>1. i \in Nat /\ After \in Nat
      BY WindowIsOfTheLog, SizesAssumption DEF RecordsAreWhole
    <3> QED BY <3>1, WindowIsOfTheLog DEF SessionLogWindow
  <2>2. i \in Answers
    BY <2>1, WindowIsOfTheLog, RecordDecides DEF Answers
  <2>3. ~(Cardinality({j \in Answers : j > i}) < MaxShown)
    BY <2>2 DEF Diagnose
  <2>4. Cardinality({j \in Answers : j > i}) \in Nat
    <3>1. IsFiniteSet(DOMAIN log)
      <4>1. Len(log) \in Nat /\ DOMAIN log = 1..Len(log)
        BY DEF RecordsAreWhole
      <4> QED BY <4>1, FS_Interval
    <3>2. {j \in Answers : j > i} \subseteq DOMAIN log
      BY WindowIsOfTheLog DEF Answers
    <3>3. Cardinality({j \in Answers : j > i}) \in Nat
      BY <3>1, <3>2, FS_Subset, FS_CardinalityType
    <3> QED BY <3>3
  <2> QED BY <2>3, <2>4, SizesAssumption
<1> QED BY <1>1, LogIsOfRecords, PTL
=============================================================================
