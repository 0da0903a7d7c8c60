-------------------------- MODULE RaceStagingProofs --------------------------
(***************************************************************************)
(* Proofs about RaceStaging, for any number of attempts and failing calls  *)
(* and any lists of paths within the assumptions: type correctness, that a *)
(* test passes only after a real race, and that only a missed race or a    *)
(* failed call makes it repeat or fail.                                    *)
(***************************************************************************)
EXTENDS RaceStaging, FiniteSetTheorems, TLAPS

------------------------------------------------------------------------------
(* What the sibling's write does to the session of a test, and the verdict *)
(* on a request that had it loaded                                         *)

(* The session a test's request finds, and what the sibling leaves of it.  *)
Prepared(c) == IF c.prepare = "none" THEN NewSession
               ELSE Rewritten(c.prepare, NewSession, 0)
SiblingOf(c, s) == IF c.sibling = "delete" THEN Gone
                   ELSE Rewritten(c.sibling, s, 1)

LEMMA NewSessionFacts ==
  /\ NewSession \in Sessions /\ NewSession.gen = 0
  /\ NewSession.data["eppn"] = "user" /\ NewSession.data["language"] = "en"
  /\ NewSession.data["csrf"] = "minted" /\ NewSession.data["aborted"] = Absent
  BY DEF NewSession, Sessions, Contents, Paths

LEMMA SetPathFacts ==
  ASSUME NEW s \in Sessions, NEW p \in Paths, NEW v \in Contents \cup {Absent}
  PROVE  /\ SetPath(s, p, v) \in Sessions
         /\ SetPath(s, p, v).gen = s.gen
         /\ SetPath(s, p, v).data[p] = v
         /\ \A q \in Paths : q # p => SetPath(s, p, v).data[q] = s.data[q]
  BY DEF SetPath, Sessions

(* The classification, rule by rule. *)
LEMMA VerdictRules ==
  ASSUME NEW b, NEW m, NEW o
  PROVE  /\ o = Gone \/ o.gen # b.gen => Verdict(b, m, o) = "generation"
         /\ o # Gone /\ o.gen = b.gen =>
              /\ (\E p \in Paths : Has(b, p) /\ ~Has(o, p)) =>
                    Verdict(b, m, o) = "cleared"
              /\ (\A p \in Paths : Has(b, p) => Has(o, p)) =>
                    /\ Changed(b, o) \cap FatalOtherWriter # {} =>
                          Verdict(b, m, o) = "fatalPath"
                    /\ Changed(b, o) \cap FatalOtherWriter = {} =>
                          Verdict(b, m, o) = IF Changed(b, m) \subseteq SafeToLose
                                             THEN "swallowed" ELSE "notSafe"
<1>1. (\A p \in Paths : Has(b, p) => Has(o, p))
        <=> ~ \E p \in Paths : Has(b, p) /\ ~Has(o, p)
  OBVIOUS
<1> QED
  BY <1>1 DEF Verdict

LEMMA VerdictType ==
  ASSUME NEW b, NEW m, NEW o
  PROVE  Verdict(b, m, o) \in Verdicts
<1>1. CASE o = Gone \/ o.gen # b.gen
  BY <1>1, VerdictRules DEF Verdicts
<1>2. CASE o # Gone /\ o.gen = b.gen
  BY <1>2, VerdictRules DEF Verdicts
<1> QED
  BY <1>1, <1>2

(* A sibling that adds or changes one path the session of this test had no *)
(* other word for.                                                         *)
LEMMA SiblingSets ==
  ASSUME NEW b \in Sessions, NEW p \in Paths, NEW v \in Contents, b.data[p] # v
  PROVE  LET o == SetPath(b, p, v)
         IN  /\ o # Gone /\ o # b /\ o.gen = b.gen
             /\ \A q \in Paths : Has(b, q) => Has(o, q)
             /\ Changed(b, o) = {p}
<1> DEFINE o == SetPath(b, p, v)
<1>1. /\ o \in Sessions /\ o.gen = b.gen /\ o.data[p] = v
      /\ \A q \in Paths : q # p => o.data[q] = b.data[q]
  BY SetPathFacts
<1>2. o # Gone /\ v # Absent
  BY <1>1, SessionsAssumption
<1> HIDE DEF o
<1>3. Changed(b, o) = {p}
  BY <1>1 DEF Changed
<1>4. \A q \in Paths : Has(b, q) => Has(o, q)
  BY <1>1, <1>2 DEF Has
<1> QED
  BY <1>1, <1>2, <1>3, <1>4 DEF o

(* In every test a request that had its session loaded gets the verdict    *)
(* and the status the test expects.                                        *)
LEMMA RaceIsExpected ==
  ASSUME NEW c \in Cases
  PROVE  /\ SiblingOf(c, Prepared(c)) # Prepared(c)
         /\ Verdict(Prepared(c), Handled("read", Prepared(c), "minted", 0),
                    SiblingOf(c, Prepared(c))) = c.verdict
         /\ c.status = IF c.verdict = "swallowed" THEN "200" ELSE "500"
<1> DEFINE b == Prepared(c)
           o == SiblingOf(c, b)
           m == Handled("read", b, "minted", 0)
<1>0. \A s : s \in Sessions => s # Gone
  BY SessionsAssumption
<1>1. ASSUME c.prepare = "none" PROVE b = NewSession
  BY <1>1 DEF Prepared
<1>2. CASE c = Case("none", "delete", "500", "generation")
  <2>1. o = Gone /\ b = NewSession
    BY <1>2, <1>1 DEF Case, SiblingOf
  <2> QED
    BY <1>0, <1>2, <2>1, NewSessionFacts, VerdictRules DEF Case
<1>3. CASE c = Case("none", "dropCommon", "500", "cleared")
  <2>1. o = DropCommon(NewSession) /\ b = NewSession
    BY <1>3, <1>1 DEF Case, SiblingOf, Rewritten
  <2>2. /\ o \in Sessions /\ o.gen = NewSession.gen
        /\ o.data["eppn"] = Absent
    BY <2>1, NewSessionFacts DEF DropCommon, Sessions, CommonPaths, Paths
  <2>3. "eppn" \in Paths /\ Has(b, "eppn") /\ ~Has(o, "eppn")
    BY <2>1, <2>2, NewSessionFacts, SessionsAssumption DEF Has, Paths, Contents
  <2> HIDE DEF o, b, m
  <2>4. Verdict(b, m, o) = "cleared"
    BY <1>0, <2>1, <2>2, <2>3, VerdictRules
  <2>5. o # b
    BY <2>3
  <2> QED
    BY <1>3, <2>4, <2>5 DEF o, b, m, Case
<1>4. CASE c = Case("prepare", "abort", "500", "fatalPath")
  <2>1. b = SetPath(NewSession, "pending", "stored") /\ o = SetPath(b, "aborted", "true")
    BY <1>4 DEF Case, Prepared, SiblingOf, Rewritten
  <2>2. b \in Sessions /\ b.data["aborted"] = Absent
    BY <2>1, NewSessionFacts, SetPathFacts DEF Paths, Contents
  <2> HIDE DEF o, b, m
  <2>3. b.data["aborted"] # "true"
    BY <2>2, SessionsAssumption DEF Contents
  <2>4. "aborted" \in Paths /\ "true" \in Contents /\ "aborted" \in FatalOtherWriter
    BY PathListsAssumption DEF Paths, Contents
  <2>5. /\ o # Gone /\ o # b /\ o.gen = b.gen
        /\ \A q \in Paths : Has(b, q) => Has(o, q)
        /\ Changed(b, o) = {"aborted"}
    BY <2>1, <2>2, <2>3, <2>4, SiblingSets
  <2>6. Verdict(b, m, o) = "fatalPath"
    BY <2>4, <2>5, VerdictRules
  <2> QED
    BY <1>4, <2>5, <2>6 DEF o, b, m, Case
<1>5. CASE c = Case("none", "language", "200", "swallowed")
  <2>1. b = NewSession /\ o = SetPath(b, "language", "sv")
    BY <1>5 DEF Case, Prepared, SiblingOf, Rewritten
  <2>2. b \in Sessions /\ b.data["language"] # "sv"
    BY <2>1, NewSessionFacts
  <2>3. m = b
    BY <2>1, NewSessionFacts, SessionsAssumption DEF Handled, Has, Contents
  <2> HIDE DEF o, b, m
  <2>4. "language" \in Paths /\ "sv" \in Contents /\ "language" \notin FatalOtherWriter
    BY LanguageAssumption DEF Paths, Contents
  <2>5. /\ o # Gone /\ o # b /\ o.gen = b.gen
        /\ \A q \in Paths : Has(b, q) => Has(o, q)
        /\ Changed(b, o) = {"language"}
    BY <2>1, <2>2, <2>4, SiblingSets
  <2>6. Changed(b, m) = {}
    BY <2>3 DEF Changed
  <2>7. Verdict(b, m, o) = "swallowed"
    BY <2>4, <2>5, <2>6, VerdictRules
  <2> QED
    BY <1>5, <2>5, <2>7 DEF o, b, m, Case
<1>6. CASE c = Case("dropCsrf", "language", "500", "notSafe")
  <2>1. b = SetPath(NewSession, "csrf", Absent) /\ o = SetPath(b, "language", "sv")
    BY <1>6 DEF Case, Prepared, SiblingOf, Rewritten, DelPath
  <2>2. b \in Sessions /\ b.data["csrf"] = Absent /\ b.data["language"] # "sv"
    BY <2>1, NewSessionFacts, SetPathFacts DEF Paths
  <2>3. m = SetPath(b, "csrf", "minted")
    BY <2>2 DEF Handled, Has
  <2> HIDE DEF o, b, m
  <2>4. "language" \in Paths /\ "sv" \in Contents /\ "language" \notin FatalOtherWriter
        /\ "csrf" \in Paths /\ "minted" \in Contents
    BY LanguageAssumption DEF Paths, Contents
  <2>5. /\ o # Gone /\ o # b /\ o.gen = b.gen
        /\ \A q \in Paths : Has(b, q) => Has(o, q)
        /\ Changed(b, o) = {"language"}
    BY <2>1, <2>2, <2>4, SiblingSets
  <2>6. "csrf" \in Changed(b, m)
    BY <2>2, <2>3, <2>4, SetPathFacts, SessionsAssumption DEF Changed
  <2>7. "csrf" \notin SafeToLose
    BY PathListsAssumption DEF AuthState
  <2>8. Verdict(b, m, o) = "notSafe"
    BY <2>4, <2>5, <2>6, <2>7, VerdictRules
  <2> QED
    BY <1>6, <2>5, <2>8 DEF o, b, m, Case
<1>7. CASE c = Case("none", "regen", "500", "generation")
  <2>1. b = NewSession /\ o = Regen(b, 1)
    BY <1>7 DEF Case, Prepared, SiblingOf, Rewritten
  <2>2. o.gen = 1 /\ b.gen = 0
    BY <2>1, NewSessionFacts DEF Regen, Sessions
  <2> HIDE DEF o, b, m
  <2> QED
    BY <1>7, <2>2, VerdictRules DEF o, b, m, Case
<1>8. CASE c = Case("none", "reset", "500", "generation")
  <2>1. b = NewSession /\ o = ResetLikeTheApp(b, 1)
    BY <1>8 DEF Case, Prepared, SiblingOf, Rewritten
  <2>2. o.gen = 1 /\ b.gen = 0
    BY <2>1, NewSessionFacts DEF ResetLikeTheApp
  <2> HIDE DEF o, b, m
  <2> QED
    BY <1>8, <2>2, VerdictRules DEF o, b, m, Case
<1> QED
  BY <1>2, <1>3, <1>4, <1>5, <1>6, <1>7, <1>8 DEF Cases

------------------------------------------------------------------------------
(* The lines in the app's log *)

(* The test is on its way to the sibling's write. *)
Staging == {"warm", "freeze", "fire"}
InFlight == request \in {"sent", "loaded"}

(* No request of an earlier attempt is around; MongoDB is frozen until the *)
(* sibling has written, and a loaded request has the stored session until  *)
(* then.                                                                   *)
PhaseInv ==
    /\ at \in Staging => request = "none"
    /\ at \in {"create", "judge", "ok"} => ~InFlight
    /\ at \in {"fire", "sibling", "thaw", "unwind"} => frozen
    /\ at \in Staging \cup {"sibling"} => ~hit
    /\ request = "loaded" => base = store \/ hit

(* A line that names this attempt's session was logged by its one request, *)
(* after the sibling had written.                                          *)
LinesInv ==
    /\ \A line \in log : line.session <= attempt
    /\ at \in Staging \cup {"create", "sibling"} \/ InFlight => LinesOf(attempt) = {}
    /\ LinesOf(attempt) # {} => hit
    /\ \A l, m \in LinesOf(attempt) : l = m
    /\ at = "judge" /\ conflicts # 0 => hit
    /\ at = "ok" => hit

LEMMA CountOfLines ==
  ASSUME \A l, m \in LinesOf(attempt) : l = m
  PROVE  /\ Cardinality(LinesOf(attempt)) \in 0..1
         /\ LinesOf(attempt) = {} => Cardinality(LinesOf(attempt)) = 0
         /\ LinesOf(attempt) # {} => Cardinality(LinesOf(attempt)) = 1
<1>1. CASE LinesOf(attempt) = {}
  BY <1>1, FS_EmptySet
<1>2. CASE LinesOf(attempt) # {}
  <2>1. PICK l : LinesOf(attempt) = {l}
    BY <1>2
  <2> QED
    BY <2>1, FS_Singleton
<1> QED
  BY <1>1, <1>2

(* The calls of one step that fail are counted. *)
LEMMA FailingType ==
  ASSUME TypeOK, NEW calls, IsFiniteSet(calls), Failing(calls)
  PROVE  /\ faults' \in 0..MaxFaults
         /\ calls # {} => faults' > 0
         /\ faults > 0 => faults' > 0
<1>1. Cardinality(calls) \in Nat /\ (calls # {} => Cardinality(calls) # 0)
  BY FS_CardinalityType, FS_EmptySet
<1> QED
  BY <1>1, FaultsAssumption DEF TypeOK, Failing

LEMMA FiniteCalls ==
  /\ \A failed \in SUBSET {"conflict"} : IsFiniteSet(failed)
  /\ \A failed \in SUBSET {"expect", "fatal"} : IsFiniteSet(failed)
<1>1. IsFiniteSet({"conflict"}) /\ IsFiniteSet({"expect"} \cup {"fatal"})
  BY FS_Singleton, FS_Union
<1>2. {"expect", "fatal"} = {"expect"} \cup {"fatal"}
  OBVIOUS
<1> QED
  BY <1>1, <1>2, FS_Subset

(* A call that throws ends the attempt, and is counted. *)
LEMMA TestFailsFacts ==
  ASSUME TypeOK, TestFails
  PROVE  /\ UNCHANGED <<case, attempt, conflicts, worker, warm, request, base, log>>
         /\ faults' \in 1..MaxFaults
         /\ frozen' \in BOOLEAN
         /\ \/ at' \in {"fail", "thrown"} /\ UNCHANGED <<store, hit>>
            \/ /\ at = "sibling" /\ at' = "unwind" /\ frozen' = frozen
               /\ \/ UNCHANGED <<store, hit>>
                  \/ store' = Written /\ hit' = (request = "loaded")
<1>1. CASE CreateFails
  BY <1>1, FaultsAssumption DEF CreateFails, CallFails, TypeOK, appVars
<1>2. CASE FreezeFails
  BY <1>2, FaultsAssumption DEF FreezeFails, CallFails, TypeOK, appVars
<1>3. CASE SiblingFails
  BY <1>3, FaultsAssumption DEF SiblingFails, CallFails, TypeOK, appVars
<1>4. CASE ThawFails
  BY <1>4, FaultsAssumption DEF ThawFails, CallFails, TypeOK, appVars
<1>5. CASE AwaitFails
  BY <1>5, FaultsAssumption DEF AwaitFails, CallFails, TypeOK, appVars
<1> QED
  BY <1>1, <1>2, <1>3, <1>4, <1>5 DEF TestFails

(* What a commit leaves in the log. *)
LEMMA CommitLogs ==
  ASSUME TypeOK, PhaseInv, LinesInv, Commit
  PROVE  /\ at \notin Staging \cup {"create", "sibling", "judge", "ok"}
         /\ request' \in {"200", "500"}
         /\ \/ request' = "200" /\ log' = log /\ store = base
            \/ /\ hit /\ store # base /\ store' = store
               /\ LET v == Verdict(base, Handled("read", base, "minted", 0), store)
                  IN  /\ request' = IF v = "swallowed" THEN "200" ELSE "500"
                      /\ log' = log \cup {[session |-> attempt, verdict |-> v]}
<1>1. at \notin Staging \cup {"create", "sibling", "judge", "ok"}
  BY DEF Commit, PhaseInv, InFlight, Staging
<1> QED
  BY <1>1 DEF Commit, PhaseInv

LEMMA InitHolds == Init => TypeOK /\ PhaseInv /\ LinesInv
<1> SUFFICES ASSUME Init PROVE TypeOK /\ PhaseInv /\ LinesInv
  OBVIOUS
<1>1. attempt \in 1..MaxAttempts /\ faults \in 0..MaxFaults
  BY AttemptsAssumption, FaultsAssumption DEF Init
<1>2. TypeOK
  <2>1. frozen \in BOOLEAN /\ warm \in BOOLEAN /\ hit \in BOOLEAN
    BY DEF Init
  <2>2. log \subseteq Lines /\ conflicts \in 0..1
    BY DEF Init
  <2> QED
    BY <1>1, <2>1, <2>2 DEF Init, TypeOK
<1>3. PhaseInv
  BY DEF Init, PhaseInv, InFlight, Staging
<1>4. LinesInv
  BY DEF Init, LinesInv, InFlight, Staging, LinesOf
<1> QED
  BY <1>2, <1>3, <1>4

LEMMA TypeStep ==
  TypeOK /\ PhaseInv /\ LinesInv /\ [Next]_vars => TypeOK'
<1> SUFFICES ASSUME TypeOK, PhaseInv, LinesInv, [Next]_vars PROVE TypeOK'
  OBVIOUS
<1>1. CASE Create \/ Warm \/ Freeze \/ Fire \/ SiblingWrite \/ Thaw \/ Unwind
  BY <1>1 DEF Create, Warm, Freeze, Fire, SiblingWrite, Thaw, Unwind, TypeOK,
     appVars, counts
<1>2. CASE AwaitResponse
  <2>1. PICK failed \in SUBSET {"conflict"} :
           /\ Failing(failed)
           /\ conflicts' = Count(LinesOf(attempt), failed # {})
    BY <1>2 DEF AwaitResponse
  <2>2. faults' \in 0..MaxFaults
    BY <2>1, FailingType, FiniteCalls
  <2>3. conflicts' \in 0..1
    BY <2>1, CountOfLines DEF Count, LinesInv
  <2> QED
    BY <1>2, <2>2, <2>3 DEF AwaitResponse, TypeOK, appVars
<1>3. CASE Retry
  <2>1. attempt' \in 1..MaxAttempts
    BY <1>3, AttemptsAssumption DEF Retry, TypeOK
  <2> QED
    BY <1>3, <2>1 DEF Retry, TypeOK, appVars, counts
<1>4. CASE Judge
  <2>1. faults' \in 0..MaxFaults /\ at' \in {"ok", "fail"}
    BY <1>4, FailingType, FiniteCalls DEF Judge
  <2> QED
    BY <1>4, <2>1 DEF Judge, TypeOK, appVars
<1>5. CASE HealthCheck \/ HealthAnswered \/ CacheExpires
  BY <1>5 DEF HealthCheck, HealthAnswered, CacheExpires, TypeOK, testVars, counts
<1>6. CASE Serve
  BY <1>6 DEF Serve, TypeOK, testVars, counts
<1>7. CASE Commit
  <2>1. \A v \in Verdicts : [session |-> attempt, verdict |-> v] \in Lines
    BY AttemptsAssumption DEF TypeOK, Lines
  <2>2. log' \subseteq Lines /\ request' \in {"200", "500"}
    BY <1>7, <2>1, CommitLogs, VerdictType DEF TypeOK
  <2> QED
    BY <1>7, <2>2 DEF Commit, TypeOK, counts
<1>8. CASE NeighbourConflict
  <2>1. \A v \in Verdicts : [session |-> Neighbour, verdict |-> v] \in Lines
    BY AttemptsAssumption DEF Lines, Neighbour
  <2>2. log' \subseteq Lines
    BY <1>8, <2>1 DEF NeighbourConflict, TypeOK
  <2> QED
    BY <1>8, <2>2 DEF NeighbourConflict, TypeOK, testVars, counts
<1>9. CASE UNCHANGED vars
  BY <1>9 DEF vars, TypeOK
<1>10. CASE TestFails
  <2>1. at' \in {"fail", "thrown", "unwind"} /\ hit' \in BOOLEAN
    BY <1>10, TestFailsFacts DEF TypeOK
  <2>2. faults' \in 0..MaxFaults
    BY <1>10, TestFailsFacts, FaultsAssumption
  <2> QED
    BY <1>10, <2>1, <2>2, TestFailsFacts DEF TypeOK
<1> QED
  BY <1>1, <1>2, <1>3, <1>4, <1>5, <1>6, <1>7, <1>8, <1>9, <1>10
     DEF Next, TestStep, AppStep, Environment

LEMMA PhaseStep ==
  TypeOK /\ PhaseInv /\ LinesInv /\ [Next]_vars => PhaseInv'
<1> SUFFICES ASSUME TypeOK, PhaseInv, LinesInv, [Next]_vars PROVE PhaseInv'
  OBVIOUS
<1> USE DEF PhaseInv, InFlight, Staging
<1>1. CASE Create
  BY <1>1 DEF Create
<1>2. CASE Warm \/ Freeze \/ Fire
  <2>1. CASE Warm
    BY <2>1 DEF Warm
  <2>2. CASE Freeze
    BY <2>2 DEF Freeze, appVars
  <2>3. CASE Fire
    BY <2>3 DEF Fire
  <2> QED
    BY <1>2, <2>1, <2>2, <2>3
<1>3. CASE SiblingWrite \/ Thaw \/ Unwind
  BY <1>3 DEF SiblingWrite, Thaw, Unwind, appVars
<1>4. CASE AwaitResponse
  BY <1>4 DEF AwaitResponse, Answered, appVars
<1>5. CASE Retry \/ Judge
  BY <1>5 DEF Retry, Judge, appVars
<1>6. CASE HealthCheck \/ HealthAnswered \/ CacheExpires \/ NeighbourConflict
  BY <1>6 DEF HealthCheck, HealthAnswered, CacheExpires, NeighbourConflict,
     testVars
<1>7. CASE Serve
  BY <1>7 DEF Serve, testVars
<1>8. CASE Commit
  BY <1>8, CommitLogs DEF Commit
<1>9. CASE UNCHANGED vars
  BY <1>9 DEF vars
<1>10. CASE TestFails
  BY <1>10, TestFailsFacts
<1> QED
  BY <1>1, <1>2, <1>3, <1>4, <1>5, <1>6, <1>7, <1>8, <1>9, <1>10
     DEF Next, TestStep, AppStep, Environment

LEMMA LinesStep ==
  TypeOK /\ PhaseInv /\ LinesInv /\ [Next]_vars => LinesInv'
<1> SUFFICES ASSUME TypeOK, PhaseInv, LinesInv, [Next]_vars PROVE LinesInv'
  OBVIOUS
<1> USE DEF LinesInv, LinesOf, InFlight, Staging
<1>1. CASE Create
  BY <1>1 DEF Create
<1>2. CASE Warm \/ Freeze \/ Fire
  <2>1. UNCHANGED <<attempt, log, hit>> /\ at' \in Staging \cup {"sibling"}
        /\ at \in Staging
    BY <1>2 DEF Warm, Freeze, Fire, appVars
  <2> QED
    BY <2>1
<1>3. CASE SiblingWrite
  BY <1>3 DEF SiblingWrite, appVars
<1>4. CASE Thaw \/ Unwind
  BY <1>4 DEF Thaw, Unwind, appVars
<1>5. CASE AwaitResponse
  <2>1. conflicts' # 0 => LinesOf(attempt) # {}
    BY <1>5, CountOfLines DEF AwaitResponse, Count
  <2>2. UNCHANGED <<attempt, log, hit, request>> /\ at' = "judge"
    BY <1>5 DEF AwaitResponse, appVars
  <2> QED
    BY <1>5, <2>1, <2>2 DEF AwaitResponse, Answered
<1>6. CASE Retry
  <2>1. /\ attempt \in Nat /\ \A line \in log : line.session \in Nat
        /\ attempt' = attempt + 1 /\ UNCHANGED <<log, hit>> /\ at' = "create"
    BY <1>6 DEF Retry, TypeOK, Lines, appVars
  <2>2. \A line \in log : line.session # attempt + 1 /\ line.session <= attempt + 1
    BY <2>1
  <2> QED
    BY <2>1, <2>2
<1>7. CASE Judge
  <2>1. /\ UNCHANGED <<attempt, log, hit, request>> /\ at' \in {"ok", "fail"}
        /\ at' = "ok" => conflicts = 1
    BY <1>7 DEF Judge, AsExpected, appVars
  <2> QED
    BY <1>7, <2>1 DEF Judge
<1>8. CASE HealthCheck \/ HealthAnswered \/ CacheExpires
  BY <1>8 DEF HealthCheck, HealthAnswered, CacheExpires, testVars, counts
<1>9. CASE Serve
  BY <1>9 DEF Serve, testVars, counts
<1>10. CASE Commit
  <2>1. /\ at \notin Staging \cup {"create", "sibling", "judge", "ok"}
        /\ request' \in {"200", "500"} /\ LinesOf(attempt) = {}
        /\ UNCHANGED <<at, attempt, hit>>
    BY <1>10, CommitLogs DEF Commit
  <2>2. log' = log \/ (hit /\ \E l : l.session = attempt /\ log' = log \cup {l})
    BY <1>10, CommitLogs
  <2>3. attempt <= attempt
    BY DEF TypeOK
  <2> QED
    BY <2>1, <2>2, <2>3
<1>11. CASE NeighbourConflict
  <2>1. /\ UNCHANGED <<at, attempt, hit, request, conflicts>>
        /\ \E l : l.session = 0 /\ log' = log \cup {l}
    BY <1>11 DEF NeighbourConflict, Neighbour, testVars, counts
  <2>2. 0 # attempt /\ 0 <= attempt
    BY DEF TypeOK
  <2> QED
    BY <2>1, <2>2
<1>12. CASE UNCHANGED vars
  BY <1>12 DEF vars
<1>13. CASE TestFails
  BY <1>13, TestFailsFacts
<1> QED
  BY <1>1, <1>2, <1>3, <1>4, <1>5, <1>6, <1>7, <1>8, <1>9, <1>10, <1>11,
     <1>12, <1>13 DEF Next, TestStep, AppStep, Environment

LEMMA Inductive == Spec => [](TypeOK /\ PhaseInv /\ LinesInv)
  BY InitHolds, TypeStep, PhaseStep, LinesStep, PTL DEF Spec

(* The variables keep their types; an attempt logs one verdict at most.    *)
THEOREM TypeCorrect == Spec => []TypeOK
  BY Inductive, PTL

(* A test that reports ok has staged a real race, whatever status a missed *)
(* one was answered with, whatever other sessions have logged and whether  *)
(* or not a grep could be run.                                             *)
THEOREM NoFalsePass == Spec => []OkOnlyAfterRace
<1>1. LinesInv => OkOnlyAfterRace
  BY DEF LinesInv, OkOnlyAfterRace
<1> QED
  BY <1>1, Inductive, PTL

------------------------------------------------------------------------------
(* From the sibling's write on, the request of a real race still holds     *)
(* what the test prepared, or has been answered with the status and the    *)
(* verdict the test expects; what is counted then is that line, unless a   *)
(* call failed.                                                            *)
StagedInv ==
    /\ at \in Staging \cup {"sibling"} => store = Prepared(case)
    /\ at \in {"thaw", "await", "judge"} /\ hit =>
       \/ /\ request = "loaded"
          /\ base = Prepared(case)
          /\ store = SiblingOf(case, base)
       \/ /\ request = case.status
          /\ LinesOf(attempt) = {[session |-> attempt, verdict |-> case.verdict]}
    /\ at = "judge" /\ hit => conflicts = 1 \/ faults > 0
    /\ at \in {"unwind", "fail", "thrown"} /\ hit => faults > 0

LEMMA StatusIsAnswer ==
  ASSUME TypeOK
  PROVE  case.status \in {"200", "500"}
  BY RaceIsExpected DEF TypeOK

(* After a real race, with no grep failing, the assertions of the test     *)
(* hold.                                                                   *)
LEMMA RealRacePasses ==
  ASSUME TypeOK, PhaseInv, LinesInv, StagedInv, at = "judge", hit, conflicts = 1
  PROVE  AsExpected({})
<1>1. /\ request = case.status
      /\ LinesOf(attempt) = {[session |-> attempt, verdict |-> case.verdict]}
  BY DEF StagedInv, PhaseInv, InFlight
<1> DEFINE line == [session |-> attempt, verdict |-> case.verdict]
<1>2. {l \in LinesOf(attempt) : Expected(l)} = {line}
  BY <1>1 DEF Expected
<1>3. {l \in LinesOf(attempt) : FailsRequest(l)}
        = IF case.verdict # "swallowed" THEN {line} ELSE {}
  BY <1>1 DEF FailsRequest
<1>4. case.status = IF case.verdict = "swallowed" THEN "200" ELSE "500"
  BY RaceIsExpected DEF TypeOK
<1>5. Cardinality({line}) = 1 /\ Cardinality({}) = 0
  BY FS_Singleton, FS_EmptySet
<1> HIDE DEF line
<1> QED
  BY <1>1, <1>2, <1>3, <1>4, <1>5 DEF AsExpected, Count

LEMMA JudgedRight ==
  ASSUME TypeOK, PhaseInv, LinesInv, StagedInv, Judge, hit, at' = "fail"
  PROVE  faults' > 0
<1>1. PICK failed \in SUBSET {"expect", "fatal"} :
         /\ Failing(failed)
         /\ at' = IF AsExpected(failed) THEN "ok" ELSE "fail"
  BY DEF Judge
<1>2. CASE failed # {} \/ faults > 0
  BY <1>1, <1>2, FailingType, FiniteCalls
<1>3. CASE failed = {} /\ ~(faults > 0)
  <2>1. conflicts = 1
    BY <1>3 DEF Judge, StagedInv
  <2> QED
    BY <1>1, <1>3, <2>1, RealRacePasses DEF Judge
<1> QED
  BY <1>2, <1>3

LEMMA StagedStep ==
  TypeOK /\ PhaseInv /\ LinesInv /\ StagedInv /\ [Next]_vars => StagedInv'
<1> SUFFICES ASSUME TypeOK, PhaseInv, LinesInv, StagedInv, [Next]_vars
             PROVE  StagedInv'
  OBVIOUS
<1> USE DEF StagedInv, Staging
<1>1. CASE Create
  BY <1>1 DEF Create, Prepared
<1>2. CASE Warm \/ Freeze \/ Fire
  <2>1. UNCHANGED <<case, store>> /\ at' \in Staging \cup {"sibling"}
        /\ at \in Staging
    BY <1>2 DEF Warm, Freeze, Fire, appVars
  <2> QED
    BY <2>1
<1>3. CASE SiblingWrite
  <2>1. /\ UNCHANGED <<case, request, base>> /\ at' = "thaw"
        /\ hit' = (request = "loaded")
        /\ store' = SiblingOf(case, store) /\ store = Prepared(case)
    BY <1>3 DEF SiblingWrite, Written, SiblingOf, appVars
  <2>2. hit' => request = "loaded" /\ base = store
    BY <1>3, <2>1 DEF SiblingWrite, PhaseInv
  <2> QED
    BY <2>1, <2>2
<1>4. CASE Thaw \/ Unwind
  BY <1>4 DEF Thaw, Unwind, LinesOf, appVars, counts
<1>5. CASE AwaitResponse
  <2>1. UNCHANGED <<case, attempt, log, hit, store, base, request>>
        /\ at = "await" /\ at' = "judge" /\ Answered
    BY <1>5 DEF AwaitResponse, appVars
  <2>2. ASSUME hit PROVE conflicts' = 1 \/ faults' > 0
    <3>1. LinesOf(attempt) # {}
      BY <2>1, <2>2 DEF Answered
    <3>2. Cardinality(LinesOf(attempt)) = 1
      BY <3>1, CountOfLines DEF LinesInv
    <3>3. PICK failed \in SUBSET {"conflict"} :
             /\ Failing(failed)
             /\ conflicts' = Count(LinesOf(attempt), failed # {})
      BY <1>5 DEF AwaitResponse
    <3> QED
      BY <3>2, <3>3, FailingType, FiniteCalls DEF Count
  <2> QED
    BY <2>1, <2>2 DEF LinesOf, Answered
<1>6. CASE Retry \/ Judge
  BY <1>6, JudgedRight DEF Retry, Judge
<1>7. CASE HealthCheck \/ HealthAnswered \/ CacheExpires
  BY <1>7 DEF HealthCheck, HealthAnswered, CacheExpires, LinesOf, testVars, counts
<1>8. CASE Serve
  <2>1. UNCHANGED <<case, at, attempt, store, hit, log, conflicts, faults>>
        /\ request = "sent"
    BY <1>8 DEF Serve, testVars, counts
  <2>2. ~(at \in {"thaw", "await", "judge"} /\ hit)
    BY <2>1, StatusIsAnswer
  <2> QED
    BY <2>1, <2>2
<1>9. CASE Commit
  <2>1. /\ at \in {"thaw", "await", "unwind", "fail", "thrown"}
        /\ UNCHANGED <<case, at, attempt, hit, faults>> /\ request = "loaded"
    BY <1>9, CommitLogs DEF Commit, TypeOK, Staging, counts
  <2>2. ASSUME hit, at \in {"thaw", "await"}
        PROVE  /\ request' = case.status
               /\ LinesOf(attempt)' = {[session |-> attempt, verdict |-> case.verdict]}
    <3>1. base = Prepared(case) /\ store = SiblingOf(case, base)
      BY <2>1, <2>2, StatusIsAnswer
    <3>2. store # base
          /\ Verdict(base, Handled("read", base, "minted", 0), store) = case.verdict
          /\ case.status = IF case.verdict = "swallowed" THEN "200" ELSE "500"
      BY <3>1, RaceIsExpected DEF TypeOK
    <3>3. request' = case.status
          /\ log' = log \cup {[session |-> attempt, verdict |-> case.verdict]}
      BY <1>9, <3>2, CommitLogs
    <3>4. LinesOf(attempt) = {}
      BY <2>1 DEF LinesInv, InFlight
    <3> QED
      BY <2>1, <3>3, <3>4 DEF LinesOf
  <2> QED
    BY <2>1, <2>2
<1>10. CASE NeighbourConflict
  <2>1. /\ UNCHANGED <<case, at, attempt, store, hit, request, base, conflicts, faults>>
        /\ \E l : l.session = 0 /\ log' = log \cup {l}
    BY <1>10 DEF NeighbourConflict, Neighbour, testVars, counts
  <2>2. LinesOf(attempt)' = LinesOf(attempt)
    BY <2>1 DEF TypeOK, LinesOf
  <2> QED
    BY <2>1, <2>2
<1>11. CASE UNCHANGED vars
  BY <1>11 DEF vars, LinesOf
<1>12. CASE TestFails
  <2>1. at' \in {"unwind", "fail", "thrown"} /\ faults' > 0
    BY <1>12, TestFailsFacts
  <2> QED
    BY <2>1
<1> QED
  BY <1>1, <1>2, <1>3, <1>4, <1>5, <1>6, <1>7, <1>8, <1>9, <1>10, <1>11, <1>12
     DEF Next, TestStep, AppStep, Environment

(* With the classification the webapps are meant to have, an attempt that  *)
(* staged a real race is not repeated and does not fail the test, unless a *)
(* call failed.                                                            *)
THEOREM NoFalseAlarm == Spec => OnlyMissesRepeatOrFail
<1>1. Init => StagedInv
  BY DEF Init, StagedInv, Staging
<1>2. ASSUME TypeOK, PhaseInv, LinesInv, StagedInv, [Next]_vars,
             attempt' # attempt \/ at' \in {"fail", "thrown"}, hit, vars' # vars
      PROVE  faults' > 0
  <2>1. CASE Retry
    BY <1>2, <2>1 DEF Retry, StagedInv, counts
  <2>2. CASE Judge
    BY <1>2, <2>2, JudgedRight DEF Judge
  <2>3. CASE TestFails
    BY <1>2, <2>3, TestFailsFacts
  <2>4. CASE ~Retry /\ ~Judge /\ ~TestFails
    <3>1. attempt' = attempt
      BY <1>2, <2>4 DEF Next, TestStep, AppStep, Environment, Create, Warm,
         Freeze, Fire, SiblingWrite, Thaw, Unwind, AwaitResponse, HealthCheck,
         HealthAnswered, CacheExpires, Serve, Commit, NeighbourConflict, testVars
    <3>2. at' \in {"fail", "thrown"} => at \in {"unwind", "fail", "thrown"}
      BY <1>2, <2>4 DEF Next, TestStep, AppStep, Environment, Create, Warm,
         Freeze, Fire, SiblingWrite, Thaw, Unwind, AwaitResponse, HealthCheck,
         HealthAnswered, CacheExpires, Serve, Commit, NeighbourConflict, testVars
    <3>3. faults' = faults \/ AwaitResponse
      BY <1>2, <2>4 DEF Next, TestStep, AppStep, Environment, Create, Warm,
         Freeze, Fire, SiblingWrite, Thaw, Unwind, HealthCheck, HealthAnswered,
         CacheExpires, Serve, Commit, NeighbourConflict, testVars, counts, vars
    <3> QED
      BY <1>2, <3>1, <3>2, <3>3 DEF StagedInv, AwaitResponse
  <2> QED
    BY <2>1, <2>2, <2>3, <2>4
<1>3. TypeOK /\ PhaseInv /\ LinesInv /\ StagedInv /\ [Next]_vars =>
        [(attempt' # attempt \/ at' \in {"fail", "thrown"}) => ~hit \/ faults' > 0]_vars
  BY <1>2
<1> QED
  BY <1>1, <1>3, Inductive, StagedStep, PTL DEF Spec, OnlyMissesRepeatOrFail
==============================================================================
