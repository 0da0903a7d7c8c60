----------------------------- MODULE SessionData -----------------------------
(***************************************************************************)
(* One eduID session as the suite and the probe see it: the dotted paths   *)
(* the tests touch, the generation marker, what scripts/session_probe.py   *)
(* does to them, and the verdict the webapps give a commit that lost to    *)
(* another writer.  The webapps (eduid-backend) are not in this            *)
(* repository: their part is modelled from what the suite drives and       *)
(* asserts, and is marked external in the map.                             *)
(***************************************************************************)
EXTENDS Naturals

CONSTANTS Absent,             \* the value of a path that is not in the session
          Gone,               \* no such key in Redis
          SafeToLose,         \* session_safe_to_lose_paths
          FatalOtherWriter    \* session_fatal_other_writer_paths

(* "pending" is idp.pending_requests.<id>, "aborted" the flag inside it;   *)
(* "trivia" stands for whatever else the webapps keep in the session.      *)
Paths == {"eppn", "language", "csrf", "pending", "aborted", "trivia"}

(* The namespace session.common. *)
CommonPaths == {"eppn", "language"}

(* What the test of the two path lists insists on. *)
AuthState == {"eppn", "csrf"}

ASSUME PathListsAssumption ==
    /\ SafeToLose \subseteq Paths \ AuthState
    /\ FatalOtherWriter \subseteq Paths
    /\ "aborted" \in FatalOtherWriter

Has(s, p) == s.data[p] # Absent

LoggedIn(s) == s # Gone /\ Has(s, "eppn")

Changed(s, t) == {p \in Paths : s.data[p] # t.data[p]}

------------------------------------------------------------------------------
(* scripts/session_probe.py *)

(* cmd_create: a login, a language, a csrf token. *)
NewSession ==
    [gen  |-> 0,
     data |-> [p \in Paths |->
                 CASE p = "eppn" -> "user"
                   [] p = "language" -> "en"
                   [] p = "csrf" -> "minted"
                   [] OTHER -> Absent]]

SetPath(s, p, v) == [s EXCEPT !.data[p] = v]

DelPath(s, p) == SetPath(s, p, Absent)

(* cmd_setns with null: the whole namespace goes. *)
DropCommon(s) ==
    [s EXCEPT !.data = [p \in Paths |-> IF p \in CommonPaths THEN Absent
                                        ELSE s.data[p]]]

(* reset_generation: a marker g never used before. *)
Regen(s, g) == [s EXCEPT !.gen = g]

(* EduidSession.reset(keep_csrf=True): nothing but the token is kept. *)
ResetLikeTheApp(s, g) ==
    [gen  |-> g,
     data |-> [p \in Paths |-> IF p = "csrf" THEN s.data[p] ELSE Absent]]

(* The rewriting commands, as the suite calls them. *)
Rewrites == {"abort", "language", "prepare", "dropCsrf", "rotateCsrf",
             "dropCommon", "regen", "reset"}

(* _del_path and cmd_setns raise KeyError on what is not there.            *)
Applicable(cmd, s) ==
    /\ cmd = "dropCsrf" => Has(s, "csrf")
    /\ cmd = "dropCommon" => \E p \in CommonPaths : Has(s, p)

Rewritten(cmd, s, g) ==
    CASE cmd = "abort"      -> SetPath(s, "aborted", "true")
      [] cmd = "language"   -> SetPath(s, "language", "sv")
      [] cmd = "prepare"    -> SetPath(s, "pending", "stored")
      [] cmd = "dropCsrf"   -> DelPath(s, "csrf")
      [] cmd = "rotateCsrf" -> SetPath(s, "csrf", "rotated")
      [] cmd = "dropCommon" -> DropCommon(s)
      [] cmd = "regen"      -> Regen(s, g)
      [] cmd = "reset"      -> ResetLikeTheApp(s, g)

------------------------------------------------------------------------------
(* The webapps *)

(* What a request makes of the session it loaded: a view that only reads,  *)
(* one that writes a path of its own, or the logout.  The response         *)
(* marshalling writes a csrf token when there is none.                     *)
Views == {"read", "write", "logout"}

Handled(view, s, token, g) ==
    LET viewed == CASE view = "read"   -> s
                    [] view = "write"  -> SetPath(s, "trivia", token)
                    [] view = "logout" -> ResetLikeTheApp(s, g)
    IN  IF Has(viewed, "csrf") THEN viewed ELSE SetPath(viewed, "csrf", token)

(* Mutants of Verdict: no generation guard; the removed paths looked at    *)
(* first; paths that came taken for paths that went.                       *)
Verdict_NoGeneration(base, mine, other) ==
    IF other = Gone THEN "generation"
    ELSE IF \E p \in Paths : Has(base, p) /\ ~Has(other, p) THEN "cleared"
    ELSE IF Changed(base, other) \cap FatalOtherWriter # {} THEN "fatalPath"
    ELSE IF ~(Changed(base, mine) \subseteq SafeToLose) THEN "notSafe"
    ELSE "swallowed"

Verdict_ClearedFirst(base, mine, other) ==
    IF other = Gone THEN "generation"
    ELSE IF \E p \in Paths : Has(base, p) /\ ~Has(other, p) THEN "cleared"
    ELSE IF other.gen # base.gen THEN "generation"
    ELSE IF Changed(base, other) \cap FatalOtherWriter # {} THEN "fatalPath"
    ELSE IF ~(Changed(base, mine) \subseteq SafeToLose) THEN "notSafe"
    ELSE "swallowed"

Verdict_AddedIsCleared(base, mine, other) ==
    IF other = Gone \/ other.gen # base.gen THEN "generation"
    ELSE IF \E p \in Paths : Has(other, p) /\ ~Has(base, p) THEN "cleared"
    ELSE IF Changed(base, other) \cap FatalOtherWriter # {} THEN "fatalPath"
    ELSE IF ~(Changed(base, mine) \subseteq SafeToLose) THEN "notSafe"
    ELSE "swallowed"

(* The classification of a lost commit, first match first: base is what    *)
(* the request loaded, mine what it wanted to store, other what is stored. *)
Verdict(base, mine, other) ==
    IF other = Gone \/ other.gen # base.gen THEN "generation"
    ELSE IF \E p \in Paths : Has(base, p) /\ ~Has(other, p) THEN "cleared"
    ELSE IF Changed(base, other) \cap FatalOtherWriter # {} THEN "fatalPath"
    ELSE IF ~(Changed(base, mine) \subseteq SafeToLose) THEN "notSafe"
    ELSE "swallowed"
==============================================================================
