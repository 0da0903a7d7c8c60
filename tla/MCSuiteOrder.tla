---------------------------- MODULE MCSuiteOrder ----------------------------
(* SuiteOrder with the command lines a developer would try: everything, a  *)
(* section, one test, none, all but the logout, with and without freezing, *)
(* with an account of one's own and with that account's password forgotten.*)
EXTENDS SuiteOrder

Section == {"readiness", "path-lists", "race", "first-requests", "storm"}
MCSelections == {Names, {}, Section, Names \ Section, Names \ {"log-out"}}
                \union {{t} : t \in {"log-in", "renews-ttl", "first-requests", "log-out",
                                     "password-again", "log-in-again"}}

MCChoices ==
  {[picked |-> p, list |-> FALSE, chaos |-> TRUE, email |-> None, password |-> FALSE] :
     p \in MCSelections}
  \union {[picked |-> Names, list |-> FALSE, chaos |-> FALSE, email |-> 0, password |-> w] :
     w \in BOOLEAN}
  \union {[picked |-> Names, list |-> TRUE, chaos |-> TRUE, email |-> None, password |-> FALSE]}

(* Two things out of the ordinary, failing calls and other runs together.  *)
TwoAtMost == troubles + others <= 2
=============================================================================
