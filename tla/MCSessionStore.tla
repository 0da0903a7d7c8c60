---------------------------- MODULE MCSessionStore ----------------------------
(* Instances of SessionStore for TLC. *)
EXTENDS SessionStore

CONSTANTS q1, q2, p1, p2

RequestSet == {q1, q2}
ProbeSet == {p1, p2}

(* One path a webapp may lose; the flag the test of the lists asks for. *)
Safe == {"trivia"}
Fatal == {"aborted"}
==============================================================================
