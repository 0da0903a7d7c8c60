---------------------------- MODULE MCRaceStaging ----------------------------
(* Instances of RaceStaging for TLC. *)
EXTENDS RaceStaging

Safe == {"trivia"}
Fatal == {"aborted"}
==============================================================================
