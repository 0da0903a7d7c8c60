-------------------------- MODULE MCAccountScripts ---------------------------
(* Instances of AccountScripts for TLC. *)
EXTENDS AccountScripts
==============================================================================
