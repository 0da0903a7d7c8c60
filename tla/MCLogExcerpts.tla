---------------------------- MODULE MCLogExcerpts ----------------------------
(* Instances of LogExcerpts for TLC. *)
EXTENDS LogExcerpts
==============================================================================
