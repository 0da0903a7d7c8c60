----------------------------- MODULE MCCreatePki -----------------------------
(* Instances of CreatePki for TLC. *)
EXTENDS CreatePki

TwoNames == <<"bankid", "dashboard">>
ThreeNames == <<"bankid", "dashboard", "eidas">>
==============================================================================
