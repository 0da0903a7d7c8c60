--------------------------- MODULE MCScimBootstrap ---------------------------
(* Instances of ScimBootstrap for TLC. *)
EXTENDS ScimBootstrap

CONSTANTS a1, a2, a3, d1, anna, bo

Two == {a1, a2}
Three == {a1, a2, a3}
ThreeAndDelete == Three \cup {d1}
PeopleSet == {anna, bo}

(* Two runs for the same person, one for another, and one that deletes.    *)
Who == [r \in ThreeAndDelete |-> IF r = a3 THEN bo ELSE anna]
WhoTwo == [r \in Two |-> IF r = a1 THEN anna ELSE bo]
==============================================================================
