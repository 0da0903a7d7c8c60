----------------------------- MODULE FreezeMutex -----------------------------
(***************************************************************************)
(* What the MongoDB-freeze lock promises: at any time at most one run is   *)
(* between taking the lock and giving it up.  A run that dies gives it up. *)
(***************************************************************************)
EXTENDS FiniteSets

CONSTANT Runs          \* the runs of the session suite, one process each

VARIABLE holders       \* the runs that are entitled to freeze MongoDB

Init == holders = {}

Take(r) == holders = {} /\ holders' = {r}

Leave(r) == r \in holders /\ holders' = holders \ {r}

Next == \E r \in Runs : Take(r) \/ Leave(r)

Spec == Init /\ [][Next]_holders

==============================================================================
