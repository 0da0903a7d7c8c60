----------------------------- MODULE MCSuiteRuns -----------------------------
(* Instances of SuiteRuns for TLC: a developer with two checkouts, the     *)
(* path of one of them going on where that of the other ends; one run is   *)
(* started inside its checkout, the other one elsewhere.                   *)
EXTENDS SuiteRuns

CONSTANTS r1, r2, Unknown

TwoRunSet == {r1, r2}

Home == <<"/src/eduid-developer">>
Second == <<"/src/eduid-developer", "-2">>
Elsewhere == <<"/tmp">>

CheckoutOf == [r \in TwoRunSet |-> IF r = r1 THEN Home ELSE Second]
CwdOf == [r \in TwoRunSet |-> IF r = r1 THEN Home ELSE Elsewhere]
AllStacks == {Home, Second, Unknown}
==============================================================================
