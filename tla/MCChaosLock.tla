----------------------------- MODULE MCChaosLock -----------------------------
(* Instances of ChaosLock for TLC: three runs started at any time.         *)
EXTENDS ChaosLock

CONSTANTS r1, r2, r3

ThreeRunSet == {r1, r2, r3}

==============================================================================
