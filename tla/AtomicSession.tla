---------------------------- MODULE AtomicSession ----------------------------
(***************************************************************************)
(* What the session store promises to its writers: the stored session only *)
(* changes as if each writer had read it, worked on it and stored it in    *)
(* one step.  Nothing is written from a stale copy.                        *)
(***************************************************************************)
EXTENDS SessionData

CONSTANTS Tokens      \* what a request can put into the session

VARIABLE store

Init == store = NewSession

(* A request handled in one step, whatever generation marker it sets. *)
Handle ==
    /\ LoggedIn(store)
    /\ store' # Gone
    /\ \E view \in Views, token \in Tokens :
          store' = Handled(view, store, token, store'.gen)

(* A rewriting command of the probe done in one step. *)
Rewrite ==
    /\ store # Gone
    /\ store' # Gone
    /\ \E cmd \in Rewrites :
          Applicable(cmd, store) /\ store' = Rewritten(cmd, store, store'.gen)

(* Deleted, or expired. *)
Vanish == store' = Gone

Next == Handle \/ Rewrite \/ Vanish

Spec == Init /\ [][Next]_store
==============================================================================
