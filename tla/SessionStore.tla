---------------------------- MODULE SessionStore -----------------------------
(***************************************************************************)
(* One session key in Redis and everybody who writes it: webapp requests   *)
(* (load, work on a copy, commit at the end) and invocations of            *)
(* scripts/session_probe.py, the suite's sibling writer, which uses the    *)
(* same load and commit.  A commit goes through only when the stored       *)
(* session is still the one that was loaded; otherwise it is a conflict.   *)
(* Each actor acts once; a request of the model is one HTTP request.       *)
(***************************************************************************)
EXTENDS SessionData

CONSTANTS Requests, Probes

Actors == Requests \cup Probes

Contents == Requests \cup {"user", "en", "minted", "true", "sv", "stored",
                           "rotated"}
Values == Contents \cup {Absent}
Sessions == [gen : Nat, data : [Paths -> Values]]

ASSUME ActorsAssumption ==
    /\ Requests \cap Probes = {}
    /\ Absent \notin Contents
    /\ Gone \notin Sessions

(* What parallel requests write beside each other is not fatal (the test   *)
(* "parallel requests across webapps"), and no two tokens are the same.    *)
ASSUME ParallelAssumption ==
    /\ "trivia" \notin FatalOtherWriter
    /\ "minted" \notin Requests

VARIABLES
    store,      \* the stored session, or Gone
    expiring,   \* its ttl has been cut short
    fresh,      \* generation markers from here on are unused
    state,      \* where each actor is, for a request also its answer
    base,       \* the session each actor loaded
    mine        \* what it wants to store

vars == <<store, expiring, fresh, state, base, mine>>

Init ==
    /\ store = NewSession
    /\ expiring = FALSE
    /\ fresh = 1
    /\ state = [a \in Actors |-> "idle"]
    /\ base = [a \in Actors |-> NewSession]
    /\ mine = [a \in Actors |-> NewSession]

Becomes(a, s) == state' = [state EXCEPT ![a] = s]

(* Actor a has loaded the stored session and wants to store s instead. *)
Load(a, s) ==
    /\ base' = [base EXCEPT ![a] = store]
    /\ mine' = [mine EXCEPT ![a] = s]
    /\ Becomes(a, "loaded")

------------------------------------------------------------------------------
(* Webapp requests *)

(* A request finds a login and is worked on; the logout gets a new marker. *)
HandleRequest(r, view) ==
    /\ state[r] = "idle"
    /\ LoggedIn(store)
    /\ Load(r, Handled(view, store, r, fresh))
    /\ fresh' = IF view = "logout" THEN fresh + 1 ELSE fresh
    /\ UNCHANGED <<store, expiring>>

(* No login, or no session any more: 401, and nothing is committed. *)
DenyRequest(r) ==
    /\ state[r] = "idle"
    /\ ~LoggedIn(store)
    /\ Becomes(r, "denied")
    /\ UNCHANGED <<store, expiring, fresh, base, mine>>

(* Mutant of CommitRequest: stores without comparing, last writer wins. *)
CommitRequest_Blind(r) ==
    /\ state[r] = "loaded"
    /\ store' = mine[r]
    /\ expiring' = FALSE
    /\ Becomes(r, "ok")
    /\ UNCHANGED <<fresh, base, mine>>

(* Mutant of CommitRequest: compares the markers only, not the contents. *)
CommitRequest_ByMarker(r) ==
    /\ state[r] = "loaded"
    /\ IF store # Gone /\ store.gen = base[r].gen
       THEN store' = mine[r] /\ expiring' = FALSE /\ Becomes(r, "ok")
       ELSE Becomes(r, "failed") /\ UNCHANGED <<store, expiring>>
    /\ UNCHANGED <<fresh, base, mine>>

(* The commit at the end of the request, which also renews the ttl.  One   *)
(* that lost is answered 500, unless nothing lost matters.                 *)
CommitRequest(r) ==
    /\ state[r] = "loaded"
    /\ \/ /\ store = base[r]
          /\ store' = mine[r]
          /\ expiring' = FALSE
          /\ Becomes(r, "ok")
       \/ /\ store # base[r]
          /\ Becomes(r, IF Verdict(base[r], mine[r], store) = "swallowed"
                        THEN "ok" ELSE "failed")
          /\ UNCHANGED <<store, expiring>>
    /\ UNCHANGED <<fresh, base, mine>>

------------------------------------------------------------------------------
(* Invocations of the probe *)

(* Mutant of LoadProbe: the check of _load for a missing session is gone,  *)
(* and the command makes a session of its own.                             *)
LoadProbe_MakesOne(p, cmd) ==
    /\ state[p] = "idle"
    /\ LET s == IF store = Gone THEN NewSession ELSE store
       IN  /\ Applicable(cmd, s)
           /\ Load(p, Rewritten(cmd, s, fresh))
    /\ fresh' = IF cmd \in {"regen", "reset"} THEN fresh + 1 ELSE fresh
    /\ UNCHANGED <<store, expiring>>

(* _rewrite, first half: load and mutate.  A missing session or path is    *)
(* reported as an error and nothing is written.                            *)
LoadProbe(p, cmd) ==
    /\ state[p] = "idle"
    /\ IF store # Gone /\ Applicable(cmd, store)
       THEN /\ Load(p, Rewritten(cmd, store, fresh))
            /\ fresh' = IF cmd \in {"regen", "reset"} THEN fresh + 1 ELSE fresh
       ELSE /\ Becomes(p, "error")
            /\ UNCHANGED <<base, mine, fresh>>
    /\ UNCHANGED <<store, expiring>>

(* Mutant of CommitProbe: stores without comparing. *)
CommitProbe_Blind(p) ==
    /\ state[p] = "loaded"
    /\ store' = mine[p]
    /\ expiring' = FALSE
    /\ Becomes(p, "done")
    /\ UNCHANGED <<fresh, base, mine>>

(* _rewrite, second half: sess.commit(), which raises when it lost. *)
CommitProbe(p) ==
    /\ state[p] = "loaded"
    /\ IF store = base[p]
       THEN store' = mine[p] /\ expiring' = FALSE /\ Becomes(p, "done")
       ELSE Becomes(p, "error") /\ UNCHANGED <<store, expiring>>
    /\ UNCHANGED <<fresh, base, mine>>

(* cmd_delete *)
DeleteKey(p) ==
    /\ state[p] = "idle"
    /\ store' = Gone
    /\ expiring' = FALSE
    /\ Becomes(p, "done")
    /\ UNCHANGED <<fresh, base, mine>>

(* cmd_expire, on a key that exists. *)
ExpireKey(p) ==
    /\ state[p] = "idle"
    /\ expiring' = (store # Gone)
    /\ Becomes(p, "done")
    /\ UNCHANGED <<store, fresh, base, mine>>

(* Redis drops the key when the ttl has run out. *)
TtlRunsOut ==
    /\ expiring
    /\ store' = Gone
    /\ expiring' = FALSE
    /\ UNCHANGED <<fresh, state, base, mine>>

RequestStep(r) ==
    \/ \E view \in Views : HandleRequest(r, view)
    \/ DenyRequest(r)
    \/ CommitRequest(r)

ProbeStep(p) ==
    \/ \E cmd \in Rewrites : LoadProbe(p, cmd)
    \/ CommitProbe(p)
    \/ DeleteKey(p)
    \/ ExpireKey(p)

Next ==
    \/ \E r \in Requests : RequestStep(r)
    \/ \E p \in Probes : ProbeStep(p)
    \/ TtlRunsOut

Spec == Init /\ [][Next]_vars

------------------------------------------------------------------------------
States == {"idle", "loaded", "ok", "failed", "denied", "done", "error"}

TypeOK ==
    /\ store \in Sessions \cup {Gone}
    /\ expiring \in BOOLEAN
    /\ fresh \in Nat
    /\ state \in [Actors -> States]
    /\ base \in [Actors -> Sessions]
    /\ mine \in [Actors -> Sessions]

(* "a logout during a request storm cannot bring the login state back":    *)
(* no request, probe or ttl renewal gives a session its login again.       *)
LoginStaysGone == [][LoggedIn(store') => LoggedIn(store)]_vars

(* A request that loaded the session before a logout, an expiry or a new   *)
(* marker is not answered as if nothing had happened.                      *)
AnswerIsForThisLogin ==
    [][\A r \in Requests :
          state[r] = "loaded" /\ state'[r] = "ok" =>
              LoggedIn(store) /\ store.gen = base[r].gen]_vars

(* "A lost write must be detected": what an answered request, or a probe   *)
(* command that is done, wrote is still in the session, or was overwritten *)
(* by somebody who had loaded it; paths on the safe-to-lose list apart.    *)
Written(a) ==
    IF state[a] \in {"ok", "done"}
    THEN Changed(base[a], mine[a]) \ SafeToLose ELSE {}

NoWriteIsLostUnseen ==
    store # Gone =>
        \A a \in Actors : \A p \in Written(a) :
            \/ store.data[p] = mine[a].data[p]
            \/ \E b \in Actors \ {a} :
                  p \in Written(b) /\ base[b].data[p] = mine[a].data[p]

(* Nobody has logged out, and at most a probe has taken the csrf token out *)
(* of the session, as the test of parallel first requests does.            *)
Undisturbed ==
    /\ fresh = 1
    /\ store # Gone
    /\ \A p \in Probes : state[p] = "done" =>
          base[p] = NewSession /\ mine[p] = DelPath(NewSession, "csrf")

SinceTheProbes(r) ==
    ~Has(base[r], "csrf") \/ \A p \in Probes : state[p] # "done"

(* "parallel requests across webapps keep the session consistent": then a  *)
(* request is failed only when it had something of its own to store, and   *)
(* one that lost a first csrf token (the known gap) lost it to another     *)
(* request that was answered, whose token the session has, with the login. *)
ReadersSurvive ==
    Undisturbed =>
        \A r \in Requests : state[r] = "failed" /\ SinceTheProbes(r) =>
            /\ mine[r] # base[r]
            /\ "csrf" \in Changed(base[r], mine[r]) =>
                  /\ LoggedIn(store)
                  /\ \E w \in Requests \ {r} :
                        state[w] = "ok" /\ store.data["csrf"] = w

(* Optimistic commits of whole sessions amount to atomic updates.          *)
Atomic == INSTANCE AtomicSession WITH Tokens <- Requests
ImplementsAtomic == Atomic!Spec
==============================================================================
