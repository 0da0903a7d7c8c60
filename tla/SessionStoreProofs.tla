-------------------------- MODULE SessionStoreProofs --------------------------
(***************************************************************************)
(* What every writer of a session can rely on, proved for any number of    *)
(* requests and probe invocations, any lists of paths within               *)
(* PathListsAssumption.                                                    *)
(*                                                                         *)
(* The argument rests on what a loaded copy is: an actor that has loaded   *)
(* keeps the session it found, and what it wants to store is one view or   *)
(* one command applied to exactly that session (LoadedInv).  A commit that *)
(* goes through finds the same session in the store.                       *)
(***************************************************************************)
EXTENDS SessionStore, TLAPS

------------------------------------------------------------------------------
(* What the operators on sessions return *)

(* The values and paths are what the sessions are made of. *)
LEMMA NewSessionType == NewSession \in Sessions
  BY DEF NewSession, Sessions, Values, Contents

LEMMA SetPathType ==
  ASSUME NEW s \in Sessions, NEW p \in Paths, NEW v \in Values
  PROVE  /\ SetPath(s, p, v) \in Sessions
         /\ SetPath(s, p, v).gen = s.gen
         /\ SetPath(s, p, v).data[p] = v
         /\ \A q \in Paths : q # p => SetPath(s, p, v).data[q] = s.data[q]
  BY DEF SetPath, Sessions

LEMMA ResetType ==
  ASSUME NEW s \in Sessions, NEW g \in Nat
  PROVE  /\ ResetLikeTheApp(s, g) \in Sessions
         /\ ResetLikeTheApp(s, g).gen = g
         /\ ~Has(ResetLikeTheApp(s, g), "eppn")
  BY DEF ResetLikeTheApp, Sessions, Values, Has, Paths

(* A view makes a session of a session; it sets the marker it was given,   *)
(* or none.                                                                *)
LEMMA HandledType ==
  ASSUME NEW s \in Sessions, NEW view \in Views, NEW r \in Requests,
         NEW g \in Nat
  PROVE  /\ Handled(view, s, r, g) \in Sessions
         /\ Handled(view, s, r, g)
              = Handled(view, s, r, Handled(view, s, r, g).gen)
<1> DEFINE v(h) == CASE view = "read"   -> s
                     [] view = "write"  -> SetPath(s, "trivia", r)
                     [] view = "logout" -> ResetLikeTheApp(s, h)
           marshalled(t) == IF Has(t, "csrf") THEN t ELSE SetPath(t, "csrf", r)
<1>1. r \in Values /\ "trivia" \in Paths /\ "csrf" \in Paths
  BY DEF Values, Contents, Paths
<1>2. \A h : Handled(view, s, r, h) = marshalled(v(h))
  BY DEF Handled
<1>3. v(g) \in Sessions
  BY <1>1, SetPathType, ResetType DEF Views
<1>4. \A t \in Sessions : marshalled(t) \in Sessions /\ marshalled(t).gen = t.gen
  BY <1>1, SetPathType
<1>5. v(g) = v(marshalled(v(g)).gen)
  <2>1. CASE view = "logout"
    BY <2>1, <1>3, <1>4, ResetType
  <2>2. CASE view # "logout"
    BY <2>2 DEF Views
  <2> QED
    BY <2>1, <2>2
<1> QED
  BY <1>2, <1>3, <1>4, <1>5

(* The same for the probe's commands, none of which logs anybody in.       *)
LEMMA RewrittenType ==
  ASSUME NEW s \in Sessions, NEW cmd \in Rewrites, NEW g \in Nat
  PROVE  /\ Rewritten(cmd, s, g) \in Sessions
         /\ Rewritten(cmd, s, g)
              = Rewritten(cmd, s, Rewritten(cmd, s, g).gen)
         /\ Has(Rewritten(cmd, s, g), "eppn") => Has(s, "eppn")
<1> DEFINE R(h) == Rewritten(cmd, s, h)
<1>1. ASSUME NEW p \in Paths \ {"eppn"}, NEW v \in Values,
             \A h : R(h) = SetPath(s, p, v)
      PROVE  /\ R(g) \in Sessions
             /\ R(g) = R(R(g).gen)
             /\ Has(R(g), "eppn") => Has(s, "eppn")
  <2>1. "eppn" \in Paths
    BY DEF Paths
  <2> QED
    BY <1>1, <2>1, SetPathType DEF Has
<1>2. CASE cmd = "abort"
  <2>1. "aborted" \in Paths \ {"eppn"} /\ "true" \in Values
    BY DEF Paths, Values, Contents
  <2>2. \A h : R(h) = SetPath(s, "aborted", "true")
    BY <1>2 DEF Rewritten
  <2> QED
    BY <1>1, <2>1, <2>2
<1>3. CASE cmd = "language"
  <2>1. "language" \in Paths \ {"eppn"} /\ "sv" \in Values
    BY DEF Paths, Values, Contents
  <2>2. \A h : R(h) = SetPath(s, "language", "sv")
    BY <1>3 DEF Rewritten
  <2> QED
    BY <1>1, <2>1, <2>2
<1>4. CASE cmd = "prepare"
  <2>1. "pending" \in Paths \ {"eppn"} /\ "stored" \in Values
    BY DEF Paths, Values, Contents
  <2>2. \A h : R(h) = SetPath(s, "pending", "stored")
    BY <1>4 DEF Rewritten
  <2> QED
    BY <1>1, <2>1, <2>2
<1>5. CASE cmd = "dropCsrf"
  <2>1. "csrf" \in Paths \ {"eppn"} /\ Absent \in Values
    BY DEF Paths, Values
  <2>2. \A h : R(h) = SetPath(s, "csrf", Absent)
    BY <1>5 DEF Rewritten, DelPath
  <2> QED
    BY <1>1, <2>1, <2>2
<1>6. CASE cmd = "rotateCsrf"
  <2>1. "csrf" \in Paths \ {"eppn"} /\ "rotated" \in Values
    BY DEF Paths, Values, Contents
  <2>2. \A h : R(h) = SetPath(s, "csrf", "rotated")
    BY <1>6 DEF Rewritten
  <2> QED
    BY <1>1, <2>1, <2>2
<1>7. CASE cmd = "dropCommon"
  <2>1. \A h : R(h) = DropCommon(s)
    BY <1>7 DEF Rewritten
  <2>2. DropCommon(s) \in Sessions
    BY DEF DropCommon, Sessions, Values
  <2>3. ~Has(DropCommon(s), "eppn")
    BY DEF DropCommon, Has, CommonPaths, Paths, Sessions
  <2> QED
    BY <2>1, <2>2, <2>3
<1>8. CASE cmd = "regen"
  <2>1. \A h : R(h) = Regen(s, h)
    BY <1>8 DEF Rewritten
  <2>2. /\ Regen(s, g) \in Sessions
        /\ Regen(s, g).gen = g
        /\ Regen(s, g).data = s.data
    BY DEF Regen, Sessions
  <2> QED
    BY <2>1, <2>2 DEF Has
<1>9. CASE cmd = "reset"
  <2>1. \A h : R(h) = ResetLikeTheApp(s, h)
    BY <1>9 DEF Rewritten
  <2> QED
    BY <2>1, ResetType
<1> QED
  BY <1>2, <1>3, <1>4, <1>5, <1>6, <1>7, <1>8, <1>9 DEF Rewrites

(* A lost commit is swallowed only when the stored session is still of the *)
(* same login, nothing is gone from it, no fatal path has changed, and     *)
(* what was lost is on the list.                                           *)
LEMMA Swallowed ==
  ASSUME NEW b, NEW m, NEW other, Verdict(b, m, other) = "swallowed"
  PROVE  /\ other # Gone
         /\ other.gen = b.gen
         /\ \A p \in Paths : Has(b, p) => Has(other, p)
         /\ Changed(b, other) \cap FatalOtherWriter = {}
         /\ Changed(b, m) \subseteq SafeToLose
  BY DEF Verdict

------------------------------------------------------------------------------
(* What a loaded copy is *)

LoadedInv ==
    /\ \A r \in Requests : state[r] = "loaded" =>
          /\ LoggedIn(base[r])
          /\ \E view \in Views : mine[r] = Handled(view, base[r], r, mine[r].gen)
    /\ \A p \in Probes : state[p] = "loaded" =>
          \E cmd \in Rewrites :
              /\ Applicable(cmd, base[p])
              /\ mine[p] = Rewritten(cmd, base[p], mine[p].gen)

(* Every step of Next is one of the actions. *)
LEMMA NextIsActions ==
  Next <=> \/ \E r \in Requests, view \in Views : HandleRequest(r, view)
           \/ \E r \in Requests : DenyRequest(r) \/ CommitRequest(r)
           \/ \E p \in Probes, cmd \in Rewrites : LoadProbe(p, cmd)
           \/ \E p \in Probes : CommitProbe(p) \/ DeleteKey(p) \/ ExpireKey(p)
           \/ TtlRunsOut
  BY DEF Next, RequestStep, ProbeStep

(* The variables keep their types. *)
THEOREM TypeCorrect == Spec => []TypeOK
<1>1. Init => TypeOK
  <2> SUFFICES ASSUME Init PROVE TypeOK
    OBVIOUS
  <2>1. store \in Sessions \cup {Gone}
    BY NewSessionType DEF Init
  <2>2. expiring \in BOOLEAN
    BY DEF Init
  <2>3. fresh \in Nat
    BY DEF Init
  <2>4. state \in [Actors -> States]
    BY DEF Init, States
  <2>5. base \in [Actors -> Sessions] /\ mine \in [Actors -> Sessions]
    BY NewSessionType DEF Init
  <2> QED
    BY <2>1, <2>2, <2>3, <2>4, <2>5 DEF TypeOK
<1>2. TypeOK /\ [Next]_vars => TypeOK'
  <2> SUFFICES ASSUME TypeOK, [Next]_vars PROVE TypeOK'
    OBVIOUS
  <2> USE DEF TypeOK, States, Becomes
  <2>1. ASSUME NEW r \in Requests, NEW view \in Views, HandleRequest(r, view)
        PROVE  TypeOK'
    <3>1. store \in Sessions
      BY <2>1 DEF HandleRequest, LoggedIn
    <3>2. Handled(view, store, r, fresh) \in Sessions
      BY <3>1, HandledType
    <3>3. /\ base' \in [Actors -> Sessions]
          /\ mine' \in [Actors -> Sessions]
          /\ state' \in [Actors -> States]
      BY <2>1, <3>1, <3>2 DEF HandleRequest, Load
    <3>4. fresh' \in Nat
      BY <2>1 DEF HandleRequest
    <3> QED
      BY <2>1, <3>3, <3>4 DEF HandleRequest
  <2>2. ASSUME NEW r \in Requests, DenyRequest(r) PROVE TypeOK'
    BY <2>2 DEF DenyRequest
  <2>3. ASSUME NEW r \in Requests, CommitRequest(r) PROVE TypeOK'
    <3>1. state' \in [Actors -> States]
      BY <2>3 DEF CommitRequest
    <3>2. store' \in Sessions \cup {Gone}
      BY <2>3 DEF CommitRequest, Actors
    <3>3. expiring' \in BOOLEAN
      BY <2>3 DEF CommitRequest
    <3> QED
      BY <2>3, <3>1, <3>2, <3>3 DEF CommitRequest
  <2>4. ASSUME NEW p \in Probes, NEW cmd \in Rewrites, LoadProbe(p, cmd)
        PROVE  TypeOK'
    <3>1. CASE store # Gone /\ Applicable(cmd, store)
      <4>1. Rewritten(cmd, store, fresh) \in Sessions
        BY <3>1, RewrittenType
      <4> QED
        BY <2>4, <3>1, <4>1 DEF LoadProbe, Load
    <3>2. CASE ~(store # Gone /\ Applicable(cmd, store))
      BY <2>4, <3>2 DEF LoadProbe
    <3> QED
      BY <3>1, <3>2
  <2>5. ASSUME NEW p \in Probes, CommitProbe(p) \/ DeleteKey(p) \/ ExpireKey(p)
        PROVE  TypeOK'
    BY <2>5 DEF CommitProbe, DeleteKey, ExpireKey, Actors
  <2>6. CASE TtlRunsOut
    BY <2>6 DEF TtlRunsOut
  <2>7. CASE UNCHANGED vars
    BY <2>7 DEF vars
  <2> QED
    BY <2>1, <2>2, <2>3, <2>4, <2>5, <2>6, <2>7, NextIsActions
<1> QED
  BY <1>1, <1>2, PTL DEF Spec

LEMMA LoadedStep == TypeOK /\ LoadedInv /\ [Next]_vars => LoadedInv'
<1> SUFFICES ASSUME TypeOK, LoadedInv, [Next]_vars PROVE LoadedInv'
  OBVIOUS
<1> USE DEF TypeOK, LoadedInv, Becomes, Actors
<1>1. ASSUME NEW r \in Requests, NEW view \in Views, HandleRequest(r, view)
      PROVE  LoadedInv'
  <2>1. store \in Sessions /\ LoggedIn(store)
    BY <1>1 DEF HandleRequest, LoggedIn
  <2>2. /\ base'[r] = store
        /\ mine'[r] = Handled(view, store, r, fresh)
        /\ \A a \in Actors \ {r} :
              state'[a] = state[a] /\ base'[a] = base[a] /\ mine'[a] = mine[a]
    BY <1>1 DEF HandleRequest, Load
  <2>3. mine'[r] = Handled(view, base'[r], r, mine'[r].gen)
    BY <2>1, <2>2, HandledType
  <2>4. \A p \in Probes : p # r
    BY ActorsAssumption
  <2> QED
    BY <2>1, <2>2, <2>3, <2>4
<1>2. ASSUME NEW p \in Probes, NEW cmd \in Rewrites, LoadProbe(p, cmd)
      PROVE  LoadedInv'
  <2>1. CASE store # Gone /\ Applicable(cmd, store)
    <3>1. /\ base'[p] = store
          /\ mine'[p] = Rewritten(cmd, store, fresh)
          /\ \A a \in Actors \ {p} :
                state'[a] = state[a] /\ base'[a] = base[a] /\ mine'[a] = mine[a]
      BY <1>2, <2>1 DEF LoadProbe, Load
    <3>2. mine'[p] = Rewritten(cmd, base'[p], mine'[p].gen)
      BY <2>1, <3>1, RewrittenType
    <3>3. \A r \in Requests : r # p
      BY ActorsAssumption
    <3> QED
      BY <2>1, <3>1, <3>2, <3>3
  <2>2. CASE ~(store # Gone /\ Applicable(cmd, store))
    BY <1>2, <2>2 DEF LoadProbe
  <2> QED
    BY <2>1, <2>2
<1>3. ASSUME NEW r \in Requests, DenyRequest(r) \/ CommitRequest(r)
      PROVE  LoadedInv'
  BY <1>3 DEF DenyRequest, CommitRequest
<1>4. ASSUME NEW p \in Probes, CommitProbe(p) \/ DeleteKey(p) \/ ExpireKey(p)
      PROVE  LoadedInv'
  BY <1>4 DEF CommitProbe, DeleteKey, ExpireKey
<1>5. CASE TtlRunsOut
  BY <1>5 DEF TtlRunsOut
<1>6. CASE UNCHANGED vars
  BY <1>6 DEF vars
<1> QED
  BY <1>1, <1>2, <1>3, <1>4, <1>5, <1>6, NextIsActions

LEMMA Inductive == Spec => [](TypeOK /\ LoadedInv)
<1>1. Init => LoadedInv
  BY DEF Init, LoadedInv, Actors
<1> QED
  BY <1>1, LoadedStep, TypeCorrect, PTL DEF Spec

------------------------------------------------------------------------------
(* What a step can do to the stored session *)

(* The store changes by one view, one command, or by the key's going.      *)
LEMMA StoreSteps ==
  ASSUME TypeOK, LoadedInv, [Next]_vars, store' # store
  PROVE  \/ store' = Gone
         \/ /\ LoggedIn(store) /\ store \in Sessions /\ store' \in Sessions
            /\ \E r \in Requests, view \in Views :
                  store' = Handled(view, store, r, store'.gen)
         \/ /\ store \in Sessions /\ store' \in Sessions
            /\ \E cmd \in Rewrites :
                  /\ Applicable(cmd, store)
                  /\ store' = Rewritten(cmd, store, store'.gen)
<1> USE DEF TypeOK, LoadedInv, Actors
<1>1. ASSUME NEW r \in Requests, CommitRequest(r)
      PROVE  /\ LoggedIn(store) /\ store \in Sessions /\ store' \in Sessions
             /\ \E view \in Views : store' = Handled(view, store, r, store'.gen)
  BY <1>1 DEF CommitRequest
<1>2. ASSUME NEW p \in Probes, CommitProbe(p)
      PROVE  /\ store \in Sessions /\ store' \in Sessions
             /\ \E cmd \in Rewrites :
                   /\ Applicable(cmd, store)
                   /\ store' = Rewritten(cmd, store, store'.gen)
  BY <1>2 DEF CommitProbe
<1>3. ASSUME NEW r \in Requests, NEW view \in Views PROVE ~HandleRequest(r, view)
  BY DEF HandleRequest
<1>4. ASSUME NEW r \in Requests PROVE ~DenyRequest(r)
  BY DEF DenyRequest
<1>5. ASSUME NEW p \in Probes, NEW cmd \in Rewrites PROVE ~LoadProbe(p, cmd)
  BY DEF LoadProbe
<1>6. ASSUME NEW p \in Probes, DeleteKey(p) \/ ExpireKey(p) \/ TtlRunsOut
      PROVE  store' = Gone
  BY <1>6 DEF DeleteKey, ExpireKey, TtlRunsOut
<1>7. TtlRunsOut => store' = Gone
  BY DEF TtlRunsOut
<1>8. ~ UNCHANGED vars
  BY DEF vars
<1> QED
  BY <1>1, <1>2, <1>3, <1>4, <1>5, <1>6, <1>7, <1>8, NextIsActions

(* No step of anybody gives a session its login again, for any number of   *)
(* requests and probes.                                                    *)
THEOREM NoLoginReturns == Spec => LoginStaysGone
<1>1. TypeOK /\ LoadedInv /\ [Next]_vars
        => [LoggedIn(store') => LoggedIn(store)]_vars
  <2> SUFFICES ASSUME TypeOK, LoadedInv, [Next]_vars, LoggedIn(store')
               PROVE  LoggedIn(store)
    OBVIOUS
  <2>1. CASE store' = store
    BY <2>1
  <2>2. CASE LoggedIn(store)
    BY <2>2
  <2>3. ASSUME NEW cmd \in Rewrites, store \in Sessions, store' \in Sessions,
               store' = Rewritten(cmd, store, store'.gen)
        PROVE  LoggedIn(store)
    <3>1. store'.gen \in Nat /\ store # Gone
      BY <2>3, ActorsAssumption DEF Sessions
    <3>2. Has(store', "eppn")
      BY DEF LoggedIn
    <3> QED
      BY <2>3, <3>1, <3>2, RewrittenType DEF LoggedIn
  <2>4. store' # Gone
    BY DEF LoggedIn
  <2> QED
    BY <2>1, <2>2, <2>3, <2>4, StoreSteps
<1> QED
  BY <1>1, Inductive, PTL DEF Spec, LoginStaysGone

------------------------------------------------------------------------------
(* What an answer says *)

(* A request that is answered has committed, or its lost commit was        *)
(* swallowed.                                                              *)
LEMMA Answering ==
  ASSUME TypeOK, LoadedInv, [Next]_vars, NEW r \in Requests,
         state[r] = "loaded", state'[r] = "ok"
  PROVE  /\ base[r] \in Sessions /\ mine[r] \in Sessions /\ LoggedIn(base[r])
         /\ \/ store = base[r] /\ store' = mine[r]
            \/ /\ Verdict(base[r], mine[r], store) = "swallowed"
               /\ store' = store
<1> USE DEF TypeOK, LoadedInv, Actors, Becomes
<1>1. CASE CommitRequest(r)
  BY <1>1 DEF CommitRequest
<1>2. ASSUME NEW q \in Requests, q # r, CommitRequest(q) PROVE FALSE
  BY <1>2 DEF CommitRequest
<1>3. ASSUME NEW q \in Requests, NEW view \in Views, HandleRequest(q, view)
      PROVE  FALSE
  BY <1>3 DEF HandleRequest, Load
<1>4. ASSUME NEW q \in Requests, DenyRequest(q) PROVE FALSE
  BY <1>4 DEF DenyRequest
<1>5. ASSUME NEW p \in Probes, NEW cmd \in Rewrites, LoadProbe(p, cmd)
      PROVE  FALSE
  BY <1>5 DEF LoadProbe, Load
<1>6. ASSUME NEW p \in Probes, CommitProbe(p) \/ DeleteKey(p) \/ ExpireKey(p)
      PROVE  FALSE
  BY <1>6 DEF CommitProbe, DeleteKey, ExpireKey
<1>7. ~TtlRunsOut /\ ~ UNCHANGED vars
  BY DEF TtlRunsOut, vars
<1> QED
  BY <1>1, <1>2, <1>3, <1>4, <1>5, <1>6, <1>7, NextIsActions

(* An answered request was answered for the login it had loaded.           *)
THEOREM AnswersAreForThisLogin == Spec => AnswerIsForThisLogin
<1>1. ASSUME TypeOK, LoadedInv, [Next]_vars, NEW r \in Requests,
             state[r] = "loaded", state'[r] = "ok"
      PROVE  LoggedIn(store) /\ store.gen = base[r].gen
  <2>1. "eppn" \in Paths
    BY DEF Paths
  <2>2. CASE store = base[r]
    BY <1>1, <2>2, Answering
  <2>3. CASE Verdict(base[r], mine[r], store) = "swallowed"
    BY <1>1, <2>1, <2>3, Answering, Swallowed DEF LoggedIn
  <2> QED
    BY <1>1, <2>2, <2>3, Answering
<1>2. TypeOK /\ LoadedInv /\ [Next]_vars =>
        [\A r \in Requests :
             state[r] = "loaded" /\ state'[r] = "ok" =>
                 LoggedIn(store) /\ store.gen = base[r].gen]_vars
  BY <1>1
<1> QED
  BY <1>2, Inductive, PTL DEF Spec, AnswerIsForThisLogin

(* An actor that has not loaded the session has changed nothing. *)
IdleInv == \A a \in Actors : state[a] = "idle" => base[a] = mine[a]

(* What an answered request or a finished command wrote is in the session, *)
(* or was overwritten by somebody who had loaded it.                       *)
THEOREM WritesAreNotLostUnseen == Spec => []NoWriteIsLostUnseen
<1> USE DEF TypeOK, Actors, Becomes
<1>1. Init => NoWriteIsLostUnseen /\ IdleInv
  BY DEF Init, NoWriteIsLostUnseen, IdleInv, Written
<1>2. TypeOK /\ NoWriteIsLostUnseen /\ IdleInv /\ [Next]_vars
        => NoWriteIsLostUnseen'
  <2> SUFFICES ASSUME TypeOK, NoWriteIsLostUnseen, IdleInv, [Next]_vars
               PROVE  NoWriteIsLostUnseen'
    OBVIOUS
  <2>1. ASSUME NEW a \in Actors, state[a] = "loaded", store = base[a],
               store' = mine[a], base' = base, mine' = mine,
               NEW s, state' = [state EXCEPT ![a] = s], s \in {"ok", "done"}
        PROVE  NoWriteIsLostUnseen'
    <3> SUFFICES ASSUME NEW c \in Actors, NEW p \in Written(c)'
                 PROVE  \/ store'.data[p] = mine[c].data[p]
                        \/ \E b \in Actors \ {c} :
                              p \in Written(b)' /\ base[b].data[p] = mine[c].data[p]
      BY <2>1 DEF NoWriteIsLostUnseen
    <3>1. CASE c = a
      BY <2>1, <3>1
    <3>2. CASE c # a /\ store.data[p] = mine[c].data[p]
      <4>1. state'[a] \in {"ok", "done"} /\ base[a].data[p] = mine[c].data[p]
        BY <2>1, <3>2
      <4>2. p \in Paths /\ p \notin SafeToLose
        BY <2>1 DEF Written, Changed
      <4>3. mine[a].data[p] # base[a].data[p] => p \in Written(a)'
        BY <2>1, <4>1, <4>2 DEF Written, Changed
      <4> QED
        BY <2>1, <3>2, <4>1, <4>3
    <3>3. CASE c # a /\ store.data[p] # mine[c].data[p]
      <4>1. p \in Written(c)
        BY <2>1, <3>3 DEF Written
      <4>2. store # Gone
        BY <2>1, ActorsAssumption
      <4>3. PICK b \in Actors \ {c} :
                   p \in Written(b) /\ base[b].data[p] = mine[c].data[p]
        BY <3>3, <4>1, <4>2 DEF NoWriteIsLostUnseen
      <4>4. b # a
        BY <2>1, <4>3 DEF Written
      <4>5. p \in Written(b)'
        BY <2>1, <4>3, <4>4 DEF Written
      <4> QED
        BY <4>3, <4>5
    <3> QED
      BY <3>1, <3>2, <3>3
  <2>2. ASSUME NEW a \in Actors, state[a] \notin {"ok", "done"},
               store' = store \/ store' = Gone,
               \A b \in Actors \ {a} : /\ state'[b] = state[b]
                                        /\ base'[b] = base[b]
                                        /\ mine'[b] = mine[b],
               Written(a)' = {}
        PROVE  NoWriteIsLostUnseen'
    <3>1. Written(a) = {}
      BY <2>2 DEF Written
    <3>2. \A b \in Actors \ {a} : Written(b)' = Written(b)
      BY <2>2 DEF Written
    <3> QED
      BY <2>2, <3>1, <3>2 DEF NoWriteIsLostUnseen
  <2>3. ASSUME NEW r \in Requests, NEW view \in Views, HandleRequest(r, view)
        PROVE  NoWriteIsLostUnseen'
    BY <2>3, <2>2 DEF HandleRequest, Load, Written
  <2>4. ASSUME NEW r \in Requests, DenyRequest(r) PROVE NoWriteIsLostUnseen'
    BY <2>4, <2>2 DEF DenyRequest, Written
  <2>5. ASSUME NEW r \in Requests, CommitRequest(r) PROVE NoWriteIsLostUnseen'
    <3>1. CASE store = base[r] /\ store' = mine[r] /\ state'[r] = "ok"
      BY <2>5, <3>1, <2>1 DEF CommitRequest
    <3>2. CASE store # base[r] /\ store' = store
      <4>1. Verdict(base[r], mine[r], store) = "swallowed"
              => Changed(base[r], mine[r]) \subseteq SafeToLose
        BY Swallowed
      <4>2. Written(r)' = {}
        BY <2>5, <3>2, <4>1 DEF CommitRequest, Written
      <4> QED
        BY <2>5, <2>2, <3>2, <4>2 DEF CommitRequest
    <3> QED
      BY <2>5, <3>1, <3>2 DEF CommitRequest
  <2>6. ASSUME NEW p \in Probes, NEW cmd \in Rewrites, LoadProbe(p, cmd)
        PROVE  NoWriteIsLostUnseen'
    BY <2>6, <2>2 DEF LoadProbe, Load, Written
  <2>7. ASSUME NEW p \in Probes, CommitProbe(p) PROVE NoWriteIsLostUnseen'
    <3>1. CASE store = base[p]
      BY <2>7, <3>1, <2>1 DEF CommitProbe
    <3>2. CASE store # base[p]
      BY <2>7, <3>2, <2>2 DEF CommitProbe, Written
    <3> QED
      BY <3>1, <3>2
  <2>8. ASSUME NEW p \in Probes, DeleteKey(p) \/ ExpireKey(p)
        PROVE  NoWriteIsLostUnseen'
    <3>1. base[p] = mine[p]
      BY <2>8 DEF IdleInv, DeleteKey, ExpireKey
    <3> QED
      BY <2>8, <2>2, <3>1 DEF DeleteKey, ExpireKey, Written, Changed
  <2>9. CASE TtlRunsOut
    BY <2>9 DEF TtlRunsOut, NoWriteIsLostUnseen
  <2>10. CASE UNCHANGED vars
    BY <2>10 DEF vars, NoWriteIsLostUnseen, Written
  <2> QED
    BY <2>3, <2>4, <2>5, <2>6, <2>7, <2>8, <2>9, <2>10, NextIsActions
<1>3. TypeOK /\ IdleInv /\ [Next]_vars => IdleInv'
  BY NextIsActions DEF IdleInv, vars, HandleRequest, DenyRequest,
     CommitRequest, LoadProbe, Load, CommitProbe, DeleteKey, ExpireKey,
     TtlRunsOut
<1> QED
  BY <1>1, <1>2, <1>3, TypeCorrect, PTL DEF Spec

------------------------------------------------------------------------------
(* The operators of SessionData, as AtomicSession sees them, are the same. *)
LEMMA SameOperators ==
  /\ Atomic!NewSession = NewSession
  /\ \A s : Atomic!LoggedIn(s) <=> LoggedIn(s)
  /\ \A view, s, t, g : Atomic!Handled(view, s, t, g) = Handled(view, s, t, g)
  /\ \A cmd, s : Atomic!Applicable(cmd, s) <=> Applicable(cmd, s)
  /\ \A cmd, s, g : Atomic!Rewritten(cmd, s, g) = Rewritten(cmd, s, g)
  /\ Atomic!Views = Views /\ Atomic!Rewrites = Rewrites
<1> USE DEF Atomic!Has, Has, Atomic!SetPath, SetPath,
        Atomic!ResetLikeTheApp, ResetLikeTheApp, Atomic!Paths, Paths,
        Atomic!CommonPaths, CommonPaths
<1>1. Atomic!NewSession = NewSession
  BY DEF Atomic!NewSession, NewSession
<1>2. \A s : Atomic!LoggedIn(s) <=> LoggedIn(s)
  BY DEF Atomic!LoggedIn, LoggedIn
<1>3. \A view, s, t, g : Atomic!Handled(view, s, t, g) = Handled(view, s, t, g)
  BY DEF Atomic!Handled, Handled
<1>4. \A cmd, s : Atomic!Applicable(cmd, s) <=> Applicable(cmd, s)
  BY DEF Atomic!Applicable, Applicable
<1>5. \A cmd, s, g : Atomic!Rewritten(cmd, s, g) = Rewritten(cmd, s, g)
  BY DEF Atomic!Rewritten, Rewritten, Atomic!DelPath, DelPath,
     Atomic!DropCommon, DropCommon, Atomic!Regen, Regen
<1>6. Atomic!Views = Views /\ Atomic!Rewrites = Rewrites
  BY DEF Atomic!Views, Views, Atomic!Rewrites, Rewrites
<1> QED
  BY <1>1, <1>2, <1>3, <1>4, <1>5, <1>6

(* Optimistic commits implement atomic updates: the abstract store is the  *)
(* stored session, and a commit is the view or command done in one step.   *)
THEOREM CommitsAreAtomic == Spec => ImplementsAtomic
<1>1. Init => Atomic!Init
  BY SameOperators DEF Init, Atomic!Init
<1>2. TypeOK /\ LoadedInv /\ [Next]_vars => [Atomic!Next]_store
  <2> SUFFICES ASSUME TypeOK, LoadedInv, [Next]_vars, store' # store
               PROVE  Atomic!Next
    OBVIOUS
  <2>1. CASE store' = Gone
    BY <2>1 DEF Atomic!Next, Atomic!Vanish
  <2>2. ASSUME LoggedIn(store), store' \in Sessions,
               NEW r \in Requests, NEW view \in Views,
               store' = Handled(view, store, r, store'.gen)
        PROVE  Atomic!Handle
    BY <2>2, SameOperators, ActorsAssumption DEF Atomic!Handle
  <2>3. ASSUME store \in Sessions, store' \in Sessions,
               NEW cmd \in Rewrites, Applicable(cmd, store),
               store' = Rewritten(cmd, store, store'.gen)
        PROVE  Atomic!Rewrite
    BY <2>3, SameOperators, ActorsAssumption DEF Atomic!Rewrite
  <2> QED
    BY <2>1, <2>2, <2>3, StoreSteps DEF Atomic!Next
<1> QED
  BY <1>1, <1>2, Inductive, PTL DEF Spec, ImplementsAtomic, Atomic!Spec
------------------------------------------------------------------------------
(* Requests beside each other *)

(* What a request that is neither a logout nor after one may have made of  *)
(* the session it loaded.                                                  *)
Ordinary == {"read", "write"}

(* What may have become of a session since request r loaded it: a path of  *)
(* the webapps and a first token have come, and a probe may have taken the *)
(* token away.                                                             *)
OnlyGrown(r) ==
    /\ Changed(base[r], store) \subseteq {"trivia", "csrf"}
    /\ Has(base[r], "trivia") => Has(store, "trivia")
    /\ Has(base[r], "csrf") =>
          store.data["csrf"] = base[r].data["csrf"]
              \/ \E p \in Probes : state[p] = "done"

(* Whoever commits to a session without a token leaves its own there, and  *)
(* it stays.                                                               *)
FirstTokenStays(r) ==
    ~Has(base[r], "csrf") =>
        (store = base[r] /\ state[r] # "failed")
            \/ \E w \in Requests : state[w] = "ok" /\ store.data["csrf"] = w

HadOwnToStore(r) ==
    state[r] = "failed" /\ SinceTheProbes(r) => mine[r] # base[r]

ParallelInv ==
    /\ LoggedIn(store) /\ store.gen = 0
    /\ \A r \in Requests :
          /\ base[r].gen = 0
          /\ state[r] \in {"loaded", "failed"} =>
                \E view \in Ordinary : mine[r] = Handled(view, base[r], r, 0)
          /\ OnlyGrown(r)
          /\ FirstTokenStays(r)
          /\ HadOwnToStore(r)

UndisturbedInv == fresh # 0 /\ (Undisturbed => ParallelInv)

(* An ordinary request keeps what is there, and adds its token and a path. *)
LEMMA OrdinaryView ==
  ASSUME NEW s \in Sessions, NEW view \in Ordinary, NEW r \in Requests, NEW g
  PROVE  LET h == Handled(view, s, r, g)
         IN  /\ h \in Sessions /\ h.gen = s.gen
             /\ h = Handled(view, s, r, 0)
             /\ \A p \in Paths \ {"trivia", "csrf"} : h.data[p] = s.data[p]
             /\ Has(s, "trivia") => Has(h, "trivia")
             /\ IF Has(s, "csrf") THEN h.data["csrf"] = s.data["csrf"]
                                  ELSE h.data["csrf"] = r
<1> DEFINE v == IF view = "read" THEN s ELSE SetPath(s, "trivia", r)
           m == IF Has(v, "csrf") THEN v ELSE SetPath(v, "csrf", r)
<1>1. r \in Values /\ r # Absent /\ {"trivia", "csrf"} \subseteq Paths
  BY ActorsAssumption DEF Values, Contents, Paths
<1>2. \A h : Handled(view, s, r, h) = m
  BY DEF Handled, Ordinary
<1>3. /\ v \in Sessions /\ v.gen = s.gen
      /\ \A p \in Paths \ {"trivia"} : v.data[p] = s.data[p]
      /\ Has(s, "trivia") => Has(v, "trivia")
  BY <1>1, SetPathType DEF Has
<1>4. /\ m \in Sessions /\ m.gen = v.gen
      /\ \A p \in Paths \ {"csrf"} : m.data[p] = v.data[p]
      /\ IF Has(v, "csrf") THEN m.data["csrf"] = v.data["csrf"]
                           ELSE m.data["csrf"] = r
  BY <1>1, <1>3, SetPathType
<1>5. Has(v, "csrf") <=> Has(s, "csrf")
  BY <1>1, <1>3 DEF Has
<1> HIDE DEF v, m
<1>6. Has(s, "trivia") => Has(m, "trivia")
  BY <1>1, <1>3, <1>4 DEF Has
<1> QED
  BY <1>1, <1>2, <1>3, <1>4, <1>5, <1>6

(* The new session, and the same without its token.                        *)
LEMMA TokenTaken ==
  /\ NewSession.data["csrf"] = "minted" /\ Has(NewSession, "csrf")
  /\ LoggedIn(NewSession) /\ NewSession.gen = 0
  /\ ~Has(NewSession, "trivia")
  /\ DelPath(NewSession, "csrf") \in Sessions
  /\ LoggedIn(DelPath(NewSession, "csrf"))
  /\ DelPath(NewSession, "csrf").gen = 0
  /\ \A p \in Paths \ {"csrf"} :
        DelPath(NewSession, "csrf").data[p] = NewSession.data[p]
<1>1. /\ Absent \in Values /\ "csrf" \in Paths /\ "eppn" \in Paths /\ "trivia" \in Paths
  BY DEF Values, Paths
<1>2. /\ NewSession.data["csrf"] = "minted" /\ NewSession.data["eppn"] = "user"
      /\ NewSession.data["trivia"] = Absent /\ NewSession.gen = 0
  BY DEF NewSession, Paths
<1>3. "minted" # Absent /\ "user" # Absent /\ NewSession # Gone
  BY ActorsAssumption, NewSessionType DEF Contents
<1>4. /\ DelPath(NewSession, "csrf") \in Sessions
      /\ DelPath(NewSession, "csrf").gen = NewSession.gen
      /\ \A p \in Paths \ {"csrf"} :
            DelPath(NewSession, "csrf").data[p] = NewSession.data[p]
  BY <1>1, NewSessionType, SetPathType DEF DelPath
<1>5. DelPath(NewSession, "csrf") # Gone
  BY <1>4, ActorsAssumption
<1> QED
  BY <1>1, <1>2, <1>3, <1>4, <1>5 DEF Has, LoggedIn

(* A session stays undisturbed until it is disturbed.                      *)
LEMMA UndisturbedBefore ==
  ASSUME TypeOK, LoadedInv, [Next]_vars, fresh # 0, Undisturbed'
  PROVE  Undisturbed
<1> USE DEF TypeOK, Becomes, Actors
<1>1. fresh' >= fresh
  BY NextIsActions DEF HandleRequest, DenyRequest, CommitRequest, LoadProbe,
     CommitProbe, DeleteKey, ExpireKey, TtlRunsOut, vars
<1>2. store # Gone
  BY StoreSteps, ActorsAssumption DEF Undisturbed, LoggedIn
<1>3. ASSUME NEW p \in Probes, state[p] = "done"
      PROVE  state'[p] = "done" /\ base'[p] = base[p] /\ mine'[p] = mine[p]
  <2>1. ASSUME NEW r \in Requests, NEW view \in Views, HandleRequest(r, view)
        PROVE  state'[p] = "done" /\ base'[p] = base[p] /\ mine'[p] = mine[p]
    BY <1>3, <2>1 DEF HandleRequest, Load
  <2>2. ASSUME NEW r \in Requests, DenyRequest(r) \/ CommitRequest(r)
        PROVE  state'[p] = "done" /\ base'[p] = base[p] /\ mine'[p] = mine[p]
    BY <1>3, <2>2 DEF DenyRequest, CommitRequest
  <2>3. ASSUME NEW q \in Probes, NEW cmd \in Rewrites, LoadProbe(q, cmd)
        PROVE  state'[p] = "done" /\ base'[p] = base[p] /\ mine'[p] = mine[p]
    BY <1>3, <2>3 DEF LoadProbe, Load
  <2>4. ASSUME NEW q \in Probes, CommitProbe(q) \/ DeleteKey(q) \/ ExpireKey(q)
        PROVE  state'[p] = "done" /\ base'[p] = base[p] /\ mine'[p] = mine[p]
    BY <1>3, <2>4 DEF CommitProbe, DeleteKey, ExpireKey
  <2>5. CASE TtlRunsOut \/ UNCHANGED vars
    BY <1>3, <2>5 DEF TtlRunsOut, vars
  <2> QED
    BY <2>1, <2>2, <2>3, <2>4, <2>5, NextIsActions
<1> QED
  BY <1>1, <1>2, <1>3 DEF Undisturbed

(* A step that touches neither the stored session nor a request's copies.  *)
LEMMA NothingOfRequests ==
  ASSUME TypeOK, ParallelInv, UNCHANGED store,
         \A r \in Requests :
            base'[r] = base[r] /\ mine'[r] = mine[r] /\ state'[r] = state[r],
         \A p \in Probes : state[p] = "done" => state'[p] = "done"
  PROVE  ParallelInv'
<1> USE DEF ParallelInv
<1>1. ASSUME NEW r \in Requests
      PROVE  OnlyGrown(r)' /\ FirstTokenStays(r)' /\ HadOwnToStore(r)'
  <2>1. OnlyGrown(r)'
    BY DEF OnlyGrown, Changed, Has
  <2>2. FirstTokenStays(r)'
    BY DEF FirstTokenStays, Has
  <2>3. HadOwnToStore(r)'
    BY DEF HadOwnToStore, SinceTheProbes, Has
  <2> QED
    BY <2>1, <2>2, <2>3
<1> QED
  BY <1>1 DEF LoggedIn, Has

(* An ordinary request commits: what the others loaded has only grown.     *)
LEMMA CommitGrows ==
  ASSUME TypeOK, ParallelInv, NEW w \in Requests, state[w] = "loaded",
         store = base[w], store' = mine[w], Becomes(w, "ok"),
         UNCHANGED <<base, mine>>
  PROVE  ParallelInv'
<1> USE DEF ParallelInv, TypeOK, Actors, Becomes
<1>1. PICK view \in Ordinary : store' = Handled(view, store, w, 0)
  OBVIOUS
<1>2. store \in Sessions /\ {"eppn", "trivia", "csrf"} \subseteq Paths
  BY DEF LoggedIn, Paths
<1>3. /\ store' \in Sessions /\ store'.gen = 0
      /\ \A p \in Paths \ {"trivia", "csrf"} : store'.data[p] = store.data[p]
      /\ Has(store, "trivia") => Has(store', "trivia")
      /\ IF Has(store, "csrf") THEN store'.data["csrf"] = store.data["csrf"]
                               ELSE store'.data["csrf"] = w
  BY <1>1, <1>2, OrdinaryView
<1>4. LoggedIn(store')
  BY <1>2, <1>3, ActorsAssumption DEF LoggedIn, Has
<1>5. \A r \in Requests : r # Absent
  BY ActorsAssumption DEF Contents
<1>6. \A a \in Actors : a # w => state'[a] = state[a]
  OBVIOUS
<1>7. w \notin Probes
  BY ActorsAssumption
<1>8. ASSUME NEW r \in Requests PROVE OnlyGrown(r)'
  <2>1. Changed(base[r], store') \subseteq {"trivia", "csrf"}
    BY <1>3 DEF OnlyGrown, Changed
  <2>2. Has(base[r], "trivia") => Has(store', "trivia")
    BY <1>3 DEF OnlyGrown
  <2>3. ASSUME Has(base[r], "csrf"), \A p \in Probes : state'[p] # "done"
        PROVE  store'.data["csrf"] = base[r].data["csrf"]
    <3>1. store.data["csrf"] = base[r].data["csrf"]
      BY <1>6, <1>7, <2>3 DEF OnlyGrown
    <3> QED
      BY <1>3, <2>3, <3>1 DEF Has
  <2> QED
    BY <2>1, <2>2, <2>3 DEF OnlyGrown
<1>9. ASSUME NEW r \in Requests PROVE FirstTokenStays(r)'
  <2> SUFFICES ASSUME ~Has(base[r], "csrf")
               PROVE  \E q \in Requests : state'[q] = "ok" /\ store'.data["csrf"] = q
    BY DEF FirstTokenStays
  <2>1. CASE store = base[r]
    BY <1>3, <2>1
  <2>2. ASSUME NEW q \in Requests, state[q] = "ok", store.data["csrf"] = q
        PROVE  state'[q] = "ok" /\ store'.data["csrf"] = q
    BY <1>3, <1>5, <2>2 DEF Has
  <2> QED
    BY <2>1, <2>2 DEF FirstTokenStays
<1>10. ASSUME NEW r \in Requests PROVE HadOwnToStore(r)'
  BY <1>6, <1>7 DEF HadOwnToStore, SinceTheProbes
<1> QED
  BY <1>3, <1>4, <1>8, <1>9, <1>10

(* A probe takes the first token away.                                     *)
LEMMA TakenAway ==
  ASSUME TypeOK, ParallelInv, NEW p \in Probes, state[p] = "loaded",
         store = NewSession, store' = DelPath(NewSession, "csrf"),
         Becomes(p, "done"), UNCHANGED <<base, mine>>
  PROVE  ParallelInv'
<1> USE DEF ParallelInv, TypeOK, Actors, Becomes
<1>1. /\ state'[p] = "done" /\ p \notin Requests
      /\ \A a \in Actors : a # p => state'[a] = state[a]
  BY ActorsAssumption
<1>2. LoggedIn(store') /\ store'.gen = 0
  BY TokenTaken
<1>3. ASSUME NEW r \in Requests PROVE OnlyGrown(r)'
  <2>1. Changed(base[r], store') \subseteq {"trivia", "csrf"}
    BY TokenTaken DEF OnlyGrown, Changed
  <2>2. ~Has(base[r], "trivia")
    BY TokenTaken DEF OnlyGrown
  <2> QED
    BY <1>1, <2>1, <2>2 DEF OnlyGrown
<1>4. ASSUME NEW r \in Requests PROVE FirstTokenStays(r)'
  <2>1. Has(base[r], "csrf")
    BY TokenTaken, ParallelAssumption DEF FirstTokenStays
  <2> QED
    BY <2>1 DEF FirstTokenStays
<1>5. ASSUME NEW r \in Requests PROVE HadOwnToStore(r)'
  BY <1>1 DEF HadOwnToStore, SinceTheProbes
<1> QED
  BY <1>1, <1>2, <1>3, <1>4, <1>5

(* A reader that finds only ordinary changes beside it is not failed.      *)
LEMMA ReaderSwallowed ==
  ASSUME TypeOK, ParallelInv, NEW r \in Requests, mine[r] = base[r],
         state[r] = "loaded", SinceTheProbes(r)
  PROVE  Verdict(base[r], mine[r], store) = "swallowed"
<1> USE DEF ParallelInv, TypeOK, Actors
<1>1. base[r] \in Sessions /\ {"trivia", "csrf"} \subseteq Paths
  BY DEF Paths
<1>2. Has(base[r], "csrf")
  <2>1. PICK view \in Ordinary : base[r] = Handled(view, base[r], r, 0)
    OBVIOUS
  <2>2. r # Absent
    BY ActorsAssumption DEF Contents
  <2> QED
    BY <1>1, <2>1, <2>2, OrdinaryView DEF Has
<1>3. store.data["csrf"] = base[r].data["csrf"]
  BY <1>2 DEF OnlyGrown, SinceTheProbes
<1>4. Changed(base[r], store) \subseteq {"trivia"}
  BY <1>3 DEF OnlyGrown, Changed
<1>5. \A p \in Paths : Has(base[r], p) => Has(store, p)
  BY <1>4 DEF OnlyGrown, Changed, Has
<1>6. Changed(base[r], store) \cap FatalOtherWriter = {}
  BY <1>4, ParallelAssumption
<1>7. Changed(base[r], mine[r]) = {}
  BY DEF Changed
<1>8. store # Gone /\ store.gen = base[r].gen
  BY DEF LoggedIn
<1> QED
  BY <1>5, <1>6, <1>7, <1>8 DEF Verdict

(* An ordinary request loads the session.                                  *)
LEMMA LoadsOrdinary ==
  ASSUME TypeOK, ParallelInv, NEW r \in Requests, NEW view \in Ordinary,
         state[r] = "idle", Load(r, Handled(view, store, r, fresh)), UNCHANGED store
  PROVE  ParallelInv'
<1> USE DEF ParallelInv, TypeOK, Actors, Becomes, Load
<1>1. store \in Sessions
  BY DEF LoggedIn
<1>2. /\ base'[r] = store /\ mine'[r] = Handled(view, store, r, 0)
      /\ state'[r] = "loaded" /\ r \notin Probes
      /\ \A a \in Actors \ {r} :
            base'[a] = base[a] /\ mine'[a] = mine[a] /\ state'[a] = state[a]
  BY <1>1, OrdinaryView, ActorsAssumption
<1>3. OnlyGrown(r)' /\ FirstTokenStays(r)' /\ HadOwnToStore(r)'
  BY <1>2 DEF OnlyGrown, Changed, FirstTokenStays, HadOwnToStore
<1>4. ASSUME NEW q \in Requests, q # r
      PROVE  OnlyGrown(q)' /\ FirstTokenStays(q)' /\ HadOwnToStore(q)'
  <2>1. OnlyGrown(q)'
    BY <1>2, <1>4 DEF OnlyGrown, Changed, Has
  <2>2. FirstTokenStays(q)'
    BY <1>2, <1>4 DEF FirstTokenStays, Has
  <2>3. HadOwnToStore(q)'
    BY <1>2, <1>4 DEF HadOwnToStore, SinceTheProbes, Has
  <2> QED
    BY <2>1, <2>2, <2>3
<1>5. LoggedIn(store)' /\ store'.gen = 0
  BY DEF LoggedIn, Has
<1>6. ASSUME NEW q \in Requests
      PROVE  /\ base'[q].gen = 0
             /\ state'[q] \in {"loaded", "failed"} =>
                   \E v \in Ordinary : mine'[q] = Handled(v, base'[q], q, 0)
  BY <1>2, <1>6
<1> QED
  BY <1>3, <1>4, <1>5, <1>6

(* Every step of an undisturbed session.                                   *)
LEMMA UndisturbedStep ==
  TypeOK /\ LoadedInv /\ UndisturbedInv /\ [Next]_vars => UndisturbedInv'
<1> SUFFICES ASSUME TypeOK, LoadedInv, UndisturbedInv, [Next]_vars
             PROVE  UndisturbedInv'
  OBVIOUS
<1> USE DEF TypeOK, Actors, Becomes
<1>1. fresh' # 0
  BY NextIsActions DEF UndisturbedInv, HandleRequest, DenyRequest, CommitRequest,
     LoadProbe, CommitProbe, DeleteKey, ExpireKey, TtlRunsOut, vars
<1> SUFFICES ASSUME Undisturbed' PROVE ParallelInv'
  BY <1>1 DEF UndisturbedInv
<1>2. ParallelInv /\ fresh = 1
  BY UndisturbedBefore DEF UndisturbedInv, Undisturbed
<1>3. fresh' = 1 /\ store' # Gone
  BY DEF Undisturbed
<1>4. ASSUME NEW r \in Requests, NEW view \in Views, HandleRequest(r, view)
      PROVE  ParallelInv'
  <2>1. view \in Ordinary
    BY <1>2, <1>3, <1>4 DEF HandleRequest, Views, Ordinary
  <2> QED
    BY <1>2, <1>4, <2>1, LoadsOrdinary DEF HandleRequest
<1>5. ASSUME NEW r \in Requests, DenyRequest(r) PROVE ParallelInv'
  BY <1>2, <1>5 DEF DenyRequest, ParallelInv
<1>6. ASSUME NEW r \in Requests, CommitRequest(r) PROVE ParallelInv'
  <2>1. CASE store = base[r]
    BY <1>2, <1>6, <2>1, CommitGrows DEF CommitRequest
  <2>2. CASE store # base[r]
    <3>1. /\ UNCHANGED <<store, base, mine>> /\ state[r] = "loaded"
          /\ state'[r] = IF Verdict(base[r], mine[r], store) = "swallowed"
                         THEN "ok" ELSE "failed"
          /\ r \notin Probes
          /\ \A a \in Actors \ {r} : state'[a] = state[a]
      BY <1>6, <2>2, ActorsAssumption DEF CommitRequest
    <3>2. ASSUME NEW q \in Requests
          PROVE  OnlyGrown(q)' /\ FirstTokenStays(q)'
      <4>1. OnlyGrown(q)'
        BY <1>2, <3>1 DEF ParallelInv, OnlyGrown
      <4>2. FirstTokenStays(q)'
        BY <1>2, <2>2, <3>1 DEF ParallelInv, FirstTokenStays
      <4> QED
        BY <4>1, <4>2
    <3>3. ASSUME NEW q \in Requests PROVE SinceTheProbes(q)' <=> SinceTheProbes(q)
      BY <3>1 DEF SinceTheProbes
    <3>4. ASSUME NEW q \in Requests PROVE HadOwnToStore(q)'
      <4>1. CASE q = r
        BY <1>2, <3>1, <3>3, <4>1, ReaderSwallowed DEF HadOwnToStore
      <4>2. CASE q # r
        BY <1>2, <3>1, <3>3, <4>2 DEF HadOwnToStore, ParallelInv
      <4> QED
        BY <4>1, <4>2
    <3> QED
      BY <1>2, <3>1, <3>2, <3>4 DEF ParallelInv
  <2> QED
    BY <2>1, <2>2
<1>7. ASSUME NEW p \in Probes, NEW cmd \in Rewrites, LoadProbe(p, cmd)
      PROVE  ParallelInv'
  BY <1>2, <1>7, NothingOfRequests, ActorsAssumption DEF LoadProbe, Load
<1>8. ASSUME NEW p \in Probes, CommitProbe(p) PROVE ParallelInv'
  <2>1. CASE store = base[p]
    <3>1. state[p] = "loaded" /\ state'[p] = "done" /\ UNCHANGED <<base, mine>>
      BY <1>8, <2>1 DEF CommitProbe
    <3>2. base[p] = NewSession /\ mine[p] = DelPath(NewSession, "csrf")
      BY <3>1 DEF Undisturbed
    <3> QED
      BY <1>2, <1>8, <2>1, <3>1, <3>2, TakenAway DEF CommitProbe
  <2>2. CASE store # base[p]
    BY <1>2, <1>8, <2>2, NothingOfRequests, ActorsAssumption DEF CommitProbe
  <2> QED
    BY <2>1, <2>2
<1>9. ASSUME NEW p \in Probes, ExpireKey(p) PROVE ParallelInv'
  BY <1>2, <1>9, NothingOfRequests, ActorsAssumption DEF ExpireKey
<1>10. ASSUME NEW p \in Probes, DeleteKey(p) PROVE FALSE
  BY <1>3, <1>10 DEF DeleteKey
<1>11. ~TtlRunsOut
  BY <1>3 DEF TtlRunsOut
<1>12. CASE UNCHANGED vars
  BY <1>2, <1>12, NothingOfRequests DEF vars
<1> QED
  BY <1>4, <1>5, <1>6, <1>7, <1>8, <1>9, <1>10, <1>11, <1>12, NextIsActions

(* Beside ordinary requests and one that takes the first token away, a     *)
(* request is failed only if it had something of its own to store, and one *)
(* whose first token is lost lost it to an answered request's.             *)
THEOREM ReadersAreSafe == Spec => []ReadersSurvive
<1>1. Init => UndisturbedInv
  <2> SUFFICES ASSUME Init PROVE fresh # 0 /\ ParallelInv
    BY DEF UndisturbedInv
  <2>1. ASSUME NEW r \in Requests
        PROVE  /\ base[r] = NewSession /\ state[r] = "idle"
               /\ OnlyGrown(r) /\ FirstTokenStays(r) /\ HadOwnToStore(r)
    BY DEF Init, Actors, OnlyGrown, Changed, FirstTokenStays, HadOwnToStore
  <2> QED
    BY <2>1, TokenTaken DEF Init, ParallelInv
<1>2. TypeOK /\ UndisturbedInv => ReadersSurvive
  <2> SUFFICES ASSUME TypeOK, ParallelInv, NEW r \in Requests,
                      state[r] = "failed", SinceTheProbes(r)
               PROVE  /\ mine[r] # base[r]
                      /\ "csrf" \in Changed(base[r], mine[r]) =>
                            /\ LoggedIn(store)
                            /\ \E w \in Requests \ {r} :
                                  state[w] = "ok" /\ store.data["csrf"] = w
    BY DEF UndisturbedInv, ReadersSurvive
  <2> USE DEF ParallelInv, TypeOK, Actors
  <2>1. mine[r] # base[r]
    BY DEF HadOwnToStore
  <2>2. ASSUME "csrf" \in Changed(base[r], mine[r])
        PROVE  \E w \in Requests \ {r} : state[w] = "ok" /\ store.data["csrf"] = w
    <3>1. ~Has(base[r], "csrf")
      BY <2>2, OrdinaryView DEF Changed
    <3> QED
      BY <3>1 DEF FirstTokenStays
  <2> QED
    BY <2>1, <2>2
<1> QED
  BY <1>1, <1>2, UndisturbedStep, Inductive, PTL DEF Spec
==============================================================================
