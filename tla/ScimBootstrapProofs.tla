-------------------------- MODULE ScimBootstrapProofs --------------------------
(***************************************************************************)
(* Proofs about ScimBootstrap, for any number of runs, persons and failing *)
(* requests: type correctness, that no member of a group is lost, and that *)
(* an undisturbed run adds its user whatever others left half done.        *)
(***************************************************************************)
EXTENDS ScimBootstrap, TLAPS

------------------------------------------------------------------------------
(* Where a request leads, and what comes of the observers of the failures. *)
LEMMA GotoType ==
  ASSUME TypeOK, NEW r \in Runs, NEW place \in Places, Goto(r, place)
  PROVE  pc' \in [Runs -> Places]
  BY DEF TypeOK, Goto

LEMMA AnswerType ==
  ASSUME TypeOK, NEW r \in Runs, Answered \/ Fails(r)
  PROVE  faults' \in 0..MaxFaults /\ alone' \subseteq Runs
<1>1. faults' \in 0..MaxFaults
  <2>1. MaxFaults \in Nat
    BY ScimAssumption
  <2>2. faults \in 0..MaxFaults
    BY DEF TypeOK
  <2> QED
    BY <2>1, <2>2 DEF Answered, Fails
<1>2. alone' \subseteq Runs
  BY DEF TypeOK, Answered, Fails
<1> QED
  BY <1>1, <1>2

LEMMA SaidType ==
  ASSUME TypeOK, NEW r \in Runs, NEW what \in {"added", "not added"},
         Said(r, what)
  PROVE  /\ said' \in [Runs -> {"nothing", "added", "not added"}]
         /\ pc' \in [Runs -> Places]
<1>1. said' \in [Runs -> {"nothing", "added", "not added"}]
  BY DEF TypeOK, Said
<1>2. "done" \in Places
  BY DEF Places
<1> QED
  BY <1>1, <1>2, GotoType DEF Said

LEMMA PlacesGo ==
  /\ {"user", "createGroup", "get", "group", "put", "done"} \subseteq Places
  /\ \A r, found : AfterUser(r, found) \in Places
  BY DEF Places, AfterUser

(* The variables keep their types; every group id a run holds is that of a *)
(* group that exists.                                                      *)
THEOREM TypeCorrect == Spec => []TypeOK
<1>1. Init => TypeOK
  <2> SUFFICES ASSUME Init PROVE TypeOK
    OBVIOUS
  <2>1. /\ users \in [Runs -> People \cup {None}] /\ groups \subseteq Runs
        /\ members \in [Runs -> SUBSET Runs] /\ version \in [Runs -> Nat]
        /\ pc \in [Runs -> Places]
    BY DEF Init, Places
  <2>2. /\ userId \in [Runs -> Runs \cup {None}]
        /\ groupId \in [Runs -> groups \cup {None}]
        /\ copy \in [Runs -> Resources]
        /\ said \in [Runs -> {"nothing", "added", "not added"}]
    BY DEF Init, Resources
  <2>3. faults \in 0..MaxFaults /\ alone \subseteq Runs
    BY ScimAssumption DEF Init
  <2> QED
    BY <2>1, <2>2, <2>3 DEF TypeOK
<1>2. TypeOK /\ [Next]_vars => TypeOK'
  <2> SUFFICES ASSUME TypeOK, [Next]_vars PROVE TypeOK'
    OBVIOUS
  <2>1. ASSUME NEW r \in Runs, Start(r) PROVE TypeOK'
    <3>1. pc' \in [Runs -> Places] /\ alone' \subseteq Runs
      BY <2>1, GotoType, PlacesGo DEF Start, TypeOK
    <3> QED
      BY <2>1, <3>1 DEF Start, server, TypeOK
  <2>2. ASSUME NEW r \in Runs, SearchUser(r) PROVE TypeOK'
    <3>1. PICK found \in Runs \cup {None} :
             /\ Answered \/ Fails(r)
             /\ userId' = [userId EXCEPT ![r] = found]
             /\ Goto(r, AfterUser(r, found))
      BY <2>2 DEF SearchUser, Known
    <3>2. pc' \in [Runs -> Places]
      BY <3>1, GotoType, PlacesGo
    <3>3. userId' \in [Runs -> Runs \cup {None}]
      BY <3>1 DEF TypeOK
    <3>4. faults' \in 0..MaxFaults /\ alone' \subseteq Runs
      BY <3>1, AnswerType
    <3> QED
      BY <2>2, <3>2, <3>3, <3>4 DEF SearchUser, server, TypeOK
  <2>3. ASSUME NEW r \in Runs, CreateUser(r) PROVE TypeOK'
    <3>1. users' \in {users, [users EXCEPT ![r] = Person[r]]}
          /\ userId' \in {userId, [userId EXCEPT ![r] = r]}
          /\ (Answered \/ Fails(r)) /\ Goto(r, "group")
      BY <2>3 DEF CreateUser
    <3>2. users' \in [Runs -> People \cup {None}]
          /\ userId' \in [Runs -> Runs \cup {None}]
      <4>1. Person[r] \in People
        BY ScimAssumption
      <4> QED
        BY <3>1, <4>1 DEF TypeOK
    <3>3. pc' \in [Runs -> Places]
      BY <3>1, GotoType, PlacesGo
    <3>4. faults' \in 0..MaxFaults /\ alone' \subseteq Runs
      BY <3>1, AnswerType
    <3> QED
      BY <2>3, <3>2, <3>3, <3>4 DEF CreateUser, TypeOK
  <2>4. ASSUME NEW r \in Runs, DeleteUser(r) PROVE TypeOK'
    <3>1. users' \in [Runs -> People \cup {None}]
      BY <2>4 DEF DeleteUser, TypeOK
    <3>2. pc' \in [Runs -> Places]
      BY <2>4, GotoType, PlacesGo DEF DeleteUser
    <3> QED
      BY <2>4, <3>1, <3>2 DEF DeleteUser, TypeOK
  <2>5. ASSUME NEW r \in Runs, SearchGroup(r) PROVE TypeOK'
    <3>1. PICK found \in groups \cup {None} :
             /\ Answered \/ Fails(r)
             /\ groupId' = [groupId EXCEPT ![r] = found]
             /\ Goto(r, IF found = None THEN "createGroup" ELSE "get")
      BY <2>5 DEF SearchGroup
    <3>2. pc' \in [Runs -> Places]
      BY <3>1, GotoType, PlacesGo
    <3>3. groupId' \in [Runs -> groups \cup {None}]
      BY <3>1 DEF TypeOK
    <3>4. faults' \in 0..MaxFaults /\ alone' \subseteq Runs
      BY <3>1, AnswerType
    <3> QED
      BY <2>5, <3>2, <3>3, <3>4 DEF SearchGroup, server, TypeOK
  <2>6. ASSUME NEW r \in Runs, CreateGroup(r) PROVE TypeOK'
    <3>1. \/ groups' = groups \cup {r} /\ groupId' = [groupId EXCEPT ![r] = r]
          \/ groups' \in {groups, groups \cup {r}} /\ groupId' = groupId
      BY <2>6 DEF CreateGroup
    <3>2. groups' \subseteq Runs /\ groupId' \in [Runs -> groups' \cup {None}]
      BY <3>1 DEF TypeOK
    <3>3. pc' \in [Runs -> Places]
      BY <2>6, GotoType, PlacesGo DEF CreateGroup
    <3>4. faults' \in 0..MaxFaults /\ alone' \subseteq Runs
      BY <2>6, AnswerType DEF CreateGroup
    <3> QED
      BY <2>6, <3>2, <3>3, <3>4 DEF CreateGroup, TypeOK
  <2>7. ASSUME NEW r \in Runs, GetGroup(r) PROVE TypeOK'
    <3>1. /\ UNCHANGED <<users, groups, members, version, userId, groupId>>
          /\ Answered \/ Fails(r)
      BY <2>7 DEF GetGroup, server
    <3>2. CASE Said(r, "not added") /\ UNCHANGED copy
      BY <3>1, <3>2, SaidType, AnswerType DEF TypeOK
    <3>3. CASE /\ groupId[r] # None /\ userId[r] # None
               /\ copy' = [copy EXCEPT ![r] =
                             [members |-> members[groupId[r]] \cup {userId[r]},
                              version |-> version[groupId[r]]]]
               /\ Goto(r, "put") /\ UNCHANGED said
      <4>1. groupId[r] \in Runs /\ userId[r] \in Runs
        BY <3>3 DEF TypeOK
      <4>2. copy' \in [Runs -> Resources]
        BY <3>3, <4>1 DEF TypeOK, Resources
      <4> QED
        BY <3>1, <3>3, <4>2, GotoType, PlacesGo, AnswerType DEF TypeOK
    <3> QED
      BY <2>7, <3>2, <3>3 DEF GetGroup
  <2>8. ASSUME NEW r \in Runs, PutGroup(r) PROVE TypeOK'
    <3>1. /\ UNCHANGED <<users, groups, userId, groupId, copy>>
          /\ Said(r, "added")
          /\ Answered \/ Fails(r)
          /\ Replace(r) \/ UNCHANGED <<members, version>>
      BY <2>8 DEF PutGroup
    <3>2. members' \in [Runs -> SUBSET Runs] /\ version' \in [Runs -> Nat]
      <4>1. copy[r] \in Resources /\ version \in [Runs -> Nat]
            /\ members \in [Runs -> SUBSET Runs]
        BY DEF TypeOK
      <4>2. copy[r].members \subseteq Runs
        BY <4>1 DEF Resources
      <4> QED
        BY <3>1, <4>1, <4>2 DEF Replace
    <3> QED
      BY <3>1, <3>2, SaidType, AnswerType DEF TypeOK
  <2>9. ASSUME NEW r \in Runs, Interrupt(r) PROVE TypeOK'
    <3>1. pc' \in [Runs -> Places]
      BY <2>9, GotoType, PlacesGo DEF Interrupt
    <3> QED
      BY <2>9, <3>1 DEF Interrupt, server, TypeOK
  <2>10. CASE UNCHANGED vars
    BY <2>10 DEF vars, TypeOK
  <2> QED
    BY <2>1, <2>2, <2>3, <2>4, <2>5, <2>6, <2>7, <2>8, <2>9, <2>10
       DEF Next, Step
<1> QED
  BY <1>1, <1>2, PTL DEF Spec

------------------------------------------------------------------------------
(* A run that is about to put holds a copy of a group that exists, read at *)
(* a version the group has had; as long as the version is the same the     *)
(* group has no member that is not in the copy.                            *)
PutInv ==
    \A r \in Runs : pc[r] = "put" =>
        /\ groupId[r] \in groups /\ userId[r] # None
        /\ copy[r].version <= version[groupId[r]]
        /\ Current(r) => members[groupId[r]] \subseteq copy[r].members

(* Only a PUT changes a group that exists.                                 *)
LEMMA OnlyPutWrites ==
  ASSUME NEW r \in Runs, Step(r), ~PutGroup(r)
  PROVE  UNCHANGED <<members, version>>
  BY DEF Step, Start, SearchUser, CreateUser, DeleteUser, SearchGroup,
     CreateGroup, GetGroup, Interrupt, server

(* A run moves on by itself; nobody touches what it holds.                 *)
LEMMA OwnStep ==
  ASSUME TypeOK, NEW q \in Runs, Step(q), NEW r \in Runs, r # q
  PROVE  /\ pc'[r] = pc[r] /\ userId'[r] = userId[r]
         /\ groupId'[r] = groupId[r] /\ copy'[r] = copy[r]
  BY DEF Step, Start, SearchUser, CreateUser, DeleteUser, SearchGroup,
     CreateGroup, GetGroup, PutGroup, Interrupt, server, Goto, Said, TypeOK

LEMMA GroupsGrow ==
  ASSUME [Next]_vars
  PROVE  groups \subseteq groups'
  BY DEF Next, Step, Start, SearchUser, CreateUser, DeleteUser, SearchGroup,
     CreateGroup, GetGroup, PutGroup, Interrupt, server, vars

(* The If-Match at work: a PUT that replaces the members had read them all.*)
LEMMA PutKeeps ==
  ASSUME TypeOK, PutInv, NEW r \in Runs, PutGroup(r)
  PROVE  \/ UNCHANGED <<members, version>>
         \/ /\ Current(r) /\ Replace(r)
            /\ \A g \in Runs : members[g] \subseteq members'[g]
<1>1. CASE Current(r) /\ Replace(r)
  <2>1. groupId[r] \in Runs /\ members[groupId[r]] \subseteq copy[r].members
    BY <1>1 DEF PutInv, PutGroup, TypeOK
  <2> QED
    BY <1>1, <2>1 DEF Replace, TypeOK
<1> QED
  BY <1>1 DEF PutGroup

(* No step drops a member. *)
LEMMA MembersGrow ==
  ASSUME TypeOK, PutInv, [Next]_vars
  PROVE  \A g \in Runs : members[g] \subseteq members'[g]
<1>1. ASSUME NEW r \in Runs, Step(r)
      PROVE  \A g \in Runs : members[g] \subseteq members'[g]
  BY <1>1, OnlyPutWrites, PutKeeps
<1> QED
  BY <1>1 DEF Next, vars

LEMMA PutStep == TypeOK /\ TypeOK' /\ PutInv /\ [Next]_vars => PutInv'
<1> SUFFICES ASSUME TypeOK, TypeOK', PutInv, [Next]_vars, NEW r \in Runs,
                    pc'[r] = "put"
             PROVE  /\ groupId'[r] \in groups' /\ userId'[r] # None
                    /\ copy'[r].version <= version'[groupId'[r]]
                    /\ copy'[r].version = version'[groupId'[r]] =>
                          members'[groupId'[r]] \subseteq copy'[r].members
  BY DEF PutInv, Current
<1>1. CASE UNCHANGED vars
  BY <1>1 DEF PutInv, Current, vars
<1>2. ASSUME NEW q \in Runs, Step(q), q # r
      PROVE  /\ groupId'[r] \in groups' /\ userId'[r] # None
             /\ copy'[r].version <= version'[groupId'[r]]
             /\ copy'[r].version = version'[groupId'[r]] =>
                   members'[groupId'[r]] \subseteq copy'[r].members
  <2>1. /\ pc[r] = "put" /\ userId'[r] = userId[r]
        /\ groupId'[r] = groupId[r] /\ copy'[r] = copy[r]
    BY <1>2, OwnStep
  <2>2. groupId'[r] \in groups' /\ userId'[r] # None
    BY <2>1, GroupsGrow DEF PutInv
  <2>3. CASE UNCHANGED <<members, version>>
    BY <2>1, <2>2, <2>3 DEF PutInv, Current
  <2>4. CASE PutGroup(q) /\ Replace(q)
    <3> DEFINE g == groupId[r]
    <3>1. g \in Runs /\ version[g] \in Nat /\ copy[r].version \in Nat
          /\ copy[r].version <= version[g]
      BY <2>1 DEF PutInv, TypeOK, Resources
    <3>2. CASE groupId[q] = g
      <4>1. version'[g] = version[g] + 1
        BY <2>4, <3>1, <3>2 DEF Replace, TypeOK
      <4> QED
        BY <2>1, <2>2, <3>1, <4>1
    <3>3. CASE groupId[q] # g
      <4>1. version'[g] = version[g] /\ members'[g] = members[g]
        BY <2>4, <3>1, <3>3 DEF Replace, TypeOK
      <4> QED
        BY <2>1, <2>2, <4>1 DEF PutInv, Current
    <3> QED
      BY <3>2, <3>3
  <2> QED
    BY <1>2, <2>3, <2>4, OnlyPutWrites, PutKeeps
<1>3. ASSUME Step(r)
      PROVE  /\ groupId'[r] \in groups' /\ userId'[r] # None
             /\ copy'[r].version <= version'[groupId'[r]]
             /\ copy'[r].version = version'[groupId'[r]] =>
                   members'[groupId'[r]] \subseteq copy'[r].members
  <2>1. GetGroup(r)
    <3>1. ASSUME NEW place, place # "put" PROVE ~Goto(r, place)
      BY <3>1 DEF Goto, TypeOK
    <3>2. \A found : AfterUser(r, found) # "put"
      BY DEF AfterUser
    <3>3. ~SearchUser(r) /\ ~SearchGroup(r)
      BY <3>1, <3>2 DEF SearchUser, SearchGroup
    <3>4. ~Start(r) /\ ~CreateUser(r) /\ ~DeleteUser(r) /\ ~CreateGroup(r)
      BY <3>1 DEF Start, CreateUser, DeleteUser, CreateGroup
    <3>5. ~PutGroup(r) /\ ~Interrupt(r)
      BY <3>1 DEF PutGroup, Interrupt, Said
    <3> QED
      BY <1>3, <3>3, <3>4, <3>5 DEF Step
  <2> DEFINE g == groupId[r]
  <2>2. /\ g # None /\ userId[r] # None
        /\ copy'[r] = [members |-> members[g] \cup {userId[r]},
                       version |-> version[g]]
        /\ UNCHANGED <<groups, members, version, userId, groupId>>
    BY <2>1 DEF GetGroup, Said, Goto, server, TypeOK
  <2>3. g \in groups /\ version[g] \in Nat
    BY <2>2 DEF TypeOK
  <2> QED
    BY <2>2, <2>3
<1> QED
  BY <1>1, <1>2, <1>3 DEF Next

LEMMA PutHolds == Spec => []PutInv
<1>1. Init => PutInv
  BY DEF Init, PutInv
<1> QED
  BY <1>1, PutStep, TypeCorrect, PTL DEF Spec

(* Whoever else rewrites the group between the GET and the PUT of a run,   *)
(* and whichever requests fail: no administrator is dropped from it.       *)
THEOREM MembersAreKept == Spec => NoMemberLost
<1>1. TypeOK /\ PutInv /\ [Next]_vars =>
        [\A g \in Runs : members[g] \subseteq members'[g]]_vars
  BY MembersGrow
<1> QED
  BY <1>1, TypeCorrect, PutHolds, PTL DEF Spec, NoMemberLost

------------------------------------------------------------------------------
(* What an undisturbed run has got to: a group is created only when there  *)
(* is none, no request of its own came back without an id, and the copy it *)
(* puts is current.                                                        *)
Succeeds(r) ==
    /\ pc[r] = "createGroup" => groups = {}
    /\ pc[r] \in {"get", "put"} => groupId[r] # None
    /\ pc[r] = "put" => /\ userId[r] # None /\ Current(r)
                        /\ userId[r] \in copy[r].members
    /\ pc[r] = "done" /\ r \notin Deleters /\ userId[r] # None =>
          groupId[r] # None /\ userId[r] \in members[groupId[r]]

(* Nobody is active next to an undisturbed run; a run that deletes never   *)
(* comes to the groups, and no other deletes.                              *)
AloneInv ==
    /\ \A r \in Deleters : pc[r] \in {"idle", "user", "deleteUser", "done"}
    /\ \A r \in Runs : pc[r] = "deleteUser" => r \in Deleters
    /\ \A r \in alone : /\ pc[r] # "idle"
                        /\ Active(r) => \A q \in Runs : Active(q) => q = r
    /\ \A r \in alone : Succeeds(r)

(* The run that made a group has started; undisturbed runs make one at     *)
(* most.                                                                   *)
GroupsInv ==
    /\ \A g \in groups : pc[g] # "idle"
    /\ groups \subseteq alone => \A g, h \in groups : g = h

(* Where a run is, it can go only to a place that comes after.             *)
LEMMA Leads ==
  ASSUME TypeOK, NEW r \in Runs, Step(r)
  PROVE  \/ Start(r) /\ pc'[r] = "user"
         \/ SearchUser(r) /\ \E found \in Runs \cup {None} :
               pc'[r] = AfterUser(r, found)
         \/ CreateUser(r) /\ pc'[r] = "group"
         \/ DeleteUser(r) /\ pc'[r] = "done"
         \/ SearchGroup(r) /\ pc'[r] = IF groupId'[r] = None THEN "createGroup"
                                       ELSE "get"
         \/ CreateGroup(r) /\ pc'[r] = "get"
         \/ GetGroup(r) /\ pc'[r] \in {"put", "done"}
         \/ PutGroup(r) /\ pc'[r] = "done"
         \/ Interrupt(r) /\ pc'[r] = "done"
<1>1. ASSUME NEW place, Goto(r, place) PROVE pc'[r] = place
  BY <1>1 DEF Goto, TypeOK
<1>2. CASE SearchGroup(r)
  <2>1. PICK found \in groups \cup {None} :
           /\ groupId' = [groupId EXCEPT ![r] = found]
           /\ Goto(r, IF found = None THEN "createGroup" ELSE "get")
    BY <1>2 DEF SearchGroup
  <2>2. groupId'[r] = found
    BY <2>1 DEF TypeOK
  <2> QED
    BY <1>1, <1>2, <2>1, <2>2
<1>3. CASE SearchUser(r)
  BY <1>1, <1>3 DEF SearchUser
<1>4. CASE Start(r) \/ CreateUser(r) \/ DeleteUser(r) \/ CreateGroup(r)
  BY <1>1, <1>4 DEF Start, CreateUser, DeleteUser, CreateGroup
<1>5. CASE GetGroup(r) \/ PutGroup(r) \/ Interrupt(r)
  BY <1>1, <1>5 DEF GetGroup, PutGroup, Interrupt, Said
<1> QED
  BY <1>2, <1>3, <1>4, <1>5 DEF Step

(* Only starting makes a run undisturbed.                                  *)
LEMMA AloneShrinks ==
  ASSUME NEW q \in Runs, Step(q)
  PROVE  /\ ~Start(q) => alone' \subseteq alone
         /\ alone' \subseteq alone \cup {q}
  BY DEF Step, Start, SearchUser, CreateUser, DeleteUser, SearchGroup,
     CreateGroup, GetGroup, PutGroup, Interrupt, Answered, Fails

(* A step of another run finds an undisturbed one done, or ends its being  *)
(* undisturbed.                                                            *)
LEMMA Bystander ==
  ASSUME TypeOK, PutInv, AloneInv, NEW q \in Runs, Step(q),
         NEW r \in alone', r # q
  PROVE  /\ r \in alone /\ pc[r] = "done" /\ pc'[r] = "done"
         /\ Succeeds(r)'
<1>1. r \in alone /\ r \in Runs
  BY AloneShrinks DEF TypeOK
<1>2. /\ pc'[r] = pc[r] /\ userId'[r] = userId[r] /\ groupId'[r] = groupId[r]
  BY <1>1, OwnStep
<1>3. pc[r] = "done"
  <2>1. CASE Start(q)
    BY <1>1, <2>1 DEF Start, Active, AloneInv, TypeOK
  <2>2. CASE ~Start(q)
    <3>1. Active(q)
      BY <2>2 DEF Step, SearchUser, CreateUser, DeleteUser, SearchGroup,
         CreateGroup, GetGroup, PutGroup, Interrupt, Active
    <3> QED
      BY <1>1, <3>1 DEF AloneInv, Active
  <2> QED
    BY <2>1, <2>2
<1>4. \A g \in Runs : members[g] \subseteq members'[g]
  BY MembersGrow DEF Next
<1>5. r \notin Deleters /\ userId[r] # None =>
         groupId[r] # None /\ groupId[r] \in Runs
         /\ userId[r] \in members[groupId[r]]
  BY <1>1, <1>3 DEF AloneInv, Succeeds, TypeOK
<1> QED
  BY <1>1, <1>2, <1>3, <1>4, <1>5 DEF Succeeds

(* The step of an undisturbed run itself.                                  *)
LEMMA OwnSuccess ==
  ASSUME TypeOK, TypeOK', PutInv, AloneInv, NEW r \in Runs, Step(r),
         r \in alone'
  PROVE  Succeeds(r)'
<1>0. ~Start(r) => r \in alone /\ Succeeds(r)
  BY AloneShrinks DEF AloneInv
<1>1. CASE pc'[r] \in {"user", "deleteUser", "createUser", "group"}
  BY <1>1 DEF Succeeds
<1>2. CASE DeleteUser(r) \/ Interrupt(r)
  <2>1. ~Interrupt(r)
    BY DEF Interrupt
  <2>2. r \in Deleters /\ pc'[r] = "done"
    BY <1>2, <2>1, Leads DEF DeleteUser, AloneInv, Goto, TypeOK
  <2> QED
    BY <2>2 DEF Succeeds
<1>3. CASE SearchGroup(r)
  <2>1. PICK found \in Runs \cup {None} :
           /\ found \in groups \/ groups = {} \/ Fails(r)
           /\ groupId' = [groupId EXCEPT ![r] = found]
           /\ Goto(r, IF found = None THEN "createGroup" ELSE "get")
    BY <1>3 DEF SearchGroup
  <2>2. ~Fails(r)
    BY DEF Fails
  <2>3. /\ groupId'[r] = found /\ groups' = groups
        /\ pc'[r] = IF found = None THEN "createGroup" ELSE "get"
    BY <1>3, <2>1 DEF SearchGroup, server, Goto, TypeOK
  <2>4. found = None => groups = {}
    BY <2>1, <2>2, ScimAssumption DEF TypeOK
  <2> QED
    BY <2>3, <2>4 DEF Succeeds
<1>4. CASE CreateGroup(r)
  <2>1. groupId'[r] = r /\ pc'[r] = "get"
    BY <1>4 DEF CreateGroup, Fails, Goto, TypeOK
  <2>2. r # None
    BY ScimAssumption
  <2> QED
    BY <2>1, <2>2 DEF Succeeds
<1>5. CASE GetGroup(r)
  <2> DEFINE g == groupId[r]
  <2>1. ~Fails(r)
    BY DEF Fails
  <2>2. /\ g # None /\ g \in Runs
        /\ UNCHANGED <<members, version, groupId, userId>>
    BY <1>0, <1>5 DEF GetGroup, Start, Succeeds, server, TypeOK
  <2>3. CASE /\ userId[r] = None \/ userId[r] \in members[g]
             /\ Said(r, "not added")
    <3>1. pc'[r] = "done"
      BY <2>3 DEF Said, Goto, TypeOK
    <3> QED
      BY <2>2, <2>3, <3>1 DEF Succeeds
  <2>4. CASE /\ userId[r] # None
             /\ copy' = [copy EXCEPT ![r] =
                           [members |-> members[g] \cup {userId[r]},
                            version |-> version[g]]]
             /\ Goto(r, "put")
    <3>1. /\ pc'[r] = "put" /\ copy'[r].version = version[g]
          /\ userId[r] \in copy'[r].members
      BY <2>4 DEF Goto, TypeOK
    <3> QED
      BY <2>2, <2>4, <3>1 DEF Succeeds, Current
  <2> QED
    BY <1>5, <2>1, <2>2, <2>3, <2>4 DEF GetGroup
<1>6. CASE PutGroup(r)
  <2>1. ~Fails(r) /\ pc[r] = "put"
    BY <1>6 DEF Fails, PutGroup
  <2>2. /\ groupId[r] \in Runs /\ userId[r] \in copy[r].members /\ Current(r)
        /\ UNCHANGED <<groupId, userId>> /\ pc'[r] = "done"
    <3>1. Succeeds(r)
      BY <1>0, <2>1 DEF Start
    <3>2. UNCHANGED <<groupId, userId>> /\ Said(r, "added")
      BY <1>6 DEF PutGroup
    <3>3. groupId[r] \in Runs
      BY <2>1 DEF PutInv, TypeOK
    <3> QED
      BY <2>1, <3>1, <3>2, <3>3 DEF Succeeds, Said, Goto, TypeOK
  <2>3. members'[groupId[r]] = copy[r].members
    BY <1>6, <2>1, <2>2 DEF PutGroup, Replace, TypeOK
  <2>4. groupId[r] # None
    BY <2>2, ScimAssumption
  <2> QED
    BY <2>2, <2>3, <2>4 DEF Succeeds
<1> QED
  BY <1>1, <1>2, <1>3, <1>4, <1>5, <1>6, Leads DEF AfterUser

LEMMA AloneStep ==
  TypeOK /\ TypeOK' /\ PutInv /\ AloneInv /\ [Next]_vars => AloneInv'
<1> SUFFICES ASSUME TypeOK, TypeOK', PutInv, AloneInv, [Next]_vars
             PROVE  AloneInv'
  OBVIOUS
<1>1. CASE UNCHANGED vars
  BY <1>1 DEF vars, AloneInv, Active, Succeeds, Current
<1>2. ASSUME NEW q \in Runs, Step(q) PROVE AloneInv'
  <2>1. \A r \in Deleters : pc'[r] \in {"idle", "user", "deleteUser", "done"}
    <3>1. ASSUME NEW r \in Deleters, r # q
          PROVE  pc'[r] \in {"idle", "user", "deleteUser", "done"}
      BY <1>2, <3>1, OwnStep, ScimAssumption DEF AloneInv
    <3>2. ASSUME q \in Deleters
          PROVE  pc'[q] \in {"idle", "user", "deleteUser", "done"}
      <4>1. pc[q] \in {"idle", "user", "deleteUser", "done"}
        BY <3>2 DEF AloneInv
      <4>2. \A found : AfterUser(q, found) = "deleteUser"
        BY <3>2 DEF AfterUser
      <4> QED
        BY <1>2, <4>1, <4>2, Leads
           DEF CreateUser, SearchGroup, CreateGroup, GetGroup, PutGroup
    <3> QED
      BY <3>1, <3>2
  <2>2. \A r \in Runs : pc'[r] = "deleteUser" => r \in Deleters
    <3>1. ASSUME NEW r \in Runs, r # q, pc'[r] = "deleteUser"
          PROVE  r \in Deleters
      BY <1>2, <3>1, OwnStep DEF AloneInv
    <3>2. pc'[q] = "deleteUser" => q \in Deleters
      BY <1>2, Leads DEF AfterUser
    <3> QED
      BY <3>1, <3>2
  <2>3. ASSUME NEW r \in alone'
        PROVE  /\ pc'[r] # "idle"
               /\ Active(r)' => \A p \in Runs : Active(p)' => p = r
    <3>1. CASE r # q
      BY <1>2, <3>1, Bystander DEF Active
    <3>2. CASE r = q
      <4>1. pc'[r] # "idle"
        BY <1>2, <3>2, Leads DEF AfterUser
      <4>2. ASSUME NEW p \in Runs, p # q PROVE ~Active(p)
        <5>1. CASE Start(q)
          <6>1. \A s \in Runs : ~Active(s)
            BY <2>3, <3>2, <5>1 DEF Start, AloneInv
          <6> QED
            BY <6>1
        <5>2. CASE ~Start(q)
          <6>1. r \in alone /\ Active(q)
            BY <1>2, <3>2, <5>2, AloneShrinks
               DEF Step, SearchUser, CreateUser, DeleteUser, SearchGroup,
                   CreateGroup, GetGroup, PutGroup, Interrupt, Active
          <6> QED
            BY <3>2, <4>2, <6>1 DEF AloneInv
        <5> QED
          BY <5>1, <5>2
      <4>3. ASSUME NEW p \in Runs, p # q PROVE ~Active(p)'
        BY <1>2, <4>2, <4>3, OwnStep DEF Active
      <4> QED
        BY <3>2, <4>1, <4>3
    <3> QED
      BY <3>1, <3>2
  <2>4. ASSUME NEW r \in alone' PROVE Succeeds(r)'
    BY <1>2, Bystander, OwnSuccess
  <2> QED
    BY <2>1, <2>2, <2>3, <2>4 DEF AloneInv
<1> QED
  BY <1>1, <1>2 DEF Next

LEMMA GroupsStep ==
  TypeOK /\ AloneInv /\ GroupsInv /\ [Next]_vars => GroupsInv'
<1> SUFFICES ASSUME TypeOK, AloneInv, GroupsInv, [Next]_vars
             PROVE  GroupsInv'
  OBVIOUS
<1>1. CASE UNCHANGED vars
  BY <1>1 DEF vars, GroupsInv
<1>2. ASSUME NEW q \in Runs, Step(q) PROVE GroupsInv'
  <2>1. pc'[q] # "idle"
    BY <1>2, Leads DEF AfterUser
  <2>2. groups' \in {groups, groups \cup {q}}
    BY <1>2 DEF Step, Start, SearchUser, CreateUser, DeleteUser, SearchGroup,
       CreateGroup, GetGroup, PutGroup, Interrupt, server
  <2>3. ASSUME NEW g \in groups' PROVE pc'[g] # "idle"
    <3>1. CASE g # q
      BY <1>2, <2>2, <2>3, <3>1, OwnStep DEF GroupsInv, TypeOK
    <3> QED
      BY <2>1, <3>1
  <2>4. ASSUME groups' \subseteq alone', NEW g \in groups', NEW h \in groups'
        PROVE  g = h
    <3>1. CASE groups' = groups
      <4>1. groups \subseteq alone
        BY <1>2, <2>4, <3>1, AloneShrinks DEF Start, GroupsInv
      <4> QED
        BY <2>4, <3>1, <4>1 DEF GroupsInv
    <3>2. CASE groups' # groups
      <4>1. CreateGroup(q) /\ q \in groups'
        BY <1>2, <2>2, <3>2
           DEF Step, Start, SearchUser, CreateUser, DeleteUser, SearchGroup,
               GetGroup, PutGroup, Interrupt, server
      <4>2. q \in alone
        BY <2>4, <4>1 DEF CreateGroup, Answered, Fails
      <4>3. groups = {}
        BY <4>1, <4>2 DEF CreateGroup, AloneInv, Succeeds
      <4> QED
        BY <2>2, <2>4, <4>3
    <3> QED
      BY <3>1, <3>2
  <2> QED
    BY <2>3, <2>4 DEF GroupsInv
<1> QED
  BY <1>1, <1>2 DEF Next

(* Whatever earlier runs left half done: a run that no other run and no    *)
(* failing request disturbs ends with its user in the group it holds, and  *)
(* there is one group as long as only undisturbed runs have made one.      *)
THEOREM UndisturbedAdds == Spec => []UndisturbedRunAdds
<1>1. Init => AloneInv /\ GroupsInv
  BY ScimAssumption DEF Init, AloneInv, GroupsInv
<1>2. TypeOK /\ TypeOK' /\ PutInv /\ AloneInv /\ GroupsInv /\ [Next]_vars
        => AloneInv' /\ GroupsInv'
  BY AloneStep, GroupsStep
<1>3. TypeOK /\ AloneInv /\ GroupsInv => UndisturbedRunAdds
  <2> SUFFICES ASSUME TypeOK, AloneInv, GroupsInv, NEW r \in alone,
                      pc[r] = "done", r \notin Deleters, userId[r] # None
               PROVE  /\ groupId[r] # None /\ userId[r] \in members[groupId[r]]
                      /\ groups \subseteq alone => groups = {groupId[r]}
    BY DEF UndisturbedRunAdds
  <2>1. groupId[r] # None /\ userId[r] \in members[groupId[r]]
    BY DEF AloneInv, Succeeds
  <2>2. groupId[r] \in groups
    BY <2>1 DEF TypeOK
  <2> QED
    BY <2>1, <2>2 DEF GroupsInv
<1> QED
  BY <1>1, <1>2, <1>3, TypeCorrect, PutHolds, PTL DEF Spec
==============================================================================
