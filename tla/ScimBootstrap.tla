---------------------------- MODULE ScimBootstrap ----------------------------
(***************************************************************************)
(* Invocations of scripts/bootstrap_scim_admin.py against one SCIM API:    *)
(* look up or create the user, look up or create the group, read the       *)
(* group, put it back with one member more.  Several administrators may    *)
(* run it at once, any of its requests may fail, and it may be             *)
(* interrupted and run again.  An id is named by the run that created it.  *)
(* The API itself is external: it keeps users and groups, and refuses a    *)
(* PUT or DELETE whose If-Match is not the current version.                *)
(***************************************************************************)
EXTENDS Naturals, FiniteSets

CONSTANTS Runs,         \* the invocations of the script
          People,       \* external ids
          None,
          Person,       \* Person[r] is --external-id of run r
          Creators,     \* the runs with --create-user
          Deleters,     \* the runs with --delete and the user's version
          MaxFaults     \* bound: requests that fail on their own

ASSUME ScimAssumption ==
    /\ None \notin Runs \cup People
    /\ Person \in [Runs -> People]
    /\ Creators \subseteq Runs
    /\ Deleters \subseteq Runs
    /\ MaxFaults \in Nat

VARIABLES
    users,      \* users[i] is the external id of the user with id i, or None
    groups,     \* the ids of the groups with the display name args.group
    members,    \* members[g], user ids
    version,    \* version[g]
    pc,         \* where each run is
    userId, groupId,        \* what each run has looked up or created
    copy,       \* the group resource each run is working on
    said,       \* what each run has logged last
    faults,
    alone       \* the runs during which no other ran and no request failed

vars == <<users, groups, members, version, pc, userId, groupId, copy, said,
          faults, alone>>
server == <<users, groups, members, version>>

Places == {"idle", "user", "createUser", "deleteUser", "group", "createGroup",
           "get", "put", "done"}
Resources == [members : SUBSET Runs, version : Nat]

Init ==
    /\ users = [i \in Runs |-> None]
    /\ groups = {}
    /\ members = [g \in Runs |-> {}]
    /\ version = [g \in Runs |-> 0]
    /\ pc = [r \in Runs |-> "idle"]
    /\ userId = [r \in Runs |-> None]
    /\ groupId = [r \in Runs |-> None]
    /\ copy = [r \in Runs |-> [members |-> {}, version |-> 0]]
    /\ said = [r \in Runs |-> "nothing"]
    /\ faults = 0
    /\ alone = {}

Goto(r, place) == pc' = [pc EXCEPT ![r] = place]

Active(r) == pc[r] \notin {"idle", "done"}

(* A request of run r is answered with success, or scim_request returns    *)
(* None: an error status, whether or not the API had carried it out.       *)
Answered == UNCHANGED <<faults, alone>>

Fails(r) ==
    /\ faults < MaxFaults
    /\ faults' = faults + 1
    /\ alone' = alone \ {r}

Known(ext) == {i \in Runs : users[i] = ext}

------------------------------------------------------------------------------
(* main *)

Start(r) ==
    /\ pc[r] = "idle"
    /\ Goto(r, "user")
    /\ alone' = IF \E q \in Runs : Active(q)
                THEN {q \in alone : ~Active(q)} ELSE alone \cup {r}
    /\ UNCHANGED <<server, userId, groupId, copy, said, faults>>

(* Where main goes with what search_user returned. *)
AfterUser(r, found) ==
    IF r \in Deleters THEN "deleteUser"
    ELSE IF r \in Creators /\ found = None THEN "createUser"
    ELSE "group"

(* search_user: a search that fails looks like one that finds nothing. *)
SearchUser(r) ==
    /\ pc[r] = "user"
    /\ \E found \in Runs \cup {None} :
          /\ \/ found \in Known(Person[r]) /\ Answered
             \/ found = None /\ Known(Person[r]) = {} /\ Answered
             \/ found = None /\ Fails(r)
          /\ userId' = [userId EXCEPT ![r] = found]
          /\ Goto(r, AfterUser(r, found))
    /\ UNCHANGED <<server, groupId, copy, said>>

(* create_user *)
CreateUser(r) ==
    /\ pc[r] = "createUser"
    /\ LET created == [users EXCEPT ![r] = Person[r]]
       IN  \/ /\ users' = created
              /\ userId' = [userId EXCEPT ![r] = r]
              /\ Answered
           \/ /\ users' \in {users, created}
              /\ Fails(r)
              /\ UNCHANGED userId
    /\ Goto(r, "group")
    /\ UNCHANGED <<groups, members, version, groupId, copy, said>>

(* delete_user, then exit: the version given on the command line may not   *)
(* be the user's, and without a user the request is for /Users/None.       *)
DeleteUser(r) ==
    /\ pc[r] = "deleteUser"
    /\ users' \in {users, IF userId[r] = None THEN users
                          ELSE [users EXCEPT ![userId[r]] = None]}
    /\ Goto(r, "done")
    /\ UNCHANGED <<groups, members, version, userId, groupId, copy, said,
                   faults, alone>>

(* search_group: the first of the groups that match. *)
SearchGroup(r) ==
    /\ pc[r] = "group"
    /\ \E found \in Runs \cup {None} :
          /\ \/ found \in groups /\ Answered
             \/ found = None /\ groups = {} /\ Answered
             \/ found = None /\ Fails(r)
          /\ groupId' = [groupId EXCEPT ![r] = found]
          /\ Goto(r, IF found = None THEN "createGroup" ELSE "get")
    /\ UNCHANGED <<server, userId, copy, said>>

(* Mutant of CreateGroup: the id of the new group is not kept              *)
CreateGroup_ForgetsId(r) ==
    /\ pc[r] = "createGroup"
    /\ groups' = groups \cup {r}
    /\ Goto(r, "get")
    /\ Answered
    /\ UNCHANGED <<users, members, version, userId, groupId, copy, said>>

(* Mutant of CreateGroup: a failed request is taken for a created group    *)
CreateGroup_TrustsFailure(r) ==
    /\ pc[r] = "createGroup"
    /\ \/ groups' = groups \cup {r} /\ Answered
       \/ groups' = groups /\ Fails(r)
    /\ groupId' = [groupId EXCEPT ![r] = r]
    /\ Goto(r, "get")
    /\ UNCHANGED <<users, members, version, userId, copy, said>>

(* create_group *)
CreateGroup(r) ==
    /\ pc[r] = "createGroup"
    /\ \/ /\ groups' = groups \cup {r}
          /\ groupId' = [groupId EXCEPT ![r] = r]
          /\ Answered
       \/ /\ groups' \in {groups, groups \cup {r}}
          /\ Fails(r)
          /\ UNCHANGED groupId
    /\ Goto(r, "get")
    /\ UNCHANGED <<users, members, version, userId, copy, said>>

Said(r, what) ==
    /\ said' = [said EXCEPT ![r] = what]
    /\ Goto(r, "done")

(* add_user_to_group: its early returns, and the copy of the group with    *)
(* the version it was read at.                                             *)
GetGroup(r) ==
    /\ pc[r] = "get"
    /\ LET g == groupId[r]
           notAdded == Said(r, "not added") /\ UNCHANGED copy
       IN  \/ g = None /\ notAdded /\ Answered
           \/ userId[r] = None /\ notAdded /\ Answered
           \/ /\ g # None /\ userId[r] # None
              /\ notAdded /\ Fails(r)
           \/ /\ g # None /\ userId[r] \in members[g]
              /\ notAdded /\ Answered
           \/ /\ g # None /\ userId[r] # None
              /\ userId[r] \notin members[g]
              /\ copy' = [copy EXCEPT ![r] =
                            [members |-> members[g] \cup {userId[r]},
                             version |-> version[g]]]
              /\ Goto(r, "put")
              /\ Answered
              /\ UNCHANGED said
    /\ UNCHANGED <<server, userId, groupId>>

(* What the API does with the PUT of run r. *)
Replace(r) ==
    /\ members' = [members EXCEPT ![groupId[r]] = copy[r].members]
    /\ version' = [version EXCEPT ![groupId[r]] = @ + 1]

Current(r) == copy[r].version = version[groupId[r]]

(* Mutant of PutGroup: the request carries no If-Match                     *)
PutGroup_NoIfMatch(r) ==
    /\ pc[r] = "put"
    /\ Replace(r)
    /\ Said(r, "added")
    /\ Answered
    /\ UNCHANGED <<users, groups, userId, groupId, copy>>

(* The PUT with If-Match; main logs "Added" whatever its result was. *)
PutGroup(r) ==
    /\ pc[r] = "put"
    /\ \/ Current(r) /\ Replace(r) /\ Answered
       \/ Current(r) /\ Replace(r) /\ Fails(r)
       \/ ~Current(r) /\ Answered /\ UNCHANGED <<members, version>>
       \/ Fails(r) /\ UNCHANGED <<members, version>>
    /\ Said(r, "added")
    /\ UNCHANGED <<users, groups, userId, groupId, copy>>

(* Interrupted anywhere, between two requests. *)
Interrupt(r) ==
    /\ Active(r)
    /\ Goto(r, "done")
    /\ alone' = alone \ {r}
    /\ UNCHANGED <<server, userId, groupId, copy, said, faults>>

Step(r) ==
    \/ Start(r)
    \/ SearchUser(r)
    \/ CreateUser(r)
    \/ DeleteUser(r)
    \/ SearchGroup(r)
    \/ CreateGroup(r)
    \/ GetGroup(r)
    \/ PutGroup(r)
    \/ Interrupt(r)

Next == \E r \in Runs : Step(r)

Spec == Init /\ [][Next]_vars

------------------------------------------------------------------------------
TypeOK ==
    /\ users \in [Runs -> People \cup {None}]
    /\ groups \subseteq Runs
    /\ members \in [Runs -> SUBSET Runs]
    /\ version \in [Runs -> Nat]
    /\ pc \in [Runs -> Places]
    /\ userId \in [Runs -> Runs \cup {None}]
    /\ groupId \in [Runs -> groups \cup {None}]
    /\ copy \in [Runs -> Resources]
    /\ said \in [Runs -> {"nothing", "added", "not added"}]
    /\ faults \in 0..MaxFaults
    /\ alone \subseteq Runs

(* The If-Match of the PUT: whoever else rewrites the group meanwhile, no  *)
(* administrator is dropped from it.                                       *)
NoMemberLost == [][\A g \in Runs : members[g] \subseteq members'[g]]_vars

(* Run again: whatever earlier runs left half done, a run that is          *)
(* undisturbed ends with its user in the group, and there is one group as  *)
(* long as only undisturbed runs have made one.                            *)
UndisturbedRunAdds ==
    \A r \in alone :
        pc[r] = "done" /\ r \notin Deleters /\ userId[r] # None =>
            /\ groupId[r] # None /\ userId[r] \in members[groupId[r]]
            /\ groups \subseteq alone => groups = {groupId[r]}

(* main's message "Added user ... to group ..." is about a user that has   *)
(* been in the group.                                                      *)
AddedMeansMember ==
    \A r \in Runs : said[r] = "added" => userId[r] \in members[groupId[r]]
==============================================================================
