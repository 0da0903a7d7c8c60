--------------------------- MODULE AccountScripts ----------------------------
(***************************************************************************)
(* The scripts of mongodb/db-scripts that write user documents, on one     *)
(* account.  revoke-user, remove-terminated-users and unlock-user run one  *)
(* at a time, next to at most one editing script: load-save-users, which   *)
(* walks a cursor over all users and may wait for a key to be pressed, or  *)
(* one of those that add, remove or proof something in the document.  A    *)
(* run may die between any two database calls; the webapps (external) keep *)
(* using the database.                                                     *)
(* RawDb.save_with_backup is external too: it replaces or deletes the      *)
(* document with the _id that was read, whatever it holds by then.         *)
(***************************************************************************)
EXTENDS Naturals, Sequences

CONSTANTS MaxCrashes,      \* bound: script runs that die half way
          AppCollections   \* where the webapps store documents meanwhile

ASSUME CrashesAssumption == MaxCrashes \in Nat

VARIABLES
    account,    \* the user document in eduid_am.attributes
    aux,        \* the collections that hold a document of this user
    tripped,    \* its fail count of this month is at the limit
    script,     \* the script that is running, or "none"
    step,       \* the auxiliary collection it comes to next
    copy,       \* the user document it read
    editing,    \* an editing script is running
    draft,      \* the user document that one read
    crashes,
    late,       \* collections stored into after the script had emptied them
    overtaken,  \* who holds a document that has been changed meanwhile
    atOnce      \* the document, had every script run in one step

vars == <<account, aux, tripped, script, step, copy, editing, draft, crashes,
          late, overtaken, atOnce>>
edit == <<editing, draft>>
watch == <<late, overtaken, atOnce>>

(* AUX_COLLECTIONS of revoke-user. *)
RevokeAux == <<"authn_info", "registered", "profiles", "verifications",
               "consent">>

(* The calls of remove_from_aux_db. *)
TerminateAux == <<"authn_info", "ident", "consent", "registered", "profiles",
                  "verifications", "wizards">>

InSeq(s) == {s[i] : i \in DOMAIN s}
Collections == InSeq(TerminateAux)

ASSUME CollectionsAssumption == AppCollections \subseteq Collections

(* "due" is terminated more than KEEP_USER_DAYS ago; a revoked or removed  *)
(* document holds little more than its eppn.                               *)
Statuses == {"active", "terminated", "due", "revoked", "removed"}
Passwords == {"first", "second"}
Accounts == [status : Statuses, password : Passwords \cup {"none"}]

Usable == account.status \in {"active", "terminated", "due"}

Bare(status) == [status |-> status, password |-> "none"]

Init ==
    /\ account = [status |-> "active", password |-> "first"]
    /\ aux \in {{}, Collections}
    /\ tripped = FALSE
    /\ script = "none"
    /\ step = 1
    /\ copy = account
    /\ crashes = 0
    /\ editing = FALSE
    /\ draft = account
    /\ late = {}
    /\ overtaken = {}
    /\ atOnce = account

------------------------------------------------------------------------------
(* The scripts *)

Holders == {"script", "edit"}

(* The document is changed to doc, by a holder of a copy or by a webapp    *)
(* ("app"); the scripts run in one step would have made it ideal, but what *)
(* an overtaken script saves over the others' changes is lost for good.    *)
Write(who, doc, ideal) ==
    /\ account' = doc
    /\ overtaken' = (IF doc = account /\ who \notin overtaken THEN overtaken
                     ELSE Holders) \ {who}
    /\ atOnce' = IF who \in overtaken THEN doc ELSE ideal

(* db.find on the user: a script works on the document as it was then.     *)
(* The User class does not load a revoked or removed document.             *)
Begin(name) ==
    /\ script = "none"
    /\ script' = name
    /\ step' = 1
    /\ copy' = account
    /\ late' = {}
    /\ overtaken' = overtaken \ {"script"}
    /\ UNCHANGED <<account, aux, tripped, edit, crashes, atOnce>>

BeginRevoke ==
    /\ Usable
    /\ Begin("revoke")

BeginTerminate ==
    /\ account.status = "due"
    /\ Begin("terminate")

BeginUnlock ==
    /\ Usable
    /\ Begin("unlock")

AuxOf(name) == CASE name = "revoke" -> RevokeAux
                 [] name = "terminate" -> TerminateAux
                 [] OTHER -> << >>

(* The collections the running script has been through. *)
Emptied == {AuxOf(script)[i] : i \in 1..(step - 1) \cap DOMAIN AuxOf(script)}

(* Mutant of RemoveAux: one collection too many. *)
RemoveAux_NoEnd ==
    /\ script \in {"revoke", "terminate"}
    /\ step <= Len(AuxOf(script)) + 1
    /\ aux' = aux \ {AuxOf(script)[i] : i \in {step} \cap DOMAIN AuxOf(script)}
    /\ tripped' = (tripped /\ "authn_info" \in aux')
    /\ step' = step + 1
    /\ UNCHANGED <<account, script, copy, edit, crashes, watch>>

(* One collection: find the user's document there and delete it. *)
RemoveAux ==
    /\ script \in {"revoke", "terminate"}
    /\ step <= Len(AuxOf(script))
    /\ aux' = aux \ {AuxOf(script)[step]}
    /\ tripped' = (tripped /\ "authn_info" \in aux')
    /\ step' = step + 1
    /\ UNCHANGED <<account, script, copy, edit, crashes, watch>>

Emptying == Bare(IF script = "revoke" THEN "revoked" ELSE "removed")

(* Mutants of ReplaceAccount: before the last collection; not saved.       *)
ReplaceAccount_First ==
    /\ script \in {"revoke", "terminate"}
    /\ Write("script", Emptying, Emptying)
    /\ script' = "none"
    /\ UNCHANGED <<aux, tripped, step, copy, edit, crashes, late>>

ReplaceAccount_DryRun ==
    /\ script \in {"revoke", "terminate"}
    /\ step > Len(AuxOf(script))
    /\ script' = "none"
    /\ UNCHANGED <<account, aux, tripped, step, copy, edit, crashes, watch>>

(* Last, the user document is replaced by one with next to nothing in it.  *)
ReplaceAccount ==
    /\ script \in {"revoke", "terminate"}
    /\ step > Len(AuxOf(script))
    /\ Write("script", Emptying, Emptying)
    /\ script' = "none"
    /\ UNCHANGED <<aux, tripped, step, copy, edit, crashes, late>>

NoPassword(doc) == [doc EXCEPT !.password = "none"]

(* unlock-user: a count at the limit is set to 0 and saved; any other ends *)
(* the run with nothing changed.                                           *)
ResetCount ==
    /\ script = "unlock"
    /\ step = 1
    /\ IF tripped /\ "authn_info" \in aux
       THEN /\ tripped' = FALSE
            /\ atOnce' = NoPassword(atOnce)
            /\ step' = 2
            /\ UNCHANGED script
       ELSE /\ script' = "none"
            /\ UNCHANGED <<tripped, step, atOnce>>
    /\ UNCHANGED <<account, aux, copy, edit, crashes, late, overtaken>>

(* Mutant of RemovePassword: what was read is saved as it was. *)
RemovePassword_Unchanged ==
    /\ script = "unlock"
    /\ step = 2
    /\ Write("script", copy, atOnce)
    /\ script' = "none"
    /\ UNCHANGED <<aux, tripped, step, copy, edit, crashes, late>>

(* The second save: the document that was read, without its password.     *)
RemovePassword ==
    /\ script = "unlock"
    /\ step = 2
    /\ Write("script", NoPassword(copy), atOnce)
    /\ script' = "none"
    /\ UNCHANGED <<aux, tripped, step, copy, edit, crashes, late>>

Halfway == script = "unlock" /\ step = 2

(* The run dies: AutoReconnect from the database, Ctrl-C.  Nothing later   *)
(* removes the password of an unlock-user that died half way: to the next  *)
(* run the count is not at its limit.                                      *)
Crash ==
    /\ crashes < MaxCrashes
    /\ script # "none"
    /\ script' = "none"
    /\ crashes' = crashes + 1
    /\ atOnce' = IF Halfway THEN account ELSE atOnce
    /\ UNCHANGED <<account, aux, tripped, step, copy, edit, late, overtaken>>

(* An editing script reads the document.  load-save-users reads it with    *)
(* others, long before it comes to it.                                     *)
BeginEdit ==
    /\ ~editing
    /\ Usable
    /\ editing' = TRUE
    /\ draft' = account
    /\ overtaken' = overtaken \ {"edit"}
    /\ UNCHANGED <<account, aux, tripped, script, step, copy, crashes, late,
                   atOnce>>

(* It saves the whole document it read; what it edits in it is not among   *)
(* the fields of this model.                                               *)
SaveEdit ==
    /\ editing
    /\ editing' = FALSE
    /\ Write("edit", draft, atOnce)
    /\ UNCHANGED <<aux, tripped, script, step, copy, draft, crashes, late>>

(* A dry run, no such credential, or the run dies. *)
AbandonEdit ==
    /\ editing
    /\ editing' = FALSE
    /\ UNCHANGED <<account, aux, tripped, script, step, copy, draft, crashes,
                   watch>>

------------------------------------------------------------------------------
(* The webapps and the passing of time *)

(* A document of the user is stored in an auxiliary collection. *)
AppStores(c) ==
    /\ Usable
    /\ aux' = aux \cup {c}
    /\ late' = late \cup ({c} \cap Emptied)
    /\ UNCHANGED <<account, tripped, script, step, copy, edit, crashes,
                   overtaken, atOnce>>

AppLocks ==
    /\ Usable
    /\ "authn_info" \in aux
    /\ tripped' = TRUE
    /\ UNCHANGED <<account, aux, script, step, copy, edit, crashes, watch>>

(* A webapp, or the passing of time, changes a field of the document. *)
AppWrites(field, value) ==
    /\ Write("app", [account EXCEPT ![field] = value],
                    [atOnce EXCEPT ![field] = value])
    /\ UNCHANGED <<aux, tripped, script, step, copy, edit, crashes, late>>

(* A password reset by the user, to one that is not the current. *)
AppSetsPassword ==
    /\ Usable
    /\ \E password \in Passwords \ {account.password} :
          AppWrites("password", password)

AppTerminates == account.status = "active" /\ AppWrites("status", "terminated")

DaysPass == account.status = "terminated" /\ AppWrites("status", "due")

ScriptStep == RemoveAux \/ ReplaceAccount \/ ResetCount \/ RemovePassword

Next ==
    \/ BeginRevoke
    \/ BeginTerminate
    \/ BeginUnlock
    \/ ScriptStep
    \/ Crash
    \/ BeginEdit
    \/ SaveEdit
    \/ AbandonEdit
    \/ \E c \in AppCollections : AppStores(c)
    \/ AppLocks
    \/ AppSetsPassword
    \/ AppTerminates
    \/ DaysPass

Spec == Init /\ [][Next]_vars

(* A started run goes on, and remove-terminated-users is run regularly.    *)
FairSpec == Spec /\ WF_vars(ScriptStep) /\ SF_vars(BeginTerminate)

------------------------------------------------------------------------------
TypeOK ==
    /\ account \in Accounts
    /\ aux \subseteq Collections
    /\ tripped \in BOOLEAN
    /\ script \in {"none", "revoke", "terminate", "unlock"}
    /\ step \in 1..(Len(TerminateAux) + 1)
    /\ copy \in Accounts
    /\ editing \in BOOLEAN
    /\ draft \in Accounts
    /\ crashes \in 0..MaxCrashes
    /\ late \subseteq Collections
    /\ overtaken \subseteq Holders
    /\ atOnce \in Accounts

(* However often a run died half way: once the user document is emptied,   *)
(* the collections the script goes through hold nothing of the user but    *)
(* what the webapps stored behind the last run's back.                     *)
NothingLeft ==
    /\ account.status = "removed" => aux \cap InSeq(TerminateAux) \subseteq late
    /\ account.status = "revoked" => aux \cap InSeq(RevokeAux) \subseteq late

(* A run that died can be run again: an account due for removal is still   *)
(* found by the query, until it is removed or revoked (or a script has     *)
(* saved an older copy of it over the termination).                        *)
DueAccountsAreDealtWith == account.status = "due" ~> account.status # "due"

(* Each script saves the whole document some time after it read it.  Still *)
(* the document is what it would be had each run been one step, unless a   *)
(* script saved a copy over a change it had not seen (a termination, a     *)
(* revocation, a new password, the removal of a locked-out one), or        *)
(* unlock-user is, or died, between its two saves.                         *)
OnlyUnseenChangesAreLost == account # atOnce => Halfway
==============================================================================
