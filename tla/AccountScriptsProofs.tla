------------------------ MODULE AccountScriptsProofs -------------------------
(***************************************************************************)
(* Proofs about AccountScripts, for any number of runs that die and any    *)
(* collections the webapps store in: type correctness, that an emptied     *)
(* account has nothing left, and that only changes a script has not seen   *)
(* are lost.                                                               *)
(***************************************************************************)
EXTENDS AccountScripts, TLAPS

(* The two sequences, so that the provers need not look into them. *)
LEMMA Sequences ==
  /\ Len(RevokeAux) = 5 /\ DOMAIN RevokeAux = 1..5
  /\ Len(TerminateAux) = 7 /\ DOMAIN TerminateAux = 1..7
  /\ \A i \in 1..5 : RevokeAux[i] \in Collections
  /\ \A i \in 1..7 : TerminateAux[i] \in Collections
<1>1. Len(RevokeAux) = 5 /\ DOMAIN RevokeAux = 1..5
  BY DEF RevokeAux
<1>2. Len(TerminateAux) = 7 /\ DOMAIN TerminateAux = 1..7
  BY DEF TerminateAux
<1>3. \A i \in 1..7 : TerminateAux[i] \in Collections
  BY <1>2 DEF Collections, InSeq
<1>4. \A i \in 1..5 : RevokeAux[i] \in Collections
  <2>1. /\ RevokeAux[1] = TerminateAux[1] /\ RevokeAux[2] = TerminateAux[4]
        /\ RevokeAux[3] = TerminateAux[5] /\ RevokeAux[4] = TerminateAux[6]
        /\ RevokeAux[5] = TerminateAux[3]
    BY DEF RevokeAux, TerminateAux
  <2>2. \A i \in 1..5 : i = 1 \/ i = 2 \/ i = 3 \/ i = 4 \/ i = 5
    OBVIOUS
  <2> QED
    BY <1>3, <2>1, <2>2
<1> QED
  BY <1>1, <1>2, <1>3, <1>4

LEMMA AuxOfCases == AuxOf("revoke") = RevokeAux /\ AuxOf("terminate") = TerminateAux
  BY DEF AuxOf

(* What one write makes of the observers of the document. *)
LEMMA WriteType ==
  ASSUME TypeOK, NEW who, NEW doc \in Accounts, NEW ideal \in Accounts,
         Write(who, doc, ideal)
  PROVE  account' \in Accounts /\ overtaken' \subseteq Holders
         /\ atOnce' \in Accounts
  BY DEF TypeOK, Write

(* The documents the scripts and the webapps write. *)
LEMMA Documents ==
  /\ Emptying \in Accounts
  /\ \A doc \in Accounts :
        /\ NoPassword(doc) \in Accounts
        /\ \A p \in Passwords : [doc EXCEPT !["password"] = p] \in Accounts
        /\ \A s \in Statuses : [doc EXCEPT !["status"] = s] \in Accounts
  BY DEF Emptying, Bare, NoPassword, Accounts, Statuses

------------------------------------------------------------------------------
(* The variables keep their types: a script never goes past the end of its *)
(* list of collections.                                                    *)
THEOREM TypeCorrect == Spec => []TypeOK
<1>1. Init => TypeOK
  <2> SUFFICES ASSUME Init PROVE TypeOK
    OBVIOUS
  <2>1. account \in Accounts
    BY DEF Init, Accounts, Statuses, Passwords
  <2>2. aux \subseteq Collections /\ late \subseteq Collections
        /\ overtaken \subseteq Holders
    BY DEF Init
  <2>3. tripped \in BOOLEAN /\ editing \in BOOLEAN
    BY DEF Init
  <2>4. step \in 1..(Len(TerminateAux) + 1) /\ crashes \in 0..MaxCrashes
    BY CrashesAssumption, Sequences DEF Init
  <2> QED
    BY <2>1, <2>2, <2>3, <2>4 DEF Init, TypeOK
<1>2. TypeOK /\ [Next]_vars => TypeOK'
  <2> SUFFICES ASSUME TypeOK, [Next]_vars PROVE TypeOK'
    OBVIOUS
  <2>1. CASE BeginRevoke \/ BeginTerminate \/ BeginUnlock
    BY <2>1, Sequences DEF TypeOK, BeginRevoke, BeginTerminate, BeginUnlock,
       Begin, edit
  <2>2. CASE RemoveAux
    <3>1. tripped' \in BOOLEAN
      BY <2>2, Zenon DEF TypeOK, RemoveAux
    <3>2. step' \in 1..(Len(TerminateAux) + 1)
      BY <2>2, Sequences, AuxOfCases DEF TypeOK, RemoveAux
    <3> QED
      BY <2>2, <3>1, <3>2 DEF TypeOK, RemoveAux, edit, watch
  <2>3. CASE ReplaceAccount
    BY <2>3, WriteType, Documents DEF TypeOK, ReplaceAccount, edit
  <2>4. CASE ResetCount
    <3>1. tripped' \in BOOLEAN
      BY <2>4, Zenon DEF TypeOK, ResetCount
    <3>2. step' \in 1..(Len(TerminateAux) + 1)
      BY <2>4, Sequences DEF TypeOK, ResetCount
    <3>3. atOnce' \in Accounts
      BY <2>4, Documents DEF TypeOK, ResetCount
    <3> QED
      BY <2>4, <3>1, <3>2, <3>3 DEF TypeOK, ResetCount, edit
  <2>5. CASE RemovePassword
    <3>1. NoPassword(copy) \in Accounts
      BY Documents DEF TypeOK
    <3> QED
      BY <2>5, <3>1, WriteType DEF TypeOK, RemovePassword, edit
  <2>6. CASE Crash
    BY <2>6, CrashesAssumption DEF TypeOK, Crash, edit
  <2>7. CASE BeginEdit \/ AbandonEdit
    BY <2>7 DEF TypeOK, BeginEdit, AbandonEdit, watch
  <2>8. CASE SaveEdit
    BY <2>8, WriteType DEF TypeOK, SaveEdit
  <2>9. ASSUME NEW c \in AppCollections, AppStores(c) PROVE TypeOK'
    BY <2>9, CollectionsAssumption DEF TypeOK, AppStores, edit
  <2>10. CASE AppLocks
    BY <2>10 DEF TypeOK, AppLocks, edit, watch
  <2>11. ASSUME NEW p \in Passwords, AppWrites("password", p) PROVE TypeOK'
    BY <2>11, WriteType, Documents DEF TypeOK, AppWrites, edit
  <2>12. ASSUME NEW s \in Statuses, AppWrites("status", s) PROVE TypeOK'
    BY <2>12, WriteType, Documents DEF TypeOK, AppWrites, edit
  <2>13. CASE UNCHANGED vars
    BY <2>13 DEF TypeOK, vars
  <2> QED
    BY <2>1, <2>2, <2>3, <2>4, <2>5, <2>6, <2>7, <2>8, <2>9, <2>10, <2>11,
       <2>12, <2>13
       DEF Next, ScriptStep, AppSetsPassword, AppTerminates, DaysPass, Statuses
<1> QED
  BY <1>1, <1>2, PTL DEF Spec

------------------------------------------------------------------------------
(* What the running script has emptied of a user's collections: all of     *)
(* them when it comes to the document itself.                              *)

LEMMA EmptiedStays ==
  ASSUME UNCHANGED <<script, step>>
  PROVE  Emptied' = Emptied
  BY DEF Emptied

LEMMA EmptiedGrows ==
  ASSUME TypeOK, RemoveAux
  PROVE  Emptied' \subseteq Emptied \cup {AuxOf(script)[step]}
<1>1. script' = script /\ step' = step + 1 /\ step \in Nat
  BY Sequences DEF TypeOK, RemoveAux
<1> QED
  BY <1>1 DEF Emptied

LEMMA EmptiedAll ==
  ASSUME TypeOK, step > Len(AuxOf(script))
  PROVE  /\ script = "revoke" => InSeq(RevokeAux) = Emptied
         /\ script = "terminate" => InSeq(TerminateAux) = Emptied
<1>1. step \in Nat
  BY Sequences DEF TypeOK
<1>2. ASSUME script = "revoke" PROVE InSeq(RevokeAux) = Emptied
  <2>1. AuxOf(script) = RevokeAux /\ DOMAIN RevokeAux = 1..5 /\ step > 5
    BY <1>2, AuxOfCases, Sequences
  <2>2. 1..(step - 1) \cap DOMAIN AuxOf(script) = 1..5
    BY <1>1, <2>1
  <2> QED
    BY <2>1, <2>2 DEF Emptied, InSeq
<1>3. ASSUME script = "terminate" PROVE InSeq(TerminateAux) = Emptied
  <2>1. AuxOf(script) = TerminateAux /\ DOMAIN TerminateAux = 1..7 /\ step > 7
    BY <1>3, AuxOfCases, Sequences
  <2>2. 1..(step - 1) \cap DOMAIN AuxOf(script) = 1..7
    BY <1>1, <2>1
  <2> QED
    BY <2>1, <2>2 DEF Emptied, InSeq
<1> QED
  BY <1>2, <1>3

(* A copy that a script or an editing script holds was read while the user *)
(* could be loaded; while a script runs the document is not emptied, and   *)
(* nothing but what came later is in the collections it has been through.  *)
UsableStatuses == {"active", "terminated", "due"}

LeftInv ==
    /\ script # "none" => Usable
    /\ copy.status \in UsableStatuses
    /\ draft.status \in UsableStatuses
    /\ script \in {"revoke", "terminate"} => aux \cap Emptied \subseteq late
    /\ NothingLeft

(* A write of a document that can be loaded keeps the invariant.           *)
LEMMA WriteUsable ==
  ASSUME TypeOK, LeftInv, NEW who, NEW doc \in Accounts, NEW ideal,
         doc.status \in UsableStatuses, Write(who, doc, ideal),
         UNCHANGED <<aux, step, copy, late, draft>>,
         script' \in {script, "none"}
  PROVE  LeftInv'
<1>1. account'.status \in UsableStatuses
  BY DEF Write
<1>2. script' \in {"revoke", "terminate"} => Emptied' = Emptied
  BY EmptiedStays DEF TypeOK
<1> QED
  BY <1>1, <1>2 DEF LeftInv, NothingLeft, Usable, UsableStatuses

LEMMA LeftStep == TypeOK /\ LeftInv /\ [Next]_vars => LeftInv'
<1> SUFFICES ASSUME TypeOK, LeftInv, [Next]_vars PROVE LeftInv'
  OBVIOUS
<1>1. CASE BeginRevoke \/ BeginTerminate \/ BeginUnlock
  <2>1. Usable /\ account.status \in UsableStatuses
    BY <1>1 DEF BeginRevoke, BeginTerminate, BeginUnlock, Usable, UsableStatuses
  <2>2. /\ account' = account /\ aux' = aux /\ draft' = draft
        /\ copy' = account /\ step' = 1
    BY <1>1 DEF BeginRevoke, BeginTerminate, BeginUnlock, Begin, edit
  <2>3. Emptied' = {}
    BY <2>2 DEF Emptied
  <2> QED
    BY <2>1, <2>2, <2>3 DEF LeftInv, NothingLeft, Usable, UsableStatuses
<1>2. CASE RemoveAux
  <2>1. Emptied' \subseteq Emptied \cup {AuxOf(script)[step]}
    BY <1>2, EmptiedGrows
  <2>2. /\ aux' = aux \ {AuxOf(script)[step]} /\ Usable
        /\ UNCHANGED <<account, script, copy, draft, late>>
        /\ script \in {"revoke", "terminate"}
    BY <1>2 DEF RemoveAux, edit, watch, LeftInv
  <2>3. aux' \cap Emptied' \subseteq late'
    BY <2>1, <2>2 DEF LeftInv
  <2> QED
    BY <2>2, <2>3 DEF LeftInv, NothingLeft, Usable
<1>3. CASE ReplaceAccount
  <2>1. account' = Emptying /\ script' = "none"
        /\ UNCHANGED <<aux, copy, draft, late>>
    BY <1>3 DEF ReplaceAccount, Write, edit
  <2>2. /\ account'.status = "revoked" => script = "revoke"
        /\ account'.status = "removed" => script = "terminate"
    BY <1>3, <2>1 DEF ReplaceAccount, Emptying, Bare
  <2>3. NothingLeft'
    <3>1. /\ script = "revoke" => InSeq(RevokeAux) = Emptied
          /\ script = "terminate" => InSeq(TerminateAux) = Emptied
      BY <1>3, EmptiedAll DEF ReplaceAccount
    <3> QED
      BY <2>1, <2>2, <3>1 DEF NothingLeft, LeftInv
  <2> QED
    BY <2>1, <2>3 DEF LeftInv
<1>4. CASE ResetCount
  <2>1. script \notin {"revoke", "terminate"} /\ script' \notin {"revoke", "terminate"}
        /\ Usable /\ UNCHANGED <<account, aux, copy, draft, late>>
    BY <1>4 DEF ResetCount, edit, LeftInv
  <2> QED
    BY <2>1 DEF LeftInv, NothingLeft, Usable
<1>5. CASE RemovePassword
  <2>1. NoPassword(copy) \in Accounts /\ NoPassword(copy).status = copy.status
    BY Documents DEF TypeOK, NoPassword, Accounts
  <2> QED
    BY <1>5, <2>1, WriteUsable DEF RemovePassword, edit, LeftInv
<1>6. CASE Crash
  <2>1. script' = "none" /\ UNCHANGED <<account, aux, copy, draft, late>>
    BY <1>6 DEF Crash, edit
  <2> QED
    BY <2>1 DEF LeftInv, NothingLeft
<1>7. CASE BeginEdit \/ AbandonEdit
  <2>1. UNCHANGED <<account, aux, script, step, copy, late>>
    BY <1>7 DEF BeginEdit, AbandonEdit, watch
  <2>2. draft'.status \in UsableStatuses
    BY <1>7 DEF BeginEdit, AbandonEdit, LeftInv, Usable, UsableStatuses
  <2>3. Emptied' = Emptied
    BY <2>1, EmptiedStays
  <2> QED
    BY <2>1, <2>2, <2>3 DEF LeftInv, NothingLeft, Usable
<1>8. CASE SaveEdit
  BY <1>8, WriteUsable DEF SaveEdit, LeftInv, TypeOK
<1>9. ASSUME NEW c \in AppCollections, AppStores(c) PROVE LeftInv'
  <2>1. /\ UNCHANGED <<account, script, step, copy, draft>> /\ Usable
        /\ aux' = aux \cup {c} /\ late' = late \cup ({c} \cap Emptied)
    BY <1>9 DEF AppStores, edit
  <2>2. Emptied' = Emptied
    BY <2>1, EmptiedStays
  <2> QED
    BY <2>1, <2>2 DEF LeftInv, NothingLeft, Usable
<1>10. CASE AppLocks
  <2>1. UNCHANGED <<account, aux, script, step, copy, draft, late>>
    BY <1>10 DEF AppLocks, edit, watch
  <2>2. Emptied' = Emptied
    BY <2>1, EmptiedStays
  <2> QED
    BY <2>1, <2>2 DEF LeftInv, NothingLeft, Usable
<1>11. CASE AppSetsPassword
  <2>1. PICK p \in Passwords : AppWrites("password", p)
    BY <1>11 DEF AppSetsPassword
  <2>2. [account EXCEPT !["password"] = p] \in Accounts
        /\ [account EXCEPT !["password"] = p].status = account.status
    BY Documents DEF TypeOK, Accounts
  <2>3. account.status \in UsableStatuses
    BY <1>11 DEF AppSetsPassword, Usable, UsableStatuses
  <2> QED
    BY <2>1, <2>2, <2>3, WriteUsable DEF AppWrites, edit
<1>12. ASSUME NEW s \in {"terminated", "due"}, AppWrites("status", s)
       PROVE  LeftInv'
  <2>1. [account EXCEPT !["status"] = s] \in Accounts
        /\ [account EXCEPT !["status"] = s].status = s
    BY Documents DEF TypeOK, Accounts, Statuses
  <2>2. [account EXCEPT !["status"] = s].status \in UsableStatuses
    BY <2>1 DEF UsableStatuses
  <2> QED
    BY <1>12, <2>1, <2>2, WriteUsable DEF AppWrites, edit
<1>13. CASE UNCHANGED vars
  <2>1. UNCHANGED <<account, aux, script, step, copy, draft, late>>
    BY <1>13 DEF vars
  <2>2. Emptied' = Emptied
    BY <2>1, EmptiedStays
  <2> QED
    BY <2>1, <2>2 DEF LeftInv, NothingLeft, Usable
<1> QED
  BY <1>1, <1>2, <1>3, <1>4, <1>5, <1>6, <1>7, <1>8, <1>9, <1>10, <1>11,
     <1>12, <1>13 DEF Next, ScriptStep, AppTerminates, DaysPass

(* Once the document is emptied, the collections of the script that did it *)
(* hold nothing of the user but what the webapps stored behind its back,   *)
(* however often earlier runs died half way and whatever the editing       *)
(* scripts save over it.                                                   *)
THEOREM NothingIsLeft == Spec => []NothingLeft
<1>1. Init => LeftInv
  <2> SUFFICES ASSUME Init PROVE LeftInv
    OBVIOUS
  <2>1. account.status = "active" /\ script = "none" /\ copy = account
        /\ draft = account
    BY DEF Init
  <2> QED
    BY <2>1 DEF LeftInv, NothingLeft, UsableStatuses
<1>2. TypeOK /\ LeftInv /\ [Next]_vars => LeftInv'
  BY LeftStep
<1>3. LeftInv => NothingLeft
  BY DEF LeftInv
<1> QED
  BY <1>1, <1>2, <1>3, TypeCorrect, PTL DEF Spec

------------------------------------------------------------------------------
(* A holder of a copy that nobody has overtaken holds the document as it   *)
(* is; the document is the one of the runs in one step, unless unlock-user *)
(* is between its two saves: then only the password is still there.        *)
LostInv ==
    /\ script # "none" /\ "script" \notin overtaken => copy = account
    /\ editing /\ "edit" \notin overtaken => draft = account
    /\ ~Halfway => account = atOnce
    /\ Halfway /\ "script" \notin overtaken => atOnce = NoPassword(account)

LEMMA LostStep == TypeOK /\ LostInv /\ [Next]_vars => LostInv'
<1> SUFFICES ASSUME TypeOK, LostInv, [Next]_vars PROVE LostInv'
  OBVIOUS
<1>1. CASE BeginRevoke \/ BeginTerminate \/ BeginUnlock
  BY <1>1 DEF BeginRevoke, BeginTerminate, BeginUnlock, Begin, edit, LostInv,
     Halfway
<1>2. CASE RemoveAux
  BY <1>2 DEF RemoveAux, edit, watch, LostInv, Halfway
<1>3. CASE ReplaceAccount
  BY <1>3 DEF ReplaceAccount, Write, edit, Holders, LostInv, Halfway
<1>4. CASE ResetCount
  BY <1>4 DEF ResetCount, edit, LostInv, Halfway
<1>5. CASE RemovePassword
  BY <1>5 DEF RemovePassword, Write, edit, Holders, LostInv, Halfway
<1>6. CASE Crash
  BY <1>6 DEF Crash, edit, LostInv, Halfway
<1>7. CASE BeginEdit \/ AbandonEdit
  BY <1>7 DEF BeginEdit, AbandonEdit, watch, LostInv, Halfway
<1>8. CASE SaveEdit
  BY <1>8 DEF SaveEdit, Write, Holders, LostInv, Halfway
<1>9. ASSUME NEW c \in AppCollections, AppStores(c) PROVE LostInv'
  BY <1>9 DEF AppStores, edit, LostInv, Halfway
<1>10. CASE AppLocks
  BY <1>10 DEF AppLocks, edit, watch, LostInv, Halfway
<1>11. ASSUME NEW field \in {"status", "password"}, NEW value,
              account[field] # value, AppWrites(field, value)
       PROVE  LostInv'
  <2>1. [account EXCEPT ![field] = value] # account
    BY <1>11 DEF TypeOK, Accounts
  <2>2. overtaken' = Holders /\ UNCHANGED <<script, step, editing>>
        /\ account' = [account EXCEPT ![field] = value]
        /\ atOnce' = IF "app" \in overtaken THEN account'
                     ELSE [atOnce EXCEPT ![field] = value]
    BY <1>11, <2>1 DEF AppWrites, Write, edit, Holders
  <2> QED
    BY <2>2 DEF LostInv, Halfway, Holders
<1>12. CASE UNCHANGED vars
  BY <1>12 DEF vars, LostInv, Halfway
<1>13. CASE AppSetsPassword \/ AppTerminates \/ DaysPass
  <2>1. \E field \in {"status", "password"}, value \in Passwords \cup Statuses :
           account[field] # value /\ AppWrites(field, value)
    BY <1>13 DEF AppSetsPassword, AppTerminates, DaysPass, Statuses
  <2> QED
    BY <1>11, <2>1
<1> QED
  BY <1>1, <1>2, <1>3, <1>4, <1>5, <1>6, <1>7, <1>8, <1>9, <1>10, <1>12,
     <1>13 DEF Next, ScriptStep

(* The document is what it would be had each run been one step, unless a   *)
(* copy was saved over a change its script had not seen, or unlock-user is *)
(* between its two saves.                                                  *)
THEOREM OnlyUnseenAreLost == Spec => []OnlyUnseenChangesAreLost
<1>1. Init => LostInv
  BY DEF Init, LostInv, Halfway
<1>2. TypeOK /\ LostInv /\ [Next]_vars => LostInv'
  BY LostStep
<1>3. LostInv => OnlyUnseenChangesAreLost
  BY DEF LostInv, OnlyUnseenChangesAreLost
<1> QED
  BY <1>1, <1>2, <1>3, TypeCorrect, PTL DEF Spec
==============================================================================
