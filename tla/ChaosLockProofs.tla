--------------------------- MODULE ChaosLockProofs ---------------------------
(***************************************************************************)
(* Proofs about ChaosLock, for any set of runs: type correctness, that a   *)
(* takeover rests on lasting evidence, and that between two runs the lock  *)
(* is exclusive whatever is killed when.  A third run breaks it (the run   *)
(* lock_mutex of the model checker), so the last results are about the     *)
(* time until one is started.                                              *)
(***************************************************************************)
EXTENDS ChaosLock, TLAPS

(* The actions, with the definitions every step needs. *)
Steps(r) ==
    \/ OpenExclusive(r) \/ FindExisting(r) \/ ReadHolder(r) \/ ProbeHolder(r)
    \/ RemoveStale(r) \/ Reopen(r) \/ WritePid(r) \/ WriteFails(r)
    \/ Finish(r) \/ Abort(r) \/ Cleanup(r) \/ CleanupOnExit(r) \/ Kill(r)

(* Every step of Next is one of the actions. *)
LEMMA NextIsSteps == Next <=> \E r \in Runs : Steps(r)
  BY DEF Next, RunStep, AcquireStep, Steps

------------------------------------------------------------------------------
(* Every step keeps the types of the variables. *)
LEMMA TypesKept == TypeOK /\ [Next]_lockVars => TypeOK'
<1> SUFFICES ASSUME TypeOK, [Next]_lockVars PROVE TypeOK'
  OBVIOUS
<1> USE KillsAssumption DEF TypeOK, Places, Acquiring, Goto
<1>1. ASSUME NEW r \in Runs, OpenExclusive(r) PROVE TypeOK'
  BY <1>1 DEF OpenExclusive, CreateFile
<1>2. ASSUME NEW r \in Runs, FindExisting(r) PROVE TypeOK'
  BY <1>2 DEF FindExisting
<1>3. ASSUME NEW r \in Runs, ReadHolder(r) PROVE TypeOK'
  BY <1>3 DEF ReadHolder
<1>4. ASSUME NEW r \in Runs, ProbeHolder(r) PROVE TypeOK'
  BY <1>4 DEF ProbeHolder
<1>5. ASSUME NEW r \in Runs, RemoveStale(r) PROVE TypeOK'
  BY <1>5 DEF RemoveStale
<1>6. ASSUME NEW r \in Runs, Reopen(r) PROVE TypeOK'
  BY <1>6 DEF Reopen, CreateFile
<1>7. ASSUME NEW r \in Runs, WritePid(r) PROVE TypeOK'
  BY <1>7 DEF WritePid
<1>8. ASSUME NEW r \in Runs, WriteFails(r) \/ Finish(r) \/ Abort(r)
      PROVE TypeOK'
  BY <1>8 DEF WriteFails, Finish, Abort
<1>9. ASSUME NEW r \in Runs, Cleanup(r) \/ CleanupOnExit(r) PROVE TypeOK'
  BY <1>9 DEF Cleanup, CleanupOnExit, ReleaseChaosLock
<1>10. ASSUME NEW r \in Runs, Kill(r) PROVE TypeOK'
  BY <1>10 DEF Kill
<1>11. CASE UNCHANGED lockVars
  BY <1>11 DEF lockVars
<1> QED
  BY <1>1, <1>2, <1>3, <1>4, <1>5, <1>6, <1>7, <1>8, <1>9, <1>10, <1>11,
     NextIsSteps DEF Steps

(* The variables keep their types. *)
THEOREM TypeCorrect == Spec => []TypeOK
<1>1. Init => TypeOK
  BY KillsAssumption DEF Init, TypeOK, Places, Acquiring
<1> QED
  BY <1>1, TypesKept, PTL DEF Spec

------------------------------------------------------------------------------
(* Takeover evidence.  "Over" includes runs not yet started, so the        *)
(* invariant has to say that a pid found in a file was of a started run;   *)
(* a run has read no pid before it reads the file.                         *)
EvidenceInv ==
    /\ \A q \in written : pc[q] # "idle"
    /\ \A r \in Runs : seen[r] # NoFile => pc[seen[r]] # "idle"
    /\ \A r \in Runs : pc[r] \in {"idle", "reading"} => seen[r] = NoFile
    /\ TakeoverHasEvidence

(* A run that starts removing a lock has seen its holder over, for good,   *)
(* or the file gone: what ProbeHolder learned cannot become untrue.        *)
THEOREM TakeoverEvidence == Spec => []TakeoverHasEvidence
<1>1. Init => EvidenceInv
  BY DEF Init, EvidenceInv, TakeoverHasEvidence
<1>2. TypeOK /\ EvidenceInv /\ [Next]_lockVars => EvidenceInv'
  <2> SUFFICES ASSUME TypeOK, EvidenceInv, [Next]_lockVars
               PROVE  EvidenceInv'
    OBVIOUS
  <2> USE NoFileAssumption DEF TypeOK, EvidenceInv, TakeoverHasEvidence,
          Alive, Over, Goto
  <2>1. ASSUME NEW r \in Runs, OpenExclusive(r) \/ FindExisting(r)
        PROVE  EvidenceInv'
    BY <2>1 DEF OpenExclusive, CreateFile, FindExisting
  <2>2. ASSUME NEW r \in Runs, ReadHolder(r) PROVE EvidenceInv'
    <3>1. CASE lock = NoFile /\ Goto(r, "removing") /\ UNCHANGED seen
      BY <2>2, <3>1 DEF ReadHolder
    <3>2. CASE lock # NoFile /\ Goto(r, "denied") /\ UNCHANGED seen
      BY <2>2, <3>2 DEF ReadHolder
    <3>3. CASE lock \in written /\ seen' = [seen EXCEPT ![r] = lock]
                 /\ Goto(r, "probing")
      BY <2>2, <3>3 DEF ReadHolder
    <3> QED
      BY <2>2, <3>1, <3>2, <3>3 DEF ReadHolder
  <2>3. ASSUME NEW r \in Runs, ProbeHolder(r) PROVE EvidenceInv'
    BY <2>3 DEF ProbeHolder
  <2>4. ASSUME NEW r \in Runs, RemoveStale(r) \/ Reopen(r) PROVE EvidenceInv'
    BY <2>4 DEF RemoveStale, Reopen, CreateFile
  <2>5. ASSUME NEW r \in Runs, WritePid(r) PROVE EvidenceInv'
    BY <2>5 DEF WritePid
  <2>6. ASSUME NEW r \in Runs, WriteFails(r) \/ Finish(r) \/ Abort(r)
        PROVE  EvidenceInv'
    BY <2>6 DEF WriteFails, Finish, Abort
  <2>7. ASSUME NEW r \in Runs, Cleanup(r) \/ CleanupOnExit(r)
        PROVE  EvidenceInv'
    BY <2>7 DEF Cleanup, CleanupOnExit
  <2>8. ASSUME NEW r \in Runs, Kill(r) PROVE EvidenceInv'
    BY <2>8 DEF Kill
  <2>9. CASE UNCHANGED lockVars
    BY <2>9 DEF lockVars
  <2> QED
    BY <2>1, <2>2, <2>3, <2>4, <2>5, <2>6, <2>7, <2>8, <2>9,
       NextIsSteps DEF Steps
<1>3. EvidenceInv => TakeoverHasEvidence
  BY DEF EvidenceInv
<1> QED
  BY <1>1, <1>2, <1>3, TypeCorrect, PTL DEF Spec

------------------------------------------------------------------------------
(* Two runs.  A run that is over with the lock never comes back to it.     *)
Started(p) == pc[p] # "idle"

Past(p) == p \notin fd /\ pc[p] \in {"ending", "exited", "killed"}

Contending == {"reading", "probing", "removing", "reopening"}

FileIsHolders == \A r \in fd : lock = r

FdMatchesPlace ==
    \A r \in Runs :
        /\ pc[r] \in {"writing", "held"} => r \in fd
        /\ r \in fd => pc[r] \in {"writing", "held", "cleanup", "ending"}

FileHasOwner == lock \in Runs => lock \in fd \/ pc[lock] = "killed"

(* Whoever found the path taken is not the only run, and the others are    *)
(* owners of the lock, or past it.                                         *)
ContenderMeetsOwner ==
    \A r \in Runs : pc[r] \in Contending =>
        /\ \E p \in Runs : p # r /\ Started(p)
        /\ \A p \in Runs : p # r /\ Started(p) => p \in fd \/ Past(p)

(* Whoever removes the file knows that the other run is past the lock.     *)
TakerIsAlone ==
    \A r, p \in Runs :
        p # r /\ Started(p) /\ pc[r] \in {"removing", "reopening"} => Past(p)

ProbesAnother ==
    \A r \in Runs : pc[r] = "probing" =>
        seen[r] \in Runs /\ seen[r] # r /\ Started(seen[r])

TwoRunInv ==
    /\ FileIsHolders
    /\ FdMatchesPlace
    /\ FileHasOwner
    /\ ContenderMeetsOwner
    /\ TakerIsAlone
    /\ ProbesAnother

LEMMA TwoRunInvInit == Init => TwoRunInv
  BY NoFileAssumption
  DEF Init, TwoRunInv, FileIsHolders, FdMatchesPlace, FileHasOwner,
      ContenderMeetsOwner, TakerIsAlone, ProbesAnother, Past, Contending,
      Started

(* Nobody becomes idle again, so a third run stays one. *)
LEMMA StartedStays ==
  ASSUME TypeOK, [Next]_lockVars, NEW p \in Runs, Started(p)
  PROVE  Started(p)'
<1>1. ASSUME NEW r \in Runs, Steps(r) PROVE Started(p)'
  BY <1>1 DEF Steps, OpenExclusive, CreateFile, FindExisting, ReadHolder,
     ProbeHolder, RemoveStale, Reopen, WritePid, WriteFails, Finish, Abort,
     Cleanup, CleanupOnExit, Kill, Goto, Started, TypeOK
<1>2. CASE UNCHANGED lockVars
  BY <1>2 DEF lockVars, Started
<1> QED
  BY <1>1, <1>2, NextIsSteps

LEMMA ThirdRunStays == TypeOK /\ [Next]_lockVars /\ ThirdRun => ThirdRun'
  BY StartedStays DEF ThirdRun, Started

(* Every step keeps it, unless it starts a third run. *)
LEMMA TwoRunInvStep ==
  TypeOK /\ TwoRunInv /\ [Next]_lockVars /\ ~ThirdRun' => TwoRunInv'
<1> SUFFICES ASSUME TypeOK, TwoRunInv, [Next]_lockVars, ~ThirdRun'
             PROVE  TwoRunInv'
  OBVIOUS
<1>0. \A p, q, r \in Runs :
        Started(p)' /\ Started(q)' /\ Started(r)' => p = q \/ q = r \/ p = r
  BY DEF ThirdRun, Started
<1> USE NoFileAssumption
    DEF TypeOK, TwoRunInv, FileIsHolders, FdMatchesPlace, FileHasOwner,
        ContenderMeetsOwner, TakerIsAlone, ProbesAnother, Past, Contending,
        Goto
<1>1. ASSUME NEW r \in Runs, OpenExclusive(r) PROVE TwoRunInv'
  <2>1. pc[r] = "idle" /\ Started(r)'
    BY <1>1 DEF OpenExclusive, CreateFile, Started
  <2>2. \A p \in Runs : pc[p] \notin Contending
    BY <1>0, <2>1, StartedStays DEF Started
  <2> QED
    BY <1>1, <2>1, <2>2 DEF OpenExclusive, CreateFile, Started
<1>2. ASSUME NEW r \in Runs, FindExisting(r) PROVE TwoRunInv'
  <2>1. lock \in Runs /\ lock # r /\ (lock \in fd \/ Past(lock))
    BY <1>2 DEF FindExisting
  <2>2. Started(lock) /\ Started(r)' /\ pc[r] = "idle"
    BY <1>2, <2>1 DEF Started, FindExisting
  <2>3. \A p \in Runs : p # r /\ Started(p) => p = lock
    BY <1>0, <2>1, <2>2, StartedStays DEF Started
  <2> QED
    BY <1>2, <2>1, <2>2, <2>3 DEF FindExisting, Started
<1>3. ASSUME NEW r \in Runs, ReadHolder(r) PROVE TwoRunInv'
  <2>1. CASE lock = NoFile /\ Goto(r, "removing") /\ UNCHANGED seen
    BY <1>3, <2>1 DEF ReadHolder, Started
  <2>2. CASE lock # NoFile /\ Goto(r, "denied") /\ UNCHANGED seen
    BY <1>3, <2>2 DEF ReadHolder, Started
  <2>3. CASE lock \in written /\ seen' = [seen EXCEPT ![r] = lock]
               /\ Goto(r, "probing")
    <3>1. lock \in Runs /\ lock # r /\ Started(lock)
      BY <1>3, <2>3 DEF ReadHolder, Started
    <3> QED
      BY <1>3, <2>3, <3>1 DEF ReadHolder, Started
  <2> QED
    BY <1>3, <2>1, <2>2, <2>3 DEF ReadHolder
<1>4. ASSUME NEW r \in Runs, ProbeHolder(r) PROVE TwoRunInv'
  <2>1. CASE Alive(seen[r])
    BY <1>4, <2>1 DEF ProbeHolder, Started
  <2>2. CASE ~Alive(seen[r])
    <3>1. Past(seen[r])
      BY <1>4, <2>2 DEF ProbeHolder, Alive, Over, Started
    <3>2. \A p \in Runs : p # r /\ Started(p) => p = seen[r]
      BY <1>0, <1>4, StartedStays DEF ProbeHolder, Started
    <3> QED
      BY <1>4, <2>2, <3>1, <3>2 DEF ProbeHolder, Started
  <2> QED
    BY <2>1, <2>2
<1>5. ASSUME NEW r \in Runs, RemoveStale(r) PROVE TwoRunInv'
  <2>1. fd = {}
    BY <1>5 DEF RemoveStale, Started
  <2> QED
    BY <1>5, <2>1 DEF RemoveStale, Started
<1>6. ASSUME NEW r \in Runs, Reopen(r) PROVE TwoRunInv'
  <2>1. fd = {}
    BY <1>6 DEF Reopen, Started
  <2>2. \A p \in Runs : p # r => pc[p] \notin Contending
    BY <1>6 DEF Reopen, Started
  <2>3. CASE CreateFile(r)
    BY <1>6, <2>1, <2>2, <2>3 DEF Reopen, CreateFile, Started
  <2>4. CASE ~CreateFile(r)
    BY <1>6, <2>1, <2>2, <2>4 DEF Reopen, Started
  <2> QED
    BY <2>3, <2>4
<1>7. ASSUME NEW r \in Runs, WritePid(r) PROVE TwoRunInv'
  BY <1>7 DEF WritePid, Started
<1>8. ASSUME NEW r \in Runs, WriteFails(r) \/ Finish(r) \/ Abort(r)
      PROVE  TwoRunInv'
  BY <1>8 DEF WriteFails, Finish, Abort, Started
<1>9. ASSUME NEW r \in Runs, Cleanup(r) \/ CleanupOnExit(r)
      PROVE  TwoRunInv'
  BY <1>9 DEF Cleanup, CleanupOnExit, ReleaseChaosLock, Started
<1>10. ASSUME NEW r \in Runs, Kill(r) PROVE TwoRunInv'
  BY <1>10 DEF Kill, Alive, Over, Started
<1>11. CASE UNCHANGED lockVars
  BY <1>11 DEF lockVars, Started
<1> QED
  BY <1>1, <1>2, <1>3, <1>4, <1>5, <1>6, <1>7, <1>8, <1>9, <1>10, <1>11,
     NextIsSteps DEF Steps

(* The inductive invariant of the whole life of the lock. *)
LEMMA TwoRunsInvariant == Spec => [](TypeOK /\ (ThirdRun \/ TwoRunInv))
  BY TwoRunInvInit, TwoRunInvStep, ThirdRunStays, TypeCorrect, PTL DEF Spec

(* Until a third run is started nobody touches the holder's file, wherever *)
(* a run is killed.                                                        *)
THEOREM HolderKeepsFile == Spec => []HolderOwnsFile
<1>1. ThirdRun \/ TwoRunInv => HolderOwnsFile
  BY DEF TwoRunInv, HolderOwnsFile, FileIsHolders
<1> QED
  BY <1>1, TwoRunsInvariant, PTL

(* Until a third run is started, two runs never both hold the lock.        *)
THEOREM TwoRunsExclude == Spec => [](ThirdRun \/ MutualExclusion)
<1>1. TwoRunInv => MutualExclusion
  BY DEF TwoRunInv, FileIsHolders, FdMatchesPlace, MutualExclusion
<1> QED
  BY <1>1, TwoRunsInvariant, PTL

(* ChaosLock implements FreezeMutex, the descriptors being the holders     *)
(* until a third run is started.                                           *)
THEOREM RefinesMutex == Spec => ImplementsMutex
<1> DEFINE holders == IF ThirdRun THEN {} ELSE fd
<1>1. Init => Mutex!Init
  BY DEF Init, Mutex!Init
<1>2. ASSUME TypeOK, TwoRunInv, [Next]_lockVars
      PROVE  fd' = fd \/ (\E r \in Runs : fd = {} /\ fd' = {r})
               \/ (\E r \in Runs : r \in fd /\ fd' = fd \ {r})
  <2> USE NoFileAssumption DEF TypeOK
  <2>1. ASSUME NEW r \in Runs, CreateFile(r) PROVE fd = {} /\ fd' = {r}
    <3>1. fd = {}
      BY <2>1, <1>2 DEF CreateFile, TwoRunInv, FileIsHolders
    <3> QED
      BY <2>1, <3>1 DEF CreateFile
  <2>2. ASSUME NEW r \in Runs, ReleaseChaosLock(r) \/ Kill(r)
        PROVE  fd' = fd \/ (r \in fd /\ fd' = fd \ {r})
    BY <2>2, <1>2 DEF ReleaseChaosLock, Kill
  <2>3. ASSUME NEW r \in Runs, Steps(r)
        PROVE  CreateFile(r) \/ ReleaseChaosLock(r) \/ Kill(r)
                 \/ UNCHANGED fd
    BY <2>3 DEF Steps, OpenExclusive, FindExisting, ReadHolder, ProbeHolder,
       RemoveStale, Reopen, WritePid, WriteFails, Finish, Abort, Cleanup,
       CleanupOnExit
  <2>4. CASE UNCHANGED lockVars
    BY <2>4 DEF lockVars
  <2> QED
    BY <1>2, <2>1, <2>2, <2>3, <2>4, NextIsSteps
<1>3. TypeOK /\ (ThirdRun \/ TwoRunInv) /\ [Next]_lockVars
        => [Mutex!Next]_holders
  <2> SUFFICES ASSUME TypeOK, ThirdRun \/ TwoRunInv, [Next]_lockVars
               PROVE  Mutex!Next \/ holders' = holders
    OBVIOUS
  <2>1. CASE ThirdRun
    BY <2>1, ThirdRunStays
  <2>2. CASE ~ThirdRun /\ ~ThirdRun'
    BY <2>2, <1>2 DEF Mutex!Next, Mutex!Take, Mutex!Leave
  <2>3. CASE ~ThirdRun /\ ThirdRun'
    <3>1. CASE fd = {}
      BY <2>3, <3>1
    <3>2. ASSUME NEW r \in fd PROVE Mutex!Leave(r)
      <4>1. fd = {r}
        BY <2>3, <3>2 DEF TwoRunInv, FileIsHolders
      <4> QED
        BY <2>3, <4>1 DEF Mutex!Leave
    <3> QED
      BY <3>1, <3>2 DEF Mutex!Next, TypeOK
  <2> QED
    BY <2>1, <2>2, <2>3
<1> QED
  BY <1>1, <1>3, TwoRunsInvariant, PTL
  DEF Spec, ImplementsMutex, Mutex!Spec

==============================================================================
