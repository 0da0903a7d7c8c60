-------------------------- MODULE SuiteRunsProofs --------------------------
(***************************************************************************)
(* Proofs about whole runs, for any number of them, any checkouts and any  *)
(* bounds on what is killed or fails: nothing is left behind by runs that  *)
(* end, a frozen MongoDB has its freezer with the lock, and only a stack   *)
(* of the run's own checkout is frozen.                                    *)
(*                                                                         *)
(* A whole run takes the steps of the lock and, in between, others, so     *)
(* what ChaosLockProofs shows of the lock holds of whole runs (OfLock).    *)
(* Each invariant below belongs to one part and is kept by the steps of    *)
(* that part; only Lockstep speaks about where a run is in both.           *)
(***************************************************************************)
EXTENDS SuiteRuns, TLAPS

OfLock == INSTANCE ChaosLockProofs

------------------------------------------------------------------------------
(* The steps of a whole run, seen from each part *)

FreezeSteps(r) ==
    \/ AcquireStep(r) \/ CheckTarget(r) \/ StartupCheck(r) \/ StartupUnpause(r)
    \/ ReadinessCheck(r) \/ ReadinessUnpause(r) \/ Freeze(r) \/ AwaitFrozen(r)
    \/ BodyEnds(r) \/ Unfreeze(r)
    \/ Finish(r) \/ ThawAll(r) \/ Release(r) \/ CleanupOnExit(r) \/ Kill(r)

(* A step of the probe counts, for the rest, only where it fails: the two  *)
(* parts share the docker client.                                          *)
FaultElsewhere ==
    /\ faults' \in {faults, faults + 1}
    /\ faults' <= MaxCliFaults
    /\ UNCHANGED <<lockVars, stage, frozen, pausedBy, stackVars>>

(* For the lock and the freeze every step is one of MongoFreeze, or that.  *)
LEMMA SeenByFreeze ==
  ASSUME SuiteTypeOK, [SuiteNext]_suiteVars
  PROVE  \/ \E r \in Runs : FreezeSteps(r)
         \/ \E s \in Stacks : SwapStack(s)
         \/ FaultElsewhere
<1> USE FaultsAssumption DEF SuiteTypeOK, TypeOK, FreezeSteps, FaultElsewhere
<1>1. ASSUME NEW r \in Runs,
             StartUp(r) \/ TestStep(r) \/ Leave(r) \/ CleanUp(r) \/ Exit(r)
               \/ KillRun(r)
      PROVE  FreezeSteps(r)
  BY <1>1 DEF StartUp, TestStep, Leave, CleanUp, Exit, KillRun, Startup, InTests
<1>2. ASSUME NEW r \in Runs, StartTests(r) \/ UseProbe(r) \/ RemoveProbe(r)
      PROVE  FaultElsewhere
  <2>1. UNCHANGED <<lockVars, stage, frozen, pausedBy, stackVars>>
    BY <1>2 DEF StartTests, UseProbe, RemoveProbe
  <2>2. ASSUME NEW there, NEW thrown, Probe!Docker(there, thrown)
        PROVE  faults' \in {faults, faults + 1} /\ faults' <= MaxCliFaults
    BY <2>2 DEF Probe!Docker
  <2>3. faults' = faults \/ \E there, thrown \in BOOLEAN : Probe!Docker(there, thrown)
    BY <1>2 DEF StartTests, UseProbe, RemoveProbe, Probe!Start, Probe!EnsureProbe,
       Probe!ExecProbe, Probe!RemoveProbe
  <2> QED
    BY <2>1, <2>2, <2>3
<1>3. CASE UNCHANGED suiteVars
  BY <1>3 DEF suiteVars, lockVars, stackVars
<1> QED
  BY <1>1, <1>2, <1>3 DEF SuiteNext, SuiteStep, Swap

ProbeSteps(r) ==
    \/ Probe!Start(r) \/ Probe!EnsureProbe(r) \/ Probe!ExecProbe(r)
    \/ Probe!Finish(r) \/ Probe!RemoveProbe(r) \/ Probe!Kill(r)

(* A new container has no probe; the runs keep their flags.                *)
Replaced ==
    /\ ~file' /\ replaced' = replaced \cup probeInContainer
    /\ UNCHANGED <<place, probeInContainer, lost>>

(* For the probe every step is one of ProbeInstall, or nothing.            *)
LEMMA SeenByProbe ==
  ASSUME [SuiteNext]_suiteVars
  PROVE  (\E r \in Runs : ProbeSteps(r)) \/ Replaced \/ UNCHANGED probeVars
<1>1. ASSUME NEW r \in Runs, SuiteStep(r) \/ KillRun(r)
      PROVE  ProbeSteps(r) \/ UNCHANGED probeVars
  BY <1>1 DEF SuiteStep, StartUp, StartTests, UseProbe, TestStep, Leave, CleanUp,
     RemoveProbe, Exit, KillRun, ProbeSteps
<1>2. CASE UNCHANGED suiteVars
  BY <1>2 DEF suiteVars, probeVars
<1>3. ASSUME NEW s, Swap(s) PROVE Replaced \/ UNCHANGED probeVars
  BY <1>3 DEF Swap, Probe!ReplaceContainer, Replaced
<1> QED
  BY <1>1, <1>2, <1>3 DEF SuiteNext

------------------------------------------------------------------------------
(* The lock *)

LEMMA LockInit == SuiteInit => OfLock!Init
  BY DEF SuiteInit, Init, Lock!Init, OfLock!Init

(* SuiteRuns and ChaosLockProofs speak of the same steps.                  *)
LEMMA SameSteps ==
  /\ Lock!Next <=> OfLock!Next
  /\ [Lock!Next]_(Lock!lockVars) <=> [OfLock!Next]_(OfLock!lockVars)
<1>1. Lock!Next <=> OfLock!Next
  BY
  DEF Lock!Next, Lock!RunStep, Lock!AcquireStep, Lock!OpenExclusive,
      Lock!CreateFile, Lock!FindExisting, Lock!ReadHolder, Lock!ProbeHolder, Lock!RemoveStale, Lock!Reopen,
      Lock!WritePid, Lock!WriteFails, Lock!Finish, Lock!Abort, Lock!Cleanup,
      Lock!CleanupOnExit, Lock!Kill, Lock!ReleaseChaosLock, Lock!Alive, Lock!Over,
      Lock!Goto,
      OfLock!Next, OfLock!RunStep, OfLock!AcquireStep, OfLock!OpenExclusive,
      OfLock!CreateFile, OfLock!FindExisting, OfLock!ReadHolder,
      OfLock!ProbeHolder, OfLock!RemoveStale, OfLock!Reopen, OfLock!WritePid,
      OfLock!WriteFails, OfLock!Finish, OfLock!Abort, OfLock!Cleanup,
      OfLock!CleanupOnExit, OfLock!Kill, OfLock!ReleaseChaosLock, OfLock!Alive,
      OfLock!Over, OfLock!Goto
<1> QED
  BY <1>1 DEF Lock!lockVars, OfLock!lockVars

(* The whole run takes the steps of the lock one by one.                   *)
LEMMA LockStep ==
  ASSUME SuiteTypeOK, [SuiteNext]_suiteVars
  PROVE  [OfLock!Next]_(OfLock!lockVars)
<1>1. ASSUME NEW r \in Runs,
             Lock!AcquireStep(r) \/ Lock!Finish(r) \/ Lock!Abort(r)
               \/ Lock!Cleanup(r) \/ Lock!CleanupOnExit(r) \/ Lock!Kill(r)
      PROVE  OfLock!Next
  BY <1>1, SameSteps DEF Lock!Next, Lock!RunStep
<1>2. ASSUME NEW r \in Runs, FreezeSteps(r)
      PROVE  \/ Lock!AcquireStep(r) \/ Lock!Finish(r) \/ Lock!Abort(r)
             \/ Lock!Cleanup(r) \/ Lock!CleanupOnExit(r) \/ Lock!Kill(r)
             \/ UNCHANGED lockVars
  BY <1>2 DEF FreezeSteps, AcquireStep, CheckTarget, StartupCheck, StartupUnpause,
     ReadinessCheck, ReadinessUnpause, Freeze, AwaitFrozen, BodyEnds, Unfreeze,
     Finish, ThawAll, Release, CleanupOnExit, Kill
<1> QED
  BY <1>1, <1>2, SeenByFreeze DEF SwapStack, FaultElsewhere, lockVars, OfLock!lockVars

LEMMA SameTypes ==
  (Lock!TypeOK <=> OfLock!TypeOK) /\ (Lock!TypeOK' <=> OfLock!TypeOK')
  BY DEF Lock!TypeOK, Lock!Places, Lock!Acquiring, OfLock!TypeOK, OfLock!Places,
     OfLock!Acquiring
------------------------------------------------------------------------------
(* The inductive invariant, part by part *)

(* The descriptor of a run is open while it holds the lock.                *)
DescriptorInv ==
    \A r \in Runs :
        /\ pc[r] \in {"writing", "held"} => r \in fd
        /\ r \in fd => pc[r] \in {"writing", "held", "cleanup", "ending"}

(* A lock file belongs to a run that will remove it, or was killed.        *)
FileInv == lock \in Runs => lock \in fd \/ pc[lock] = "killed"

KilledInv == kills = 0 => \A r \in Runs : pc[r] # "killed"

InStartup(r) ==
    \/ pc[r] \in {"idle"} \cup Lock!Acquiring
    \/ pc[r] = "held" /\ stage[r] \in {"target", "startup", "unpausing"}

(* A run has the container in its set `frozen` from the freeze to the first*)
(* half of its cleanup, and holds the lock all that time.                  *)
FrozenInv ==
    \A r \in frozen :
        /\ r \in fd
        /\ \/ pc[r] = "held" /\ ~InStartup(r)
           \/ pc[r] = "cleanup" /\ stage[r] = "thawAll"

(* Whoever has paused MongoDB will unpause it, or cannot any more.         *)
PausedInv ==
    paused /\ faults = 0 => pausedBy \in frozen \/ pc[pausedBy] = "killed"

(* Past its look at the labels a run accepts the stack it found then.      *)
AcceptedInv ==
    \A r \in Runs :
        pc[r] = "held" /\ stage[r] \notin {"none", "target", "calm"} =>
            Accepts(r) \/ r \in stale

(* Where a run is for the probe and where it is for the lock.              *)
Lockstep ==
    \A r \in Runs :
        /\ InStartup(r) => place[r] = "idle"
        /\ place[r] \in {"suite", "exec"} => pc[r] \in {"held", "denied"}
        /\ place[r] = "cleanup" => pc[r] \in {"cleanup", "ending"}

(* A probe in the container has a run that will remove it.                 *)
ProbeInv == file /\ kills = 0 /\ faults = 0 => probeInContainer # {}

(* A run that has copied the probe finds it, unless the container is       *)
(* another one, or another run's cleanup came between.                     *)
LossInv ==
    /\ \A r \in Runs : place[r] = "exec" => r \in probeInContainer
    /\ \A r \in lost \cup (IF file THEN {} ELSE probeInContainer) :
          r \in replaced \/ \E q \in Runs \ {r} : place[q] = "exited"

------------------------------------------------------------------------------
(* Types *)

LEMMA TypesInit == SuiteInit => SuiteTypeOK
<1> SUFFICES ASSUME SuiteInit PROVE SuiteTypeOK
  OBVIOUS
<1> USE LockAssumption, FaultsAssumption DEF SuiteInit, Init, Probe!Init
<1>1. TypeOK
  BY DEF Lock!Init, TypeOK, Lock!TypeOK, Lock!Places, Lock!Acquiring, Stages
<1>2. /\ place \in [Runs -> Probe!Places]
      /\ probeInContainer \subseteq {r \in Runs : Probe!Alive(r)}
  BY DEF Probe!Places
<1>3. file \in BOOLEAN
  OBVIOUS
<1>4. lost \subseteq Runs /\ replaced \subseteq Runs /\ kills \in 0..MaxKills /\ faults \in 0..MaxCliFaults
  OBVIOUS
<1> QED
  BY <1>1, <1>2, <1>3, <1>4 DEF SuiteTypeOK, Probe!TypeOK

LEMMA FreezeTypes ==
  ASSUME SuiteTypeOK, [SuiteNext]_suiteVars
  PROVE  TypeOK'
<1>1. Lock!TypeOK'
  <2>1. OfLock!TypeOK'
    BY LockStep, SameTypes, LockAssumption, OfLock!TypesKept DEF SuiteTypeOK, TypeOK
  <2> QED
    BY <2>1, SameTypes
<1> USE <1>1, FaultsAssumption DEF SuiteTypeOK, TypeOK, Stages, Enter
<1>2. ASSUME NEW r \in Runs, FreezeSteps(r) PROVE TypeOK'
  <2> USE DEF stackVars, freezeVars
  <2>1. CASE AcquireStep(r)
    BY <2>1 DEF AcquireStep
  <2>2. CASE CheckTarget(r) \/ StartupCheck(r) \/ AwaitFrozen(r)
    BY <2>2 DEF CheckTarget, StartupCheck, AwaitFrozen, ContainerPaused
  <2>3. CASE StartupUnpause(r) \/ ReadinessUnpause(r) \/ Unfreeze(r) \/ ThawAll(r)
    <3>1. pausedBy' \in Runs \cup {NoRun} /\ faults' \in 0..MaxCliFaults
      BY <2>3 DEF StartupUnpause, ReadinessUnpause, Unfreeze, ThawAll, DockerUnpause
    <3> QED
      BY <2>3, <3>1 DEF StartupUnpause, ReadinessUnpause, Unfreeze, ThawAll
  <2>4. CASE Freeze(r)
    <3>1. pausedBy' \in Runs \cup {NoRun} /\ faults' \in 0..MaxCliFaults
      BY <2>4 DEF Freeze, DockerPause
    <3> QED
      BY <2>4, <3>1 DEF Freeze
  <2>5. CASE ReadinessCheck(r) \/ BodyEnds(r) \/ Finish(r) \/ Release(r)
               \/ CleanupOnExit(r) \/ Kill(r)
    BY <2>5 DEF ReadinessCheck, BodyEnds, Finish, Release, CleanupOnExit, Kill
  <2> QED
    BY <1>2, <2>1, <2>2, <2>3, <2>4, <2>5 DEF FreezeSteps
<1>3. ASSUME NEW s \in Stacks, SwapStack(s) PROVE TypeOK'
  BY <1>3 DEF SwapStack
<1>4. CASE FaultElsewhere
  BY <1>4 DEF FaultElsewhere, stackVars
<1> QED
  BY <1>2, <1>3, <1>4, SeenByFreeze

LEMMA ProbeTypes ==
  ASSUME SuiteTypeOK, [SuiteNext]_suiteVars
  PROVE  Probe!TypeOK'
<1>1. kills' \in 0..MaxKills /\ faults' \in 0..MaxCliFaults
  BY FreezeTypes DEF TypeOK, Lock!TypeOK
<1> USE <1>1 DEF SuiteTypeOK, Probe!TypeOK, Probe!Places, Probe!Alive, Probe!Goto
<1>2. ASSUME NEW r \in Runs, Probe!Start(r) \/ Probe!ExecProbe(r) \/ Probe!Finish(r)
      PROVE  Probe!TypeOK'
  BY <1>2 DEF Probe!Start, Probe!ExecProbe, Probe!Finish
<1>3. ASSUME NEW r \in Runs, Probe!EnsureProbe(r) \/ Probe!RemoveProbe(r)
      PROVE  Probe!TypeOK'
  BY <1>3 DEF Probe!EnsureProbe, Probe!RemoveProbe, Probe!Docker
<1>4. ASSUME NEW r \in Runs, Probe!Kill(r) PROVE Probe!TypeOK'
  BY <1>4 DEF Probe!Kill
<1>5. CASE Replaced
  <2>1. UNCHANGED <<place, probeInContainer, lost>> /\ file' = FALSE
        /\ replaced' = replaced \cup probeInContainer
    BY <1>5 DEF Replaced
  <2> QED
    BY <2>1
<1>6. CASE UNCHANGED probeVars
  BY <1>6 DEF probeVars
<1> QED
  BY <1>2, <1>3, <1>4, <1>5, <1>6, SeenByProbe DEF ProbeSteps

(* A step of the suite or a failing command of the probe keeps Lockstep    *)
(* because every handler that leaves the startup, or the tests, does so in *)
(* both parts at once.                                                     *)
LEMMA LockstepKept ==
  ASSUME SuiteTypeOK, Lockstep, [SuiteNext]_suiteVars
  PROVE  Lockstep'
<1> USE DEF SuiteTypeOK, TypeOK, Lock!TypeOK, Probe!TypeOK, Lockstep, InStartup,
        Lock!Acquiring, At, Enter, Lock!Goto, Probe!Goto
<1>1. ASSUME NEW r \in Runs, StartUp(r) PROVE Lockstep'
  <2>1. InStartup(r) /\ UNCHANGED place
    BY <1>1 DEF StartUp, Startup, AcquireStep, CheckTarget, StartupCheck,
       StartupUnpause, Lock!AcquireStep, Lock!OpenExclusive, Lock!FindExisting,
       Lock!ReadHolder, Lock!ProbeHolder, Lock!RemoveStale, Lock!Reopen,
       Lock!WritePid, Lock!WriteFails, probeVars
  <2>2. \A p \in Runs : p # r => pc'[p] = pc[p] /\ stage'[p] = stage[p]
    BY <1>1 DEF StartUp, Startup, AcquireStep, CheckTarget, StartupCheck,
       StartupUnpause, Lock!AcquireStep, Lock!OpenExclusive, Lock!FindExisting,
       Lock!ReadHolder, Lock!ProbeHolder, Lock!RemoveStale, Lock!Reopen,
       Lock!WritePid, Lock!WriteFails, Lock!CreateFile, Lock!Abort, lockVars
  <2> QED
    BY <2>1, <2>2
<1>2. ASSUME NEW r \in Runs, StartTests(r) PROVE Lockstep'
  BY <1>2 DEF StartTests, PastStartup, Probe!Start, lockVars
<1>3. ASSUME NEW r \in Runs, UseProbe(r) PROVE Lockstep'
  BY <1>3 DEF UseProbe, CallsProbe, PastStartup, Probe!EnsureProbe,
     Probe!ExecProbe, lockVars
<1>4. ASSUME NEW r \in Runs, TestStep(r) PROVE Lockstep'
  BY <1>4 DEF TestStep, InTests, ReadinessCheck, ReadinessUnpause, Freeze,
     AwaitFrozen, BodyEnds, Unfreeze, lockVars, probeVars
<1>5. ASSUME NEW r \in Runs, Leave(r) PROVE Lockstep'
  BY <1>5 DEF Leave, Finish, Lock!Finish, Probe!Finish, probeVars
<1>6. ASSUME NEW r \in Runs, CleanUp(r) PROVE Lockstep'
  BY <1>6 DEF CleanUp, ThawAll, Release, Lock!Cleanup, lockVars, probeVars
<1>7. ASSUME NEW r \in Runs, RemoveProbe(r) PROVE Lockstep'
  BY <1>7 DEF RemoveProbe, Probe!RemoveProbe, lockVars
<1>8. ASSUME NEW r \in Runs, Exit(r) PROVE Lockstep'
  BY <1>8 DEF Exit, CleanupOnExit, Lock!CleanupOnExit, freezeVars, probeVars
<1>9. ASSUME NEW r \in Runs, KillRun(r) PROVE Lockstep'
  <2>1. place'[r] \notin {"suite", "exec", "cleanup"}
    BY <1>9 DEF KillRun, Probe!Kill, Probe!Alive, probeVars
  <2>2. /\ pc'[r] = "killed"
        /\ \A p \in Runs : p # r => pc'[p] = pc[p] /\ stage'[p] = stage[p]
                                      /\ place'[p] = place[p]
    BY <1>9 DEF KillRun, Kill, Lock!Kill, Probe!Kill, probeVars
  <2> QED
    BY <2>1, <2>2
<1>10. ASSUME NEW s, Swap(s) PROVE Lockstep'
  BY <1>10 DEF Swap, SwapStack, Probe!ReplaceContainer, lockVars, probeVars
<1>11. CASE UNCHANGED suiteVars
  BY <1>11 DEF suiteVars
<1> QED
  BY <1>1, <1>2, <1>3, <1>4, <1>5, <1>6, <1>7, <1>8, <1>9, <1>10, <1>11
  DEF SuiteNext, SuiteStep

LEMMA TypesKept ==
  ASSUME SuiteTypeOK, Lockstep, [SuiteNext]_suiteVars
  PROVE  SuiteTypeOK'
  BY FreezeTypes, ProbeTypes, LockstepKept DEF SuiteTypeOK, Lockstep

------------------------------------------------------------------------------
(* The lock: who has the descriptor open, and whose file it is.  Both hold *)
(* also where a third run breaks the exclusion.                            *)
LEMMA DescriptorKept ==
  ASSUME SuiteTypeOK, DescriptorInv, FileInv, KilledInv, [SuiteNext]_suiteVars
  PROVE  DescriptorInv' /\ FileInv' /\ KilledInv'
<1> USE LockAssumption DEF OfLock!Goto, DescriptorInv, FileInv, KilledInv
<1>0. OfLock!TypeOK
  BY SameTypes DEF SuiteTypeOK, TypeOK
<1> USE <1>0 DEF OfLock!TypeOK
<1>1. ASSUME NEW r \in Runs, OfLock!OpenExclusive(r) \/ OfLock!Reopen(r)
      PROVE  DescriptorInv' /\ FileInv' /\ KilledInv'
  BY <1>1 DEF OfLock!OpenExclusive, OfLock!CreateFile, OfLock!Reopen
<1>2. ASSUME NEW r \in Runs,
             OfLock!FindExisting(r) \/ OfLock!ReadHolder(r) \/ OfLock!ProbeHolder(r)
               \/ OfLock!RemoveStale(r) \/ OfLock!WritePid(r) \/ OfLock!WriteFails(r)
               \/ OfLock!Finish(r) \/ OfLock!Abort(r)
      PROVE  DescriptorInv' /\ FileInv' /\ KilledInv'
  BY <1>2 DEF OfLock!FindExisting, OfLock!ReadHolder, OfLock!ProbeHolder,
     OfLock!RemoveStale, OfLock!WritePid, OfLock!WriteFails, OfLock!Finish,
     OfLock!Abort
<1>3. ASSUME NEW r \in Runs, OfLock!Cleanup(r) \/ OfLock!CleanupOnExit(r)
      PROVE  DescriptorInv' /\ FileInv' /\ KilledInv'
  BY <1>3 DEF OfLock!Cleanup, OfLock!CleanupOnExit, OfLock!ReleaseChaosLock
<1>4. ASSUME NEW r \in Runs, OfLock!Kill(r)
      PROVE  DescriptorInv' /\ FileInv' /\ KilledInv'
  BY <1>4 DEF OfLock!Kill
<1>5. CASE UNCHANGED OfLock!lockVars
  BY <1>5 DEF OfLock!lockVars
<1> QED
  BY LockStep, <1>1, <1>2, <1>3, <1>4, <1>5
  DEF OfLock!Next, OfLock!RunStep, OfLock!AcquireStep

------------------------------------------------------------------------------
(* The freeze *)

(* A run that paused MongoDB has it in `frozen` from then on, and nobody   *)
(* takes it out but the run itself, having unpaused it or seen the command *)
(* fail.                                                                   *)
LEMMA FrozenKept ==
  ASSUME SuiteTypeOK, DescriptorInv, FrozenInv, [SuiteNext]_suiteVars
  PROVE  FrozenInv'
<1> USE DEF SuiteTypeOK, TypeOK, Lock!TypeOK, DescriptorInv, FrozenInv, InStartup,
        Lock!Acquiring, At, Enter, Lock!Goto, lockVars, stackVars
<1>1. ASSUME NEW r \in Runs, AcquireStep(r) PROVE FrozenInv'
  <2>1. r \notin frozen
    BY <1>1 DEF AcquireStep, Lock!AcquireStep, Lock!OpenExclusive,
       Lock!FindExisting, Lock!ReadHolder, Lock!ProbeHolder, Lock!RemoveStale,
       Lock!Reopen, Lock!WritePid, Lock!WriteFails
  <2>2. /\ UNCHANGED frozen
        /\ \A p \in Runs : p # r => pc'[p] = pc[p] /\ stage'[p] = stage[p]
        /\ fd \subseteq fd'
    BY <1>1 DEF AcquireStep, Lock!AcquireStep, Lock!OpenExclusive,
       Lock!FindExisting, Lock!ReadHolder, Lock!ProbeHolder, Lock!RemoveStale,
       Lock!Reopen, Lock!WritePid, Lock!WriteFails, Lock!CreateFile
  <2> QED
    BY <2>1, <2>2
<1>2. ASSUME NEW r \in Runs,
             CheckTarget(r) \/ StartupCheck(r) \/ StartupUnpause(r)
      PROVE  FrozenInv'
  BY <1>2 DEF CheckTarget, StartupCheck, StartupUnpause, Lock!Abort
<1>3. ASSUME NEW r \in Runs,
             ReadinessCheck(r) \/ ReadinessUnpause(r) \/ Freeze(r)
               \/ AwaitFrozen(r) \/ BodyEnds(r) \/ Unfreeze(r)
      PROVE  FrozenInv'
  BY <1>3 DEF ReadinessCheck, ReadinessUnpause, Freeze, AwaitFrozen, BodyEnds, Unfreeze
<1>4. ASSUME NEW r \in Runs, Finish(r) \/ ThawAll(r) PROVE FrozenInv'
  BY <1>4 DEF Finish, Lock!Finish, ThawAll
<1>5. ASSUME NEW r \in Runs, Release(r) \/ CleanupOnExit(r) PROVE FrozenInv'
  <2>1. r \notin frozen
    BY <1>5 DEF Release, Lock!Cleanup, CleanupOnExit, Lock!CleanupOnExit
  <2>2. /\ UNCHANGED frozen
        /\ \A p \in Runs : p # r => pc'[p] = pc[p] /\ stage'[p] = stage[p]
        /\ fd \ {r} \subseteq fd'
    BY <1>5 DEF Release, Lock!Cleanup, CleanupOnExit, Lock!CleanupOnExit,
       Lock!ReleaseChaosLock, freezeVars
  <2> QED
    BY <2>1, <2>2
<1>6. ASSUME NEW r \in Runs, Kill(r) PROVE FrozenInv'
  BY <1>6 DEF Kill, Lock!Kill
<1>7. ASSUME NEW s \in Stacks, SwapStack(s) PROVE FrozenInv'
  BY <1>7 DEF SwapStack
<1>8. CASE FaultElsewhere
  BY <1>8 DEF FaultElsewhere
<1> QED
  BY <1>1, <1>2, <1>3, <1>4, <1>5, <1>6, <1>7, <1>8, SeenByFreeze DEF FreezeSteps

(* What has been killed or has failed is not forgotten.                    *)
LEMMA CountersGrow ==
  ASSUME SuiteTypeOK, [SuiteNext]_suiteVars
  PROVE  (kills' = 0 => kills = 0) /\ (faults' = 0 => faults = 0)
<1> USE FaultsAssumption, LockAssumption DEF SuiteTypeOK, TypeOK, Lock!TypeOK
<1>1. faults' >= faults
  BY SeenByFreeze
  DEF FreezeSteps, AcquireStep, CheckTarget, StartupCheck, StartupUnpause,
      ReadinessCheck, ReadinessUnpause, Freeze, AwaitFrozen, BodyEnds, Unfreeze,
      Finish, ThawAll, Release, CleanupOnExit, Kill, SwapStack, FaultElsewhere,
      DockerPause, DockerUnpause, ContainerPaused, freezeVars
<1>2. kills' >= kills
  BY LockStep
  DEF OfLock!Next, OfLock!RunStep, OfLock!AcquireStep, OfLock!OpenExclusive,
      OfLock!CreateFile, OfLock!FindExisting, OfLock!ReadHolder,
      OfLock!ProbeHolder, OfLock!RemoveStale, OfLock!Reopen, OfLock!WritePid,
      OfLock!WriteFails, OfLock!Finish, OfLock!Abort, OfLock!Cleanup,
      OfLock!CleanupOnExit, OfLock!Kill, OfLock!lockVars
<1> QED
  BY <1>1, <1>2

(* What a docker command does where none has failed on its own.            *)
LEMMA DockerWorks ==
  ASSUME SuiteTypeOK, faults' = 0
  PROVE  /\ \A thrown \in BOOLEAN : DockerUnpause(thrown) => ~paused'
         /\ \A r \in Runs :
               /\ DockerPause(r, FALSE) => pausedBy' = r
               /\ DockerPause(r, TRUE) => UNCHANGED pausedBy
  BY FaultsAssumption DEF SuiteTypeOK, TypeOK, DockerUnpause, DockerPause, paused

(* The freeze of a run that was not killed stays in its set `frozen`, as   *)
(* long as the commands that should end it work.                           *)
LEMMA PausedKept ==
  ASSUME SuiteTypeOK, FrozenInv, PausedInv, [SuiteNext]_suiteVars
  PROVE  PausedInv'
<1> SUFFICES ASSUME paused', faults' = 0
             PROVE  pausedBy' \in frozen' \/ pc'[pausedBy'] = "killed"
  BY DEF PausedInv
<1> USE FaultsAssumption
    DEF SuiteTypeOK, TypeOK, Lock!TypeOK, paused, lockVars, stackVars, FrozenInv
<1>1. faults = 0
  BY CountersGrow
<1>2. paused => pausedBy \in frozen \/ pc[pausedBy] = "killed"
  BY <1>1 DEF PausedInv
<1>3. ASSUME NEW r \in Runs, StartupUnpause(r) \/ ReadinessUnpause(r) \/ Unfreeze(r)
      PROVE  FALSE
  BY <1>3, DockerWorks DEF StartupUnpause, ReadinessUnpause, Unfreeze
<1>4. ASSUME NEW r \in Runs, Freeze(r)
      PROVE  pausedBy' \in frozen' \/ pc'[pausedBy'] = "killed"
  BY <1>2, <1>4, DockerWorks DEF Freeze
<1>5. ASSUME NEW r \in Runs, ThawAll(r)
      PROVE  pausedBy' \in frozen' \/ pc'[pausedBy'] = "killed"
  <2>1. r \notin frozen /\ UNCHANGED <<pausedBy, frozen, pc>>
    BY <1>5, DockerWorks DEF ThawAll
  <2> QED
    BY <1>2, <2>1
<1>6. ASSUME NEW r \in Runs, Kill(r)
      PROVE  pausedBy' \in frozen' \/ pc'[pausedBy'] = "killed"
  BY <1>2, <1>6 DEF Kill, Lock!Kill, Lock!Goto
<1>7. ASSUME NEW r \in Runs, AcquireStep(r) \/ Finish(r) \/ Release(r) \/ CleanupOnExit(r)
      PROVE  pausedBy' \in frozen' \/ pc'[pausedBy'] = "killed"
  <2>1. pc[r] # "killed" /\ \A p \in Runs \ {r} : pc'[p] = pc[p]
    BY <1>7 DEF AcquireStep, Finish, Release, CleanupOnExit, Lock!Goto,
       Lock!AcquireStep, Lock!OpenExclusive, Lock!CreateFile, Lock!FindExisting,
       Lock!ReadHolder, Lock!ProbeHolder, Lock!RemoveStale, Lock!Reopen,
       Lock!WritePid, Lock!WriteFails, Lock!Finish, Lock!Cleanup,
       Lock!CleanupOnExit
  <2>2. UNCHANGED <<pausedBy, frozen>>
    BY <1>7 DEF AcquireStep, Finish, Release, CleanupOnExit, freezeVars
  <2> QED
    BY <1>2, <2>1, <2>2
<1>8. ASSUME NEW r \in Runs,
             CheckTarget(r) \/ StartupCheck(r) \/ ReadinessCheck(r) \/ AwaitFrozen(r)
               \/ BodyEnds(r)
      PROVE  pausedBy' \in frozen' \/ pc'[pausedBy'] = "killed"
  BY <1>2, <1>8 DEF CheckTarget, StartupCheck, ReadinessCheck, AwaitFrozen, BodyEnds
<1>9. ASSUME NEW s \in Stacks, SwapStack(s) PROVE FALSE
  BY <1>9 DEF SwapStack
<1>10. CASE FaultElsewhere
  BY <1>2, <1>10 DEF FaultElsewhere
<1> QED
  BY <1>3, <1>4, <1>5, <1>6, <1>7, <1>8, <1>9, <1>10, SeenByFreeze DEF FreezeSteps

(* The look at the labels is the only way past "target".                   *)
LEMMA AcceptedKept ==
  ASSUME SuiteTypeOK, AcceptedInv, [SuiteNext]_suiteVars
  PROVE  AcceptedInv'
<1> USE DEF SuiteTypeOK, TypeOK, Lock!TypeOK, AcceptedInv, At, Enter, Lock!Goto,
        lockVars, stackVars
<1>1. ASSUME UNCHANGED stack, NEW r \in Runs
      PROVE  Accepts(r)' <=> Accepts(r)
  BY <1>1 DEF Accepts, ConfigFiles
<1>2. ASSUME NEW r \in Runs, AcquireStep(r) PROVE AcceptedInv'
  <2>1. /\ UNCHANGED <<stack, stale>>
        /\ \A p \in Runs : p # r => pc'[p] = pc[p] /\ stage'[p] = stage[p]
        /\ pc'[r] = "held" => stage'[r] = "target"
    BY <1>2 DEF AcquireStep, Lock!AcquireStep, Lock!OpenExclusive,
       Lock!FindExisting, Lock!ReadHolder, Lock!ProbeHolder, Lock!RemoveStale,
       Lock!Reopen, Lock!WritePid, Lock!WriteFails, Lock!CreateFile
  <2> QED
    BY <1>1, <2>1
<1>3. ASSUME NEW r \in Runs, CheckTarget(r) PROVE AcceptedInv'
  <2>1. CASE stage'[r] = "startup"
    BY <1>1, <1>3, <2>1, FaultsAssumption DEF CheckTarget
  <2>2. CASE stage'[r] # "startup"
    BY <1>1, <1>3, <2>2 DEF CheckTarget
  <2> QED
    BY <2>1, <2>2
<1>4. ASSUME NEW r \in Runs,
             StartupCheck(r) \/ StartupUnpause(r) \/ ReadinessCheck(r)
               \/ ReadinessUnpause(r) \/ Freeze(r) \/ AwaitFrozen(r)
               \/ BodyEnds(r) \/ Unfreeze(r)
      PROVE  AcceptedInv'
  <2>1. /\ UNCHANGED <<stack, stale>>
        /\ \A p \in Runs : p # r => pc'[p] = pc[p] /\ stage'[p] = stage[p]
        /\ pc[r] = "held" /\ stage[r] \notin {"none", "target", "calm"}
    BY <1>4 DEF StartupCheck, StartupUnpause, ReadinessCheck, ReadinessUnpause,
       Freeze, AwaitFrozen, BodyEnds, Unfreeze, Lock!Abort
  <2> QED
    BY <1>1, <2>1
<1>5. ASSUME NEW r \in Runs,
             Finish(r) \/ ThawAll(r) \/ Release(r) \/ CleanupOnExit(r) \/ Kill(r)
      PROVE  AcceptedInv'
  <2>1. /\ UNCHANGED <<stack, stale>>
        /\ \A p \in Runs : p # r => pc'[p] = pc[p] /\ stage'[p] = stage[p]
        /\ pc'[r] # "held"
    BY <1>5 DEF Finish, Lock!Finish, ThawAll, Release, Lock!Cleanup, CleanupOnExit,
       Lock!CleanupOnExit, Kill, Lock!Kill, freezeVars
  <2> QED
    BY <1>1, <2>1
<1>6. ASSUME NEW s \in Stacks, SwapStack(s) PROVE AcceptedInv'
  BY <1>6 DEF SwapStack
<1>7. CASE FaultElsewhere
  BY <1>1, <1>7 DEF FaultElsewhere
<1> QED
  BY <1>2, <1>3, <1>4, <1>5, <1>6, <1>7, SeenByFreeze DEF FreezeSteps

(* Only Freeze pauses the container.                                       *)
LEMMA PausingIsFreeze ==
  ASSUME SuiteTypeOK, [SuiteNext]_suiteVars,
         NEW r \in Runs, pausedBy # r, pausedBy' = r
  PROVE  Freeze(r)
<1> USE NoRunAssumption
<1>1. ASSUME NEW p \in Runs, Freeze(p) PROVE p = r
  BY <1>1 DEF Freeze, DockerPause, SuiteTypeOK, TypeOK
<1>2. ASSUME NEW p \in Runs, FreezeSteps(p) PROVE Freeze(p)
  <2>1. CASE StartupUnpause(p) \/ ReadinessUnpause(p) \/ Unfreeze(p) \/ ThawAll(p)
    <3>1. pausedBy' \in {pausedBy, NoRun}
      BY <2>1 DEF StartupUnpause, ReadinessUnpause, Unfreeze, ThawAll, DockerUnpause
    <3> QED
      BY <3>1
  <2>2. CASE AcquireStep(p) \/ CheckTarget(p) \/ StartupCheck(p) \/ ReadinessCheck(p)
               \/ AwaitFrozen(p) \/ BodyEnds(p) \/ Finish(p) \/ Release(p)
               \/ CleanupOnExit(p) \/ Kill(p)
    BY <2>2 DEF AcquireStep, CheckTarget, StartupCheck, ReadinessCheck, AwaitFrozen,
       BodyEnds, Finish, Release, CleanupOnExit, Kill, freezeVars
  <2> QED
    BY <1>2, <2>1, <2>2 DEF FreezeSteps
<1>3. ASSUME NEW s, SwapStack(s) PROVE FALSE
  BY <1>3 DEF SwapStack
<1>4. CASE FaultElsewhere
  BY <1>4 DEF FaultElsewhere
<1> QED
  BY <1>1, <1>2, <1>3, <1>4, SeenByFreeze

(* A run that freezes has looked at the labels, and accepted them unless   *)
(* they are another stack's by now; what it accepts without being told to  *)
(* is its own, or is taken for that.                                       *)
LEMMA OwnStackStep ==
  ASSUME SuiteTypeOK, AcceptedInv, [SuiteNext]_suiteVars,
         NEW r \in Runs, pausedBy # r, pausedBy' = r
  PROVE  \/ stack = Checkout[r] \/ r \in AllowForeign \/ r \in stale
         \/ TakenForOwn(r)
<1>1. Accepts(r) \/ r \in stale
  BY PausingIsFreeze DEF Freeze, At, AcceptedInv
<1> QED
  BY <1>1 DEF Accepts, TakenForOwn

(* While no third run takes part there is one holder, and the steps that   *)
(* unpause are the holder's.                                               *)
LEMMA OwnThawStep ==
  ASSUME SuiteTypeOK, DescriptorInv, FrozenInv, OfLock!FileIsHolders,
         [SuiteNext]_suiteVars,
         paused, pausedBy \in fd, pausedBy' # pausedBy, swaps' = swaps
  PROVE  stage'[pausedBy] # stage[pausedBy]
<1> USE FaultsAssumption DEF SuiteTypeOK, TypeOK, Lock!TypeOK, paused
<1>1. \A r \in fd : r = pausedBy
  BY DEF OfLock!FileIsHolders
<1>2. ASSUME NEW r \in Runs, FreezeSteps(r) PROVE stage'[pausedBy] # stage[pausedBy]
  <2>1. CASE StartupUnpause(r) \/ ReadinessUnpause(r) \/ Unfreeze(r)
    <3>1. pc[r] = "held" /\ stage[r] # stage'[r]
      BY <2>1 DEF StartupUnpause, ReadinessUnpause, Unfreeze, At, Enter
    <3> QED
      BY <1>1, <3>1 DEF DescriptorInv
  <2>2. CASE ThawAll(r)
    <3>1. r \in frozen /\ stage[r] # stage'[r]
      BY <2>2 DEF ThawAll, Enter
    <3> QED
      BY <1>1, <3>1 DEF FrozenInv
  <2>3. CASE Freeze(r)
    BY <2>3 DEF Freeze, DockerPause
  <2>4. CASE AcquireStep(r) \/ CheckTarget(r) \/ StartupCheck(r) \/ ReadinessCheck(r)
               \/ AwaitFrozen(r) \/ BodyEnds(r) \/ Finish(r) \/ Release(r)
               \/ CleanupOnExit(r) \/ Kill(r)
    BY <2>4 DEF AcquireStep, CheckTarget, StartupCheck, ReadinessCheck, AwaitFrozen,
       BodyEnds, Finish, Release, CleanupOnExit, Kill, freezeVars
  <2> QED
    BY <1>2, <2>1, <2>2, <2>3, <2>4 DEF FreezeSteps
<1>3. ASSUME NEW s, SwapStack(s) PROVE FALSE
  BY <1>3 DEF SwapStack
<1>4. CASE FaultElsewhere
  BY <1>4 DEF FaultElsewhere
<1> QED
  BY <1>2, <1>3, <1>4, SeenByFreeze

------------------------------------------------------------------------------
(* The probe *)

(* A copy of the probe is not forgotten: the flag of the run that made it  *)
(* is set before any other run can act, and cleared with the file.         *)
LEMMA ProbeKept ==
  ASSUME SuiteTypeOK, ProbeInv, [SuiteNext]_suiteVars
  PROVE  ProbeInv'
<1> USE DEF SuiteTypeOK, TypeOK, Lock!TypeOK, Probe!TypeOK
<1> SUFFICES ASSUME file', kills' = 0, faults' = 0 PROVE probeInContainer' # {}
  BY DEF ProbeInv
<1>1. kills = 0 /\ faults = 0
  BY CountersGrow
<1>2. file => probeInContainer # {}
  BY <1>1 DEF ProbeInv
<1>3. ASSUME NEW r \in Runs, Probe!EnsureProbe(r) PROVE probeInContainer' # {}
  <2>1. ~Probe!Docker(TRUE, TRUE)
    BY <1>1 DEF Probe!Docker
  <2>2. r \in probeInContainer'
    BY <1>3, <2>1 DEF Probe!EnsureProbe
  <2> QED
    BY <2>2
<1>4. ASSUME NEW r \in Runs, Probe!RemoveProbe(r) PROVE probeInContainer' # {}
  <2>1. CASE r \in probeInContainer
    BY <1>1, <1>4, <2>1 DEF Probe!RemoveProbe, Probe!Docker
  <2>2. CASE r \notin probeInContainer
    BY <1>2, <1>4, <2>2 DEF Probe!RemoveProbe
  <2> QED
    BY <2>1, <2>2
<1>5. ASSUME NEW r \in Runs,
             Probe!Start(r) \/ Probe!ExecProbe(r) \/ Probe!Finish(r)
      PROVE  probeInContainer' # {}
  BY <1>2, <1>5 DEF Probe!Start, Probe!ExecProbe, Probe!Finish
<1>6. ASSUME NEW r \in Runs, Probe!Kill(r) PROVE FALSE
  BY <1>1, <1>6 DEF Probe!Kill
<1>7. CASE Replaced \/ UNCHANGED probeVars
  BY <1>2, <1>7 DEF probeVars, Replaced
<1> QED
  BY <1>3, <1>4, <1>5, <1>6, <1>7, SeenByProbe DEF ProbeSteps

(* A run that has been through its cleanup stays there; only that cleanup  *)
(* and the container's end take the file away.                             *)
LEMMA LossKept ==
  ASSUME SuiteTypeOK, LossInv, [SuiteNext]_suiteVars
  PROVE  LossInv'
<1> USE DEF SuiteTypeOK, Probe!TypeOK, Probe!Goto, LossInv
<1>1. ASSUME NEW r \in Runs, Probe!Start(r) \/ Probe!Finish(r) PROVE LossInv'
  BY <1>1 DEF Probe!Start, Probe!Finish
<1>2. ASSUME NEW r \in Runs, Probe!EnsureProbe(r) PROVE LossInv'
  BY <1>2 DEF Probe!EnsureProbe, Probe!Docker
<1>3. ASSUME NEW r \in Runs, Probe!ExecProbe(r) PROVE LossInv'
  BY <1>3 DEF Probe!ExecProbe
<1>4. ASSUME NEW r \in Runs, Probe!RemoveProbe(r) PROVE LossInv'
  <2>1. /\ place[r] = "cleanup" /\ place' = [place EXCEPT ![r] = "exited"]
        /\ probeInContainer' = probeInContainer \ {r}
        /\ UNCHANGED <<lost, replaced>>
    BY <1>4 DEF Probe!RemoveProbe
  <2>2. \A q \in Runs : place[q] = "exited" => place'[q] = "exited"
    BY <2>1
  <2>3. ASSUME NEW p \in lost
        PROVE  p \in replaced \/ \E q \in Runs \ {p} : place'[q] = "exited"
    BY <2>2
  <2>4. ASSUME NEW p \in probeInContainer, p # r
        PROVE  \E q \in Runs \ {p} : place'[q] = "exited"
    BY <2>1, <2>4
  <2>5. \A p \in Runs : place'[p] = "exec" => p \in probeInContainer'
    BY <2>1
  <2> QED
    BY <2>1, <2>3, <2>4, <2>5
<1>5. ASSUME NEW r \in Runs, Probe!Kill(r) PROVE LossInv'
  BY <1>5 DEF Probe!Kill, Probe!Alive
<1>6. CASE UNCHANGED probeVars
  BY <1>6 DEF probeVars
<1>7. CASE Replaced
  BY <1>7 DEF Replaced
<1> QED
  BY <1>1, <1>2, <1>3, <1>4, <1>5, <1>6, <1>7, SeenByProbe DEF ProbeSteps

------------------------------------------------------------------------------
(* The inductive invariant, and what follows *)

SuiteInv ==
    /\ SuiteTypeOK
    /\ DescriptorInv /\ FileInv /\ KilledInv
    /\ FrozenInv /\ PausedInv /\ AcceptedInv
    /\ Lockstep
    /\ ProbeInv /\ LossInv

LEMMA SuiteInvHolds == SuiteSpec => []SuiteInv
<1>1. SuiteInit => SuiteInv
  <2> SUFFICES ASSUME SuiteInit PROVE SuiteInv
    OBVIOUS
  <2>1. SuiteTypeOK
    BY TypesInit
  <2>2. DescriptorInv /\ FileInv /\ KilledInv
    BY LockAssumption DEF SuiteInit, Init, Lock!Init, DescriptorInv, FileInv, KilledInv
  <2>3. FrozenInv /\ PausedInv /\ AcceptedInv
    BY DEF SuiteInit, Init, Lock!Init, FrozenInv, PausedInv, AcceptedInv, paused
  <2>4. Lockstep
    BY DEF SuiteInit, Probe!Init, Lockstep
  <2>5. ProbeInv /\ LossInv
    BY DEF SuiteInit, Probe!Init, ProbeInv, LossInv
  <2> QED
    BY <2>1, <2>2, <2>3, <2>4, <2>5 DEF SuiteInv
<1>2. SuiteInv /\ [SuiteNext]_suiteVars => SuiteInv'
  BY TypesKept, DescriptorKept, FrozenKept, PausedKept, AcceptedKept, LockstepKept,
     ProbeKept, LossKept DEF SuiteInv
<1> QED
  BY <1>1, <1>2, PTL DEF SuiteSpec

(* The variables of lock, freeze and probe keep their types, and a run     *)
(* calls the probe only between its startup and its cleanup.               *)
THEOREM TypeCorrect == SuiteSpec => []SuiteTypeOK
<1>1. SuiteInv => SuiteTypeOK
  BY DEF SuiteInv
<1> QED
  BY <1>1, SuiteInvHolds, PTL

(* Whatever else a run does, it takes and releases the lock as ChaosLock   *)
(* says: acquireChaosLock first, releaseChaosLock from both cleanups.      *)
THEOREM KeepsToTheLock == SuiteSpec => Lock!Spec
<1>1. SuiteInit => Lock!Init
  BY DEF SuiteInit, Init
<1>2. SuiteTypeOK /\ [SuiteNext]_suiteVars => [Lock!Next]_(Lock!lockVars)
  BY LockStep, SameSteps
<1> QED
  BY <1>1, <1>2, TypeCorrect, PTL DEF SuiteSpec, Lock!Spec

(* While MongoDB is paused the run that paused it has the freeze lock,     *)
(* unless it was killed or a docker command failed: cleanup() thaws before *)
(* it releases.                                                            *)
THEOREM FreezerHolds == SuiteSpec => []FreezerHoldsLock
<1>1. SuiteInv => FreezerHoldsLock
  <2> SUFFICES ASSUME SuiteInv, paused, faults = 0
               PROVE  pausedBy \in fd \/ pc[pausedBy] = "killed"
    BY FaultsAssumption DEF FreezerHoldsLock, SuiteInv, SuiteTypeOK, TypeOK
  <2> QED
    BY DEF SuiteInv, PausedInv, FrozenInv
<1> QED
  BY <1>1, SuiteInvHolds, PTL

(* Runs that have all ended leave no probe, no frozen MongoDB and no lock  *)
(* file behind, unless one was killed or a docker command failed.          *)
THEOREM NothingLeft == SuiteSpec => []NothingLeftBehind
<1>1. SuiteInv => NothingLeftBehind
  <2> SUFFICES ASSUME SuiteInv, \A r \in Runs : pc[r] \in Lock!Over,
                      kills = 0, faults = 0
               PROVE  ~file /\ ~paused /\ lock = NoFile
    BY DEF NothingLeftBehind
  <2> USE DEF SuiteInv, SuiteTypeOK, TypeOK, Lock!TypeOK
  <2>1. \A r \in Runs : pc[r] \in {"idle", "exited"}
    BY DEF Lock!Over, KilledInv
  <2>2. fd = {} /\ frozen = {}
    BY <2>1 DEF DescriptorInv, FrozenInv
  <2>3. ~paused
    BY <2>1, <2>2 DEF PausedInv, paused
  <2>4. lock = NoFile
    BY <2>1, <2>2 DEF FileInv
  <2>5. probeInContainer = {}
    BY <2>1 DEF Lockstep, Probe!TypeOK, Probe!Alive
  <2>6. ~file
    BY <2>5 DEF ProbeInv
  <2> QED
    BY <2>3, <2>4, <2>6
<1> QED
  BY <1>1, SuiteInvHolds, PTL

(* A run calls a probe that is not there only after another run's cleanup, *)
(* or when the container it had copied the probe into was replaced,        *)
(* whatever fails or is killed.                                            *)
THEOREM LossIsExplained == SuiteSpec => []LossHasCause
<1>1. SuiteInv => LossHasCause
  BY DEF SuiteInv, LossInv, LossHasCause, Probe!LossHasCause
<1> QED
  BY <1>1, SuiteInvHolds, PTL

(* A run freezes only the container of its own checkout's stack, of one it *)
(* was told to freeze, of one that came after its look at the labels, or   *)
(* of one the comparison of paths takes for its own.                       *)
THEOREM OnlyOwnStack == SuiteSpec => FreezesOwnStack
<1>1. SuiteInv /\ [SuiteNext]_suiteVars
        => [\A r \in Runs : pausedBy # r /\ pausedBy' = r =>
               \/ stack = Checkout[r]
               \/ r \in AllowForeign
               \/ r \in stale
               \/ TakenForOwn(r)]_vars
  BY OwnStackStep DEF SuiteInv
<1> QED
  BY <1>1, SuiteInvHolds, PTL DEF SuiteSpec, FreezesOwnStack

(* Where every container has its label and no stack's path goes on behind  *)
(* a checkout's, the code keeps its word: without ALLOW_FOREIGN_STACK a    *)
(* run freezes the MongoDB of its own checkout only, or of a stack that    *)
(* came after its look at the labels.                                      *)
THEOREM OwnStackWhenToldApart ==
  ASSUME ToldApart, AllowForeign = {}
  PROVE  SuiteSpec => [][\A r \in Runs : pausedBy # r /\ pausedBy' = r
                             => stack = Checkout[r] \/ r \in stale]_vars
<1>1. SuiteTypeOK => \A r \in Runs : ~TakenForOwn(r)
  BY DEF SuiteTypeOK, TypeOK, ToldApart, TakenForOwn, ConfigFiles
<1>2. SuiteInv /\ [SuiteNext]_suiteVars
        => [\A r \in Runs : pausedBy # r /\ pausedBy' = r
               => stack = Checkout[r] \/ r \in stale]_vars
  BY <1>1, OwnStackStep DEF SuiteInv
<1> QED
  BY <1>2, SuiteInvHolds, PTL DEF SuiteSpec

(* The two-run invariant of the lock, carried over to whole runs.          *)
LEMMA TwoRunsInvariant == SuiteSpec => [](OfLock!ThirdRun \/ OfLock!TwoRunInv)
<1>1. SuiteInit => OfLock!TwoRunInv
  BY LockInit, OfLock!TwoRunInvInit, LockAssumption
<1>2. SuiteTypeOK /\ (OfLock!ThirdRun \/ OfLock!TwoRunInv) /\ [SuiteNext]_suiteVars
        => (OfLock!ThirdRun \/ OfLock!TwoRunInv)'
  <2> SUFFICES ASSUME SuiteTypeOK, OfLock!ThirdRun \/ OfLock!TwoRunInv,
                      [SuiteNext]_suiteVars
               PROVE  OfLock!ThirdRun' \/ OfLock!TwoRunInv'
    OBVIOUS
  <2>1. OfLock!TypeOK /\ [OfLock!Next]_(OfLock!lockVars)
    BY LockStep, SameTypes DEF SuiteTypeOK, TypeOK
  <2> QED
    BY <2>1, OfLock!ThirdRunStays, OfLock!TwoRunInvStep, LockAssumption
<1> QED
  BY <1>1, <1>2, TypeCorrect, PTL DEF SuiteSpec

(* Until a third run is started, a freeze is ended by nobody but the run   *)
(* that made it.                                                           *)
THEOREM ThawIsTheFreezers ==
  SuiteSpec => [][~OfLock!ThirdRun => (paused /\ pausedBy \in fd /\ pausedBy' # pausedBy
                    /\ swaps' = swaps => stage'[pausedBy] # stage[pausedBy])]_vars
<1>1. SuiteInv /\ (OfLock!ThirdRun \/ OfLock!TwoRunInv) /\ [SuiteNext]_suiteVars
        => [~OfLock!ThirdRun => (paused /\ pausedBy \in fd /\ pausedBy' # pausedBy
                /\ swaps' = swaps => stage'[pausedBy] # stage[pausedBy])]_vars
  BY OwnThawStep DEF SuiteInv, OfLock!TwoRunInv
<1> QED
  BY <1>1, SuiteInvHolds, TwoRunsInvariant, PTL DEF SuiteSpec

(* Of two runs, neither unfreezes what the other froze.                    *)
THEOREM TwoRunsThawTheirOwn ==
  ASSUME \A p, q, r \in Runs : p = q \/ q = r \/ p = r
  PROVE  SuiteSpec => NoForeignThaw
<1>1. [](~OfLock!ThirdRun)
  <2>1. ~OfLock!ThirdRun
    BY DEF OfLock!ThirdRun
  <2> QED
    BY <2>1, PTL
<1> QED
  BY <1>1, ThawIsTheFreezers, PTL DEF NoForeignThaw
=============================================================================
