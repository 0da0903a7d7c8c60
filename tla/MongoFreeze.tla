----------------------------- MODULE MongoFreeze -----------------------------
(***************************************************************************)
(* Runs of scripts/playwright_session_handling.js freezing MongoDB: the    *)
(* life of a run from taking the freeze lock (ChaosLock) to its last       *)
(* cleanup, the container it pauses and unpauses, and what is left behind  *)
(* when a docker command fails half way or the run is killed.              *)
(*                                                                         *)
(* Inside a run, docker commands are synchronous: SIGINT and SIGTERM are   *)
(* handled only where the code awaits (AwaitPoints), SIGKILL anywhere.     *)
(* The container has a fixed name: which checkout's stack it belongs to    *)
(* can change while runs are at work.                                      *)
(***************************************************************************)
EXTENDS Naturals
LOCAL INSTANCE SequencesExt

CONSTANTS Runs, NoFile, MaxKills, DiskMayFill,
          NoRun,          \* nobody has paused the container
          Checkout,       \* the path of each run's checkout, in pieces
          Cwd,            \* the directory each run was started in
          Stacks,         \* the checkouts whose stack may be the running one
          Unlabelled,     \* in Stacks: a container that tells no config files
          AllowForeign,   \* the runs with ALLOW_FOREIGN_STACK=1
          MaxSwaps,       \* bound: stacks replaced by another checkout's
          MaxCliFaults    \* bound: docker commands that fail on their own

ASSUME LockAssumption ==            \* those of ChaosLock
    NoFile \notin Runs /\ MaxKills \in Nat /\ DiskMayFill \in BOOLEAN
ASSUME NoRunAssumption == NoRun \notin Runs
ASSUME FaultsAssumption == MaxCliFaults \in Nat /\ MaxSwaps \in Nat
ASSUME CheckoutAssumption ==
    Runs = DOMAIN Checkout /\ Runs = DOMAIN Cwd /\ AllowForeign \subseteq Runs

VARIABLES
    pc, lock, written, fd, seen, kills,   \* see ChaosLock
    stage,      \* what each run that holds the lock is doing
    frozen,     \* the runs whose `frozen` set has the MongoDB container
    pausedBy,   \* the run that paused the container, NoRun when it runs
    stack,      \* the checkout whose stack the container belongs to
    stale,      \* the runs that have not looked at this stack's labels
    swaps,
    faults      \* docker commands that have failed on their own

Lock == INSTANCE ChaosLock

lockVars == <<pc, lock, written, fd, seen, kills>>
stackVars == <<stack, stale, swaps>>
freezeVars == <<stage, frozen, pausedBy, faults, stackVars>>
vars == <<pc, lock, written, fd, seen, kills, stage, frozen, pausedBy, faults,
          stack, stale, swaps>>

Stages == {"none", "target", "startup", "unpausing", "calm", "suite", "recheck",
           "await", "undo", "body", "thaw", "thawAll", "release"}
AwaitPoints == {"calm", "suite", "await", "body"}

paused == pausedBy # NoRun

Enter(r, s) == stage' = [stage EXCEPT ![r] = s]
At(r, s) == pc[r] = "held" /\ stage[r] = s

Init ==
    /\ Lock!Init
    /\ stage = [r \in Runs |-> "none"]
    /\ frozen = {}
    /\ pausedBy = NoRun
    /\ stack \in Stacks
    /\ stale = Runs
    /\ swaps = 0
    /\ faults = 0

------------------------------------------------------------------------------
(* docker pause / docker unpause.  The daemon refuses to pause a paused    *)
(* container and to unpause a running one.  A command can also fail on its *)
(* own (Ctrl-C reaches the docker client too), having had its effect or    *)
(* not; either way the caller sees it throw.                               *)

DockerPause(r, thrown) ==
    \/ /\ ~thrown /\ ~paused
       /\ pausedBy' = r
       /\ UNCHANGED faults
    \/ /\ thrown /\ paused
       /\ UNCHANGED <<pausedBy, faults>>
    \/ /\ thrown
       /\ faults < MaxCliFaults
       /\ faults' = faults + 1
       /\ pausedBy' \in {pausedBy, IF paused THEN pausedBy ELSE r}

DockerUnpause(thrown) ==
    \/ /\ ~thrown /\ paused
       /\ pausedBy' = NoRun
       /\ UNCHANGED faults
    \/ /\ thrown /\ ~paused
       /\ UNCHANGED <<pausedBy, faults>>
    \/ /\ thrown
       /\ faults < MaxCliFaults
       /\ faults' = faults + 1
       /\ pausedBy' \in {pausedBy, NoRun}

(* containerPaused: an inspect that fails counts as "not paused". *)
ContainerPaused(answer) ==
    \/ answer = paused /\ UNCHANGED faults
    \/ ~answer /\ faults < MaxCliFaults /\ faults' = faults + 1

------------------------------------------------------------------------------
(* Startup: the lock, then a container left paused by an interrupted run. *)

AcquireStep(r) ==
    /\ Lock!AcquireStep(r)
    /\ IF pc'[r] = "held" THEN Enter(r, "target") ELSE UNCHANGED stage
    /\ UNCHANGED <<frozen, pausedBy, faults, stackVars>>

(* The path chaosTargetError looks at, that of the stack's compose file,   *)
(* here of its checkout.  Where the label is missing it is "(unknown)",    *)
(* which path.resolve takes for a file in the working directory.           *)
ConfigFiles(r) ==
    IF stack = Unlabelled THEN Append(Cwd[r], "/(unknown)") ELSE stack

(* It compares strings: that path is to start with the run's checkout's.   *)
Accepts(r) == r \in AllowForeign \/ IsPrefix(Checkout[r], ConfigFiles(r))

(* Mutant of CheckTarget: labels that cannot be read are no problem. *)
CheckTarget_FailsOpen(r) ==
    /\ At(r, "target")
    /\ \/ Enter(r, IF Accepts(r) THEN "startup" ELSE "calm") /\ UNCHANGED faults
       \/ /\ faults < MaxCliFaults
          /\ faults' = faults + 1
          /\ Enter(r, "startup")
    /\ stale' = stale \ {r}
    /\ UNCHANGED <<lockVars, frozen, pausedBy, stack, swaps>>

(* The only look at the labels: the answer is kept for the whole run.  A   *)
(* run with a problem keeps the lock and goes on without freezing.         *)
CheckTarget(r) ==
    /\ At(r, "target")
    /\ \/ Enter(r, IF Accepts(r) THEN "startup" ELSE "calm") /\ UNCHANGED faults
       \/ /\ faults < MaxCliFaults
          /\ faults' = faults + 1
          /\ Enter(r, "calm")
    /\ stale' = stale \ {r}
    /\ UNCHANGED <<lockVars, frozen, pausedBy, stack, swaps>>

(* Mutant of StartupCheck: a container left paused stays paused. *)
StartupCheck_NoThaw(r) ==
    /\ At(r, "startup")
    /\ Enter(r, "suite")
    /\ UNCHANGED <<lockVars, frozen, pausedBy, faults, stackVars>>

StartupCheck(r) ==
    /\ At(r, "startup")
    /\ \E answer \in BOOLEAN :
          /\ ContainerPaused(answer)
          /\ Enter(r, IF answer THEN "unpausing" ELSE "suite")
    /\ UNCHANGED <<lockVars, frozen, pausedBy, stackVars>>

(* A failing unpause is not caught here: the run goes to its exit. *)
StartupUnpause(r) ==
    /\ At(r, "unpausing")
    /\ \/ /\ DockerUnpause(FALSE)
          /\ Enter(r, "suite")
          /\ UNCHANGED lockVars
       \/ /\ DockerUnpause(TRUE)
          /\ Enter(r, "none")
          /\ Lock!Abort(r)
    /\ UNCHANGED <<frozen, stackVars>>

------------------------------------------------------------------------------
(* The tests *)

(* The readiness test, when it finds the container paused. *)
ReadinessCheck(r) ==
    /\ At(r, "suite")
    /\ paused
    /\ Enter(r, "recheck")
    /\ UNCHANGED <<lockVars, frozen, pausedBy, faults, stackVars>>

(* Its unpause; when the command throws, the test fails, the suite goes on. *)
ReadinessUnpause(r) ==
    /\ At(r, "recheck")
    /\ \E thrown \in BOOLEAN : DockerUnpause(thrown)
    /\ Enter(r, "suite")
    /\ UNCHANGED <<lockVars, frozen, stackVars>>

(* Mutants of Freeze: the pause is not recorded, or for the wrong run. *)
Freeze_Unrecorded(r) ==
    /\ At(r, "suite")
    /\ \/ DockerPause(r, FALSE) /\ Enter(r, "await")
       \/ DockerPause(r, TRUE) /\ UNCHANGED stage
    /\ UNCHANGED <<lockVars, frozen, stackVars>>

Freeze_RecordsPrevious(r) ==
    /\ At(r, "suite")
    /\ \/ /\ DockerPause(r, FALSE)
          /\ frozen' = frozen \cup {pausedBy}
          /\ Enter(r, "await")
       \/ /\ DockerPause(r, TRUE)
          /\ UNCHANGED <<frozen, stage>>
    /\ UNCHANGED <<lockVars, stackVars>>

(* withFrozenMongo: `frozen` learns of the pause once the command returned. *)
Freeze(r) ==
    /\ At(r, "suite")
    /\ \/ /\ DockerPause(r, FALSE)
          /\ frozen' = frozen \cup {r}
          /\ Enter(r, "await")
       \/ /\ DockerPause(r, TRUE)
          /\ UNCHANGED <<frozen, stage>>
    /\ UNCHANGED <<lockVars, stackVars>>

(* The polls that wait for the freezer, their last answer. *)
AwaitFrozen(r) ==
    /\ At(r, "await")
    /\ \E answer \in BOOLEAN :
          /\ ContainerPaused(answer)
          /\ Enter(r, IF answer THEN "body" ELSE "undo")
    /\ UNCHANGED <<lockVars, frozen, pausedBy, stackVars>>

BodyEnds(r) ==
    /\ At(r, "body")
    /\ Enter(r, "thaw")
    /\ UNCHANGED <<lockVars, frozen, pausedBy, faults, stackVars>>

(* The unpause after the body, or after a freeze that did not take effect. *)
(* When it throws, `frozen` keeps the container for the cleanup to thaw.   *)
Unfreeze(r) ==
    /\ At(r, "thaw") \/ At(r, "undo")
    /\ \/ DockerUnpause(FALSE) /\ frozen' = frozen \ {r}
       \/ DockerUnpause(TRUE) /\ UNCHANGED frozen
    /\ Enter(r, "suite")
    /\ UNCHANGED <<lockVars, stackVars>>

------------------------------------------------------------------------------
(* The end of a run *)

(* Mutant of Finish: a cleanup that releases the lock without thawing. *)
Finish_NoThaw(r) ==
    /\ Lock!Finish(r)
    /\ pc[r] = "held" => stage[r] \in AwaitPoints
    /\ Enter(r, "release")
    /\ UNCHANGED <<frozen, pausedBy, faults, stackVars>>

(* The suite is over or chromium does not start, or a signal is handled at *)
(* an await.                                                               *)
Finish(r) ==
    /\ Lock!Finish(r)
    /\ pc[r] = "held" => stage[r] \in AwaitPoints
    /\ Enter(r, "thawAll")
    /\ UNCHANGED <<frozen, pausedBy, faults, stackVars>>

(* Mutant of ThawAll: unpauses the container without asking who froze it. *)
ThawAll_Everything(r) ==
    /\ pc[r] = "cleanup"
    /\ stage[r] = "thawAll"
    /\ \E thrown \in BOOLEAN : DockerUnpause(thrown)
    /\ frozen' = frozen \ {r}
    /\ Enter(r, "release")
    /\ UNCHANGED <<lockVars, stackVars>>

(* cleanup(), first half: errors are swallowed, the set is cleared.        *)
ThawAll(r) ==
    /\ pc[r] = "cleanup"
    /\ stage[r] = "thawAll"
    /\ IF r \in frozen
       THEN \E thrown \in BOOLEAN : DockerUnpause(thrown)
       ELSE UNCHANGED <<pausedBy, faults>>
    /\ frozen' = frozen \ {r}
    /\ Enter(r, "release")
    /\ UNCHANGED <<lockVars, stackVars>>

(* cleanup(), second half. *)
Release(r) ==
    /\ stage[r] = "release"
    /\ Lock!Cleanup(r)
    /\ Enter(r, "none")
    /\ UNCHANGED <<frozen, pausedBy, faults, stackVars>>

(* cleanup() again from the "exit" event; thawAll finds the set empty. *)
CleanupOnExit(r) ==
    /\ Lock!CleanupOnExit(r)
    /\ UNCHANGED freezeVars

Kill(r) ==
    /\ Lock!Kill(r)
    /\ frozen' = frozen \ {r}
    /\ Enter(r, "none")
    /\ UNCHANGED <<pausedBy, faults, stackVars>>

(* The developer takes the stack down and starts another checkout's: the   *)
(* container of that name is a new one, and runs.                          *)
SwapStack(s) ==
    /\ swaps < MaxSwaps
    /\ swaps' = swaps + 1
    /\ stack' = s
    /\ stale' = Runs
    /\ pausedBy' = NoRun
    /\ UNCHANGED <<lockVars, stage, frozen, faults>>

Startup(r) ==
    \/ AcquireStep(r)
    \/ CheckTarget(r)
    \/ StartupCheck(r)
    \/ StartupUnpause(r)

InTests(r) ==
    \/ ReadinessCheck(r)
    \/ ReadinessUnpause(r)
    \/ Freeze(r)
    \/ AwaitFrozen(r)
    \/ BodyEnds(r)
    \/ Unfreeze(r)

Ending(r) == Finish(r) \/ ThawAll(r) \/ Release(r) \/ CleanupOnExit(r)

RunStep(r) == Startup(r) \/ InTests(r) \/ Ending(r)

Next ==
    \/ \E r \in Runs : RunStep(r) \/ Kill(r)
    \/ \E s \in Stacks \ {stack} : SwapStack(s)

Spec == Init /\ [][Next]_vars

------------------------------------------------------------------------------
TypeOK ==
    /\ Lock!TypeOK
    /\ stage \in [Runs -> Stages]
    /\ frozen \subseteq Runs
    /\ pausedBy \in Runs \cup {NoRun}
    /\ stack \in Stacks
    /\ stale \subseteq Runs
    /\ swaps \in 0..MaxSwaps
    /\ faults \in 0..MaxCliFaults

(* "always unfrozen again on the way out, also when a test fails or the    *)
(* run is interrupted" (header): while MongoDB is paused, the run that     *)
(* paused it still holds the freeze lock, unless it was killed or a docker *)
(* command failed.  It needs the order of cleanup(), thawAll first.        *)
FreezerHoldsLock ==
    paused => pausedBy \in fd \/ pc[pausedBy] = "killed" \/ faults > 0

(* The path the run looks at is not its own checkout's, and starts like    *)
(* it: a neighbour's (eduid-developer-2), or "(unknown)" for a run that     *)
(* was started inside its checkout.                                        *)
TakenForOwn(r) ==
    stack # Checkout[r] /\ IsPrefix(Checkout[r], ConfigFiles(r))

(* The labels tell every stack from another checkout's. *)
ToldApart ==
    \A s \in Stacks :
        /\ s # Unlabelled
        /\ \A r \in Runs : IsPrefix(Checkout[r], s) => s = Checkout[r]

(* "Refuse to freeze a MongoDB that this checkout does not own"            *)
(* (chaosTargetError), as far as the code keeps it: the container a run    *)
(* freezes is of its own checkout's stack, or of one it was told to freeze *)
(* by ALLOW_FOREIGN_STACK, of one that came after the run's only look, or  *)
(* of one that the comparison of paths takes for its own.                  *)
FreezesOwnStack ==
    [][\A r \in Runs : pausedBy # r /\ pausedBy' = r =>
          \/ stack = Checkout[r]
          \/ r \in AllowForeign
          \/ r \in stale
          \/ TakenForOwn(r)]_vars

(* "never unpause a container somebody else froze" (frozen): as long as a  *)
(* run holds the lock, its freeze ends only by a step of its own, or with  *)
(* the container.                                                          *)
NoForeignThaw ==
    [][paused /\ pausedBy \in fd /\ pausedBy' # pausedBy /\ swaps' = swaps
          => stage'[pausedBy] # stage[pausedBy]]_vars

(* withFrozenMongo and cleanup: a freeze ends, unless its run is killed or *)
(* the command that should end it fails.                                   *)
FreezeEnds == paused ~> (~paused \/ pc[pausedBy] = "killed" \/ faults > 0)

(* A freeze left by a killed run ends when another run of a checkout that  *)
(* owns the container is started, if its docker commands work: the pid     *)
(* was written before the freeze, so the lock is taken over, and main      *)
(* unpauses the container before anything else.                            *)
NextRunRecovers ==
    (paused /\ pc[pausedBy] = "killed" /\ \E r \in Runs : pc[r] = "idle" /\ Accepts(r))
        ~> (~paused \/ faults > 0)

==============================================================================
