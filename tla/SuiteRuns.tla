------------------------------ MODULE SuiteRuns ------------------------------
(***************************************************************************)
(* Whole runs of scripts/playwright_session_handling.js: the freeze lock   *)
(* and the freezes of MongoFreeze, and the probe of ProbeInstall in the    *)
(* webapp container.  Both use the same docker client, are entered and     *)
(* left by the same main and cleaned up, in this order, by the same        *)
(* cleanup(); a body calls the probe while MongoDB is frozen, and a run    *)
(* that was denied the lock calls it beside the run that has it.           *)
(***************************************************************************)
EXTENDS MongoFreeze

VARIABLES place, file, probeInContainer, lost, replaced     \* see ProbeInstall

Probe == INSTANCE ProbeInstall WITH pc <- place

probeVars == <<place, file, probeInContainer, lost, replaced>>
suiteVars == <<pc, lock, written, fd, seen, kills, stage, frozen, pausedBy, faults,
               stack, stale, swaps, place, file, probeInContainer, lost, replaced>>

SuiteInit == Init /\ Probe!Init

StartUp(r) == Startup(r) /\ UNCHANGED probeVars

(* Past its startup, with or without the lock, a run goes on to the tests; *)
(* where MongoDB is frozen they call the probe as well.                    *)
PastStartup(r) == pc[r] = "denied" \/ At(r, "suite") \/ At(r, "calm")
CallsProbe(r)  == PastStartup(r) \/ At(r, "body")

StartTests(r) ==
    /\ PastStartup(r)
    /\ Probe!Start(r)
    /\ UNCHANGED <<lockVars, stage, frozen, pausedBy, stackVars>>

UseProbe(r) ==
    /\ CallsProbe(r)
    /\ Probe!EnsureProbe(r) \/ Probe!ExecProbe(r)
    /\ UNCHANGED <<lockVars, stage, frozen, pausedBy, stackVars>>

(* Tests run one after the other, a docker exec blocks the run. *)
TestStep(r) == place[r] = "suite" /\ InTests(r) /\ UNCHANGED probeVars

(* The suite is over, a signal is handled, or the browser does not start. *)
Leave(r) ==
    /\ Finish(r)
    /\ \/ Probe!Finish(r)
       \/ place[r] = "idle" /\ UNCHANGED probeVars

CleanUp(r) == (ThawAll(r) \/ Release(r)) /\ UNCHANGED probeVars

(* The last line of cleanup(), after releaseChaosLock. *)
RemoveProbe(r) ==
    /\ pc[r] = "ending"
    /\ Probe!RemoveProbe(r)
    /\ UNCHANGED <<lockVars, stage, frozen, pausedBy, stackVars>>

Exit(r) == CleanupOnExit(r) /\ place[r] # "cleanup" /\ UNCHANGED probeVars

KillRun(r) ==
    /\ Kill(r)
    /\ IF Probe!Alive(r) THEN Probe!Kill(r) ELSE UNCHANGED probeVars

(* Another checkout's stack takes over: its compose replaces MongoDB, and  *)
(* with it the webapp container, unless PROBE_CONTAINER names one it has   *)
(* not.                                                                    *)
Swap(s) == SwapStack(s) /\ (Probe!ReplaceContainer \/ UNCHANGED probeVars)

SuiteStep(r) ==
    \/ StartUp(r)
    \/ StartTests(r)
    \/ UseProbe(r)
    \/ TestStep(r)
    \/ Leave(r)
    \/ CleanUp(r)
    \/ RemoveProbe(r)
    \/ Exit(r)

SuiteNext ==
    \/ \E r \in Runs : SuiteStep(r) \/ KillRun(r)
    \/ \E s \in Stacks \ {stack} : Swap(s)

(* A started run keeps executing; a test calls the probe finitely often,   *)
(* and the list of tests comes to an end.                                  *)
SuiteSpec ==
    /\ SuiteInit
    /\ [][SuiteNext]_suiteVars
    /\ \A r \in Runs : /\ WF_suiteVars(SuiteStep(r))
                       /\ SF_suiteVars(TestStep(r))
                       /\ SF_suiteVars(Leave(r))

------------------------------------------------------------------------------
(* The variables of both parts have their types, and a run is in its tests *)
(* for the probe only while it is past its startup for the lock.           *)
SuiteTypeOK ==
    /\ TypeOK
    /\ Probe!TypeOK
    /\ \A r \in Runs : place[r] \in {"suite", "exec"} => pc[r] \in {"held", "denied"}

(* cleanup(): "never leave the dev stack frozen, the freeze lock held or   *)
(* the probe sitting in a container": once all runs that were started are  *)
(* over nothing of them is left, and whoever cleans up last takes the      *)
(* probe along, unless a run was killed or a docker command failed.        *)
NothingLeftBehind ==
    (\A r \in Runs : pc[r] \in Lock!Over) /\ kills = 0 /\ faults = 0 =>
        ~file /\ ~paused /\ lock = NoFile

(* A run calls a probe that is not there only if its container has been    *)
(* replaced, or if another run has been through its cleanup.               *)
LossHasCause == Probe!LossHasCause
==============================================================================
