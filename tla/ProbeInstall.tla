---------------------------- MODULE ProbeInstall -----------------------------
(***************************************************************************)
(* How runs of scripts/playwright_session_handling.js share one webapp     *)
(* container for scripts/session_probe.py: every run copies the probe in   *)
(* when it first needs it, remembers that it did, and removes it in its    *)
(* cleanup.  The path is the same for all runs, and a run that does not    *)
(* get the freeze lock goes on beside the one that has it.                 *)
(*                                                                         *)
(* docker commands are synchronous in a run: its signal handlers run only  *)
(* between two calls of probe(); other runs interleave between commands.   *)
(***************************************************************************)
EXTENDS Naturals

CONSTANTS Runs,
          MaxKills,         \* bound: runs killed without cleanup
          MaxCliFaults      \* bound: docker commands that fail on their own

VARIABLES
    pc,                 \* where each run is
    file,               \* /tmp/session_probe.py is in the container
    probeInContainer,   \* the runs whose flag of that name is set
    lost,               \* the runs that called a probe that was not there
    replaced,           \* the runs whose copy went with its container
    kills, faults

vars == <<pc, file, probeInContainer, lost, replaced, kills, faults>>

Places == {"idle", "suite", "exec", "cleanup", "exited", "killed"}

Alive(r) == pc[r] \in {"suite", "exec", "cleanup"}

Goto(r, place) == pc' = [pc EXCEPT ![r] = place]

Init ==
    /\ pc = [r \in Runs |-> "idle"]
    /\ file = FALSE
    /\ probeInContainer = {}
    /\ lost = {}
    /\ replaced = {}
    /\ kills = 0
    /\ faults = 0

(* A docker command that should leave the file there or not, as installed  *)
(* says; it can fail on its own, having done so or not, and then throws.   *)
Docker(installed, thrown) ==
    \/ /\ ~thrown
       /\ file' = installed
       /\ UNCHANGED faults
    \/ /\ thrown
       /\ faults < MaxCliFaults
       /\ faults' = faults + 1
       /\ file' \in {file, installed}

Start(r) ==
    /\ pc[r] = "idle"
    /\ Goto(r, "suite")
    /\ UNCHANGED <<file, probeInContainer, lost, replaced, kills, faults>>

(* Mutant of EnsureProbe: the flag is set before the copy. *)
EnsureProbe_FlagFirst(r) ==
    /\ pc[r] = "suite"
    /\ IF r \in probeInContainer
       THEN Goto(r, "exec") /\ UNCHANGED <<file, probeInContainer, faults>>
       ELSE /\ probeInContainer' = probeInContainer \cup {r}
            /\ \/ Docker(TRUE, FALSE) /\ Goto(r, "exec")
               \/ Docker(TRUE, TRUE) /\ UNCHANGED pc
    /\ UNCHANGED <<lost, replaced, kills>>

(* ensureProbe: docker cp unless this run has done it already.  When the   *)
(* command throws, the test fails and the suite goes on.                   *)
EnsureProbe(r) ==
    /\ pc[r] = "suite"
    /\ \/ /\ r \in probeInContainer
          /\ Goto(r, "exec")
          /\ UNCHANGED <<file, probeInContainer, faults>>
       \/ /\ r \notin probeInContainer
          /\ Docker(TRUE, FALSE)
          /\ probeInContainer' = probeInContainer \cup {r}
          /\ Goto(r, "exec")
       \/ /\ r \notin probeInContainer
          /\ Docker(TRUE, TRUE)
          /\ UNCHANGED <<pc, probeInContainer>>
    /\ UNCHANGED <<lost, replaced, kills>>

(* probe: docker exec of the file. *)
ExecProbe(r) ==
    /\ pc[r] = "exec"
    /\ lost' = IF file THEN lost ELSE lost \cup {r}
    /\ Goto(r, "suite")
    /\ UNCHANGED <<file, probeInContainer, replaced, kills, faults>>

(* The suite is over, or SIGINT/SIGTERM is handled between two calls. *)
Finish(r) ==
    /\ pc[r] = "suite"
    /\ Goto(r, "cleanup")
    /\ UNCHANGED <<file, probeInContainer, lost, replaced, kills, faults>>

(* Mutant of RemoveProbe: the flag is cleared, the file stays. *)
RemoveProbe_KeepsFile(r) ==
    /\ pc[r] = "cleanup"
    /\ probeInContainer' = probeInContainer \ {r}
    /\ Goto(r, "exited")
    /\ UNCHANGED <<file, lost, replaced, kills, faults>>

(* Mutant of RemoveProbe: the flag is cleared only by a rm that worked. *)
RemoveProbe_KeepsFlag(r) ==
    /\ pc[r] = "cleanup"
    /\ \/ /\ r \in probeInContainer
          /\ \E thrown \in BOOLEAN :
                /\ Docker(FALSE, thrown)
                /\ probeInContainer' = IF thrown THEN probeInContainer
                                       ELSE probeInContainer \ {r}
       \/ r \notin probeInContainer /\ UNCHANGED <<file, probeInContainer, faults>>
    /\ Goto(r, "exited")
    /\ UNCHANGED <<lost, replaced, kills>>

(* removeProbe: a failing rm is reported and not tried again, since the    *)
(* flag is already cleared when cleanup runs again on "exit".              *)
RemoveProbe(r) ==
    /\ pc[r] = "cleanup"
    /\ IF r \in probeInContainer
       THEN \E thrown \in BOOLEAN : Docker(FALSE, thrown)
       ELSE UNCHANGED <<file, faults>>
    /\ probeInContainer' = probeInContainer \ {r}
    /\ Goto(r, "exited")
    /\ UNCHANGED <<lost, replaced, kills>>

Kill(r) ==
    /\ kills < MaxKills
    /\ Alive(r)
    /\ Goto(r, "killed")
    /\ probeInContainer' = probeInContainer \ {r}
    /\ kills' = kills + 1
    /\ UNCHANGED <<file, lost, replaced, faults>>

(* The webapp container is replaced by a new one, without the file; what   *)
(* the runs remember of their copies stays as it is.                       *)
ReplaceContainer ==
    /\ file' = FALSE
    /\ replaced' = replaced \cup probeInContainer
    /\ UNCHANGED <<pc, probeInContainer, lost, kills, faults>>

RunStep(r) ==
    \/ Start(r)
    \/ EnsureProbe(r)
    \/ ExecProbe(r)
    \/ Finish(r)
    \/ RemoveProbe(r)

Next == (\E r \in Runs : RunStep(r) \/ Kill(r)) \/ ReplaceContainer

Spec == Init /\ [][Next]_vars

------------------------------------------------------------------------------
TypeOK ==
    /\ pc \in [Runs -> Places]
    /\ file \in BOOLEAN
    /\ probeInContainer \subseteq {r \in Runs : Alive(r)}
    /\ lost \subseteq Runs
    /\ replaced \subseteq Runs
    /\ kills \in 0..MaxKills
    /\ faults \in 0..MaxCliFaults

(* "copied into the webapp container only while a run needs it" - a run    *)
(* calls a probe that is not there only if its copy went with a container  *)
(* that was replaced, or if another run has been through its cleanup: a    *)
(* copy that failed is made again by the next call.                        *)
LossHasCause ==
    \A r \in lost : r \in replaced \/ \E q \in Runs \ {r} : pc[q] = "exited"

==============================================================================
