------------------------------ MODULE ChaosLock ------------------------------
(***************************************************************************)
(* The MongoDB-freeze lock of scripts/playwright_session_handling.js: a    *)
(* lock file in the temporary directory, created exclusively, holding the  *)
(* pid of its creator, and taken over when that pid is no longer alive.    *)
(*                                                                         *)
(* A run is one node process and takes the lock at most once, so a run     *)
(* stands for its pid and for the file (the inode) it creates.  Each       *)
(* action is one system call with the code up to the next one: the runs    *)
(* are separate processes and interleave there.  Inside one run the code   *)
(* is synchronous, so no signal handler runs between these steps; SIGKILL  *)
(* (and SIGHUP, which has no handler) can end a run between any two.       *)
(***************************************************************************)
EXTENDS Naturals

CONSTANTS Runs,        \* the runs that may be started, by pid
          NoFile,      \* no lock file at the path CHAOS_LOCK
          MaxKills,    \* bound: how many runs are killed without cleanup
          DiskMayFill  \* whether the pid's write can find no space left

ASSUME NoFileAssumption == NoFile \notin Runs
ASSUME KillsAssumption == MaxKills \in Nat
ASSUME DiskAssumption == DiskMayFill \in BOOLEAN

VARIABLES
    pc,       \* where each run is
    lock,     \* the file at CHAOS_LOCK, named by the run that created it
    written,  \* the files whose pid has been written
    fd,       \* the runs whose chaosLockFd is not null
    seen,     \* the pid each run read from the file
    kills     \* runs killed so far

lockVars == <<pc, lock, written, fd, seen, kills>>

Acquiring == {"reading", "probing", "removing", "reopening", "writing"}
Places == {"idle", "held", "denied", "cleanup", "ending", "exited", "killed"}
            \cup Acquiring
Over == {"idle", "exited", "killed"}

(* process.kill(pid, 0) succeeds for a process that exists. *)
Alive(r) == pc[r] \notin Over

Goto(r, place) == pc' = [pc EXCEPT ![r] = place]

Init ==
    /\ pc = [r \in Runs |-> "idle"]
    /\ lock = NoFile
    /\ written = {}
    /\ fd = {}
    /\ seen = [r \in Runs |-> NoFile]
    /\ kills = 0

------------------------------------------------------------------------------
(* acquireChaosLock *)

(* Mutant of CreateFile: openSync with "w", which never fails. *)
CreateFile_NotExclusive(r) ==
    /\ lock' = r
    /\ fd' = fd \cup {r}
    /\ Goto(r, "writing")
    /\ UNCHANGED <<written, seen, kills>>

(* openSync(CHAOS_LOCK, "wx") on a free path: the file exists, still empty. *)
CreateFile(r) ==
    /\ lock = NoFile
    /\ lock' = r
    /\ fd' = fd \cup {r}
    /\ Goto(r, "writing")
    /\ UNCHANGED <<written, seen, kills>>

OpenExclusive(r) == pc[r] = "idle" /\ CreateFile(r)

(* EEXIST from the first openSync. *)
FindExisting(r) ==
    /\ pc[r] = "idle"
    /\ lock # NoFile
    /\ Goto(r, "reading")
    /\ UNCHANGED <<lock, written, fd, seen, kills>>

(* readFileSync: a vanished file throws, which counts as a dead holder; an *)
(* empty one reads as pid 0, and signalling one's own group succeeds.      *)
ReadHolder(r) ==
    /\ pc[r] = "reading"
    /\ \/ /\ lock = NoFile
          /\ Goto(r, "removing")
          /\ UNCHANGED seen
       \/ /\ lock # NoFile
          /\ lock \notin written
          /\ Goto(r, "denied")
          /\ UNCHANGED seen
       \/ /\ lock \in written
          /\ seen' = [seen EXCEPT ![r] = lock]
          /\ Goto(r, "probing")
    /\ UNCHANGED <<lock, written, fd, kills>>

(* Mutants of ProbeHolder: the answer is not looked at. *)
ProbeHolder_NeverDead(r) ==
    /\ pc[r] = "probing"
    /\ Goto(r, "denied")
    /\ UNCHANGED <<lock, written, fd, seen, kills>>

ProbeHolder_NeverAlive(r) ==
    /\ pc[r] = "probing"
    /\ Goto(r, "removing")
    /\ UNCHANGED <<lock, written, fd, seen, kills>>

(* process.kill(pid, 0): the lock is busy, or left by a killed run. *)
ProbeHolder(r) ==
    /\ pc[r] = "probing"
    /\ Goto(r, IF Alive(seen[r]) THEN "denied" ELSE "removing")
    /\ UNCHANGED <<lock, written, fd, seen, kills>>

(* rmSync(CHAOS_LOCK, force): removes whatever file is at the path now. *)
RemoveStale(r) ==
    /\ pc[r] = "removing"
    /\ lock' = NoFile
    /\ Goto(r, "reopening")
    /\ UNCHANGED <<written, fd, seen, kills>>

(* The second openSync; its EEXIST is not caught and ends the run. *)
Reopen(r) ==
    /\ pc[r] = "reopening"
    /\ \/ CreateFile(r)
       \/ /\ lock # NoFile
          /\ Goto(r, "ending")
          /\ UNCHANGED <<lock, written, fd, seen, kills>>

(* Mutant of WritePid: writes by path, into whatever file is there now. *)
WritePid_ByPath(r) ==
    /\ pc[r] = "writing"
    /\ written' = written \cup {lock}
    /\ Goto(r, "held")
    /\ UNCHANGED <<lock, fd, seen, kills>>

(* writeSync of the pid, into the file this run opened. *)
WritePid(r) ==
    /\ pc[r] = "writing"
    /\ written' = written \cup {r}
    /\ Goto(r, "held")
    /\ UNCHANGED <<lock, fd, seen, kills>>

(* writeSync finds no space left: uncaught, the run goes to its exit. *)
WriteFails(r) ==
    /\ DiskMayFill
    /\ pc[r] = "writing"
    /\ Goto(r, "ending")
    /\ UNCHANGED <<lock, written, fd, seen, kills>>

------------------------------------------------------------------------------
(* The end of a run *)

(* Mutant of ReleaseChaosLock: without the test for a null descriptor. *)
ReleaseChaosLock_Always(r) ==
    /\ lock' = NoFile
    /\ fd' = fd \ {r}

(* releaseChaosLock: a no-op once the descriptor is null, otherwise it     *)
(* removes the file at the path.                                           *)
ReleaseChaosLock(r) ==
    IF r \in fd
    THEN lock' = NoFile /\ fd' = fd \ {r}
    ELSE UNCHANGED <<lock, fd>>

(* The suite is over, or SIGINT/SIGTERM is delivered. *)
Finish(r) ==
    /\ pc[r] \in {"held", "denied"}
    /\ Goto(r, "cleanup")
    /\ UNCHANGED <<lock, written, fd, seen, kills>>

(* An error before the suite's try block: only the "exit" event cleans up. *)
Abort(r) ==
    /\ pc[r] = "held"
    /\ Goto(r, "ending")
    /\ UNCHANGED <<lock, written, fd, seen, kills>>

(* cleanup() from the finally block or from the signal handler. *)
Cleanup(r) ==
    /\ pc[r] = "cleanup"
    /\ ReleaseChaosLock(r)
    /\ Goto(r, "ending")
    /\ UNCHANGED <<written, seen, kills>>

(* cleanup() once more, from the "exit" event; then the process is gone. *)
CleanupOnExit(r) ==
    /\ pc[r] = "ending"
    /\ ReleaseChaosLock(r)
    /\ Goto(r, "exited")
    /\ UNCHANGED <<written, seen, kills>>

(* Killed: no handler runs, the descriptor is closed, the file stays. *)
Kill(r) ==
    /\ kills < MaxKills
    /\ Alive(r)
    /\ Goto(r, "killed")
    /\ fd' = fd \ {r}
    /\ kills' = kills + 1
    /\ UNCHANGED <<lock, written, seen>>

AcquireStep(r) ==
    \/ OpenExclusive(r)
    \/ FindExisting(r)
    \/ ReadHolder(r)
    \/ ProbeHolder(r)
    \/ RemoveStale(r)
    \/ Reopen(r)
    \/ WritePid(r)
    \/ WriteFails(r)

RunStep(r) == AcquireStep(r) \/ Finish(r) \/ Abort(r) \/ Cleanup(r)
                \/ CleanupOnExit(r)

Next == \E r \in Runs : RunStep(r) \/ Kill(r)

Spec == Init /\ [][Next]_lockVars

(* A started run keeps executing, and the runs of the set are started.     *)
FairSpec == Spec /\ \A r \in Runs : WF_lockVars(RunStep(r))

------------------------------------------------------------------------------
TypeOK ==
    /\ pc \in [Runs -> Places]
    /\ lock \in Runs \cup {NoFile}
    /\ written \subseteq Runs
    /\ fd \subseteq Runs
    /\ seen \in [Runs -> Runs \cup {NoFile}]
    /\ kills \in 0..MaxKills

(* Three runs or more have been started so far.                            *)
ThirdRun ==
    \E p, q, r \in Runs :
        /\ p # q /\ q # r /\ p # r
        /\ "idle" \notin {pc[p], pc[q], pc[r]}

(* The lock file on disk is the one the holding run opened: nobody has     *)
(* removed or replaced it behind the holder's back.  It is what makes the  *)
(* lock exclusive, and holds as long as no third run takes part.           *)
HolderOwnsFile == ThirdRun \/ \A r \in fd : lock = r

(* "a run takes a lock so that two runs cannot fight over one MongoDB"     *)
(* (header of playwright_session_handling.js): two runs never both believe *)
(* that they hold it.                                                      *)
MutualExclusion == \A p, q \in Runs : pc[p] = "held" /\ pc[q] = "held" => p = q

(* A takeover starts only from evidence that stays true: the run whose pid *)
(* was read is over, or the file had vanished (then the pid is unset).     *)
TakeoverHasEvidence ==
    \A r \in Runs : pc[r] \in {"removing", "reopening"} =>
        seen[r] = NoFile \/ ~Alive(seen[r])

(* A lock left by "a run that was killed without cleaning up"              *)
(* (acquireChaosLock) does not shut later runs out: when another run comes *)
(* it is replaced.  It has to hold a pid: a file left empty is read as pid *)
(* 0, which is always alive.                                               *)
StaleLockReplaced ==
    \A q \in Runs :
        (lock = q /\ pc[q] = "killed" /\ q \in written
            /\ \E r \in Runs : pc[r] = "idle") ~> lock # q

(* The lock keeps the promise of FreezeMutex, fd being the set of holders, *)
(* until a third run takes part.                                           *)
Mutex == INSTANCE FreezeMutex WITH holders <- IF ThirdRun THEN {} ELSE fd
ImplementsMutex == Mutex!Spec

==============================================================================
