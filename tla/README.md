# A formal model of the eduID developer environment

`eduid-developer` is a development stack (docker compose, configuration, a PKI,
database and bootstrap scripts) and an end-to-end suite that tests how the eduID
webapps keep their session in Redis. The suite is the repository's own program
logic: it runs as several processes, pauses MongoDB under a running stack, writes
the session of a request that is in flight, and promises to leave the stack as it
found it. The specifications here are about that suite, its helper
`session_probe.py`, and the scripts that change data a developer cares about.

Everything is translated from the source; `PROJECT.json` gives, for each
definition, the lines it stands for. The webapps (`eduid-backend`), Redis, docker,
haproxy and the SCIM API are not in this repository. What the models say of them
is taken from how the code here drives them and what its tests assert, and is
marked *external* in the map.

## Inventory

| Part | State | Operations | Interacts with | Hard behaviour | Correct when |
|---|---|---|---|---|---|
| freeze lock (`playwright_session_handling.js` 411-448) | the file `CHAOS_LOCK`, `chaosLockFd` | take, take over a stale one, release, twice | other runs through the file system | takeover in three system calls, kill between any two, full disk | at most one holder; a stale lock never blocks for good |
| freezing MongoDB (369-411, 450-496, 969-986, 1379-1456) | the container's paused state, `frozen`, `chaosTargetProblem` | check whose stack it is, freeze, thaw, cleanup, recovery at startup | lock, docker | commands that fail after taking effect, kill while frozen, a stack replaced after the check | nobody thaws another run's freeze; what is frozen is thawed; no refused stack is frozen |
| probe in the container (184-226) | `/tmp/session_probe.py`, `probeInContainer` | copy, exec, remove | other runs through the container | runs share one path | it is there while needed, gone afterwards |
| race staging (1035-1156) | the session of an attempt, the freeze, the app's log | stall a request, write as sibling, thaw, judge, retry | webapp worker, haproxy check, MongoDB | the race may be missed; other sessions log too; the log may be unreadable, a call may throw in the freeze | no false pass, no false alarm, an end |
| session probe (`session_probe.py`) | one session in Redis | create, set, delete, regenerate, reset, expire | webapps | load and commit are two steps | no stale write |
| webapps' session layer (external) | sessions | load, view, commit, classify a conflict | everything above | logout, abort, expiry in between | no login comes back, only harmless losses are swallowed |
| SCIM bootstrap (`bootstrap_scim_admin.py`) | users, groups and their versions in the API | search, create, read, put with If-Match | other administrators | half-done runs, failing requests, lost PUT | nobody is dropped; a re-run completes |
| account scripts (`revoke-user`, `remove-terminated-users`, `unlock-user`) | user document, auxiliary collections | one find and save after another | webapps that keep writing | death between two saves, stale copies | a re-run completes; nothing is left behind |
| PKI (`create_pki.sh`) | key, certificate, bundle and config files | generate what is missing | haproxies that serve the bundles | `set -e` in the middle, a variable kept from one service to the next | bundles match keys; the developer's own files stay |
| test harness and browser tests (`test`, `record`, `ensureUser`, 525-965, 1240-1373) | results, the suite's user and browser context, the account file | tests in order, `--only`, `--skip`, sign-up, login, logout | all of the above | a test that fails half way, tests that need an earlier one, files older than the database | failures do not spread unexplained; runs share one account |
| log excerpts (300-366: `sessionLogWindow`, `quiet`, `diagnose`) | none | filter lines | the webapps' logs | records of several lines, excerpts that begin inside one | no dump of a session is shown; what names the session is |
| editing scripts (`load-save-users`, `make-user-al3`, `remove-tous`, ...) | a copy of a user document | read, change, save whole | webapps, account scripts | stale whole-document saves | only changes a script has not seen are lost |
| HSM setup (`setup_softhsm2.sh`) | token, HMAC keys | create once | vccs | dies between token and keys | *not modelled yet* |
| compose stack, haproxies, configuration, wrappers | containers; files | start, route | - | start order | not modelled: images are elsewhere, the rest is data or one-shot commands |

## Modules

| Module | Models | State and actions |
|---|---|---|
| `FreezeMutex` | what the lock promises | `holders`; `Take`, `Leave` |
| `ChaosLock` | `acquireChaosLock`, `releaseChaosLock`, every way a run ends | one action per system call. A run stands for its pid and for the inode it creates: `lock` is the file at the path, `written` the files with a pid in them, `fd` the runs with a descriptor |
| `ChaosLockProofs` | theorems about it | |
| `MongoFreeze` | `chaosTargetError`, `withFrozenMongo`, `thawAll`, `cleanup`, the readiness test, the recovery in `main` | instantiates `ChaosLock` on the same variables and adds `stage`, `frozen`, `pausedBy`, and `stack`, the checkout whose stack the container belongs to, or `Unlabelled`; each docker command is an action that may throw, with or without its effect |
| `ProbeInstall` | `ensureProbe`, `probe`, `removeProbe` of several runs | `file`, `probeInContainer`; the container may be replaced, the flags then stay as they are (`ReplaceContainer`, `replaced`) |
| `SuiteRuns` | whole runs of the suite: the two modules above in the order of `main`, and one `cleanup` that undoes both | the variables of both; kills and failing docker commands are shared. Another checkout's compose replaces MongoDB's container, with the webapp's or not (`Swap`) |
| `SuiteRunsProofs` | theorems about it, and about the lock within whole runs | |
| `SessionData` | a session's paths and marker, what probe commands and views make of it, the conflict verdict | operators only |
| `AtomicSession` | what the store promises: every change is one view or command done in one step | `store` |
| `SessionStore` | requests and probe invocations, load and commit as two steps, expiry | `store`, `base[a]` the loaded session, `mine[a]` what is to be stored |
| `SessionStoreProofs` | theorems about it | |
| `RaceStaging` | `concurrencyTest`, `raceOnce`, `stageRacingRequest`, `verdictLines` against one sync worker | the test's place `at`, the attempt, the worker, the log; `hit` records whether the race really took place |
| `RaceStagingProofs` | theorems about it | |
| `LogExcerpts` | `sessionLogWindow`, `quiet`, `diagnose`, on a log that grows by records of one and more lines | `log`, a line by its record's first line, whether that is a DEBUG one, carries the word DEBUG, and names the session |
| `SuiteOrder` | the options, `test`, `record`, `ensureUser`, and each test by what it does to the shared user, the session behind it and the accounts | one run whole, then the next: `user`, `main`, `at` and `step` (the place within a test), `results`; `accounts` and `accountFile` outlive the run. Runs beside it are modelled by what they do to the account file and the accounts: `seeking`, `unwritten` and `filling` say how far their sign-ups are, and `Find*`, `SignUp*`, `Open*` and `WriteAccountFile` of one run interleave with those of the others. What the freezing tests do inside is `MongoFreeze` and `RaceStaging` |
| `SuiteOrderProofs` | theorems about it, and in its last part about `LogExcerpts` | |
| `ScimBootstrap` | `main` of `bootstrap_scim_admin.py`, each request an action | ids are named by the run that created them |
| `ScimBootstrapProofs` | theorems about it | |
| `AccountScripts` | the three account scripts, each database call an action, an editing script that reads and saves a whole document, and webapps that write meanwhile | `account`, `aux`, the scripts' `copy` and `draft`; `overtaken` and `atOnce` record what happened |
| `AccountScriptsProofs` | theorems about it | |
| `CreatePki` | each command of `create_pki.sh`, interrupted and repeated | a key is numbered by the time it was made, certificate and bundle by the key they were made from |
| `CreatePkiProofs` | theorems about it | |

`MongoFreeze` composes `ChaosLock` with the freezing, `SuiteRuns` composes
`MongoFreeze` and `ProbeInstall` into whole runs, `RaceStaging` and
`SessionStore` share `SessionData`. `MC*` modules hold the
instances for TLC. Definitions whose comment says "Mutant of X" are deliberate
mistakes, kept to show that each property can fail; no specification uses them.

## Runs

| Run | Instance | What it shows |
|---|---|---|
| `lock_three` | 3 runs, 1 kill, the disk may fill | until a third run starts the lock implements `FreezeMutex` and the holder's file is its own; a takeover always has a dead holder's pid, or a vanished file, behind it; a stale lock with a pid in it is replaced |
| `lock_mutex` (violation) | 3 runs, no kill | nobody dies: run 2 finds the file of run 1, which ends and removes it; run 2 reads a vanished file, counts that as a dead holder, removes the lock that run 3 has made meanwhile, and both hold the lock |
| `suite_runs` | 2 runs from 2 checkouts, one path a prefix of the other, one run started inside its checkout and one elsewhere, a third container without a label, 1 kill, 2 failing docker commands, 1 change of the stack | nobody thaws another's freeze; nobody freezes a stack that is not its own, unless it was replaced after the check or the comparison of paths takes it for its own; runs that are over leave neither a freeze nor a probe; only another run's cleanup, or a replaced container, can make the probe vanish under one that needs it; without failing commands the lock outlives the freeze, freezes end and the next run recovers |
| `session_races` | 2 requests, 2 probe invocations, all views and commands | the login never returns, answers belong to the login they were made for, what an answered request or a finished command wrote is overwritten only by somebody who had loaded it (paths on the safe-to-lose list apart), a request is failed only for something of its own, and the loser of a first csrf token loses it to a winner, commits are atomic |
| `race_staging` | all seven concurrency tests, 3 attempts, 2 failing calls (greps, probe calls, docker commands, the request) | a pass proves that the race happened, only a missed race or a failed call makes the test repeat or fail, and it ends with MongoDB thawed whatever throws in the freeze, unless docker pause or unpause itself failed |
| `log_excerpts` | every log of 6 lines in records, a window of 1 line, 2 lines shown | a line of a DEBUG record is shown only if the record starts outside of the window; a line that names the session is kept back only for its level, the cut, the word DEBUG or newer lines |
| `suite_order` | 2 runs, 14 command lines, 1 sign-up of a run beside them, 2 failing calls or interruptions, 1 emptied database, 1 removed account file; failing calls and sign-ups beside are together 2 at most (`TwoAtMost`, a constraint) | a test that fails without a failing call of its own has one of four causes, so a run of all tests in which nothing fails is green; a run that ends green has passed what was picked, with an account if that needs one; runs sign up for one account, except for one more per failure, removal or race of two sign-ups |
| `scim_three` | 3 administrators (2 for the same person), 1 deletion, 1 failing request | no member is lost, an undisturbed run adds its user whatever was left half done, and undisturbed runs make one group |
| `scim_added` (violation) | 2 administrators, nothing fails | the PUT refused by If-Match is reported as "Added" |
| `account_scripts` | 1 death, 1 editing script at a time, webapps storing in 2 collections | a re-run completes; an emptied account has nothing left but what came in behind the script's back; the document is what it would be had each script been one step, but for what an overtaken script saved over |
| `pki_three` | 3 services, all choices of own config files, 2 interruptions | bundles match keys, undisturbed runs are complete |
| `pki_own_config` (violation) | 2 services | a generated `.conf` of one service makes the script remove the developer's own of the next |

### Why these bounds

- Runs of the suite: the lock's hazards need a reader, a taker and one more; the
  freeze and the probe need one victim and one other, each on its own checkout,
  since the check of the stack tells them apart. Three is where the lock's
  takeover breaks, two is where the promises hold, and the theorems show that
  "two" is the exact limit for any number of potential runs.
- Kills and failing commands (`MaxKills`, `MaxCliFaults`, `MaxFaults`,
  `MaxCrashes`, `MaxInterrupts`): one is enough to leave a half-done state for
  somebody else; two let the recovery fail as well.
- Sessions: each actor acts once, since an actor keeps nothing from one command to
  the next. Two requests and two probes give every pair of writers a third party.
  One path stands for those the webapps may lose, one for the rest.
- `MaxAttempts` is `RACE_ATTEMPTS`, 3, the code's own value.
- The suite: one run leaves the account file and the next uses it; two failing
  calls allow a test to be hit and the one that would repair it as well. One
  sign-up beside them is enough to race with either, to be read half written and
  to be overwritten; together with two failing calls it would show a race after
  two failures in the same way (28 million states without the constraint and no
  end, 7 million with it).
- Log excerpts: a window of one line is cut in the middle of a record of two, six
  lines hold two naming records with a dump between them and a third before.
- PKI: with two services a variable is carried over, with three it is carried
  over a service that was skipped.

`CHECK_DEADLOCK FALSE` is set where every process may be at its end; only
`CreatePki` can always be run again.

### Fairness

- `ChaosLock`, `SuiteRuns`: weak fairness of each run's steps. A
  run is a process the system schedules; its docker and file calls return. Strong
  fairness of the run's next test and of its end (`TestStep`, `Leave`) says that
  the list of tests is finite: they are not put off for ever by one more freeze. A run that is killed takes no further step, and kills
  are never required.
- `RaceStaging`: weak fairness of the test's own steps, since its waits have
  timeouts; weak fairness of the worker's answers, which need MongoDB thawed;
  strong fairness of `Serve`, as the worker takes requests from a queue and
  health checks, answered from a warm cache, do not overtake for ever.
- `AccountScripts`: a started script goes on, and `remove-terminated-users` is run
  regularly (strong fairness, since other scripts may be at work at any moment).
- Nothing is assumed of failures, the passing of time, haproxy or other users.

## Proofs

Every bound is a parameter: the theorems hold for any number of runs, kills,
failing calls, attempts, services and so on, where the runs of the model checker
have two or three. The inductive invariants below were checked by TLC on the
instance of the component's run before they were proved.

### The suite

`ChaosLockProofs`:

- `TypeCorrect`, and `TakeoverEvidence`: `TakeoverHasEvidence` is not inductive
  because a run that is not started is "over" too. `EvidenceInv` adds that every
  pid ever read or written is a started run's, and that a run has read nothing
  before it reads the file.
- `HolderKeepsFile`, `TwoRunsExclude`, `RefinesMutex`: until a third run is
  started, the file is the holder's, the lock is exclusive and implements
  `FreezeMutex`. The inductive invariant is `ThirdRun \/ TwoRunInv`. Its core:
  whoever found the path taken met a run that holds the lock or is past it
  (`ContenderMeetsOwner`), and whoever is about to remove the file knows that the
  other run is past the lock for good (`TakerIsAlone`). With a third run "the
  other" is no longer one run, which is how `lock_mutex` breaks it. The file's
  owner can only be missing from `fd` when it was killed (`FileHasOwner`).

`SuiteRunsProofs` is about whole runs, the composition of the lock, the freeze
and the probe:

- Every step of a whole run is a step of the freeze or leaves it alone
  (`SeenByFreeze`), and likewise for the probe (`SeenByProbe`); so each part has
  its own invariants, kept by its own steps. `Lockstep` alone says where a run can
  be in both at once.
- `KeepsToTheLock`: a whole run implements `ChaosLock`. `ChaosLockProofs` is
  instantiated (`OfLock`), so what is proved of the lock holds of whole runs.
- `FreezerHolds`, `NothingLeft`, `LossIsExplained` and `OnlyOwnStack` hold for any
  number of runs, although the lock excludes only two: they rest on what a run
  does itself. `DescriptorInv` and `FrozenInv` say that what is in a run's
  `frozen` it froze under its own descriptor and has not thawed; `PausedInv` that
  a paused MongoDB is in its freezer's set, or the freezer was killed;
  `AcceptedInv` that a run past its look at the labels accepts the stack it saw;
  `ProbeInv` and `LossInv` that a probe in the container has somebody who will
  remove it, and that one that went missing was removed by a run that has exited,
  or went with its container.
- `OwnStackWhenToldApart`: what `chaosTargetError` accepts is the run's own
  checkout when every container has its label and no stack's path starts like
  another checkout's (`ToldApart`). Only then, and without `ALLOW_FOREIGN_STACK`,
  is the comment of line 375 true as it stands.
- `ThawIsTheFreezers` and `TwoRunsThawTheirOwn`: a thaw undoes the thawing run's
  own freeze until a third run is started, and always when there are two runs.
  These need the exclusion of the lock. A third run breaks it, so `NoForeignThaw`
  has the number of runs as hypothesis; it is the theorem's only one.

`RaceStagingProofs`:

- `NoFalsePass`: `OkOnlyAfterRace` needs that no request of an earlier attempt is
  around when the next is staged (`PhaseInv`), and that a line that names this
  attempt's session was logged by its one request after the sibling had written
  (`LinesInv`).
- `NoFalseAlarm`: `OnlyMissesRepeatOrFail` needs what the request of a real race
  carries from the sibling's write to the judgement: the prepared session, or the
  status and the verdict that the test expects (`StagedInv`). That each of the
  seven tests expects what the webapps' classification answers is a lemma of its
  own, `RaceIsExpected`, for any lists of paths within the assumptions.

`SuiteOrderProofs`:

- A step records the result of the test the run has come to, moves within that
  test, or is between two tests (`Kinds`, `JudgeSteps`, `TurnSteps`). What is
  still to come has no result yet (`PlaceInv`): so `failures` counts each failure
  once (`TypeCorrect`), and a cause that refers to an earlier test cannot go away.
- `OneAccount`, for runs one after another and any number beside each other: of
  the sign-ups that were made or set out on, all but one are accounted for by a
  failure, a removal or a race, and that one is in the account file or on its way
  there (`OneAccountInv`). It counts a race when a run sets out, which is why no
  bound on how long a sign-up takes is needed.
- `GreenIsTested`: what a selected test may have recorded depends on the test and
  on the freezing being allowed, and "ok" has a user behind it (`GreenInv`).
- `FailuresHaveCauses`: `UserInv` says what is known of the account from step to
  step of `ensureUser`, `LoginInv` that a login that did not work had no usable
  account, `SharedInv` that the shared session stays logged in until the logout,
  unless the test of the ttl was hit between cutting the ttl and renewing it. Each
  test that fails has its cause (`FailsForCause`), and an account that cannot be
  used stays so for the run (`StaysUnusable`).
- The log excerpts, in the last part of the module: `LogIsOfRecords` is the
  invariant that a line belongs to the record of a first line at or before it,
  with no other record starting in between (`RecordsAreWhole`). `RecordDecides`
  concludes that `quiet` decides about a line as it did about the first line of
  its record, if the window has that one. `NoDumpIsShown` and `NamingLinesSurvive`
  follow, the latter for a window and a number of lines that are numbers.

### The session

`SessionStoreProofs`:

- The invariant `LoadedInv` says what a loaded copy is: one view, or one command,
  applied to exactly the session that was loaded, and for a request one with a
  login. `StoreSteps` then says what a step can do to the store, `Answering` what
  an answer rests on, `Swallowed` what the verdict guarantees.
- `NoLoginReturns`, `AnswersAreForThisLogin` and `CommitsAreAtomic` (refinement of
  `AtomicSession`) follow from these without further invariants.
- `WritesAreNotLostUnseen`: each commit writes over exactly what its writer had
  loaded, so the chain from a write to what is stored has no gap; a commit that
  lost and was swallowed had nothing to write off the list.
- `ReadersAreSafe`: the promise of the test "parallel requests across webapps",
  that requests beside each other are not failed for what another one did. It
  holds while nobody logs out and no probe rewrites the session, except to take
  its csrf token away before any request (`Undisturbed`). `ParallelInv` says how a
  session differs from the one a request loaded (`OnlyGrown`), who left the first
  token there (`FirstTokenStays`), and that a request that failed had something
  of its own to store (`HadOwnToStore`).

### The scripts

`AccountScriptsProofs`:

- `NothingIsLeft`: while a script runs, nothing but what the webapps stored behind
  its back is in the collections it has been through, and every copy was read
  while the user could be loaded (`LeftInv`).
- `OnlyUnseenAreLost`: a copy that nobody has overtaken is the document as it is;
  the document is what the scripts would have made of it in one step each, except
  between the two saves of `unlock-user` (`LostInv`).

`ScimBootstrapProofs`:

- `MembersAreKept`: a run about to put holds a copy with every current member, or
  one whose version is no longer current (`PutInv`), and the PUT of the latter is
  refused.
- `UndisturbedAdds`: an undisturbed run is alone (`AloneInv`), so at each of its
  requests what it found is still there (`Succeeds`); and it finds the group that
  an earlier undisturbed run made, so that these make one (`GroupsInv`).

`CreatePkiProofs`:

- `BundlesMatch`: a key is made only where there is none, and until its bundle is
  there the service has none of before (`LeafInv`).
- `Complete`: if nothing was ever interrupted, each key but the one at work has its
  bundle, and each service before the one at work its key (`CompleteInv`).

### Assumptions

| Assumption | Module | Why the code has it |
|---|---|---|
| `NoFileAssumption`, `LockAssumption`, `NoRunAssumption`, `NoneAssumption` | `ChaosLock`, `MongoFreeze`, `SuiteOrder` | "no file", "no run", "no account" are not runs or accounts |
| `OptionsAssumption` | `SuiteOrder` | a command line selects among the tests; `--email` names no account or the developer's |
| `CheckoutAssumption`, `CollectionsAssumption`, `ScimAssumption`, `NamesAssumption` | `MongoFreeze`, `AccountScripts`, `ScimBootstrap`, `CreatePki` | typing of the parameters: each run has a checkout and a working directory, each administrator is a person, the list of services is not empty |
| `PathListsAssumption` | `SessionData` | the suite's own test of the two lists insists on it (line 988) |
| `ParallelAssumption` | `SessionStore` | the test of parallel requests (lines 952-963) stores a path that no other writer is failed for |
| `LanguageAssumption` | `RaceStaging` | the fourth concurrency test relies on the language not being fatal to another writer |
| `ActorsAssumption`, `SessionsAssumption` | `SessionStore`, `RaceStaging` | requests are not probes; an absent path is not a value, and Redis' nothing not a session |
| `BoundsAssumption`, `KillsAssumption`, `DiskAssumption`, `FaultsAssumption`, `CrashesAssumption`, `AttemptsAssumption`, `InterruptsAssumption`, `SizesAssumption` | several | bounds are numbers, and there is at least one attempt |

### What is only model-checked

- Liveness (`StaleLockReplaced`, `FreezeEnds`, `NextRunRecovers`, `TestEnds`,
  `DueAccountsAreDealtWith`): the prover has no rules for fairness.

Every other property of the passing runs is the subject of a theorem.
No module declares a recursive operator.

## What was found

Each is shown by a run and listed in `PROJECT.json`: the freeze lock, where
what was read decides and whatever is at the path by then is removed
(`lock_mutex`), "Added user" for a user who was not added (`scim_added`), own config files
removed (`pki_own_config`).

The models contain further behaviour that properties are stated around, because
it is what the code does:

- A run killed between creating the lock file and writing its pid leaves an empty
  file. It is read as pid 0, `process.kill(0, 0)` signals the caller's own process
  group and succeeds, and no later run gets the lock (hence `q \in written` in
  `StaleLockReplaced`).
- A docker command that throws after it has taken effect leaves MongoDB paused, or
  the probe in the container, after an orderly cleanup: `frozen` and
  `probeInContainer` are set only after the command, and cleared before it
  (`faults > 0` in several properties).
- Of two runs that share the container, the one that ends first removes the
  probe under the other, and a webapp container that another checkout's compose
  has replaced has no probe although `probeInContainer` says so (lines 186-193):
  both are causes in `LossHasCause`.
- `create_pki.sh` looks at the key only: a service interrupted between key and
  bundle is skipped for good (`interrupts = 0` in `CompleteUnlessInterrupted`).
- `unlock-user` resets the count before it removes the password; when it dies in
  between, the next run sees nothing to do and the password stays (`Halfway` in
  `OnlyUnseenChangesAreLost`).
- A script that saves a user document saves all of it, so a termination or a new
  password stored since it was read is undone, and a revoked account comes back
  when `load-save-users` had read it before (`overtaken` in `Write`).
- `chaosTargetError` asks once per run. A stack that is replaced afterwards is
  frozen all the same (`stale` in `FreezesOwnStack`).
- "Refuse to freeze a MongoDB that this checkout does not own" (line 375) is not
  what its comparison of paths does: a checkout whose path continues this one's
  (`eduid-developer-2`) counts as this one, and a container without the label is
  "(unknown)" (line 386), a relative path that a run started inside its checkout
  resolves to one of its own (line 388). `FreezesOwnStack` names both as
  `TakenForOwn`. The header (lines 93-95) says that both containers are verified;
  the one of the probe is not.
- A `docker exec` of grep that fails is taken for a log without lines, and a probe
  call, docker command or request that throws ends the test after the race may
  have taken place (`faults' > 0` in `OnlyMissesRepeatOrFail`; `CreateFails`,
  `FreezeFails`, `SiblingFails`, `ThawFails`, `AwaitFails`).
- `sessionLogWindow` passes `-A` to grep, which gives a window after every line
  that names the session, not "after the last line naming it"; `quiet` carries its
  decision from one such group into the next, and takes the word DEBUG anywhere
  in a first line for the level (the exceptions of `NamingLinesAreShown`).
- A request of the storm test that is rejected before it is awaited ends the
  process with the test unrecorded (`StormCrash`).
- The test marked as a known gap reports XFAIL for whatever fails in it, a login
  included; `--only "brand new session"` with an unusable account exits 0.
- A run that does not get the freeze lock goes on (lines 1399-1405), and
  `ensureUser` looks for the account file once, a whole sign-up before it writes
  it (lines 746-758): two runs that start together make an account each, and the
  last one written stays (`races` in `RunsShareTheAccount`). One that reads the
  file while another has truncated it, or finds it empty for good because that
  one died then, fails in `JSON.parse` (`ReadFails`; such a test is in `hit`).
- An account file from before the database was emptied makes every run without
  `--email` fail until the file is removed: `ensureUser` signs up only when there
  is none (`NoUsableAccount`).
- "after a logout the IdP asks for a password again", selected without the logout
  test, logs in first and then finds itself logged in (`NoLogoutBefore`).

## Abstractions

- All runs belong to one user, and pids are not reused within the life of a lock;
  `EPERM` from `process.kill` (another user's run) is left out.
- A path is a sequence of two parts, enough for one that continues another;
  `ALLOW_FOREIGN_STACK` is a set of runs.
- An editing script's own change is not told apart from what it read: the model
  knows an account's status and its password. There is one such script at a time.
- Time-to-live values are one bit, cut short or not. Session contents are six
  paths; texts, tokens and ids are members of small sets.
- A view of a webapp reads, writes one path of its own, or logs out. A request
  that finds no login is answered without a commit.
- `RawDb.save_with_backup` replaces the document with the `_id` that was read,
  whatever it holds by then; it and the database driver are not in this
  repository.
- The SCIM API compares If-Match with the current version and is otherwise a
  store; two creations of the same user or group both succeed.
- In `SuiteOrder` the file is not removed between truncating and writing it, and
  the database not emptied while the run that is modelled whole is at work; what
  two runs write to the file at once is the last one's.
- There an eppn is its account; a failing call takes effect or not by
  happening after or before the step it belongs to; the ttl that a test cuts to
  300 s does not run out within that test, and the full ttl never does.
- `redact` rewords text and `verdictNamingHint` words a message: they, the wording
  of log lines and reports and all formatting are left out.

## Not modelled

- `setup_softhsm2.sh`: it creates a token and its keys and ends when the token
  exists, an interrupted setup included; the behaviour is that of `CreatePki`
  with one service.
- `pysaml2-cleanup`, `drop-all-managed-accounts`, `source-queue-items`,
  `import_test_navet_users`, `db_setup.py`: deletions by one filter each and
  one-off inserts, with no state between their calls that another one reads.
- Scripts that print, compose, haproxy and service configuration, and wrappers
  around git, npm and docker: data, or one command. The images that the compose
  file starts are not in this repository.
- The environment guard of the probe (`_refusal`), a condition on one setting.

## Plan

Done, in this order: lock, freeze, session store, race staging, SCIM bootstrap,
probe, account scripts, PKI, the order of the suite; whole runs of the suite with
the check of the stack, log excerpts, editing scripts; proofs of the lock, of the
store and of the excerpts; proofs of whole runs, of race staging, of the order
of the suite and of the three groups of scripts.

Next: a model of the HSM setup, beside `CreatePki`: a token that exists ends
`setup_softhsm2.sh`, also when an earlier run died before the keys were made.
