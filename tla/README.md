# A formal model of a11y-witness

a11y-witness measures what a screen reader user gets from a web page by driving a real
NVDA in a real Windows guest and recording what it says. A run of the lab sends hundreds
of pages to a fleet of such guests. Each guest has **one** screen reader, every call to it
may hang, and the evidence is worthless if two captures shared an NVDA, if an NVDA read a
page after it had broken on another, or if a page was counted twice or not at all. This
directory models the parts of the code that see to that: the worker in the guest, the life of its
NVDA, the desktop it clears before a capture, the client that buys a capture over the
network, the pool that spreads a run over the workers, what a run leaves on disk for the
next one, the server the pages come from, the guest a local run starts and puts back, and
the timeouts around it all, with a clock. Beside them are three protocols by which the
agents that develop the repository share it: who holds a row of the tracker, who may keep a
pull request from merging, and when a merge that broke main is to be reverted.

The modules are written from the source (`src/packages/...`), not from its docs.
`PROJECT.json` maps every definition to the lines it stands for, lists each TLC run, the
theorems and the hazards. Paths below are relative to
`src/packages/` and, after the first mention, often to their file name.

Contents: 1 inventory, 2 modules and how they correspond to the code, 3 runs, bounds and
fairness, 4 proofs, 5 where code and words part, 6 what is not modelled, 7 plan, 8 running it.

## 1. Inventory

The system, from the page to the report:

```
  cli / lab runs  --->  worker pool  --->  capture client  ==HTTP==>  capture worker
  (gates, corpus,       (queue, blame,     (id, dispatch,             (slot, results,
   real pages)           eviction)          poll, reissue)             recovery, warm-up)
        |                                                                   |
   progress file,                                                   screen reader lifecycle
   cache, resume                                                   (start, reuse, recycle, stop)
                                                                            |
                                                                    NVDA + browser (external)
```

Everything left of the wire runs in one Node process per run, everything right of it in
one Node process per guest. Neither has threads: concurrency is callbacks interleaving at
`await`, several clients of one worker, several flows driving one NVDA, and processes that
stop at any time.

| Component | State | Operations | Talks to |
|---|---|---|---|
| **Capture worker** `nvda-worker/src/server.mjs`, `capture-results.mjs`, `worker-recovery.mjs`, `capture-faults.mjs` | `busy` (the slot), `inFlight`, the result store, `worked`, `consecutiveRecoveries`, `warm` | `POST /capture` (sync and async), `GET /capture/<id>`, `/progress`, `/health`, `/ready`, local recovery, warm-up, exit | client over HTTP; screen reader by calls |
| **Screen reader lifecycle** `capture-setup.mjs`, `capture-core.mjs`, `speech-channel.mjs` | the belief `screenReader {running, captures}`, the guidepup socket; in the guest: NVDA itself | `startScreenReader`, `stopScreenReader`, `forgetScreenReader`, `ensureSpeechChannel`, `captureWithNvda` | NVDA through guidepup; browser |
| **Worker pool** `lab/src/training/worker-pool.mjs`, `capture-decisions.mjs` | `queue`, `failures`, `evicted`, `retired`, per worker: streak and blame | `drainAcrossPool`, eviction, retirement, requeueing | callers through `prepare`, `handle`, `isDegraded`, `onItemFailed` |
| **Users of the pool** `capture-screenreader-dataset.mjs`, `capture-real-pages.mjs`, `gates/fleet.mjs`, `capture-progress.mjs` | progress file, real-page run's `failed` list, `unreachableStreaks`, attempt counter | corpus run, real-page run, gates; `captureVerified` | pool, client, files |
| **Capture client** `worker-fleet/src/capture-client.mjs`, `transient-fault.mjs` | the capture id, accepted or not, consecutive poll failures | dispatch, reconcile a lost acceptance, poll, re-issue | worker over HTTP |
| **Budget ladder** `worker-http.mjs`, `capture-pure.mjs`, `server.mjs`, `capture-client.mjs` | the deadlines that run: client's, preparation's, attempt's, capture's own | which timeout contains which, a slot held beyond its client | client, worker |
| **Desktop preparation** `desktop-prepare.mjs`, `desktop-dialogs.mjs` | `generation`, the two sampled caches, how each preparation stands | `prepareDesktop`, the boot sample, what `/health` answers from them | worker; PowerShell |
| **Capture cache, resume, atomic files** `capture-cache.mjs`, `capture-resume.mjs`, `write-atomic.mjs`, `capture-progress.mjs` | two capture files per case, the progress file | skip, reuse, capture a pair, begin and end a run | corpus run |
| **Page server lease** `lab/src/training/page-server.mjs` | holders file, port, the child each starter spawned | probe, start or adopt, join, leave, stop with the last holder, exit handlers | runs of several processes |
| **Local worker VM lease** `worker-fleet/src/local-vm.ts`, `local-worker/worker-ctl.sh` | the VM's power state, what each run found it in | find, bring up, wait until healthy, release: restore, stop, pause or leave | CLI and lab runs, worker's `/health` |
| **Page reading** `capture-probes.mjs`, `browser-session.mjs`, `pointer.mjs`, ... | the browser | probes | NVDA, browser |
| **Fleet health, doctor, deployment** `worker-health.mjs`, `doctor.mjs`, `deploy-worker.mjs` | none of their own | reads and scripts | workers, hosts |
| **Control plane** `control/src/fleet-wake.mjs`, `lab-job.mjs`, `lab-pipeline.mjs` | systemd units, lock files | wake, run a pipeline once | hosts |
| **Agent organisation: claims** `agent-org/src/row-claim.mjs` | a row's labels, its newest claim record, a worktree | `dispatch`, `claim`, `decline` | GitHub, git |
| **Agent organisation: holds** `pr-hold.mjs`, `pr-hold-state.mjs`, `auto-arm-sweep.mjs`, `arm-pr.mjs` | a PR's labels and its auto-merge | take, steal, release; the two armers | GitHub |
| **Agent organisation: reverts** `trunk-revert.mjs`, `trunk-revert-guard.mjs`, `.github/workflows/trunk.yml` | conclusions recorded per commit, revert branches and draft PRs | two jobs on every push, part of the suite tried at the parent, decide, push, open | GitHub, git |
| **Agent organisation: queue, wake-ups** `merge-queue.mjs`, `wake.mjs` | GitHub's | reports, messages | GitHub |
| **Judge, evidence, scorer; CLI; guards** | none | pure functions, a driver, static checks | - |

What is hard, and what makes each part correct:

* **Capture worker.** Requests race for the slot; a request may die before, during or
  after its body; the client of an asynchronous capture is gone while it runs; a warm-up
  runs beside; the process restarts and forgets. Correct: exactly one live request holds
  the slot, and it is always given back; stored answers are final and their
  number bounded; `running` means running; restarts of NVDA beyond the breaker's limit show as failures,
  on which the run retires the worker.
* **Screen reader lifecycle.** What the worker believes of NVDA and what is the case part
  company: NVDA dies, goes mute behind a half-open socket, comes up after a start that
  "failed", survives a stop; and a hung capture cannot be killed, so it goes on beside its
  successor. Correct: no capture reads from an NVDA another died on, none serves beyond its
  quota, and whatever happened the worker comes to read again.
* **Worker pool.** Workers share a queue and a failure list and change both at different
  awaits; a worker that leaves un-fails what it failed. Correct: each item is in exactly
  one place, nobody is blamed twice, a run ends, and every item is accounted for.
* **Capture client.** Either half of a POST may be lost, polls may fail, the worker may
  restart. Correct: one capture per attempt, an id is given up only when nothing will run
  under it, and the verdict is the answer.
* **Desktop preparation.** A preparation that outlives its bound is abandoned, not stopped: it
  resumes from a PowerShell call while the next capture runs, and writes what `/health`
  answers from; and a sample taken at boot does the same beside it. Correct: only the
  preparation somebody waits for writes, a prepared capture finds a clear desktop, and a
  blocked worker heals.
* **Cache and resume.** A run can die between any two files it writes, and the next one
  believes them. Correct: a run that calls itself complete has a current pair of captures of
  every case, and a pair that would be reused is of one reading.
* **Page server lease.** Processes share a server through a file they read and later replace.
  Correct: nobody's server is stopped under them, and the last one out leaves none.
* **Local VM.** Nobody counts who uses it: each run puts back what it found unless it hears of a
  capture, and a shutdown goes on after its run gave up waiting. Correct: a run alone with it
  keeps it and leaves it as found; no capture is cut off by a release that could have known.
* **Budgets.** Each timeout must contain those inside it, across processes. Correct: a slot is
  given back in time whatever hangs, a client does not leave behind a capture the worker would
  have finished, and no capture is abandoned that kept to its own deadline.
* **Reverts.** The verdict rests on what was recorded, and on what the world did meanwhile.
  Correct: no innocent merge is accused, none twice, and no half-made revert is left unsaid.
* **Claims and holds.** Labels on GitHub with no compare-and-swap, read and written by separate
  calls of separate processes. Correct: one holder, no row or worktree lost, no merge under
  a hold, nothing armed that nobody armed.

`PROJECT.json` lists the hazards at their lines, each with the properties about it.

## 2. Modules and the code they stand for

```
  ResultStore <-- CaptureWorker --implements--> CaptureService --instanced by--> CaptureClient
  ScreenReader       DesktopPrepare       (the guest)
  WorkerPool         CorpusResume         PageServerLease      (the lab's runs)
  VmLease            CaptureBudget                             (the guest's life, the clock)
  RowClaim --implements--> RowLock        PrHold  TrunkRevert  (the agents)
```

Each `X` has an `MCX` with the constants of TLC's instances and their symmetries. The theorems
are in modules of their own, some of which are about two and extend both: `CaptureWorkerProofs`,
`WorkerPoolProofs`, `CorpusResumeProofs`, `RowClaimProofs`, `LeaseProofs` (PageServerLease,
VmLease), `PullRequestProofs` (PrHold, TrunkRevert), `GuestProofs` (DesktopPrepare,
ScreenReader) and `ClientProofs` (CaptureBudget, CaptureClient). Two such specifications share no
name, which is why four of them say which they are: `VmSpec`, `TrunkSpec`, `NvdaSpec`,
`BudgetSpec`, and so for `Init`, `Next` and `TypeOK`.

Granularity is the same throughout: Node runs a callback to its next `await` without
interruption, so **an action is one stretch of code between two awaits**, with every
function it calls; where several processes share files or GitHub, an action is one call to
the file system, to git or to `gh`, and what was read before it may be stale. A timeout is a step
that may happen, but in `CaptureBudget`, which has a clock. A definition named `X_Slip` (or
`X_what_Slip`) is a fault seeded in `X`, kept beside it so that each property can be shown to
notice one; no specification uses it.

**ResultStore** (`capture-results.mjs`). The Map as a record: `entry` (id -> `absent`,
`running` or the answer) and `older`, the insertion order as a relation, for `Map` order is
eviction order. `Begin`, `Finish`, `EvictOldestDone` are the methods of the same names;
the `while` loop of the eviction is given in closed form (the oldest finished entries, as
many as the excess).

**CaptureWorker** (`server.mjs`). `busy`, `inFlight`, `store`, `worked`, `consecutiveRecoveries`
and `warm` are module variables of the file; `req` is each connection's request, and `streak` is
history: the restarts of NVDA and the failures told to callers since the last capture that needed
neither. `Claim`/`Refuse` are the synchronous check-and-claim; `Abandon`/`Reject`/`Accept` what
may become of a body; `Prepared`, `CaptureSucceeds`, `Recover`, `RetrySucceeds`, `CaptureFails`
the awaits of `runCapture` and `captureWithLocalRecovery`, with the `answer` closure and the
`finally` in `AnswerAndRelease`; `WarmUpOnceIfNeeded`/`WarmUpEnds` the warm-up; `Restart` any
death of the process. Answers keep of a response what the code tells apart: success, a fault that a
fresh screen reader may clear (`screen-reader-mute`, `screen-reader-start-failed`), or another.
A 400 and a 429 are one refusal: neither begins a capture.

**CaptureService** is the abstract specification: one slot, and for each id absent,
running or answered. An answer never changes; it may be forgotten only once `RESULT_HISTORY`
captures have begun after its own (`since` names them), or with all others in a restart; the
slot is always given back. `CaptureWorker` implements it under `slot <- Slot, result <-
store.entry`, with `since` read off the order of the store: `ServesAsPromised` is the safety of
it, `ImplementsService` the whole, fairness included. A capture may begin under an id that
already has one, as in the code (`server.mjs:1085`): nothing here says that a POST which is
repeated is not run again, and no client of the repository repeats one.

**CaptureClient** composes clients with `CaptureService` (instanced, not copied) and a
network: `posts` in transit, `replies` on their way back. `Dispatch`, `Accepted`,
`Refused`, `PostFails`, `PostThrows`, `Reissue`, `Collects`, `StillRunning`, `Lost`,
`PollFails`, `DeadlinePasses` are the branches of `pollForResult`, `dispatch` and
`reconcileLostAcceptance`; `Concludes` is `captureVerified`'s loop, which tries again for a
lost capture and for rejected evidence. `history` is a history variable: who used an id, in
which attempt, in which life of the worker its capture began, which captures began after it
(`after`), and the answer. `PushedOut` says that so many of other clients did that the worker
may have forgotten the answer.

**ScreenReader** (`capture-setup.mjs`, `capture-core.mjs`, and the recovery, warm-up and signal
paths of `server.mjs`). `screenReader` is the belief, `nvda` the fact, `served` and `tainted` what
has really happened to this NVDA. Each flow (a call of `captureWithNvda`, or the warm-up) has a
`pc` naming the await it is at, so the model shows what was read before an await and is written
after it. `Probe`, `Stop`, `StartFreshScreenReader`, `ClearLeftover`, `WaitForScreenReaderGone`,
`StartAgain`, `AttemptFails` are `startScreenReader` with its retry;
`EnsureSpeechChannel`/`ResetSpeechSocket`/`FreshChannel` the speech channel;
`Read`/`StopAndCleanup`/`Stopped` the read-through and the `finally`; `HardTimeout`,
`ChannelLost`, `Terminate` are `server.mjs`'s. NVDA and guidepup are outside `src/`:
`NvdaComesUp`, `NvdaFailsToStart`, `NvdaStops`, `Dies` are modelled from how the code uses them
and marked external in the map. What may go wrong is the constant `Worlds`: each world has a set
of named misbehaviours, how often they may occur and how often the worker is told to exit, and
`trouble` is the world a behaviour is in. `"warm-up overlaps"` is not a misbehaviour of NVDA but a
permission: it lets `/health` be asked while a capture runs, and is not counted.

**WorkerPool** (`worker-pool.mjs`, `capture-decisions.mjs`). `queue`, `failures`,
`evicted`, `retired`, `failedHere`, `consecutiveFailures` and `unreachable` are the
code's. `counted` is the evicted-plus-retired number a probe's decision was handed, which
the code reads before the await. `status` is the progress file's entry of each case
(`capture-progress.mjs`), `reported` the list `capture-real-pages.mjs` keeps through
`onItemFailed`. `MayBeUnusable` and `MayDegrade` are what a caller plugs in: the corpus run
has both, a gate's pool (`gates/fleet.mjs`) has no degradation check.

**DesktopPrepare** (`desktop-prepare.mjs`, `desktop-dialogs.mjs`, and of `server.mjs` the bound
on a preparation and what `/health` makes of the caches). `desktop` and `held` are the
facts, the two caches what the code last sampled. A sampler (a preparation, or the boot
sample) has a call it is in; each PowerShell call is two steps, the look at the desktop
(`ListDialogs`, `CloseDialogs`, `ProbeWindowOwner`, `DismissForeground`) and the return to the code
(`DialogsDismissed`, `WindowOwnerProbed`, `ForegroundDismissed`), and dialogs open and close in
between. `aborted` are the preparations whose signal has fired: the fence. A call that hangs
or fails counts against `MaxMisfortunes`. `CaptureWhenReady` is a caller that asks `/health`
first, `PrepareDesktop` one that does not.

**CorpusResume** (`capture-screenreader-dataset.mjs`, `capture-resume.mjs`, `capture-cache.mjs`,
`capture-progress.mjs`). `files` has two captures a case, each with the page, the rest of
the cache key and the reading it is of; `progress` the status of a case. `Start` reads what
`--resume`, the cache and `--only` say. `WorkerEnvironment` is a worker's `prepare`: what it
says of its screen reader, browser and settings, or `{}` (`Unknown`) if `/health` does not
answer, is what its captures are keyed by for the whole run, and workers differ. `Skip` and
`CaptureCase` are the two ways a worker handles a case, `GoodCaptured`/`BadCaptured` the two
writes, `Fails` any failure, `Finish` the verdict, `Killed` and `KilledWriting` a kill, the second
of which leaves a torn file. Pages change between runs, and back again. `begun` and `forced` are
history: the keys a case was begun to be read by since it was last read to the end, and whether
a run without the cache did.

**PageServerLease** (`page-server.mjs`). Runs are processes; `file` is the holders file, `snap`
what a run read of it, `servers` the children alive, `bound` the one that has the port.
`Probe`, `Spawn`, `JoinHolders`/`WriteJoined`, `Serving`/`NotServing` are the acquisition,
`Release`, `Leave`, `Stop` the orderly end, `Throws`, `Exit`, `LeaveAtExit`, `StopNow` an
exception and the exit handler, `Dies` a kill. `torn` and `cutShort` are history: whether
the bookkeeping of two runs overlapped, or was interrupted.

**RowClaim** (`row-claim.mjs`) is one row and the sessions that want it; the labels are `row` and
`names`, the comments `record`, the worktree at its conventional path `tree`. `pc` is the call a
session's command makes next: create, decide, add, drop `ready`, verify, back off, undo, record
for a claim; read the record, clear the worktree, edit, post for a decline. `Throws` is a death
between two calls. **RowLock** is what sessions may rely on: each step is one session's and takes
down no name but its own; a session comes to own the row only while its name is the only one up,
and keeps both until it declines, or until it asks again and meets another's name. `RowClaim`
implements it under `owners <- holds` (the sessions whose claim was verified and not given back),
`named <- names` and `asking <- Asking` (`ImplementsLock`). The last of the ways to lose a row is
one the header of `row-claim.mjs` says there is not (`BegunWithoutRace`, section 5). A label that
was added is read by the next call that lists them; the propagation lag of which
`row-claim.mjs:487-502` speaks is not modelled.

**PrHold** (`pr-hold.mjs`, `pr-hold-state.mjs`, `auto-arm-sweep.mjs`, `arm-pr.mjs`) is one pull
request, the sessions that hold it and the two armers. `TakeHold` to `NowHeld` and
`ReleaseHold` to `UnmarkRearm` are the calls in the order of the code, each of which may be
the last (`Ends`). `--auto` and `--disable-auto` may change nothing, and neither touches a PR
that is queued or merged. `blind` is history: who may arm without having seen the label.

**VmLease** (`local-vm.ts`, `worker-ctl.sh`) is one VM and the runs that lease it. `FindLocalVm`,
`BringUp`, `WaitHealthy`, `Leased`/`NotHealthy` acquire it; `ReleaseVm` resolves what is to be
done (`RestoreAction` of the state found, or as told), `LookBusy` asks whether somebody
captures, `Pause`, `StopVm`, `Stopped` act; `ReleaseFails` is any of these throwing. Each call of
`worker-ctl.sh` is a process, so what was looked at may have changed. A guest that is
booting or going down is `started` to utmctl, and one going down may still answer. The guest,
its captures and the hands on its switch (the idle watcher is one) are external. `VmRunKilled` is a
kill between the lease and its release: the VM stays as it is, with the capture that is on. `home`,
`mixed`, `leftToIt`, `raced` are history.

**CaptureBudget** (`capture-pure.mjs`, `capture-core.mjs`, `server.mjs`, `capture-client.mjs`,
`worker-http.mjs`) is one client, one worker and a clock. `Tick` lets time pass and waits for a
timer that is due: `PrepareExpires`, `HardTimeout`, `GiveUp`. The capture in the slot prepares
the desktop (`Prepared`), starts NVDA (`Up`, from which its own budget counts), reads
(`CaptureEnds`, `CaptureFails`), and may be tried again (`Recover`). `left`, `age`,
`attemptAge`, `readAge` are how long each timer has run.

**TrunkRevert** (`trunk.yml`, `reusable-build-test.yml`, `trunk-revert.mjs`,
`trunk-revert-guard.mjs`). A run of the workflow is at a `step`; `TrunkGate`, `TrunkBuildTest`,
`Recheck` are its jobs, `LookAtBefore`, `LookAtTip`, `Search`, `Push`, `Create` the calls of the
decision, each of which may fail; `Dies` is a push whose answer is lost, or the end of the runner
before the PR. `defects` and `deletes` are what a merge really did, `world` and `recovered` the
tests that fail for a while whatever the tree, `record` what GitHub has as each commit's
conclusions. What is tried differs: `Tests` is all that `trunkBuildTest` runs, `Suite` what `npm
run test:all` runs of it (the rest being lint, types and Python), `Rechecked` what `npm test` runs
at the parent: the product's packages, with the Python tests skipped for want of a `.venv`
(`package.json:35-38`). The job stops at the first of its steps that fails, and only the suite
names what failed. Whether the names can be read is left open in `Recheck`: it may find them, or
end without (`CANNOT_ASK`). `parent-recheck-summary.mjs:31-46` reads TAP, and
`scripts/rstest/rstest.config.mjs` asks for no TAP reporter, so today a parent that fails ends
there; the model has the branch the code was written for as well. Merges, re-runs and humans are
external; `cut`, `opened`, `reported` and `untold` are history.

## 3. Runs

| Run | Instance | Shows |
|---|---|---|
| `CaptureWorker` (464,845 states) | 2 connections, 3 ids, history 2, breaker 2, 1 warm-up retry, 3 runs a process | `SlotHeldByOne`, `RunningIsInFlight`, `StoreBounded`, `RestartsAreSeen`, `ServesAsPromised`; under fairness `ImplementsService` |
| `ScreenReader` (341,383) | 2 drives and the warm-up, quota 2, 2 start attempts, 2 warm-up retries, three worlds | where one flow at a time drives NVDA and stops work: `RecycledInTime`, `FreshAfterFailure`; in each world, under fairness: `Heals` |
| `WorkerPool` (554,068) | 3 workers, 3 items, thresholds 2 | `OnePlace`, `BlameIsTheStreak`, `ProgressAgrees`; under fairness `RunEnds` |
| `CaptureClientSafety` (319,469) | 2 clients, 4 ids, 2 attempts, 2 poll failures, history 2, 1 restart | `ReplacedIdsAreDead`, `OneCapturePerAttempt`, `VerdictIsTheAnswer`, `RedoneForCause` |
| `DesktopPrepare` (about 85 s) | 2 preparations and the boot sample, 2 dialogs, 3 misfortunes | `OnlyTheAwaitedWrites`, `PreparedMeansClear`; under fairness `HealsIfUsed` |
| `CorpusResume` (2,076,426) | 2 cases, 2 workers, 2 pages, 2 environments, 3 readings in all | `PairIsOneCapture`, `CompleteMeansCurrent` |
| `PageServerLease` (5.6 million) | 3 runs | `NobodyIsPulled`, `LeftClean` |
| `RowClaim` (3,036,981) | 3 sessions, 5 commands, 1 death | `OneHolder`, `StrandedTakesTwo`, `DirtyWorkStaysClaimed`, and `ImplementsLock` |
| `PrHold` (1,791,066) | 2 sessions, both armers | `OneHolder`, `HoldStopsMerge`, `OnlyArmedIsRearmed` |
| `VmLease` (4,169,744) | 3 runs, told anything, any hand, 2 misfortunes | `NoVmIsPulled`, `LeftAsFound`, `CutTakesARace` |
| `CaptureBudget` (7,343,398) | ticks of 10 s, the durations of the code | `SlotIsBounded`, `OrphansAreRetries`, `AbandonedForCause` |
| `TrunkRevert` (2,775,991) | 2 runs, 2 merges, 3 tests of three kinds, 2 of them flaky once | `OnlyTheGuilty`, `OneRevertPerBranch`, `StrandedIsTold` |

Eight more configurations end with a counterexample, to something the code says of itself
(section 5). They are not listed in `PROJECT.json` and are run by hand; where two properties are
named, the second is a comment in the file, to be put in the place of the first:

| Configuration | Refutes |
|---|---|
| `DesktopPrepareClaims.cfg` | `SelfHeals` |
| `CaptureWorkerClaims.cfg` | `RestartsAreBounded` |
| `CaptureClientClaims.cfg` | `LostMeansRestart` |
| `CorpusResumeClaims.cfg` | `ReusedIsOneReading`, `UnansweredReusesNothing` |
| `RowClaimClaims.cfg` | `BegunWithoutRace`, `HeldIsInProgress` |
| `VmLeaseClaims.cfg` | `StandsDown`, `StoppedAgain` |
| `CaptureBudgetClaims.cfg` | `TrueWorstCase` |
| `TrunkRevertClaims.cfg` | `StillPassesBefore`, `GateFailureIsOwn` |

Types are not among the properties: each module's type invariant is proved (section 4). Every
property of the twelve runs has a mutant in `PROJECT.json`: a slip in the code under
which TLC finds it violated on the same instance.

### Bounds, and why they are enough

* *Connections 2.* One slot: a third connection can only be refused as the second is. *Ids 3,
  `RESULT_HISTORY` 2:* one id more than the store holds, so eviction chooses between two finished
  entries, and an id comes back after its eviction or while held. The code keeps 8; nothing
  depends on the number beyond "full".
* *`MaxRuns` 3* (captures ended in one process): two recoveries in a row and a failure the open
  breaker refuses, or a success that resets it half way. `MAX_CONSECUTIVE_RECOVERIES` (3 in the
  code) at 2 reaches limit, limit minus one and reset; `MAX_WARM_ATTEMPTS` (3) at 1 leaves the
  boot one retry. A `Restart` sets the counters back, so the number of restarts is not bounded.
* *ScreenReader.* Two drives: one in the slot, one abandoned (or the previous one). The three
  worlds: an orderly one with four misfortunes and a restart, which make a start fail on all its
  attempts, the retry meet a leftover and the channel go mute afterwards, in any order; one
  with any single misfortune and a warm-up that may overlap a capture; one in which, twice,
  a capture hangs or a stop does not take. `MAX_CAPTURES_PER_NVDA` (25 in the code) at 2
  gives fresh, reused and recycled; `NVDA_START_ATTEMPTS` is 2 as in the code. The number of
  captures is not bounded.
* *WorkerPool.* Three workers: one evicted, one retired at the same time and one left, with
  the eviction guard deciding. With threshold 2 and three items a streak, a reset by a
  success, and a handback of a blamed item to another that fails it again all happen. The
  threshold is 3 in the code; two is the least with a streak that is not yet an eviction.
  `UNREACHABLE_PROBES_BEFORE_RETIRE` is 2 in the code as well.
* *CaptureClient.* Four ids are what two clients with two attempts use up, or one with two
  attempts and two lost acceptances. `MAX_POLL_FAILURES` (5 in the code)
  at 2: below and at the limit; `CAPTURE_ATTEMPTS` (3) at 2: a first and a last.
  `RESULT_HISTORY` (8) at 2: the other client's two captures push an answer out, one does not.
  `MaxRestarts` 1: every step of a client may be on either side of it.
* *DesktopPrepare.* Two preparations are one awaited and one abandoned, which is what the fence
  is for; a third would be another abandoned one. Two dialogs: one closed, one that opens
  meanwhile or comes again. Three misfortunes let a call hang, a close fail and a dialog
  open in one behaviour.
* *CorpusResume.* Two cases and two workers interleave readings and keep a run unfinished when
  one case is done. Three readings over all runs: a whole pair and two broken off, or two broken
  off of one case and one of the other. Two pages, between which a case's may go back and forth
  at will, and two environments, of which one is that of a worker that did not answer.
* *PageServerLease.* Three runs: one that starts a server, one that adopts it, one that comes
  while they leave. Each runs once; a run that comes back is another run.
* *RowClaim.* Three sessions are needed for a claim lost to a claim that is itself lost. Five
  commands are two claims, a decline between them and two more.
* *PrHold.* No bound: its state is finite. Two sessions steal from one another.
* *VmLease.* Three runs: one that found it stopped, one that found it started by the first, one
  after both. A run leases once; one that comes back is another. Two misfortunes: of a call that
  fails, a look without an answer and a run that is killed, any two. `VmLeaseClaims.cfg` has two
  runs, both told the default, and no hand on the switch, which suffice for what it refutes.
* *CaptureBudget.* Every duration of the code is a multiple of 10 s, so none is scaled. Nothing
  bounds how many captures follow one another.
* *TrunkRevert.* Two merges: a guilty one and one that inherits from it, or the newer that makes
  the older no longer the tip. Whether a failure is a push's own is a matter of one run, what
  earlier ones recorded and what is tried, hence two runs and three tests, one of each kind:
  tried at the parent too, of the suite but not tried there, outside the suite. `MaxFlakes` 2: two
  kinds may fail for a while at once. Who opens, dies and is told is a matter of several runs of
  one commit, whatever they failed: two suffice for each of the races. With three runs and one
  test (679,135 states) the two properties about that were found to hold as well.
* *Symmetry* (clients and their ids, corpus workers, cases and pages, runs, sessions) is used in
  safety runs only, never where a liveness property is checked, and only of what nothing in the
  run tells apart: the environments of CorpusResume are symmetric but where a property names
  `Unknown` (`CorpusResumeClaims.cfg`), the tests of TrunkRevert never are. Items of the pool are
  not either: the queue is ordered.
* `CHECK_DEADLOCK FALSE` only where the system stops: the pool's run and those of the page server,
  of the VM and of trunk.yml end, a client that has its verdict stops, a merged PR and a closed
  row are left alone. The worker, the screen reader and the desktop never stop and are checked for
  deadlock.

### Fairness

Weak fairness, and only where the code bounds the wait: a body ends or Node's own request
timeout breaks it; the desktop preparation has its 60 s bound; each attempt at a capture the
hard timeout; each call of a warm-up its own limit (`CaptureWorker`). In the pool `prepare`
gives up after its deadline, a capture at the client's, a probe after 15 s. In
`ScreenReader` each await of the slot's holder and of the warm-up is bounded by a timeout of
the call or by the wait's deadline; an **abandoned** drive gets no fairness, since nothing
bounds it any more. In `DesktopPrepare` each PowerShell call is
killed after `PS_TIMEOUT_MS`, a preparation has its bound, a capture its hard timeout, and
somebody has work for a worker that says it is ready; that somebody sends work to a worker
that says it is not is the hypothesis of `HealsIfUsed`, stated there. No fairness is assumed
of arrivals, quirks, restarts or health polls,
and no strong fairness anywhere. `Heals` supposes that misbehaviour has stopped
(`trouble.left = 0`) and that no abandoned drive is still about; with one there, nothing
keeps it from stopping the NVDA of the next capture.

### What the scoped properties leave open

`FreshAfterFailure` and `RecycledInTime` speak of `Orderly` worlds, whose quirks are `OneAtATime`.
They are not true of every world the code can meet: if a stop does not take,
`capture-setup.mjs:1003` adopts the running NVDA as fresh, with a new quota; and an abandoned
capture reads beside its successor. They say what the code achieves when stops work and one flow
drives NVDA.

`ReplacedIdsAreDead` and `OneCapturePerAttempt` hold of a network in which a POST whose client
hung up is not read by the worker afterwards (the code's own premise, at
`capture-client.mjs:216`). `RedoneForCause` names the causes a 404 may have: a restart, an answer
pushed out by others' captures, or a capture that never began. It says nothing about how rare the
second is; that takes `RESULT_HISTORY` captures of others between two polls.

`RestartsAreSeen` is what is left of a bound on restarts: those beyond the limit go with as many
failures, which the run counts (`WorkerPool`). There is no bound on the restarts themselves.

`PairIsOneCapture` is about readings that were all begun by one key, and with the cache, since the
case was last read to the end. With two keys it is false (`ReusedIsOneReading`, section 5).

`OnlyTheGuilty` excepts, of a push that did nothing, a failure of which all that is tried at the
parent has passed again: that includes what is not tried there at all, and may still fail.
`StrandedIsTold` excepts a branch whose run died before the PR (`untold`): nobody is told of it,
and it blocks every later push of that branch.

`OrphansAreRetries` is about a client that waits for its answer until its own deadline.
One that gives up earlier, after `MAX_POLL_FAILURES` (`capture-client.mjs:288`), leaves its capture
behind sooner; `CaptureClient` has that step, without a clock.

## 4. Proofs

TLAPS proves every safety property that a run checks, invariants and action properties alike,
for every value of the constants that the modules' assumptions allow (any number of connections,
ids, workers, items, sessions, runs, dialogs, any limits), and nothing is taken on trust. The
invariants were found with TLC first: each strengthening was checked on a run's instance before
it was proved.

A module of proofs extends the one or two specifications it is about, so a theorem is about
`Spec` as the runs check it, and the named assumptions of the specification are facts in its
proofs; TLC evaluates them in the specification's runs.

**CaptureWorkerProofs**: `TypeCorrect`, `SlotIsExclusive` (`SlotHeldByOne`), `NoForgottenRun`
(`RunningIsInFlight`), `ProgressIsTruthful` (`ProgressIsLive`: `/progress` describes a capture
exactly while one runs). None is inductive alone: that the store says `running` of exactly the
live capture needs that there is at most one, or `Begin` for one would have to be told from the
other; that `Accept` may set `inFlight` needs that no run is under way. The inductive invariant
is

    WorkerInv == TypeOK /\ SlotHeldByOne /\ RunningIsInFlight /\ ProgressIsLive /\ BreakerClosedInRetry

where `BreakerClosedInRetry` (a retry is under way only below the breaker's limit) keeps
`consecutiveRecoveries` within its type when `RetrySucceeds` counts. `AnswerAndRelease` is
shared by three actions and has a lemma of its own, as have the store operations: eviction never
touches a running entry, `Begin` leaves one run more, `Finish` one fewer. Three more rest on it:

* `StoreStaysBounded` (`StoreBounded`). Eviction ranks what is done by its elders and drops the
  first; that makes room only if some finished entry has no elder. `OldestExists` gets one from
  the well-foundedness of strict inclusion on finite sets: the sets of elders shrink along the
  order of insertion, which `StoreInv` keeps an order. That something finished is there at all
  is `WorkerInv`: at most one entry runs.
* `RestartsSurface` (`RestartsAreSeen`). While a retry is under way its restart is not accounted
  for yet; the invariant says that the breaker then left room for it: `restarts` is at most
  `consecutiveRecoveries` and the failures, and one more during a retry.
* `WorkerServes` (`ServesAsPromised`): initial states map to initial states of `CaptureService` and
  every step to a step or a stutter, by `Slot`, which the invariant makes a function of the one
  live run, and by the order of the store, whose later entries are `since`. That a stored answer
  never changes, that only what runs can be answered and that nothing is evicted before
  `RESULT_HISTORY` captures have begun after it are conjuncts of it.

**WorkerPoolProofs**: `PoolTypeCorrect`, `NothingLostOrDoubled` (`OnePlace`),
`BlameMatchesStreak` (`BlameIsTheStreak`). The invariant is

    PoolInv == TypeOK /\ OnePlace /\ BlameIsTheStreak /\ HandsAreFull

`OnePlace` alone is not inductive: a handback appends `failedHere` to the queue and drops those
records, so it has to be known that the blamed items are recorded, by this worker, and once each
(`BlameIsTheStreak`); and that a worker in the middle of an item has one in its hands, and one
between items has none (`HandsAreFull`). In return `BlameIsTheStreak` survives another worker's
handback only because no item has two records (`OnePlace`). The lemmas are about sequences:
range and injectivity of `Tail`, `Append` and of a concatenation with disjoint ranges.
`ProgressIsHonest` (`ProgressAgrees`) keeps three of its four conjuncts (`ProgressKept`); the
fourth, that a case reads "capturing" only while somebody has yet to finish it, then follows
from `OnePlace`.

**GuestProofs**: `DesktopTypeCorrect`, `PreparedFindsItClear` (`PreparedMeansClear`),
`TheFenceHolds` (`OnlyTheAwaitedWrites`). `DesktopInv == TypeOK /\ UnfencedIsAwaited /\
ClearedSoFar`. The first part says that a preparation in a call whose signal has not fired is
the one the slot waits for, which is the fence's whole argument; the second what
`PreparedMeansClear` says at each call of the preparation before the last: what it has
enumerated covers every dialog that is up and did not open since.

Of ScreenReader, `NvdaIsRecycled` (`RecycledInTime`) and `FreshNvdaAfterFailure`
(`FreshAfterFailure`), for any number of drives, limits and worlds. `NvdaInv` says that in an
orderly world no drive is abandoned and all flows but one are at rest, and of the place that one
is at (`Along`) how belief and fact relate: what is believed to run is credited with at least
what NVDA has served, one more where a read-through is about to begin (`Counted`); an NVDA that
a capture died on is not believed in, or about to be stopped (`Untainted`). A belief that is
forgotten loses nothing of this, because whoever starts without one stops what it finds.
`NvdaTypeCorrect` is of every world, flows overlapping as they may: an abandoned drive is one
still under way, and the belief credits at most the quota and one capture for each flow. That
type is not inductive: a flow at its probe has compared the count with the quota and is yet to
add to it. `CreditIsBounded` counts those flows in (`Probing`), and holds because a flow comes to
a probe within the quota only and leaves the set as it credits.

**CorpusResumeProofs**: `ResumeTypeCorrect`, `CompleteRunsAreCurrent` (`CompleteMeansCurrent`),
`ReusedPairsAreOfOneReading` (`PairIsOneCapture`). `ResumeInv` adds to the types that a run's
cases are queued, in a hand, failed or current (`Accounted`); that nothing that is resumed over
is touched (`DoneStands`); that a worker at the bad half has written the good one of this
reading (`GoodFirst`); that the key it reads by is among those the case was begun by (`KeyBegun`);
and what readings by one key, none of them ended, leave of a case: a bad half of another key, and
a good one of theirs or as it was, torn files aside (`Paired`).

**LeaseProofs**: `LeaseTypeCorrect`, `NoRunIsPulled` (`NobodyIsPulled`), `LeavesNoServer`
(`LeftClean`). The first invariant is `LeaseInv == TypeOK /\ Spawned /\ (~torn => Quiet)`: as
long as no two bookkeepings overlapped, at most one run keeps books, and for each place it can
be at `Quiet` says what the file, the port and its snapshot have to do with each other.
`CleanInv` adds, as long as no exit was cut short either, that there is one server, its
starter's (`OneServer`), which the file names unless its starter has yet to join or the last one
out to stop it (`Recorded`); that a server without the port has its starter wait for it
(`Unbound`); that a snapshot is not behind the file (`ReadIsNew`); and that a server has a
holder alive or somebody about to join or stop it (`Answered`).

Of VmLease, `VmTypeCorrect`, `VmIsNotPulled` (`NoVmIsPulled`), `VmIsLeftAsFound`
(`LeftAsFound`) and `VmCutTakesARace` (`CutTakesARace`). `VmInv` says of runs that did not mix
that at most one is at the VM (`OneLease`), that a guest going down has the run that stopped it
wait for it, so that what answered stays up for its run (`UpForItsRun`), and how what a run
remembers relates to what it found (`AsFound`), which without misfortune rests on the capture in
the VM being its run's (`Owned`). The action property needs that a release about
to act looked before the capture that is on began (`LookedBefore`).

**RowClaimProofs**: `RowTypeCorrect`, `NeverPulledTwice` (`OneHolder`), `ClaimsAreALock`
(`ImplementsLock`), `NoWorkIsOrphaned` (`DirtyWorkStaysClaimed`), `StrandingTakesTwo`
(`StrandedTakesTwo`). `ClaimInv` says that a claim's name is on the row from its label to its
record, and a holder's for as long as it holds; a label is added before it is verified, so a
verification that finds no other name finds no other holder. `WorkInv` says of whom a back-off
has been told, and that a decline which reached its edit has removed its session's tree or found
that another's claim is recorded. The refinement is proved whole: initial states, and every step
a `PutUp`, `Take`, `Yield`, `TakeDown`, `Decline` or a stutter, none of which touches another's
name, hold or claim (`OthersAsk`). `StrandInv` counts by induction: a decline takes
`in-progress` with the last name and a back-off leaves it, so when the last name comes off by a
back-off, the one before it went that way too (`LastNameFollowsALoser`).

**PullRequestProofs**: `HoldTypeCorrect`, `OneHolderTold` (`OneHolder`), `HeldIsUnmerged`
(`HoldStopsMerge`), `NothingIsArmedUnasked` (`OnlyArmedIsRearmed`). A new take first forgets
what its session was told (`FreshTake`), so two claims with their labels up cannot meet
(`OneClaim`); whatever may lead to an armed PR, the marker and what a take has read, follows
from an armer's arming (`OnlyWanted`); and once a disarm is read back and nobody is blind to the
label, nobody is at an arming call or gets there (`Guarded`).

Of TrunkRevert, `RevertsAreDeserved` (`OnlyTheGuilty`), `BranchIsTheLock` (`OneRevertPerBranch`)
and `StrandedBranchIsTold` (`StrandedIsTold`). `TrunkInv` says for each commit whose branch nobody
deleted that whoever is about to open its revert holds the branch, alone and for the first time
(`LockHeld`); and for each run, that what it saw fail is of its tree or of the world, now or
recovered (`Accounted`): so what its parent did not fail, of what is tried there, is its own
doing, or passed. Everything that may happen around a run takes none of that evidence away
(`WorldAges`). `TrunkTypeCorrect` states its types.

**ClientProofs**: `BudgetTypeCorrect`, `SlotIsGivenBack` (`SlotIsBounded`), `ClientOutwaits`
(`OrphansAreRetries`), `NoneIsCutShort` (`AbandonedForCause`), for any durations that form a
sound ladder: the code's own `budgetLadderIsSound` and, of the outer rungs, what its test
asserts, that the client's deadline contains a preparation, an attempt and a handshake
(`LadderAssumption`, which TLC evaluates on the code's numbers). The invariant adds how the ages
relate (`Ages`: a capture is as old as its preparation and attempts together), how much of the
client's deadline a capture accepted in time has used (`ClientsClock`), and that a capture in
the slot has not been answered (`Unanswered`).

Of CaptureClient, `ClientTypeCorrect`, `NothingIsLeftBehind` (`ReplacedIdsAreDead`),
`AttemptsAreBoughtOnce` (`OneCapturePerAttempt`), `VerdictsAreAnswers` (`VerdictIsTheAnswer`)
and `WorkIsRedoneForCause` (`RedoneForCause`). `ClientInv` says that the worker's answers are of the
captures it began in its present life (`ServiceAgrees`), that nothing is on the wire or was
answered but of an id that somebody minted (`Known`), that an id its client gave up is dead
(`ReplacedDead`), for each client what it may conclude from where it is: one that polls has
nothing of its id left on the wire, one that may try again has a dead id (`Follows`), that what
the worker has forgotten in its present life was pushed out (`Remembered`), and that of an
attempt's ids all but the one its client holds are of another life or pushed out (`Spent`,
`Attempts`). Most
actions leave all of that as it is, or only lose something, which is one lemma (`Quiet`); the
dispatch, the worker's reading of a body, its answer and its restart have one each.

Assumptions used are the named ones of the modules: `None` is no item, connection or id; the
limits are naturals; the workers and the drives are finitely many (their cardinality is
compared); the items are queued once each; the boot sample is no preparation and the warm-up no
drive, an armer no session; a free slot is not an occupied one, neither is an id, and what the
worker answers is none of the states it answers from.

Only model-checked: liveness (`Heals`, `RunEnds`, `HealsIfUsed`), the fairness part of
`ImplementsService` (that the slot is given back) and the absence of deadlock, which are out of
the prover's reach.

## 5. Where the code and its own words part

What modelling turned up: places where the code does otherwise than its comments, docs or tests
say, and outcomes that no comment mentions. Those that begin with the name of a property are
counterexamples to it, with which the module's `Claims.cfg` ends (section 3); the others were met
while the modules were written, and the modules behave as the code does. Where a property holds
only outside such a case, it says so.

**Desktop.** `SelfHeals`: `desktop-prepare.test.ts:5-9` and `docs/operational-lessons.md:1218`
say a blocked check heals itself at the start of the next capture. `server.mjs:845`
makes `/ready` false while a cache says blocked, whoever asks first sends no capture, and
nothing else refreshes the cache: the worker stays out of service on a clear desktop.
(`HealsIfUsed` is what does hold.) Further: the boot sample can write over what a preparation has
sampled since; an enumeration that failed, or a dialog that did not close, may still be recorded
as clear, though `desktop-dialogs.mjs` says the path avoids that by enumerating after dismissing;
an abandoned preparation writes no cache but may still close windows during the next capture;
a foreground holder that has gone leaves the cache at `held` until the next preparation.

**Worker.** `RestartsAreBounded`: the comment at `server.mjs:660-674` has the breaker keep a guest
from restarting NVDA in a loop. `consecutiveRecoveries` counts a restart only when its retry
succeeded (`:679-681`), so a guest whose retries fail restarts NVDA for every capture, with the
count at 0; a clean capture need not come between. What stops it is the run, which retires a
worker for its failures (`RestartsAreSeen` is what does hold).

**Worker pool.** The guard of `worker-pool.mjs:92` ("never the last worker standing", on which
`gates/fleet.mjs:133` counts) counts the evicted and retired, not the workers that found the queue
empty and returned: the last one running can be evicted, and its items are then neither
outcomes nor failures. `capture-screenreader-dataset.mjs:400-403` says the counts are read after
the await; `worker-pool.mjs:135` evaluates them before it, and two workers whose probes
overlap both retire. `capture-real-pages.mjs:371` says a page requeued and then captured is no
failure, but its list (`:364`) is never taken back. And if every worker is unusable, or a late
eviction leaves cases queued, a corpus run has no failures and `runOutcome`
(`capture-decisions.mjs:125`) reports the cases nobody took as captured.

**Screen reader.** The recovery forgets NVDA and then asks for it to be stopped (`server.mjs:614`
against `:608-609`); the stop tests the belief just cleared, so the abandoned capture's NVDA keeps
running until the next start clears it as a leftover. The guard of the warm-up
(`server.mjs:751`) does not look at the slot, though idle workers "must not touch the screen
reader" (`:707-708`): a readiness poll during a capture clears its NVDA as a leftover. When a
stop does not take, `capture-setup.mjs:1003` adopts the NVDA the failure happened on, while
`server.mjs:648-649` says the second attempt necessarily cold-starts. The signal handler stops
the NVDA the worker believes in (`server.mjs:1376`), and one it has forgotten outlives the
process, against `server.mjs:1368`. `Heals` holds of all of these.

**Client.** `LostMeansRestart`: `capture-client.mjs:278-279` and `:298` say of a 404 after a
202 that the worker restarted in the middle of the capture. It may have finished it, and forgotten
the answer because others' captures came after it, as `capture-results.mjs:76-82` says; the case
is then captured twice. A POST whose client gave up may still be accepted if its bytes are read
later, the id having been replaced; `capture-client.mjs:216-219` argues that a 404 means it never
arrived. `HangsUp` excludes it.

**Resume and cache.** `capture-cache.mjs:4-9` says a resume does not reuse captures after options
or NVDA changed; `capture-resume.mjs:66` compares the page's hash only. `ReusedIsOneReading`:
`capture-cache.mjs:219-222` says a good half is never reused beside another reading's bad one. The
decision (`:237`) compares the key of each half and nothing that tells readings apart. A worker of
another environment writes its good half over a pair's and fails at the bad one; one of the first
environment does the same; now both halves have the first's key, and are of two readings. The same
with a page that changes and is changed back, and, whatever the keys, with a `--no-cache` run cut
off between the halves (`forced`). `UnansweredReusesNothing`:
`capture-screenreader-dataset.mjs:535-536` says that captures keyed on `{}` match no cached ones,
"which is the safe direction". Those of two workers, or of two runs, that did not answer `/health`
match each other. `beginRun` replaces the progress file by one with every case pending, so a
resume killed before it has walked past the captured ones has forgotten them, against
`capture-screenreader-dataset.mjs:605`; `--only` forgets the others. A capture is a plain
`writeFileSync`, so a kill may tear it.

**Page server.** The header (`page-server.mjs:14-16`) says a run cannot take the server from under
another. It can when bookkeeping overlaps: a probe answered by a server about to be stopped,
or two renames of which one is lost (`torn`). Two starters overwrite each other's `serverPid`
and one server is left over. An adopter that throws, or gets SIGINT, and any exit that finds
itself last with another's server recorded, removes the record and leaves the server
(`cutShort`); `evidence-check.mjs:410-422` has no `finally`, so it is such an adopter.

**Claims.** `BegunWithoutRace`: `row-claim.mjs:29-31` says a worker goes from dispatched to
started without a second race window. A session that begins a row it holds verifies once more, and
if it meets the name of a claim that is itself about to fail it backs off (`:809-820`): the row it
held is given up to nobody. `HeldIsInProgress`: a decline gives back one's own claim and never
clears someone else's, but takes off `in-progress` (`:1261`) by what it read of the row before; a
claim that landed since is then held on a row that reads unclaimed. Further, two sessions that
both back off leave a row `in-progress` with nobody's name (`:811-817`), which `decideClaim` and
`declineOwnershipReason` then refuse to everyone: `Stranded`. A back-off removes the `started` its
winner needs; a claim that overlaps a decline can leave a held row `ready`; a late release record
hides the next holder's worktree from its decline; and with three sessions an undo or a bare
decline by path can remove another's tree, against "by construction" (`:1196-1198`).

**Holds.** A sweep or arm job that read the labels before a hold arms after it, and the PR merges
while held (`blind`). A merge between disarm and read-back, and a PR in the queue, read as
disarmed (`pr-hold.mjs:420` against `:139` and `pr-hold-state.mjs:163-169`), for both have no
`autoMergeRequest`. A take repeated after its disarm failed is told "already held" though the
PR is armed. A release beside another's label re-arms under that hold, and its late unmark
removes the marker of the next.

**Local VM.** `StandsDown`: `local-vm.ts:141-142` says a release stands down for another run's
capture, but a look without an answer reads as not busy, and the VM is shut down under it.
`StoppedAgain`: `local-vm.ts:9-10` says a VM that was stopped gets stopped again; of two
overlapping runs the one that found it stopped stands down for the other, which found it started.
Further: between two captures of a run nothing is busy, so another's release may stop the VM in
the pause; a VM whose state could not be read is stopped at the end; one that never became
healthy, or whose run was killed, is put back by nobody; and a stop that is forced after its grace
hits whatever the guest is doing by then.

**Budgets.** `TrueWorstCase`: `worker-http.mjs:62-63` calls 60 s + 520 s "the true worst case";
a worker that retries locally may use the 520 s twice. The client has left by then, the
worker finishes for nobody, and the next request meets a 429 (`OrphansAreRetries` is what
does hold). Likewise a capture accepted only after a lost POST was settled runs on what is left
of the first deadline.

**Reverts.** `StillPassesBefore`: a revert's text (`trunk-revert.mjs:280`) says that the commit
before still passes now. The parent is tried with `npm test` (`trunk.yml:292`), which is the
product's packages, and Python only where there is a `.venv`; `trunkBuildTest` runs lint, types,
all packages and Python (`reusable-build-test.yml:149-242`). What the world fails of the rest
passes at the parent by not being tried, and an innocent push is accused of it while it still
fails. `GateFailureIsOwn`: `trunk.yml:258-259` says a failure of `trunkGate` alone cannot be
caused by the world. It can: the guard exits 2 when `git fetch` fails, the job fails as for a
refusal, the parent is recorded as passing unasked, and a draft revert of a merge that lost
nothing is opened, against `trunk-revert-guard.mjs:199` ("takes no automatic action") as well. A
failure of the world that is over before the parent is tried again is pinned on the push too
(`recovered` in `OnlyTheGuilty`); the draft is what keeps it from having consequences. And a push
that lands but loses its answer (`trunk-revert.mjs:486`), or a runner lost before the PR, leaves a
branch nobody is told of, on which every later push of that revert is refused (`untold`).

## 6. Not modelled

* **Time**, outside `CaptureBudget`: deadlines are steps that may happen at any moment. Of the
  ladder it leaves out the reserve for reads after a capture, the share of the activation and
  the limits of single calls, which lie inside the capture's own budget.
* `VmLease` leaves out the choice whether there is memory for a VM and which of several to
  take, and has the idle watcher as a hand on the switch.
* `TrunkRevert` leaves out the comment on the original PR and the jobs the decision does not
  depend on; that main moves between the look at its tip and the PR is in the model, and no
  property is about it: the code leaves it to whoever reads the draft.
* **Content.** What NVDA says, what is on the page, whether evidence is good: the read-through
  has an outcome (`ok`, `empty`, `thrown`), an answer a code.
* `CaptureWorker` leaves out GET endpoints that change nothing except by way of
  `storedResultResponse` and the warm-up, and has the desktop preparation as one bounded
  step. A connection that breaks after the capture began changes nothing in the code; it is
  not a step. `CaptureWorker` and `ScreenReader` abstract one another: a capture's outcome in
  the first is any outcome the second can reach, a capture's request in the second any the
  first admits (one in the slot).
* `ScreenReader` leaves out window focusing, waiting for the document, browser teardown and
  the phases of a read-through: they decide nothing about NVDA's life.
* `WorkerPool` leaves out failure messages, page checks, summaries and command lines.
* `CaptureClient` is the asynchronous path; the synchronous one (`A11Y_SYNC_CAPTURE=1`) has no
  id, and so nothing to re-ask for; it is left out.
* Components with no module are in the table of section 1 and, with the reason, in
  `PROJECT.json`: pure functions of text (judge, evidence, scorer), sequential drivers (CLI),
  scripts over SSH (deployment), reports and static checks (the rest of the agent organisation,
  guards), the reading of a page by a live browser and NVDA. They are most of the repository's
  lines, and keep next to no state between calls.

## 7. Plan

Done, in this order because each is what the next relies on: the capture path (ResultStore,
CaptureWorker, CaptureService, ScreenReader, CaptureClient), the pool, the desktop before a
capture, what a run leaves on disk, the server its pages come from, the guest it starts, the
clock over them, and the three protocols of the agents; each with its proofs.

What is left, with the question each would ask:

1. **Pipeline** and **FleetWake** (control plane): the once-only lock, stop at the first failure.
2. The synchronous path of CaptureClient (`captureTolerantly`, `recoverCapture`): may a recovery
   that compares files take an old capture for the one it lost?

Compositions: CaptureWorker with ScreenReader over the slot and the recovery (the runs of one
are the drives of the other); CaptureClient with WorkerPool's `handle`, through CaptureService.

Proofs: the compositions' safety, once they are written.

## 8. Running it

    tlc -config CaptureWorker.cfg MCCaptureWorker
    tlapm CaptureWorkerProofs.tla

A `.cfg` belongs to the MC module it is named after. The `Claims` ones are meant to
end with a counterexample. The larger ones take a minute to a few, the proofs of a module up to a
few minutes.
