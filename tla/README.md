# Hextech companion: a TLA+ model

The repository holds several programs. The largest, and the one whose state is
worth checking, is the Hextech companion under `src/run/`: a desktop App that
keeps a versioned store of game statistics, and two Overlay child processes,
one that recognises the augments on the screen (the sidecar) and one that draws
recommendations beside them (the host). This directory models the parts of it
where several threads, processes, crashes and files meet, and one part of a
second program, the publication of `sm2-randomizer`, checks them with TLC
on small instances, and proves the main safety results with TLAPS for every
value of the constants.

| module | models | proofs | runs |
|---|---|---|---|
| `ReleaseStore` | the release store, from start-up to retention, with its readers | `ReleaseStoreProofs` | `ReleaseStore.cfg`, `ReleaseReaders.cfg` |
| `ReleaseRegister` | what a reader of the store is promised (abstract) | implemented, in `ReleaseStoreProofs` | refined in `ReleaseReaders.cfg` |
| `DataActions` | the queue of data actions and its worker thread | `DataActionsProofs` | `DataActions.cfg` |
| `OverlayLifecycle` | starting, watching and stopping the two child processes | `OverlayLifecycleProofs` | `Overlay.cfg`, `OverlayInTurn.cfg` |
| `SingleInstance` | the lock, owner and activation files of the desktop | `ProcessProofs` | `SingleInstance.cfg` |
| `PublishTransaction` | the journalled publication of runtime files in `sm2-randomizer` | `PublishTransactionProofs` | `PublishTransaction.cfg` |
| `RefreshCoordinator` | the refresh, its waiting callers, the optional thread, workers, stop and retention | `RefreshCoordinatorProofs` | `RefreshCoordinator.cfg` |
| `StatisticsPin` | which generation of statistics a game is shown | `StatisticsPinProofs` | `StatisticsPin.cfg` |
| `RuntimeChannel` | the pipe between the App and a child, with its four threads | `ProcessProofs` | `RuntimeChannel.cfg` |
| `LatestValue` | what a channel promises about each kind of message (abstract) | implemented, in `ProcessProofs` | refined in `RuntimeChannel.cfg` |
| `VisionHandoff` | the change of the recognition Catalog of the running sidecar | `VisionHandoffProofs` | `VisionHandoff.cfg`, `VisionHandoffMissed.cfg` |

`MC<module>` instantiates a module for TLC. `ProcessProofs` extends `SingleInstance`
and instantiates `RuntimeChannel`, so its theorems about the channel name its
assumption as a hypothesis. Paths below are relative to `src/run/src/hextech/`,
except in section 6.

## 1. Inventory

### Parts that keep state

| part | state | operations | talks to |
|---|---|---|---|
| release store (`modules/data/generation`, `infrastructure/persistence/retention.py`, `release_seed.py`) | generation directories, each with one manifest; `current.v4.json` (head): current and previous generation, recognition and previous recognition Catalog; the readers' query cache | publish, move the recognition Catalog, open a view, sweep, install the seed, repair the recognition reference at start-up | refresh coordinator publishes, Overlay processes read without a lock |
| data actions (`bootstrap/data_service_application.py`, `data_service_runtime.py`) | bounded queue, types queued, pending recheck, active and completed actions, display policy | submit a refresh or a setting, poll, run, request the shutdown, stop | desktop and schedule submit, worker runs the refresh coordinator |
| source refresh coordinator (`infrastructure/sources/refresh_service*.py`, `refresh_policy.py`) | per-source schedule and back-off, threads of the optional sources, the force flag, owed retention | refresh due sources, force, start and end an optional source, retry | isolated workers, release store |
| isolated workers (`infrastructure/processes/isolated.py`) | one child per fetch, its deadline and cancel file | run, poll, cancel, time out | refresh coordinator |
| Overlay process group (`interfaces/overlay/runtime_manager.py`, `bootstrap/runtime_owner.py`, `interfaces/overlay/lifecycle.py`) | desired state, generation of the start and its cancel event, status, the two process handles, context poller, registered children, the running action | enable, disable, cancel, retry, roll back, tick, restart the sidecar, stop | desktop requests, monitor thread, both children |
| vision handoff (`interfaces/overlay/vision_handoff.py`) | observed and running Catalog, prewarmed templates, deferred switch, recovery identity | observe, prewarm, switch, roll back | release store, Overlay process group |
| runtime channels (`modules/session/runtime_channel.py`) | latest message of each kind, reader and writer thread of a pipe | send, receive, accept, close | runtime owner and both children |
| desktop single instance (`interfaces/desktop/single_instance.py`) | lock file, owner file, activation request | acquire, wake the owner, consume, release | launches of the program |
| statistics pins (`interfaces/overlay/host_data_preparation.py`, `generation_pin.py`, `stats_pin.py`) | first selection observed and requested, the key asked for, the worker's result, the generation a game has and the one the next starts with, the stage | observe, request, withdraw, refresh while idle, resolve, adopt, prepare, publish | release store, host |
| context trust (`interfaces/overlay/context*.py`) | publisher instance, sequence numbers, held context | publish, admit, hold, expire | host, sidecar |
| selection tracking (`infrastructure/vision/state.py`, `slot_reducer.py`, `frame_admission.py`) | scene, epoch, slots and their generations | admit a frame, enter, leave, reroll | sidecar |
| recognition scheduling (`infrastructure/vision/ocr_shadow.py`, `ocr_completed.py`) | mailbox, in-flight keys, completed evidence | submit, displace, complete | sidecar's text-recognition worker |
| champion downloads (`modules/acquisition/champion_downloads.py`) | claims, per-champion outcome | claim, fetch, stop | source adapters |
| transport and response caches, source runs and Catalogs, diagnostics retention, file locks | files | write, verify, expire | the parts above |

Without state of their own, or without anything a model checker could add:
image recognition (numeric), recommendation and session facts (pure functions
of their arguments), source adapters (fetch and parse), League client access,
desktop and Overlay windows (Tk and Win32 on one thread), contracts and
logging, tooling. `GameRefreshGate` (`bootstrap/game_refresh_gate.py`) is
constructed nowhere.

The other programs (`QuantProject`, `sm2-randomizer`, `sms-monitor`, `heybox`,
`subtitle_extractor`) are batch scripts, static pages and one polling loop. One
of them keeps state that has to survive a crash: the pipeline of `sm2-randomizer`
replaces three runtime files as a group (section 6).

### How they interact

A desktop launch takes the single-instance lock, starts the data service and the
runtime owner, and opens the window. The data worker runs one action at a time;
a refresh asks the coordinator, which fetches in isolated workers, writes source
runs and Catalogs, and publishes a generation under `HEAD_LOCK`. The Overlay
host opens views of the store from another process, and without the lock; the
generation it works from stands in its state file, which is how a sweep learns
of it. Enabling the Overlay starts the host, warms the recognition templates and
then starts the sidecar; a monitor thread looks every half second, and the
shutdown stops everything.

### What is hard here

* Steps that are not atomic: the candidate's directory, its manifest and the
  head; the lock file and the owner file; reading a process handle and clearing
  it seconds later; taking an action off the queue and entering the lock.
* Threads that deliberately avoid a lock: disabling the Overlay does not take
  the operation lock a start may hold for minutes, readers of the store take
  none at all.
* Exceptions that arrive after the effect: an error raised after `os.replace`
  must not remove what the head by then names.
* Crashes: every file operation of the store, of the single instance and of the
  publication of `sm2-randomizer` can be the last one.
* Merging: several refresh requests of different strength end up in one.
* Marks that overtake each other: the first selection of a game is recorded by
  the observer before the GUI reads it and before the worker is asked; a force is
  read by one thread and cleared by another.
* Bounds: the queue is full when a pending recheck is to be queued; the sidecar
  is tried twice, `acquire` loops twice.

Correctness, part by part: a reader always finds what the head names, and a fallback
that was proved good survives; a group of files is published as a whole or not at
all; no accepted request is weakened or lost; no child process escapes the one who
must stop it; there is never a second control surface; a stop reaches every process,
and a game keeps the statistics it had when its first selection was seen.
`PROJECT.json` lists the hazards at their lines with the properties that cover them,
the uncovered ones with the reason.

## 2. The release store

`ReleaseStore` follows the App process from its start through publications and
sweeps, any number of crashes, and readers in another process.

| code | model |
|---|---|
| `current.v4.json` | `head`, replaced in one step (`os.replace`) |
| a generation directory | `tree` (absent, empty, partial, manifest), `content`, `aged` |
| what the disk did to its files | `damage`: a unit (found by a full closure check only), the closure, the manifest |
| the Catalogs that still verify | `sound` |
| where the holder of `HEAD_LOCK` is | `pc`; `idle` means the lock is free |
| `_publish_locked`: candidate, its `open_view` | `cand`, `seen`; `PublishBegin`, `PublishWrite`, `PublishProve`, `PublishCommit`, `PublishUnwind` |
| `update_head` | `PublishedHead`, `WithRecognition`, `MoveRecognition` |
| `apply_retention` | `SweepBegin`, `SweepRemove` (one directory a step), `SweepEnd` |
| `install_v4_seed`, `_initialize_packaged_release` | `BootSeed`, `SeedCopied`, `SeedCopyStopped`, `SeedCommit`; `BootPackaged`, `BootFails` |
| start-up from sources | `BootInstalled`, `BootSeed` |
| `DataSnapshotClient.open_view` without the lock, its query cache | `ReadHead`, `ResolveCurrent`, `ResolvePrevious`; `cache` |
| the Overlay's state file | `Report`, `status` |

Exceptions are actions of their own: the write of the manifest may fail, the
proof may reject the candidate, the commit may raise before or after it took
effect, and the clean-up may read the head or fail to, and remove all, part or
nothing. `Crash` may come between any two steps.

A packaged build and one run from sources start differently, which the constant
`Packaged` selects. From sources, an App whose seed cannot be copied comes up
without statistics. A packaged one fails; after a copy torn by a crash every
later start fails too, because an existing file that differs from the shipped one
is never overwritten, until somebody removes the torn file. The model shows this
state as `BootFails` remaining the only step of the App. A packaged start also
replaces a recognition reference that no longer verifies.

**Checked** (`ReleaseStore.cfg`: packaged, three generations with the seed, two
contents bound to two Catalogs, two faults; `ReleaseReaders.cfg`: from sources,
two generations, one Catalog, one reader, one fault):

* `HeadNeverDangles`: what the head names has its manifest.
* `CommitsAreProven`: no commit promotes or keeps a generation a publication has
  found unreadable, what it keeps as previous was in the head until then, and the
  same content never pushes out the previous one.
* `OneFaultIsSurvivable`: with a fallback in the head, one fault of the disk
  leaves something to serve.
* `RecognitionKeepsFallback`: a verifying recognition reference is kept as the
  fallback when another takes its place.
* `StartRecognises`: a packaged App that comes up has a verifying recognition
  Catalog. Each reference the seed has is verified before the head is written
  (`release_seed.py:66`); that it has a current one is the build's doing
  (`cohort_seed.py:49-52` packs no seed without), and assumed of the installation.
* `SweepSparesReferences`: a sweep takes nothing of the head, and nothing a
  reader had reported before the sweep collected its references. A reader that
  reports after that is not covered (the variable `late` names it): the code
  reads the state files once.
* `ImplementsRegister`: under the mapping at the end of the module, the store
  implements `ReleaseRegister`. Commits switch the pair at once; an undegraded
  view of one reader never goes back in commit order, although it may have read
  its head several commits ago and resolve it from the cache.

Three generations give a current, a previous and a candidate. Generations other
than the seed are interchangeable. Two faults let a repair meet a second broken
Catalog; the properties about one fault carry their own guard. The query
cache holds two releases, so with two generations nothing is evicted: eviction
only makes a reader verify from the disk again. The reader's run has one Catalog
because a reader only asks whether a Catalog verifies.

**Proved** (`ReleaseStoreProofs`): `IInv` is inductive. Its parts: `HolderInv`
says what each step of a publication may rely on (the candidate is not in the
head before the commit and has its manifest once it is written; the generation
`open_view` returned is not a rejected one); `HeadInv` adds to `HeadNeverDangles`
that a generation of the head was written with a content, and that the head names
nothing before its file exists; `SeedInv` that the
seed is only copied while there is no head; `RejectedInv` that a generation once
unreadable stays so, which holds because damage is never repaired in place and
an identity is never used twice; `SweepInv` that a running sweep spares the head
and everything reported before it began. From it follow `TypeCorrect`,
`HeadIsSafe`, `SweepSparesReferencesTheorem`,
`StartRecognisesTheorem`, `RecognitionKeepsFallbackTheorem` and
`RolesMoveIndependentlyTheorem` (statistics and recognition references never move
in one step), the action
properties by looking at the only steps that move what they speak of (lemmas
`CurrentMoves`, `HeadMoves`). The only assumption is `StoreAssumption`, about the
constants.

`StoreImplementsRegister` proves the refinement, step by step. The mapping turns the
generations of the head and of the views into positions in the history `log` of
commits, so it needs more than `IInv`. `OrderInv`: no generation is committed twice
(the candidate is not in `log` until it commits), so a position is the only one, and
the head's current is the last. `ReaderInv`: what a reader holds was committed, and
its undegraded view is not later than the current of the head it has read, which is
what a resolution moves the view to. A commit adds a position and moves none (lemmas
`PositionAppend`, `OrderCommit`); moving the recognition Catalog, a sweep or a crash
are stutters of the register; a fall-back to the previous generation is marked
degraded, and the register lets such a view be anything committed.

`CommitsAreProvenTheorem` needs `OrderInv` as well, for the generation a commit keeps
as previous. `OneFaultIsSurvivableTheorem` rests on `FaultInv`, which ties the number of faults
to generations: a broken generation has cost one, two broken ones have cost two,
and current and previous of the head differ. A seed whose copy is under way
counts as present, since its damage precedes its manifest.

## 3. Data actions

Every method of `DataServiceApplication` runs under one lock, so a submission is
one step. The worker however takes an action off the queue before it enters the
lock (`Take`, then `Begin`): in between, the action is neither queued nor active,
and a shutdown may drain the queue.

| code | model |
|---|---|
| `_actions`, `_queued_action_types` | `queue`, `queued` |
| `_pending_refresh_recheck`, `_force`, `_scope` | `pending`, merged by `Coalesced` |
| `submit_refresh`, `set_private_stats` | `SubmitRefresh`, `SubmitSetting` |
| the caller's poll | `CallerReturns`, `CallerTimesOut` |
| the worker loop | `Take`, `Begin`, `Finish` with `QueuePending`, `WorkerExits` |
| `EmbeddedDataRuntime.stop`, `request_shutdown` | `Stop`, `RequestShutdown`, `Drain` |

`Covers` says when one run does everything another request asked for. It reads
the executor, not the merge: a forced run passes the back-off, the scope `core`
makes the core sources run whether due or not, and only the scope `due` forces
every source. That the merge loses no stronger request is also what
`src/run/docs/overlay-refresh-v2-history.md` promises; the property is stated
from the executor, so the merge could fail it.

**Checked** (`DataActions.cfg`: a queue of one, four submissions, then the stop
at any point). A queue of one is full as soon as an action waits behind the
running one, which is the interesting case for a queue of eight too: a pending
recheck meets a full queue. Four submissions suffice for a running refresh, one
pending, another merged into it, and a setting in the queue.

* `AcceptedRefreshIsCarried`: an accepted refresh no run has covered yet is
  carried at full strength by the queue, the worker or the pending recheck.
* `LastSettingWins`: the last accepted setting is the one in force.
* `NothingBeginsAfterDrain`: after `request_shutdown` has returned no action
  begins, although the worker may have held one.
* `AcceptedRefreshRuns` (liveness): it ends in a run, unless a stop comes first.
* `EverythingEnds` (liveness): every caller is released, and after a stop the
  worker ends.

Fairness: the worker thread, since each action ends (every source worker has a
deadline); a caller's poll every 50 ms; the two steps of a stop that has begun.
Nobody has to submit, give up or stop.

Deadlock is not checked: after the stop everything has ended.

**Proved** (`DataActionsProofs`): `IInv` is inductive, for every queue capacity
and any number of submissions. The carrier of an accepted refresh changes hands
in almost every step, so the proof needs to know that `_queued_action_types`
names exactly the types on the queue or taken (`QueuedInv`), and that at most
one refresh is on its way (`SingleRefresh`), and that a pending recheck, which is
queued only when an action ends, always has an action ahead of it
(`PendingHasATrigger`); lemma `MergeCovers` states that the
merge covers both of its parts. `NoRefreshIsLost`, `NoPendingIsStuck`,
`SettingsSettle`, `ShutdownIsFinal` and `ActionsTypeCorrect` follow.

Not modelled: the eviction of completed actions beyond 16, after which a caller
without a timeout waits for the stop; the status projection shown in the window.

## 4. The Overlay process group

Two children, up to four threads: one enabling, one disabling, the monitor and
the shutdown. `run_game_overlay_action` answers a request by a running action of
the same kind, so there is one enabling thread at most, and the operation lock
is never contended by two of them; disabling does not take it.

| code | model |
|---|---|
| `OverlayRuntimeManager` fields | `desired`, `cancelled`, `status`, `host`, `sidecar`, `poller` |
| `set_enabled(True)`, `_start` | `Enter`, `Begin`, `Prepare`, `StartPoller`, `Launch`, `Spawn`, `Register`, `AwaitReady`, `Prewarm`, `Retry`, `AssignSidecar`, `Check`, `Finish`, `RollBack`, `RecordEnable` |
| `_ensure_start_current` | `Current`, read only where the code calls it |
| `cancel_start`, `_stop` | `CancelStart`, `MarkStopping`, `StopSidecar`, `StopHost`, `SettleStop`, by the disabling thread and by the shutdown |
| `AppRuntimeOwner._children`, `register_child` | `registered`, `Register` |
| `tick`, `prepare_sidecar_restart` | `Tick`, `PrepareRestart`, `SubmitRestart` |
| `run_game_overlay_action`, the end of `_execute_game_overlay_action` | `QueueEnable`, `QueueDisable`, `RecordResult` |
| `append_event` raising | `EventIsLost`; `leftover` has the actions that stay `running` without a thread, `unwritten` counts |
| `AppRuntimeOwner.stop` | `RequestShutdown`, `PublishShutdown`, `StopChildren`, `StopAgain` |
| the processes | `alive`, `hung`, `stuck`; `Crash`, `Stick`, `Hang`, `Wake` |

One step is what a thread does between two points where another thread matters to
it. The start's generation and its cancel event are one flag, `cancelled`: both are
set together by a cancel and reset together by a start. The switch of the
recognition Catalog is section 10's, so here the Catalog is fixed. A host that exits
while the group runs leads to an error, not to a restart, as in the code. A process
that survives `terminate` and `kill` is `stuck`; a child refused by `register_child`
that survives is `abandoned`, which no part of the program can help.

An event is written between two parts of a step at four places, and the write may
raise: after an action was recorded and before its thread starts, before its result
is recorded (where an error of the first write is caught and reported by another, whose
own error is not), and after a restart was
prepared and before it is submitted. The first two leave the action `running`; a
user's request that meets the first raises, and the switch in the window goes back,
so it is not counted as what the user asked for. The end of a stop is an error also
when the poller's stop, the inactive event or the empty context fails (`SettleStop`,
which counts it as a fault).

**Checked.** Requests overlap (`Overlay.cfg`) or come one after another, as from
a user who waits (`OverlayInTurn.cfg`), with two requests, one fault and one event that cannot be
written each:

* overlapping: `EveryChildIsReachable` (a live child is registered with the
  owner, whose `stop` reaches it, or is the one being launched).
  `Overlay.cfg` leaves `poller` and the history variable `wanted` out of the
  fingerprint (`VIEW Decisive`): neither a guard nor the property reads them.
* in turn: `StoppedMeansGone`, `NothingIsLost` (whatever failed, the manager
  keeps a handle of every live child) and `StatusIsTruthful` (the status a
  reader finds when nothing is under way tells what there is). Two exceptions are
  part of the last: a group whose disabling was never carried out, because an action
  left over answered the request, and `starting`, once an event was lost.
* liveness, in turn: `EverythingEnds` (every thread of a request ends and its action
  with it, but for one left over, so that the monitor is free again; after the App
  closed everything is at rest), `StaleIsResolved` (a stale sidecar is restarted,
  recovers or ends in an error, unless an event was lost). Without an exception
  each of the three is violated, and section 11 says how.

`OverlayInTurn.cfg` compares states by what a thread may still read (`VIEW
Readable`), a fifth of them. The view leaves out values nobody reads again before
they are written, and the numbers of gone processes and of registered ones that are
gone. A step of a fair thread that changes the state changes the view, so
no wait is taken for progress. Larger instances without the view (three requests and
two lost events) satisfy the invariants the proofs use.

The second group is asked of requests in turn because overlapping ones break its
invariants (section 11): with `Overlapping = TRUE` and no faults or lost
events in `OverlayInTurn.cfg` TLC shows how.

Two requests are an enable and a disable in either order, with the monitor's
restarts and the shutdown beside them. One fault is a crash, a hang
or an unkillable child at any point, or a stop that fails otherwise. Six
process numbers suffice, numbers of gone processes are used again.

Fairness: each thread runs on (one condition for each of the enabling, the disabling,
the shutdown thread, the monitor and the caller of `stop`), since every wait of a
start has a deadline and `stop_process` is bounded. Requests, shutdowns and faults need never come; a
second `stop` after a failed one need not either. The system may really stop
when closed, so deadlock is not checked.

**Proved** (`OverlayLifecycleProofs`), for any number of requests, faults and
processes: `OverlayInvariant`, `NoChildEscapes` and `ClosingLeavesNothing`. The
argument is `LauncherInv`, that the launching thread holds a process exactly
between its creation and its assignment, and that it is registered in the last
part of the way only; a stop may then clear the manager's fields at any moment,
since reachability rests on the owner's registration and not on them.

For requests in turn (`~Overlapping`), again for any number of requests, faults
and processes, `TurnInvariant` adds three parts, which hold until the App closes.
`TurnInv`: a request has the manager and the monitor to itself, and an action that
stays `running` without a thread is left over. `HandlesInv`: a
start is never superseded, and before a handle is overwritten its process is
dead; the host's when a host is launched, the sidecar's throughout a start, and
either one's once a stop has seen it end. `StatusInv`: what each status means and
who will take an intermediate one away, or that an event was lost; `running` and
`stale` need both handles, and so does `starting` before the start has begun (`Up`);
`stopped` that nothing accepted lives. They are inductive together only: that no
handle is lost rests on the status, since the enable that finds `running` starts
nothing. `NothingIsLostTheorem`, `StoppedMeansGoneTheorem` and
`StatusIsTruthfulTheorem` follow. The hypothesis is what `OverlayInTurn.cfg` sets,
and cannot be dropped (section 11).

## 5. The desktop single instance

`SingleInstance` has an action for every file operation of
`DesktopInstanceOwner.acquire` and `release`, for several launches of two builds
at once, each of which may die anywhere. The program runs on Windows only, and
the model has its file semantics: a file somebody holds open cannot be unlinked,
the attempt raises `PermissionError`. `blocked` is the launch nobody catches that
error for; `refused`, `unanswered` and `conflict` are the exit codes 0, 2 and 3.
`owner` and `request` name the live process the files identify (by pid, start
time and owner id), so a dead one's files are stale at once. The build conflict
report and the 30-second age of a request are not modelled.

**Checked** (`SingleInstance.cfg`: two processes of one build and one of
another, launched any number of times): `OneOwner`; `LoneLaunchTakesOver`,
whatever crashes left behind, a launch with nothing else running takes over.
Three processes are one owner, one remover of what it takes for stale, and one
that enters between them. Deadlock is checked: processes die and are launched
for ever.

**Proved** (`ProcessProofs`), for any set of processes and builds:
`InstanceInvariant`, `MutualExclusion` and `TakeOver`. Mutual exclusion rests on
`HolderInv`, which with `OwnerFileIsTrue` (the owner file names the process in
charge or nobody alive) makes up `IInv`: the process in charge holds the lock file
open, and an open file stays. It does not rest on the owner file, which a slow
removal may delete.

## 6. The publication of sm2-randomizer

`src/sm2-randomizer/pipeline/compute/publish_candidate.py` replaces
`classes.json`, `talents.json` and `meta.json` as a group. The new files and
backups of the old ones are staged in `.publish-transaction`, a journal beside
it is written, the files are replaced one by one and compared, the journal is
marked, and everything is removed, the journal last. A run that finds leftovers
first undoes or finishes them, under checks that refuse anything uncertain.

| code | model |
|---|---|
| the runtime files, by digest; absence is a digest | `live` |
| `.publish-transaction`, its `old-*` files | `dir`, `backup` |
| `.publish-transaction.json`, `.next` | `journal`, `next` |
| `record` | `rec` |
| `apply_candidate`, `apply_or_clean_candidate` | `Open`, then `Recover` or `Begin` |
| `_publish_group` | `Begin`, `Stage`, `Check`, `Replace`, `Verify`, `Raise` |
| `_write_journal` | `WriteNext`, `ReplaceJournal` |
| `_recover_transaction` | `Recover`, `Restore`, `Rewrite`, `Restored` |
| `_clean_transaction` | `CleanFile`, `CleanDirectory`, `CleanNext`, `CleanJournal` |
| the process dies, or the exception leaves the run | `Stop` |
| an editor, which does not take the writer lock | `Interfere`, `Damage` |

The writer lock does not block: a second run is refused, and one run at a time
is left, with `pc = "idle"` for the free lock; the operating system releases it
when the process dies. A death is that of the process: `os.replace` is atomic
and in order, as a power failure need not leave it. The `new-*`, `restore-*` and
`validation.json` files, the report files, links and the identity of the target
directory are abstracted; a check of theirs that fails is a `Raise` or a `Stop`.
`touched` and `late` are history variables for the properties: the files others
wrote since the transaction began, and those since the run last looked.

**Checked** (`PublishTransaction.cfg`: three files, two contents and absence,
two foreign writes, so one to a file and one to its backup or to another file
are both possible; any number of runs and deaths):
`EveryCrashIsRecoverable`, a journal on disk describes a disk the recovery
accepts, whatever was interrupted, recoveries and cleanups included;
`AllOrNothing`, what a recovery would leave changes for the whole group in one
step, the commit of the journal; `LiveMovesUnderJournal`, the write-ahead rule;
`ForeignIsNotOverwritten`, what others wrote is overwritten only in the window
between the look at one file and its `os.replace`, which the code cannot close.
All of them speak of a disk with a journal. A run that dies before its journal
is on disk, or while it removes what a failed preparation left, leaves a
directory or a `.next` file without a journal, and every later run refuses; the
code says so ("abrupt interruption leaves evidence and fails closed").

**Proved** (`PublishTransactionProofs`), for any number of files, contents and
foreign writes: `TransactionInvariant`, `CrashesAreRecoverable`, `WriteAhead`,
`OthersAreSpared` and `PublicationIsAtomic`. `IInv` says of each file nobody
else wrote where it may be in each phase of the journal (`FileInv`) and how far
the run has come with it (`ProgressInv`), and of the run that it holds the
journal it is about to write (`HolderInv`). The properties alone are not
inductive: that a crash is recoverable after a file is replaced rests on the
backup made, and compared, before the journal was written.

## 7. The refresh coordinator

`RefreshCoordinator` is `IncrementalRefreshService`
(`infrastructure/sources/refresh_service.py`, `refresh_service_lifecycle.py`):
one refresh at a time runs the recognition Catalog and the core statistics in
its caller's thread, a thread of its own fetches Apex and then Mayhem, every
fetch is a process. Whether a source is due or in back-off, a worker succeeds and
a publication changes anything is free; so are the units of a publication.

| code | model |
|---|---|
| `refresh`, waiting on `_refresh_done` | `Call`, `Enter`, `WaiterReturns`, `Finish`, `Leave`; `caller`, `pc`, `last` |
| `_refresh_once` | `Start`, `SkipCatalog`, `RunCatalog`, `CatalogEnds`, `NoCatalog`, `ForceOptional`, `StartOptional`, `SkipCore`, `RunCore`, `PublishUnits`, `CoreEnds`, `Raises` |
| `_refresh_optional_sources`, `run_optional_refresh` | `Begin`, `Decide`, `RunOptional`, `OptionalFetched`, `PublishOptional`, `OptionalRaises`, `OptionalEnds`, `OptionalCloses`; `opt` with the local `force_check`, `optForce` |
| `_run`, `run_isolated_process` | `Register`, `Clear`, `Launch`, `Ended`, `Fails`; `worker`, `told` |
| `request_stop` | `RequestStop`, `TellWorkers`; `stop`, `stopped` |
| `_retention_pending`, `try_postcommit_retention` | `retention`, `TryRetention` |

`owed` is history: the optional sources a force was promised to when it came and
that no thread has decided about since.

**Checked** (`RefreshCoordinator.cfg`: two callers, so that one refreshes and one
waits; a third would only wait beside it):

* `ForcedSourcesAreCarried`: the flag or the running thread still has the force
  of every source it was promised to.
* `StopReachesWorkers`: once `request_stop` has returned, no process runs or is
  about to be created that was not told to stop. The registration of the cancel
  file comes before the look at the stop, and the stop is set before the files
  are written; either order alone would leave a gap.
* `RetentionIsTried`: with everybody gone, the pass owed for a commit has been
  tried with nobody at work.
* `WaitersShareTheRun`: a caller that waited is answered by the refresh it waited
  for.
* `EverythingEnds` (liveness): every refresh and every waiting caller comes to an
  end, and after a stop everything does. Fairness: the refresh, the thread and the
  stop go on, since a worker has a time limit and ends; callers need never come.

**Proved** (`RefreshCoordinatorProofs`), for any set of callers: `IInv` is
inductive (`CoordinatorInvariant`), and with it the four safety properties
(`ForceIsCarried`, `StopReachesEveryWorker`, `RetentionIsNotForgotten`,
`RefreshIsShared`). `OneOwnerEach` says which thread a running process belongs to
and `ThreadInv` where the optional thread may be; `OwedHasATrier` is what makes
the last of several leaving threads responsible for the pass that is owed.

Not modelled: the schedule and back-off, the recheck of the dependencies, the
Catalog a unit is bound to, progress and outcomes.

## 8. The statistics of a game

`interfaces/overlay/host_data_preparation.py` and `generation_pin.py` give a game
the newest complete generation until its first selection is seen, and keep it
from then on. The observer records a first selection before the GUI can read the
event, because the GUI reads a mailbox of one and the worker may be inside a slow
open.

| code | model |
|---|---|
| `_observed_*`, `observe_input` | `observed`, `Observe` |
| `_requested_game_identity`, `_selection_started`, `_current_key`, `_pending`, `request` | `requested`, `key`, `pending`, `Request` |
| `invalidate`, `request_idle_refresh`, `close` | `Withdraw`, `Close` |
| `_version` | `run.fresh`: no version was given since the worker took its request |
| `_run`, `_needs_refresh` | `Take`, `LookAgain`, `PrepareAgain`, `SourceChanged`, `Leave`, `Exit`, `Raises` |
| `_refresh_idle_snapshot` | `IdleOpen`, `IdleSettle`; `bootstrap` |
| `SelectionGenerationPin.resolve`, `_resolve_generation` | `Resolve`, `Adopt` under the adoption lock, `Keep`; `pin` |
| `_prepare`, `_publish` | `Shown`, `Hints`, `PublishReady`; `result` |
| `source.open_view`, the App's publications | `current`, `NewGeneration` |

The worker looks at the state under the lock before and after each slow call.
Two consecutive looks are one step of the model where a version that is still
the last makes them find the same, which the comments of the module say. A key
that changes within a game (another champion, another stage) is a new version of
an equal request. The idle refresh may come whenever nothing is asked for.
`known` is history: what the game had, as its own or as the generation it would
start with, when its first selection was seen.

**Checked** (`StatisticsPin.cfg`: two games and two generations, one change of
each; an event without identity, candidates, ordinary selections, withdrawals and
late reads of the mailbox in any order):

* `NothingAfterTheFirst`: from its first selection on, a game's generation is one
  it had then, or none.
* `OneGenerationPerGame`: a prepared game does not change its generation after
  its first selection, not even between the two it may have had.
* `ResultsBelong`: what the GUI polls belongs to its last request, which was made
  with a context that is trusted, and comes from the generation its game has.
* `SelectionIsServed` (liveness): a selection that stays observed and asked for, with
  a context that is trusted, is shown with its statistics, unless its game has no
  generation. With another context the renderer asks too (`host_runner.py:251-298`),
  and nothing is shown (`host_data_preparation.py:436`, and
  `tests/test_overlay_data_preparation.py:313`): the request resolves the generation
  of its game like any other, once a second, and publishes nothing. Fairness: the
  worker goes on, and what raises does not raise for ever: a preparation that is
  repeated, its hints and its statistics succeed in the end (strong fairness).
  A result with only its hints is not final, which is what
  `host_data_preparation.py:390` promises.

Two games are needed for a request that is late by a game, and for the
generation one game leaves to the next; two generations for a change.

**Proved** (`StatisticsPinProofs`), for any number of games and generations:
`NothingAfterTheFirstHolds`, `GenerationIsKept` and `ResultsBelongHolds`, from
`PinInvariant`. `HeldSince` says that since the first selection both the pin and
what a session would start with are in `known`; `RunOK` that a fresh request is
the one asked for, that only a pin which is not frozen is about to adopt, and that
the resolution which set it began before the selection was seen; `AskedOK` that
what is shown is what runs.

Not modelled: the stage pin and its two-second window (`stats_pin.py`), the
caches of hints and scoped statistics, the content of what is shown.

## 9. The runtime channels

`RuntimeChannel` is the pipe of `modules/session/runtime_channel.py` between the
App and one child, with both ends in one module: what one end promises can only
be said of what reaches the other.

| code | model |
|---|---|
| `_pending`, the order of its keys | `pending`, `order` |
| `publish` | `Publish`; a kind that waits is replaced where it stands |
| `_write_loop`, `_sending` | `Pop`, `Send`, `SendFails`, `WriterEnds`; `sending` |
| the pipe | `wire` |
| `_read_loop`, `_latest` | `Receive`, `Dispatched`, `DispatchFails`, `ReceiveFails`; `latest` |
| `close`, `_closed` | `BeginClose`, `Disconnect`; `HangUp`; `state` |
| `flush` returns True | `Flushed` |
| `child_channel` ends its process | `Exit` |

Of the operating system the module assumes that what was written can be read
after its writer closed, and that closing an end wakes who reads or writes there.
`Exit` may come at any step of either end; `DispatchFails` is an exception of
`on_message`.

**Checked** (`RuntimeChannel.cfg`: two kinds from the App, so that one could
starve the other, one from the child; one message fits into the pipe, so that
writers block):

* `ImplementsLatestValue`: each way and for each kind the channel is the register
  `LatestValue`, in which the other end knows a message that was sent and never
  goes back to an earlier one.
* `NewestArrives` (liveness): of every kind the newest gets there, however often
  another kind is published, unless an end closes.
* `FlushedArrives` (liveness): what a child has flushed gets there, though the
  child ends the moment after; not when the App closes its end itself, or has a
  message of its own fail.
* `ChannelsEnd` (liveness): when one end closes or dies, all four threads end.

Two messages of a kind are told apart by the run only as none and some
(`MaxValue = 1`), which is what the three liveness properties need; which of
several messages is known is shown for any number of them by the proof. Fairness:
both threads of an end run, `on_message` returns, a close that has begun goes
on. Nobody has to publish, close or die.

**Proved** (`ProcessProofs`), for any kinds, any number of messages and
any size of the pipe: `ChannelInvariant` and, from it, the refinement
`ChannelIsRegister`. `WireInOrder`, `SendingIsNext` and `PendingIsNewest` say that
between the message the other end knows and the one sent last lie those in the
pipe, the one being written and the one pending, and that of each kind they are in
order: a message that replaces another in `_pending` cannot overtake the one
already popped.

Not modelled: the accept thread and the check of a new connection
(`ChildPipe`), the registration of children (`OverlayLifecycle`), what
`on_message` does.

## 10. The change of the recognition Catalog

`VisionHandoff` is how a sidecar that recognises with one Catalog comes to
recognise with the next (`interfaces/overlay/vision_handoff.py` and the parts of
`runtime_manager.py` and `AppRuntimeOwner.tick` it works through). The monitor
looks at the store, a thread loads the templates of a new Catalog, and an enabling
action replaces the process, outside of games only. A game may begin at any step
of this; then the old state is put back.

| code | model |
|---|---|
| `set_enabled(True)` | `EnterDeferred`, `EnterRunning`, `EnterStart` with `Pin` for a restart in a game |
| `_start`, `_start_sidecar_with_retry` | `Prepare`, `Join`, `HandDeferred`, `Hand`, `Recheck`, `Begin`, `Spawn`, `Check`, `Finish` |
| `_rollback_vision_handoff` | `UndoKept`, `Undo`, `Reload`, `Respawn`, `RestoreFails` |
| `_rollback_failed_start` | `Fail` |
| `observe_data_generation` | `Look`, `Load`, `ProbeFails`; `pointer`, `state`, `pending` |
| the rest of `tick` | `Found`, `Looked`: what there is to act upon; `Submitted`: the event before the action may not be written |
| `prepare_vision_handoff`, `prepare_sidecar_restart` | `ActSwitch`, `ActRestart`, else `ActNot` |
| `_prewarm_templates` | `Building`, `Warmed`, `WarmingFails`; `cache`, `prepared`, `warming` |
| `_vision_switch_blocked` | `blocked`: a game, or a context nobody knows |
| the Overlay switch of the desktop | `Enable`, `Disable`, `Stop` |
| the store and the process | `Publish`, `GameStarts`, `GameEnds`, `Ails`, `Wakes` |

Catalogs are numbers in the order they are published. `wanted` (what the user
asked for last) and `played` (the Catalogs that recognised in this game) are
history. Simplified: of two prewarm threads the one begun first ends first
(`vision_handoff.py:306` forgets the earlier one, which may in fact end later and
overwrite the templates), a launch with its retries is one step, and so is `_stop`;
that `set_enabled` writes `desired_enabled` and the status in two sections of the
lock is in `OverlayLifecycle` only. Children that cannot be stopped, enabling
actions that overlap another and actions whose events cannot be written are there
too; it has no Catalogs. Without active hints a switch keeps those of the statistics
in place (`vision_handoff.py:299`); `Kept` takes them to be none, or any that are not
newer than what is pending: statistics published between the look of the monitor and
this read are left out.

**Checked** (`MCVisionHandoff`, `VisionHandoff.cfg`: three Catalogs, two games, one
fault, three requests of the user):

* `NothingNewerInGame`: whatever is restarted, undone or put off, a switch that has
  begun does not end with the new Catalog in a game, and a game that one Catalog
  has served gets no newer one.
* `RollbackRestores`: an undone switch ends with the record of what is active as it
  was before. Its process is older than the Catalog still to be switched to, and not
  older than the record when the hints kept are of the record. That it has the
  Catalog of the record is not so: section 11 shows two ways to another one.
* `PendingIsSettled` (liveness): while the Overlay is wanted and no game goes on, a
  pending Catalog is adopted in the end, or the group is in error.

The first and the last speak of an App whose record is whole (`OnRecord`): it names
the active Catalog, and the hints kept for an undone switch are of that Catalog; the
second only needs a Catalog on record. The last leaves out a switch that could be
neither made nor undone, and one that was forgotten while nothing was on record.
Section 11 says how the code gets into these states and what it does there.

Two Catalogs are one switch; the third is needed for a restart that is pinned to one
Catalog while the rollback keeps another. Two games are needed for a game that finds
what the one before put off, three requests for an Overlay that is disabled and
enabled again. The view of `MCVisionHandoff` takes states for one that no step can
tell apart (a way back no switch will read, pointers that are not the head): nine
hundred thousand states remain. The invariant and both safety properties were also
checked by hand with two faults, and with one game, four faults and two requests.
Fairness: the enabling action, the prewarm threads, the monitor and the stop go
on, since each of their waits has a deadline. The user, the store, the games and
the faults need never come.

**Proved** (`VisionHandoffProofs`), for any number of Catalogs, games, faults and
requests and without an assumption: `NothingNewerInGameTheorem` and
`RollbackRestoresTheorem`, from `HandoffInvariant`. Neither property is about one
variable, and `IInv` says what ties the record, the caches, the way back and the
process together at every step of the action:

* `NewestInv`: nothing the App knows of, in the record, in the caches, in the
  templates being loaded or in the way back, is newer than what is pending, and
  what is active is older. So a switch always has something to switch to, and the
  monitor cannot take it back halfway by finding the active Catalog to be the
  newest.
* `SwitchInv`: what a switch would put back is what is active, or not newer than
  that; the templates a switch ends with are not older. This bounds what an
  in-game undo may bring back. The sidecar it starts has the kept hints' Catalog, or
  the one a restart was pinned to, which is then the one on record.
* `StartInv` and `StopInv`: what a start will launch is settled once it has
  waited for the templates, outside of a switch no sidecar lives meanwhile, and
  whoever is not wanted is about to be stopped.
* `ProcessInv`, `CacheInv`, `PlayedInv`: the process has the Catalog on record, but
  for one that is being started or about to be stopped, and one that an undone switch
  has left, which is older than what is pending; with nothing pending a restart finds
  the templates of the Catalog on record; a game that is served has seen a Catalog as
  new as that one.

Only `Finish`, `UndoKept` and `Respawn` record, serve or restore (lemma
`OthersLeaveTheRecord`), and for each the invariant gives the theorem. The
invariant was first checked by TLC, also with three Catalogs and two games, which
is how a record with the hints of another Catalog was found (section 11): the
properties once asked only that a Catalog is on record.

## 11. What the checks found

* **A new Catalog may never be adopted** (`VisionHandoffMissed.cfg`,
  `NewestIsAdopted`). A Catalog published while the templates of the one before
  are first being loaded is observed when no Catalog is known to be active:
  `observe_data_generation` notes nothing as pending and remembers the pointer
  (`vision_handoff.py:247`). The start takes the Catalog whose templates were
  loaded, and every later look finds the pointer unchanged, until another Catalog
  is published or the App restarts. `docs/overlay-runtime.md:289` says that the
  new Catalog is adopted once it is safe.

Met while modelling, without a run of their own.

Of the Overlay process group:

* A disable during a start may leave the host running. Starting the host takes no
  cancel event, so a disable that comes during it finds no host to stop and
  reports `stopped`; the host that becomes ready is assigned, and the check after
  that returns without stopping it. If the assignment falls between the stop of
  the old value and the clearing of the field, the handle is lost as well. The
  next enable or the end of the App repairs the first; only the end of the App
  repairs the second.
* An enable may be lost. An enable, a disable and a second enable while the first
  is still starting end disabled: the second enable is answered by the first,
  which the disable has cancelled already. `_stop` sets `desired_enabled` to False
  again after `cancel_start`, which loses an enable that enters between the two in
  the same way.
* An event that cannot be written leaves its action `running` for ever
  (`runtime_owner.py:296`; `:230` and `:246` before the final record). It answers
  every later request of its kind (`:275`), so that turning the display off, say,
  has no effect until the App restarts, and it keeps the monitor from restarting a
  stale sidecar until an action of the other kind has begun and ended.
* A restart that was prepared and whose event cannot be written (`:439`) leaves the
  status `starting`, which the monitor no longer takes for stale, until the user
  asks again.

Of the single instance: a launch close behind another may end in the start-up
error dialog. It finds the lock file but not yet the owner file, takes the owner
for stale, and fails to remove the lock file its owner holds open. The same
follows a slow removal that deletes the new owner's file, or a late release that
does.

Of the change of the Catalog:

* An enable that comes in a game while a Catalog is pending is dropped: the
  action returns with the display `stopped`, and nothing asks again
  (`runtime_manager.py:329`).
* A switch that a game overtakes after a failed start marks the group `running`
  although there is no sidecar (`runtime_manager.py:454`); the snapshot reports it
  so until the game ends and the switch is tried again.
* `_vision_handoff_in_progress` stays set when a switch ends with a still newer
  Catalog pending (`runtime_manager.py:486`). A failed restart in a game is then
  taken for a failed switch. Its rollback loads the templates of the Catalog before
  and puts that one on record, but starts the sidecar with what the restart was
  pinned to: `_start_sidecar_with_retry` prefers `_vision_recovery_identity` (`:544`),
  which only the end of `_start` clears (`:507`). The process is then newer than the
  record and the templates. With the run's bounds TLC shows this in fifteen seconds
  when `RollbackRestores` asks for `OnRecord' => vision'.cat = active'`. If the
  restart was not pinned, the Catalog before comes back: two Catalogs in one game,
  the second an older one.
* A new Catalog may come in during a game although nobody switches. A switch put
  off by a game leaves its templates loaded (`runtime_manager.py:454`). A restart
  of a hung sidecar that was prepared in that game and begins after it is not a
  switch, takes those templates (`:544`), and does not look whether the next game
  has begun by the time it is done (`:472` looks for switches only).
* The record of what is active may become empty. An enable that is put off while a
  switch is prepared, or an earlier prewarm thread that is forgotten and still
  runs (`vision_handoff.py:306`), lets the next switch record empty statistics of
  the templates, and its rollback restores them. The start after that names no
  Catalog, and the sidecar takes the one of the head. From then on two Catalogs may
  serve one game, and a switch put off may be forgotten. TLC shows this with three
  faults and three requests when `OnRecord` is left out of the properties.
* An undone switch may bring back an earlier sidecar. A switch that a game puts off
  before it has started anything leaves the new templates in `cache_stats`. The next
  attempt saves these as the way back (`vision_handoff.py:292`), and when it fails
  while the old process still runs, puts them back beside the hints of the old
  Catalog (`:318-323`). A plain start after that, for a hung sidecar or a disable
  and enable, launches the new Catalog from `cache_stats` and records it as active
  with the hints of the old one (`:165`, `:180`). When a later switch is undone, the
  templates are loaded from those hints: the Catalog before last comes back, under
  the fingerprint of the last (`:351`), and a restart in that game is pinned to the
  last one again. `docs/overlay-runtime.md:289` says that a failed switch restores
  the old sidecar. With the run's bounds TLC shows this in fifteen seconds when
  `OnRecord'` in `RollbackRestores` is replaced by `rollback.active # None`.
* The hints kept for an undone switch may be of a newer Catalog than the record: of
  statistics published while the switch was prepared, or after an empty record (three
  faults). What an undo then starts `RollbackRestores` leaves open.
* An event that cannot be written after a switch was prepared
  (`runtime_owner.py:405`) ends the tick: the switch stays in progress without an
  action, and only a later restart or request of the user goes on with it.
* A switch that fails, and whose rollback fails or is cancelled, leaves the state
  `prewarming` with the pointer of the new Catalog remembered (or `idle`, when the
  monitor looked while nothing was on record). The group goes to
  error; after the user has disabled and enabled it, it runs on the old Catalog,
  and the pending one is not tried again (`vision_handoff.py:210` takes up what is
  `deferred` only).

Elsewhere, and part of the models: a seed
copy torn by a crash stops every later start of a packaged build (section 2);
an enable while both children are unkillable reports `running` without setting
`desired_enabled`; a restart prepared by the monitor may override a disable that
comes before it is submitted; the result of a data action may be evicted before a
slow caller polls it.

Of the refresh coordinator:

* A force may be lost. One that comes when the optional thread has decided about
  its last source finds the thread alive, and the end of that thread clears the
  flag (`refresh_service_lifecycle.py:50`); one that comes while Apex is fetched
  forces Mayhem only; an unexpected exception loses it. `owed` leaves these
  sources out, so `ForcedSourcesAreCarried` is about the others. In the App the
  data worker is the only caller.
* A refresh adopts a new Catalog without `_lock` (`refresh_service.py:543`), while
  the optional thread may be placing a unit of the old one (`:721`). Such a unit
  fails every later publication with `optional_candidate_rejected` until its
  source is fetched again, where `docs/overlay-runtime.md:176` says that an
  optional source cannot block the others. The binding of units is not modelled.
* If the validation after `publisher.publish` raises, the retention pass for that
  commit is not owed.

Of the statistics of a game:

* Whether a selection has started is reset by the first event of the next game only,
  so after a game with a selection the idle refresh neither updates the generation
  the next game starts with nor reports its error (`host_data_preparation.py:325`);
  `docs/overlay-display-repair-v3.md:106` says that the generation of an idle host
  is refreshed. A next game whose events begin before its first selection still
  adopts the newest one.
* A game with nothing refreshed while idle starts with the generation of the game
  before (`generation_pin.py:114`), which the properties allow.

## 12. What is proved, what is only checked

Every safety property above is checked on the instances named, and proved for
every value of the constants where its section says so. The proofs have one
lemma per action or group of actions, each with one step per conjunct of `IInv`,
and each rests on the named assumption of its module only (`StoreAssumption`,
`ActionsAssumption`, `OverlayAssumption`, `ProcsAssumption`,
`TransactionAssumption`, `PinAssumption`, `ChannelAssumption`), which TLC evaluates
in the runs; `RefreshCoordinator` and `VisionHandoff` assume nothing. The theorems
about the Overlay in turn have the hypothesis `~Overlapping`, as their run does. The runs
do not list `IInv`: that it holds, and is inductive, is what the proofs show.

Model-checked only: the liveness properties. Fairness and `ENABLED` are beyond this
prover. `NewestIsAdopted` is shown to fail.

Counters are bounded by `MaxFaults`, `MaxSubmits`, `MaxRequests`, `MaxForeign`,
`MaxCatalog`, `MaxGames`, `MaxToggles` and by the set `Generations`, in the guards
of the actions that count, messages by `MaxValue` and `WireSize`; the proofs hold
for every value of them. What no proof covers was also checked by hand on larger
instances than the runs have, without a violation: the liveness of the data actions
with a queue of two and with five submissions, of the statistics with three games
and with three generations, and of the channel with two messages of a kind.

## 13. Not modelled

`PROJECT.json` lists every part with its reason. In short: what is numeric (image
recognition), what is a pure function (recommendation, session facts, contracts),
what is input and output only (source adapters, transport, the League client,
windows, logging, packaging), and the other programs of the repository but for the
publication of section 6. File contents are abstracted to whether they verify,
processes to whether they live.

## 14. Plan

What would come next, in this order:

1. The Catalog of a unit in `RefreshCoordinator`: an optional source is never
   published with a Catalog it was not fetched for, with the adoption race of
   section 11. The two Catalogs and two refreshes it takes need an abstraction of
   the core sources first, else the state space passes six million states.
2. The accept thread of `ChildPipe` in `RuntimeChannel`: it tests `_closed` and
   then creates the channel (`modules/session/runtime_channel.py:163`).
3. The stage pin in `StatisticsPin`, and `ContextTrust`: a held context does not
   outlive its publisher or its game.
4. `SelectionTracking` with the recognition worker: a result is applied only to
   the slot generation it was read from (`infrastructure/vision/ocr_completed.py:233`).
5. `ChampionDownloads`: one failing fetch and the results of the others.

Proofs to add: the safety half of the liveness arguments, such as that a `deferred`
switch is never lost while its Catalog is pending, that a force survives until its
sources are fetched, or that a message stays on its way until it is known; and the
steps of `OverlayLifecycle` when requests overlap, where only what holds without
turns is proved now.
