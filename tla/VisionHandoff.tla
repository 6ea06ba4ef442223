---------------------------- MODULE VisionHandoff ----------------------------
(***************************************************************************)
(* How the App changes the recognition Catalog its Vision sidecar works    *)
(* from (interfaces/overlay/vision_handoff.py, runtime_manager.py): a      *)
(* monitor thread observes the release store, the templates of a new       *)
(* Catalog are loaded ahead by a thread, and an action replaces the        *)
(* process, outside of a game only, or puts the old one back.              *)
(*                                                                         *)
(* A Catalog is its number; its fingerprint and the data of its templates  *)
(* go with it.  The host, the launch of a child and an action whose events *)
(* cannot be written are OverlayLifecycle's: here the host runs whenever   *)
(* the sidecar may, a launch is one step, and so is _stop.  Every step of  *)
(* the environment that is bounded counts.                                 *)
(***************************************************************************)
EXTENDS Naturals, Sequences, FiniteSets

CONSTANTS
  MaxCatalog,   \* bound: the store publishes the Catalogs 1..MaxCatalog
  MaxGames,     \* bound on the games that start
  MaxFaults,    \* bound on everything that goes wrong
  MaxToggles    \* bound on the user's requests

None == 0

VARIABLES
  head,         \* recognition_catalog of current.v4.json
  blocked,      \* _vision_switch_blocked(): in a game, or the context is unknown
  vision,       \* sidecar_process, and what it recognises with
  host,         \* host_process runs
  desired, cancelled, status,
  cache,        \* the Catalog of cache_stats
  cacheStatus,
  prepared,     \* of _prepared_vision_hint_cache
  warming,      \* of the prewarm threads that run, the oldest first
  active,       \* active_recognition_catalog_id, active_vision_pool_fingerprint
  hint,         \* of _active_vision_hint_cache
  pending,      \* pending_recognition_catalog_id and what goes with it
  state,        \* vision_handoff_state
  inProgress,   \* _vision_handoff_in_progress
  recovery,     \* _vision_recovery_identity
  pointer,      \* _observed_catalog_pointer
  rollback,     \* the fields _rollback_*
  pc,           \* where the enabling action is
  why,          \* why it rolls back
  target,       \* what it starts a sidecar with
  tick,         \* where the monitor is, and what it has read
  stopping,     \* the disabling action has cancelled and is to stop
  wanted,       \* history: what the user asked for last
  played,       \* history: the Catalogs that recognised in the present game
  games, faults, toggles

manager == <<desired, cancelled, status, stopping, host>>
caches  == <<cache, cacheStatus, prepared, warming>>
record  == <<active, hint, pending, state, inProgress, recovery, pointer>>
action  == <<pc, why, target>>
world   == <<head, blocked, games>>
user    == <<wanted, toggles>>
vars == <<manager, caches, record, action, world, user, vision, rollback, tick, played, faults>>

NoProcess == [cat |-> None, is |-> "none"]
NoTick    == [at |-> "idle", ready |-> FALSE, stale |-> FALSE, read |-> None]
Well(p)   == p.is = "well"
Lives(p)  == p.is \in {"well", "hung"}

Init ==
  /\ head = 1 /\ blocked \in BOOLEAN /\ vision = NoProcess /\ host = FALSE
  /\ desired = FALSE /\ cancelled = FALSE /\ status = "stopped"
  /\ cache = None /\ cacheStatus = "queued" /\ prepared = None /\ warming = <<1>>
  /\ active = None /\ hint = None /\ pending = None /\ state = "idle"
  /\ inProgress = FALSE /\ recovery = None /\ pointer = None
  /\ rollback = [active |-> None, cache |-> None, hint |-> None, kept |-> FALSE]
  /\ pc = "idle" /\ why = "error" /\ target = None
  /\ tick = NoTick
  /\ stopping = FALSE /\ wanted = FALSE /\ played = {}
  /\ games = 0 /\ faults = 0 /\ toggles = 0

Current == desired /\ ~cancelled
Fault   == faults < MaxFaults /\ faults' = faults + 1
Become(p) == vision' = p /\ rollback' = [rollback EXCEPT !.kept = FALSE]

------------------------------------------------------------------------------
(* The prewarm threads.  Of two the one begun first ends first.             *)

Building ==
  /\ warming # <<>> /\ <<cache, cacheStatus>> # <<None, "building">>
  /\ cache' = None /\ cacheStatus' = "building"
  /\ UNCHANGED <<prepared, warming, manager, record, action, world, user, vision, rollback,
                 tick, played, faults>>

Warmed ==
  /\ warming # <<>> /\ warming' = Tail(warming)
  /\ cache' = Head(warming) /\ prepared' = cache' /\ cacheStatus' = "ready"
  /\ UNCHANGED <<manager, record, action, world, user, vision, rollback, tick, played, faults>>

WarmingFails ==
  /\ warming # <<>> /\ warming' = Tail(warming) /\ cacheStatus' = "error" /\ Fault
  /\ UNCHANGED <<cache, prepared, manager, record, action, world, user, vision, rollback,
                 tick, played>>

------------------------------------------------------------------------------
(* set_enabled(True), under both locks.                                     *)

Deferred == pending # None /\ blocked
Recovers == status = "restarting"

Return == pc' = "idle" /\ why' = "error" /\ target' = None
GoOn(there) == pc' = there /\ UNCHANGED <<why, target>>

\* A switch waits for the end of the game, and so does everything else; but for
\* a restart, which is in error when no Catalog is known to go on with.
EnterDeferred ==
  /\ pc = "enter" /\ Deferred /\ (Recovers => active = None)
  /\ state' = "deferred" /\ Return
  /\ status' = IF Recovers THEN "error" ELSE status
  /\ UNCHANGED <<active, hint, pending, inProgress, recovery, pointer, desired, cancelled,
                 stopping, host, caches, world, user, vision, rollback, tick, played, faults>>

EnterRunning ==
  /\ pc = "enter" /\ host /\ Well(vision) /\ pending = None
  /\ status' = "running" /\ recovery' = None /\ Return
  /\ UNCHANGED <<active, hint, pending, state, inProgress, pointer, desired, cancelled,
                 stopping, host, caches, world, user, vision, rollback, tick, played, faults>>

\* A restart in a game is pinned to the Catalog that ran, not the pending one.
Pin ==
  IF Deferred
    THEN /\ cache' = active /\ prepared' = hint /\ cacheStatus' = "ready" /\ recovery' = active
         /\ state' = "deferred"
    ELSE UNCHANGED <<cache, prepared, cacheStatus, recovery, state>>

EnterStart ==
  /\ pc = "enter" /\ (Deferred => Recovers /\ active # None)
  /\ ~(host /\ Well(vision) /\ pending = None)
  /\ Pin /\ UNCHANGED <<warming, active, hint, pending, inProgress, pointer>>
  /\ IF Lives(vision) /\ ~inProgress THEN Become(NoProcess) ELSE UNCHANGED <<vision, rollback>>
  /\ desired' = TRUE /\ cancelled' = FALSE /\ status' = "starting" /\ GoOn("prepare")
  /\ UNCHANGED <<stopping, host, world, user, tick, played, faults>>

------------------------------------------------------------------------------
(* _start.                                                                  *)

Ends == Return /\ recovery' = None
Raise == pc' = (IF inProgress THEN "undo" ELSE "fail") /\ why' = "error" /\ UNCHANGED target

\* The data, the inactive event, the host.
Prepare ==
  /\ pc = "prepare"
  /\ \/ /\ Current /\ GoOn(IF recovery = None THEN "join" ELSE "hand")
        /\ host' = TRUE /\ UNCHANGED <<recovery, faults>>
     \/ ~Current /\ Ends /\ host' \in {host, TRUE} /\ UNCHANGED faults
     \/ Fault /\ Raise /\ UNCHANGED <<recovery, host>>
  /\ UNCHANGED <<active, hint, pending, state, inProgress, pointer, desired, cancelled, status,
                 stopping, caches, world, user, vision, rollback, tick, played>>

\* _wait_for_template_prewarm, up to the hard deadline.
Join ==
  /\ pc = "join"
  /\ \/ cacheStatus = "error" /\ Raise /\ UNCHANGED <<recovery, faults>>
     \/ cacheStatus # "error" /\ warming = <<>> /\ GoOn("hand") /\ UNCHANGED <<recovery, faults>>
     \/ warming # <<>> /\ ~Current /\ Ends /\ UNCHANGED faults
     \/ warming # <<>> /\ Current /\ Fault /\ Raise /\ UNCHANGED recovery
  /\ UNCHANGED <<active, hint, pending, state, inProgress, pointer, manager, caches, world,
                 user, vision, rollback, tick, played>>

HandDeferred ==
  /\ pc = "hand" /\ inProgress /\ blocked
  /\ state' = "deferred" /\ inProgress' = FALSE /\ status' = "running" /\ Ends
  /\ UNCHANGED <<active, hint, pending, pointer, desired, cancelled, stopping, host, caches, world,
                 user, vision, rollback, tick, played, faults>>

Hand ==
  /\ pc = "hand"
  /\ \/ ~inProgress /\ GoOn("begin") /\ UNCHANGED <<vision, rollback, faults>>
     \/ inProgress /\ ~blocked /\ Become(NoProcess) /\ GoOn("recheck") /\ UNCHANGED faults
  /\ UNCHANGED <<manager, caches, record, world, user, tick, played>>

\* Stopping the old process takes seconds.
Recheck ==
  /\ pc = "recheck"
  /\ IF blocked THEN pc' = "undo" /\ why' = "game" /\ UNCHANGED target ELSE GoOn("begin")
  /\ UNCHANGED <<manager, caches, record, world, user, vision, rollback, tick, played, faults>>

\* _start_sidecar_with_retry: what is still blocked at the last try raises.
Begin ==
  /\ pc = "begin"
  /\ \/ ~Current /\ Ends
     \/ Current /\ inProgress /\ blocked /\ Raise /\ UNCHANGED recovery
     \/ /\ Current /\ ~(inProgress /\ blocked)
        /\ target' = IF recovery # None THEN recovery ELSE cache
        /\ pc' = "spawn" /\ UNCHANGED <<why, recovery>>
  /\ UNCHANGED <<active, hint, pending, state, inProgress, pointer, manager, caches, world,
                 user, vision, rollback, tick, played, faults>>

\* Without a target a sidecar takes the Catalog of the head.
Spawned == [cat |-> IF target = None THEN head ELSE target, is |-> "well"]
Spawn ==
  /\ pc = "spawn"
  /\ \/ Current /\ Become(Spawned) /\ GoOn("check") /\ UNCHANGED <<recovery, faults>>
     \/ ~Current /\ Ends /\ UNCHANGED <<vision, rollback, faults>>
     \/ Fault /\ Raise /\ UNCHANGED <<vision, rollback, recovery>>
  /\ UNCHANGED <<active, hint, pending, state, inProgress, pointer, manager, caches, world,
                 user, tick, played>>

Check ==
  /\ pc = "check"
  /\ \/ inProgress /\ blocked /\ pc' = "undo" /\ why' = "game" /\ UNCHANGED <<target, recovery>>
     \/ ~(inProgress /\ blocked) /\ ~Lives(vision) /\ Raise /\ UNCHANGED recovery
     \/ ~(inProgress /\ blocked) /\ Lives(vision) /\ ~Current /\ Ends
  /\ UNCHANGED <<active, hint, pending, state, inProgress, pointer, manager, caches, world,
                 user, vision, rollback, tick, played, faults>>

Serves(p) == played' = IF blocked THEN played \cup {p.cat} ELSE played
(* Faulty: a game that started while the new process did is not looked for. *)
FinishUnchecked ==
  /\ pc = "check" /\ Lives(vision) /\ Current
  /\ status' = "running" /\ Ends /\ Serves(vision)
  /\ active' = IF recovery # None THEN recovery ELSE cache
  /\ hint' = IF recovery # None THEN hint ELSE prepared
  /\ IF pending = active'
       THEN pending' = None /\ state' = "idle" /\ inProgress' = FALSE /\ pointer' = None
       ELSE UNCHANGED <<pending, state, inProgress, pointer>>
  /\ UNCHANGED <<desired, cancelled, stopping, host, caches, world, user, vision, rollback, tick, faults>>

Finish ==
  /\ pc = "check" /\ ~(inProgress /\ blocked) /\ Lives(vision) /\ Current
  /\ status' = "running" /\ Ends /\ Serves(vision)
  /\ active' = IF recovery # None THEN recovery ELSE cache
  /\ hint' = IF recovery # None THEN hint ELSE prepared
  /\ IF pending = active'
       THEN pending' = None /\ state' = "idle" /\ inProgress' = FALSE /\ pointer' = None
       ELSE UNCHANGED <<pending, state, inProgress, pointer>>
  /\ UNCHANGED <<desired, cancelled, stopping, host, caches, world, user, vision, rollback, tick, faults>>

------------------------------------------------------------------------------
(* _rollback_vision_handoff, and _rollback_failed_start when it fails.      *)

UndoFails ==
  IF why = "game" THEN Raise ELSE GoOn("fail")

Restored ==
  /\ pointer' = None /\ state' = (IF why = "game" THEN "deferred" ELSE "rolled_back")
  /\ inProgress' = FALSE /\ status' = "running" /\ Serves(vision') /\ Ends

UndoKept ==
  /\ pc = "undo" /\ rollback.hint # None /\ rollback.kept /\ Well(vision)
  /\ cache' = rollback.cache /\ cacheStatus' = "ready"
  /\ prepared' = rollback.hint /\ hint' = rollback.hint
  /\ UNCHANGED vision /\ Restored
  /\ UNCHANGED <<active, pending, warming, desired, cancelled, stopping, host, world, user, rollback,
                 tick, faults>>

Undo ==
  /\ pc = "undo" /\ ~(rollback.kept /\ Well(vision) /\ rollback.hint # None)
  /\ \/ rollback.hint = None /\ UndoFails /\ UNCHANGED <<vision, rollback>>
     \/ rollback.hint # None /\ Become(NoProcess) /\ GoOn("reload")
  /\ UNCHANGED <<manager, caches, record, world, user, tick, played, faults>>

(* Faulty: the process is started with the identity of the failed switch. *)
ReloadKeepsTarget ==
  /\ pc = "reload"
  /\ cache' = rollback.hint /\ cacheStatus' = "ready" /\ prepared' = rollback.hint
  /\ inProgress' = FALSE
  /\ pc' = (IF Current THEN "respawn" ELSE "fail") /\ UNCHANGED <<why, target>>
  /\ UNCHANGED <<warming, active, hint, pending, state, recovery, pointer, manager, world, user,
                 vision, rollback, tick, played, faults>>

\* From the end of the load to the next identity nothing waits: one step.  What a
\* pinned restart was to start is still what is started.
Reload ==
  /\ pc = "reload"
  /\ cache' = rollback.hint /\ cacheStatus' = "ready" /\ prepared' = rollback.hint
  /\ inProgress' = FALSE
  /\ \/ /\ Current /\ pc' = "respawn" /\ UNCHANGED why
        /\ target' = IF recovery # None THEN recovery ELSE cache'
     \/ ~Current /\ pc' = "fail" /\ UNCHANGED <<why, target>>
  /\ UNCHANGED <<warming, active, hint, pending, state, recovery, pointer, manager, world, user,
                 vision, rollback, tick, played, faults>>

Respawn ==
  /\ pc = "respawn" /\ Current /\ Become(Spawned)
  /\ active' = rollback.active /\ hint' = rollback.hint /\ Restored
  /\ UNCHANGED <<pending, caches, desired, cancelled, stopping, host, world, user, tick, faults>>

RestoreFails ==
  /\ \/ pc \in {"reload", "respawn"} /\ Fault
     \/ pc = "respawn" /\ ~Current /\ UNCHANGED faults
  /\ UndoFails
  /\ UNCHANGED <<manager, caches, record, world, user, vision, rollback, tick, played>>

Fail ==
  /\ pc = "fail" /\ status' = "error" /\ host' = FALSE /\ Become(NoProcess) /\ Ends
  /\ UNCHANGED <<active, hint, pending, state, inProgress, pointer, desired, cancelled,
                 stopping, caches, world, user, tick, played, faults>>

------------------------------------------------------------------------------
(* AppRuntimeOwner.tick: the snapshot, observe_data_generation, and what    *)
(* follows from them.                                                       *)

Seen ==
  IF status = "running" /\ ~host THEN "error"
  ELSE IF status = "running" /\ vision # NoProcess /\ ~Well(vision) THEN "stale" ELSE status

\* A tick that finds nothing to act upon ends.
Found(ready, stale) ==
  IF ready \/ stale THEN [at |-> "act", ready |-> ready, stale |-> stale, read |-> None]
                    ELSE NoTick
Stale == desired /\ Seen = "stale"
Looked(ready) ==
  IF pointer = head THEN Found(ready, Stale)
                    ELSE [at |-> "load", ready |-> FALSE, stale |-> Stale, read |-> head]

(* Faulty: what was put off in a game is not taken up again after it. *)
LookOnce ==
  /\ tick.at = "idle" /\ status' = Seen /\ UNCHANGED state
  /\ tick' = Looked(state = "ready")
  /\ UNCHANGED <<active, hint, pending, inProgress, recovery, pointer, desired, cancelled,
                 stopping, host, caches, action, world, user, vision, rollback, played, faults>>

Look ==
  /\ tick.at = "idle" /\ status' = Seen
  /\ state' = IF pointer = head /\ state = "deferred" /\ ~blocked THEN "ready" ELSE state
  /\ tick' = Looked(state' = "ready")
  /\ UNCHANGED <<active, hint, pending, inProgress, recovery, pointer, desired, cancelled,
                 stopping, host, caches, action, world, user, vision, rollback, played, faults>>

Known == IF active # None THEN active ELSE IF cache # None THEN cache ELSE vision.cat
Load ==
  /\ tick.at = "load"
  /\ pointer' = tick.read
  /\ IF Known \in {None, head}
       THEN /\ state' = "idle" /\ pending' = IF inProgress THEN pending ELSE None
       ELSE /\ state' = (IF blocked THEN "deferred" ELSE "ready") /\ pending' = head
  /\ tick' = Found(state' = "ready", tick.stale)
  /\ UNCHANGED <<active, hint, inProgress, recovery, manager, caches, action, world, user,
                 vision, rollback, played, faults>>

ProbeFails ==
  /\ tick.at = "load" /\ Fault
  /\ tick' = Found(FALSE, tick.stale)
  /\ UNCHANGED <<manager, caches, record, action, world, user, vision, rollback, played>>

Acting == pc # "idle" \/ stopping
Switch == tick.ready /\ desired /\ pending # None /\ ~blocked
Submit == pc' = "enter" /\ UNCHANGED <<why, target>>
\* The event between what was prepared and its action may not be written.
Submitted == (Submit /\ UNCHANGED faults) \/ (Fault /\ UNCHANGED action)
Done   == tick' = NoTick

\* Without hints of the active Catalog those of the statistics in place are kept
\* for the undo, if there are any; of which the pending Catalog is not older.
Kept == IF hint # None THEN {hint} ELSE None..pending

\* prepare_vision_handoff, and the thread that loads what is pending.
ActSwitch ==
  /\ tick.at = "act" /\ ~Acting /\ Switch /\ Done /\ Submitted
  /\ state' = "prewarming" /\ inProgress' = TRUE
  /\ \E h \in Kept :
       rollback' = [active |-> active, cache |-> cache, hint |-> h, kept |-> TRUE]
  /\ cacheStatus' = "queued" /\ cache' = None /\ warming' = Append(warming, pending)
  /\ UNCHANGED <<prepared, active, hint, pending, recovery, pointer, manager, world, user,
                 vision, played>>

\* prepare_sidecar_restart
ActRestart ==
  /\ tick.at = "act" /\ ~Acting /\ ~Switch /\ Done
  /\ tick.stale /\ desired /\ status = "stale"
  /\ IF Well(vision) THEN status' = "running" /\ UNCHANGED <<action, faults>>
                     ELSE status' = "restarting" /\ Submitted
  /\ UNCHANGED <<desired, cancelled, stopping, host, caches, record, world, user, vision, rollback,
                 played>>

ActNot ==
  /\ tick.at = "act" /\ Done
  /\ Acting \/ ~(Switch \/ (tick.stale /\ desired /\ status = "stale"))
  /\ UNCHANGED <<manager, caches, record, action, world, user, vision, rollback, played, faults>>

------------------------------------------------------------------------------
(* The user, and disabling.                                                 *)

\* An enable that overlaps an earlier action is OverlayLifecycle's.
Enable ==
  /\ ~wanted /\ ~Acting /\ toggles < MaxToggles
  /\ wanted' = TRUE /\ toggles' = toggles + 1 /\ Submit
  /\ UNCHANGED <<manager, caches, record, world, vision, rollback, tick, played, faults>>

Disable ==
  /\ UNCHANGED host /\ wanted /\ toggles < MaxToggles /\ wanted' = FALSE /\ toggles' = toggles + 1
  /\ desired' = FALSE /\ cancelled' = TRUE /\ stopping' = TRUE
  /\ status' = IF status \in {"starting", "restarting"} THEN "stopping" ELSE status
  /\ UNCHANGED <<caches, record, action, world, vision, rollback, tick, played, faults>>

Stop ==
  /\ stopping /\ stopping' = FALSE /\ desired' = FALSE /\ host' = FALSE
  /\ Become(NoProcess) /\ status' = "stopped"
  /\ UNCHANGED <<cancelled, caches, record, action, world, user, tick, played, faults>>

------------------------------------------------------------------------------
(* The store, the games, the process.                                       *)

Publish ==
  /\ head < MaxCatalog /\ head' = head + 1
  /\ UNCHANGED <<blocked, games, manager, caches, record, action, user, vision, rollback, tick,
                 played, faults>>

\* Of a process that is being checked or replaced the action decides.
Serving == IF Well(vision) /\ pc # "check" /\ (pc = "undo" => rollback.kept)
             THEN {vision.cat} ELSE {}
GameStarts ==
  /\ ~blocked /\ games < MaxGames /\ blocked' = TRUE /\ games' = games + 1
  /\ played' = Serving
  /\ UNCHANGED <<head, manager, caches, record, action, user, vision, rollback, tick, faults>>
GameEnds ==
  /\ blocked /\ blocked' = FALSE /\ played' = {}
  /\ UNCHANGED <<head, games, manager, caches, record, action, user, vision, rollback, tick,
                 faults>>

Ails ==
  /\ Well(vision) /\ Fault /\ \E s \in {"hung", "gone"} : vision' = [vision EXCEPT !.is = s]
  /\ UNCHANGED <<manager, caches, record, action, world, user, rollback, tick, played>>
Wakes ==
  /\ vision.is = "hung" /\ vision' = [vision EXCEPT !.is = "well"]
  /\ UNCHANGED <<manager, caches, record, action, world, user, rollback, tick, played, faults>>

------------------------------------------------------------------------------
Enabling ==
  \/ EnterDeferred \/ EnterRunning \/ EnterStart
  \/ Prepare \/ Join \/ HandDeferred \/ Hand \/ Recheck \/ Begin \/ Spawn \/ Check \/ Finish
  \/ UndoKept \/ Undo \/ Reload \/ Respawn \/ RestoreFails \/ Fail
Prewarming == Warmed \/ WarmingFails
Ticking == Look \/ Load \/ ProbeFails \/ ActSwitch \/ ActRestart \/ ActNot
World == Publish \/ GameStarts \/ GameEnds \/ Ails \/ Wakes
Next == Enabling \/ Building \/ Prewarming \/ Ticking \/ Enable \/ Disable \/ Stop \/ World

\* Threads run; that a call of theirs returns is in the steps.
Fairness == WF_vars(Enabling) /\ WF_vars(Prewarming) /\ WF_vars(Ticking) /\ WF_vars(Stop)
Spec == Init /\ [][Next]_vars /\ Fairness

------------------------------------------------------------------------------
(* What it promises.                                                        *)

\* The record of what is active is whole: it names a Catalog, and the hints kept
\* for an undone switch are of that Catalog.  What the module says of a record
\* that is not is less than the code: _rollback_vision_handoff then leaves the
\* fingerprint of the one beside the Catalog of the other.
OnRecord == active # None /\ hint = active

\* overlay-runtime.md:289: a Catalog is adopted outside of games only.  Whatever
\* is restarted, undone or put off, a switch that has begun does not end with the
\* new Catalog in a game, and a game one Catalog has served gets no newer one;
\* as long as it is on record which Catalog is active.
NothingNewerInGame ==
  [][OnRecord =>
       /\ blocked /\ (inProgress \/ played # {}) => active' <= active
       /\ played # {} => \A c \in played' \ played : \E d \in played : c <= d]_vars

\* A switch that is undone ends with the record of what is active as it was
\* before the switch, and, unless hints of a newer Catalog than that were kept,
\* never with a process of the Catalog that is still to be switched to; nor, when
\* they are of the Catalog on record, with a process of an older one.
Undone == pc \in {"undo", "respawn"} /\ pc' = "idle" /\ status' = "running"
RollbackRestores ==
  [][Undone /\ rollback.active # None =>
       /\ active' = rollback.active
       /\ hint' <= active' => vision'.cat < pending'
       /\ OnRecord' => active' <= vision'.cat]_vars

\* A switch that was put off or undone is tried again: while the display is wanted
\* and no game goes on, what is pending does not stay so.  It does when a switch
\* could be neither made nor undone, which is forgotten as "prewarming", or as
\* "idle" when the monitor has looked while nothing was on record.
PendingIsSettled ==
  <>[](desired /\ ~blocked /\ OnRecord) =>
    <>[]\/ status = "error" \/ pending = None
        \/ pc = "idle" /\ state \in {"prewarming", "idle"}

\* overlay-runtime.md:289: once it is safe the Catalog of the store is adopted.
\* It is not when it was observed while no Catalog was known to be active and the
\* templates of an earlier one were being loaded.
NewestIsAdopted ==
  <>[](desired /\ ~blocked) => <>[](status = "error" \/ vision.cat = head)

------------------------------------------------------------------------------
(* Why: the inductive invariant.                                            *)

Starting == {"prepare", "join", "hand", "recheck", "begin", "spawn", "check"}
Undoing  == inProgress \/ pc = "respawn"

Rollbacks == [active : Nat, cache : Nat, hint : Nat, kept : BOOLEAN]
Processes == [cat : Nat, is : {"none", "well", "hung", "gone"}]
Ticks     == [at : {"idle", "load", "act"}, ready : BOOLEAN, stale : BOOLEAN, read : Nat]
TypeOK ==
  /\ head \in Nat /\ cache \in Nat /\ prepared \in Nat /\ target \in Nat /\ active \in Nat
  /\ hint \in Nat /\ pending \in Nat /\ recovery \in Nat /\ pointer \in Nat
  /\ games \in Nat /\ faults \in Nat /\ toggles \in Nat
  /\ blocked \in BOOLEAN /\ desired \in BOOLEAN /\ cancelled \in BOOLEAN /\ host \in BOOLEAN
  /\ inProgress \in BOOLEAN /\ stopping \in BOOLEAN /\ wanted \in BOOLEAN
  /\ warming \in Seq(Nat) /\ played \subseteq Nat
  /\ rollback \in Rollbacks /\ vision \in Processes /\ tick \in Ticks
  /\ pc \in Starting \cup {"idle", "enter", "undo", "reload", "respawn", "fail"}
  /\ why \in {"error", "game"}
  /\ cacheStatus \in {"queued", "building", "ready", "error"}
  /\ state \in {"idle", "deferred", "ready", "prewarming", "rolled_back"}
  /\ status \in {"stopped", "starting", "running", "stale", "restarting", "stopping", "error"}

\* Nothing the App knows of is newer than what is pending, and what is active, or
\* a rollback would make active again, is older: there is something to switch to.
NotNewer(c) == c <= head /\ (pending # None => c <= pending)
NewestInv ==
  /\ pending <= head
  /\ \A c \in {active, hint, cache, prepared, rollback.active, rollback.cache, rollback.hint} :
       NotNewer(c)
  /\ \A i \in DOMAIN warming : NotNewer(warming[i])
  /\ pending # None => active # pending
  /\ Undoing /\ rollback.active # None => pending # None /\ rollback.active # pending

\* What a switch would put back is still active, or not newer than what is; the
\* templates of the switch are not older than that.
Bounds(c) == rollback.active <= c /\ rollback.hint <= c
SwitchInv ==
  /\ inProgress => pending # None
  /\ pc \in {"undo", "reload", "recheck"} => inProgress
  /\ pc \in {"reload", "respawn"} => rollback.hint # None
  /\ pc = "respawn" => target = IF recovery # None THEN recovery ELSE rollback.hint
  /\ rollback.kept => active = rollback.active /\ hint \in {None, rollback.hint}
  /\ Undoing =>
       \/ active = rollback.active /\ hint \in {None, rollback.hint}
       \/ Bounds(active)
  /\ inProgress /\ warming # <<>> => Bounds(warming[Len(warming)])
  /\ inProgress /\ warming = <<>> /\ cacheStatus # "error" =>
       (cache = active /\ prepared = hint) \/ Bounds(cache)

\* Where a start is: what it will launch is settled once the templates are there,
\* and outside of a switch no sidecar lives meanwhile.
StartInv ==
  /\ recovery # None => recovery = active /\ pc \notin {"idle", "enter"}
  /\ pc \in Starting \ {"prepare", "join"} /\ recovery = None =>
       warming = <<>> /\ cacheStatus # "error"
  /\ pc \in {"spawn", "check"} => target = IF recovery # None THEN recovery ELSE cache
  /\ pc \in Starting \ {"check"} /\ ~inProgress => ~Lives(vision)
  /\ pc \in {"recheck", "reload", "respawn"} => vision = NoProcess
  /\ pc = "check" => ~rollback.kept
  /\ pc = "check" /\ vision # NoProcess /\ target # None => vision.cat = target
  /\ pc \notin {"idle", "enter"} => status \in {"starting", "stopping", "stopped"}

StopInv ==
  /\ desired => ~cancelled
  /\ status = "starting" => Current
  /\ status \in {"stopping", "stopped"} => ~Current /\ (vision # NoProcess => stopping)

\* The process has the Catalog on record, but for one that is being started or
\* is about to be stopped, or that an undone switch has left: such a one is not
\* what is still to be switched to, nor older than the hints it goes with.
ProcessInv ==
  active # None /\ hint <= active /\ vision # NoProcess /\ vision.cat # active =>
    /\ pending # None
    /\ \/ pc \in {"check", "fail"}
       \/ pc = "undo" /\ ~rollback.kept
       \/ pc = "idle" /\ status \in {"stopping", "stopped"}
       \/ vision.cat < pending /\ (hint \in {None, active} => active < vision.cat)

\* With nothing pending a restart finds the templates of the active Catalog.
CacheInv == active # None /\ pending = None => cache = active /\ warming = <<>>

\* A game that is served has seen a Catalog as new as the one on record, or is
\* past being served; so a start in it takes what is on record.
PlayedInv ==
  /\ played # {} => blocked
  /\ played # {} /\ rollback.kept => vision.cat \in played
  /\ OnRecord /\ played # {} =>
       \/ \E c \in played : active <= c
       \/ /\ pending # None
          /\ \/ pc = "fail"
             \/ pc \in {"idle", "enter"} /\ status \notin {"running", "stale", "restarting"}
  /\ OnRecord /\ played # {} /\ pc \in Starting /\ ~inProgress /\ recovery = None =>
       cache = active /\ warming = <<>>

IInv == TypeOK /\ NewestInv /\ SwitchInv /\ StartInv /\ StopInv /\ ProcessInv /\ CacheInv
          /\ PlayedInv
=============================================================================
