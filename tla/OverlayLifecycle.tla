---------------------------- MODULE OverlayLifecycle ----------------------------
(***************************************************************************)
(* The overlay process group of the App: OverlayRuntimeManager starts and  *)
(* stops two child processes, the Tk host and the Vision sidecar, and      *)
(* AppRuntimeOwner runs its calls on threads, watches it and shuts it      *)
(* down.                                                                   *)
(*                                                                         *)
(* run_game_overlay_action never runs two actions with the same "enabled", *)
(* so there is at most one enabling thread, which is therefore alone under *)
(* _operation_lock, and one disabling thread.  Disabling does NOT take     *)
(* _operation_lock: it runs beside a start, as the shutdown thread does.   *)
(* A start sees that it was superseded only where it calls                 *)
(* _ensure_start_current.  Each step below is what one thread does between *)
(* two points at which another thread's step matters to it.                *)
(*                                                                         *)
(* The catalog is fixed: no vision handoff.  A process is a number, used   *)
(* again for a later one when nothing refers to it any more.               *)
(***************************************************************************)
EXTENDS Naturals, FiniteSets

CONSTANTS
  Overlapping,  \* whether the user may ask while an earlier request runs
  MaxRequests,  \* bound on the user's requests
  MaxFaults,    \* bound on crashes, hangs, unkillable processes and failing stops
  MaxUnwritten, \* bound on events that cannot be appended to the log
  Procs,        \* processes
  None          \* no process, no thread

ASSUME OverlayAssumption ==
  /\ Overlapping \in BOOLEAN /\ MaxRequests \in Nat /\ MaxFaults \in Nat
  /\ MaxUnwritten \in Nat
  /\ Procs \subseteq Nat /\ None \notin Nat /\ None \notin {"enable", "disable"}

Roles    == {"host", "vision"}
Stoppers == {"disable", "shutdown"}

VARIABLES
  desired,     \* desired_enabled
  cancelled,   \* the start under way was superseded (_generation, _start_cancel)
  status,      \* status, an error one told apart by its phase
  host,        \* host_process
  sidecar,     \* sidecar_process
  poller,      \* context_poller is not None
  alive,       \* the live child processes
  hung,        \* the sidecar's heartbeat is stale
  stuck,       \* processes that survive terminate and kill
  registered,  \* AppRuntimeOwner._children
  enable,      \* where the enabling thread is
  role, proc, attempt,  \* its locals: what it launches, the process, which try
  stopper,     \* where the disabling and the shutdown thread are
  halted,      \* their locals: the children they have seen stop
  active,      \* _active_overlay_action_id
  leftover,    \* the actions that are "running" in _actions and have no thread
  monitor,     \* where tick() is
  stage,       \* how far AppRuntimeOwner.stop has come
  requests, faults, unwritten,  \* bounds: so many so far
  wanted,      \* history: what the user asked for last
  abandoned    \* history: given up by a launch, and the stop of it failed

manager  == <<desired, cancelled, status, host, sidecar, poller>>
children == <<alive, hung, stuck, registered, abandoned>>
starting == <<enable, role, proc, attempt>>
stopping == <<stopper, halted>>
control  == <<active, leftover, monitor, stage>>
bounds   == <<requests, faults, unwritten, wanted>>
vars == <<manager, children, starting, stopping, control, bounds>>

Init ==
  /\ desired = FALSE /\ cancelled = FALSE /\ status = "stopped"
  /\ host = None /\ sidecar = None /\ poller = FALSE
  /\ alive = {} /\ hung = FALSE /\ stuck = {}
  /\ registered = [r \in Roles |-> None]
  /\ enable = "idle" /\ role = "host" /\ proc = None /\ attempt = 1
  /\ stopper = [t \in Stoppers |-> "idle"] /\ halted = [t \in Stoppers |-> {}]
  /\ active = None /\ leftover = {} /\ monitor = "idle" /\ stage = "open"
  /\ requests = 0 /\ faults = 0 /\ unwritten = 0 /\ wanted = FALSE /\ abandoned = {}

-----------------------------------------------------------------------------
Running(p) == p \in alive

(* _sidecar_is_reusable: the process runs and its heartbeat is fresh. *)
Reusable == Running(sidecar) /\ ~hung

(* stop_process returns False. *)
Survives(p) == p \in alive \cap stuck

(* The live processes once those of S have been stopped. *)
StopAll(S) == alive \ (S \ stuck)

(* What the field holds once its process was stopped: it is kept on failure. *)
Kept(p) == IF Survives(p) THEN p ELSE None

(* _ensure_start_current does not raise. *)
Current == desired /\ ~cancelled

(* _shutdown_requested.is_set() *)
Shutdown == stage \notin {"open", "requested"}

Idle == enable = "idle" /\ stopper["disable"] = "idle" /\ monitor = "idle"

-----------------------------------------------------------------------------
(* Enabling: set_enabled(True) and _start, on a thread of their own.        *)

(* append_event raises OSError. *)
EventIsLost == unwritten < MaxUnwritten /\ unwritten' = unwritten + 1

(* run_game_overlay_action: an action that is "running" absorbs a second one.  The
   action is recorded before its event is written, and its thread starts after: if
   the event cannot be written, the action has no thread that would end it. *)
QueueEnable ==
  IF enable # "idle" \/ "enable" \in leftover
  THEN UNCHANGED <<enable, active, leftover, unwritten>>
  ELSE /\ active' = "enable"
       /\ \/ enable' = "queued" /\ UNCHANGED <<leftover, unwritten>>
          \/ /\ EventIsLost /\ leftover' = leftover \cup {"enable"}
             /\ UNCHANGED enable

QueueDisable ==
  IF stopper["disable"] # "idle" \/ "disable" \in leftover
  THEN UNCHANGED <<stopper, active, leftover, unwritten>>
  ELSE /\ active' = "disable"
       /\ \/ /\ stopper' = [stopper EXCEPT !["disable"] = "cancelling"]
             /\ UNCHANGED <<leftover, unwritten>>
          \/ /\ EventIsLost /\ leftover' = leftover \cup {"disable"}
             /\ UNCHANGED stopper

(* _execute_game_overlay_action records the result, unless the event before that
   cannot be written: the thread is gone, the action stays "running". *)
RecordResult(action) ==
  \/ /\ active' = IF active = action THEN None ELSE active
     /\ UNCHANGED <<leftover, unwritten>>
  \/ /\ EventIsLost /\ leftover' = leftover \cup {action}
     /\ UNCHANGED active

(* The lock section of set_enabled: nothing to do, or the stale sidecar is
   stopped first, or cannot be. *)
Enter ==
  /\ enable = "queued"
  /\ \/ /\ Running(host) /\ Reusable
        /\ poller' \in {poller, TRUE} /\ status' = "running"
        /\ enable' = "returned"
        /\ UNCHANGED <<desired, cancelled, sidecar, alive>>
     \/ /\ ~(Running(host) /\ Reusable) /\ Survives(sidecar)
        /\ status' = "cleanup_failed"
        /\ enable' = "returned"
        /\ UNCHANGED <<desired, cancelled, sidecar, poller, alive>>
     \/ /\ ~(Running(host) /\ Reusable) /\ ~Survives(sidecar)
        /\ sidecar' = IF Running(sidecar) THEN None ELSE sidecar
        /\ alive' = StopAll({sidecar})
        /\ desired' = TRUE /\ cancelled' = FALSE
        /\ enable' = "begun"
        /\ UNCHANGED <<status, poller>>
  /\ UNCHANGED <<host, hung, stuck, registered, abandoned, role, proc,
                 attempt, stopping, control, bounds>>

Begin ==
  /\ enable = "begun"
  /\ status' = "starting" /\ enable' = "prepare"
  /\ UNCHANGED <<desired, cancelled, host, sidecar, poller, children, role, proc,
                 attempt, stopping, control, bounds>>

(* prepare_data, the check, the inactive event: either write may raise. *)
Prepare ==
  /\ enable = "prepare"
  /\ \/ enable' = "rollback"
     \/ Current /\ enable' = "context"
     \/ ~Current /\ enable' = "returned"
  /\ UNCHANGED <<manager, children, role, proc, attempt, stopping, control, bounds>>

(* A poller that does not start leaves the context degraded, no more. *)
StartPoller ==
  /\ enable = "context"
  /\ poller' \in {poller, TRUE}
  /\ enable' = "launch" /\ role' = "host"
  /\ UNCHANGED <<desired, cancelled, status, host, sidecar, children, proc, attempt,
                 stopping, control, bounds>>

(* A launch has raised: a first try of the sidecar is retried if the error is
   retryable, everything else rolls the start back. *)
LaunchFails ==
  enable' \in IF role = "vision" /\ attempt = 1 THEN {"retry", "rollback"}
                                                ELSE {"rollback"}

(* The check before a child is created; a live host is kept. *)
Launch ==
  /\ enable = "launch"
  /\ \/ ~Current /\ enable' = "returned"
     \/ Current /\ role = "host" /\ Running(host) /\ enable' = "prewarm"
     \/ /\ Current /\ ~(role = "host" /\ Running(host))
        /\ \/ ~Shutdown /\ enable' = "spawn"
           \/ LaunchFails
  /\ UNCHANGED <<manager, children, role, proc, attempt, stopping, control, bounds>>

Children == {registered[r] : r \in Roles}

InUse == alive \cup {host, sidecar, proc} \cup Children

Spawn ==
  /\ enable = "spawn"
  /\ \E p \in Procs \ InUse :
       /\ \A q \in Procs \ InUse : p <= q
       /\ proc' = p /\ alive' = alive \cup {p}
  /\ enable' = "register"
  /\ UNCHANGED <<manager, hung, stuck, registered, abandoned, role, attempt, stopping,
                 control, bounds>>

(* _spawn_runtime_child cleans up behind itself; a child that cannot be stopped
   ends the start, and the manager gives it up. *)
Discard ==
  /\ alive' = StopAll({proc}) /\ proc' = None
  /\ abandoned' = IF Survives(proc) THEN abandoned \cup {proc} ELSE abandoned
  /\ IF Survives(proc) THEN enable' = "rollback" ELSE LaunchFails

(* Faulty: a live child of the same role is no obstacle. *)
RegisterOver ==
  /\ enable = "register"
  /\ \/ /\ ~Shutdown
        /\ registered' = [registered EXCEPT ![role] = proc]
        /\ enable' = "await"
        /\ UNCHANGED <<alive, abandoned, proc>>
     \/ /\ Discard
        /\ UNCHANGED registered
  /\ UNCHANGED <<manager, hung, stuck, role, attempt, stopping, control,
                 bounds>>

(* Faulty: a child is registered after the shutdown was requested. *)
RegisterAlways ==
  /\ enable = "register"
  /\ \/ /\ ~Running(registered[role])
        /\ registered' = [registered EXCEPT ![role] = proc]
        /\ enable' = "await"
        /\ UNCHANGED <<alive, abandoned, proc>>
     \/ /\ Discard
        /\ UNCHANGED registered
  /\ UNCHANGED <<manager, hung, stuck, role, attempt, stopping, control,
                 bounds>>

(* AppRuntimeOwner.register_child refuses a child once the shutdown is
   requested, and beside a live one; the job object may fail as well. *)
Register ==
  /\ enable = "register"
  /\ \/ /\ ~Shutdown /\ ~Running(registered[role])
        /\ registered' = [registered EXCEPT ![role] = proc]
        /\ enable' = "await"
        /\ UNCHANGED <<alive, abandoned, proc>>
     \/ /\ Discard
        /\ UNCHANGED registered
  /\ UNCHANGED <<manager, hung, stuck, role, attempt, stopping, control,
                 bounds>>

(* wait_ready: the child reports ready, or fails, exits, is too late or
   (a sidecar) is cancelled.  A host that is ready is assigned whatever has
   happened meanwhile; a sidecar only after another check. *)
AwaitReady ==
  /\ enable = "await"
  /\ \/ /\ Running(proc) /\ role = "host"
        /\ host' = proc /\ proc' = None
        /\ enable' = "prewarm"
        /\ UNCHANGED <<alive, abandoned>>
     \/ /\ Running(proc) /\ role = "vision" /\ Current
        /\ enable' = "assign"
        /\ UNCHANGED <<host, alive, abandoned, proc>>
     \/ /\ role = "vision" /\ ~Current /\ ~Survives(proc)
        /\ alive' = StopAll({proc}) /\ proc' = None
        /\ enable' = "returned"
        /\ UNCHANGED <<host, abandoned>>
     \/ /\ Discard
        /\ UNCHANGED host
  /\ UNCHANGED <<desired, cancelled, status, sidecar, poller, hung, stuck, registered,
                 role, attempt, stopping, control, bounds>>

(* The host still runs and the templates are warm, or the wait for them fails,
   is superseded or reaches the hard deadline. *)
Prewarm ==
  /\ enable = "prewarm"
  /\ \/ enable' = "rollback" /\ UNCHANGED <<role, attempt>>
     \/ Running(host) /\ ~Current /\ enable' = "returned" /\ UNCHANGED <<role, attempt>>
     \/ /\ Running(host) /\ Current
        /\ enable' = "launch" /\ role' = "vision" /\ attempt' = 1
  /\ UNCHANGED <<manager, children, proc, stopping, control, bounds>>

(* The wait before the second try of the sidecar, which a cancel cuts short. *)
Retry ==
  /\ enable = "retry"
  /\ \/ Current /\ enable' = "launch" /\ attempt' = attempt + 1
     \/ ~Current /\ enable' = "returned" /\ UNCHANGED attempt
  /\ UNCHANGED <<manager, children, role, proc, stopping, control, bounds>>

AssignSidecar ==
  /\ enable = "assign"
  /\ sidecar' = proc /\ proc' = None /\ hung' = FALSE
  /\ enable' = "check"
  /\ UNCHANGED <<desired, cancelled, status, host, poller, alive, stuck, registered,
                 abandoned, role, attempt, stopping, control, bounds>>

Check ==
  /\ enable = "check"
  /\ \/ ~Running(sidecar) /\ enable' = "rollback"
     \/ Running(sidecar) /\ ~Current /\ enable' = "returned"
     \/ Running(sidecar) /\ Current /\ enable' = "finish"
  /\ UNCHANGED <<manager, children, role, proc, attempt, stopping, control, bounds>>

Finish ==
  /\ enable = "finish"
  /\ status' = "running" /\ enable' = "returned"
  /\ UNCHANGED <<desired, cancelled, host, sidecar, poller, children, role, proc,
                 attempt, stopping, control, bounds>>

(* Faulty: the handles are dropped whether or not the processes died. *)
RollBackForgets ==
  /\ enable = "rollback"
  /\ poller' = FALSE
  /\ alive' = StopAll({host, sidecar})
  /\ host' = None /\ sidecar' = None
  /\ status' = "failed" /\ enable' = "returned"
  /\ UNCHANGED <<desired, cancelled, hung, stuck, registered, abandoned, role,
                 proc, attempt, stopping, control, bounds>>

(* _rollback_failed_start *)
RollBack ==
  /\ enable = "rollback"
  /\ poller' = FALSE
  /\ alive' = StopAll({host, sidecar})
  /\ host' = Kept(host) /\ sidecar' = Kept(sidecar)
  /\ status' = "failed" /\ enable' = "returned"
  /\ UNCHANGED <<desired, cancelled, hung, stuck, registered, abandoned, role,
                 proc, attempt, stopping, control, bounds>>

RecordEnable ==
  /\ enable = "returned" /\ enable' = "idle"
  /\ RecordResult("enable")
  /\ role' = "host" /\ attempt' = 1
  /\ UNCHANGED <<manager, children, proc, stopping, monitor, stage, requests, faults,
                 wanted>>

Enabling ==
  \/ Enter \/ Begin \/ Prepare \/ StartPoller \/ Launch \/ Spawn \/ Register
  \/ AwaitReady \/ Prewarm \/ Retry \/ AssignSidecar \/ Check \/ Finish \/ RollBack
  \/ RecordEnable

-----------------------------------------------------------------------------
(* Disabling: cancel_start and _stop, on the thread of the action or of the
   shutdown.                                                                *)

At(t, here) == stopper[t] = here

Ended == {"returned", "raised"}

GoTo(t, there) == stopper' = [stopper EXCEPT ![t] = there]

CancelStart(t) ==
  /\ At(t, "cancelling") /\ GoTo(t, "marking")
  /\ desired' = FALSE /\ cancelled' = TRUE
  /\ status' = IF status = "starting" THEN "stopping" ELSE status
  /\ UNCHANGED <<host, sidecar, poller, children, starting, halted, control, bounds>>

(* Faulty: the context poller is left running. *)
MarkKeepsPoller(t) ==
  /\ At(t, "marking") /\ GoTo(t, "stop_sidecar")
  /\ desired' = FALSE /\ status' = "stopping"
  /\ UNCHANGED <<cancelled, host, sidecar, poller, children, starting, halted, control,
                 bounds>>

MarkStopping(t) ==
  /\ At(t, "marking") /\ GoTo(t, "stop_sidecar")
  /\ desired' = FALSE /\ status' = "stopping"
  /\ poller' = FALSE
  /\ UNCHANGED <<cancelled, host, sidecar, children, starting, halted, control, bounds>>

StopSidecar(t) ==
  /\ At(t, "stop_sidecar") /\ GoTo(t, "stop_host")
  /\ alive' = StopAll({sidecar})
  /\ halted' = [halted EXCEPT ![t] = IF Survives(sidecar) THEN {} ELSE {"vision"}]
  /\ UNCHANGED <<manager, hung, stuck, registered, abandoned, starting,
                 control, bounds>>

StopHost(t) ==
  /\ At(t, "stop_host") /\ GoTo(t, "settling")
  /\ alive' = StopAll({host})
  /\ halted' = [halted EXCEPT ![t] = IF Survives(host) THEN @ ELSE @ \cup {"host"}]
  /\ UNCHANGED <<manager, hung, stuck, registered, abandoned, starting,
                 control, bounds>>

(* Faulty: the status does not ask whether both children stopped. *)
SettleTrusting(t) ==
  /\ At(t, "settling") /\ GoTo(t, "returned")
  /\ sidecar' = IF "vision" \in halted[t] THEN None ELSE sidecar
  /\ host' = IF "host" \in halted[t] THEN None ELSE host
  /\ status' = "stopped"
  /\ UNCHANGED <<desired, cancelled, poller, children, starting, halted, control, bounds>>

(* The fields are cleared for the children seen to stop, whatever the fields
   hold by now.  The stop of the poller, the inactive event or the empty context may
   have failed as well, which ends in the same error. *)
SettleStop(t) ==
  /\ At(t, "settling")
  /\ sidecar' = IF "vision" \in halted[t] THEN None ELSE sidecar
  /\ host' = IF "host" \in halted[t] THEN None ELSE host
  /\ \/ /\ halted[t] = Roles /\ status' = "stopped" /\ GoTo(t, "returned")
        /\ UNCHANGED faults
     \/ /\ status' = "stop_failed" /\ GoTo(t, "raised")
        /\ \/ halted[t] # Roles /\ UNCHANGED faults
           \/ halted[t] = Roles /\ faults < MaxFaults /\ faults' = faults + 1
  /\ UNCHANGED <<desired, cancelled, poller, children, starting, halted, control, requests,
                 unwritten, wanted>>

Stopping(t) ==
  \/ CancelStart(t) \/ MarkStopping(t) \/ StopSidecar(t) \/ StopHost(t) \/ SettleStop(t)

RecordDisable ==
  /\ stopper["disable"] \in Ended /\ GoTo("disable", "idle")
  /\ RecordResult("disable")
  /\ halted' = [halted EXCEPT !["disable"] = {}]
  /\ UNCHANGED <<manager, children, starting, monitor, stage, requests, faults, wanted>>

-----------------------------------------------------------------------------
(* The user, whose toggle goes back when the request raises.                *)

Request(enabled) ==
  /\ ~Shutdown /\ requests < MaxRequests
  /\ Overlapping \/ Idle
  /\ \/ enabled /\ QueueEnable /\ UNCHANGED stopper
     \/ ~enabled /\ QueueDisable /\ UNCHANGED enable
  /\ IF unwritten' = unwritten THEN requests' = requests + 1 /\ wanted' = enabled
                                ELSE UNCHANGED <<requests, wanted>>
  /\ UNCHANGED <<manager, children, role, proc, attempt, halted, monitor, stage, faults>>

-----------------------------------------------------------------------------
(* The monitor thread: tick(), every half second.                           *)

(* The status that snapshot() finds and leaves. *)
Observed ==
  IF status # "running" THEN status
  ELSE IF ~Running(host) THEN "host_exited"
  ELSE IF sidecar # None /\ ~Reusable THEN "stale"
  ELSE "running"

Tick ==
  /\ monitor = "idle" /\ ~Shutdown
  /\ status' = Observed
  /\ monitor' = IF desired /\ Observed = "stale" /\ active = None
                THEN "prepare" ELSE "idle"
  /\ UNCHANGED <<desired, cancelled, host, sidecar, poller, children, starting,
                 stopping, active, leftover, stage, bounds>>

(* Faulty: a sidecar that has recovered meanwhile stays stale. *)
PrepareStays ==
  /\ monitor = "prepare"
  /\ \/ /\ desired /\ status = "stale" /\ ~Reusable
        /\ status' = "starting" /\ monitor' = "submit"
     \/ /\ ~(desired /\ status = "stale" /\ ~Reusable)
        /\ monitor' = "idle" /\ UNCHANGED status
  /\ UNCHANGED <<desired, cancelled, host, sidecar, poller, children, starting,
                 stopping, active, leftover, stage, bounds>>

(* prepare_sidecar_restart: all conditions are read again. *)
PrepareRestart ==
  /\ monitor = "prepare"
  /\ \/ /\ ~desired \/ status # "stale"
        /\ monitor' = "idle" /\ UNCHANGED status
     \/ /\ desired /\ status = "stale" /\ Reusable
        /\ status' = "running" /\ monitor' = "idle"
     \/ /\ desired /\ status = "stale" /\ ~Reusable
        /\ status' = "starting" /\ monitor' = "submit"
  /\ UNCHANGED <<desired, cancelled, host, sidecar, poller, children, starting,
                 stopping, active, leftover, stage, bounds>>

(* The event of the restart may be lost too: tick() raises before it submits. *)
SubmitRestart ==
  /\ monitor = "submit" /\ monitor' = "idle"
  /\ \/ QueueEnable
     \/ EventIsLost /\ UNCHANGED <<enable, active, leftover>>
  /\ UNCHANGED <<manager, children, role, proc, attempt, stopping, stage, requests,
                 faults, wanted>>

Monitoring == Tick \/ PrepareRestart \/ SubmitRestart

-----------------------------------------------------------------------------
(* AppRuntimeOwner.stop.                                                    *)

(* request_shutdown starts the shutdown thread before it sets the event. *)
RequestShutdown ==
  /\ stage = "open" /\ stage' = "requested"
  /\ GoTo("shutdown", "cancelling")
  /\ UNCHANGED <<manager, children, starting, halted, active, leftover, monitor,
                 bounds>>

PublishShutdown ==
  /\ stage = "requested" /\ stage' = "shutdown"
  /\ UNCHANGED <<manager, children, starting, stopping, active, leftover, monitor,
                 bounds>>

(* The thread has ended; whatever child is still registered is stopped too.  A
   failure of either raises, and stop() may be called again. *)
StopChildren ==
  /\ stage = "shutdown" /\ stopper["shutdown"] \in Ended
  /\ alive' = StopAll(Children)
  /\ stage' = IF At("shutdown", "returned") /\ \A p \in Children : ~Survives(p)
              THEN "closed" ELSE "stop_failed"
  /\ UNCHANGED <<manager, hung, stuck, registered, abandoned, starting,
                 stopping, active, leftover, monitor, bounds>>

StopAgain ==
  /\ stage = "stop_failed" /\ stage' = "shutdown"
  /\ GoTo("shutdown", "cancelling")
  /\ UNCHANGED <<manager, children, starting, halted, active, leftover, monitor,
                 bounds>>

Closing == PublishShutdown \/ StopChildren \/ StopAgain

-----------------------------------------------------------------------------
(* What the processes do by themselves.                                     *)

Crash(p) ==
  /\ p \in alive /\ faults < MaxFaults
  /\ faults' = faults + 1
  /\ alive' = alive \ {p} /\ stuck' = stuck \ {p} /\ abandoned' = abandoned \ {p}
  /\ UNCHANGED <<manager, hung, registered, starting, stopping,
                 control, requests, unwritten, wanted>>

(* It will not die when it is told to. *)
Stick(p) ==
  /\ p \in alive \ stuck /\ faults < MaxFaults
  /\ faults' = faults + 1
  /\ stuck' = stuck \cup {p}
  /\ UNCHANGED <<manager, alive, hung, registered, abandoned, starting,
                 stopping, control, requests, unwritten, wanted>>

Hang ==
  /\ Running(sidecar) /\ ~hung /\ faults < MaxFaults
  /\ faults' = faults + 1 /\ hung' = TRUE
  /\ UNCHANGED <<manager, alive, stuck, registered, abandoned, starting,
                 stopping, control, requests, unwritten, wanted>>

Wake ==
  /\ hung /\ hung' = FALSE
  /\ UNCHANGED <<manager, alive, stuck, registered, abandoned, starting,
                 stopping, control, bounds>>

Next ==
  \/ Enabling
  \/ \E t \in Stoppers : Stopping(t)
  \/ RecordDisable
  \/ \E enabled \in BOOLEAN : Request(enabled)
  \/ Monitoring
  \/ RequestShutdown
  \/ Closing
  \/ \E p \in alive : Crash(p) \/ Stick(p)
  \/ Hang
  \/ Wake

(* Every thread runs: every wait in a start has a deadline, stop_process is
   bounded, and the monitor comes back until the event is set.  The user, the
   shutdown, a second stop() and the faults need never come. *)
Fairness ==
  /\ WF_vars(Enabling)
  /\ WF_vars(Stopping("disable") \/ RecordDisable)
  /\ WF_vars(Stopping("shutdown"))
  /\ WF_vars(Monitoring)
  /\ WF_vars(PublishShutdown \/ StopChildren)

Spec == Init /\ [][Next]_vars /\ Fairness

-----------------------------------------------------------------------------
Steps == {"idle", "queued", "begun", "prepare", "context", "launch", "spawn", "register",
          "await", "prewarm", "retry", "assign", "check", "finish", "rollback",
          "returned"}

Errors == {"failed", "host_exited", "stop_failed", "cleanup_failed"}

TypeOK ==
  /\ desired \in BOOLEAN /\ cancelled \in BOOLEAN /\ poller \in BOOLEAN
  /\ status \in {"stopped", "starting", "running", "stopping", "stale"} \cup Errors
  /\ host \in Procs \cup {None} /\ sidecar \in Procs \cup {None}
  /\ alive \subseteq Procs /\ stuck \subseteq alive /\ abandoned \subseteq stuck
  /\ hung \in BOOLEAN
  /\ registered \in [Roles -> Procs \cup {None}]
  /\ enable \in Steps /\ role \in Roles /\ proc \in Procs \cup {None}
  /\ attempt \in {1, 2}
  /\ stopper \in [Stoppers -> {"idle", "cancelling", "marking", "stop_sidecar",
                               "stop_host", "settling"} \cup Ended]
  /\ halted \in [Stoppers -> SUBSET Roles]
  /\ active \in {"enable", "disable", None} /\ leftover \subseteq {"enable", "disable"}
  /\ monitor \in {"idle", "prepare", "submit"}
  /\ stage \in {"open", "requested", "shutdown", "stop_failed", "closed"}
  /\ requests \in Nat /\ faults \in Nat /\ unwritten \in Nat /\ wanted \in BOOLEAN

(* Whatever starts, stops and failures overlap, and although the manager may
   lose its handle, a live child is known to the owner, whose stop() reaches
   it, or is the one being launched right now; only a child that was refused
   and would not die is not. *)
EveryChildIsReachable == alive \subseteq Children \cup {proc} \cup abandoned

(* When stop() has returned no child lives, but for one that a start is about
   to have refused. *)
ClosedMeansGone ==
  stage = "closed" =>
    alive \subseteq (abandoned \ Children) \cup (IF enable = "register" THEN {proc} ELSE {})

(* The launching thread holds a process exactly between its creation and its
   assignment; it is registered in the steps after the registration only. *)
LauncherInv ==
  /\ proc # None <=> enable \in {"register", "await", "assign"}
  /\ enable = "register" => proc \notin Children
  /\ enable \in {"await", "assign"} => registered[role] = proc
  /\ enable = "retry" => attempt = 1

ClosedInv == stage = "closed" => alive \cap Children = {}

(* The inductive invariant. *)
IInv == TypeOK /\ LauncherInv /\ EveryChildIsReachable /\ ClosedInv

Quiet == Idle /\ stage = "open"

(* lifecycle.py: stopping makes sure that both child processes end.  The user
   has turned the display off, nothing is under way, the status is "stopped":
   no child lives. *)
StoppedMeansGone ==
  Quiet /\ ~wanted /\ status = "stopped" => alive \subseteq abandoned

(* When nothing is under way the manager holds a handle of every live child:
   a failed start, a failed stop or a restart never drops one. *)
NothingIsLost == Quiet => alive \subseteq {host, sidecar} \cup abandoned

(* What the user asked for last, or turning it off is answered by an action that
   is "running" for ever. *)
AskedFor == wanted \/ "disable" \in leftover

(* When nothing is under way, the status a reader finds tells what there is: a
   running group is one the user asked for, with a handle of both children, a
   stopped one is not desired, and none is for ever on its way.  The exceptions are
   those an event that could not be written makes: turning the group off is answered
   by an action without a thread, and a restart that was prepared is not submitted,
   which leaves the group as it was, its status "starting". *)
StatusIsTruthful ==
  Quiet =>
    /\ status \in {"running", "stale", "starting"} =>
         AskedFor /\ host # None /\ sidecar # None
    /\ status = "stopped" => ~desired /\ ~poller
    /\ status # "stopping"
    /\ status = "starting" => unwritten > 0

(* The inductive invariant of a user who asks in turn, while the App is open.
   One of the enabling thread, the disabling thread and a restart that the
   monitor decided about is under way, and active names it, or an action left over. *)
TurnInv ==
  /\ At("shutdown", "idle")
  /\ enable # "idle" =>
       At("disable", "idle") /\ monitor = "idle" /\ active = "enable" /\ AskedFor
  /\ ~At("disable", "idle") => monitor = "idle" /\ active = "disable" /\ ~wanted
  /\ enable = "idle" /\ At("disable", "idle") => active \in {None} \cup leftover
  /\ monitor # "idle" => active = None
  /\ leftover # {} => unwritten > 0

Launching == {"launch", "spawn", "register", "await", "retry"}
Assigning == {"assign", "check", "finish"}
Preparing == {"begun", "prepare", "context"}

(* A start is never superseded.  Before a handle is overwritten its process is
   dead: the host's when a host is launched, the sidecar's in the whole start,
   either one's once a stop has seen it end. *)
HandlesInv ==
  /\ alive \subseteq {host, sidecar, proc} \cup abandoned
  /\ enable \in Preparing \cup Launching \cup {"prewarm"} \cup Assigning => Current
  /\ enable \in {"spawn", "register", "await"} /\ role = "host" => ~Running(host)
  /\ enable \in Preparing \cup Launching \cup {"prewarm", "assign"} => ~Running(sidecar)
  /\ enable \in {"retry"} \cup Assigning => role = "vision"
  /\ enable \in Launching \cup Assigning /\ role = "vision" => host # None
  /\ enable = "finish" => sidecar # None
  /\ At("disable", "stop_host") => "host" \notin halted["disable"]
  /\ At("disable", "stop_host") \/ At("disable", "settling") =>
       ("vision" \in halted["disable"] => ~Running(sidecar))
  /\ At("disable", "settling") /\ "host" \in halted["disable"] => ~Running(host)

(* The group was running; it still is when its restart was not submitted. *)
Up == \/ status \in {"running", "stale"}
      \/ status = "starting" /\ enable \in {"idle", "queued"}

(* What each status means, and who will take an intermediate one away. *)
StatusInv ==
  /\ Up /\ enable # "begun" => host # None /\ sidecar # None
  /\ Up => AskedFor \/ At("disable", "cancelling") \/ At("disable", "marking")
  /\ status = "starting" =>
       enable # "returned" /\ (enable = "idle" => monitor = "submit" \/ unwritten > 0)
  /\ monitor = "submit" => status = "starting"
  /\ enable \in (Steps \ {"idle", "queued", "begun", "returned"}) => status = "starting"
  /\ stopper["disable"] \in {"stop_sidecar", "stop_host", "settling"} => status = "stopping"
  /\ status = "stopping" =>
       stopper["disable"] \in {"marking", "stop_sidecar", "stop_host", "settling"}
  /\ stopper["disable"] \in {"stop_sidecar", "stop_host", "settling"} \cup Ended =>
       ~desired /\ ~poller
  /\ status = "stopped" => alive \subseteq abandoned
  /\ status = "stopped" /\ enable # "begun" => ~desired /\ ~poller

TurnIInv == stage = "open" => TurnInv /\ HandlesInv /\ StatusInv

(* A sidecar found stale while it is wanted is restarted, recovers or ends in
   an error: it is never left stale, as long as the events can be written. *)
StaleIsResolved ==
  desired /\ status = "stale" ~>
    ~desired \/ status = "running" \/ status \in Errors \/ Shutdown \/ unwritten > 0

(* Every thread of a request ends, whatever it meets: a start never waits for ever on
   the thread that cancels it, nor a stop on the start.  Its action ends with it, and
   no longer keeps the monitor from restarting the sidecar, but for an action whose
   event could not be written.  And when stop() has returned, the start that may still
   be launching ends, and its child goes. *)
EverythingEnds ==
  /\ enable # "idle" \/ ~At("disable", "idle") \/ active # None ~>
       enable = "idle" /\ At("disable", "idle") /\ active \in {None} \cup leftover
  /\ stage = "closed" ~> Idle /\ alive \subseteq abandoned \ Children
=============================================================================
