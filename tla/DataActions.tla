------------------------------ MODULE DataActions ------------------------------
(***************************************************************************)
(* The data actions of the App: a bounded queue, one worker thread, and    *)
(* the refreshes asked for while one is queued or running, which are       *)
(* merged into a single pending recheck (DataServiceApplication), together *)
(* with the callers of EmbeddedDataRuntime that wait for a result.         *)
(*                                                                         *)
(* Every method of DataServiceApplication runs under _action_state_lock,   *)
(* so a submission is one step.  The worker takes an item off the queue    *)
(* BEFORE it enters the lock; between the two steps the item is "taken".   *)
(***************************************************************************)
EXTENDS Naturals, Sequences

CONSTANTS
  QueueMax,    \* capacity of the action queue (8 in the code)
  MaxSubmits,  \* bound on the submissions of a behaviour
  NoAction     \* the worker holds no action

VARIABLES
  queue,     \* _actions
  queued,    \* _queued_action_types
  pending,   \* _pending_refresh_recheck, _force and _scope
  taken,     \* action off the queue whose worker has not entered the lock
  active,    \* _active_action
  worker,    \* "looping", "taken", "running", "exited"
  stage,     \* how far EmbeddedDataRuntime.stop has come
  setting,   \* DataServiceCore._private_stats_enabled
  results,   \* identities in _completed_actions
  waiting,   \* identities callers of set_private_stats wait for
  submits,   \* bound: submissions so far, which number the actions
  owed,      \* history: accepted refreshes no later run has covered
  wanted     \* history: the private setting last accepted

service == <<queue, queued, pending>>
thread  == <<taken, active, worker>>
callers == <<results, waiting>>
vars == <<service, thread, stage, setting, callers, submits, owed, wanted>>

Scopes    == {"due", "core"}
Requests  == [force : BOOLEAN, scope : Scopes]
Refreshes == [type : {"refresh"}, force : BOOLEAN, scope : Scopes]
Settings  == [type : {"set_private_stats"}, enabled : BOOLEAN, id : Nat]
Actions   == Refreshes \cup Settings

ASSUME ActionsAssumption ==
  /\ QueueMax \in Nat \ {0} /\ MaxSubmits \in Nat
  /\ NoAction \notin Actions

Stages    == {"open", "stopping", "shutdown", "drained"}

NotPending == [recheck |-> FALSE, force |-> FALSE, scope |-> "due"]

(* shutdown_requested.is_set() *)
Shutdown == stage \in {"shutdown", "drained"}

(* A run with carrier's flags does everything request r asked for.  The
   executor always checks what is due; force or scope "core" makes it check the
   core sources whether due or not, and force passes the backoff as well. *)
Covers(carrier, r) ==
  /\ r.force => carrier.force
  /\ r.force /\ r.scope = "due" => carrier.scope = "due"
  /\ r.scope = "core" => carrier.force \/ carrier.scope = "core"

Refresh(r) == [type |-> "refresh", force |-> r.force, scope |-> r.scope]

Init ==
  /\ queue = <<>> /\ queued = {} /\ pending = NotPending
  /\ taken = NoAction /\ active = NoAction /\ worker = "looping"
  /\ stage = "open"
  /\ setting \in BOOLEAN /\ wanted = setting
  /\ results = {} /\ waiting = {}
  /\ submits = 0 /\ owed = {}

-----------------------------------------------------------------------------
(* Submissions: the UI, the schedule thread and the pool probe.             *)

(* Faulty: the later request replaces the earlier. *)
CoalescedLastWins(r) == [recheck |-> TRUE, force |-> r.force, scope |-> r.scope]

(* The pending recheck after request r has been merged into it. *)
Coalesced(r) ==
  [recheck |-> TRUE,
   force   |-> pending.force \/ r.force,
   scope   |-> IF \/ pending.force /\ pending.scope = "due"
                  \/ r.force /\ r.scope = "due" THEN "due"
               ELSE IF r.scope = "core" THEN "core" ELSE pending.scope]

RefreshActive == active # NoAction /\ active.type = "refresh"

SubmitRefresh(r) ==
  /\ ~Shutdown /\ submits < MaxSubmits
  /\ submits' = submits + 1
  /\ \/ /\ RefreshActive \/ "refresh" \in queued
        /\ pending' = Coalesced(r)
        /\ owed' = owed \cup {r}
        /\ UNCHANGED <<queue, queued>>
     \/ /\ ~RefreshActive /\ "refresh" \notin queued
        /\ Len(queue) < QueueMax
        /\ queue' = Append(queue, Refresh(r))
        /\ queued' = queued \cup {"refresh"}
        /\ owed' = owed \cup {r}
        /\ UNCHANGED pending
     \/ /\ ~RefreshActive /\ "refresh" \notin queued   \* reason_code queue_full
        /\ Len(queue) = QueueMax
        /\ UNCHANGED <<service, owed>>
  /\ UNCHANGED <<thread, stage, setting, callers, wanted>>

(* Faulty: a full queue is reported as accepted. *)
SubmitSettingOrDrop(enabled) ==
  /\ ~Shutdown /\ submits < MaxSubmits
  /\ submits' = submits + 1 /\ wanted' = enabled
  /\ IF Len(queue) < QueueMax
     THEN /\ queue' = Append(queue, [type |-> "set_private_stats",
                                     enabled |-> enabled, id |-> submits])
          /\ queued' = queued \cup {"set_private_stats"}
          /\ waiting' = waiting \cup {submits}
     ELSE UNCHANGED <<queue, queued, waiting>>
  /\ UNCHANGED <<pending, thread, stage, setting, results, owed>>

(* A caller queues the setting and waits for its result. *)
SubmitSetting(enabled) ==
  /\ ~Shutdown /\ submits < MaxSubmits
  /\ submits' = submits + 1
  /\ \/ /\ Len(queue) < QueueMax
        /\ queue' = Append(queue, [type |-> "set_private_stats",
                                   enabled |-> enabled, id |-> submits])
        /\ queued' = queued \cup {"set_private_stats"}
        /\ wanted' = enabled
        /\ waiting' = waiting \cup {submits}
     \/ /\ Len(queue) = QueueMax
        /\ UNCHANGED <<queue, queued, wanted, waiting>>
  /\ UNCHANGED <<pending, thread, stage, setting, results, owed>>

(* Faulty: the poll does not look at the stop. *)
CallerReturnsByResult(id) ==
  /\ id \in waiting /\ id \in results
  /\ waiting' = waiting \ {id}
  /\ UNCHANGED <<service, thread, stage, setting, results, submits, owed, wanted>>

(* The caller's poll finds the result, or its runtime is stopping. *)
CallerReturns(id) ==
  /\ id \in waiting
  /\ id \in results \/ stage # "open"
  /\ waiting' = waiting \ {id}
  /\ UNCHANGED <<service, thread, stage, setting, results, submits, owed, wanted>>

(* The timeout some callers set has passed. *)
CallerTimesOut(id) ==
  /\ id \in waiting
  /\ waiting' = waiting \ {id}
  /\ UNCHANGED <<service, thread, stage, setting, results, submits, owed, wanted>>

-----------------------------------------------------------------------------
(* The worker thread.                                                       *)

(* get(timeout=0.2): the worker may already be inside it when the event is set. *)
Take ==
  /\ worker = "looping" /\ queue # <<>>
  /\ taken' = Head(queue) /\ queue' = Tail(queue)
  /\ worker' = "taken"
  /\ UNCHANGED <<queued, pending, active, stage, setting, callers, submits, owed,
                 wanted>>

(* Faulty: the event is not looked at again under the lock. *)
BeginUnchecked ==
  /\ worker = "taken"
  /\ active' = taken /\ worker' = "running"
  /\ queued' = queued \ {taken.type}
  /\ owed' = IF taken.type = "refresh"
             THEN {r \in owed : ~Covers(taken, r)} ELSE owed
  /\ taken' = NoAction
  /\ UNCHANGED <<queue, pending, stage, setting, callers, submits, wanted>>

(* Under the lock: the action becomes active, or the worker returns because
   the shutdown came first. *)
Begin ==
  /\ worker = "taken"
  /\ taken' = NoAction
  /\ \/ /\ ~Shutdown
        /\ active' = taken /\ worker' = "running"
        /\ queued' = queued \ {taken.type}
        /\ owed' = IF taken.type = "refresh"
                   THEN {r \in owed : ~Covers(taken, r)} ELSE owed
     \/ /\ Shutdown
        /\ worker' = "exited"
        /\ UNCHANGED <<active, queued, owed>>
  /\ UNCHANGED <<queue, pending, stage, setting, callers, submits, wanted>>

(* Faulty: a pending recheck that finds the queue full is dropped. *)
QueuePendingOrDrop ==
  /\ pending' = NotPending
  /\ IF ~Shutdown /\ pending.recheck /\ "refresh" \notin queued
        /\ Len(queue) < QueueMax
     THEN /\ queue' = Append(queue, Refresh(pending))
          /\ queued' = queued \cup {"refresh"}
     ELSE UNCHANGED <<queue, queued>>

(* _queue_pending_refresh_locked: dropped on shutdown, left pending while a
   refresh is queued or the queue is full, queued otherwise. *)
QueuePending ==
  \/ /\ Shutdown
     /\ pending' = NotPending
     /\ UNCHANGED <<queue, queued>>
  \/ /\ ~Shutdown
     /\ ~pending.recheck \/ "refresh" \in queued \/ Len(queue) = QueueMax
     /\ UNCHANGED service
  \/ /\ ~Shutdown
     /\ pending.recheck /\ "refresh" \notin queued /\ Len(queue) < QueueMax
     /\ queue' = Append(queue, Refresh(pending))
     /\ queued' = queued \cup {"refresh"}
     /\ pending' = NotPending

(* The action returns or raises; either way it is recorded as completed. *)
Finish ==
  /\ worker = "running"
  /\ active' = NoAction /\ worker' = "looping"
  /\ IF active.type = "set_private_stats"
     THEN setting' = active.enabled /\ results' = results \cup {active.id}
     ELSE UNCHANGED <<setting, results>>
  /\ QueuePending
  /\ UNCHANGED <<taken, stage, waiting, submits, owed, wanted>>

(* The loop's own test of the event, which its get(timeout=0.2) comes back to. *)
WorkerExits ==
  /\ worker = "looping" /\ Shutdown
  /\ worker' = "exited"
  /\ UNCHANGED <<service, taken, active, stage, setting, callers, submits, owed,
                 wanted>>

-----------------------------------------------------------------------------
(* EmbeddedDataRuntime.stop: its own event, then request_shutdown, which sets
   the application's event before it waits for the lock.                     *)

Stop ==
  /\ stage = "open" /\ stage' = "stopping"
  /\ UNCHANGED <<service, thread, setting, callers, submits, owed, wanted>>

RequestShutdown ==
  /\ stage = "stopping" /\ stage' = "shutdown"
  /\ UNCHANGED <<service, thread, setting, callers, submits, owed, wanted>>

Drain ==
  /\ stage = "shutdown" /\ stage' = "drained"
  /\ queue' = <<>> /\ queued' = {} /\ pending' = NotPending
  /\ UNCHANGED <<thread, setting, callers, submits, owed, wanted>>

Worker == Take \/ Begin \/ Finish \/ WorkerExits

Closing == Stop \/ RequestShutdown \/ Drain

Next ==
  \/ \E r \in Requests : SubmitRefresh(r)
  \/ \E enabled \in BOOLEAN : SubmitSetting(enabled)
  \/ \E id \in waiting : CallerReturns(id) \/ CallerTimesOut(id)
  \/ Worker
  \/ Closing

(* The worker thread keeps running and every action ends (each source worker
   has a deadline); a caller polls every 50 ms; stop() runs to its end once it
   has begun.  Nobody need ever submit, give up or stop. *)
Fairness ==
  /\ WF_vars(Worker)
  /\ \A id \in 0..MaxSubmits : WF_vars(CallerReturns(id))
  /\ WF_vars(RequestShutdown) /\ WF_vars(Drain)

Spec == Init /\ [][Next]_vars /\ Fairness

-----------------------------------------------------------------------------
TypeOK ==
  /\ queue \in Seq(Actions) /\ Len(queue) <= QueueMax
  /\ queued \subseteq {"refresh", "set_private_stats"}
  /\ pending \in [recheck : BOOLEAN, force : BOOLEAN, scope : Scopes]
  /\ taken \in Actions \cup {NoAction} /\ active \in Actions \cup {NoAction}
  /\ worker \in {"looping", "taken", "running", "exited"}
  /\ stage \in Stages
  /\ setting \in BOOLEAN /\ wanted \in BOOLEAN
  /\ results \subseteq Nat /\ waiting \subseteq Nat
  /\ submits \in Nat /\ owed \subseteq Requests

IsRefresh(a) == a # NoAction /\ a.type = "refresh"

Carriers == {a \in {queue[i] : i \in 1..Len(queue)} \cup {taken} : IsRefresh(a)}

(* The worker holds an action exactly in the steps that say so. *)
WorkerInv ==
  /\ worker = "taken" <=> taken # NoAction
  /\ worker = "running" <=> active # NoAction
  /\ worker = "exited" => Shutdown

(* queued names a type while an action of it is on the queue or taken. *)
QueuedInv == ~Shutdown => ("refresh" \in queued <=> Carriers # {})

(* At most one refresh is on its way. *)
SingleRefresh ==
  ~Shutdown =>
    /\ \A i, j \in 1..Len(queue) : IsRefresh(queue[i]) /\ IsRefresh(queue[j]) => i = j
    /\ IsRefresh(taken) => \A i \in 1..Len(queue) : ~IsRefresh(queue[i])

(* A refresh that was accepted ("queued" or "coalesced") and that no later run
   has covered is still carried, at full strength, by the queue, by the worker
   or by the pending recheck: neither its force nor its scope is lost in the
   merge, whatever ran or was submitted since. *)
AcceptedRefreshIsCarried ==
  ~Shutdown => \A r \in owed : \/ pending.recheck /\ Covers(pending, r)
                               \/ \E a \in Carriers : Covers(a, r)

(* A pending recheck is only queued when some action ends, so while one is
   pending an action must be on its way: otherwise it would wait for ever. *)
PendingHasATrigger ==
  pending.recheck /\ ~Shutdown =>
    worker \in {"taken", "running"} \/ queue # <<>>

IsSetting(a) == a # NoAction /\ a.type = "set_private_stats"

(* Of the settings accepted, the last one is what the display policy ends up
   with once no setting is queued or running, whatever refreshes ran between. *)
LastSettingWins ==
  LET Outstanding == {queue[i] : i \in 1..Len(queue)} \cup {taken, active}
  IN  ~Shutdown /\ (\A a \in Outstanding : ~IsSetting(a)) => setting = wanted

(* What LastSettingWins says of the whole way: the newest setting on the queue,
   else the one the worker holds, is the one last accepted. *)
SettingInv ==
  LET Newest(i) == /\ IsSetting(queue[i])
                   /\ \A j \in i + 1 .. Len(queue) : ~IsSetting(queue[j])
      NoneQueued == \A i \in 1..Len(queue) : ~IsSetting(queue[i])
  IN  ~Shutdown =>
        /\ \A i \in 1..Len(queue) : Newest(i) => queue[i].enabled = wanted
        /\ NoneQueued /\ IsSetting(taken) => taken.enabled = wanted
        /\ NoneQueued /\ IsSetting(active) => active.enabled = wanted
        /\ NoneQueued /\ ~IsSetting(taken) /\ ~IsSetting(active) => setting = wanted

DrainedInv == stage = "drained" => queue = <<>> /\ queued = {} /\ pending = NotPending

(* The inductive invariant. *)
IInv ==
  /\ TypeOK
  /\ WorkerInv
  /\ QueuedInv
  /\ SingleRefresh
  /\ AcceptedRefreshIsCarried
  /\ PendingHasATrigger
  /\ SettingInv
  /\ DrainedInv

(* Once request_shutdown has returned, no action begins and nothing is queued
   or pending again, although the worker may have held an action meanwhile. *)
NothingBeginsAfterDrain ==
  [][stage = "drained" =>
       /\ active' \in {active, NoAction}
       /\ queue' = <<>> /\ ~pending'.recheck]_vars

(* An accepted refresh is eventually followed by a run that covers it, unless
   the App shuts down. *)
AcceptedRefreshRuns ==
  \A r \in Requests : r \in owed ~> r \notin owed \/ Shutdown

(* A caller that waits for its setting to be applied is released, also when the
   shutdown discards the action it waits for; and once the shutdown is requested
   the worker ends. *)
EverythingEnds ==
  /\ \A id \in 0..MaxSubmits : id \in waiting ~> id \notin waiting
  /\ Shutdown ~> worker = "exited"
=============================================================================
