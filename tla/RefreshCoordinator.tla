------------------------- MODULE RefreshCoordinator -------------------------
(***************************************************************************)
(* IncrementalRefreshService (infrastructure/sources/refresh_service.py):  *)
(* one refresh at a time fetches the recognition Catalog and the core      *)
(* statistics, a thread of its own the two optional sources.  This module  *)
(* has who runs when: the callers that share a refresh, the optional       *)
(* thread and the force flag between them, the isolated worker of each     *)
(* source, the stop, and the retention pass owed for what was published.   *)
(* What is fetched is left out: whether a source is due or in back-off, a  *)
(* worker succeeds and a publication changes anything are free choices.    *)
(*                                                                         *)
(* A step is what a thread does under _lock, or between two such parts.    *)
(***************************************************************************)
EXTENDS Naturals

CONSTANT Callers    \* threads that may call refresh

Optional == {"apex", "mayhem"}    \* fetched in this order
Sources  == {"catalog", "aramkit"} \cup Optional

VARIABLES
  caller,     \* what each caller of refresh is doing
  pc,         \* where the active refresh is; "idle" is not _refresh_active
  forced,     \* its force argument, until it has passed it on
  last,       \* which of _last_refresh_result and _last_refresh_error is set
  opt,        \* the thread of the optional sources, with its local force_check
  closing,    \* an ended optional thread has its retention attempt left
  optForce,   \* _optional_force_requested
  owed,       \* history: optional sources a force was promised to
  worker,     \* the isolated process of each source
  told,       \* sources whose cancel file is there
  retention,  \* "owed" and "failed" are _retention_pending: not tried with
              \* everybody idle since the last commit, or tried and failed
  stop,       \* _stop
  stopped     \* request_stop has returned

refresh == <<caller, pc, forced, last>>
lane    == <<opt, closing, optForce, owed>>
workers == <<worker, told>>
ending  == <<stop, stopped>>
vars    == <<refresh, lane, workers, retention, ending>>

NoThread == [pc |-> "none", source |-> "apex", forced |-> FALSE]

Init ==
  /\ caller = [c \in Callers |-> "idle"] /\ pc = "idle" /\ forced = FALSE /\ last = "none"
  /\ opt = NoThread /\ closing = FALSE /\ optForce = FALSE /\ owed = {}
  /\ worker = [s \in Sources |-> "none"] /\ told = {}
  /\ retention = "done"
  /\ stop = FALSE /\ stopped = FALSE

Active == pc # "idle"
Alive  == opt.pc # "none"

\* The optional thread, this one or the next, has not yet decided about s.
Ahead(s) ==
  \/ opt.pc \in {"none", "begin"}
  \/ opt.pc = "decide" /\ opt.source = s
  \/ opt.source = "apex" /\ s = "mayhem"

------------------------------------------------------------------------------
(* Isolated workers: _run.                                                  *)

\* The cancel file is registered under the lock, the stop is looked at after
\* that, and the process is created after that.
Register(s) == worker[s] = "none" /\ worker' = [worker EXCEPT ![s] = "registered"] /\ UNCHANGED told

(* Faulty: the stop is not looked at. *)
ClearAlways(s) ==
  /\ worker[s] = "registered"
  /\ worker' = [worker EXCEPT ![s] = "cleared"]
  /\ UNCHANGED <<refresh, lane, told, retention, ending>>

Clear(s) ==
  /\ worker[s] = "registered" /\ ~stop
  /\ worker' = [worker EXCEPT ![s] = "cleared"]
  /\ UNCHANGED <<refresh, lane, told, retention, ending>>

Launch(s) ==
  /\ worker[s] = "cleared"
  /\ worker' = [worker EXCEPT ![s] = "running"]
  /\ UNCHANGED <<refresh, lane, told, retention, ending>>

\* The process is gone, its cancel file unregistered and removed.  A run fails
\* by itself, at its time limit or by the stop, even before its process begins.
Ended(s)    == worker' = [worker EXCEPT ![s] = "none"] /\ told' = told \ {s}
Succeeds(s) == worker[s] = "running" /\ ~stop /\ Ended(s)
Fails(s)    == (worker[s] \in {"cleared", "running"} \/ (worker[s] = "registered" /\ stop)) /\ Ended(s)

------------------------------------------------------------------------------
(* Publications and the retention pass owed for them.                       *)

\* _publish, which the stop refuses: a new generation, or nothing.
Publish == IF stop THEN UNCHANGED retention ELSE retention' \in {retention, "owed"}

\* try_postcommit_retention at the end of a refresh and of an optional thread.
\* _run calls it too, always in vain: its caller is still at work.
WorkersIdle == ~Active /\ ~Alive /\ \A s \in Sources : worker[s] = "none"
TryRetention ==
  IF retention = "done" \/ ~WorkersIdle THEN UNCHANGED retention
  ELSE retention' \in {"done", "failed"}

------------------------------------------------------------------------------
(* The refresh.                                                             *)

\* The flag is set; what it promises is what has not been decided about.
Promise ==
  /\ optForce' = TRUE
  /\ owed' = owed \cup {s \in Optional : Ahead(s)}
  /\ UNCHANGED <<opt, closing>>

\* No refresh is called after request_stop: the data actions are drained before
\* (data_service_runtime.py:190).
Enter(c) ==
  /\ pc' = "start" /\ last' = "none"
  /\ caller' = [caller EXCEPT ![c] = "refreshing"]

Call(c, f) ==
  /\ ~stop /\ caller[c] = "idle"
  /\ \/ ~Active /\ Enter(c) /\ forced' = f /\ UNCHANGED lane
     \/ /\ Active /\ UNCHANGED <<pc, forced, last>>
        /\ caller' = [caller EXCEPT ![c] = "waiting"]
        /\ IF f THEN Promise ELSE UNCHANGED lane
  /\ UNCHANGED <<workers, retention, ending>>

\* A waiter returns what the refresh left, or refreshes itself if it left nothing.
WaiterReturns(c) ==
  /\ caller[c] = "waiting" /\ (~Active \/ stop)
  /\ \/ /\ Active \/ last # "none"
        /\ caller' = [caller EXCEPT ![c] = "idle"] /\ UNCHANGED <<pc, forced, last>>
     \/ /\ ~Active /\ last = "none" /\ Enter(c) /\ UNCHANGED forced
  /\ UNCHANGED <<lane, workers, retention, ending>>

GoTo(p) == pc' = p /\ UNCHANGED <<caller, forced, last>>

Start ==
  /\ pc = "start" /\ GoTo(IF stop THEN "finish" ELSE "catalog")
  /\ UNCHANGED <<lane, workers, retention, ending>>

\* Not due, or in back-off; a force passes both.
SkipCatalog ==
  /\ pc = "catalog" /\ worker["catalog"] = "none" /\ ~forced /\ GoTo("optional")
  /\ UNCHANGED <<lane, workers, retention, ending>>

RunCatalog ==
  /\ pc = "catalog" /\ Register("catalog")
  /\ UNCHANGED <<refresh, lane, retention, ending>>

\* It arrives, is deferred because of a game, or fails.
(* Faulty: a failing Catalog worker is not caught. *)
CatalogArrives ==
  /\ pc = "catalog" /\ Succeeds("catalog") /\ GoTo("optional")
  /\ UNCHANGED <<lane, retention, ending>>
CatalogEnds ==
  /\ pc = "catalog" /\ (Succeeds("catalog") \/ Fails("catalog")) /\ GoTo("optional")
  /\ UNCHANGED <<lane, retention, ending>>

NoCatalog ==
  /\ pc = "optional" /\ GoTo("finish")
  /\ UNCHANGED <<lane, workers, retention, ending>>

ForceOptional ==
  /\ pc = "optional" /\ forced /\ pc' = "started" /\ forced' = FALSE
  /\ Promise
  /\ UNCHANGED <<caller, last, workers, retention, ending>>

StartOptional ==
  /\ pc = "started" \/ (pc = "optional" /\ ~forced)
  /\ GoTo("aramkit")
  /\ opt' = IF stop \/ Alive THEN opt ELSE [opt EXCEPT !.pc = "begin"]
  /\ UNCHANGED <<closing, optForce, owed, workers, retention, ending>>

\* The stop, the back-off, nothing due, an unchanged marker, or a failed probe.
SkipCore ==
  /\ pc = "aramkit" /\ worker["aramkit"] = "none" /\ GoTo("finish")
  /\ UNCHANGED <<lane, workers, retention, ending>>

RunCore ==
  /\ pc = "aramkit" /\ ~stop /\ Register("aramkit")
  /\ UNCHANGED <<refresh, lane, retention, ending>>

\* observe publishes what the worker has ready while it runs.
PublishUnits ==
  /\ pc = "aramkit" /\ worker["aramkit"] = "running" /\ Publish
  /\ UNCHANGED <<refresh, lane, workers, ending>>

CoreEnds ==
  /\ pc = "aramkit" /\ (Succeeds("aramkit") \/ Fails("aramkit")) /\ GoTo("finish")
  /\ UNCHANGED <<lane, retention, ending>>

\* An exception nobody expects, as from a broken Catalog or schedule file.
Raises ==
  /\ pc \in {"start", "catalog", "aramkit"} /\ worker["catalog"] = "none" /\ worker["aramkit"] = "none"
  /\ pc' = "finish" /\ last' = "error" /\ UNCHANGED <<caller, forced>>
  /\ UNCHANGED <<lane, workers, retention, ending>>

\* The finally of refresh, then its retention attempt.
(* Faulty: the result is not kept for those who wait. *)
FinishForgets ==
  /\ pc = "finish" /\ pc' = "idle" /\ forced' = FALSE /\ UNCHANGED last
  /\ caller' = [c \in Callers |-> IF caller[c] = "refreshing" THEN "leaving" ELSE caller[c]]
  /\ UNCHANGED <<lane, workers, retention, ending>>
Finish ==
  /\ pc = "finish" /\ pc' = "idle" /\ forced' = FALSE
  /\ last' = IF last = "error" THEN last ELSE "result"
  /\ caller' = [c \in Callers |-> IF caller[c] = "refreshing" THEN "leaving" ELSE caller[c]]
  /\ UNCHANGED <<lane, workers, retention, ending>>

(* Faulty: no retention attempt at the end of a refresh. *)
LeaveQuietly(c) ==
  /\ caller[c] = "leaving" /\ caller' = [caller EXCEPT ![c] = "idle"]
  /\ UNCHANGED <<pc, forced, last, lane, workers, retention, ending>>
Leave(c) ==
  /\ caller[c] = "leaving" /\ caller' = [caller EXCEPT ![c] = "idle"]
  /\ TryRetention
  /\ UNCHANGED <<pc, forced, last, lane, workers, ending>>

------------------------------------------------------------------------------
(* The thread of the optional sources.                                      *)

\* The next source, or the end.
Beyond(t) == [t EXCEPT !.pc = IF t.source = "apex" THEN "decide" ELSE "end", !.source = "mayhem"]

Begin ==
  /\ opt.pc = "begin" /\ opt' = [NoThread EXCEPT !.pc = "decide"]
  /\ UNCHANGED <<closing, optForce, owed, refresh, workers, retention, ending>>

\* The flag is read and cleared once for each source.
(* Faulty: each source reads the flag for itself, and nothing carries it from one to the next. *)
DecideOnce ==
  /\ opt.pc = "decide" /\ optForce' = FALSE
  /\ owed' = IF optForce THEN owed \ {opt.source} ELSE owed
  /\ \/ ~stop /\ opt' = [opt EXCEPT !.forced = optForce, !.pc = "fetch"]
     \/ (stop \/ ~optForce) /\ opt' = Beyond([opt EXCEPT !.forced = optForce])
  /\ UNCHANGED <<closing, refresh, workers, retention, ending>>
Decide ==
  /\ opt.pc = "decide"
  /\ LET f == opt.forced \/ optForce
         t == [opt EXCEPT !.forced = f] IN
     /\ optForce' = FALSE
     /\ owed' = IF f THEN owed \ {opt.source} ELSE owed
     /\ \/ ~stop /\ opt' = [t EXCEPT !.pc = "fetch"]
        \/ (stop \/ ~f) /\ opt' = Beyond(t)
  /\ UNCHANGED <<closing, refresh, workers, retention, ending>>

RunOptional ==
  /\ opt.pc = "fetch" /\ Register(opt.source) /\ opt' = [opt EXCEPT !.pc = "run"]
  /\ UNCHANGED <<closing, optForce, owed, refresh, retention, ending>>

OptionalFetched ==
  /\ opt.pc = "run"
  /\ \/ Succeeds(opt.source) /\ opt' = [opt EXCEPT !.pc = "publish"]
     \/ Fails(opt.source) /\ opt' = Beyond(opt)
  /\ UNCHANGED <<closing, optForce, owed, refresh, retention, ending>>

\* Published, or rejected, as when its Catalog has been superseded meanwhile.
PublishOptional ==
  /\ opt.pc = "publish" /\ Publish /\ opt' = Beyond(opt)
  /\ UNCHANGED <<closing, optForce, owed, refresh, workers, ending>>

\* An exception nobody expects ends the thread; what it was to force is lost.
OptionalRaises ==
  /\ opt.pc \in {"decide", "fetch", "publish"}
  /\ opt' = [opt EXCEPT !.pc = "end", !.source = "mayhem"] /\ owed' = {}
  /\ UNCHANGED <<closing, optForce, refresh, workers, retention, ending>>

\* The finally of run_optional_refresh, then its retention attempt.
OptionalEnds ==
  /\ opt.pc = "end"
  /\ opt' = NoThread /\ closing' = TRUE /\ optForce' = FALSE
  /\ UNCHANGED <<owed, refresh, workers, retention, ending>>

OptionalCloses ==
  /\ closing /\ closing' = FALSE /\ TryRetention
  /\ UNCHANGED <<opt, optForce, owed, refresh, workers, ending>>

------------------------------------------------------------------------------
(* request_stop: the event, then, under the lock, every cancel file.        *)

RequestStop ==
  /\ ~stop /\ stop' = TRUE
  /\ UNCHANGED <<refresh, lane, workers, retention, stopped>>

TellWorkers ==
  /\ stop /\ ~stopped /\ stopped' = TRUE
  /\ told' = {s \in Sources : worker[s] # "none"}
  /\ UNCHANGED <<refresh, lane, worker, retention, stop>>

------------------------------------------------------------------------------
RefreshStep ==
  \/ Start \/ SkipCatalog \/ RunCatalog \/ Clear("catalog") \/ Launch("catalog") \/ CatalogEnds \/ Raises
  \/ NoCatalog \/ ForceOptional \/ StartOptional
  \/ SkipCore \/ RunCore \/ Clear("aramkit") \/ Launch("aramkit") \/ CoreEnds \/ Finish
OptionalStep ==
  \/ Begin \/ Decide \/ RunOptional \/ Clear(opt.source) \/ Launch(opt.source) \/ OptionalFetched
  \/ PublishOptional \/ OptionalRaises \/ OptionalEnds

Next ==
  \/ \E c \in Callers : WaiterReturns(c) \/ Leave(c) \/ \E f \in BOOLEAN : Call(c, f)
  \/ RefreshStep \/ PublishUnits \/ OptionalStep \/ OptionalCloses
  \/ RequestStop \/ TellWorkers

\* Threads run on; a worker has a time limit and is told to stop.  Nobody has
\* to call or to stop, and a waiter may be overtaken by another caller.
Fairness ==
  /\ WF_vars(RefreshStep) /\ WF_vars(OptionalStep) /\ WF_vars(OptionalCloses)
  /\ WF_vars(TellWorkers)
  /\ \A c \in Callers : WF_vars(WaiterReturns(c)) /\ WF_vars(Leave(c))

Spec == Init /\ [][Next]_vars /\ Fairness

------------------------------------------------------------------------------
(* Properties.                                                              *)

TypeOK ==
  /\ caller \in [Callers -> {"idle", "refreshing", "waiting", "leaving"}]
  /\ pc \in {"idle", "start", "catalog", "optional", "started", "aramkit", "finish"}
  /\ forced \in BOOLEAN /\ last \in {"none", "result", "error"}
  /\ opt \in [pc : {"none", "begin", "decide", "fetch", "run", "publish", "end"},
              source : Optional, forced : BOOLEAN]
  /\ closing \in BOOLEAN /\ optForce \in BOOLEAN /\ owed \subseteq Optional
  /\ worker \in [Sources -> {"none", "registered", "cleared", "running"}] /\ told \subseteq Sources
  /\ retention \in {"done", "owed", "failed"}
  /\ stop \in BOOLEAN /\ stopped \in BOOLEAN

\* A forced refresh forces every optional source not yet decided about when the
\* force came: the flag or the thread has it, and still gets there.
ForcedSourcesAreCarried ==
  \A s \in owed : Ahead(s) /\ (optForce \/ (Alive /\ opt.forced))

\* When request_stop has returned, no process runs or is about to be created
\* that was not told to stop, whichever thread looked at the stop before it.
StopReachesWorkers ==
  stopped => \A s \in Sources : worker[s] \in {"cleared", "running"} => s \in told

\* The retention pass owed for a commit is not forgotten: when everybody is
\* gone, it has been tried with nobody at work.
RetentionIsTried ==
  (\A c \in Callers : caller[c] = "idle") /\ ~Alive /\ ~closing => retention # "owed"

\* A caller that waited for another's refresh is answered by it: it never
\* refreshes a second time, and there is one refresh at a time.
WaitersShareTheRun ==
  /\ ~Active => last # "none" \/ \A c \in Callers : caller[c] # "waiting"
  /\ \A c, d \in Callers : caller[c] = "refreshing" /\ caller[d] = "refreshing" => c = d

\* The active refresh has its caller; each source has one thread that runs it.
OneOwnerEach ==
  /\ Active <=> \E c \in Callers : caller[c] = "refreshing"
  /\ worker["catalog"] # "none" => pc = "catalog"
  /\ worker["aramkit"] # "none" => pc = "aramkit"
  /\ \A s \in Optional : worker[s] # "none" => opt.pc = "run" /\ opt.source = s

\* A pass that is owed has somebody left to try it.
OwedHasATrier ==
  retention = "owed" => \/ \E c \in Callers : caller[c] \in {"refreshing", "leaving"}
                        \/ Alive \/ closing

\* A thread begins with Apex and ends with Mayhem.
ThreadInv ==
  /\ opt.pc \in {"none", "begin"} => opt.source = "apex" /\ ~opt.forced
  /\ opt.pc = "end" => opt.source = "mayhem"

StopInv == (stopped => stop) /\ StopReachesWorkers

\* The inductive invariant.
IInv ==
  /\ TypeOK /\ OneOwnerEach /\ OwedHasATrier /\ ThreadInv
  /\ ForcedSourcesAreCarried /\ StopInv /\ WaitersShareTheRun

\* Every refresh ends and resets _refresh_active, every optional thread ends; and
\* after the stop everybody leaves, waiting callers too, and no process is left.
EverythingEnds ==
  /\ Active ~> ~Active
  /\ Alive ~> ~Alive
  /\ stopped ~> /\ \A c \in Callers : caller[c] = "idle"
                /\ ~Alive /\ \A s \in Sources : worker[s] = "none"
=============================================================================
