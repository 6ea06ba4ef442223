------------------------- MODULE OverlayLifecycleProofs -------------------------
(***************************************************************************)
(* No child process escapes the App: the inductive invariant of            *)
(* OverlayLifecycle, for every number of requests and faults and every     *)
(* overlap of starts, stops, restarts and the shutdown.                    *)
(***************************************************************************)
EXTENDS OverlayLifecycle, TLAPS

(* The registered children, member by member. *)
LEMMA ChildrenAre == Children = {registered["host"], registered["vision"]}
BY DEF Children, Roles

LEMMA InitIInv == Init => IInv
<1> SUFFICES ASSUME Init PROVE IInv OBVIOUS
<1>1. TypeOK
  BY OverlayAssumption DEF Init, TypeOK, Steps, Errors, Roles, Stoppers
<1> QED
  BY <1>1 DEF Init, IInv, LauncherInv, EveryChildIsReachable, ClosedInv

(* Recording an action and losing its event, and what they keep. *)
LEMMA RecordTypes ==
  ASSUME TypeOK, NEW a \in {"enable", "disable"}, RecordResult(a)
  PROVE  /\ active' \in {active, None} /\ unwritten' \in Nat
         /\ leftover' \subseteq {"enable", "disable"}
<1>1. unwritten \in Nat /\ leftover \subseteq {"enable", "disable"}
  BY DEF TypeOK
<1>2. CASE UNCHANGED <<leftover, unwritten>>
  BY <1>1, <1>2 DEF RecordResult, EventIsLost
<1>3. CASE unwritten' = unwritten + 1 /\ leftover' = leftover \cup {a}
  BY <1>1, <1>3 DEF RecordResult, EventIsLost
<1> QED BY <1>2, <1>3 DEF RecordResult, EventIsLost

LEMMA QueueTypes ==
  ASSUME TypeOK, QueueEnable
  PROVE  /\ enable' \in {enable, "queued"} /\ active' \in {active, "enable"}
         /\ unwritten' \in Nat /\ leftover' \subseteq {"enable", "disable"}
<1>1. unwritten \in Nat /\ leftover \subseteq {"enable", "disable"}
  BY DEF TypeOK
<1>2. /\ enable' \in {enable, "queued"} /\ active' \in {active, "enable"}
      /\ unwritten' \in {unwritten, unwritten + 1}
      /\ leftover' \in {leftover, leftover \cup {"enable"}}
  BY DEF QueueEnable, EventIsLost
<1> QED BY <1>1, <1>2

(* Typing, one lemma per kind of step. *)
LEMMA StoppingKeepsType ==
  ASSUME TypeOK, NEW t \in Stoppers, Stopping(t)
  PROVE  TypeOK'
<1> USE DEF TypeOK, At, GoTo, Ended, StopAll, Stoppers, Roles, Errors, vars, manager,
            children, starting, stopping, control, bounds
<1>1. CASE CancelStart(t)
  <2>1. desired' \in BOOLEAN /\ cancelled' \in BOOLEAN BY <1>1, Zenon DEF CancelStart
  <2> QED BY <1>1, <2>1 DEF CancelStart
<1>2. CASE MarkStopping(t)
  <2>1. desired' \in BOOLEAN /\ poller' \in BOOLEAN BY <1>2, Zenon DEF MarkStopping
  <2> QED BY <1>2, <2>1 DEF MarkStopping
<1>3. CASE StopSidecar(t)  BY <1>3 DEF StopSidecar
<1>4. CASE StopHost(t)
  <2>1. halted' \in [Stoppers -> SUBSET Roles] BY <1>4 DEF StopHost
  <2> QED BY <1>4, <2>1 DEF StopHost
<1>5. CASE SettleStop(t)   BY <1>5 DEF SettleStop
<1> QED BY <1>1, <1>2, <1>3, <1>4, <1>5 DEF Stopping

LEMMA EnablingKeepsType ==
  ASSUME TypeOK, LauncherInv, Enabling
  PROVE  TypeOK'
<1> USE DEF TypeOK, StopAll, Steps, Errors, Roles, manager, children, starting, stopping,
            control, bounds
<1>1.  CASE Enter
  <2>1. desired' \in BOOLEAN /\ cancelled' \in BOOLEAN BY <1>1, Zenon DEF Enter
  <2>2. poller' = poller \/ poller' = TRUE             BY <1>1, Zenon DEF Enter
  <2>3. poller' \in BOOLEAN                            BY <2>2, Zenon
  <2>4. /\ status' \in {status, "running", "cleanup_failed"}
        /\ sidecar' \in {sidecar, None}
        /\ alive' \subseteq alive /\ stuck \cap alive \subseteq alive'
        /\ enable' \in {"returned", "begun"}
        /\ UNCHANGED <<host, hung, stuck, registered, abandoned, role, proc, attempt,
                      stopper, halted, active, leftover, monitor, stage, requests, faults,
                      unwritten, wanted>>
    BY <1>1 DEF Enter
  <2> HIDE <1>1
  <2> QED BY <2>1, <2>3, <2>4
<1>2.  CASE Begin         BY <1>2 DEF Begin
<1>3.  CASE Prepare       BY <1>3 DEF Prepare
<1>4.  CASE StartPoller
  <2>1. poller' \in BOOLEAN BY <1>4, Zenon DEF StartPoller
  <2> QED BY <1>4, <2>1 DEF StartPoller
<1>5.  CASE Launch        BY <1>5 DEF Launch, LaunchFails
<1>6.  CASE Spawn         BY <1>6 DEF Spawn
<1>7.  CASE Register
  <2>1. CASE Discard      BY <1>7, <2>1 DEF Register, Discard, Survives, LaunchFails
  <2>2. CASE ~Discard     BY <1>7, <2>2 DEF Register
  <2> QED BY <2>1, <2>2
<1>8.  CASE AwaitReady
  <2>1. CASE Discard      BY <1>8, <2>1 DEF AwaitReady, Discard, Survives, LaunchFails
  <2>2. CASE ~Discard     BY <1>8, <2>2 DEF AwaitReady, Survives
  <2> QED BY <2>1, <2>2
<1>9.  CASE Prewarm       BY <1>9 DEF Prewarm
<1>10. CASE Retry         BY <1>10 DEF Retry, LauncherInv
<1>11. CASE AssignSidecar
  <2>1. hung' \in BOOLEAN BY <1>11, Zenon DEF AssignSidecar
  <2> QED BY <1>11, <2>1 DEF AssignSidecar
<1>12. CASE Check         BY <1>12 DEF Check
<1>13. CASE Finish        BY <1>13 DEF Finish
<1>14. CASE RollBack
  <2>1. poller' \in BOOLEAN BY <1>14, Zenon DEF RollBack
  <2> QED BY <1>14, <2>1 DEF RollBack, Kept
<1>15. CASE RecordEnable
  <2>1. /\ enable' = "idle" /\ role' = "host" /\ attempt' = 1 /\ RecordResult("enable")
        /\ UNCHANGED <<manager, children, proc, stopping, monitor, stage, requests, faults,
                      wanted>>
    BY <1>15 DEF RecordEnable
  <2>2. /\ active' \in {active, None} /\ unwritten' \in Nat
        /\ leftover' \subseteq {"enable", "disable"}
    BY <2>1, RecordTypes
  <2> HIDE <1>15
  <2> QED BY <2>1, <2>2
<1> QED
  BY <1>1, <1>2, <1>3, <1>4, <1>5, <1>6, <1>7, <1>8, <1>9, <1>10, <1>11, <1>12, <1>13,
     <1>14, <1>15 DEF Enabling

LEMMA OthersKeepType ==
  ASSUME TypeOK,
         \/ RecordDisable \/ (\E enabled \in BOOLEAN : Request(enabled)) \/ Monitoring
         \/ RequestShutdown \/ Closing \/ (\E p \in alive : Crash(p) \/ Stick(p))
         \/ Hang \/ Wake \/ UNCHANGED vars
  PROVE  TypeOK'
<1>0. Hang \/ Wake => hung' \in BOOLEAN
  <2>1. Hang \/ Wake => hung' = TRUE \/ hung' = FALSE
    BY Zenon DEF Hang, Wake
  <2> QED BY <2>1, Zenon
<1> USE DEF TypeOK, At, GoTo, Ended, StopAll, Steps, Stoppers, Roles, Errors, vars,
            manager, children, starting, stopping, control, bounds
<1>1. CASE RecordDisable
  <2>1. /\ stopper' = [stopper EXCEPT !["disable"] = "idle"]
        /\ halted' = [halted EXCEPT !["disable"] = {}] /\ RecordResult("disable")
        /\ UNCHANGED <<manager, children, starting, monitor, stage, requests, faults, wanted>>
    BY <1>1 DEF RecordDisable
  <2>2. /\ active' \in {active, None} /\ unwritten' \in Nat
        /\ leftover' \subseteq {"enable", "disable"}
    BY <2>1, RecordTypes
  <2> HIDE <1>1
  <2> QED BY <2>1, <2>2
<1>2. ASSUME NEW enabled \in BOOLEAN, Request(enabled) PROVE TypeOK'
  <2>1. wanted' = enabled \/ wanted' = wanted BY <1>2, Zenon DEF Request
  <2>2. wanted' \in BOOLEAN BY <2>1, Zenon
  <2>3. /\ UNCHANGED <<manager, children, role, proc, attempt, halted, monitor, stage, faults>>
        /\ enable' \in {enable, "queued"}
        /\ stopper' \in {stopper, [stopper EXCEPT !["disable"] = "cancelling"]}
        /\ active' \in {active, "enable", "disable"}
        /\ leftover' \subseteq leftover \cup {"enable", "disable"}
        /\ requests' \in {requests, requests + 1} /\ unwritten' \in {unwritten, unwritten + 1}
    BY <1>2 DEF Request, QueueEnable, QueueDisable, EventIsLost
  <2> HIDE <1>2
  <2>4. QED BY <2>2, <2>3
<1>3. CASE Tick
  BY <1>3 DEF Tick, Observed
<1>4. CASE PrepareRestart
  BY <1>4 DEF PrepareRestart
<1>5. CASE SubmitRestart
  <2>1. /\ monitor' = "idle"
        /\ QueueEnable \/ (EventIsLost /\ UNCHANGED <<enable, active, leftover>>)
        /\ UNCHANGED <<manager, children, role, proc, attempt, stopping, stage, requests,
                      faults, wanted>>
    BY <1>5 DEF SubmitRestart
  <2>2. /\ enable' \in {enable, "queued"} /\ active' \in {active, "enable"}
        /\ unwritten' \in Nat /\ leftover' \subseteq {"enable", "disable"}
    <3>1. CASE QueueEnable BY <3>1, QueueTypes
    <3>2. CASE EventIsLost /\ UNCHANGED <<enable, active, leftover>>
      BY <3>2 DEF EventIsLost
    <3> QED BY <2>1, <3>1, <3>2
  <2> HIDE <1>5
  <2> QED BY <2>1, <2>2
<1>6. CASE RequestShutdown
  BY <1>6 DEF RequestShutdown
<1>7. CASE PublishShutdown
  BY <1>7 DEF PublishShutdown
<1>8. CASE StopChildren
  BY <1>8 DEF StopChildren
<1>9. CASE StopAgain
  BY <1>9 DEF StopAgain
<1>10. ASSUME NEW p \in alive, Crash(p) PROVE TypeOK'
  BY <1>10 DEF Crash
<1>11. ASSUME NEW p \in alive, Stick(p) PROVE TypeOK'
  BY <1>11 DEF Stick
<1>12. CASE Hang \/ Wake
  <2>2. /\ (Hang \/ Wake) /\ faults' \in {faults, faults + 1}
        /\ UNCHANGED <<manager, alive, stuck, registered, abandoned, starting, stopping,
                      control, requests, unwritten, wanted>>
    BY <1>12 DEF Hang, Wake
  <2> HIDE <1>12
  <2> QED BY <1>0, <2>2
<1>13. CASE UNCHANGED vars
  BY <1>13
<1> QED
  BY <1>1, <1>2, <1>3, <1>4, <1>5, <1>6, <1>7, <1>8, <1>9, <1>10, <1>11, <1>12, <1>13
     DEF Monitoring, Closing


(* A step that only ends processes, and neither closes the App nor moves the
   launching thread, keeps them. *)
LEMMA EndingKeepsLaunches ==
  ASSUME IInv, alive' \subseteq alive, abandoned \cap alive' \subseteq abandoned',
         UNCHANGED <<registered, enable, role, proc, attempt>>,
         stage' = "closed" => alive' \cap Children = {}
  PROVE  (LauncherInv /\ EveryChildIsReachable /\ ClosedInv)'
<1>1. Children' = Children
  BY DEF Children
<1> QED
  BY <1>1 DEF IInv, LauncherInv, EveryChildIsReachable, ClosedInv

(* The steps of the launching thread at which it holds no process, before and
   after, keep them. *)
LEMMA MovingKeepsLaunches ==
  ASSUME IInv, alive' \subseteq alive, abandoned' = abandoned,
         UNCHANGED <<registered, stage>>, proc = None, proc' = None,
         enable' \notin {"register", "await", "assign"},
         enable' = "retry" => attempt' = 1
  PROVE  (LauncherInv /\ EveryChildIsReachable /\ ClosedInv)'
<1>1. Children' = Children
  BY DEF Children
<1> QED
  BY <1>1 DEF IInv, LauncherInv, EveryChildIsReachable, ClosedInv

(* Giving a process up: it is gone, or abandoned. *)
LEMMA DiscardKeepsLaunches ==
  ASSUME IInv, enable \in {"register", "await"}, Discard,
         UNCHANGED <<registered, stage, role, attempt>>
  PROVE  (LauncherInv /\ EveryChildIsReachable /\ ClosedInv)'
<1>1. Children' = Children
  BY DEF Children
<1>2. /\ alive' \subseteq alive /\ proc' = None
      /\ enable' \in {"retry", "rollback"} /\ (enable' = "retry" => attempt = 1)
  BY DEF Discard, LaunchFails, StopAll
<1>3. alive' \subseteq Children \cup abandoned'
  BY DEF Discard, IInv, EveryChildIsReachable, StopAll, Survives
<1> QED
  BY <1>1, <1>2, <1>3 DEF IInv, LauncherInv, EveryChildIsReachable, ClosedInv

LEMMA EnablingKeepsLaunches ==
  ASSUME IInv, Enabling
  PROVE  (LauncherInv /\ EveryChildIsReachable /\ ClosedInv)'
<1> USE DEF manager, children, starting, stopping, control, bounds
<1>1. CASE \/ Enter \/ Begin \/ Prepare \/ StartPoller \/ Launch \/ Prewarm \/ Retry
           \/ Check \/ Finish \/ RollBack \/ RecordEnable
  <2>1. enable \notin {"register", "await", "assign"}
    BY <1>1 DEF Enter, Begin, Prepare, StartPoller, Launch, Prewarm, Retry, Check, Finish,
                RollBack, RecordEnable
  <2>2. proc = None
    BY <2>1 DEF IInv, LauncherInv
  <2>3. /\ alive' \subseteq alive /\ abandoned' = abandoned
        /\ UNCHANGED <<registered, stage, proc>>
        /\ enable' \notin {"register", "await", "assign"}
        /\ enable' = "retry" => attempt' = 1
    BY <1>1 DEF Enter, Begin, Prepare, StartPoller, Launch, LaunchFails, Prewarm, Retry,
                Check, Finish, RollBack, RecordEnable, StopAll
  <2> QED BY <2>2, <2>3, MovingKeepsLaunches
<1>2. CASE Spawn
  <2>1. PICK p \in Procs \ InUse : proc' = p /\ alive' = alive \cup {p}
    BY <1>2 DEF Spawn
  <2>2. /\ Children' = Children /\ enable' = "register" /\ p # None
        /\ UNCHANGED <<abandoned, registered, stage>>
    BY <1>2, OverlayAssumption DEF Spawn, Children
  <2>3. p \notin Children
    BY DEF InUse
  <2>4. proc = None
    BY <1>2 DEF Spawn, IInv, LauncherInv
  <2>5. None \notin alive
    BY OverlayAssumption DEF IInv, TypeOK
  <2> QED
    BY <2>1, <2>2, <2>3, <2>4, <2>5 DEF IInv, LauncherInv, EveryChildIsReachable, ClosedInv
<1>3. CASE Register
  <2>1. CASE Discard /\ UNCHANGED registered
    BY <1>3, <2>1, DiscardKeepsLaunches DEF Register
  <2>2. CASE ~(Discard /\ UNCHANGED registered)
    <3>1. /\ ~Shutdown /\ registered[role] \notin alive /\ enable = "register"
          /\ registered' = [registered EXCEPT ![role] = proc]
          /\ enable' = "await"
          /\ UNCHANGED <<alive, abandoned, proc, role, attempt, stage>>
      BY <1>3, <2>2 DEF Register, Running
    <3>2. registered'[role'] = proc'
      BY <3>1 DEF IInv, TypeOK
    <3>3. stage' # "closed"
      BY <3>1 DEF Shutdown
    <3>4. alive \subseteq Children' \cup {proc} \cup abandoned
      BY <3>1, ChildrenAre DEF Children, Roles, IInv, TypeOK, EveryChildIsReachable
    <3> QED
      BY <3>1, <3>2, <3>3, <3>4 DEF IInv, LauncherInv, EveryChildIsReachable, ClosedInv
  <2> QED BY <2>1, <2>2
<1>4. CASE AwaitReady
  <2>1. CASE Discard
    BY <1>4, <2>1, DiscardKeepsLaunches DEF AwaitReady
  <2>2. CASE ~Discard
    <3>1. /\ enable = "await" /\ alive' \subseteq alive /\ abandoned' = abandoned
          /\ UNCHANGED <<registered, role, attempt, stage>>
          /\ \/ enable' = "assign" /\ UNCHANGED proc
             \/ enable' \in {"prewarm", "returned"} /\ proc' = None
      BY <1>4, <2>2 DEF AwaitReady, StopAll
    <3>2. Children' = Children /\ proc \in Children
      BY <3>1 DEF Children, IInv, TypeOK, LauncherInv
    <3> QED
      BY <3>1, <3>2 DEF IInv, LauncherInv, EveryChildIsReachable, ClosedInv
  <2> QED BY <2>1, <2>2
<1>5. CASE AssignSidecar
  <2>1. /\ enable = "assign" /\ enable' = "check" /\ proc' = None
        /\ UNCHANGED <<alive, abandoned, registered, role, attempt, stage>>
    BY <1>5 DEF AssignSidecar
  <2>2. Children' = Children /\ proc \in Children
    BY <2>1 DEF Children, IInv, TypeOK, LauncherInv
  <2> QED
    BY <2>1, <2>2 DEF IInv, LauncherInv, EveryChildIsReachable, ClosedInv
<1> QED
  BY <1>1, <1>2, <1>3, <1>4, <1>5 DEF Enabling

(* A request or a restart sends the launching thread on its way. *)
LEMMA QueueingKeepsLaunches ==
  ASSUME IInv, UNCHANGED <<alive, abandoned, registered, role, proc, attempt, stage>>,
         enable' = enable \/ (enable = "idle" /\ enable' = "queued")
  PROVE  (LauncherInv /\ EveryChildIsReachable /\ ClosedInv)'
<1>1. Children' = Children
  BY DEF Children
<1> QED
  BY <1>1 DEF IInv, LauncherInv, EveryChildIsReachable, ClosedInv

LEMMA NextKeepsIInv == IInv /\ [Next]_vars => IInv'
<1> SUFFICES ASSUME IInv, [Next]_vars PROVE IInv' OBVIOUS
<1> USE DEF manager, children, starting, stopping, control, bounds
<1>1. CASE Enabling
  BY <1>1, EnablingKeepsType, EnablingKeepsLaunches DEF IInv
<1>2. ASSUME NEW t \in Stoppers, Stopping(t) PROVE IInv'
  <2>1. TypeOK' BY <1>2, StoppingKeepsType DEF IInv
  <2>2. alive' \subseteq alive
    BY <1>2 DEF Stopping, CancelStart, MarkStopping, StopSidecar, StopHost, SettleStop,
                StopAll
  <2>3. UNCHANGED <<abandoned, registered, enable, role, proc, attempt, stage>>
    BY <1>2 DEF Stopping, CancelStart, MarkStopping, StopSidecar, StopHost, SettleStop
  <2>4. stage' = "closed" => alive' \cap Children = {}
    BY <2>2, <2>3 DEF IInv, ClosedInv
  <2>5. (LauncherInv /\ EveryChildIsReachable /\ ClosedInv)'
    BY <2>2, <2>3, <2>4, EndingKeepsLaunches
  <2> QED BY <2>1, <2>5 DEF IInv
<1>3. ASSUME NEW enabled \in BOOLEAN, Request(enabled) PROVE IInv'
  <2>1. TypeOK' BY <1>3, OthersKeepType DEF IInv
  <2>2. /\ UNCHANGED <<alive, abandoned, registered, role, proc, attempt, stage>>
        /\ enable' = enable \/ (enable = "idle" /\ enable' = "queued")
    BY <1>3 DEF Request, QueueEnable
  <2>3. (LauncherInv /\ EveryChildIsReachable /\ ClosedInv)'
    BY <2>2, QueueingKeepsLaunches
  <2> QED BY <2>1, <2>3 DEF IInv
<1>4. CASE Monitoring
  <2>1. TypeOK' BY <1>4, OthersKeepType DEF IInv
  <2>2. /\ UNCHANGED <<alive, abandoned, registered, role, proc, attempt, stage>>
        /\ enable' = enable \/ (enable = "idle" /\ enable' = "queued")
    BY <1>4 DEF Monitoring, Tick, PrepareRestart, SubmitRestart, QueueEnable
  <2>3. (LauncherInv /\ EveryChildIsReachable /\ ClosedInv)'
    BY <2>2, QueueingKeepsLaunches
  <2> QED BY <2>1, <2>3 DEF IInv
<1>5. CASE RecordDisable \/ RequestShutdown \/ Closing \/ Hang \/ Wake \/ UNCHANGED vars
  <2>1. TypeOK' BY <1>5, OthersKeepType DEF IInv
  <2>2. alive' \subseteq alive
    BY <1>5 DEF RecordDisable, RequestShutdown, Closing, PublishShutdown, StopChildren,
                StopAgain, StopAll, Hang, Wake, vars
  <2>3. UNCHANGED <<abandoned, registered, enable, role, proc, attempt>>
    BY <1>5 DEF RecordDisable, RequestShutdown, Closing, PublishShutdown, StopChildren,
                StopAgain, Hang, Wake, vars
  <2>4. stage' = "closed" => alive' \cap Children = {}
    <3>1. CASE StopChildren
      BY <3>1 DEF StopChildren, StopAll, Survives
    <3>2. CASE ~StopChildren
      <4>1. stage' = "closed" => stage = "closed"
        BY <1>5, <3>2 DEF RecordDisable, RequestShutdown, Closing, PublishShutdown,
                          StopAgain, Hang, Wake, vars
      <4> QED BY <4>1, <2>2 DEF IInv, ClosedInv
    <3> QED BY <3>1, <3>2
  <2>5. (LauncherInv /\ EveryChildIsReachable /\ ClosedInv)'
    BY <2>2, <2>3, <2>4, EndingKeepsLaunches
  <2> QED BY <2>1, <2>5 DEF IInv
<1>6. ASSUME NEW p \in alive, Crash(p) \/ Stick(p) PROVE IInv'
  <2>1. TypeOK' BY <1>6, OthersKeepType DEF IInv
  <2>2. alive' \subseteq alive /\ abandoned \cap alive' \subseteq abandoned'
    BY <1>6 DEF Crash, Stick
  <2>3. UNCHANGED <<registered, enable, role, proc, attempt, stage>>
    BY <1>6 DEF Crash, Stick
  <2>4. stage' = "closed" => alive' \cap Children = {}
    BY <2>2, <2>3 DEF IInv, ClosedInv
  <2>5. (LauncherInv /\ EveryChildIsReachable /\ ClosedInv)'
    BY <2>2, <2>3, <2>4, EndingKeepsLaunches
  <2> QED BY <2>1, <2>5 DEF IInv
<1> QED
  BY <1>1, <1>2, <1>3, <1>4, <1>5, <1>6 DEF Next

(* The inductive invariant holds in every reachable state, whatever overlaps. *)
THEOREM OverlayInvariant == Spec => []IInv
BY InitIInv, NextKeepsIInv, PTL DEF Spec

(* register_child and the sweep of stop() together: every live child is one the
   owner knows, one being launched, or one refused that would not die. *)
THEOREM NoChildEscapes == Spec => []EveryChildIsReachable
<1>1. IInv => EveryChildIsReachable
  BY DEF IInv
<1> QED BY <1>1, OverlayInvariant, PTL

(* When stop() has returned, no child lives that the App ever accepted. *)
THEOREM ClosingLeavesNothing == Spec => []ClosedMeansGone
<1>1. IInv => ClosedMeansGone
  <2> SUFFICES ASSUME IInv, stage = "closed", NEW p \in alive
               PROVE  p \in (abandoned \ Children)
                            \cup (IF enable = "register" THEN {proc} ELSE {})
    BY DEF ClosedMeansGone
  <2>1. p \notin Children
    BY DEF IInv, ClosedInv
  <2>2. p \in {proc} \cup abandoned
    BY <2>1 DEF IInv, EveryChildIsReachable
  <2>3. CASE p \in abandoned BY <2>1, <2>3
  <2>4. CASE p = proc
    <3>1. proc # None
      BY <2>4, OverlayAssumption DEF IInv, TypeOK
    <3>2. enable \notin {"await", "assign"}
      BY <2>1, <2>4 DEF IInv, LauncherInv, Children, TypeOK
    <3>3. enable = "register"
      BY <3>1, <3>2 DEF IInv, LauncherInv
    <3> QED BY <2>4, <3>3
  <2> QED BY <2>2, <2>3, <2>4
<1> QED BY <1>1, OverlayInvariant, PTL

-----------------------------------------------------------------------------
(* A user who asks in turn, while the App is open.                          *)

(* What holds of every state of such a run. *)
InTurn == TurnInv /\ HandlesInv /\ StatusInv

LEMMA InitTurn == Init => TurnIInv
BY OverlayAssumption
   DEF Init, TurnIInv, TurnInv, HandlesInv, StatusInv, Up, At, Ended, Stoppers, Steps,
       Preparing, Launching, Assigning

(* No process is None. *)
LEMMA NoneIsDead == TypeOK => None \notin alive
BY OverlayAssumption DEF TypeOK

LEMMA EnablingKeepsTurn ==
  ASSUME IInv, InTurn, stage = "open", Enabling PROVE TurnInv'
<1>1. /\ UNCHANGED <<stopper, monitor, wanted>> /\ enable # "idle"
      /\ \/ enable' # "idle" /\ UNCHANGED <<active, leftover, unwritten>>
         \/ enable' = "idle" /\ RecordResult("enable")
  BY DEF InTurn, TurnInv, Enabling, Enter, Begin, Prepare, StartPoller, Launch, LaunchFails,
         Spawn, Register, Discard, AwaitReady, Prewarm, Retry, AssignSidecar, Check, Finish,
         RollBack, RecordEnable, stopping, control, bounds
<1>2. At("disable", "idle") /\ monitor = "idle" /\ active = "enable" /\ AskedFor
  BY <1>1 DEF InTurn, TurnInv
<1>3. CASE enable' # "idle" /\ UNCHANGED <<active, leftover, unwritten>>
  <2>1. AskedFor'
    BY <1>1, <1>2, <1>3, Zenon DEF AskedFor
  <2> QED BY <1>1, <1>2, <1>3, <2>1 DEF InTurn, TurnInv, At
<1>4. CASE enable' = "idle" /\ RecordResult("enable")
  <2>1. /\ active' = None \/ (active' = "enable" /\ "enable" \in leftover')
        /\ leftover' # {} => unwritten' > 0
    BY <1>2, <1>4 DEF RecordResult, EventIsLost, InTurn, TurnInv, IInv, TypeOK
  <2> QED BY <1>1, <1>2, <1>4, <2>1 DEF InTurn, TurnInv, At
<1>5. QED BY <1>1, <1>3, <1>4

LEMMA EnablingKeepsHandles ==
  ASSUME IInv, InTurn, stage = "open", Enabling PROVE HandlesInv'
<1> USE NoneIsDead DEF IInv, TypeOK, InTurn, HandlesInv, Preparing, Launching, Assigning, Running,
        At, Stoppers, manager, children, starting, stopping, control, bounds
<1>0. /\ At("disable", "idle") /\ UNCHANGED stopper
  BY DEF TurnInv, Enabling, Enter, Begin, Prepare, StartPoller, Launch, LaunchFails,
         Spawn, Register, Discard, AwaitReady, Prewarm, Retry, AssignSidecar, Check, Finish,
         RollBack, RecordEnable
<1>1. CASE Enter
  BY <1>0, <1>1 DEF Enter, Survives, StopAll, Current, LauncherInv
<1>2. CASE Begin \/ Prepare \/ StartPoller
  <2>1. /\ enable \in Preparing
        /\ enable' \in {"prepare", "context", "launch", "rollback", "returned"}
        /\ enable' = "launch" => role' = "host"
        /\ UNCHANGED <<desired, cancelled, host, sidecar, alive, abandoned, proc>>
    BY <1>2 DEF Begin, Prepare, StartPoller
  <2>2. Current' <=> Current
    BY <2>1, Zenon DEF Current
  <2>3. QED BY <1>0, <2>1, <2>2
<1>3. CASE Launch
  BY <1>0, <1>3 DEF Launch, LaunchFails, Current, LauncherInv
<1>4. CASE Spawn
  BY <1>0, <1>4 DEF Spawn, InUse, Current, LauncherInv
<1>5. CASE Register
  BY <1>0, <1>5 DEF Register, Discard, LaunchFails, Survives, StopAll, Current, LauncherInv
<1>6. CASE AwaitReady
  BY <1>0, <1>6 DEF AwaitReady, Discard, LaunchFails, Survives, StopAll, Current, LauncherInv
<1>7. CASE Prewarm \/ Retry
  BY <1>0, <1>7 DEF Prewarm, Retry, Current, LauncherInv
<1>8. CASE AssignSidecar
  BY <1>0, <1>8 DEF AssignSidecar, Current, LauncherInv
<1>9. CASE Check \/ Finish
  BY <1>0, <1>9 DEF Check, Finish, Current, LauncherInv
<1>10. CASE RollBack \/ RecordEnable
  BY <1>0, <1>10 DEF RollBack, RecordEnable, Kept, Survives, StopAll, Current, LauncherInv
<1>11. QED
  BY <1>1, <1>2, <1>3, <1>4, <1>5, <1>6, <1>7, <1>8, <1>9, <1>10 DEF Enabling

LEMMA EnablingKeepsStatus ==
  ASSUME IInv, InTurn, stage = "open", Enabling PROVE StatusInv'
<1> USE NoneIsDead DEF IInv, TypeOK, InTurn, StatusInv, Up, Running, Steps, Errors,
        At, Ended, Stoppers, manager, children, starting, stopping, control, bounds
<1>a. /\ At("disable", "idle") /\ monitor = "idle" /\ AskedFor
      /\ UNCHANGED <<stopper, monitor, wanted>> /\ leftover \subseteq leftover'
  BY DEF TurnInv, RecordResult, Enabling, Enter, Begin, Prepare, StartPoller, Launch, LaunchFails,
         Spawn, Register, Discard, AwaitReady, Prewarm, Retry, AssignSidecar, Check, Finish,
         RollBack, RecordEnable
<1>b. AskedFor'
  BY <1>a, Zenon DEF AskedFor
<1>0. /\ At("disable", "idle") /\ monitor = "idle" /\ AskedFor'
      /\ UNCHANGED <<stopper, monitor>>
  BY <1>a, <1>b
<1> HIDE DEF AskedFor
<1>1. CASE Enter
  <2>1. /\ alive' \subseteq alive /\ UNCHANGED <<host, abandoned>>
        /\ \/ enable' = "begun" /\ status' = status
           \/ enable' = "returned" /\ status' = "cleanup_failed"
           \/ /\ enable' = "returned" /\ status' = "running"
              /\ host # None /\ sidecar # None /\ sidecar' = sidecar
    BY <1>1 DEF Enter, StopAll, Reusable
  <2>2. QED BY <1>0, <2>1
<1>2. CASE Begin \/ StartPoller \/ Spawn
  BY <1>0, <1>2 DEF Begin, StartPoller, Spawn
<1>3. CASE Prepare \/ Launch \/ Prewarm \/ Retry \/ Check
  BY <1>0, <1>3 DEF Prepare, Launch, LaunchFails, Prewarm, Retry, Check, HandlesInv, Preparing,
                    Launching, Assigning
<1>4. CASE Register
  BY <1>0, <1>4 DEF Register, Discard, LaunchFails, StopAll
<1>5. CASE AwaitReady
  BY <1>0, <1>5 DEF AwaitReady, Discard, LaunchFails, StopAll, HandlesInv, Preparing,
                    Launching, Assigning
<1>6. CASE AssignSidecar
  BY <1>0, <1>6 DEF AssignSidecar
<1>7. CASE Finish
  BY <1>0, <1>7 DEF Finish, HandlesInv, Preparing, Launching, Assigning
<1>8. CASE RollBack \/ RecordEnable
  BY <1>0, <1>8 DEF RollBack, RecordEnable, StopAll
<1>9. QED
  BY <1>1, <1>2, <1>3, <1>4, <1>5, <1>6, <1>7, <1>8 DEF Enabling

(* The disabling thread is alone with the handles. *)
LEMMA DisablingKeepsInTurn ==
  ASSUME IInv, InTurn, stage = "open", NEW t \in Stoppers, Stopping(t)
  PROVE  InTurn'
<1> USE NoneIsDead DEF IInv, TypeOK, At, GoTo, Ended, Stoppers, Running, manager, children, starting,
        stopping, control, bounds
<1>0. /\ t = "disable" /\ enable = "idle" /\ monitor = "idle" /\ ~wanted
      /\ proc = None /\ active = "disable"
  BY DEF InTurn, TurnInv, LauncherInv, Stopping, CancelStart, MarkStopping, StopSidecar,
         StopHost, SettleStop
<1>1. /\ UNCHANGED <<enable, monitor, wanted, active, leftover, unwritten, proc, role, abandoned>>
      /\ alive' \subseteq alive
      /\ stopper'["disable"] # "idle" /\ stopper'["shutdown"] = stopper["shutdown"]
  BY <1>0 DEF Stopping, CancelStart, MarkStopping, StopSidecar, StopHost, SettleStop, StopAll
<1>2. TurnInv'
  BY <1>0, <1>1 DEF InTurn, TurnInv
<1>a. AskedFor' <=> AskedFor
  BY <1>1, Zenon DEF AskedFor
<1>3. CASE CancelStart(t) \/ MarkStopping(t)
  <2>1. /\ UNCHANGED <<host, sidecar, alive>>
        /\ stopper'["disable"] \in {"marking", "stop_sidecar"}
    BY <1>0, <1>3 DEF CancelStart, MarkStopping
  <2>2. HandlesInv'
    BY <1>0, <1>1, <2>1 DEF InTurn, HandlesInv, Preparing, Launching, Assigning
  <2>3. CASE CancelStart(t)
    <3>1. /\ status' = status \/ (status = "starting" /\ status' = "stopping")
          /\ status' # "starting" /\ poller' = poller /\ desired' = FALSE
          /\ stopper["disable"] = "cancelling" /\ stopper'["disable"] = "marking"
      BY <1>0, <2>3 DEF CancelStart, InTurn, StatusInv, Up
    <3>2. ~ desired'
      BY <3>1, Zenon
    <3>3. QED BY <1>0, <1>1, <1>2, <2>1, <2>2, <3>1, <3>2 DEF InTurn, StatusInv, Up
  <2>4. CASE MarkStopping(t)
    <3>1. /\ status' = "stopping" /\ poller' = FALSE /\ desired' = FALSE
          /\ stopper'["disable"] = "stop_sidecar"
      BY <1>0, <2>4 DEF MarkStopping
    <3>2. ~ desired' /\ ~ poller'
      BY <3>1, Zenon
    <3>3. QED BY <1>0, <1>1, <1>2, <2>1, <2>2, <3>1, <3>2 DEF InTurn, StatusInv, Up, Steps
  <2>5. QED BY <1>3, <2>3, <2>4
<1>4. CASE StopSidecar(t) \/ StopHost(t)
  <2>1. /\ UNCHANGED <<host, sidecar, status, desired, poller>>
        /\ stopper'["disable"] \in {"stop_host", "settling"}
        /\ status = "stopping"
    BY <1>0, <1>4 DEF StopSidecar, StopHost, InTurn, StatusInv, Up
  <2>a. ~ desired /\ ~ poller
    BY <1>0, <1>4 DEF StopSidecar, StopHost, InTurn, StatusInv
  <2>2. alive' \subseteq {host, sidecar, proc} \cup abandoned
    BY <1>1 DEF InTurn, HandlesInv
  <2>3. CASE StopSidecar(t)
    <3>1. /\ stopper'["disable"] = "stop_host"
          /\ "vision" \in halted'["disable"] => sidecar \notin alive'
          /\ "host" \notin halted'["disable"]
      BY <1>0, <2>3 DEF StopSidecar, Survives, StopAll
    <3>2. HandlesInv'
      BY <1>0, <1>1, <2>1, <2>2, <3>1
         DEF InTurn, HandlesInv, Preparing, Launching, Assigning
    <3>3. StatusInv'
      BY <1>0, <1>1, <2>1, <2>a, <3>1 DEF StatusInv, Up, Steps
    <3>4. QED BY <1>2, <3>2, <3>3 DEF InTurn
  <2>4. CASE StopHost(t)
    <3>1. /\ stopper'["disable"] = "settling" /\ stopper["disable"] = "stop_host"
          /\ "host" \in halted'["disable"] => host \notin alive' \/ "host" \in halted["disable"]
          /\ "vision" \in halted'["disable"] => "vision" \in halted["disable"]
      BY <1>0, <2>4 DEF StopHost, Survives, StopAll
    <3>2. "host" \notin halted["disable"]
      BY <3>1 DEF InTurn, HandlesInv
    <3>3. HandlesInv'
      BY <1>0, <1>1, <2>1, <2>2, <3>1, <3>2
         DEF InTurn, HandlesInv, Preparing, Launching, Assigning
    <3>4. StatusInv'
      BY <1>0, <1>1, <2>1, <2>a, <3>1 DEF StatusInv, Up, Steps
    <3>5. QED BY <1>2, <3>3, <3>4 DEF InTurn
  <2>5. QED BY <1>4, <2>3, <2>4
<1>5. CASE SettleStop(t)
  <2>1. /\ stopper'["disable"] \in Ended /\ stopper["disable"] = "settling"
        /\ UNCHANGED <<alive, desired, poller>>
        /\ sidecar' = IF "vision" \in halted["disable"] THEN None ELSE sidecar
        /\ host' = IF "host" \in halted["disable"] THEN None ELSE host
        /\ status' = "stop_failed" \/ (halted["disable"] = Roles /\ status' = "stopped")
    BY <1>0, <1>5 DEF SettleStop
  <2>2. HandlesInv'
    BY <1>0, <1>1, <2>1 DEF InTurn, HandlesInv, Preparing, Launching, Assigning
  <2>3. halted["disable"] = Roles => alive \subseteq abandoned
    BY <1>0, <2>1 DEF InTurn, HandlesInv, Roles
  <2>4. ~ desired /\ ~ poller
    BY <2>1 DEF InTurn, StatusInv, Up
  <2>5. QED BY <1>0, <1>1, <1>2, <2>1, <2>2, <2>3, <2>4 DEF InTurn, StatusInv, Up, Steps
<1>6. QED BY <1>3, <1>4, <1>5 DEF Stopping

(* A user who asks in turn asks when no thread is under way. *)
LEMMA RequestKeepsInTurn ==
  ASSUME IInv, InTurn, stage = "open", ~ Overlapping, NEW enabled \in BOOLEAN,
         Request(enabled)
  PROVE  InTurn'
<1> USE DEF IInv, TypeOK, At, GoTo, Ended, Stoppers, Running, manager, children, starting,
        stopping, control, bounds
<1>1. /\ enable = "idle" /\ stopper["disable"] = "idle" /\ monitor = "idle"
      /\ UNCHANGED <<manager, alive, abandoned, role, proc, halted, monitor>>
      /\ active \in {None} \cup leftover /\ (leftover # {} => unwritten > 0)
  BY DEF Request, Idle, InTurn, TurnInv
<1>2. /\ stopper'["shutdown"] = stopper["shutdown"]
      /\ \/ UNCHANGED <<enable, stopper, active, leftover, unwritten>>
         \/ /\ enable' = enable /\ stopper' = stopper /\ unwritten' = unwritten + 1
            /\ active' \in leftover' /\ leftover \subseteq leftover'
         \/ /\ enabled /\ enable' = "queued" /\ active' = "enable" /\ stopper' = stopper
            /\ UNCHANGED <<leftover, unwritten>>
         \/ /\ ~ enabled /\ enable' = "idle" /\ active' = "disable"
            /\ stopper'["disable"] = "cancelling"
            /\ UNCHANGED <<leftover, unwritten>>
  BY <1>1 DEF Request, QueueEnable, QueueDisable, EventIsLost
<1>3. unwritten' = unwritten => (wanted' <=> enabled)
  BY Zenon DEF Request
<1>4. unwritten' # unwritten => (wanted' <=> wanted)
  BY Zenon DEF Request
<1>5. UNCHANGED <<enable, stopper, active, leftover, unwritten>> /\ ~ enabled =>
        "disable" \in leftover
  BY <1>1 DEF Request, QueueDisable
<1>6. stopper'["disable"] = "idle" /\ AskedFor => AskedFor'
  <2>1. CASE UNCHANGED <<enable, stopper, active, leftover, unwritten>>
    <3>1. wanted' <=> enabled BY <1>3, <2>1, Zenon
    <3>2. ~ enabled => "disable" \in leftover' BY <1>5, <2>1, Zenon
    <3> QED BY <3>1, <3>2, Zenon DEF AskedFor
  <2>2. CASE unwritten' = unwritten + 1 /\ leftover \subseteq leftover'
    <3>1. unwritten' # unwritten BY <2>2
    <3>2. wanted' <=> wanted BY <1>4, <3>1, Zenon
    <3>3. "disable" \in leftover => "disable" \in leftover' BY <2>2, Zenon
    <3> QED BY <3>2, <3>3, Zenon DEF AskedFor
  <2>3. CASE enabled /\ UNCHANGED unwritten
    <3>1. wanted' BY <1>3, <2>3, Zenon
    <3> QED BY <3>1, Zenon DEF AskedFor
  <2> QED BY <1>2, <2>1, <2>2, <2>3
<1>7. stopper'["disable"] # "idle" => ~ wanted'
  <2>1. stopper'["disable"] # "idle" => ~ enabled /\ UNCHANGED unwritten
    BY <1>1, <1>2
  <2> QED BY <1>3, <2>1, Zenon
<1>8. enable' # "idle" => AskedFor'
  <2>1. enable' # "idle" => enabled /\ UNCHANGED unwritten
    BY <1>1, <1>2
  <2> QED BY <1>3, <2>1, Zenon DEF AskedFor
<1>9. leftover' # {} => unwritten' > 0
  BY <1>1, <1>2
<1>10. TurnInv'
  <2>1. At("shutdown", "idle")'
    BY <1>2 DEF InTurn, TurnInv
  <2> QED BY <1>1, <1>2, <1>7, <1>8, <1>9, <2>1 DEF TurnInv
<1>11. HandlesInv'
  BY <1>1, <1>2 DEF InTurn, HandlesInv, Preparing, Launching, Assigning
<1>12. StatusInv'
  BY <1>1, <1>2, <1>6, <1>8 DEF InTurn, StatusInv, Up, Steps
<1>13. QED BY <1>10, <1>11, <1>12 DEF InTurn

LEMMA MonitoringKeepsInTurn ==
  ASSUME IInv, InTurn, stage = "open", Monitoring
  PROVE  InTurn'
<1> USE DEF IInv, TypeOK, At, Ended, Stoppers, Running, manager, children, starting, stopping,
        control, bounds
<1>1. CASE Tick
  <2>1. /\ UNCHANGED <<desired, cancelled, host, sidecar, poller, alive, abandoned, enable,
                      role, proc, stopper, halted, active, leftover, unwritten,
                      wanted>>
        /\ monitor = "idle" /\ monitor' \in {"idle", "prepare"}
        /\ monitor' = "prepare" => active = None
        /\ status' = status \/ /\ status = "running"
                               /\ status' \in {"host_exited", "stale"}
    BY <1>1 DEF Tick, Observed
  <2>2. (Current' <=> Current) /\ (AskedFor' <=> AskedFor)
    BY <2>1, Zenon DEF Current, AskedFor
  <2>3. TurnInv'
    BY <2>1, <2>2, OverlayAssumption DEF InTurn, TurnInv
  <2>4. HandlesInv'
    BY <2>1, <2>2 DEF InTurn, HandlesInv
  <2>5. StatusInv'
    BY <2>1, <2>2 DEF InTurn, StatusInv, Up, Steps
  <2>6. QED BY <2>3, <2>4, <2>5 DEF InTurn
<1>2. CASE PrepareRestart
  <2>1. /\ UNCHANGED <<desired, cancelled, host, sidecar, poller, alive, abandoned, enable,
                      role, proc, stopper, halted, active, leftover, unwritten,
                      wanted>>
        /\ monitor = "prepare" /\ enable = "idle" /\ stopper["disable"] = "idle"
        /\ \/ monitor' = "idle" /\ status' = status
           \/ monitor' = "idle" /\ status = "stale" /\ status' = "running"
           \/ monitor' = "submit" /\ status = "stale" /\ status' = "starting"
    BY <1>2 DEF PrepareRestart, InTurn, TurnInv
  <2>a. AskedFor' <=> AskedFor
    BY <2>1, Zenon DEF AskedFor
  <2>2. TurnInv'
    BY <2>1, <2>a DEF InTurn, TurnInv
  <2>3. HandlesInv'
    BY <2>1 DEF InTurn, HandlesInv, Preparing, Launching, Assigning
  <2>4. StatusInv'
    BY <2>1, <2>a DEF InTurn, StatusInv, Up, Steps
  <2>5. QED BY <2>2, <2>3, <2>4 DEF InTurn
<1>3. CASE SubmitRestart
  <2>1. /\ UNCHANGED <<manager, alive, abandoned, role, proc, stopper, halted, wanted>>
        /\ monitor = "submit" /\ monitor' = "idle"
        /\ enable = "idle" /\ stopper["disable"] = "idle" /\ active = None
        /\ status = "starting" /\ AskedFor
        /\ QueueEnable \/ (EventIsLost /\ UNCHANGED <<enable, active, leftover>>)
    BY <1>3 DEF SubmitRestart, InTurn, TurnInv, StatusInv, Up
  <2>2. /\ leftover \subseteq leftover'
        /\ \/ /\ enable' = "queued" /\ active' = "enable" /\ UNCHANGED <<leftover, unwritten>>
           \/ /\ enable' = "idle" /\ active' \in {None} \cup leftover'
              /\ leftover # {} \/ unwritten' = unwritten + 1
              /\ unwritten' \in {unwritten, unwritten + 1}
    BY <2>1 DEF QueueEnable, EventIsLost
  <2>3. AskedFor'
    BY <2>1, <2>2, Zenon DEF AskedFor
  <2>4. leftover # {} => unwritten > 0
    BY DEF InTurn, TurnInv
  <2>5. leftover' # {} \/ enable' = "idle" => unwritten' > 0
    BY <2>2, <2>4
  <2>6. TurnInv'
    BY <2>1, <2>2, <2>3, <2>5 DEF InTurn, TurnInv
  <2>7. HandlesInv'
    BY <2>1, <2>2 DEF InTurn, HandlesInv, Preparing, Launching, Assigning
  <2>8. StatusInv'
    BY <2>1, <2>2, <2>3, <2>5 DEF InTurn, StatusInv, Up, Steps
  <2>9. QED BY <2>6, <2>7, <2>8 DEF InTurn
<1>4. QED BY <1>1, <1>2, <1>3 DEF Monitoring

(* The thread that disables records its end; a process dies, sticks, hangs. *)
LEMMA EndsKeepInTurn ==
  ASSUME IInv, InTurn, stage = "open",
         \/ RecordDisable \/ (\E p \in alive : Crash(p) \/ Stick(p)) \/ Hang \/ Wake
         \/ UNCHANGED vars
  PROVE  InTurn'
<1> USE DEF IInv, TypeOK, At, GoTo, Ended, Stoppers, Running, manager, children, starting, stopping,
        control, bounds
<1>1. CASE RecordDisable
  <2>1. /\ UNCHANGED <<manager, alive, abandoned, enable, role, proc, monitor, wanted>>
        /\ stopper["disable"] \in Ended /\ stopper'["disable"] = "idle"
        /\ stopper'["shutdown"] = stopper["shutdown"]
        /\ enable = "idle" /\ monitor = "idle" /\ active = "disable"
        /\ leftover # {} => unwritten > 0
        /\ RecordResult("disable")
    BY <1>1 DEF RecordDisable, InTurn, TurnInv
  <2>2. /\ leftover \subseteq leftover' /\ active' \in {None} \cup leftover'
        /\ leftover' # {} => unwritten' > 0
        /\ unwritten > 0 => unwritten' > 0
    BY <2>1 DEF RecordResult, EventIsLost
  <2>3. AskedFor => AskedFor'
    BY <2>1, <2>2, Zenon DEF AskedFor
  <2>4. TurnInv'
    BY <2>1, <2>2 DEF InTurn, TurnInv
  <2>5. HandlesInv'
    BY <2>1 DEF InTurn, HandlesInv, Preparing, Launching, Assigning
  <2>6. StatusInv'
    BY <2>1, <2>2, <2>3 DEF InTurn, StatusInv, Up, Steps
  <2>7. QED BY <2>4, <2>5, <2>6 DEF InTurn
<1>2. CASE \/ (\E p \in alive : Crash(p) \/ Stick(p)) \/ Hang \/ Wake \/ UNCHANGED vars
  <2>1. /\ UNCHANGED <<desired, cancelled, status, host, sidecar, poller, enable, role, proc,
                      stopper, halted, active, leftover, unwritten, monitor, wanted>>
        /\ alive' \subseteq alive /\ abandoned \cap alive' \subseteq abandoned'
    BY <1>2 DEF Crash, Stick, Hang, Wake, vars
  <2>2. (Current' <=> Current) /\ (AskedFor' <=> AskedFor)
    BY <2>1, Zenon DEF Current, AskedFor
  <2>3. TurnInv'
    BY <2>1, <2>2 DEF InTurn, TurnInv
  <2>4. HandlesInv'
    BY <2>1, <2>2 DEF InTurn, HandlesInv
  <2>5. StatusInv'
    BY <2>1, <2>2 DEF InTurn, StatusInv, Up
  <2>6. QED BY <2>3, <2>4, <2>5 DEF InTurn
<1>3. QED BY <1>1, <1>2

LEMMA NextKeepsTurn ==
  ASSUME ~ Overlapping, IInv, TurnIInv, [Next]_vars PROVE TurnIInv'
<1> SUFFICES ASSUME stage' = "open" PROVE InTurn'
  BY DEF TurnIInv, InTurn
<1>1. stage = "open"
  BY DEF Next, Enabling, Enter, Begin, Prepare, StartPoller, Launch, Spawn, Register,
         AwaitReady, Prewarm, Retry, AssignSidecar, Check, Finish, RollBack, RecordEnable,
         Stopping, CancelStart, MarkStopping, StopSidecar, StopHost, SettleStop,
         RecordDisable, Request, Monitoring, Tick, PrepareRestart, SubmitRestart,
         RequestShutdown, Closing, PublishShutdown, StopChildren, StopAgain, Crash, Stick,
         Hang, Wake, vars, control
<1>2. InTurn
  BY <1>1 DEF TurnIInv, InTurn
<1>3. CASE Enabling
  BY <1>1, <1>2, <1>3, EnablingKeepsTurn, EnablingKeepsHandles, EnablingKeepsStatus DEF InTurn
<1>4. CASE \E t \in Stoppers : Stopping(t)
  BY <1>1, <1>2, <1>4, DisablingKeepsInTurn
<1>5. CASE \E enabled \in BOOLEAN : Request(enabled)
  BY <1>1, <1>2, <1>5, RequestKeepsInTurn
<1>6. CASE Monitoring
  BY <1>1, <1>2, <1>6, MonitoringKeepsInTurn
<1>7. CASE RequestShutdown \/ Closing
  BY <1>1, <1>7 DEF RequestShutdown, Closing, PublishShutdown, StopChildren, StopAgain
<1>8. CASE \/ RecordDisable \/ (\E p \in alive : Crash(p) \/ Stick(p)) \/ Hang \/ Wake
           \/ UNCHANGED vars
  BY <1>1, <1>2, <1>8, EndsKeepInTurn
<1>9. QED
  BY <1>3, <1>4, <1>5, <1>6, <1>7, <1>8 DEF Next

(* With a user who asks in turn, one thread at a time holds the handles, a
   start is never superseded and the status follows what it does. *)
THEOREM TurnInvariant == ASSUME ~ Overlapping PROVE Spec => [](IInv /\ TurnIInv)
<1>1. Init => IInv /\ TurnIInv
  BY InitIInv, InitTurn
<1>2. IInv /\ TurnIInv /\ [Next]_vars => (IInv /\ TurnIInv)'
  BY NextKeepsIInv, NextKeepsTurn
<1> QED BY <1>1, <1>2, PTL DEF Spec

(* No failed start, failed stop or restart drops the handle of a live child. *)
THEOREM NothingIsLostTheorem == ASSUME ~ Overlapping PROVE Spec => []NothingIsLost
<1>1. IInv /\ TurnIInv => NothingIsLost
  BY OverlayAssumption
     DEF IInv, TypeOK, LauncherInv, TurnIInv, HandlesInv, NothingIsLost, Quiet, Idle
<1> QED BY <1>1, TurnInvariant, PTL

(* When the display was turned off and the status says so, no child lives. *)
THEOREM StoppedMeansGoneTheorem == ASSUME ~ Overlapping PROVE Spec => []StoppedMeansGone
<1>1. TurnIInv => StoppedMeansGone
  BY DEF TurnIInv, StatusInv, StoppedMeansGone, Quiet
<1> QED BY <1>1, TurnInvariant, PTL

(* When nothing is under way the status tells what there is. *)
THEOREM StatusIsTruthfulTheorem == ASSUME ~ Overlapping PROVE Spec => []StatusIsTruthful
<1>1. IInv /\ TurnIInv => StatusIsTruthful
  BY DEF TurnIInv, TurnInv, StatusInv, Up, StatusIsTruthful, Quiet, Idle, At, IInv, TypeOK
<1> QED BY <1>1, TurnInvariant, PTL
=================================================================================
