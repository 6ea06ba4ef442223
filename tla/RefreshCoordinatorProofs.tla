---------------------- MODULE RefreshCoordinatorProofs ----------------------
(***************************************************************************)
(* The inductive invariant of RefreshCoordinator, for any set of callers,  *)
(* and the safety properties that follow from it.                          *)
(***************************************************************************)
EXTENDS RefreshCoordinator, TLAPS

LEMMA InitIInv == Init => IInv
<1> SUFFICES ASSUME Init PROVE IInv OBVIOUS
<1>1. TypeOK BY DEF Init, NoThread, TypeOK, Optional
<1> QED BY <1>1 DEF Init, IInv, Sources, Optional, NoThread, Active, Alive, OneOwnerEach,
             OwedHasATrier, ThreadInv, ForcedSourcesAreCarried, StopInv, StopReachesWorkers,
             WaitersShareTheRun

-----------------------------------------------------------------------------
(* The steps that disturb several parts of the invariant.                   *)

(* A refresh begins, or a caller joins one and passes its force on. *)
LEMMA CallStep ==
  ASSUME IInv, NEW c \in Callers, NEW f \in BOOLEAN, Call(c, f)
  PROVE  IInv'
<1> USE DEF IInv, Sources, Optional, refresh, lane, workers, ending, Active, Alive
<1>1. TypeOK'
  <2>1. forced' \in BOOLEAN
    BY DEF Call, Enter, Promise, Active, Alive, Ahead, TypeOK
  <2>2. optForce' \in BOOLEAN
    BY DEF Call, Enter, Promise, Active, Alive, Ahead, TypeOK
  <2>3. owed' \subseteq Optional
    BY DEF Call, Enter, Promise, Active, Alive, Ahead, TypeOK
  <2> QED BY <2>1, <2>2, <2>3 DEF Call, Enter, Promise, Active, Alive, Ahead, TypeOK
<1>2. ForcedSourcesAreCarried'
  BY DEF Call, Enter, Promise, Active, Alive, Ahead, TypeOK, ThreadInv, ForcedSourcesAreCarried, Ahead
<1>3. OneOwnerEach' /\ OwedHasATrier' /\ ThreadInv' /\ StopInv' /\ WaitersShareTheRun'
  BY DEF Call, Enter, Promise, Active, Alive, Ahead, TypeOK, OneOwnerEach, OwedHasATrier, ThreadInv, StopInv,
         StopReachesWorkers, WaitersShareTheRun
<1> QED BY <1>1, <1>2, <1>3

(* The Catalog worker is gone. *)
LEMMA CatalogEndsStep ==
  ASSUME IInv, CatalogEnds
  PROVE  IInv'
<1> USE DEF IInv, Sources, Optional, refresh, lane, workers, ending, Active, Alive
<1>1. TypeOK'
  <2>1. /\ worker' \in [Sources -> {"none", "registered", "cleared", "running"}]
       /\ told' \subseteq Sources
    BY DEF CatalogEnds, Succeeds, Fails, Ended, GoTo, TypeOK
  <2> QED BY <2>1 DEF CatalogEnds, Succeeds, Fails, Ended, GoTo, TypeOK
<1>2. ForcedSourcesAreCarried'
  BY DEF CatalogEnds, Succeeds, Fails, Ended, GoTo, TypeOK, ThreadInv, ForcedSourcesAreCarried, Ahead
<1>3. OneOwnerEach' /\ OwedHasATrier' /\ ThreadInv' /\ StopInv' /\ WaitersShareTheRun'
  BY DEF CatalogEnds, Succeeds, Fails, Ended, GoTo, TypeOK, OneOwnerEach, OwedHasATrier, ThreadInv, StopInv,
         StopReachesWorkers, WaitersShareTheRun
<1> QED BY <1>1, <1>2, <1>3

(* The core worker is gone. *)
LEMMA CoreEndsStep ==
  ASSUME IInv, CoreEnds
  PROVE  IInv'
<1> USE DEF IInv, Sources, Optional, refresh, lane, workers, ending, Active, Alive
<1>1. TypeOK'
  <2>1. worker' = [worker EXCEPT !["aramkit"] = "none"] /\ told' = told \ {"aramkit"}
    BY DEF CoreEnds, Succeeds, Fails, Ended
  <2> QED BY <2>1 DEF CoreEnds, Succeeds, Fails, Ended, GoTo, TypeOK
<1>2. ForcedSourcesAreCarried'
  BY DEF CoreEnds, Succeeds, Fails, Ended, GoTo, TypeOK, ThreadInv, ForcedSourcesAreCarried, Ahead
<1>3. OneOwnerEach' /\ OwedHasATrier' /\ ThreadInv' /\ StopInv' /\ WaitersShareTheRun'
  BY DEF CoreEnds, Succeeds, Fails, Ended, GoTo, TypeOK, OneOwnerEach, OwedHasATrier, ThreadInv, StopInv,
         StopReachesWorkers, WaitersShareTheRun
<1> QED BY <1>1, <1>2, <1>3

(* The flag is raised for what is still ahead. *)
LEMMA ForceOptionalStep ==
  ASSUME IInv, ForceOptional
  PROVE  IInv'
<1> USE DEF IInv, Sources, Optional, refresh, lane, workers, ending, Active, Alive
<1>1. TypeOK'
  <2>1. forced' \in BOOLEAN
    BY DEF ForceOptional, Promise, TypeOK
  <2>2. optForce' \in BOOLEAN
    BY DEF ForceOptional, Promise, TypeOK
  <2>3. owed' \subseteq Optional
    BY DEF ForceOptional, Promise, TypeOK
  <2> QED BY <2>1, <2>2, <2>3 DEF ForceOptional, Promise, TypeOK
<1>2. ForcedSourcesAreCarried'
  BY DEF ForceOptional, Promise, TypeOK, ThreadInv, ForcedSourcesAreCarried, Ahead
<1>3. OneOwnerEach' /\ OwedHasATrier' /\ ThreadInv' /\ StopInv' /\ WaitersShareTheRun'
  BY DEF ForceOptional, Promise, TypeOK, OneOwnerEach, OwedHasATrier, ThreadInv, StopInv,
         StopReachesWorkers, WaitersShareTheRun
<1> QED BY <1>1, <1>2, <1>3

(* The refresh ends; its caller has a retention attempt left. *)
LEMMA FinishStep ==
  ASSUME IInv, Finish
  PROVE  IInv'
<1> USE DEF IInv, Sources, Optional, refresh, lane, workers, ending, Active, Alive
<1>1. TypeOK'
  <2>1. forced' \in BOOLEAN
    BY DEF Finish, TypeOK
  <2> QED BY <2>1 DEF Finish, TypeOK
<1>2. ForcedSourcesAreCarried'
  BY DEF Finish, TypeOK, ThreadInv, ForcedSourcesAreCarried, Ahead
<1>3. OneOwnerEach' /\ OwedHasATrier' /\ ThreadInv' /\ StopInv' /\ WaitersShareTheRun'
  BY DEF Finish, TypeOK, OneOwnerEach, OwedHasATrier, ThreadInv, StopInv,
         StopReachesWorkers, WaitersShareTheRun
<1> QED BY <1>1, <1>2, <1>3

(* A thread begins. *)
LEMMA BeginStep ==
  ASSUME IInv, Begin
  PROVE  IInv'
<1> USE DEF IInv, Sources, Optional, refresh, lane, workers, ending, Active, Alive
<1>1. TypeOK'
  <2>1. opt' \in [pc : {"none", "begin", "decide", "fetch", "run", "publish", "end"},
                    source : Optional, forced : BOOLEAN]
    BY DEF Begin, NoThread, TypeOK
  <2> QED BY <2>1 DEF Begin, NoThread, TypeOK
<1>2. ForcedSourcesAreCarried'
  BY DEF Begin, NoThread, TypeOK, ThreadInv, ForcedSourcesAreCarried, Ahead
<1>3. OneOwnerEach' /\ OwedHasATrier' /\ ThreadInv' /\ StopInv' /\ WaitersShareTheRun'
  BY DEF Begin, NoThread, TypeOK, OneOwnerEach, OwedHasATrier, ThreadInv, StopInv,
         StopReachesWorkers, WaitersShareTheRun
<1> QED BY <1>1, <1>2, <1>3

(* The thread takes the flag over: what is owed after Apex is Mayhem, and after
   Mayhem nothing. *)
LEMMA DecideStep ==
  ASSUME IInv, Decide
  PROVE  IInv'
<1> USE DEF IInv, Sources, Optional, refresh, lane, workers, ending, Active, Alive
<1>1. TypeOK'
  <2>1. opt' \in [pc : {"none", "begin", "decide", "fetch", "run", "publish", "end"},
                    source : Optional, forced : BOOLEAN]
    BY DEF Decide, Beyond, TypeOK
  <2>2. optForce' \in BOOLEAN
    BY DEF Decide, Beyond, TypeOK
  <2>3. owed' \subseteq Optional
    BY DEF Decide, Beyond, TypeOK
  <2> QED BY <2>1, <2>2, <2>3 DEF Decide, Beyond, TypeOK
<1>2. ForcedSourcesAreCarried'
  <2>1. CASE opt.forced \/ optForce
    <3>1. owed' = owed \ {opt.source} /\ opt'.forced
      BY <2>1 DEF Decide, Beyond, TypeOK
    <3>2. \A s \in owed' : opt.source = "apex" /\ s = "mayhem"
      BY <3>1 DEF Decide, TypeOK, ForcedSourcesAreCarried, Ahead
    <3>3. CASE opt' = [opt EXCEPT !.forced = TRUE, !.pc = "fetch"]
      <4>1. opt'.source = opt.source /\ opt'.pc = "fetch" BY <3>3 DEF TypeOK
      <4> QED BY <3>1, <3>2, <4>1 DEF ForcedSourcesAreCarried, Ahead
    <3>4. CASE opt' = Beyond([opt EXCEPT !.forced = TRUE])
      <4>1. opt.source = "apex" => opt'.source = "mayhem" /\ opt'.pc = "decide"
        BY <3>4 DEF Beyond, TypeOK
      <4> QED BY <3>1, <3>2, <4>1 DEF ForcedSourcesAreCarried, Ahead
    <3>5. opt.forced \/ optForce <=> TRUE BY <2>1
    <3> QED BY <3>3, <3>4, <3>5 DEF Decide
  <2>2. CASE ~(opt.forced \/ optForce)
    <3>1. owed = {} /\ owed' = {}
      BY <2>2 DEF Decide, TypeOK, ForcedSourcesAreCarried
    <3> QED BY <3>1 DEF ForcedSourcesAreCarried
  <2> QED BY <2>1, <2>2
<1>3. OneOwnerEach' /\ OwedHasATrier' /\ ThreadInv' /\ StopInv' /\ WaitersShareTheRun'
  <2>1. /\ opt'.pc \in {"fetch", "decide", "end"} /\ (opt'.pc = "end" => opt'.source = "mayhem")
        /\ \A s \in Sources : s \in Optional => worker[s] = "none"
    BY DEF Decide, Beyond, TypeOK, OneOwnerEach
  <2> QED BY <2>1 DEF Decide, TypeOK, OneOwnerEach, OwedHasATrier, ThreadInv, StopInv,
                      StopReachesWorkers, WaitersShareTheRun
<1> QED BY <1>1, <1>2, <1>3

(* A worker of the thread is gone. *)
LEMMA OptionalFetchedStep ==
  ASSUME IInv, OptionalFetched
  PROVE  IInv'
<1> USE DEF IInv, Sources, Optional, refresh, lane, workers, ending, Active, Alive
<1>1. TypeOK'
  <2>1. opt' \in [pc : {"none", "begin", "decide", "fetch", "run", "publish", "end"},
                    source : Optional, forced : BOOLEAN]
    BY DEF OptionalFetched, Succeeds, Fails, Ended, Beyond, TypeOK
  <2>2. /\ worker' \in [Sources -> {"none", "registered", "cleared", "running"}]
       /\ told' \subseteq Sources
    BY DEF OptionalFetched, Succeeds, Fails, Ended, Beyond, TypeOK
  <2> QED BY <2>1, <2>2 DEF OptionalFetched, Succeeds, Fails, Ended, Beyond, TypeOK
<1>2. ForcedSourcesAreCarried'
  <2>1. \A s \in owed : opt.source = "apex" /\ s = "mayhem" /\ (optForce \/ opt.forced)
    BY DEF OptionalFetched, TypeOK, ForcedSourcesAreCarried, Ahead
  <2>2. /\ opt'.forced = opt.forced /\ opt'.pc # "none"
        /\ opt.source = "apex" => opt'.source = "apex" \/ (opt'.source = "mayhem" /\ opt'.pc = "decide")
    BY DEF OptionalFetched, Beyond, TypeOK
  <2> QED BY <2>1, <2>2 DEF OptionalFetched, ForcedSourcesAreCarried, Ahead
<1>3. OneOwnerEach' /\ OwedHasATrier' /\ ThreadInv' /\ StopInv' /\ WaitersShareTheRun'
  <2>1. /\ opt'.pc \in {"publish", "decide", "end"} /\ (opt'.pc = "end" => opt'.source = "mayhem")
        /\ worker' = [worker EXCEPT ![opt.source] = "none"] /\ told' = told \ {opt.source}
    BY DEF OptionalFetched, Beyond, Succeeds, Fails, Ended, TypeOK
  <2>2. \A s \in Optional : worker'[s] = "none"
    BY <2>1 DEF TypeOK, OneOwnerEach
  <2> QED BY <2>1, <2>2 DEF OptionalFetched, TypeOK, OneOwnerEach, OwedHasATrier, ThreadInv,
                            StopInv, StopReachesWorkers, WaitersShareTheRun
<1> QED BY <1>1, <1>2, <1>3

(* What the thread fetched is published or rejected. *)
LEMMA PublishOptionalStep ==
  ASSUME IInv, PublishOptional
  PROVE  IInv'
<1> USE DEF IInv, Sources, Optional, refresh, lane, workers, ending, Active, Alive
<1>1. TypeOK'
  <2>1. opt' \in [pc : {"none", "begin", "decide", "fetch", "run", "publish", "end"},
                    source : Optional, forced : BOOLEAN]
    BY DEF PublishOptional, Publish, Beyond, TypeOK
  <2> QED BY <2>1 DEF PublishOptional, Publish, Beyond, TypeOK
<1>2. ForcedSourcesAreCarried'
  BY DEF PublishOptional, Publish, Beyond, TypeOK, ThreadInv, ForcedSourcesAreCarried, Ahead
<1>3. OneOwnerEach' /\ OwedHasATrier' /\ ThreadInv' /\ StopInv' /\ WaitersShareTheRun'
  BY DEF PublishOptional, Publish, Beyond, TypeOK, OneOwnerEach, OwedHasATrier, ThreadInv, StopInv,
         StopReachesWorkers, WaitersShareTheRun
<1> QED BY <1>1, <1>2, <1>3

(* The thread fails; it promises nothing any more. *)
LEMMA OptionalRaisesStep ==
  ASSUME IInv, OptionalRaises
  PROVE  IInv'
<1> USE DEF IInv, Sources, Optional, refresh, lane, workers, ending, Active, Alive
<1>1. TypeOK'
  <2>1. opt' \in [pc : {"none", "begin", "decide", "fetch", "run", "publish", "end"},
                    source : Optional, forced : BOOLEAN]
    BY DEF OptionalRaises, TypeOK
  <2> QED BY <2>1 DEF OptionalRaises, TypeOK
<1>2. ForcedSourcesAreCarried'
  BY DEF OptionalRaises, TypeOK, ThreadInv, ForcedSourcesAreCarried, Ahead
<1>3. OneOwnerEach' /\ OwedHasATrier' /\ ThreadInv' /\ StopInv' /\ WaitersShareTheRun'
  BY DEF OptionalRaises, TypeOK, OneOwnerEach, OwedHasATrier, ThreadInv, StopInv,
         StopReachesWorkers, WaitersShareTheRun
<1> QED BY <1>1, <1>2, <1>3

(* The thread ends; it has a retention attempt left. *)
LEMMA OptionalEndsStep ==
  ASSUME IInv, OptionalEnds
  PROVE  IInv'
<1> USE DEF IInv, Sources, Optional, refresh, lane, workers, ending, Active, Alive
<1>1. TypeOK'
  <2>1. opt' \in [pc : {"none", "begin", "decide", "fetch", "run", "publish", "end"},
                    source : Optional, forced : BOOLEAN]
    BY DEF OptionalEnds, NoThread, TypeOK
  <2>2. optForce' \in BOOLEAN
    BY DEF OptionalEnds, NoThread, TypeOK
  <2>3. closing' \in BOOLEAN
    BY DEF OptionalEnds, NoThread, TypeOK
  <2> QED BY <2>1, <2>2, <2>3 DEF OptionalEnds, NoThread, TypeOK
<1>2. ForcedSourcesAreCarried'
  BY DEF OptionalEnds, NoThread, TypeOK, ThreadInv, ForcedSourcesAreCarried, Ahead
<1>3. OneOwnerEach' /\ OwedHasATrier' /\ ThreadInv' /\ StopInv' /\ WaitersShareTheRun'
  BY DEF OptionalEnds, NoThread, TypeOK, OneOwnerEach, OwedHasATrier, ThreadInv, StopInv,
         StopReachesWorkers, WaitersShareTheRun
<1> QED BY <1>1, <1>2, <1>3

(* The thread's retention attempt. *)
LEMMA OptionalClosesStep ==
  ASSUME IInv, OptionalCloses
  PROVE  IInv'
<1> USE DEF IInv, Sources, Optional, refresh, lane, workers, ending, Active, Alive
<1>1. TypeOK'
  <2>1. closing' \in BOOLEAN
    BY DEF OptionalCloses, TryRetention, WorkersIdle, TypeOK
  <2> QED BY <2>1 DEF OptionalCloses, TryRetention, WorkersIdle, TypeOK
<1>2. ForcedSourcesAreCarried'
  BY DEF OptionalCloses, TryRetention, WorkersIdle, TypeOK, ThreadInv, ForcedSourcesAreCarried, Ahead
<1>3. OneOwnerEach' /\ OwedHasATrier' /\ ThreadInv' /\ StopInv' /\ WaitersShareTheRun'
  BY DEF OptionalCloses, TryRetention, WorkersIdle, TypeOK, OneOwnerEach, OwedHasATrier, ThreadInv, StopInv,
         StopReachesWorkers, WaitersShareTheRun
<1> QED BY <1>1, <1>2, <1>3

-----------------------------------------------------------------------------
(* Every step.                                                              *)

(* A step of the refresh. *)
LEMMA RefreshStepIInv ==
  ASSUME IInv, RefreshStep \/ PublishUnits
  PROVE  IInv'
<1>1. CASE CatalogEnds BY <1>1, CatalogEndsStep
<1>2. CASE CoreEnds BY <1>2, CoreEndsStep
<1>3. CASE ForceOptional BY <1>3, ForceOptionalStep
<1>4. CASE Finish BY <1>4, FinishStep
<1>5. CASE Start \/ SkipCatalog \/ RunCatalog \/ Clear("catalog") \/ Launch("catalog") \/ Raises \/ NoCatalog \/ StartOptional \/ SkipCore \/ RunCore \/ Clear("aramkit") \/ Launch("aramkit") \/ PublishUnits
  <2> USE DEF IInv, Sources, Optional, refresh, lane, workers, ending, Active, Alive, TypeOK,
              OneOwnerEach, OwedHasATrier, ThreadInv, ForcedSourcesAreCarried, Ahead, StopInv,
              StopReachesWorkers, WaitersShareTheRun
  <2>1. CASE Start BY <2>1 DEF Start, GoTo
  <2>2. CASE SkipCatalog BY <2>2 DEF SkipCatalog, GoTo
  <2>3. CASE RunCatalog BY <2>3 DEF RunCatalog, Register
  <2>4. CASE Clear("catalog") BY <2>4 DEF Clear
  <2>5. CASE Launch("catalog") BY <2>5 DEF Launch
  <2>6. CASE Raises BY <2>6 DEF Raises
  <2>7. CASE NoCatalog BY <2>7 DEF NoCatalog, GoTo
  <2>8. CASE StartOptional BY <2>8 DEF StartOptional, GoTo
  <2>9. CASE SkipCore BY <2>9 DEF SkipCore, GoTo
  <2>10. CASE RunCore BY <2>10 DEF RunCore, Register
  <2>11. CASE Clear("aramkit") BY <2>11 DEF Clear
  <2>12. CASE Launch("aramkit") BY <2>12 DEF Launch
  <2>13. CASE PublishUnits BY <2>13 DEF PublishUnits, Publish
  <2> QED BY <1>5, <2>1, <2>2, <2>3, <2>4, <2>5, <2>6, <2>7, <2>8, <2>9, <2>10, <2>11, <2>12, <2>13
<1> QED BY <1>1, <1>2, <1>3, <1>4, <1>5 DEF RefreshStep

(* A step of the thread of the optional sources. *)
LEMMA OptionalStepIInv ==
  ASSUME IInv, OptionalStep \/ OptionalCloses
  PROVE  IInv'
<1>1. CASE Begin BY <1>1, BeginStep
<1>2. CASE Decide BY <1>2, DecideStep
<1>3. CASE OptionalFetched BY <1>3, OptionalFetchedStep
<1>4. CASE PublishOptional BY <1>4, PublishOptionalStep
<1>5. CASE OptionalRaises BY <1>5, OptionalRaisesStep
<1>6. CASE OptionalEnds BY <1>6, OptionalEndsStep
<1>7. CASE OptionalCloses BY <1>7, OptionalClosesStep
<1>8. CASE RunOptional \/ Clear(opt.source) \/ Launch(opt.source)
  <2> USE DEF IInv, Sources, Optional, refresh, lane, workers, ending, Active, Alive, TypeOK,
              OneOwnerEach, OwedHasATrier, ThreadInv, ForcedSourcesAreCarried, Ahead, StopInv,
              StopReachesWorkers, WaitersShareTheRun
  <2>1. CASE RunOptional BY <2>1 DEF RunOptional, Register
  <2>2. CASE Clear(opt.source) BY <2>2 DEF Clear
  <2>3. CASE Launch(opt.source) BY <2>3 DEF Launch
  <2> QED BY <1>8, <2>1, <2>2, <2>3
<1> QED BY <1>1, <1>2, <1>3, <1>4, <1>5, <1>6, <1>7, <1>8 DEF OptionalStep

LEMMA NextIInv == IInv /\ [Next]_vars => IInv'
<1> SUFFICES ASSUME IInv, [Next]_vars PROVE IInv' OBVIOUS
<1>1. CASE RefreshStep \/ PublishUnits BY <1>1, RefreshStepIInv
<1>2. CASE OptionalStep \/ OptionalCloses BY <1>2, OptionalStepIInv
<1>3. ASSUME NEW c \in Callers, NEW f \in BOOLEAN, Call(c, f) PROVE IInv'
  BY <1>3, CallStep
<1>4. ASSUME NEW c \in Callers, WaiterReturns(c) PROVE IInv'
  BY <1>4 DEF WaiterReturns, Enter, IInv, Sources, Optional, refresh, lane, workers, ending,
       Active, Alive, TypeOK, OneOwnerEach, OwedHasATrier, ThreadInv, ForcedSourcesAreCarried,
       Ahead, StopInv, StopReachesWorkers, WaitersShareTheRun
<1>5. ASSUME NEW c \in Callers, Leave(c) PROVE IInv'
  BY <1>5 DEF Leave, TryRetention, WorkersIdle, IInv, Sources, Optional, refresh, lane, workers,
       ending, Active, Alive, TypeOK, OneOwnerEach, OwedHasATrier, ThreadInv,
       ForcedSourcesAreCarried, Ahead, StopInv, StopReachesWorkers, WaitersShareTheRun
<1>6. CASE RequestStop
  BY <1>6 DEF RequestStop, IInv, Sources, Optional, refresh, lane, workers, Active, Alive, TypeOK,
       OneOwnerEach, OwedHasATrier, ThreadInv, ForcedSourcesAreCarried, Ahead, StopInv,
       StopReachesWorkers, WaitersShareTheRun
<1>7. CASE TellWorkers
  BY <1>7 DEF TellWorkers, IInv, Sources, Optional, refresh, lane, Active, Alive, TypeOK,
       OneOwnerEach, OwedHasATrier, ThreadInv, ForcedSourcesAreCarried, Ahead, StopInv,
       StopReachesWorkers, WaitersShareTheRun
<1>8. CASE UNCHANGED vars
  BY <1>8 DEF vars, IInv, Sources, Optional, refresh, lane, workers, ending, Active, Alive, TypeOK,
       OneOwnerEach, OwedHasATrier, ThreadInv, ForcedSourcesAreCarried, Ahead, StopInv,
       StopReachesWorkers, WaitersShareTheRun
<1> QED BY <1>1, <1>2, <1>3, <1>4, <1>5, <1>6, <1>7, <1>8 DEF Next

(* RefreshCoordinator!IInv holds in every reachable state: who may act on what,
   and which thread still answers for the force and for the retention pass. *)
THEOREM CoordinatorInvariant == Spec => []IInv
BY InitIInv, NextIInv, PTL DEF Spec

(* A force is never forgotten for a source that has not been decided about:
   the flag or the running thread carries it there (_optional_force_requested). *)
THEOREM ForceIsCarried == Spec => []ForcedSourcesAreCarried
<1>1. IInv => ForcedSourcesAreCarried BY DEF IInv
<1> QED BY <1>1, CoordinatorInvariant, PTL

(* Once request_stop has returned, every process that runs or is about to run
   has been told to stop, whatever the threads were doing (_cancels, _stop). *)
THEOREM StopReachesEveryWorker == Spec => []StopReachesWorkers
<1>1. IInv => StopReachesWorkers BY DEF IInv, StopInv
<1> QED BY <1>1, CoordinatorInvariant, PTL

(* With every caller gone and no optional thread left, no retention pass is
   owed that was never tried (_retention_pending). *)
THEOREM RetentionIsNotForgotten == Spec => []RetentionIsTried
<1>1. IInv => RetentionIsTried BY DEF IInv, OwedHasATrier, RetentionIsTried
<1> QED BY <1>1, CoordinatorInvariant, PTL

(* One refresh at a time, and whoever waited for it is answered by it
   (_refresh_active, _last_refresh_result). *)
THEOREM RefreshIsShared == Spec => []WaitersShareTheRun
<1>1. IInv => WaitersShareTheRun BY DEF IInv
<1> QED BY <1>1, CoordinatorInvariant, PTL
=============================================================================
