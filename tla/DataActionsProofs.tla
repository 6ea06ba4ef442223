--------------------------- MODULE DataActionsProofs ---------------------------
(***************************************************************************)
(* The inductive invariant of DataActions, for every capacity of the queue *)
(* and every number of submissions, and the properties that follow.        *)
(***************************************************************************)
EXTENDS DataActions, SequenceTheorems, TLAPS

(* The merge loses nothing: the pending recheck after a merge covers the request
   merged into it and every request it covered before. *)
LEMMA MergeCovers ==
  ASSUME TypeOK, NEW r \in Requests
  PROVE  /\ Coalesced(r) \in [recheck : BOOLEAN, force : BOOLEAN, scope : Scopes]
         /\ Coalesced(r).recheck
         /\ Covers(Coalesced(r), r)
         /\ \A q \in Requests : pending.recheck /\ Covers(pending, q)
                                  => Covers(Coalesced(r), q)
BY DEF TypeOK, Requests, Scopes, Coalesced, Covers

LEMMA InitIInv == Init => IInv
<1> SUFFICES ASSUME Init PROVE IInv OBVIOUS
<1>1. queue \in Seq(Actions) /\ Len(queue) = 0
  BY DEF Init
<1>2. TypeOK
  BY <1>1, ActionsAssumption DEF Init, TypeOK, NotPending, Scopes, Stages, Requests
<1>3. Carriers = {}
  BY <1>1 DEF Init, Carriers, IsRefresh
<1> QED
  BY <1>1, <1>2, <1>3, ActionsAssumption
     DEF Init, IInv, WorkerInv, QueuedInv, AcceptedRefreshIsCarried, NotPending,
         PendingHasATrigger, SettingInv, DrainedInv, IsSetting, IsRefresh,
         SingleRefresh, Shutdown

(* An action at the end of a queue. *)
LEMMA Appended ==
  ASSUME TypeOK, NEW a \in Actions, Len(queue) < QueueMax,
         queue' = Append(queue, a)
  PROVE  /\ queue' \in Seq(Actions) /\ Len(queue') = Len(queue) + 1
         /\ Len(queue') <= QueueMax
         /\ \A i \in 1..Len(queue) : queue'[i] = queue[i]
         /\ queue'[Len(queue) + 1] = a
BY ActionsAssumption DEF TypeOK

(* The carriers after an append, and after a take. *)
LEMMA AppendedCarriers ==
  ASSUME TypeOK, NEW a \in Actions, Len(queue) < QueueMax,
         queue' = Append(queue, a), UNCHANGED taken
  PROVE  Carriers' = Carriers \cup {x \in {a} : x.type = "refresh"}
<1>1. {queue'[i] : i \in 1..Len(queue')} = {queue[i] : i \in 1..Len(queue)} \cup {a}
  <2> Len(queue) \in Nat /\ 1..Len(queue') = (1..Len(queue)) \cup {Len(queue) + 1}
    BY Appended DEF TypeOK
  <2> QED BY Appended
<1>2. a # NoAction
  BY ActionsAssumption
<1> QED BY <1>1, <1>2 DEF Carriers, IsRefresh

LEMMA TakenCarriers ==
  ASSUME TypeOK, WorkerInv, Take
  PROVE  /\ Carriers' = Carriers
         /\ queue' \in Seq(Actions) /\ Len(queue') = Len(queue) - 1
         /\ \A i \in 1..Len(queue') : queue'[i] = queue[i + 1]
         /\ taken' = queue[1] /\ taken' \in Actions
         /\ Len(queue) > 0
<1> USE DEF Take, TypeOK
<1>1. /\ queue' \in Seq(Actions) /\ Len(queue') = Len(queue) - 1
      /\ \A i \in 1..Len(queue') : queue'[i] = queue[i + 1]
      /\ taken' = queue[1] /\ taken' \in Actions
      /\ Len(queue) > 0 /\ Len(queue) \in Nat
  OBVIOUS
<1>2. taken = NoAction
  BY DEF WorkerInv
<1>3. {queue[i] : i \in 1..Len(queue)} = {queue'[i] : i \in 1..Len(queue')} \cup {taken'}
  <2>1. ASSUME NEW i \in 1..Len(queue)
        PROVE  queue[i] \in {queue'[j] : j \in 1..Len(queue')} \cup {taken'}
    <3>1. CASE i = 1 BY <3>1, <1>1
    <3>2. CASE i # 1
      <4>1. i - 1 \in 1..Len(queue') /\ queue'[i - 1] = queue[i]
        BY <3>2, <1>1
      <4> QED BY <4>1
    <3> QED BY <3>1, <3>2
  <2>2. ASSUME NEW i \in 1..Len(queue')
        PROVE  queue'[i] \in {queue[j] : j \in 1..Len(queue)}
    <3>1. i + 1 \in 1..Len(queue) /\ queue'[i] = queue[i + 1] BY <1>1
    <3> QED BY <3>1
  <2>3. taken' \in {queue[j] : j \in 1..Len(queue)}
    <3>1. 1 \in 1..Len(queue) BY <1>1
    <3> QED BY <3>1, <1>1
  <2> HIDE DEF Take, TypeOK
  <2> QED BY <2>1, <2>2, <2>3
<1> QED BY <1>1, <1>2, <1>3, ActionsAssumption DEF Carriers, IsRefresh

(* A refresh on the queue or taken is a carrier. *)
LEMMA NoCarrier ==
  ASSUME Carriers = {}
  PROVE  ~IsRefresh(taken) /\ \A i \in 1..Len(queue) : ~IsRefresh(queue[i])
BY DEF Carriers

(* Appending keeps refreshes single if none was on its way. *)
LEMMA AppendedSingle ==
  ASSUME TypeOK, QueuedInv, ~Shutdown, NEW a \in Actions, Len(queue) < QueueMax,
         queue' = Append(queue, a), UNCHANGED taken, SingleRefresh,
         IsRefresh(a) => "refresh" \notin queued
  PROVE  SingleRefresh'
<1>1. Len(queue) \in Nat /\ taken' = taken BY DEF TypeOK
<1>2. CASE IsRefresh(a)
  <2>1. ~IsRefresh(taken) /\ \A i \in 1..Len(queue) : ~IsRefresh(queue[i])
    BY <1>2, NoCarrier DEF QueuedInv
  <2> QED BY <1>1, <2>1, Appended DEF SingleRefresh, IsRefresh
<1>3. CASE ~IsRefresh(a)
  BY <1>1, <1>3, Appended DEF SingleRefresh, IsRefresh
<1> QED BY <1>2, <1>3

-----------------------------------------------------------------------------
(* One lemma per action.                                                    *)

LEMMA SubmitRefreshStep ==
  ASSUME IInv, NEW r \in Requests, SubmitRefresh(r)
  PROVE  IInv'
<1> USE DEF IInv
<1>0. ~Shutdown /\ ~Shutdown'
  BY DEF SubmitRefresh, Shutdown
<1>a. Refresh(r) \in Actions /\ Covers(Refresh(r), r) /\ Refresh(r).type = "refresh"
  BY DEF Refresh, Actions, Refreshes, Requests, Covers, Scopes
<1>1. CASE RefreshActive \/ "refresh" \in queued
  <2>1. /\ pending' = Coalesced(r) /\ owed' = owed \cup {r}
        /\ UNCHANGED <<queue, queued, thread, stage, setting, callers, wanted>>
        /\ submits' = submits + 1
    BY <1>1 DEF SubmitRefresh
  <2>2. TypeOK'
    BY <2>1, MergeCovers DEF TypeOK, thread, callers
  <2>3. Carriers' = Carriers /\ SingleRefresh'
    BY <2>1, <1>0 DEF Carriers, thread, IsRefresh, SingleRefresh
  <2>4. AcceptedRefreshIsCarried'
    BY <2>1, <2>3, <1>0, MergeCovers DEF AcceptedRefreshIsCarried, TypeOK, Covers
  <2>5. PendingHasATrigger'
    <3>1. CASE RefreshActive
      BY <3>1, <2>1 DEF RefreshActive, PendingHasATrigger, WorkerInv, thread
    <3>2. CASE "refresh" \in queued
      <4>1. taken # NoAction \/ queue # <<>>
        BY <3>2, <1>0 DEF QueuedInv, Carriers, IsRefresh, TypeOK
      <4> QED BY <4>1, <2>1 DEF PendingHasATrigger, WorkerInv, thread
    <3> QED BY <3>1, <3>2, <1>1
  <2>6. WorkerInv' /\ QueuedInv' /\ SettingInv' /\ DrainedInv'
    BY <2>1, <2>3, <1>0
       DEF WorkerInv, QueuedInv, SettingInv, DrainedInv, Shutdown, thread, IsSetting
  <2> QED BY <2>2, <2>3, <2>4, <2>5, <2>6
<1>2. CASE /\ ~RefreshActive /\ "refresh" \notin queued /\ Len(queue) < QueueMax
  <2>1. /\ queue' = Append(queue, Refresh(r)) /\ queued' = queued \cup {"refresh"}
        /\ owed' = owed \cup {r} /\ submits' = submits + 1
        /\ UNCHANGED <<pending, thread, stage, setting, callers, wanted>>
    BY <1>2 DEF SubmitRefresh
  <2>2. Carriers' = Carriers \cup {Refresh(r)}
    BY <2>1, <1>2, <1>a, AppendedCarriers DEF thread
  <2>7. SingleRefresh'
    BY <2>1, <1>0, <1>2, <1>a, AppendedSingle DEF thread
  <2>3. TypeOK'
    BY <2>1, <1>2, <1>a, Appended DEF TypeOK, thread, callers
  <2>4. AcceptedRefreshIsCarried'
    BY <2>1, <2>2, <1>0, <1>a DEF AcceptedRefreshIsCarried
  <2>5. PendingHasATrigger' /\ QueuedInv' /\ WorkerInv' /\ DrainedInv'
    BY <2>1, <2>2, <2>3, <1>0, <1>2, <1>a, Appended
       DEF PendingHasATrigger, QueuedInv, WorkerInv, DrainedInv, Shutdown, thread, TypeOK
  <2>6. SettingInv'
    <3>1. ~IsSetting(Refresh(r)) BY <1>a DEF IsSetting
    <3>2. Len(queue) \in Nat /\ UNCHANGED <<taken, active, setting, wanted>>
      BY <2>1 DEF TypeOK, thread
    <3> QED BY <2>1, <3>1, <3>2, <1>0, <1>a, <1>2, Appended DEF SettingInv, IsSetting
  <2> QED BY <2>3, <2>4, <2>5, <2>6, <2>7
<1>3. CASE ~RefreshActive /\ "refresh" \notin queued /\ Len(queue) = QueueMax
  <2>1. UNCHANGED <<service, owed, thread, stage, setting, callers, wanted>>
        /\ submits' = submits + 1
    BY <1>3, ActionsAssumption DEF SubmitRefresh, TypeOK
  <2> QED
    BY <2>1 DEF service, thread, callers, TypeOK, WorkerInv, QueuedInv, Carriers, Shutdown,
                AcceptedRefreshIsCarried, PendingHasATrigger, SettingInv, IsSetting,
                DrainedInv, SingleRefresh, IsRefresh
<1> QED BY <1>1, <1>2, <1>3 DEF SubmitRefresh

LEMMA SubmitSettingStep ==
  ASSUME IInv, NEW enabled \in BOOLEAN, SubmitSetting(enabled)
  PROVE  IInv'
<1> USE DEF IInv
<1> DEFINE a == [type |-> "set_private_stats", enabled |-> enabled, id |-> submits]
<1>0. ~Shutdown /\ ~Shutdown'
  BY DEF SubmitSetting, Shutdown
<1>a. a \in Actions /\ a.type = "set_private_stats" /\ a.enabled = enabled
  BY DEF Actions, Settings, TypeOK
<1>1. CASE Len(queue) < QueueMax
  <2>1. /\ queue' = Append(queue, a) /\ queued' = queued \cup {"set_private_stats"}
        /\ wanted' = enabled /\ waiting' = waiting \cup {submits}
        /\ submits' = submits + 1
        /\ UNCHANGED <<pending, thread, stage, setting, results, owed>>
    BY <1>1, ActionsAssumption DEF SubmitSetting, TypeOK
  <2> HIDE DEF a
  <2>2. Carriers' = Carriers
    BY <2>1, <1>1, <1>a, AppendedCarriers DEF thread
  <2>6. SingleRefresh'
    BY <2>1, <1>0, <1>1, <1>a, AppendedSingle DEF thread, IsRefresh
  <2>3. TypeOK'
    BY <2>1, <1>1, <1>a, Appended DEF TypeOK, thread
  <2>4. AcceptedRefreshIsCarried' /\ PendingHasATrigger' /\ QueuedInv' /\ WorkerInv'
          /\ DrainedInv'
    BY <2>1, <2>2, <2>3, <1>0, <1>1, <1>a, Appended
       DEF AcceptedRefreshIsCarried, PendingHasATrigger, QueuedInv, WorkerInv, DrainedInv,
           Shutdown, thread, TypeOK
  <2>5. SettingInv'
    <3>1. IsSetting(a) BY <1>a, ActionsAssumption DEF IsSetting
    <3>2. Len(queue) \in Nat /\ Len(queue') = Len(queue) + 1
          /\ queue'[Len(queue) + 1] = a
      BY <2>1, <1>a, <1>1, Appended DEF TypeOK
    <3>3. \A i \in 1..Len(queue') :
            (\A j \in i + 1 .. Len(queue') : ~IsSetting(queue'[j])) => i = Len(queue')
      <4> SUFFICES ASSUME NEW i \in 1..Len(queue'), i # Len(queue')
                   PROVE  \E j \in i + 1 .. Len(queue') : IsSetting(queue'[j])
        OBVIOUS
      <4>1. Len(queue') \in i + 1 .. Len(queue') /\ IsSetting(queue'[Len(queue')])
        BY <3>1, <3>2
      <4> QED BY <4>1
    <3>4. ~ \A i \in 1..Len(queue') : ~IsSetting(queue'[i])
      <4>1. Len(queue') \in 1..Len(queue') /\ IsSetting(queue'[Len(queue')])
        BY <3>1, <3>2
      <4> QED BY <4>1
    <3>5. queue'[Len(queue')].enabled = wanted' BY <3>2, <2>1, <1>a
    <3> QED BY <3>3, <3>4, <3>5 DEF SettingInv, IsSetting
  <2> QED BY <2>3, <2>4, <2>5, <2>6
<1>2. CASE Len(queue) = QueueMax
  <2>1. UNCHANGED <<service, thread, stage, setting, results, waiting, wanted, owed>>
        /\ submits' = submits + 1
    BY <1>2, ActionsAssumption DEF SubmitSetting, TypeOK, service
  <2> QED
    BY <2>1 DEF service, thread, TypeOK, WorkerInv, QueuedInv, Carriers, Shutdown,
                AcceptedRefreshIsCarried, PendingHasATrigger, SettingInv, IsSetting,
                DrainedInv, SingleRefresh, IsRefresh
<1> QED BY <1>1, <1>2, ActionsAssumption DEF SubmitSetting

LEMMA CallerStep ==
  ASSUME IInv, NEW id, CallerReturns(id) \/ CallerTimesOut(id)
  PROVE  IInv'
<1>1. /\ UNCHANGED <<queue, queued, pending, taken, active, worker, stage, setting, results,
                      submits, owed, wanted>>
      /\ waiting' \subseteq waiting
  BY DEF CallerReturns, CallerTimesOut, service, thread
<1>2. TypeOK' BY <1>1 DEF IInv, TypeOK
<1>3. QED
  BY <1>1, <1>2
     DEF IInv, WorkerInv, QueuedInv, SingleRefresh, IsRefresh, Carriers, Shutdown,
         AcceptedRefreshIsCarried, PendingHasATrigger, SettingInv, IsSetting, DrainedInv

LEMMA TakeStep == ASSUME IInv, Take PROVE IInv'
<1> USE DEF IInv
<1>1. /\ UNCHANGED <<queued, pending, active, stage, setting, callers, submits, owed, wanted>>
      /\ worker = "looping" /\ worker' = "taken"
  BY DEF Take
<1>2. TypeOK'
  BY <1>1, TakenCarriers, ActionsAssumption DEF TypeOK, callers
<1>3. WorkerInv'
  BY <1>1, TakenCarriers, ActionsAssumption DEF WorkerInv
<1>4. QueuedInv' /\ AcceptedRefreshIsCarried' /\ PendingHasATrigger'
  BY <1>1, TakenCarriers
     DEF QueuedInv, AcceptedRefreshIsCarried, PendingHasATrigger, Shutdown
<1>5. DrainedInv'
  BY <1>1, TakenCarriers DEF DrainedInv, TypeOK
<1>7. SingleRefresh'
  <2> SUFFICES ASSUME ~Shutdown PROVE SingleRefresh'
    BY <1>1 DEF SingleRefresh, Shutdown
  <2>1. Len(queue) \in Nat /\ Len(queue) > 0 /\ Len(queue') = Len(queue) - 1
        /\ taken' = queue[1] /\ \A i \in 1..Len(queue') : queue'[i] = queue[i + 1]
    BY TakenCarriers DEF TypeOK
  <2>2. \A i \in 1..Len(queue') : i + 1 \in 1..Len(queue) /\ i + 1 # 1
    BY <2>1
  <2>3. \A i, j \in 1..Len(queue') :
          IsRefresh(queue'[i]) /\ IsRefresh(queue'[j]) => i = j
    <3> SUFFICES ASSUME NEW i \in 1..Len(queue'), NEW j \in 1..Len(queue'),
                        IsRefresh(queue'[i]), IsRefresh(queue'[j])
                 PROVE  i = j
      OBVIOUS
    <3>1. i + 1 = j + 1 BY <2>1, <2>2 DEF SingleRefresh
    <3> QED BY <3>1
  <2>4. IsRefresh(taken') => \A i \in 1..Len(queue') : ~IsRefresh(queue'[i])
    <3>1. 1 \in 1..Len(queue) BY <2>1
    <3> QED BY <2>1, <2>2, <3>1 DEF SingleRefresh
  <2> QED BY <2>3, <2>4 DEF SingleRefresh, IsRefresh
<1>6. SettingInv'
  <2> SUFFICES ASSUME ~Shutdown PROVE SettingInv'
    BY <1>1 DEF SettingInv, Shutdown
  <2>1. Len(queue) \in Nat /\ Len(queue) > 0 /\ Len(queue') = Len(queue) - 1
        /\ taken' = queue[1] /\ \A i \in 1..Len(queue') : queue'[i] = queue[i + 1]
    BY TakenCarriers DEF TypeOK
  <2>2. taken = NoAction /\ active = NoAction
    BY <1>1 DEF WorkerInv
  <2>3. ASSUME NEW i \in 1..Len(queue'), IsSetting(queue'[i]),
               \A j \in i + 1 .. Len(queue') : ~IsSetting(queue'[j])
        PROVE  queue'[i].enabled = wanted'
    <3>1. i + 1 \in 1..Len(queue) /\ IsSetting(queue[i + 1])
      BY <2>1, <2>3
    <3>2. ASSUME NEW j \in i + 2 .. Len(queue) PROVE ~IsSetting(queue[j])
      <4>1. j - 1 \in i + 1 .. Len(queue') /\ j - 1 \in 1..Len(queue') /\ (j - 1) + 1 = j
        BY <2>1
      <4> QED BY <4>1, <2>1, <2>3
    <3>3. (i + 1) + 1 = i + 2
      OBVIOUS
    <3> QED BY <3>1, <3>2, <3>3, <2>1, <1>1 DEF SettingInv
  <2>4. ASSUME \A i \in 1..Len(queue') : ~IsSetting(queue'[i])
        PROVE  \A j \in 2..Len(queue) : ~IsSetting(queue[j])
    <3> SUFFICES ASSUME NEW j \in 2..Len(queue) PROVE ~IsSetting(queue[j])
      OBVIOUS
    <3>1. j - 1 \in 1..Len(queue') /\ (j - 1) + 1 = j BY <2>1
    <3> QED BY <3>1, <2>1, <2>4
  <2>5. ASSUME \A i \in 1..Len(queue') : ~IsSetting(queue'[i]), IsSetting(taken')
        PROVE  taken'.enabled = wanted'
    <3>1. 1 \in 1..Len(queue) /\ 1 + 1 = 2 BY <2>1
    <3> QED BY <3>1, <2>1, <2>4, <2>5, <1>1 DEF SettingInv
  <2>6. ASSUME \A i \in 1..Len(queue') : ~IsSetting(queue'[i]), ~IsSetting(taken')
        PROVE  setting' = wanted'
    <3>1. \A j \in 1..Len(queue) : ~IsSetting(queue[j])
      BY <2>4, <2>6, <2>1
    <3> QED BY <3>1, <2>2, <1>1 DEF SettingInv, IsSetting
  <2>7. ~IsSetting(active')
    BY <2>2, <1>1 DEF IsSetting
  <2> QED BY <2>3, <2>5, <2>6, <2>7 DEF SettingInv, IsSetting
<1> QED BY <1>2, <1>3, <1>4, <1>5, <1>6, <1>7

LEMMA BeginStep == ASSUME IInv, Begin PROVE IInv'
<1> USE DEF IInv
<1>1. /\ taken' = NoAction /\ worker = "taken" /\ taken # NoAction /\ active = NoAction
      /\ UNCHANGED <<queue, pending, stage, setting, callers, submits, wanted>>
  BY DEF Begin, WorkerInv
<1>2. CASE Shutdown
  <2>1. worker' = "exited" /\ UNCHANGED <<active, queued, owed>> /\ Shutdown'
    BY <1>1, <1>2 DEF Begin, Shutdown
  <2> QED BY <2>1, <1>1, <1>2
          DEF TypeOK, WorkerInv, QueuedInv, AcceptedRefreshIsCarried, callers,
              PendingHasATrigger, SettingInv, DrainedInv, SingleRefresh
<1>3. CASE ~Shutdown
  <2>1. /\ active' = taken /\ worker' = "running" /\ queued' = queued \ {taken.type}
        /\ ~Shutdown' /\ owed' \subseteq owed
        /\ taken.type = "refresh" => owed' = {r \in owed : ~Covers(taken, r)}
    BY <1>1, <1>3 DEF Begin, Shutdown
  <2>2. TypeOK' /\ WorkerInv' /\ PendingHasATrigger' /\ DrainedInv'
    BY <2>1, <1>1, <1>3 DEF TypeOK, WorkerInv, PendingHasATrigger, DrainedInv, callers, Shutdown
  <2>3. taken \in Actions
    BY <1>1 DEF TypeOK
  <2>4. SingleRefresh'
    BY <1>1, <1>3 DEF SingleRefresh, IsRefresh, Shutdown
  <2>5. CASE IsRefresh(taken)
    <3>1. \A i \in 1..Len(queue) : ~IsRefresh(queue[i])
      BY <2>5, <1>3 DEF SingleRefresh
    <3>2. Carriers' = {} /\ Carriers = {taken}
      BY <3>1, <2>5, <1>1 DEF Carriers, IsRefresh
    <3>3. QueuedInv'
      BY <3>2, <2>1, <2>5 DEF QueuedInv, IsRefresh
    <3>4. AcceptedRefreshIsCarried'
      <4>1. owed' = {r \in owed : ~Covers(taken, r)}
        BY <2>1, <2>5 DEF IsRefresh
      <4> QED BY <4>1, <3>2, <1>1, <1>3 DEF AcceptedRefreshIsCarried
    <3> QED BY <2>2, <2>4, <3>3, <3>4, <1>1, <2>1, <2>5
            DEF SettingInv, IsSetting, IsRefresh, Shutdown
  <2>6. CASE ~IsRefresh(taken)
    <3>1. taken.type = "set_private_stats" /\ IsSetting(taken)
      BY <2>6, <2>3, <1>1 DEF Actions, Refreshes, Settings, IsRefresh, IsSetting
    <3>2. Carriers' = Carriers
      BY <2>6, <1>1 DEF Carriers, IsRefresh
    <3>3. QueuedInv' /\ AcceptedRefreshIsCarried'
      BY <3>1, <3>2, <2>1, <1>1, <1>3 DEF QueuedInv, AcceptedRefreshIsCarried
    <3>4. SettingInv'
      BY <3>1, <2>1, <1>1, <1>3 DEF SettingInv, IsSetting, Shutdown
    <3> QED BY <2>2, <2>4, <3>3, <3>4
  <2> QED BY <2>5, <2>6
<1> QED BY <1>2, <1>3

(* The three outcomes of _queue_pending_refresh_locked. *)
LEMMA QueuePendingStep ==
  ASSUME IInv, QueuePending, UNCHANGED <<taken, stage>>,
         worker = "running", worker' = "looping", active' = NoAction, owed' = owed
  PROVE  /\ queue' \in Seq(Actions) /\ Len(queue') <= QueueMax
         /\ queued' \subseteq {"refresh", "set_private_stats"}
         /\ pending' \in [recheck : BOOLEAN, force : BOOLEAN, scope : Scopes]
         /\ QueuedInv' /\ SingleRefresh' /\ AcceptedRefreshIsCarried'
         /\ PendingHasATrigger' /\ DrainedInv'
         /\ ~Shutdown => Len(queue') >= Len(queue)
         /\ \A i \in 1..Len(queue) : queue'[i] = queue[i]
         /\ \A i \in 1..Len(queue') : i \notin 1..Len(queue) => ~IsSetting(queue'[i])
<1> USE DEF IInv
<1>1. CASE Shutdown
  <2>1. UNCHANGED <<queue, queued>> /\ pending' = NotPending /\ Shutdown'
    BY <1>1 DEF QueuePending, Shutdown
  <2> QED
    BY <2>1, <1>1 DEF TypeOK, NotPending, Scopes, QueuedInv, SingleRefresh,
                      AcceptedRefreshIsCarried, PendingHasATrigger, DrainedInv
<1>2. CASE ~Shutdown /\ (~pending.recheck \/ "refresh" \in queued \/ Len(queue) = QueueMax)
  <2>1. UNCHANGED <<queue, queued, pending>> /\ ~Shutdown'
    BY <1>2, ActionsAssumption DEF QueuePending, Shutdown, service, TypeOK
  <2>2. Carriers' = Carriers
    BY <2>1 DEF Carriers, IsRefresh
  <2>3. PendingHasATrigger'
    <3>1. CASE "refresh" \in queued
      <4>1. taken = NoAction BY DEF WorkerInv
      <4>2. Carriers # {} BY <3>1, <1>2 DEF QueuedInv
      <4>3. queue # <<>> BY <4>1, <4>2 DEF Carriers, IsRefresh, TypeOK
      <4> QED BY <4>3, <2>1 DEF PendingHasATrigger
    <3>2. CASE Len(queue) = QueueMax
      <4>1. queue # <<>> BY <3>2, ActionsAssumption DEF TypeOK
      <4> QED BY <4>1, <2>1 DEF PendingHasATrigger
    <3> QED BY <3>1, <3>2, <1>2, <2>1 DEF PendingHasATrigger
  <2> QED
    BY <2>1, <2>2, <2>3, <1>2 DEF TypeOK, QueuedInv, SingleRefresh, IsRefresh,
                      AcceptedRefreshIsCarried, DrainedInv
<1>3. CASE ~Shutdown /\ pending.recheck /\ "refresh" \notin queued /\ Len(queue) < QueueMax
  <2> DEFINE a == Refresh(pending)
  <2>1. /\ queue' = Append(queue, a) /\ queued' = queued \cup {"refresh"}
        /\ pending' = NotPending /\ ~Shutdown'
    BY <1>3, ActionsAssumption DEF QueuePending, Shutdown, service, TypeOK
  <2>2. a \in Actions /\ a.type = "refresh" /\ a.force = pending.force /\ a.scope = pending.scope
    BY DEF Refresh, Actions, Refreshes, TypeOK
  <2> HIDE DEF a
  <2>3. Carriers' = Carriers \cup {a}
    BY <2>1, <2>2, <1>3, AppendedCarriers
  <2>4. SingleRefresh'
    BY <2>1, <2>2, <1>3, AppendedSingle
  <2>5. QueuedInv' /\ PendingHasATrigger' /\ DrainedInv'
    BY <2>1, <2>3, <1>3 DEF QueuedInv, PendingHasATrigger, DrainedInv, NotPending, Shutdown
  <2>6. \A r \in Requests : Covers(pending, r) => Covers(a, r)
    BY <2>2 DEF Covers
  <2>7. AcceptedRefreshIsCarried'
    BY <2>3, <2>6, <1>3 DEF AcceptedRefreshIsCarried, TypeOK
  <2>8. /\ queue' \in Seq(Actions) /\ Len(queue') <= QueueMax
        /\ Len(queue') = Len(queue) + 1 /\ Len(queue) \in Nat
        /\ \A i \in 1..Len(queue) : queue'[i] = queue[i]
        /\ queue'[Len(queue) + 1] = a
    BY <2>1, <2>2, <1>3, Appended DEF TypeOK
  <2>9. ~IsSetting(a) BY <2>2 DEF IsSetting
  <2>10. /\ queued' \subseteq {"refresh", "set_private_stats"}
         /\ pending' \in [recheck : BOOLEAN, force : BOOLEAN, scope : Scopes]
    BY <2>1 DEF TypeOK, NotPending, Scopes
  <2>11. \A i \in 1..Len(queue') : i \notin 1..Len(queue) => ~IsSetting(queue'[i])
    <3> SUFFICES ASSUME NEW i \in 1..Len(queue'), i \notin 1..Len(queue)
                 PROVE  ~IsSetting(queue'[i])
      OBVIOUS
    <3>1. i = Len(queue) + 1 BY <2>8
    <3> QED BY <3>1, <2>8, <2>9
  <2> QED BY <2>4, <2>5, <2>7, <2>8, <2>10, <2>11
<1> QED BY <1>1, <1>2, <1>3, ActionsAssumption DEF TypeOK

LEMMA FinishStep == ASSUME IInv, Finish PROVE IInv'
<1> USE DEF IInv
<1>1. /\ worker = "running" /\ worker' = "looping" /\ active' = NoAction
      /\ UNCHANGED <<taken, stage, waiting, submits, owed, wanted>> /\ QueuePending
      /\ taken = NoAction /\ active # NoAction /\ active \in Actions
  BY DEF Finish, WorkerInv, TypeOK
<1>2. /\ IsSetting(active) => setting' = active.enabled /\ results' = results \cup {active.id}
                               /\ active \in Settings
      /\ ~IsSetting(active) => UNCHANGED <<setting, results>>
  BY <1>1 DEF Finish, IsSetting, Actions, Refreshes
<1>3. setting' \in BOOLEAN /\ results' \subseteq Nat
  BY <1>2 DEF TypeOK, Settings
<1>4. /\ queue' \in Seq(Actions) /\ Len(queue') <= QueueMax
      /\ queued' \subseteq {"refresh", "set_private_stats"}
      /\ pending' \in [recheck : BOOLEAN, force : BOOLEAN, scope : Scopes]
      /\ QueuedInv' /\ SingleRefresh' /\ AcceptedRefreshIsCarried'
      /\ PendingHasATrigger' /\ DrainedInv'
      /\ ~Shutdown => Len(queue') >= Len(queue)
      /\ \A i \in 1..Len(queue) : queue'[i] = queue[i]
      /\ \A i \in 1..Len(queue') : i \notin 1..Len(queue) => ~IsSetting(queue'[i])
  BY <1>1, QueuePendingStep
<1>5. TypeOK' /\ WorkerInv'
  BY <1>1, <1>3, <1>4 DEF TypeOK, WorkerInv, Shutdown
<1>6. SettingInv'
  <2> SUFFICES ASSUME ~Shutdown PROVE SettingInv'
    BY <1>1 DEF SettingInv, Shutdown
  <2>1. Len(queue) \in Nat /\ Len(queue') \in Nat /\ Len(queue') >= Len(queue)
    BY <1>4 DEF TypeOK
  <2>2. ASSUME NEW i \in 1..Len(queue'), IsSetting(queue'[i]),
               \A j \in i + 1 .. Len(queue') : ~IsSetting(queue'[j])
        PROVE  queue'[i].enabled = wanted'
    <3>1. i \in 1..Len(queue) /\ IsSetting(queue[i]) BY <1>4, <2>2
    <3>2. \A j \in i + 1 .. Len(queue) :
            j \in i + 1 .. Len(queue') /\ j \in 1..Len(queue) /\ ~IsSetting(queue[j])
      BY <2>1, <2>2, <1>4
    <3> QED BY <3>1, <3>2, <1>1, <1>4 DEF SettingInv
  <2>3. ASSUME \A i \in 1..Len(queue') : ~IsSetting(queue'[i])
        PROVE  setting' = wanted'
    <3>1. \A i \in 1..Len(queue) : ~IsSetting(queue[i])
      BY <2>1, <2>3, <1>4
    <3>2. ~IsSetting(taken) BY <1>1 DEF IsSetting
    <3> QED BY <3>1, <3>2, <1>1, <1>2 DEF SettingInv
  <2>4. ~IsSetting(taken') /\ ~IsSetting(active')
    BY <1>1 DEF IsSetting
  <2> QED BY <2>2, <2>3, <2>4 DEF SettingInv, IsSetting
<1> QED BY <1>4, <1>5, <1>6

LEMMA ClosingStep == ASSUME IInv, WorkerExits \/ Closing PROVE IInv'
<1> USE DEF IInv, service, thread, callers
<1>1. CASE WorkerExits
  BY <1>1 DEF WorkerExits, TypeOK, WorkerInv, QueuedInv, SingleRefresh, Shutdown,
              AcceptedRefreshIsCarried, PendingHasATrigger, SettingInv, DrainedInv
<1>2. CASE Stop
  BY <1>2 DEF Stop, TypeOK, Stages, WorkerInv, QueuedInv, SingleRefresh, Shutdown, Carriers,
              IsRefresh, IsSetting, AcceptedRefreshIsCarried, PendingHasATrigger,
              SettingInv, DrainedInv
<1>3. CASE RequestShutdown
  BY <1>3 DEF RequestShutdown, TypeOK, Stages, WorkerInv, QueuedInv, SingleRefresh, Shutdown,
              AcceptedRefreshIsCarried, PendingHasATrigger, SettingInv, DrainedInv
<1>4. CASE Drain
  <2>1. queue' \in Seq(Actions) /\ Len(queue') = 0
    BY <1>4 DEF Drain
  <2> QED
    BY <1>4, <2>1, ActionsAssumption
       DEF Drain, TypeOK, Stages, NotPending, Scopes, WorkerInv, QueuedInv, SingleRefresh,
           Shutdown, AcceptedRefreshIsCarried, PendingHasATrigger, SettingInv, DrainedInv
<1> QED BY <1>1, <1>2, <1>3, <1>4 DEF Closing

LEMMA NextIInv == IInv /\ [Next]_vars => IInv'
<1> SUFFICES ASSUME IInv, [Next]_vars PROVE IInv' OBVIOUS
<1>1. CASE Next
  BY <1>1, SubmitRefreshStep, SubmitSettingStep, CallerStep, TakeStep, BeginStep,
     FinishStep, ClosingStep DEF Next, Worker
<1>2. CASE UNCHANGED vars
  BY <1>2 DEF vars, service, thread, callers, IInv, TypeOK, WorkerInv, QueuedInv,
              SingleRefresh, Shutdown, Carriers, IsRefresh, IsSetting,
              AcceptedRefreshIsCarried, PendingHasATrigger, SettingInv, DrainedInv
<1> QED BY <1>1, <1>2

-----------------------------------------------------------------------------
(* The inductive invariant holds in every reachable state. *)
THEOREM ActionsInvariant == Spec => []IInv
BY InitIInv, NextIInv, PTL DEF Spec

(* Every variable keeps its type, and the queue its bound. *)
THEOREM ActionsTypeCorrect == Spec => []TypeOK
<1>1. IInv => TypeOK BY DEF IInv
<1> QED BY <1>1, ActionsInvariant, PTL

(* No merge, full queue or running action loses or weakens an accepted refresh. *)
THEOREM NoRefreshIsLost == Spec => []AcceptedRefreshIsCarried
<1>1. IInv => AcceptedRefreshIsCarried BY DEF IInv
<1> QED BY <1>1, ActionsInvariant, PTL

(* A pending recheck never waits for an action that will not come. *)
THEOREM NoPendingIsStuck == Spec => []PendingHasATrigger
<1>1. IInv => PendingHasATrigger BY DEF IInv
<1> QED BY <1>1, ActionsInvariant, PTL

(* The last setting accepted is the one in force when none is outstanding. *)
THEOREM SettingsSettle == Spec => []LastSettingWins
<1>1. IInv => LastSettingWins
  BY DEF IInv, SettingInv, LastSettingWins, IsSetting
<1> QED BY <1>1, ActionsInvariant, PTL

(* After request_shutdown has returned nothing begins, queues or becomes pending. *)
THEOREM ShutdownIsFinal == Spec => NothingBeginsAfterDrain
<1> DEFINE Quiet == /\ active' \in {active, NoAction}
                    /\ queue' = <<>> /\ ~pending'.recheck
<1>1. IInv /\ [Next]_vars => [stage = "drained" => Quiet]_vars
  <2> SUFFICES ASSUME IInv, Next, stage = "drained" PROVE Quiet
    OBVIOUS
  <2>1. Shutdown /\ queue = <<>> /\ pending = NotPending /\ ~pending.recheck
    BY DEF IInv, DrainedInv, Shutdown, NotPending
  <2>2. CASE \E r \in Requests : SubmitRefresh(r)
    BY <2>1, <2>2 DEF SubmitRefresh
  <2>3. CASE \E enabled \in BOOLEAN : SubmitSetting(enabled)
    BY <2>1, <2>3 DEF SubmitSetting
  <2>4. CASE \E id \in waiting : CallerReturns(id) \/ CallerTimesOut(id)
    BY <2>1, <2>4 DEF CallerReturns, CallerTimesOut, service, thread
  <2>5. CASE Worker
    BY <2>1, <2>5 DEF Worker, Take, Begin, Finish, QueuePending, WorkerExits, service
  <2>6. CASE Closing
    BY <2>1, <2>6 DEF Closing, Stop, RequestShutdown, Drain
  <2> QED BY <2>2, <2>3, <2>4, <2>5, <2>6 DEF Next
<1>2. Spec => [][stage = "drained" => Quiet]_vars
  BY <1>1, ActionsInvariant, PTL DEF Spec
<1> QED BY <1>2 DEF NothingBeginsAfterDrain
=============================================================================
