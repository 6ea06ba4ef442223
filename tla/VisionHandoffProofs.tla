------------------------- MODULE VisionHandoffProofs -------------------------
(***************************************************************************)
(* Proofs about VisionHandoff, for any number of Catalogs, games, faults   *)
(* and requests: its inductive invariant, and that a game gets no newer    *)
(* Catalog and an undone switch restores what was on record.               *)
(*                                                                         *)
(* One lemma shows, action by action, that Next keeps one part of the      *)
(* invariant; an action that needs another part cites it.                  *)
(***************************************************************************)
EXTENDS VisionHandoff, TLAPS

USE DEF manager, caches, record, action, world, user, None, Return, GoOn, Submit, Submitted, Done

------------------------------------------------------------------------------
(* What the pieces of a step make of the state.                             *)

LEMMA BecomeFacts ==
  ASSUME TypeOK, NEW p, Become(p)
  PROVE  /\ vision' = p /\ rollback' \in Rollbacks /\ rollback'.kept = FALSE
         /\ rollback'.active = rollback.active /\ rollback'.cache = rollback.cache
         /\ rollback'.hint = rollback.hint
  BY DEF TypeOK, Become, Rollbacks

LEMMA ProcessTypes ==
  ASSUME TypeOK
  PROVE  /\ NoProcess \in Processes /\ Spawned \in Processes
         /\ \A s \in {"hung", "gone", "well"} : [vision EXCEPT !.is = s] \in Processes
  BY DEF TypeOK, NoProcess, Spawned, Processes

LEMMA ServesTypes ==
  ASSUME TypeOK
  PROVE  Serving \subseteq Nat /\ \A p \in Processes : Serves(p) => played' \subseteq Nat
  BY DEF TypeOK, Processes, Serves, Serving

LEMMA TickTypes ==
  ASSUME TypeOK
  PROVE  /\ NoTick \in Ticks /\ tick.read \in Nat
         /\ \A r \in BOOLEAN : Looked(r) \in Ticks /\ Found(r, tick.stale) \in Ticks
<1>1. /\ NoTick \in Ticks /\ tick.read \in Nat /\ tick.stale \in BOOLEAN
      /\ head \in Nat /\ desired \in BOOLEAN
  BY DEF TypeOK, Ticks, NoTick
<1>2. \A r \in BOOLEAN, s \in BOOLEAN : Found(r, s) \in Ticks
  BY <1>1 DEF Found, Ticks
<1>3. Stale \in BOOLEAN
  BY <1>1, Zenon DEF Stale
<1>4. \A r \in BOOLEAN : Looked(r) \in Ticks
  BY <1>1, <1>2, <1>3 DEF Looked, Ticks
<1> QED BY <1>1, <1>2, <1>4

LEMMA RollbackTypes ==
  ASSUME TypeOK
  PROVE  /\ \A h \in Kept :
              [active |-> active, cache |-> cache, hint |-> h, kept |-> TRUE] \in Rollbacks
         /\ rollback.active \in Nat /\ rollback.cache \in Nat /\ rollback.hint \in Nat
         /\ vision.cat \in Nat
  BY DEF TypeOK, Rollbacks, Processes, Kept

LEMMA CountTypes ==
  ASSUME TypeOK
  PROVE  0 \in Nat /\ head + 1 \in Nat /\ games + 1 \in Nat /\ toggles + 1 \in Nat
  BY DEF TypeOK

\* Of the templates that are loaded those begun first are there first.
LEMMA FirstWarmed ==
  ASSUME TypeOK, warming # <<>>, warming' = Tail(warming)
  PROVE  /\ 1 \in DOMAIN warming /\ Head(warming) = warming[1] /\ Head(warming) \in Nat
         /\ warming' \in Seq(Nat)
         /\ \A i \in DOMAIN warming' : i + 1 \in DOMAIN warming /\ warming'[i] = warming[i + 1]
         /\ warming' # <<>> => warming'[Len(warming')] = warming[Len(warming)]
         /\ warming' = <<>> => Head(warming) = warming[Len(warming)]
<1>1. warming \in Seq(Nat)
  BY DEF TypeOK
<1>2. /\ Len(warming) \in Nat \ {0} /\ Head(warming) = warming[1]
      /\ DOMAIN warming = 1..Len(warming)
  BY <1>1
<1>3. /\ warming' \in Seq(Nat) /\ Len(warming') = Len(warming) - 1
      /\ \A i \in 1..Len(warming') : warming'[i] = warming[i + 1]
  BY <1>1
<1>4. DOMAIN warming' = 1..Len(warming')
  BY <1>3
<1>5. ASSUME warming' # <<>> PROVE warming'[Len(warming')] = warming[Len(warming)]
  <2>1. Len(warming') \in 1..Len(warming') /\ Len(warming') + 1 = Len(warming)
    BY <1>2, <1>3, <1>5
  <2> QED BY <2>1, <1>3
<1>6. ASSUME warming' = <<>> PROVE Len(warming) = 1
  <2>1. Len(<<>>) = 0
    OBVIOUS
  <2>2. Len(warming') = 0
    BY <1>6, <2>1
  <2> QED BY <2>2, <1>2, <1>3
<1>7. 1 \in DOMAIN warming /\ Head(warming) \in Nat
  BY <1>1, <1>2
<1>8. \A i \in DOMAIN warming' : i + 1 \in DOMAIN warming /\ warming'[i] = warming[i + 1]
  BY <1>2, <1>3, <1>4
<1> QED BY <1>2, <1>3, <1>5, <1>6, <1>7, <1>8

LEMMA LastWarmed ==
  ASSUME TypeOK, NEW c \in Nat, warming' = Append(warming, c)
  PROVE  /\ warming' \in Seq(Nat) /\ warming' # <<>> /\ warming'[Len(warming')] = c
         /\ \A i \in DOMAIN warming' :
              warming'[i] = c \/ (i \in DOMAIN warming /\ warming'[i] = warming[i])
<1>1. warming \in Seq(Nat)
  BY DEF TypeOK
<1>2. /\ warming' \in Seq(Nat) /\ Len(warming') = Len(warming) + 1
      /\ warming'[Len(warming) + 1] = c
      /\ \A i \in 1..Len(warming) : warming'[i] = warming[i]
  BY <1>1
<1>3. /\ DOMAIN warming = 1..Len(warming) /\ DOMAIN warming' = 1..(Len(warming) + 1)
      /\ Len(warming) \in Nat
  BY <1>1, <1>2
<1> QED BY <1>1, <1>2, <1>3

------------------------------------------------------------------------------
(* Types.                                                                   *)

LEMMA EnablingKeepsTypes == ASSUME TypeOK, Enabling PROVE TypeOK'
<1> USE DEF Enabling, EnterDeferred, EnterRunning, EnterStart, Prepare, Join, HandDeferred,
            Hand, Recheck, Begin, Spawn, Check, Finish, UndoKept, Undo, Reload, Respawn,
            RestoreFails, Fail, Ends, Raise, Pin, UndoFails, Restored
<1>1. head' \in Nat /\ cache' \in Nat /\ prepared' \in Nat /\ target' \in Nat
  BY CountTypes, RollbackTypes, ZenonT(30) DEF TypeOK
<1>2. active' \in Nat /\ hint' \in Nat /\ pending' \in Nat
  BY CountTypes, RollbackTypes, ZenonT(30) DEF TypeOK
<1>3. recovery' \in Nat /\ pointer' \in Nat /\ games' \in Nat /\ toggles' \in Nat
  BY CountTypes, ZenonT(30) DEF TypeOK
<1>4. faults' \in Nat
  <2>1. Fault => faults' \in Nat
    BY DEF Fault, TypeOK
  <2> QED BY <2>1, ZenonT(30) DEF TypeOK
<1>5. /\ blocked' \in BOOLEAN /\ desired' \in BOOLEAN /\ cancelled' \in BOOLEAN
      /\ host' \in BOOLEAN /\ inProgress' \in BOOLEAN /\ stopping' \in BOOLEAN
      /\ wanted' \in BOOLEAN
  BY ZenonT(30) DEF TypeOK
<1>6. warming' \in Seq(Nat) /\ played' \subseteq Nat
  BY BecomeFacts, ProcessTypes, ServesTypes, ZenonT(30) DEF TypeOK
<1>7. rollback' \in Rollbacks /\ vision' \in Processes /\ tick' \in Ticks
  BY BecomeFacts, ProcessTypes, ZenonT(30) DEF TypeOK
<1>8. pc' \in Starting \cup {"idle", "enter", "undo", "reload", "respawn", "fail"}
  BY ZenonT(30) DEF TypeOK, Starting
<1>9. /\ why' \in {"error", "game"}
      /\ cacheStatus' \in {"queued", "building", "ready", "error"}
      /\ state' \in {"idle", "deferred", "ready", "prewarming", "rolled_back"}
  BY ZenonT(30) DEF TypeOK
<1>10. status' \in {"stopped", "starting", "running", "stale", "restarting", "stopping",
                    "error"}
  BY ZenonT(30) DEF TypeOK
<1> QED BY <1>1, <1>2, <1>3, <1>4, <1>5, <1>6, <1>7, <1>8, <1>9, <1>10, Zenon DEF TypeOK

LEMMA OthersKeepTypes ==
  ASSUME TypeOK, Building \/ Prewarming \/ Ticking \/ Enable \/ Disable \/ Stop \/ World
  PROVE  TypeOK'
<1> USE DEF Building, Prewarming, Warmed, WarmingFails, Ticking, Look, Load, ProbeFails,
            ActSwitch, ActRestart, ActNot, Enable, Disable, Stop, World, Publish, GameStarts,
            GameEnds, Ails, Wakes
<1>1. head' \in Nat /\ cache' \in Nat /\ prepared' \in Nat /\ target' \in Nat
  BY CountTypes, FirstWarmed, ZenonT(30) DEF TypeOK
<1>2. /\ active' \in Nat /\ hint' \in Nat /\ pending' \in Nat
      /\ recovery' \in Nat /\ pointer' \in Nat
  BY CountTypes, TickTypes, ZenonT(30) DEF TypeOK
<1>3. games' \in Nat /\ toggles' \in Nat
  BY CountTypes, ZenonT(30) DEF TypeOK
<1>4. faults' \in Nat
  <2>1. Fault => faults' \in Nat
    BY DEF Fault, TypeOK
  <2> QED BY <2>1, ZenonT(30) DEF TypeOK
<1>5. /\ blocked' \in BOOLEAN /\ desired' \in BOOLEAN /\ cancelled' \in BOOLEAN
      /\ host' \in BOOLEAN /\ inProgress' \in BOOLEAN /\ stopping' \in BOOLEAN
      /\ wanted' \in BOOLEAN
  BY ZenonT(30) DEF TypeOK
<1>6. warming' \in Seq(Nat) /\ played' \subseteq Nat
  BY FirstWarmed, LastWarmed, ServesTypes, ZenonT(30) DEF TypeOK
<1>7. rollback' \in Rollbacks /\ vision' \in Processes /\ tick' \in Ticks
  BY BecomeFacts, ProcessTypes, RollbackTypes, TickTypes, ZenonT(30) DEF TypeOK
<1>8. /\ pc' \in Starting \cup {"idle", "enter", "undo", "reload", "respawn", "fail"}
      /\ why' \in {"error", "game"}
      /\ cacheStatus' \in {"queued", "building", "ready", "error"}
  BY ZenonT(30) DEF TypeOK
<1>9. /\ state' \in {"idle", "deferred", "ready", "prewarming", "rolled_back"}
      /\ status' \in {"stopped", "starting", "running", "stale", "restarting", "stopping",
                      "error"}
  BY ZenonT(30) DEF TypeOK, Seen
<1> QED BY <1>1, <1>2, <1>3, <1>4, <1>5, <1>6, <1>7, <1>8, <1>9, Zenon DEF TypeOK

------------------------------------------------------------------------------
(* Nothing the App knows of is newer than what is pending.                  *)

LEMMA NextKeepsNewest ==
  ASSUME TypeOK, NewestInv, SwitchInv, StartInv, Next PROVE NewestInv'
<1> USE DEF NewestInv, NotNewer, Undoing
<1>1. CASE EnterDeferred \/ EnterRunning \/ Join \/ HandDeferred \/ Recheck
  BY <1>1 DEF EnterDeferred, EnterRunning, Join, HandDeferred, Recheck, Ends, Raise
<1>2. CASE EnterStart \/ Hand \/ Spawn \/ Undo \/ Fail \/ Stop
  <2>1. /\ rollback'.active = rollback.active /\ rollback'.cache = rollback.cache
        /\ rollback'.hint = rollback.hint
    BY <1>2, BecomeFacts DEF EnterStart, Hand, Spawn, Undo, Fail, Stop
  <2>2. cache' \in {cache, active} /\ prepared' \in {prepared, hint}
    BY <1>2 DEF EnterStart, Pin, Hand, Spawn, Undo, Fail, Stop
  <2>3. UNCHANGED <<head, pending, active, hint, warming>>
    BY <1>2 DEF EnterStart, Hand, Spawn, Undo, Fail, Stop
  <2>4. Undoing' => Undoing
    BY <1>2 DEF EnterStart, Hand, Spawn, Undo, Fail, Stop, Ends, Raise, UndoFails
  <2> QED BY <2>1, <2>2, <2>3, <2>4
<1>3. CASE Prepare
  <2>1. pc' \notin {"reload", "respawn", "recheck"} /\ (pc' = "undo" => inProgress)
    BY <1>3 DEF Prepare, Ends, Raise
  <2>2. UNCHANGED <<head, pending, active, hint, cache, prepared, rollback, warming, inProgress>>
    BY <1>3 DEF Prepare
  <2> QED BY <2>1, <2>2
<1>4. CASE Begin \/ Check \/ RestoreFails
  BY <1>4 DEF Begin, Check, RestoreFails, Ends, Raise, UndoFails
<1>5. CASE Finish
  BY <1>5 DEF TypeOK, StartInv, Finish, Ends
<1>6. CASE UndoKept
  BY <1>6 DEF UndoKept, Restored, Ends
<1>7. CASE Reload
  BY <1>7 DEF SwitchInv, Reload
<1>8. CASE Respawn
  <2>1. /\ rollback'.active = rollback.active /\ rollback'.cache = rollback.cache
        /\ rollback'.hint = rollback.hint
    BY <1>8, BecomeFacts DEF Respawn
  <2>2. ~Undoing' /\ active' = rollback.active /\ hint' = rollback.hint
    BY <1>8 DEF Respawn, Restored, Ends
  <2>3. UNCHANGED <<head, pending, cache, prepared, warming>>
    BY <1>8 DEF Respawn
  <2>4. pending # None => active' # pending
    BY <1>8, <2>2 DEF Respawn
  <2> QED BY <2>1, <2>2, <2>3, <2>4
<1>9. CASE Building
  BY <1>9 DEF TypeOK, Building
<1>10. CASE Prewarming
  <2>1. /\ \A i \in DOMAIN warming' : NotNewer(warming'[i])
        /\ NotNewer(Head(warming))
    BY <1>10, FirstWarmed DEF Prewarming, Warmed, WarmingFails
  <2> QED BY <1>10, <2>1 DEF Prewarming, Warmed, WarmingFails
<1>11. CASE Look \/ ProbeFails \/ ActRestart \/ ActNot \/ Enable
  <2>1. CASE Look
    BY <2>1 DEF Look
  <2>2. CASE ProbeFails \/ ActRestart
    BY <2>2 DEF ProbeFails, Found, ActRestart
  <2>3. CASE ActNot \/ Enable
    BY <2>3 DEF ActNot, Enable
  <2> QED BY <1>11, <2>1, <2>2, <2>3
<1>12. CASE Load
  <2>1. ASSUME pending # None PROVE active < head
    BY <2>1 DEF TypeOK
  <2>2. ASSUME Undoing, rollback.active # None
        PROVE  active # None /\ rollback.active < head /\ active < head
    BY <2>1, <2>2, RollbackTypes DEF TypeOK, SwitchInv, Bounds
  <2>3. pending' \in {pending, None, head} /\ (pending' # None => active # pending')
    BY <1>12 DEF Load, Known
  <2>4. ASSUME Undoing, rollback.active # None
        PROVE  pending' # None /\ rollback.active # pending'
    <3>1. pending' = head
      BY <1>12, <2>2, <2>4 DEF Load, Known, TypeOK
    <3> QED BY <3>1, <2>2, <2>4, RollbackTypes DEF TypeOK
  <2>5. UNCHANGED <<head, active, hint, cache, prepared, rollback, warming, inProgress, pc>>
    BY <1>12 DEF Load
  <2> QED BY <2>1, <2>2, <2>3, <2>4, <2>5 DEF TypeOK
<1>13. CASE ActSwitch
  <2>1. /\ pending \in Nat /\ pending # None /\ UNCHANGED <<pending, head>>
        /\ NotNewer(pending)
    BY <1>13 DEF ActSwitch, Switch, TypeOK
  <2>2. \A i \in DOMAIN warming' : NotNewer(warming'[i])
    BY <1>13, <2>1, LastWarmed DEF ActSwitch
  <2>3. rollback'.active = active /\ rollback'.cache = cache /\ rollback'.hint \in Kept
    BY <1>13 DEF ActSwitch
  <2>6. \A h \in Kept : NotNewer(h)
    BY <2>1 DEF Kept, TypeOK
  <2>4. UNCHANGED <<active, hint, prepared>> /\ cache' = None
    BY <1>13 DEF ActSwitch
  <2>5. NotNewer(None)
    BY <2>1 DEF TypeOK
  <2> QED BY <2>1, <2>2, <2>3, <2>4, <2>5, <2>6
<1>14. CASE Disable
  BY <1>14 DEF Disable
<1>15. CASE Publish
  <2>1. pending <= head'
    BY <1>15 DEF TypeOK, Publish
  <2>2. \A c \in Nat : NotNewer(c) => c <= head' /\ (pending # None => c <= pending)
    BY <1>15 DEF TypeOK, Publish
  <2>3. \A i \in DOMAIN warming : warming[i] \in Nat
    <3>1. warming \in Seq(Nat)
      BY DEF TypeOK
    <3> QED BY <3>1
  <2> QED BY <1>15, <2>1, <2>2, <2>3, RollbackTypes DEF TypeOK, Publish
<1>16. CASE GameStarts \/ GameEnds \/ Ails \/ Wakes
  BY <1>16 DEF GameStarts, GameEnds, Ails, Wakes
<1> QED BY <1>1, <1>2, <1>3, <1>4, <1>5, <1>6, <1>7, <1>8, <1>9, <1>10, <1>11, <1>12,
           <1>13, <1>14, <1>15, <1>16
        DEF Next, Enabling, Ticking, World

------------------------------------------------------------------------------
(* What a switch would put back is not newer than what is active.           *)

LEMMA NextKeepsSwitch ==
  ASSUME TypeOK, NewestInv, SwitchInv, StartInv, Next PROVE SwitchInv'
<1> USE DEF SwitchInv, Bounds, Undoing
<1>1. CASE EnterDeferred \/ EnterRunning \/ Join \/ HandDeferred \/ Recheck
  BY <1>1 DEF EnterDeferred, EnterRunning, Join, HandDeferred, Recheck, Ends, Raise
<1>2. CASE EnterStart \/ Hand \/ Spawn \/ Undo \/ Fail \/ Stop
  <2>1. /\ rollback'.active = rollback.active /\ rollback'.hint = rollback.hint
        /\ rollback'.kept => rollback.kept
    BY <1>2, BecomeFacts DEF EnterStart, Hand, Spawn, Undo, Fail, Stop
  <2>2. /\ UNCHANGED <<pending, active, hint, warming, inProgress>>
        /\ \/ UNCHANGED <<cache, prepared, cacheStatus>>
           \/ cache' = active /\ prepared' = hint
    BY <1>2 DEF EnterStart, Pin, Hand, Spawn, Undo, Fail, Stop
  <2>3. /\ pc' # "respawn" \/ (pc' = pc /\ target' = target)
        /\ recovery' = recovery \/ pc' # "respawn"
        /\ pc' = "reload" => rollback.hint # None \/ pc = "reload"
        /\ pc' \in {"undo", "reload", "recheck"} => inProgress
    BY <1>2 DEF EnterStart, Hand, Spawn, Undo, Fail, Stop, Ends, Raise, UndoFails
  <2> QED BY <2>1, <2>2, <2>3
<1>3. CASE Prepare
  <2>1. pc' \notin {"reload", "respawn", "recheck"} /\ (pc' = "undo" => inProgress)
    BY <1>3 DEF Prepare, Ends, Raise
  <2>2. UNCHANGED <<head, pending, active, hint, cache, prepared, rollback, warming, inProgress,
                    cacheStatus>>
    BY <1>3 DEF Prepare
  <2> QED BY <2>1, <2>2
<1>4. CASE Begin \/ Check \/ RestoreFails
  BY <1>4 DEF Begin, Check, RestoreFails, Ends, Raise, UndoFails
<1>5. CASE Finish
  BY <1>5 DEF StartInv, Starting, Finish, Ends
<1>6. CASE UndoKept
  BY <1>6 DEF UndoKept, Restored, Ends
<1>7. CASE Reload
  BY <1>7 DEF Reload
<1>8. CASE Respawn
  <2>1. ~Undoing' /\ pc' = "idle"
    BY <1>8 DEF Respawn, Restored, Ends
  <2>2. ~rollback'.kept
    BY <1>8, BecomeFacts DEF Respawn
  <2> QED BY <2>1, <2>2
<1>9. CASE Building
  BY <1>9 DEF Building
<1>10. CASE Prewarming
  <2>1. /\ inProgress /\ warming' # <<>> => Bounds(warming'[Len(warming')])
        /\ inProgress /\ warming' = <<>> => Bounds(Head(warming))
    BY <1>10, FirstWarmed DEF Prewarming, Warmed, WarmingFails
  <2> QED BY <1>10, <2>1 DEF Prewarming, Warmed, WarmingFails
<1>11. CASE Look \/ ProbeFails \/ ActRestart \/ ActNot \/ Enable
  <2>1. CASE Look
    BY <2>1 DEF Look
  <2>2. CASE ProbeFails \/ ActRestart
    BY <2>2 DEF ProbeFails, Found, ActRestart
  <2>3. CASE ActNot \/ Enable
    BY <2>3 DEF ActNot, Enable
  <2> QED BY <1>11, <2>1, <2>2, <2>3
<1>12. CASE Load
  BY <1>12 DEF TypeOK, NewestInv, NotNewer, Load
<1>13. CASE ActSwitch
  <2>1. rollback'.active = active /\ rollback'.hint \in Kept
    BY <1>13 DEF ActSwitch
  <2>2. /\ active <= pending /\ pending \in Nat
        /\ \A h \in Kept : h <= pending /\ hint \in {None, h}
    BY <1>13 DEF NewestInv, NotNewer, ActSwitch, Switch, TypeOK, Kept
  <2>3. warming' # <<>> /\ warming'[Len(warming')] = pending
    BY <1>13, <2>2, LastWarmed DEF ActSwitch
  <2>4. Bounds(warming[Len(warming)])'
    BY <2>1, <2>2, <2>3
  <2>5. inProgress' /\ UNCHANGED pending /\ pending # None
        /\ pc' \in {"idle", "enter"} /\ UNCHANGED <<active, hint>>
    BY <1>13 DEF ActSwitch, Switch, Acting
  <2> QED BY <2>1, <2>2, <2>3, <2>4, <2>5
<1>14. CASE Disable
  BY <1>14 DEF Disable
<1>15. CASE World
  BY <1>15 DEF World, Publish, GameStarts, GameEnds, Ails, Wakes
<1> QED BY <1>1, <1>2, <1>3, <1>4, <1>5, <1>6, <1>7, <1>8, <1>9, <1>10, <1>11, <1>12,
           <1>13, <1>14, <1>15
        DEF Next, Enabling, Ticking

------------------------------------------------------------------------------
(* Where a start is, and what it will launch.                               *)

LEMMA NextKeepsStart ==
  ASSUME TypeOK, SwitchInv, StartInv, Next PROVE StartInv'
<1> USE DEF StartInv, Starting, Lives
<1>1. CASE EnterDeferred \/ EnterRunning \/ Join \/ HandDeferred \/ Recheck \/ Begin \/ Check
  BY <1>1 DEF EnterDeferred, EnterRunning, Join, HandDeferred, Recheck, Begin, Check, Ends,
              Raise
<1>2. CASE EnterStart
  <2>1. CASE Become(NoProcess)
    <3>1. vision' = NoProcess /\ ~rollback'.kept
      BY <2>1, BecomeFacts
    <3>2. ~Lives(NoProcess)
      BY DEF NoProcess
    <3> QED BY <1>2, <3>1, <3>2 DEF EnterStart, Pin
  <2>2. CASE ~(Lives(vision) /\ ~inProgress)
    BY <1>2, <2>2 DEF EnterStart, Pin
  <2> QED BY <1>2, <2>1, <2>2 DEF EnterStart
<1>3. CASE Prepare
  <2>1. CASE Current /\ GoOn(IF recovery = None THEN "join" ELSE "hand") /\ UNCHANGED recovery
    BY <1>3, <2>1 DEF Prepare
  <2>2. CASE Ends
    BY <1>3, <2>2 DEF Prepare, Ends
  <2>3. CASE Raise /\ UNCHANGED recovery
    BY <1>3, <2>3 DEF Prepare, Raise
  <2> QED BY <1>3, <2>1, <2>2, <2>3 DEF Prepare
<1>4. CASE Hand \/ Undo \/ Fail
  <2>1. CASE Become(NoProcess)
    <3>1. vision' = NoProcess /\ ~rollback'.kept
      BY <2>1, BecomeFacts
    <3>2. ~Lives(NoProcess)
      BY DEF NoProcess
    <3> QED BY <1>4, <3>1, <3>2 DEF Hand, Undo, Fail, Ends, Raise, UndoFails
  <2>2. CASE ~Become(NoProcess) /\ UNCHANGED <<vision, rollback>>
    BY <1>4, <2>2 DEF Hand, Undo, Fail, Ends, Raise, UndoFails
  <2> QED BY <1>4, <2>1, <2>2 DEF Hand, Undo, Fail
<1>5. CASE Spawn
  <2>1. CASE Become(Spawned) /\ GoOn("check") /\ UNCHANGED recovery
    <3>1. vision' = Spawned /\ ~rollback'.kept
      BY <2>1, BecomeFacts
    <3> QED BY <1>5, <2>1, <3>1 DEF Spawn, Spawned
  <2>2. CASE Ends /\ UNCHANGED <<vision, rollback>>
    BY <1>5, <2>2 DEF Spawn, Ends
  <2>3. CASE Raise /\ UNCHANGED <<vision, rollback, recovery>>
    BY <1>5, <2>3 DEF Spawn, Raise
  <2> QED BY <1>5, <2>1, <2>2, <2>3 DEF Spawn
<1>6. CASE Finish \/ UndoKept \/ Respawn
  BY <1>6 DEF Finish, UndoKept, Respawn, Restored, Ends
<1>7. CASE Reload \/ RestoreFails
  BY <1>7 DEF Reload, RestoreFails, UndoFails, Raise
<1>8. CASE Building \/ Prewarming
  BY <1>8 DEF Building, Prewarming, Warmed, WarmingFails
<1>9. CASE Look \/ Load \/ ProbeFails
  BY <1>9 DEF Look, Load, ProbeFails, Seen
<1>10. CASE ActSwitch \/ ActRestart \/ ActNot \/ Enable
  BY <1>10 DEF ActSwitch, ActRestart, ActNot, Acting, Enable
<1>11. CASE Disable
  BY <1>11 DEF Disable
<1>12. CASE Stop
  <2>1. vision' = NoProcess /\ ~rollback'.kept
    BY <1>12, BecomeFacts DEF Stop
  <2>2. ~Lives(NoProcess)
    BY DEF NoProcess
  <2> QED BY <1>12, <2>1, <2>2 DEF Stop
<1>13. CASE Publish \/ GameStarts \/ GameEnds
  BY <1>13 DEF Publish, GameStarts, GameEnds
<1>14. CASE Ails \/ Wakes
  <2>1. vision'.cat = vision.cat /\ Lives(vision) /\ vision # NoProcess
    BY <1>14 DEF TypeOK, Processes, Ails, Wakes, Well, NoProcess
  <2> QED BY <1>14, <2>1 DEF Ails, Wakes
<1> QED BY <1>1, <1>2, <1>3, <1>4, <1>5, <1>6, <1>7, <1>8, <1>9, <1>10, <1>11, <1>12,
           <1>13, <1>14
        DEF Next, Enabling, Ticking, World

------------------------------------------------------------------------------
(* A sidecar that is not wanted is about to be stopped.                     *)

LEMMA NextKeepsStop ==
  ASSUME StartInv, StopInv, Next PROVE StopInv'
<1> USE DEF StopInv, Current
<1>1. CASE EnterDeferred \/ EnterRunning
  BY <1>1 DEF EnterDeferred, EnterRunning, Recovers
<1>2. CASE EnterStart
  BY <1>2 DEF EnterStart
<1>3. CASE Prepare
  BY <1>3 DEF Prepare
<1>4. CASE Join \/ HandDeferred \/ Recheck \/ Begin
  BY <1>4 DEF Join, HandDeferred, Recheck, Begin
<1>5. CASE Hand \/ Spawn \/ Check \/ Undo \/ Fail
  BY <1>5 DEF Hand, Spawn, Check, Undo, Fail, Become
<1>6. CASE Finish \/ UndoKept \/ Reload \/ Respawn \/ RestoreFails
  BY <1>6 DEF Finish, UndoKept, Reload, Respawn, RestoreFails, Restored
<1>7. CASE Building \/ Prewarming \/ Load \/ ProbeFails \/ ActSwitch \/ ActRestart \/ ActNot
  BY <1>7 DEF Building, Prewarming, Warmed, WarmingFails, Load, ProbeFails, Found, ActSwitch,
              ActRestart, ActNot
<1>8. CASE Look \/ Enable \/ Disable \/ Stop
  BY <1>8 DEF Look, Seen, Enable, Disable, Stop, Become
<1>9. CASE World
  BY <1>9 DEF World, Publish, GameStarts, GameEnds, Ails, Wakes, Well, NoProcess
<1> QED BY <1>1, <1>2, <1>3, <1>4, <1>5, <1>6, <1>7, <1>8, <1>9
        DEF Next, Enabling, Ticking

------------------------------------------------------------------------------
(* Which Catalog the process has.                                           *)

\* A switch that is undone puts back what is not newer than what is active.
LEMMA RespawnRestores ==
  ASSUME TypeOK, NewestInv, SwitchInv, StartInv, Respawn
  PROVE  /\ active' = rollback.active /\ hint' = rollback.hint /\ hint' # None
         /\ active' \in Nat /\ hint' \in Nat /\ pending' \in Nat /\ vision'.cat \in Nat
         /\ vision'.cat = IF recovery # None THEN active ELSE rollback.hint
         /\ rollback.active # None => active # None /\ rollback.active <= active
         /\ rollback.active # None => pending' # None /\ active' < pending' /\ active < pending'
<1>1. vision' = Spawned
  BY BecomeFacts DEF Respawn
<1>2. /\ target = IF recovery # None THEN active ELSE rollback.hint
      /\ target # None /\ rollback.hint # None
  BY DEF SwitchInv, StartInv, Respawn
<1>3. rollback.active # None => active # None /\ rollback.active <= active
  BY RollbackTypes DEF SwitchInv, Respawn, Bounds, Undoing, TypeOK
<1>4. rollback.active # None =>
        pending # None /\ rollback.active < pending /\ active < pending
  BY RollbackTypes DEF NewestInv, NotNewer, Undoing, Respawn, TypeOK
<1>5. vision'.cat = target
  BY <1>1, <1>2 DEF Spawned
<1>6. /\ active' = rollback.active /\ hint' = rollback.hint /\ pending' = pending
      /\ active' \in Nat /\ hint' \in Nat /\ pending' \in Nat /\ target \in Nat
  BY RollbackTypes DEF Respawn, TypeOK
<1> QED BY <1>2, <1>3, <1>4, <1>5, <1>6

\* What a respawn leaves is in the order the invariant asks for.
LEMMA RespawnOrder ==
  ASSUME TypeOK, NewestInv, SwitchInv, StartInv, Respawn, rollback.active # None
  PROVE  /\ active' = rollback.active /\ pending' # None
         /\ hint' <= active' => vision'.cat < pending'
         /\ hint' = active' => active' <= vision'.cat
         /\ vision'.cat # active' /\ hint' \in {None, active'} => active' < vision'.cat
<1>1. active \in Nat /\ rollback.active = active' /\ rollback.hint = hint'
  BY RespawnRestores DEF TypeOK
<1>2. CASE recovery # None
  BY <1>1, <1>2, RespawnRestores
<1>3. CASE recovery = None
  BY <1>1, <1>3, RespawnRestores
<1> QED BY <1>2, <1>3

LEMMA NextKeepsProcess ==
  ASSUME TypeOK, NewestInv, SwitchInv, StartInv, StopInv, CacheInv, ProcessInv, Next
  PROVE  ProcessInv'
<1> USE DEF ProcessInv
<1>1. CASE EnterDeferred
  BY <1>1 DEF EnterDeferred, Recovers
<1>2. CASE EnterRunning \/ EnterStart
  BY <1>2 DEF EnterRunning, EnterStart, Become
<1>3. CASE Prepare
  BY <1>3 DEF Prepare, Ends, Raise
<1>4. CASE Join \/ HandDeferred
  BY <1>4 DEF Join, HandDeferred, Ends, Raise
<1>5. CASE Hand \/ Recheck \/ Begin
  BY <1>5 DEF Hand, Recheck, Begin, Become, Ends, Raise
<1>6. CASE Spawn
  BY <1>6 DEF StartInv, Starting, CacheInv, Spawn, Spawned, Become, Ends, Raise
<1>7. CASE Check
  <2>1. CASE pc' = "undo" /\ UNCHANGED recovery
    BY <1>7, <2>1 DEF StartInv, Starting, Check
  <2>2. CASE Raise
    BY <1>7, <2>2 DEF StartInv, Starting, Check, Raise
  <2>3. CASE ~Current /\ Ends
    BY <1>7, <2>3 DEF StartInv, Starting, StopInv, Check, Ends
  <2> QED BY <1>7, <2>1, <2>2, <2>3 DEF Check, Raise
<1>8. CASE Finish
  BY <1>8 DEF StartInv, Starting, Finish, Ends
<1>9. CASE UndoKept
  <2>1. /\ rollback.kept /\ UNCHANGED <<vision, active, pending>> /\ hint' = rollback.hint
        /\ pc = "undo"
    BY <1>9 DEF UndoKept
  <2>2. /\ hint \in {None, hint'} /\ hint' \in Nat /\ active \in Nat /\ pending \in Nat
        /\ vision.cat \in Nat
    BY <2>1, RollbackTypes DEF SwitchInv, TypeOK
  <2>3. status \in {"starting", "stopping", "stopped"}
    BY <2>1 DEF StartInv
  <2> QED BY <2>1, <2>2, <2>3
<1>10. CASE Undo \/ RestoreFails \/ Fail
  BY <1>10 DEF Undo, RestoreFails, Fail, Become, Ends, Raise, UndoFails
<1>11. CASE Reload
  BY <1>11 DEF Reload
<1>12. CASE Respawn
  <2>1. active' = rollback.active
    BY <1>12, RespawnRestores
  <2> QED BY <1>12, <2>1, RespawnOrder
<1>13. CASE Building \/ Prewarming
  BY <1>13 DEF Building, Prewarming, Warmed, WarmingFails
<1>14. CASE Look
  BY <1>14 DEF Look, Seen
<1>15. CASE Load
  <2>1. ASSUME active # None, pending # None PROVE pending' # None /\ pending <= pending'
    <3>1. active < head
      BY <2>1 DEF TypeOK, NewestInv, NotNewer
    <3> QED BY <1>15, <2>1, <3>1 DEF TypeOK, NewestInv, Load, Known
  <2>2. vision.cat \in Nat /\ pending \in Nat /\ pending' \in Nat
    BY <1>15, RollbackTypes DEF TypeOK, Load
  <2> QED BY <1>15, <2>1, <2>2 DEF Load
<1>16. CASE ProbeFails \/ ActRestart \/ ActNot
  BY <1>16 DEF ProbeFails, ActRestart, Acting, ActNot
<1>17. CASE ActSwitch \/ Enable
  BY <1>17 DEF StopInv, ActSwitch, Switch, Acting, Enable, Current
<1>18. CASE Disable \/ Stop
  BY <1>18 DEF Disable, Stop, Become
<1>19. CASE Publish \/ GameStarts \/ GameEnds
  BY <1>19 DEF Publish, GameStarts, GameEnds
<1>20. CASE Ails
  BY <1>20 DEF Ails, Well, NoProcess
<1>21. CASE Wakes
  BY <1>21 DEF Wakes, NoProcess
<1> QED BY <1>1, <1>2, <1>3, <1>4, <1>5, <1>6, <1>7, <1>8, <1>9, <1>10, <1>11, <1>12,
           <1>13, <1>14, <1>15, <1>16, <1>17, <1>18, <1>19, <1>20, <1>21
        DEF Next, Enabling, Ticking, World

------------------------------------------------------------------------------
(* Which templates there are when nothing is pending.                       *)

LEMMA LoadForgetsNothing ==
  ASSUME TypeOK, NewestInv, active # None, Load, pending' = None PROVE pending = None
<1>1. active \in {None, head}
  BY DEF Load, Known, TypeOK, NewestInv, NotNewer
<1> QED BY <1>1 DEF TypeOK, NewestInv, NotNewer

LEMMA NextKeepsCache ==
  ASSUME TypeOK, NewestInv, SwitchInv, StartInv, CacheInv, Next PROVE CacheInv'
<1> USE DEF CacheInv
<1>1. CASE EnterDeferred \/ EnterRunning \/ EnterStart
  BY <1>1 DEF EnterDeferred, EnterRunning, EnterStart, Pin
<1>2. CASE Prepare
  BY <1>2 DEF Prepare
<1>3. CASE Join \/ HandDeferred \/ Hand
  BY <1>3 DEF Join, HandDeferred, Hand
<1>4. CASE Recheck \/ Begin \/ Spawn \/ Check \/ Undo \/ RestoreFails \/ Fail
  BY <1>4 DEF Recheck, Begin, Spawn, Check, Undo, RestoreFails, Fail
<1>5. CASE Finish
  BY <1>5 DEF NewestInv, StartInv, Starting, Finish
<1>6. CASE UndoKept \/ Reload
  BY <1>6 DEF SwitchInv, UndoKept, Reload
<1>7. CASE Respawn
  BY <1>7 DEF NewestInv, Undoing, Respawn
<1>8. CASE Building \/ Prewarming
  BY <1>8 DEF Building, Prewarming, Warmed, WarmingFails
<1>9. CASE Look \/ ProbeFails \/ ActSwitch \/ ActRestart \/ ActNot
  BY <1>9 DEF Look, ProbeFails, ActSwitch, Switch, ActRestart, ActNot
<1>10. CASE Load
  BY <1>10, LoadForgetsNothing DEF Load
<1>11. CASE Enable \/ Disable \/ Stop
  BY <1>11 DEF Enable, Disable, Stop
<1>12. CASE World
  BY <1>12 DEF World, Publish, GameStarts, GameEnds, Ails, Wakes
<1> QED BY <1>1, <1>2, <1>3, <1>4, <1>5, <1>6, <1>7, <1>8, <1>9, <1>10, <1>11, <1>12
        DEF Next, Enabling, Ticking

------------------------------------------------------------------------------
(* What a game has been served with.                                        *)

\* The process that is kept is not older than the record its switch leaves.
LEMMA KeptStays ==
  ASSUME TypeOK, SwitchInv, StartInv, ProcessInv, UndoKept
  PROVE  /\ UNCHANGED <<vision, active, pending>> /\ active = rollback.active
         /\ hint' <= active /\ active # None /\ pending # None /\ active < pending =>
              vision.cat < pending
         /\ OnRecord' => active <= vision.cat
<1>1. /\ rollback.kept /\ UNCHANGED <<vision, active, pending>> /\ hint' = rollback.hint
      /\ pc = "undo" /\ vision # NoProcess
  BY DEF UndoKept, Well, NoProcess
<1>2. /\ hint \in {None, hint'} /\ hint' \in Nat /\ active \in Nat /\ pending \in Nat
      /\ vision.cat \in Nat /\ active = rollback.active
  BY <1>1, RollbackTypes DEF SwitchInv, TypeOK
<1> QED BY <1>1, <1>2 DEF ProcessInv, OnRecord

LEMMA NextKeepsPlayed ==
  ASSUME TypeOK, NewestInv, SwitchInv, StartInv, ProcessInv, CacheInv, PlayedInv, Next
  PROVE  PlayedInv'
<1> USE DEF PlayedInv, OnRecord, Starting
<1>1. CASE EnterDeferred \/ EnterRunning \/ Join \/ HandDeferred \/ Hand \/ Recheck
  BY <1>1 DEF EnterDeferred, Recovers, EnterRunning, Join, HandDeferred, Hand, Recheck, Ends, Raise
<1>2. CASE EnterStart
  <2>1. rollback'.kept => UNCHANGED <<vision, rollback>>
    BY <1>2, BecomeFacts DEF EnterStart
  <2> QED BY <1>2, <2>1 DEF CacheInv, EnterStart, Pin, Deferred, Recovers
<1>3. CASE Prepare
  BY <1>3 DEF Prepare, Ends, Raise
<1>4. CASE Begin \/ Spawn \/ Check \/ Undo \/ Reload \/ RestoreFails \/ Fail
  <2>1. rollback'.kept => UNCHANGED <<vision, rollback>>
    BY <1>4, BecomeFacts DEF Begin, Spawn, Check, Undo, Reload, RestoreFails, Fail
  <2> QED BY <1>4, <2>1
          DEF Begin, Spawn, Check, Undo, Reload, RestoreFails, Fail, Ends, Raise, UndoFails
<1>5. CASE Finish
  BY <1>5, RollbackTypes DEF StartInv, Finish, Serves, Lives, NoProcess, Ends, TypeOK
<1>6. CASE UndoKept
  <2>1. OnRecord' => active' <= vision'.cat
    BY <1>6, KeptStays
  <2>2. pc' = "idle" /\ blocked' = blocked /\ Serves(vision')
    BY <1>6 DEF UndoKept, Restored, Ends
  <2>3. played' # {} => blocked' /\ vision'.cat \in played'
    BY <2>2 DEF Serves
  <2> QED BY <2>1, <2>2, <2>3
<1>7. CASE Respawn
  <2>1. /\ Serves(vision') /\ pc' = "idle" /\ UNCHANGED <<blocked, pending>>
    BY <1>7 DEF Respawn, Restored, Ends
  <2>2. played' # {} => blocked'
    BY <2>1 DEF Serves
  <2>3. ASSUME OnRecord', played' # {} PROVE \E c \in played' : active' <= c
    <3>1. active' <= vision'.cat
      BY <1>7, <2>3, RespawnOrder, RespawnRestores
    <3>2. vision'.cat \in played'
      BY <2>1, <2>2, <2>3 DEF Serves
    <3> QED BY <3>1, <3>2
  <2>4. ~rollback'.kept
    BY <1>7, BecomeFacts DEF Respawn
  <2> QED BY <2>1, <2>2, <2>3, <2>4
<1>8. CASE Building \/ Prewarming
  BY <1>8 DEF Building, Prewarming, Warmed, WarmingFails
<1>9. CASE Look
  BY <1>9 DEF Look, Seen
<1>10. CASE Load
  BY <1>10, LoadForgetsNothing DEF Load
<1>11. CASE ProbeFails \/ ActSwitch \/ ActRestart \/ ActNot
  BY <1>11 DEF ProbeFails, ActSwitch, Switch, ActRestart, Acting, ActNot
<1>12. CASE Enable \/ Disable \/ Stop
  <2>1. rollback'.kept => UNCHANGED <<vision, rollback>>
    BY <1>12, BecomeFacts DEF Enable, Disable, Stop
  <2> QED BY <1>12, <2>1 DEF Enable, Acting, Disable, Stop
<1>13. CASE Publish \/ GameEnds \/ Ails \/ Wakes
  <2>1. vision'.cat = vision.cat
    BY <1>13 DEF TypeOK, Processes, Publish, GameEnds, Ails, Wakes
  <2> QED BY <1>13, <2>1 DEF Publish, GameEnds, Ails, Wakes
<1>14. CASE GameStarts
  <2>1. UNCHANGED <<active, hint, pending, pc, status, inProgress, recovery, cache, warming,
                    vision, rollback>>
    BY <1>14 DEF GameStarts
  <2>2. played' = Serving /\ blocked'
    BY <1>14 DEF GameStarts
  <2>3. ASSUME Serving # {}
        PROVE  /\ Serving = {vision.cat} /\ vision # NoProcess /\ Lives(vision)
               /\ pc # "check" /\ (pc = "undo" => rollback.kept)
    BY <2>3 DEF Serving, Well, Lives, NoProcess
  <2>4. ASSUME Serving # {} PROVE ~(pc \in Starting /\ ~inProgress)
    BY <2>3, <2>4 DEF StartInv
  <2>5. ASSUME Serving # {}, OnRecord, vision.cat # active
        PROVE  \/ active <= vision.cat
               \/ /\ pending # None
                  /\ pc = "fail" \/ (pc = "idle" /\ status \in {"stopping", "stopped"})
    BY <2>3, <2>5, RollbackTypes DEF ProcessInv, TypeOK
  <2> QED BY <2>1, <2>2, <2>3, <2>4, <2>5, RollbackTypes DEF TypeOK
<1> QED BY <1>1, <1>2, <1>3, <1>4, <1>5, <1>6, <1>7, <1>8, <1>9, <1>10, <1>11, <1>12,
           <1>13, <1>14
        DEF Next, Enabling, Ticking, World

------------------------------------------------------------------------------
(* The inductive invariant.                                                 *)

LEMMA InitIInv == ASSUME Init PROVE IInv
<1>1. TypeOK
  <2>1. <<1>> \in Seq(Nat) /\ 0 \in Nat /\ 1 \in Nat
    OBVIOUS
  <2>2. NoTick \in Ticks /\ NoProcess \in Processes
    BY <2>1 DEF NoTick, Ticks, NoProcess, Processes
  <2> QED BY <2>1, <2>2, Zenon DEF Init, TypeOK, Rollbacks
<1>2. NewestInv
  BY DEF Init, NewestInv, NotNewer, Undoing
<1>3. SwitchInv /\ StartInv /\ StopInv
  BY DEF Init, SwitchInv, Undoing, StartInv, Starting, Lives, NoProcess, StopInv, Current
<1>4. ProcessInv /\ CacheInv /\ PlayedInv
  BY DEF Init, ProcessInv, CacheInv, PlayedInv, OnRecord
<1> QED BY <1>1, <1>2, <1>3, <1>4 DEF IInv

LEMMA NextKeepsIInv == IInv /\ [Next]_vars => IInv'
<1> SUFFICES ASSUME IInv, [Next]_vars PROVE IInv'
  OBVIOUS
<1>1. CASE Next
  <2>1. TypeOK'
    BY <1>1, EnablingKeepsTypes, OthersKeepTypes DEF Next, IInv
  <2>2. NewestInv' /\ SwitchInv' /\ StartInv' /\ StopInv'
    BY <1>1, NextKeepsNewest, NextKeepsSwitch, NextKeepsStart, NextKeepsStop DEF IInv
  <2>3. ProcessInv' /\ CacheInv' /\ PlayedInv'
    BY <1>1, NextKeepsProcess, NextKeepsCache, NextKeepsPlayed DEF IInv
  <2> QED BY <2>1, <2>2, <2>3 DEF IInv
<1>2. CASE UNCHANGED vars
  BY <1>2 DEF vars, IInv, TypeOK, NewestInv, NotNewer, SwitchInv, Bounds, StartInv, StopInv,
              Current, ProcessInv, CacheInv, PlayedInv, Undoing, Starting, Lives, OnRecord
<1> QED BY <1>1, <1>2

(* Whatever overtakes a switch, the invariant holds: what is pending is newer
   than all that is known, and an undone switch finds what it puts back. *)
THEOREM HandoffInvariant == Spec => []IInv
<1> QED BY InitIInv, NextKeepsIInv, PTL DEF Spec

------------------------------------------------------------------------------
(* What follows from it.                                                    *)

\* Only these steps record, serve or restore.
LEMMA OthersLeaveTheRecord ==
  ASSUME [Next]_vars, ~Finish, ~UndoKept, ~Respawn
  PROVE  active' = active /\ (blocked => played' \subseteq played) /\ ~Undone
<1> USE DEF Next, vars, Enabling, EnterDeferred, EnterRunning, EnterStart, Prepare, Join,
            HandDeferred, Hand, Recheck, Begin, Spawn, Check, Undo, Reload, RestoreFails, Fail,
            Building, Prewarming, Warmed, WarmingFails, Ticking, Look, Load, ProbeFails,
            ActSwitch, ActRestart, ActNot, Enable, Disable, Stop, World, Publish, GameStarts,
            GameEnds, Ails, Wakes
<1>1. active' = active
  OBVIOUS
<1>2. blocked => played' \subseteq played
  OBVIOUS
<1>3. ~Undone
  BY DEF Undone, Ends, Raise, UndoFails, Acting
<1> QED BY <1>1, <1>2, <1>3

LEMMA StepRestores ==
  ASSUME IInv, [Next]_vars, Undone,
         rollback.active # None
  PROVE  /\ active' = rollback.active
         /\ hint' <= active' => vision'.cat < pending'
         /\ OnRecord' => active' <= vision'.cat
<1>1. CASE Finish
  BY <1>1 DEF Undone, Finish
<1>2. CASE UndoKept
  <2>1. active < pending /\ pending # None
    BY <1>2, KeptStays DEF IInv, SwitchInv, NewestInv, NotNewer, UndoKept, TypeOK
  <2> QED BY <1>2, <2>1, KeptStays DEF IInv
<1>3. CASE Respawn
  BY <1>3, RespawnOrder DEF IInv, OnRecord
<1> QED BY <1>1, <1>2, <1>3, OthersLeaveTheRecord

LEMMA StepAdoptsNothingNewer ==
  ASSUME IInv, [Next]_vars, OnRecord, blocked, inProgress \/ played # {}
  PROVE  active' <= active
<1>1. CASE Finish
  <2>1. ~inProgress /\ played # {}
    BY <1>1 DEF Finish
  <2>2. active' = active
    BY <1>1, <2>1 DEF IInv, StartInv, PlayedInv, Starting, Finish
  <2> QED BY <2>2 DEF IInv, TypeOK
<1>2. CASE UndoKept
  BY <1>2 DEF IInv, TypeOK, UndoKept
<1>3. CASE Respawn
  BY <1>3 DEF IInv, SwitchInv, TypeOK, Undoing, Bounds, Respawn
<1>4. CASE active' = active
  BY <1>4 DEF IInv, TypeOK
<1> QED BY <1>1, <1>2, <1>3, <1>4, OthersLeaveTheRecord

LEMMA StepServesNothingNewer ==
  ASSUME IInv, [Next]_vars, OnRecord, played # {}, NEW c \in played' \ played
  PROVE  \E d \in played : c <= d
<1>1. blocked
  BY DEF IInv, PlayedInv
<1>2. Finish \/ UndoKept \/ Respawn
  BY <1>1, OthersLeaveTheRecord
<1>3. c = vision'.cat
  <2>1. Serves(vision')
    BY <1>2 DEF Finish, UndoKept, Respawn, Restored
  <2> QED BY <2>1 DEF Serves
<1>4. \E d \in played : active <= d
  BY <1>2 DEF IInv, PlayedInv, Finish, UndoKept, Respawn
<1>5. c <= active
  <2>1. CASE Finish
    <3>1. target = active /\ vision.cat = active
      BY <1>1, <2>1
         DEF IInv, StartInv, Starting, PlayedInv, OnRecord, Finish, Lives, NoProcess
    <3> QED BY <1>3, <2>1, <3>1 DEF Finish, IInv, TypeOK
  <2>2. CASE UndoKept
    <3>1. vision.cat \in played /\ vision' = vision
      BY <2>2 DEF IInv, PlayedInv, UndoKept
    <3> QED BY <1>3, <3>1
  <2>3. CASE Respawn
    <3>1. vision'.cat \in {active, rollback.hint}
      BY <2>3, RespawnRestores DEF IInv
    <3> QED BY <1>3, <2>3, <3>1, RollbackTypes
            DEF IInv, SwitchInv, Undoing, Bounds, OnRecord, Respawn, TypeOK
  <2> QED BY <1>2, <2>1, <2>2, <2>3
<1>6. c \in Nat /\ active \in Nat /\ played \subseteq Nat
  <2>1. TypeOK'
    BY NextKeepsIInv DEF IInv
  <2> QED BY <2>1 DEF IInv, TypeOK
<1> QED BY <1>4, <1>5, <1>6

(* A game that a Catalog has served gets no newer one, and a switch that has
   begun does not end with the new Catalog in a game. *)
THEOREM NothingNewerInGameTheorem == Spec => NothingNewerInGame
<1>1. IInv /\ [Next]_vars =>
        [OnRecord =>
           /\ blocked /\ (inProgress \/ played # {}) => active' <= active
           /\ played # {} => \A c \in played' \ played : \E d \in played : c <= d]_vars
  BY StepAdoptsNothingNewer, StepServesNothingNewer
<1> QED BY <1>1, HandoffInvariant, PTL DEF Spec, NothingNewerInGame

(* A switch that is undone ends with what was on record before it. *)
THEOREM RollbackRestoresTheorem == Spec => RollbackRestores
<1>1. IInv /\ [Next]_vars =>
        [Undone /\ rollback.active # None =>
           /\ active' = rollback.active
           /\ hint' <= active' => vision'.cat < pending'
           /\ OnRecord' => active' <= vision'.cat]_vars
  BY StepRestores
<1> QED BY <1>1, HandoffInvariant, PTL DEF Spec, RollbackRestores
==============================================================================
