------------------------- MODULE StatisticsPinProofs -------------------------
(***************************************************************************)
(* Proofs about StatisticsPin, for any number of games and generations.    *)
(* From the first selection on, what a game may get - its own view, and    *)
(* the one it would start with - is what it had then (HeldSince); that     *)
(* rests on what the worker's locals say of the pin (RunOK).  A result     *)
(* belongs to the last request because a version that is still the last    *)
(* is that request (RunOK, AskedOK).                                       *)
(***************************************************************************)
EXTENDS StatisticsPin, TLAPS

LEMMA RunMoves ==
  ASSUME NEW r \in Runs, NEW p \in Places
  PROVE  [r EXCEPT !.pc = p] \in Runs
BY DEF Runs

LEMMA RunSuperseded ==
  ASSUME NEW r \in Runs
  PROVE  [r EXCEPT !.fresh = FALSE] \in Runs
BY DEF Runs

LEMMA RunAdopts ==
  ASSUME NEW r \in Runs, NEW b \in BOOLEAN, NEW v \in Views
  PROVE  [r EXCEPT !.pc = "adopt", !.started = b, !.opened = v] \in Runs
BY DEF Runs, Places

LEMMA BeginType ==
  ASSUME key \in Asks, NEW j \in {"probe", "prepare"}
  PROVE  /\ Begin(j) \in Runs
         /\ Begin(j).pc = "resolve" /\ Begin(j).req = key
BY PinAssumption DEF Begin, Runs, Places, Views

LEMMA WaitingType ==
  /\ NoEvent \in Events /\ NoAsk \in Asks /\ Waiting \in Runs /\ NoPin \in Pins /\ 0 \in Views
  /\ NoResult \in [phase : {"none", "hints", "ready"}, game : 0 .. LastGame, view : Views]
<1>1. NoEvent \in Events /\ 0 \in Views /\ NoAsk \in Asks
  BY PinAssumption DEF NoEvent, Events, Kinds, Views, NoAsk, Ask, Asks
<1> QED
  BY <1>1, PinAssumption DEF Waiting, Runs, Places, NoPin, Pins, NoResult

LEMMA InitInvariant == Init => IInv
<1> SUFFICES ASSUME Init PROVE IInv
  OBVIOUS
<1>1. TypeOK
  <2>1. 1 \in Views
    BY PinAssumption DEF Views
  <2>2. 0 \in 0 .. LastGame
    BY PinAssumption
  <2>3. observed \in [game : 0 .. LastGame, session : 0 .. LastGame, started : BOOLEAN]
    BY <2>2 DEF Init
  <2>4. requested \in [game : 0 .. LastGame, started : BOOLEAN]
    BY <2>2 DEF Init
  <2> QED
    BY <2>1, <2>2, <2>3, <2>4, WaitingType DEF Init, TypeOK
<1> USE PinAssumption DEF Init, NoEvent, NoAsk, Ask, NoResult, NoPin, Waiting
<1>2. HeldSince /\ RunOK /\ AskedOK /\ ResultsBelong
  BY DEF HeldSince, RunOK, AskedOK, ResultsBelong, Started
<1> QED
  BY <1>1, <1>2 DEF IInv

LEMMA ObserveStep ==
  ASSUME IInv, NEW e \in Events, Observe(e)
  PROVE  IInv'
<1> USE PinAssumption DEF IInv, Observe, Seen, Held, asking, resolve
<1>1. TypeOK'
  <2>1. observed' \in [game : 0 .. LastGame, session : 0 .. LastGame, started : BOOLEAN]
    <3>1. e \in [game : 0 .. LastGame, kind : Kinds] /\ Started(e) \in BOOLEAN
      BY DEF Events, Started
    <3>2. CASE e.game = 0
      BY <3>1, <3>2 DEF TypeOK
    <3>3. CASE e.game # 0
      <4>1. (observed.started /\ e.game = observed.session) \/ Started(e) \in BOOLEAN
        BY <3>1
      <4> QED
        BY <3>1, <3>3, <4>1 DEF TypeOK
    <3> QED
      BY <3>2, <3>3
  <2>2. known' \in SUBSET Views
    BY DEF TypeOK, Pins
  <2> QED
    BY <2>1, <2>2 DEF TypeOK
<1>2. HeldSince'
  BY DEF TypeOK, HeldSince, RunOK, Views
<1>3. RunOK'
  BY DEF TypeOK, Runs, RunOK, AskedOK
<1>4. AskedOK'
  BY DEF TypeOK, AskedOK, RunOK, Started, ResultsBelong
<1>5. ResultsBelong'
  BY DEF TypeOK, ResultsBelong, AskedOK, RunOK, HeldSince
<1> QED
  BY <1>1, <1>2, <1>3, <1>4, <1>5

LEMMA NewGenerationStep ==
  ASSUME IInv, NewGeneration
  PROVE  IInv'
<1> USE PinAssumption DEF IInv, NewGeneration, asking, resolve
<1>1. TypeOK'
  BY DEF TypeOK, Runs, Views, Kinds
<1>2. HeldSince'
  BY DEF TypeOK, HeldSince, RunOK, Views
<1>3. RunOK'
  BY DEF TypeOK, Runs, RunOK, AskedOK
<1>4. AskedOK'
  BY DEF TypeOK, AskedOK, RunOK, Started, ResultsBelong
<1>5. ResultsBelong'
  BY DEF TypeOK, ResultsBelong, AskedOK, RunOK, HeldSince
<1> QED
  BY <1>1, <1>2, <1>3, <1>4, <1>5

LEMMA RequestStep ==
  ASSUME IInv, NEW e \in Read, NEW ok \in BOOLEAN, Request(e, ok)
  PROVE  IInv'
<1>1. TypeOK'
  <2>1. run' \in Runs
    <3>1. run' = run \/ run' = [run EXCEPT !.fresh = FALSE]
      BY DEF Request, Invalidated, Supersede
    <3> QED
      BY <3>1, RunSuperseded DEF IInv, TypeOK
  <2>2. e \in Events
    BY WaitingType DEF Read
  <2>3. Ask(e, ok) \in Asks
    BY <2>2 DEF Ask, Asks, Events
  <2>4. requested' \in [game : 0 .. LastGame, started : BOOLEAN]
    <3>1. (requested.started /\ e.game = requested.game) \/ Started(e) \in BOOLEAN
      BY DEF Started
    <3>2. e.game \in 0 .. LastGame
      BY <2>2 DEF Events
    <3> QED
      BY <3>1, <3>2 DEF Request
  <2> QED
    BY <2>1, <2>2, <2>3, <2>4, WaitingType, PinAssumption
       DEF IInv, TypeOK, Request, Invalidated, resolve
<1> USE PinAssumption DEF IInv, Request, Invalidated, Supersede, Read, Asks, Events,
                        NoEvent, NoAsk,
                         Ask, NoResult, Started, resolve
<1>2. HeldSince'
  BY DEF TypeOK, HeldSince, RunOK, Views
<1>3. RunOK'
  BY DEF TypeOK, Runs, RunOK, AskedOK
<1>4. AskedOK'
  <2>1. CASE Invalidated
    BY <2>1 DEF AskedOK
  <2>2. CASE e.game # 0 /\ key = Ask(e, ok) /\ UNCHANGED <<key, pending, result, run>>
    BY <2>2 DEF AskedOK, TypeOK
  <2>3. CASE e.game # 0 /\ key' = Ask(e, ok) /\ result' = NoResult
    BY <2>3 DEF AskedOK, TypeOK
  <2> QED
    BY <2>1, <2>2, <2>3
<1>5. ResultsBelong'
  BY DEF TypeOK, ResultsBelong, AskedOK, RunOK, HeldSince
<1> QED
  BY <1>1, <1>2, <1>3, <1>4, <1>5

LEMMA WithdrawStep ==
  ASSUME IInv, Withdraw
  PROVE  IInv'
<1>1. TypeOK'
  <2>1. run' \in Runs
    <3>1. run' = run \/ run' = [run EXCEPT !.fresh = FALSE]
      BY DEF Withdraw, Invalidated, Supersede
    <3> QED
      BY <3>1, RunSuperseded DEF IInv, TypeOK
  <2> QED
    BY <2>1, WaitingType, PinAssumption DEF IInv, TypeOK, Withdraw, Invalidated, resolve
<1> USE PinAssumption DEF IInv, Withdraw, Invalidated, Supersede, NoEvent, NoAsk, Ask,
                        NoResult, Events, resolve, Started
<1>2. HeldSince'
  BY DEF TypeOK, HeldSince, RunOK, Views
<1>3. RunOK'
  BY DEF TypeOK, Runs, RunOK, AskedOK
<1>4. AskedOK'
  BY DEF TypeOK, AskedOK, RunOK, Started, ResultsBelong
<1>5. ResultsBelong'
  BY DEF TypeOK, ResultsBelong, AskedOK, RunOK, HeldSince
<1> QED
  BY <1>1, <1>2, <1>3, <1>4, <1>5

LEMMA CloseStep ==
  ASSUME IInv, Close
  PROVE  IInv'
<1>1. TypeOK'
  <2>1. run' \in Runs
    <3>1. run' = run \/ run' = [run EXCEPT !.fresh = FALSE]
      BY DEF Close, Supersede
    <3> QED
      BY <3>1, RunSuperseded DEF IInv, TypeOK
  <2> QED
    BY <2>1, WaitingType, PinAssumption DEF IInv, TypeOK, Close, resolve
<1> USE PinAssumption DEF IInv, Close, Supersede, NoResult, resolve
<1>2. HeldSince'
  BY DEF TypeOK, HeldSince, RunOK, Views
<1>3. RunOK'
  BY DEF TypeOK, Runs, RunOK, AskedOK
<1>4. AskedOK'
  BY DEF TypeOK, AskedOK, RunOK, Started, ResultsBelong
<1>5. ResultsBelong'
  BY DEF TypeOK, ResultsBelong, AskedOK, RunOK, HeldSince
<1> QED
  BY <1>1, <1>2, <1>3, <1>4, <1>5

LEMMA TakeStep ==
  ASSUME IInv, Take
  PROVE  IInv'
<1>1. TypeOK'
  <2>1. run' \in Runs
    BY BeginType, WaitingType, PinAssumption DEF IInv, TypeOK, Take
  <2> QED
    BY <2>1, WaitingType, PinAssumption DEF IInv, TypeOK, Take, asking, resolve
<1> USE PinAssumption DEF IInv, Take, Begin, Asked, Waiting, resolve, Asks, Events,
                        NoEvent, NoAsk, Ask
<1>2. HeldSince'
  BY DEF TypeOK, HeldSince, RunOK, Views
<1>3. RunOK'
  BY DEF TypeOK, Runs, RunOK, AskedOK
<1>4. AskedOK'
  BY DEF TypeOK, AskedOK, RunOK, Started, ResultsBelong
<1>5. ResultsBelong'
  BY DEF TypeOK, ResultsBelong, AskedOK, RunOK, HeldSince
<1> QED
  BY <1>1, <1>2, <1>3, <1>4, <1>5

LEMMA LookAgainStep ==
  ASSUME IInv, LookAgain
  PROVE  IInv'
<1>1. TypeOK'
  <2>1. run' \in Runs
    BY BeginType, WaitingType, PinAssumption DEF IInv, TypeOK, LookAgain
  <2> QED
    BY <2>1, WaitingType, PinAssumption DEF IInv, TypeOK, LookAgain, asking, resolve
<1> USE PinAssumption DEF IInv, LookAgain, Begin, Asked, Waiting, asking, resolve, Asks,
                        Events, NoEvent, NoAsk, Ask
<1>2. HeldSince'
  BY DEF TypeOK, HeldSince, RunOK, Views
<1>3. RunOK'
  BY DEF TypeOK, Runs, RunOK, AskedOK
<1>4. AskedOK'
  <2>1. run'.fresh
    OBVIOUS
  <2> QED
    BY <2>1 DEF AskedOK, Started
<1>5. ResultsBelong'
  BY DEF TypeOK, ResultsBelong, AskedOK, RunOK, HeldSince
<1> QED
  BY <1>1, <1>2, <1>3, <1>4, <1>5

LEMMA ExitStep ==
  ASSUME IInv, Exit
  PROVE  IInv'
<1>1. TypeOK'
  <2>1. run' \in Runs
    BY RunMoves, PinAssumption DEF IInv, TypeOK, Exit, At, Places
  <2> QED
    BY <2>1, WaitingType, PinAssumption DEF IInv, TypeOK, Exit, asking, resolve
<1> USE PinAssumption DEF IInv, Exit, At, asking, resolve
<1>2. HeldSince'
  BY DEF TypeOK, HeldSince, RunOK, Views
<1>3. RunOK'
  BY DEF TypeOK, Runs, RunOK, AskedOK
<1>4. AskedOK'
  BY DEF TypeOK, AskedOK, RunOK, Started, ResultsBelong
<1>5. ResultsBelong'
  BY DEF TypeOK, ResultsBelong, AskedOK, RunOK, HeldSince
<1> QED
  BY <1>1, <1>2, <1>3, <1>4, <1>5

LEMMA IdleOpenStep ==
  ASSUME IInv, IdleOpen
  PROVE  IInv'
<1>1. TypeOK'
  <2>1. run' \in Runs
    BY WaitingType DEF IInv, TypeOK, IdleOpen, Waiting, Runs, Places
  <2> QED
    BY <2>1 DEF IInv, TypeOK, IdleOpen, asking, resolve
<1> USE PinAssumption DEF IInv, IdleOpen, Waiting, asking, resolve, Asks, Events, NoEvent,
                        NoAsk, Ask
<1>2. HeldSince'
  BY DEF TypeOK, HeldSince, RunOK, Views
<1>3. RunOK'
  BY DEF TypeOK, Runs, RunOK, AskedOK
<1>4. AskedOK'
  BY DEF TypeOK, AskedOK, RunOK, Started, ResultsBelong
<1>5. ResultsBelong'
  BY DEF TypeOK, ResultsBelong, AskedOK, RunOK, HeldSince
<1> QED
  BY <1>1, <1>2, <1>3, <1>4, <1>5

LEMMA IdleSettleStep ==
  ASSUME IInv, IdleSettle
  PROVE  IInv'
<1>1. TypeOK'
  BY WaitingType DEF IInv, TypeOK, IdleSettle, Runs, asking
<1> USE PinAssumption DEF IInv, IdleSettle, Waiting, AnyStarted, asking, Asks, Events,
                        NoEvent, NoAsk, Ask
<1>2. HeldSince'
  BY DEF TypeOK, HeldSince, RunOK, Views
<1>3. RunOK'
  BY DEF TypeOK, Runs, RunOK, AskedOK
<1>4. AskedOK'
  BY DEF TypeOK, AskedOK, RunOK, Started, ResultsBelong
<1>5. ResultsBelong'
  BY DEF TypeOK, ResultsBelong, AskedOK, RunOK, HeldSince
<1> QED
  BY <1>1, <1>2, <1>3, <1>4, <1>5

LEMMA ResolveStep ==
  ASSUME IInv, Resolve
  PROVE  IInv'
<1>1. TypeOK'
  <2>0. FirstSeen \in BOOLEAN
    BY DEF FirstSeen, IInv, TypeOK
  <2>1. run' \in Runs
    <3>1. run' = [run EXCEPT !.pc = "keep"]
          \/ run' = [run EXCEPT !.pc = "adopt", !.started = FirstSeen, !.opened = current]
      BY DEF Resolve, At
    <3>2. run \in Runs /\ current \in Views /\ "keep" \in Places
      BY DEF IInv, TypeOK, Places
    <3> QED
      BY <2>0, <3>1, <3>2, RunMoves, RunAdopts
  <2>2. pin' \in Pins
    <3>1. Initial \in Views
      BY DEF IInv, TypeOK, Initial, Pins
    <3>2. run.req.game \in 0 .. LastGame /\ run.req \in Asks
      BY DEF IInv, TypeOK, Runs, Asks
    <3>3. (~ NewSession /\ pin.frozen) \/ FirstSeen \/ Started(run.req) \in BOOLEAN
      BY DEF Started
    <3>4. PICK v \in {Initial, 0, pin.view} :
            pin' = [game |-> run.req.game, view |-> v,
                    frozen |-> (~ NewSession /\ pin.frozen) \/ FirstSeen \/ Started(run.req)]
      BY DEF Resolve, Pinned
    <3>5. v \in Views
      BY <3>1, WaitingType DEF IInv, TypeOK, Pins
    <3> QED
      BY <3>2, <3>3, <3>4, <3>5 DEF Pins
  <2>3. prepared' \in 0 .. LastGame
    BY DEF IInv, TypeOK, Resolve, Runs, Asks
  <2> QED
    BY <2>2, <2>3, <2>1, WaitingType, PinAssumption DEF IInv, TypeOK, Resolve, asking
<1>2. /\ run'.req = run.req /\ run'.job = run.job /\ run'.fresh = run.fresh
      /\ \/ run'.pc = "keep"
         \/ run'.pc = "adopt" /\ ~ pin'.frozen /\ run'.started = FirstSeen
  BY DEF Resolve, At, IInv, TypeOK, Runs
<1>3. FirstSeen => pin'.frozen
  <2> SUFFICES ASSUME FirstSeen PROVE pin'.frozen
    OBVIOUS
  <2>1. PICK v \in {Initial, 0, pin.view} :
          pin' = [game |-> run.req.game, view |-> v,
                  frozen |-> (~ NewSession /\ pin.frozen) \/ FirstSeen \/ Started(run.req)]
    BY DEF Resolve, Pinned
  <2>2. pin'.frozen = ((~ NewSession /\ pin.frozen) \/ FirstSeen \/ Started(run.req))
    BY <2>1
  <2> QED
    BY <2>2
<1> USE PinAssumption DEF IInv, Resolve, Pinned, FirstSeen, NewSession, Anew, Initial, At,
                        asking, Started, Events
<1>4. HeldSince'
  BY DEF TypeOK, HeldSince, RunOK, Views
<1>5. RunOK'
  <2>2. pin'.game = run.req.game
    OBVIOUS
  <2>3. run'.pc = "adopt" => ~ pin'.frozen /\ ~ run'.started
    BY <1>2, <1>3
  <2>4. run.job = "prepare" => prepared' = run.req.game
    OBVIOUS
  <2> QED
    BY <1>2, <2>2, <2>3, <2>4 DEF RunOK
<1>6. AskedOK'
  <2>2. result # NoResult => prepared' = prepared
    BY DEF RunOK, AskedOK, ResultsBelong
  <2> QED
    BY <1>2, <2>2 DEF AskedOK
<1>7. ResultsBelong'
  BY DEF TypeOK, ResultsBelong, AskedOK, RunOK, HeldSince
<1> QED
  BY <1>1, <1>4, <1>5, <1>6, <1>7

LEMMA AdoptStep ==
  ASSUME IInv, Adopt
  PROVE  IInv'
<1>1. TypeOK'
  <2>1. run' \in Runs
    <3>1. [run EXCEPT !.pc = "keep"] \in Runs
      BY RunMoves DEF IInv, TypeOK, Places
    <3>2. run' = [[run EXCEPT !.pc = "keep"] EXCEPT !.opened = 0, !.started = FALSE]
      BY DEF Adopt, IInv, TypeOK, Runs
    <3> QED
      BY <3>1, <3>2, WaitingType DEF Runs
  <2>2. pin' \in Pins
    BY DEF IInv, TypeOK, Adopt, Runs, Pins
  <2> QED
    BY <2>2, <2>1, WaitingType, PinAssumption DEF IInv, TypeOK, Adopt, asking
<1> USE PinAssumption DEF IInv, Adopt, CanAdopt, Valid, AnyStarted, asking
<1>2. HeldSince'
  BY DEF TypeOK, HeldSince, RunOK, Views
<1>3. RunOK'
  <2>1. /\ run'.pc = "keep" /\ run'.req = run.req /\ run'.job = run.job
        /\ run'.fresh = run.fresh
    BY DEF TypeOK, Runs
  <2>2. pin'.game = pin.game
    BY DEF TypeOK, Pins
  <2> QED
    BY <2>1, <2>2 DEF RunOK
<1>4. AskedOK'
  BY DEF TypeOK, AskedOK, RunOK, Started, ResultsBelong
<1>5. ResultsBelong'
  BY DEF TypeOK, ResultsBelong, AskedOK, RunOK, Started
<1> QED
  BY <1>1, <1>2, <1>3, <1>4, <1>5

LEMMA KeepStep ==
  ASSUME IInv, Keep
  PROVE  IInv'
<1>1. TypeOK'
  <2>1. run' \in Runs
    BY PinAssumption DEF IInv, TypeOK, Keep, Runs, Places
  <2> QED
    BY <2>1, WaitingType, PinAssumption DEF IInv, TypeOK, Keep, asking, Pins
<1> USE PinAssumption DEF IInv, Keep, Valid, asking
<1>2. HeldSince'
  BY DEF TypeOK, HeldSince, RunOK, Views
<1>3. RunOK'
  BY DEF TypeOK, Runs, RunOK, AskedOK
<1>4. AskedOK'
  BY DEF TypeOK, AskedOK, RunOK, Started, ResultsBelong
<1>5. ResultsBelong'
  BY DEF TypeOK, ResultsBelong, AskedOK, RunOK, HeldSince
<1> QED
  BY <1>1, <1>2, <1>3, <1>4, <1>5

LEMMA PrepareAgainStep ==
  ASSUME IInv, PrepareAgain
  PROVE  IInv'
<1>1. TypeOK'
  <2>1. run' \in Runs
    BY BeginType, PinAssumption DEF IInv, TypeOK, PrepareAgain
  <2> QED
    BY <2>1, WaitingType, PinAssumption DEF IInv, TypeOK, PrepareAgain, asking, resolve
<1> USE PinAssumption DEF IInv, PrepareAgain, Begin, Valid, Waiting, asking, resolve, Asks,
                        Events, NoEvent, NoAsk, Ask
<1>2. HeldSince'
  BY DEF TypeOK, HeldSince, RunOK, Views
<1>3. RunOK'
  BY DEF TypeOK, Runs, RunOK, AskedOK
<1>4. AskedOK'
  BY DEF TypeOK, AskedOK, RunOK, Started, ResultsBelong
<1>5. ResultsBelong'
  BY DEF TypeOK, ResultsBelong, AskedOK, RunOK, HeldSince
<1> QED
  BY <1>1, <1>2, <1>3, <1>4, <1>5

LEMMA SourceChangedStep ==
  ASSUME IInv, SourceChanged
  PROVE  IInv'
<1>1. TypeOK'
  <2>1. run' \in Runs
    BY BeginType, PinAssumption DEF IInv, TypeOK, SourceChanged
  <2> QED
    BY <2>1, WaitingType, PinAssumption DEF IInv, TypeOK, SourceChanged, asking, resolve
<1> USE PinAssumption DEF IInv, SourceChanged, Begin, Valid, Waiting, asking, resolve,
                        Asks, Events, NoEvent, NoAsk, Ask
<1>2. HeldSince'
  BY DEF TypeOK, HeldSince, RunOK, Views
<1>3. RunOK'
  BY DEF TypeOK, Runs, RunOK, AskedOK
<1>4. AskedOK'
  BY DEF TypeOK, AskedOK, RunOK, Started, ResultsBelong
<1>5. ResultsBelong'
  BY DEF TypeOK, ResultsBelong, AskedOK, RunOK, HeldSince
<1> QED
  BY <1>1, <1>2, <1>3, <1>4, <1>5

LEMMA LeaveStep ==
  ASSUME IInv, Leave
  PROVE  IInv'
<1>1. TypeOK'
  BY WaitingType DEF IInv, TypeOK, Leave, asking, resolve
<1> USE PinAssumption DEF IInv, Leave, Waiting, asking, resolve, Asks, Events, NoEvent,
                        NoAsk, Ask
<1>2. HeldSince'
  BY DEF TypeOK, HeldSince, RunOK, Views
<1>3. RunOK'
  BY DEF TypeOK, Runs, RunOK, AskedOK
<1>4. AskedOK'
  BY DEF TypeOK, AskedOK, RunOK, Started, ResultsBelong
<1>5. ResultsBelong'
  BY DEF TypeOK, ResultsBelong, AskedOK, RunOK, HeldSince
<1> QED
  BY <1>1, <1>2, <1>3, <1>4, <1>5

LEMMA HintsStep ==
  ASSUME IInv, Hints
  PROVE  IInv'
<1>1. TypeOK'
  <2>1. run.req.game \in 0 .. LastGame /\ pin.view \in Views
    BY DEF IInv, TypeOK, Runs, Asks, Pins
  <2>2. run' \in Runs
    BY WaitingType, RunMoves DEF IInv, TypeOK, Hints, At, Places
  <2>3. result' \in [phase : {"none", "hints", "ready"}, game : 0 .. LastGame, view : Views]
    BY <2>1 DEF IInv, TypeOK, Hints, Publish
  <2> QED
    BY <2>2, <2>3 DEF IInv, TypeOK, Hints, resolve
<1> USE PinAssumption DEF IInv, Hints, Shown, Publish, Valid, At, Waiting, resolve, Asks,
                        Events, NoEvent, NoAsk, Ask, NoResult
<1>2. HeldSince'
  BY DEF TypeOK, HeldSince, RunOK, Views
<1>3. RunOK'
  BY DEF TypeOK, Runs, RunOK, AskedOK
<1>4. AskedOK'
  BY DEF TypeOK, AskedOK, RunOK, Started, ResultsBelong
<1>5. ResultsBelong'
  BY DEF TypeOK, ResultsBelong, AskedOK, RunOK, HeldSince
<1> QED
  BY <1>1, <1>2, <1>3, <1>4, <1>5

LEMMA PublishReadyStep ==
  ASSUME IInv, PublishReady
  PROVE  IInv'
<1>1. TypeOK'
  <2>1. run.req.game \in 0 .. LastGame /\ pin.view \in Views
    BY DEF IInv, TypeOK, Runs, Asks, Pins
  <2>2. run' \in Runs
    BY WaitingType, RunMoves DEF IInv, TypeOK, PublishReady, At, Places
  <2>3. result' \in [phase : {"none", "hints", "ready"}, game : 0 .. LastGame, view : Views]
    BY <2>1 DEF IInv, TypeOK, PublishReady, Publish
  <2> QED
    BY <2>2, <2>3 DEF IInv, TypeOK, PublishReady, resolve
<1> USE PinAssumption DEF IInv, PublishReady, Publish, Valid, Waiting, resolve, Asks,
                        Events, NoEvent, NoAsk, Ask, NoResult
<1>2. HeldSince'
  BY DEF TypeOK, HeldSince, RunOK, Views
<1>3. RunOK'
  BY DEF TypeOK, Runs, RunOK, AskedOK
<1>4. AskedOK'
  BY DEF TypeOK, AskedOK, RunOK, Started, ResultsBelong
<1>5. ResultsBelong'
  BY DEF TypeOK, ResultsBelong, AskedOK, RunOK, HeldSince
<1> QED
  BY <1>1, <1>2, <1>3, <1>4, <1>5

LEMMA RaisesStep ==
  ASSUME IInv, Raises
  PROVE  IInv'
<1>1. TypeOK'
  BY WaitingType DEF IInv, TypeOK, Raises, asking, resolve
<1> USE PinAssumption DEF IInv, Raises, Waiting, asking, resolve, Asks, Events, NoEvent,
                        NoAsk, Ask
<1>2. HeldSince'
  BY DEF TypeOK, HeldSince, RunOK, Views
<1>3. RunOK'
  BY DEF TypeOK, Runs, RunOK, AskedOK
<1>4. AskedOK'
  BY DEF TypeOK, AskedOK, RunOK, Started, ResultsBelong
<1>5. ResultsBelong'
  BY DEF TypeOK, ResultsBelong, AskedOK, RunOK, HeldSince
<1> QED
  BY <1>1, <1>2, <1>3, <1>4, <1>5

(* Type correctness, and with it all that the proofs below rest on. *)
THEOREM PinInvariant == Spec => []IInv
<1>1. IInv /\ [Next]_vars => IInv'
  <2> SUFFICES ASSUME IInv, [Next]_vars PROVE IInv'
    OBVIOUS
  <2>1. CASE \E e \in Events : Observe(e)
    BY <2>1, ObserveStep
  <2>2. CASE NewGeneration
    BY <2>2, NewGenerationStep
  <2>3. CASE \E e \in Read, ok \in BOOLEAN : Request(e, ok)
    BY <2>3, RequestStep
  <2>4. CASE Withdraw
    BY <2>4, WithdrawStep
  <2>5. CASE Close
    BY <2>5, CloseStep
  <2>6. CASE Worker
    <3>1. CASE Take \/ LookAgain \/ Exit \/ IdleOpen \/ IdleSettle
      BY <3>1, TakeStep, LookAgainStep, ExitStep, IdleOpenStep, IdleSettleStep
    <3>2. CASE Resolve \/ Adopt \/ Keep \/ PrepareAgain \/ SourceChanged \/ Leave
      BY <3>2, ResolveStep, AdoptStep, KeepStep, PrepareAgainStep,
         SourceChangedStep, LeaveStep
    <3>3. CASE Hints \/ PublishReady \/ Raises
      BY <3>3, HintsStep, PublishReadyStep, RaisesStep
    <3> QED
      BY <2>6, <3>1, <3>2, <3>3 DEF Worker
  <2>7. CASE UNCHANGED vars
    BY <2>7 DEF vars, asking, resolve, IInv, TypeOK, HeldSince, RunOK, AskedOK, ResultsBelong
  <2> QED
    BY <2>1, <2>2, <2>3, <2>4, <2>5, <2>6, <2>7 DEF Next
<1> QED
  BY InitInvariant, <1>1, PTL DEF Spec

(* However late the worker, the GUI or an idle refresh are, a game never gets a
   generation that it did not have when its first selection was seen (_frozen,
   can_adopt and the test that ends _refresh_idle_snapshot). *)
THEOREM NothingAfterTheFirstHolds == Spec => []NothingAfterTheFirst
<1>1. IInv => NothingAfterTheFirst
  BY DEF IInv, HeldSince, NothingAfterTheFirst
<1> QED
  BY PinInvariant, <1>1, PTL

(* What the GUI polls belongs to its last request and to the generation the game
   has (_valid, _publish, invalidate and close). *)
THEOREM ResultsBelongHolds == Spec => []ResultsBelong
<1>1. IInv => ResultsBelong
  BY DEF IInv
<1> QED
  BY PinInvariant, <1>1, PTL

(* A prepared game keeps its generation from its first selection on: a resolution
   finds the session it knows, and nothing that was frozen or begun before the
   selection adopts. *)
THEOREM GenerationIsKept == Spec => OneGenerationPerGame
<1> DEFINE Kept ==
      observed.started /\ prepared = observed.session /\ pin.game = prepared
        => pin'.game # pin.game \/ pin'.view = pin.view
<1>1. IInv /\ [Next]_vars => Kept
  <2> SUFFICES ASSUME IInv, [Next]_vars,
                      observed.started /\ prepared = observed.session /\ pin.game = prepared,
                      pin'.game = pin.game
               PROVE  pin'.view = pin.view
    OBVIOUS
  <2>1. CASE Resolve
    <3>1. pin'.game = run.req.game
      BY <2>1 DEF Resolve, Pinned
    <3> QED
      BY <2>1, <3>1 DEF Resolve, Pinned, NewSession, Anew
  <2>2. CASE Adopt
    BY <2>2 DEF Adopt, CanAdopt, AnyStarted, IInv, RunOK
  <2>3. CASE UNCHANGED pin
    BY <2>3
  <2>4. Resolve \/ Adopt \/ UNCHANGED pin
    BY DEF Next, Worker, vars, asking, resolve, Observe, NewGeneration, Request, Withdraw,
           Close, Take, LookAgain, Exit, IdleOpen, IdleSettle, Keep, PrepareAgain,
           SourceChanged, Leave, Hints, PublishReady, Raises
  <2> QED
    BY <2>1, <2>2, <2>3, <2>4
<1>2. IInv /\ [Next]_vars => [Kept]_vars
  BY <1>1
<1> QED
  BY PinInvariant, <1>2, PTL DEF Spec, OneGenerationPerGame

=============================================================================
