---------------------------- MODULE StatisticsPin ----------------------------
(***************************************************************************)
(* The generation of statistics a game is shown                            *)
(* (interfaces/overlay/host_data_preparation.py and generation_pin.py).    *)
(* Until the first selection of a game is seen, newer generations may be   *)
(* adopted; from then on the game keeps the one it has.  Three threads     *)
(* take part: the observer of the input, which records a first selection   *)
(* before anybody consumes it; the GUI, which reads the latest event from  *)
(* a mailbox of one and asks for data or withdraws; and the worker, which  *)
(* opens snapshots, adopts, prepares and publishes.                        *)
(*                                                                         *)
(* Games and generations are numbered in the order of their appearance, 0  *)
(* is none; a session and its game instance are one identity.  Whether a   *)
(* generation is complete for the champion, an open or a preparation       *)
(* succeeds and the source has changed are free choices.  The version of a *)
(* request is kept as "fresh": none was given since the worker took it.    *)
(***************************************************************************)
EXTENDS Naturals

CONSTANTS
  LastGame,     \* games are 1 .. LastGame
  LastView      \* generations are 1 .. LastView

ASSUME PinAssumption == LastGame \in Nat /\ LastView \in Nat \ {0}

Views == 0 .. LastView

\* No selection; the active window of an ordinary one; any other scene of one: a
\* candidate, or a fragment selection as the display gate finds it.
Kinds == {"none", "ordinary", "other"}

Events == [game : 0 .. LastGame, kind : Kinds]
NoEvent == [game |-> 0, kind |-> "none"]

\* What the GUI asks data for: an event and, of an ordinary selection, whether
\* its context is trusted.
Asks == [game : 0 .. LastGame, kind : Kinds, ok : BOOLEAN]
Ask(e, ok) == [game |-> e.game, kind |-> e.kind, ok |-> ok /\ e.kind = "ordinary"]
NoAsk == Ask(NoEvent, FALSE)
NoResult == [phase |-> "none", game |-> 0, view |-> 0]
Waiting == [pc |-> "wait", job |-> "probe", req |-> NoAsk, fresh |-> FALSE,
            started |-> FALSE, opened |-> 0]
NoPin == [game |-> 0, view |-> 0, frozen |-> FALSE]

VARIABLES
  observed,   \* _observed_game_identity, _observed_session_identity and
              \* _observed_selection_started
  requested,  \* _requested_game_identity and _selection_started
  key,        \* _current_key (NoAsk is None) and with it _latest_request
  pending, closed,    \* _pending is not None, _closed
  result,     \* _result
  run,        \* the worker: where it is, why it resolves a generation, its
              \* request, whether no version was given since it took it, and
              \* the locals started and latest of the resolution
  prepared,   \* _game_identity
  pin,        \* SelectionGenerationPin
  bootstrap,  \* _bootstrap_view
  current,    \* the generation a snapshot opened now would have
  known       \* history: what the observed game had when its first selection
              \* was seen, {} before

asking  == <<requested, key, pending, closed, result>>
resolve == <<prepared, pin, bootstrap>>
vars == <<observed, asking, run, resolve, current, known>>

Init ==
  /\ observed = [game |-> 0, session |-> 0, started |-> FALSE]
  /\ requested = [game |-> 0, started |-> FALSE]
  /\ key = NoAsk /\ pending = FALSE /\ closed = FALSE
  /\ result = NoResult
  /\ run = Waiting /\ prepared = 0 /\ pin = NoPin /\ bootstrap = 0
  /\ current = 1 /\ known = {}

Places == {"wait", "exited", "settle", "resolve", "adopt", "keep", "decide", "hints",
           "publish"}
Runs == [pc : Places, job : {"probe", "prepare"}, req : Asks, fresh : BOOLEAN,
         started : BOOLEAN, opened : Views]
Pins == [game : 0 .. LastGame, view : Views, frozen : BOOLEAN]

Started(e) == e.kind # "none"    \* first_selection_started

(* _valid, for the worker's request. *)
Valid ==
  /\ ~ closed /\ run.fresh
  /\ run.req.game = requested.game /\ run.req.game = observed.game

AnyStarted == requested.started \/ observed.started

-----------------------------------------------------------------------------
(* The input observer and the App.                                          *)

(* observe_input: an event without identity does not say that the game ended. *)
Seen(e) ==
  IF e.game = 0 THEN [observed EXCEPT !.game = 0]
  ELSE [game |-> e.game, session |-> e.game,
        started |-> (observed.started /\ e.game = observed.session) \/ Started(e)]

(* What a game has when its first selection is seen. *)
Held(game) == {bootstrap, IF pin.game = game \/ bootstrap = 0 THEN pin.view ELSE bootstrap}

(* An event is observed before it goes to the mailbox.  Games do not come back. *)
Observe(e) ==
  /\ ~ closed
  /\ e.game = 0 => e = NoEvent
  /\ e.game # 0 => e.game >= observed.session
  /\ observed' = Seen(e)
  /\ known' = IF ~ observed'.started THEN {}
              ELSE IF observed.started /\ observed'.session = observed.session THEN known
              ELSE Held(e.game)
  /\ UNCHANGED <<asking, run, resolve, current>>

(* The App publishes a generation. *)
NewGeneration ==
  /\ current < LastView /\ current' = current + 1
  /\ UNCHANGED <<observed, asking, run, resolve, known>>

-----------------------------------------------------------------------------
(* The GUI.                                                                 *)

(* A new version: what the worker does now is no longer asked for. *)
Supersede == run' = [run EXCEPT !.fresh = FALSE]

Invalidated ==
  /\ IF key = NoAsk /\ ~ pending /\ result = NoResult THEN UNCHANGED run ELSE Supersede
  /\ key' = NoAsk /\ pending' = FALSE /\ result' = NoResult

(* What the GUI may have read from the mailbox, perhaps a moment ago: none, or
   an event that was observed before it was put there. *)
Read ==
  {NoEvent} \cup {e \in Events : /\ e.game \in 1 .. observed.session
                                /\ e.game = observed.session /\ Started(e)
                                     => observed.started}

(* request.  A new game starts without a selection; an event without identity
   or a fragment selection withdraws, an unchanged key changes nothing, a new
   one is a new version.  A context that is not trusted is asked with, too.  Its parts under the lock are one step: what the first
   records of a selection has been observed before. *)
Request(e, ok) ==
  /\ ~ closed
  /\ requested' = [game |-> e.game,
                   started |-> (requested.started /\ e.game = requested.game) \/ Started(e)]
  /\ \/ /\ e.kind = "other" \/ e.game = 0
        /\ Invalidated
     \/ /\ e.game # 0 /\ key = Ask(e, ok)
        /\ UNCHANGED <<key, pending, result, run>>
     \/ /\ e.game # 0
        /\ key' = Ask(e, ok) /\ pending' = TRUE
        /\ result' = NoResult /\ Supersede
  /\ UNCHANGED <<observed, closed, resolve, current, known>>

(* Nothing to show and no game, or a context that is no longer trusted: what is
   shown is withdrawn at once.  While nothing is asked for, the GUI asks for an
   idle refresh once a second. *)
Withdraw ==
  /\ ~ closed
  /\ Invalidated
  /\ UNCHANGED <<observed, requested, closed, resolve, current, known>>

Close ==
  /\ ~ closed
  /\ closed' = TRUE /\ Supersede /\ pending' = FALSE /\ result' = NoResult
  /\ UNCHANGED <<observed, requested, key, resolve, current, known>>

-----------------------------------------------------------------------------
(* The worker.                                                              *)

(* A look at the state and what the worker does next are one step where the
   lock would find the same: a request whose version is still the last has not
   changed in between, and what another version brings is dropped. *)
At(p) == [run EXCEPT !.pc = p]

\* Resolve a generation for the request that is asked for now.
Begin(job) ==
  [pc |-> "resolve", job |-> job, req |-> key, fresh |-> TRUE, started |-> FALSE,
   opened |-> 0]

Asked == ~ closed /\ key # NoAsk /\ key.game = requested.game /\ key.game = observed.game

(* _run takes the pending request; one of another game than the present is
   dropped. *)
Take ==
  /\ run.pc = "wait" /\ pending /\ pending' = FALSE
  /\ run' = IF Asked THEN Begin("prepare") ELSE Waiting
  /\ UNCHANGED <<observed, requested, key, closed, result, resolve, current, known>>

(* _needs_refresh asks the source once a second; what waits for its stage is
   prepared without that. *)
LookAgain ==
  /\ run.pc = "wait" /\ ~ pending /\ Asked
  /\ \/ run' = Begin("probe")
     \/ result.phase = "ready" /\ run' = Begin("prepare")
  /\ UNCHANGED <<observed, asking, resolve, current, known>>

Exit ==
  /\ run.pc = "wait" /\ closed /\ run' = At("exited")
  /\ UNCHANGED <<observed, asking, resolve, current, known>>

(* _refresh_idle_snapshot opens what is current while nothing is asked for. *)
IdleOpen ==
  /\ run.pc = "wait" /\ ~ closed /\ key = NoAsk
  /\ run' = [Waiting EXCEPT !.pc = "settle", !.fresh = TRUE, !.opened = current]
  /\ UNCHANGED <<observed, asking, resolve, current, known>>

(* It keeps the snapshot unless a request or a first selection came meanwhile. *)
IdleSettle ==
  /\ run.pc = "settle" /\ run' = Waiting
  /\ bootstrap' = IF ~ closed /\ key = NoAsk /\ run.fresh /\ ~ AnyStarted
                  THEN run.opened ELSE bootstrap
  /\ UNCHANGED <<observed, asking, prepared, pin, current, known>>

(* Faulty: every preparation resets the pin. *)
AnewAlways == run.job = "prepare"

(* The first preparation for a game resets the pin. *)
Anew == run.job = "prepare" /\ prepared # run.req.game

NewSession == Anew \/ pin.game # run.req.game

(* What a new session starts with, if it is complete for the champion. *)
Initial == IF bootstrap # 0 \/ Anew THEN bootstrap ELSE pin.view

(* Whether the first selection of the request's game has been seen. *)
FirstSeen ==
  \/ requested.started /\ run.req.game = requested.game
  \/ observed.started /\ run.req.game = observed.game

(* Whatever the session, a first selection freezes it. *)
Pinned(seen) ==
  {[game |-> run.req.game, view |-> v,
    frozen |-> (~ NewSession /\ pin.frozen) \/ seen \/ Started(run.req)] :
     v \in IF NewSession THEN {Initial, 0} ELSE {pin.view}}

(* _resolve_generation and resolve up to the completeness check; the source is
   opened for a new session, and once a second. *)
Resolve ==
  /\ run.pc = "resolve"
  /\ pin' \in Pinned(FirstSeen)
  /\ prepared' = IF Anew THEN run.req.game ELSE prepared
  /\ \/ run' = At("keep")
     \/ /\ ~ pin'.frozen
        /\ run' = [run EXCEPT !.pc = "adopt", !.started = FirstSeen, !.opened = current]
  /\ UNCHANGED <<observed, asking, bootstrap, current, known>>

(* Faulty: that the request is still valid is enough. *)
CanAdoptValid == Valid

CanAdopt == Valid /\ (run.started \/ ~ AnyStarted)

(* After the completeness check, under the lock of the first selection. *)
Adopt ==
  /\ run.pc = "adopt" /\ run' = [run EXCEPT !.pc = "keep", !.opened = 0, !.started = FALSE]
  /\ \/ UNCHANGED pin
     \/ CanAdopt /\ pin' = [pin EXCEPT !.view = run.opened]
  /\ UNCHANGED <<observed, asking, prepared, bootstrap, current, known>>

(* The end of _resolve_generation: the next game may start with this one. *)
Keep ==
  /\ run.pc = "keep"
  /\ bootstrap' = IF pin.view # 0 /\ Valid THEN pin.view ELSE bootstrap
  /\ run' = [run EXCEPT !.pc = IF run.job = "probe" THEN "decide" ELSE "hints",
                        !.job = "probe"]
  /\ UNCHANGED <<observed, asking, prepared, pin, current, known>>

(* Faulty: a result that only has its hints counts as done. *)
UnfinishedNone == run.req.kind = "ordinary" /\ result = NoResult

Unfinished == run.req.kind = "ordinary" /\ result.phase # "ready"

(* The end of _needs_refresh: what is not finished is prepared again ... *)
PrepareAgain ==
  /\ run.pc = "decide" /\ Valid /\ Unfinished
  /\ run' = Begin("prepare")
  /\ UNCHANGED <<observed, asking, resolve, current, known>>

(* ... and so is what is finished, when the state of its source has changed. *)
SourceChanged ==
  /\ run.pc = "decide" /\ Valid /\ ~ Unfinished
  /\ run' = Begin("prepare")
  /\ UNCHANGED <<observed, asking, resolve, current, known>>

Leave ==
  /\ run.pc = "decide" /\ ~ (Valid /\ Unfinished)
  /\ run' = Waiting
  /\ UNCHANGED <<observed, asking, resolve, current, known>>

(* Faulty: whatever was prepared is published. *)
PublishAlways(phase) ==
  result' = [phase |-> phase, game |-> run.req.game, view |-> pin.view]

(* _publish. *)
Publish(phase) ==
  result' = IF Valid THEN [phase |-> phase, game |-> run.req.game, view |-> pin.view]
            ELSE result

(* Outside an ordinary selection only the caches are warmed, and with a context
   that is not trusted nothing is shown. *)
Shown == Valid /\ pin.view # 0 /\ run.req.kind = "ordinary" /\ run.req.ok

(* _prepare after the generation is resolved: it shows the hints at once, unless
   the statistics are shown already. *)
Hints ==
  /\ run.pc = "hints"
  /\ run' = IF Shown THEN At("publish") ELSE Waiting
  /\ IF Shown /\ result.phase # "ready" THEN Publish("hints") ELSE UNCHANGED result
  /\ UNCHANGED <<observed, requested, key, pending, closed, resolve, current, known>>

(* The stage is pinned and the statistics are published if the request is still
   the one that is asked for. *)
PublishReady ==
  /\ run.pc = "publish" /\ run' = Waiting /\ Publish("ready")
  /\ UNCHANGED <<observed, requested, key, pending, closed, resolve, current, known>>

(* An exception ends what the worker does, not the worker. *)
Raises ==
  /\ run.pc \in {"settle", "decide", "hints", "publish"} /\ run' = Waiting
  /\ UNCHANGED <<observed, asking, resolve, current, known>>

-----------------------------------------------------------------------------
Worker ==
  \/ Take \/ LookAgain \/ Exit \/ IdleOpen \/ IdleSettle \/ Resolve \/ Adopt \/ Keep
  \/ PrepareAgain \/ SourceChanged \/ Leave \/ Hints \/ PublishReady \/ Raises

Next ==
  \/ \E e \in Events : Observe(e)
  \/ NewGeneration
  \/ \E e \in Read, ok \in BOOLEAN : Request(e, ok)
  \/ Withdraw \/ Close
  \/ Worker

(* The worker goes on, and what raises does not raise for ever. *)
Fairness ==
  /\ WF_vars(Worker)
  /\ SF_vars(PrepareAgain) /\ SF_vars(Hints) /\ SF_vars(PublishReady)

Spec == Init /\ [][Next]_vars /\ Fairness

-----------------------------------------------------------------------------
(* Properties.                                                              *)

TypeOK ==
  /\ observed \in [game : 0 .. LastGame, session : 0 .. LastGame, started : BOOLEAN]
  /\ requested \in [game : 0 .. LastGame, started : BOOLEAN]
  /\ key \in Asks
  /\ pending \in BOOLEAN /\ closed \in BOOLEAN
  /\ result \in [phase : {"none", "hints", "ready"}, game : 0 .. LastGame, view : Views]
  /\ run \in Runs
  /\ prepared \in 0 .. LastGame
  /\ pin \in Pins
  /\ bootstrap \in Views /\ current \in Views /\ known \in SUBSET Views

(* "Until the first selection": a game never gets a generation that it did not
   have, as its own or as the one to start with, when its first selection was
   seen, however late the worker, the GUI or an idle refresh are. *)
NothingAfterTheFirst ==
  observed.started /\ pin.game = observed.session => pin.view \in known \cup {0}

(* From its first selection on, a game that was prepared keeps what it has. *)
OneGenerationPerGame ==
  [][observed.started /\ prepared = observed.session /\ pin.game = prepared
       => pin'.game # pin.game \/ pin'.view = pin.view]_vars

(* What the GUI polls belongs to its last request - never to the game before, to
   a selection that was withdrawn or to one whose context is not trusted, and
   nothing after the end - and comes from the generation the game still has. *)
ResultsBelong ==
  result # NoResult =>
    /\ ~ closed /\ key.kind = "ordinary" /\ key.ok
    /\ key.game = result.game /\ requested.game = result.game
    /\ pin.game = result.game /\ pin.view = result.view

-----------------------------------------------------------------------------
(* What the proofs are made by induction on.                                *)

(* From the first selection on, the pin and what a session would start with are
   what the game had. *)
HeldSince ==
  /\ observed.game \in {0, observed.session}
  /\ observed.started =>
       /\ observed.session # 0 /\ bootstrap \in known
       /\ pin.game = observed.session \/ bootstrap = 0 => pin.view \in known \cup {0}

(* The worker's locals: a fresh request is the one asked for, only a pin that is
   not frozen is about to adopt, and from the resolution on the pin is the
   request's. *)
RunOK ==
  /\ run.fresh => run.req = key
  /\ run.pc = "adopt" => ~ pin.frozen /\ ~ run.started
  /\ run.pc \in {"adopt", "keep", "decide", "hints", "publish"} => pin.game = run.req.game
  /\ run.pc \in {"adopt", "keep"} /\ run.job = "prepare" => prepared = run.req.game
  /\ run.pc \in {"hints", "publish"} => prepared = run.req.game
  /\ run.pc = "publish" => run.req.kind = "ordinary" /\ run.req.ok
  /\ run.pc \in {"resolve", "adopt", "keep", "decide", "hints", "publish"}
       => run.req.game # 0

(* What is asked for has been recorded; what is shown is asked for, and whatever
   runs since runs for it. *)
AskedOK ==
  /\ key = NoAsk \/ key.game # 0
  /\ Started(key) => requested.started /\ requested.game = key.game
  /\ result # NoResult => /\ run.fresh \/ run.pc \in {"wait", "exited"}
                          /\ prepared = result.game

IInv == TypeOK /\ HeldSince /\ RunOK /\ AskedOK /\ ResultsBelong

-----------------------------------------------------------------------------
(* A selection that stays the one observed and asked for, with a context that is
   trusted, is shown with its statistics in the end, unless its game has none. *)
Wanted ==
  /\ ~ closed /\ key.kind = "ordinary" /\ key.ok
  /\ requested.game = key.game /\ observed.game = key.game
  /\ ~ (pin.game = key.game /\ pin.view = 0)

SelectionIsServed == []<>(~ Wanted \/ result.phase = "ready" \/ pending)

=============================================================================
