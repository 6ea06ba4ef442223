--------------------------- MODULE MCOverlayLifecycle ---------------------------
(***************************************************************************)
(* OverlayLifecycle for TLC: its constants are given by the configurations. *)
(***************************************************************************)
EXTENDS OverlayLifecycle, TLC

(* What the guards, and the properties checked over overlapping requests, tell
   apart: the context poller and the history of what the user asked for are
   written only, and beyond their types no property of that run reads them. *)
Decisive == <<desired, cancelled, status, host, sidecar, children, starting,
              stopping, control, requests, faults, unwritten>>

(* A process that is gone is told from none, and not from another one. *)
Known(p) == IF Running(p) \/ p = None THEN p ELSE "gone"

(* For requests in turn: what a thread may still read.  A process counts by its
   number as long as it lives, and a registered one no longer; a start that is
   over reads neither its cancellation nor what it launched, a stop only between
   its two halves what it saw; after the shutdown nobody asks. *)
Readable ==
  <<desired, status, poller, Known(host), Known(sidecar),
    enable \notin {"idle", "queued"} /\ cancelled,
    alive, hung, stuck, abandoned,
    [r \in Roles |-> IF Running(registered[r]) THEN registered[r] ELSE None],
    enable, Known(proc),
    IF enable \in {"check", "finish", "rollback", "returned"} THEN {} ELSE <<role, attempt>>,
    stopper,
    [t \in Stoppers |-> IF stopper[t] \in {"stop_host", "settling"} THEN halted[t] ELSE {}],
    control, faults, unwritten, IF Shutdown THEN {} ELSE <<requests, wanted>>>>
=============================================================================
