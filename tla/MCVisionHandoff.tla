--------------------------- MODULE MCVisionHandoff ---------------------------
(***************************************************************************)
(* VisionHandoff for TLC: two states are one when no step can tell them    *)
(* apart.  The fields of a rollback are written by the next switch before  *)
(* they are read again, once no switch is in progress; of a pointer only   *)
(* whether it is the head is asked, and the head only grows.               *)
(***************************************************************************)
EXTENDS VisionHandoff

Readable  == inProgress \/ pc = "respawn"
Decisive  == <<head, blocked, games, vision, host, desired, Current, status, stopping, caches,
               active, hint, pending, state, inProgress, recovery, pointer = head,
               IF Readable THEN rollback ELSE <<>>, action, user, played, faults,
               [tick EXCEPT !.read = @ = head]>>
=============================================================================
