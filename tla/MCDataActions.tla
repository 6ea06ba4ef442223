----------------------------- MODULE MCDataActions -----------------------------
(* DataActions on a short queue: full with two actions, so that a pending
   recheck finds it full. *)
EXTENDS DataActions
=============================================================================
