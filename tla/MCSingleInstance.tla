--------------------------- MODULE MCSingleInstance ---------------------------
(* Three processes of two builds for TLC. *)
EXTENDS SingleInstance, TLC

CONSTANTS p1, p2, p3, b1, b2

MCBuildOf == (p1 :> b1) @@ (p2 :> b1) @@ (p3 :> b2)

SameBuild == Permutations({p1, p2})
=============================================================================
