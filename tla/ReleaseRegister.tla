----------------------------- MODULE ReleaseRegister -----------------------------
(***************************************************************************)
(* What the release store promises, without directories, faults or locks:  *)
(* generations are committed in an order, each commit replacing the pair   *)
(* (current, previous) at once, and a reader that opens a view gets a      *)
(* committed generation.  An undegraded view is never older than the last  *)
(* undegraded view the same reader held; a degraded one may be.            *)
(***************************************************************************)
EXTENDS Naturals, Sequences

CONSTANTS Generations, Readers

VARIABLES
  order,     \* the committed generations, oldest first
  current,   \* position of the current generation in order, 0 for none
  fallback,  \* position of the previous generation in order, 0 for none
  held       \* the view of each reader: position (0 for none) and degraded flag

vars == <<order, current, fallback, held>>

None == [at |-> 0, degraded |-> FALSE]

Init == /\ order = <<>> /\ current = 0 /\ fallback = 0
        /\ held = [r \in Readers |-> None]

\* The previous generation becomes the replaced one, stays, or is dropped.
Commit(g) ==
  /\ \A i \in DOMAIN order : order[i] # g
  /\ order' = Append(order, g)
  /\ current' = Len(order')
  /\ fallback' \in {0, fallback, current}
  /\ UNCHANGED held

Open(r) ==
  /\ \E i \in 1 .. Len(order), degraded \in BOOLEAN :
       /\ degraded \/ held[r].degraded \/ i >= held[r].at
       /\ held' = [held EXCEPT ![r] = [at |-> i, degraded |-> degraded]]
  /\ UNCHANGED <<order, current, fallback>>

Restart(r) ==
  /\ held' = [held EXCEPT ![r] = None]
  /\ UNCHANGED <<order, current, fallback>>

Next == \/ \E g \in Generations : Commit(g)
        \/ \E r \in Readers : Open(r) \/ Restart(r)

Spec == Init /\ [][Next]_vars
=============================================================================
