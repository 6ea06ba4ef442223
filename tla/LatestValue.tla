---------------------------- MODULE LatestValue ----------------------------
(***************************************************************************)
(* What a runtime channel promises about the messages of one kind, each    *)
(* way: values are published one after the other, the other end knows one  *)
(* of them, and never goes back to an earlier one.  Values may be skipped. *)
(***************************************************************************)
EXTENDS Naturals

CONSTANTS Ends, Kinds, MaxValue

VARIABLES
  newest,   \* newest[e][k]: what the end e published last
  known     \* known[e][k]: which of them the other end knows

Init == newest = [e \in Ends |-> [k \in Kinds |-> 0]] /\ known = newest

Publish(e, k) ==
  /\ newest[e][k] < MaxValue
  /\ newest' = [newest EXCEPT ![e][k] = @ + 1]
  /\ UNCHANGED known

Learn(e, k) ==
  /\ \E v \in known[e][k]..newest[e][k] : known' = [known EXCEPT ![e][k] = v]
  /\ UNCHANGED newest

Next == \E e \in Ends, k \in Kinds : Publish(e, k) \/ Learn(e, k)
Spec == Init /\ [][Next]_<<newest, known>>
=============================================================================
