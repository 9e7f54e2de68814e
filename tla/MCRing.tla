------------------------------- MODULE MCRing -------------------------------
(* Ring with its inductive invariant, for model checking.                   *)
EXTENDS RingInv

(* A caller that never uses offer, as the commit ring's does not.          *)
PushOnlySpec == Init /\ [][Next /\ op' = "push"]_vars

=============================================================================
