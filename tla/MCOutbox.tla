------------------------------ MODULE MCOutbox ------------------------------
(* Outbox with rings small enough to fill.                                  *)
EXTENDS Outbox, TLC

(* Two records of room in one ring, one in the others.                     *)
SmallRings == Lossy :> 2 @@ Durable :> 1 @@ Lifecycle :> 1

=============================================================================
