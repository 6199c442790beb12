--------------------------- MODULE MCAmqpDelivery ---------------------------
(* AmqpDelivery for TLC: the identities of deliveries are interchangeable.  *)
EXTENDS AmqpDelivery, TLC

Symmetry == Permutations(Deliveries)

=============================================================================
