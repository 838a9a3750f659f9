----------------------------- MODULE MCDelivery -----------------------------
(* Delivery on a small instance for TLC.                                   *)
EXTENDS DeliveryOutbox, TLC

Symmetry == Permutations(Ids) \cup Permutations(Incarnations)
=============================================================================
