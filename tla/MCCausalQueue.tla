--------------------------- MODULE MCCausalQueue ---------------------------
(* Instances of CausalQueue for TLC. *)
EXTENDS CausalQueue, TLC

Symmetry == Permutations(OrderId) \cup Permutations(EventId)
=============================================================================
