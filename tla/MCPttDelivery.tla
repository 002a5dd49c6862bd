--------------------------- MODULE MCPttDelivery ---------------------------
(* TLC instances of PttDelivery. *)
EXTENDS PttRefinement, TLC

Symmetry == Permutations(Requests) \cup Permutations(Clips) \cup Permutations(RadioSets)
=============================================================================
