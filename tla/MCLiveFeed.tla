----------------------------- MODULE MCLiveFeed -----------------------------
(* TLC instances of LiveFeed. *)
EXTENDS LiveFeed, TLC

Symmetry == Permutations(Uploaders) \cup Permutations(Clients)
=============================================================================
