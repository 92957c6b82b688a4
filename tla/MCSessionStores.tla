-------------------------- MODULE MCSessionStores --------------------------
(* Small instances of SessionStores for TLC. *)
EXTENDS SessionStores, TLC

Symmetry ==
    Permutations(Creature) \cup Permutations(GraphId)
=============================================================================
