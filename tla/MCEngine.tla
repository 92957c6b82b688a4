------------------------------ MODULE MCEngine ------------------------------
(* Small instances of Engine for TLC. *)
EXTENDS Engine, TLC

Symmetry ==
    Permutations(Creature) \cup Permutations(GraphId)
=============================================================================
