----------------------------- MODULE MCTopology -----------------------------
(* Small instances of Topology for TLC. *)
EXTENDS Topology, TLC

Symmetry ==
    Permutations(Creature) \cup Permutations(Channel) \cup Permutations(GraphId)
=============================================================================
