----------------------------- MODULE MCLabLink -----------------------------
(* Small instances of LabLink for TLC. *)
EXTENDS LabLink, TLC

Symmetry ==
    Permutations(Client) \cup Permutations(Conn) \cup Permutations(Name)
        \cup Permutations(Req)
=============================================================================
