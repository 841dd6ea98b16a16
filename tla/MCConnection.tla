----------------------------- MODULE MCConnection -----------------------------
(* Instance of Connection for TLC. *)
EXTENDS Connection, TLC

Symmetry == Permutations(Objects) \cup Permutations(Handles)
=============================================================================
