----------------------------- MODULE MCWinSocket -----------------------------
(***************************************************************************)
(* Instances of WinSocket for TLC.                                         *)
(***************************************************************************)
EXTENDS WinSocket, TLC

Symmetry == Permutations(Objects) \cup Permutations(Handles)
=============================================================================
