----------------------------- MODULE MCKeySync ------------------------------
(***************************************************************************)
(* Instances of KeySync for TLC.                                           *)
(***************************************************************************)
EXTENDS KeySync, TLC

Symmetry == Permutations(Keys) \cup Permutations(Handles)
=============================================================================
