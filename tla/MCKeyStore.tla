----------------------------- MODULE MCKeyStore -----------------------------
(***************************************************************************)
(* Instances of KeyStore for TLC: a value stored in its row, and values of *)
(* two sizes stored in the VAL file.                                       *)
(***************************************************************************)
EXTENDS KeyStore, TLC

CONSTANTS null, small, large

MCSize == [v \in Vals |-> CASE v = null -> 0 [] v = small -> 1 [] v = large -> 2]

Symmetry == Permutations(Keys)
=============================================================================
