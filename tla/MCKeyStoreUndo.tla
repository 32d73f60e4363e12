----------------------------- MODULE MCKeyStoreUndo -----------------------------
(***************************************************************************)
(* Instances of KeyStoreUndo for TLC: values stored in rows, and values of *)
(* two sizes stored in the VAL file.                                       *)
(***************************************************************************)
EXTENDS KeyStoreUndo, TLC

CONSTANTS null, small, large

MCSize == [v \in Vals |-> CASE v = null -> 0 [] v = small -> 1 [] v = large -> 2]

Symmetry == Permutations(Keys)
=============================================================================
