----------------------------- MODULE MCKeyTable -----------------------------
(***************************************************************************)
(* Instances of KeyTable for TLC: two of the keys share their filter bit.  *)
(***************************************************************************)
EXTENDS KeyTable, TLC

CONSTANTS k1, k2, k3, k4

MCBit == (k1 :> 0) @@ (k2 :> 0) @@ (k3 :> 1) @@ (k4 :> 2)
=============================================================================
