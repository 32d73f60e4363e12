----------------------------- MODULE MCFileLock -----------------------------
(***************************************************************************)
(* Instances of FileLock for TLC: two database handles, one of them used   *)
(* by two threads.                                                         *)
(***************************************************************************)
EXTENDS FileLock, TLC

CONSTANTS a, b, t1, t2, t3

MCInst == (t1 :> a) @@ (t2 :> a) @@ (t3 :> b)
=============================================================================
