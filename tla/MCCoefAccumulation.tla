-------------------------- MODULE MCCoefAccumulation --------------------------
(***************************************************************************)
(* Five coefficients on three rows and two locks: 0 and 1 meet on one row  *)
(* of a, 2 shares their lock through the same row of b, 3 has the other    *)
(* lock, 4 shares the lock through another row with the same residue.      *)
(***************************************************************************)
EXTENDS CoefAccumulationProofs, TLC

MCMatrixOf == 0 :> 0 @@ 1 :> 0 @@ 2 :> 1 @@ 3 :> 0 @@ 4 :> 0
MCRowOf    == 0 :> 0 @@ 1 :> 0 @@ 2 :> 0 @@ 3 :> 1 @@ 4 :> 2
MCGarbage  == [i \in Coefs |-> 2]
================================================================================
