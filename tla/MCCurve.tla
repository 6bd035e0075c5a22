--------------------------------- MODULE MCCurve --------------------------------
(***************************************************************************)
(* Over F_7: a curve with a = 0 and 13 points, a prime as for bn128, and   *)
(* one with a = -1 and a point of order two.  Over F_9, the field of three *)
(* with a square root of -1: one with a = 1 + i, as no curve with a = 0    *)
(* over it is usable.                                                      *)
(***************************************************************************)
EXTENDS Curve, TLC

CONSTANTS acc, tmp1

MCCurves ==
  {[q |-> 7, degree |-> 1, a |-> x, b |-> 3] : x \in {0, 6}} \cup
  {[q |-> 3, degree |-> 2, a |-> [a |-> 1, b |-> 1], b |-> [a |-> 0, b |-> 1]]}
MCSymmetry == Permutations(Points)
================================================================================
