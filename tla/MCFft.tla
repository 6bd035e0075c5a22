--------------------------------- MODULE MCFft ----------------------------------
(***************************************************************************)
(* The transforms are linear: the unit vectors and one dense vector.       *)
(***************************************************************************)
EXTENDS Fft

MCInputs(size) ==
  {[i \in 0 .. size - 1 |-> IF i = k THEN 1 ELSE 0] : k \in 0 .. size - 1}
    \cup {[i \in 0 .. size - 1 |-> (5 * i + 3) % Q]}
================================================================================
