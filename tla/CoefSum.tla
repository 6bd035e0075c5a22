-------------------------------- MODULE CoefSum --------------------------------
(***************************************************************************)
(* What the loops of Prover::prove over the coefficients and rows promise, *)
(* without threads and locks: every coefficient of the zkey is added to    *)
(* its row of a or b in one indivisible step, and c is the row-wise        *)
(* product of the finished a and b.                                        *)
(***************************************************************************)
EXTENDS ZkeyCoefs

VARIABLES
  ab,         \* a and b: a row of either is a cell <<"a", r>> or <<"b", r>>
  c,          \* the pair of sums multiplied into each row, or << >>
  remaining   \* the coefficients that have not been added yet

vars == <<ab, c, remaining>>

Init ==
  /\ ab = [x \in Cells |-> Zero]
  /\ c = [r \in Rows |-> << >>]
  /\ remaining = Coefs

Accumulate(i) ==
  /\ i \in remaining
  /\ remaining' = remaining \ {i}
  /\ ab' = [ab EXCEPT ![CellOf(i)] = AddTerm(@, i)]
  /\ UNCHANGED c

Multiply(r) ==
  /\ remaining = {}
  /\ c[r] = << >>
  /\ c' = [c EXCEPT ![r] = <<ab[<<"a", r>>], ab[<<"b", r>>]>>]
  /\ UNCHANGED <<ab, remaining>>

Next ==
  \/ \E i \in Coefs : Accumulate(i)
  \/ \E r \in Rows : Multiply(r)

Spec == Init /\ [][Next]_vars
================================================================================
