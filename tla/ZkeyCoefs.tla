------------------------------- MODULE ZkeyCoefs -------------------------------
(***************************************************************************)
(* The coefficient section of a zkey, as Prover::prove uses it, and the    *)
(* field elements it is summed into.                                       *)
(*                                                                         *)
(* A field element is kept as a formal sum: a function that says how often *)
(* each coefficient's term wtns[s] * coef has been added into it.  What    *)
(* holds of formal sums holds of their values in every field.              *)
(***************************************************************************)
EXTENDS Naturals

CONSTANTS
  nCoefs,       \* number of coefficients
  DomainSize,   \* number of rows of a, b and c
  MatrixOf,     \* coefs[i].m: 0 for a row of a, anything else for a row of b
  RowOf         \* coefs[i].c

Coefs == 0 .. nCoefs - 1
Rows  == 0 .. DomainSize - 1
Cells == {"a", "b"} \X Rows
Sums  == [Coefs -> Nat]

ASSUME CountsAssumption ==
  /\ nCoefs \in Nat
  /\ DomainSize \in Nat

ASSUME CoefsAssumption ==
  /\ MatrixOf \in [Coefs -> Nat]
  /\ RowOf \in [Coefs -> Rows]

Zero == [i \in Coefs |-> 0]

\* The sum x with the term of coefficient i added once more.
AddTerm(x, i) == [x EXCEPT ![i] = @ + 1]

\* ab = coefs[i].m == 0 ? a : b, at row coefs[i].c
CellOf(i) == <<IF MatrixOf[i] = 0 THEN "a" ELSE "b", RowOf[i]>>
================================================================================
