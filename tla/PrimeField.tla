------------------------------ MODULE PrimeField -------------------------------
(***************************************************************************)
(* The scalar field that fft.cpp and groth16.cpp compute in, as integers   *)
(* modulo a prime Q.  The code stores x as x*R modulo Q for a power R of   *)
(* two (Montgomery form) wherever it multiplies.                           *)
(***************************************************************************)
EXTENDS Integers, FiniteSetsExt, Functions

CONSTANT Q

ASSUME FieldAssumption == Q \in Nat /\ Q > 2

\* Q is prime: no product of units is a multiple of it.
ASSUME PrimeAssumption == \A x, y \in 1 .. Q - 1 : (x * y) % Q # 0

Field == 0 .. Q - 1

\* Mutant of Add: the carry is not folded back.
AddUnreduced(x, y) == x + y

Add(x, y) == (x + y) % Q

\* Mutant of Sub: the borrow is not folded back.
SubUnreduced(x, y) == x - y

Sub(x, y) == (x - y) % Q

Mul(x, y) == (x * y) % Q

\* By squaring, from the highest bit of k down.
Pow(x, k) ==
  LET p[i \in 0 .. k] ==
        IF i = 0 THEN 1 % Q
        ELSE LET h == p[i \div 2] IN IF i % 2 = 1 THEN Mul(Mul(h, h), x) ELSE Mul(h, h)
  IN p[k]

\* The inverse of a unit.
Inv(x) == CHOOSE y \in Field : Mul(x, y) = 1

\* The sum of the values of a function, in the field.
Total(f) == SumFunction(f) % Q
================================================================================
