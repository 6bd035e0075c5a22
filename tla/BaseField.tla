------------------------------- MODULE BaseField -------------------------------
(***************************************************************************)
(* The field under a curve, the template parameter of curve.hpp: the prime *)
(* field F1 (RawFq) when degree is 1, and F2Field<RawFq>, its extension by *)
(* a square root of nr, when degree is 2 (f2field.cpp).  The engine makes  *)
(* F2 with nr = -1.                                                        *)
(***************************************************************************)
EXTENDS PrimeField

CONSTANT degree

nr == Q - 1
Neg(x) == Sub(0, x)
Elements == IF degree = 1 THEN Field ELSE [a : Field, b : Field]

small(k) == IF degree = 1 THEN k % Q ELSE [a |-> k % Q, b |-> 0]
zero == small(0)
one  == small(1)

mulByNr(x) == CASE nr = 0 -> 0 [] nr = 1 -> x [] nr = Q - 1 -> Neg(x) [] OTHER -> Mul(nr, x)

add(x, y) ==
  IF degree = 1 THEN Add(x, y) ELSE [a |-> Add(x.a, y.a), b |-> Add(x.b, y.b)]
sub(x, y) ==
  IF degree = 1 THEN Sub(x, y) ELSE [a |-> Sub(x.a, y.a), b |-> Sub(x.b, y.b)]
neg(x) == IF degree = 1 THEN Neg(x) ELSE [a |-> Neg(x.a), b |-> Neg(x.b)]

\* Of F2, with three multiplications.
mul2(x, y) ==
  LET aa == Mul(x.a, y.a)
      bb == Mul(x.b, y.b)
  IN [a |-> Add(aa, mulByNr(bb)),
      b |-> Sub(Sub(Mul(Add(x.a, x.b), Add(y.a, y.b)), aa), bb)]

\* Of F2, with two.  The branch for another nr adds the wrong temporary, tmp1 for tmp2.
square2(x) ==
  LET ab   == Mul(x.a, x.b)
      sum  == Add(x.a, x.b)
  IN [a |-> IF nr = Q - 1 THEN Mul(sum, Sub(x.a, x.b))
            ELSE Sub(Mul(sum, Add(x.a, sum)), Add(ab, mulByNr(ab))),
      b |-> Add(ab, ab)]

mul(x, y) == IF degree = 1 THEN Mul(x, y) ELSE mul2(x, y)
square(x) == IF degree = 1 THEN Mul(x, x) ELSE square2(x)

\* Of F2, by the norm a^2 - nr * b^2.
inv(x) ==
  IF degree = 1 THEN Inv(x)
  ELSE LET norm == Sub(Mul(x.a, x.a), mulByNr(Mul(x.b, x.b)))
       IN [a |-> Mul(x.a, Inv(norm)), b |-> Neg(Mul(x.b, Inv(norm)))]
div(x, y) == mul(x, inv(y))

--------------------------------------------------------------------------------
\* The product and the quotient by their definition.
Product(x, y) ==
  IF degree = 1 THEN (x * y) % Q
  ELSE [a |-> (x.a * y.a + nr * x.b * y.b) % Q, b |-> (x.a * y.b + x.b * y.a) % Q]
Quotient(x, y) == CHOOSE z \in Elements : Product(z, y) = x
================================================================================
