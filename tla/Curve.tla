--------------------------------- MODULE Curve ---------------------------------
(***************************************************************************)
(* The group of a curve y^2 = x^3 + a*x + b (curve.cpp, curve.hpp).  A     *)
(* Point stands for the affine point (x/zz, y/zzz), where zz^3 = zzz^2, and*)
(* for the zero of the group if zz is 0; the affine zero is (0, 0).        *)
(*                                                                         *)
(* The operations take their operands and their result by reference, and   *)
(* callers pass one object for several of them (add(r, r, q), dbl(r, r)).  *)
(* So the operators below transform the whole memory of points, m, in the  *)
(* order of the assignments of the code: what is read from an operand after*)
(* the result has been written to is read from the changed memory.         *)
(***************************************************************************)
EXTENDS Naturals

CONSTANTS
  Curves,   \* the curves to check: q, degree, a and b
  Points    \* the objects of type Point

VARIABLES
  curve, mem,   \* mem: the contents of the points
  val           \* the elements of the group they should stand for

vars == <<curve, mem, val>>

\* The field of the curve, and its operations.
F(c) == INSTANCE BaseField WITH Q <- c.q, degree <- c.degree

zero == F(curve)!zero
one  == F(curve)!one
Add(x, y) == F(curve)!add(x, y)
Sub(x, y) == F(curve)!sub(x, y)
Mul(x, y) == F(curve)!mul(x, y)
Sq(x)     == F(curve)!square(x)
Neg(x)    == F(curve)!neg(x)
Div(x, y) == F(curve)!div(x, y)

a == curve.a
fzero == [x |-> one, y |-> one, zz |-> zero, zzz |-> zero]

Thrice(x) == Add(Add(x, x), x)
mulByA(x) == CASE a = zero -> zero [] a = one -> x [] a = Neg(one) -> Neg(x)
               [] OTHER -> Mul(a, x)

Zero == [x |-> zero, y |-> zero]

isZero(p)       == p.zz = zero
isZeroAffine(q) == q.x = zero /\ q.y = zero

\* copy
\* Mutant of toPoint: the coordinates are copied whatever they are.
toPointZeroed(q) ==
  [x |-> q.x, y |-> q.y, zz |-> IF isZeroAffine(q) THEN zero ELSE one,
   zzz |-> IF isZeroAffine(q) THEN zero ELSE one]

toPoint(q) == IF isZeroAffine(q) THEN fzero ELSE [x |-> q.x, y |-> q.y, zz |-> one, zzz |-> one]
toAffine(p) ==
  IF isZero(p) THEN Zero ELSE [x |-> Div(p.x, p.zz), y |-> Div(p.y, p.zzz)]

--------------------------------------------------------------------------------
\* dbl(Point, Point).
\* Mutant of dbl: V is kept in zz of the result, as dbl(Point, PointAffine) does.
dblInPlace(m, p3, p1) ==
  IF isZero(m[p1]) THEN [m EXCEPT ![p3] = m[p1]]
  ELSE LET U  == Add(m[p1].y, m[p1].y)
           m0 == [m EXCEPT ![p3].zz = Sq(U)]
           S  == Mul(m[p1].x, m0[p3].zz)
           M  == Add(Thrice(Sq(m[p1].x)), mulByA(Sq(m0[p1].zz)))
           m1 == [m0 EXCEPT ![p3].x = Sub(Sub(Sq(M), S), S)]
           t  == Mul(Mul(U, Sq(U)), m1[p1].y)
           m2 == [m1 EXCEPT ![p3].y = Sub(Mul(M, Sub(S, m1[p3].x)), t)]
           m3 == [m2 EXCEPT ![p3].zz = Mul(Sq(U), m2[p1].zz)]
       IN [m3 EXCEPT ![p3].zzz = Mul(Mul(U, Sq(U)), m3[p1].zzz)]

dbl(m, p3, p1) ==
  IF isZero(m[p1]) THEN [m EXCEPT ![p3] = m[p1]]
  ELSE LET U  == Add(m[p1].y, m[p1].y)
           V  == Sq(U)
           W  == Mul(U, V)
           S  == Mul(m[p1].x, V)
           M  == Add(Thrice(Sq(m[p1].x)), mulByA(Sq(m[p1].zz)))
           m1 == [m EXCEPT ![p3].x = Sub(Sub(Sq(M), S), S)]
           t  == Mul(W, m1[p1].y)
           m2 == [m1 EXCEPT ![p3].y = Sub(Mul(M, Sub(S, m1[p3].x)), t)]
           m3 == [m2 EXCEPT ![p3].zz = Mul(V, m2[p1].zz)]
       IN [m3 EXCEPT ![p3].zzz = Mul(W, m3[p1].zzz)]

\* dbl(Point, PointAffine); the affine operand cannot be the result.
dblAffine(m, p3, q) ==
  IF isZeroAffine(q) THEN [m EXCEPT ![p3] = fzero]
  ELSE LET U == Add(q.y, q.y)
           V == Sq(U)
           S == Mul(q.x, V)
           M == Add(Thrice(Sq(q.x)), a)
           x3 == Sub(Sub(Sq(M), S), S)
       IN [m EXCEPT ![p3] =
             [x |-> x3, y |-> Sub(Mul(M, Sub(S, x3)), Mul(Mul(U, V), q.y)),
              zz |-> V, zzz |-> Mul(U, V)]]

\* The tails of the three add, from U1, S1, P and R on.
Combine(m, p3, U1, S1(_), P, R, zz(_), zzz(_)) ==
  LET PP  == Sq(P)
      PPP == Mul(P, PP)
      V   == Mul(U1, PP)
      m1  == [m EXCEPT ![p3].x = Sub(Sub(Sub(Sq(R), PPP), V), V)]
      t   == Mul(S1(m1), PPP)
      m2  == [m1 EXCEPT ![p3].y = Sub(Mul(Sub(V, m1[p3].x), R), t)]
      m3  == [m2 EXCEPT ![p3].zz = Mul(zz(m2), PP)]
  IN [m3 EXCEPT ![p3].zzz = Mul(zzz(m3), PPP)]

\* add(Point, Point, Point).
\* Mutant of add: equal operands are not told from opposite ones.
addNoDouble(m, p3, p1, p2) ==
  IF isZero(m[p1]) THEN [m EXCEPT ![p3] = m[p2]]
  ELSE IF isZero(m[p2]) THEN [m EXCEPT ![p3] = m[p1]]
  ELSE LET U1 == Mul(m[p1].x, m[p2].zz)
           S1 == Mul(m[p1].y, m[p2].zzz)
           P  == Sub(Mul(m[p2].x, m[p1].zz), U1)
           R  == Sub(Mul(m[p2].y, m[p1].zzz), S1)
       IN Combine(m, p3, U1, LAMBDA n : S1, P, R,
                  LAMBDA n : Mul(n[p1].zz, n[p2].zz), LAMBDA n : Mul(n[p1].zzz, n[p2].zzz))

add(m, p3, p1, p2) ==
  IF isZero(m[p1]) THEN [m EXCEPT ![p3] = m[p2]]
  ELSE IF isZero(m[p2]) THEN [m EXCEPT ![p3] = m[p1]]
  ELSE LET U1 == Mul(m[p1].x, m[p2].zz)
           S1 == Mul(m[p1].y, m[p2].zzz)
           P  == Sub(Mul(m[p2].x, m[p1].zz), U1)
           R  == Sub(Mul(m[p2].y, m[p1].zzz), S1)
       IN IF P = zero /\ R = zero THEN dbl(m, p3, p1)
          ELSE Combine(m, p3, U1, LAMBDA n : S1, P, R,
                       LAMBDA n : Mul(n[p1].zz, n[p2].zz),
                       LAMBDA n : Mul(n[p1].zzz, n[p2].zzz))

\* add(Point, Point, PointAffine) and, swapped, add(Point, PointAffine, Point).
addMixed(m, p3, p1, q) ==
  IF isZero(m[p1]) THEN [m EXCEPT ![p3] = toPoint(q)]
  ELSE IF isZeroAffine(q) THEN [m EXCEPT ![p3] = m[p1]]
  ELSE LET P == Sub(Mul(q.x, m[p1].zz), m[p1].x)
           R == Sub(Mul(q.y, m[p1].zzz), m[p1].y)
       IN IF P = zero /\ R = zero THEN dblAffine(m, p3, q)
          ELSE Combine(m, p3, m[p1].x, LAMBDA n : n[p1].y, P, R,
                       LAMBDA n : n[p1].zz, LAMBDA n : n[p1].zzz)

\* add(Point, PointAffine, PointAffine).
addAffine(m, p3, q1, q2) ==
  IF isZeroAffine(q1) THEN [m EXCEPT ![p3] = toPoint(q2)]
  ELSE IF isZeroAffine(q2) THEN [m EXCEPT ![p3] = toPoint(q1)]
  ELSE LET P == Sub(q2.x, q1.x)
           R == Sub(q2.y, q1.y)
       IN IF P = zero /\ R = zero THEN dblAffine(m, p3, q2)
          ELSE Combine(m, p3, q1.x, LAMBDA n : q1.y, P, R, LAMBDA n : one, LAMBDA n : one)

neg(p)       == [p EXCEPT !.y = Neg(@)]
negAffine(q) == [q EXCEPT !.y = Neg(@)]
negToPoint(q)  == [x |-> q.x, y |-> Neg(q.y), zz |-> one, zzz |-> one]
negToAffine(p) == IF isZero(p) THEN Zero ELSE negAffine(toAffine(p))

\* sub(Point, Point, Point): the negated operand is a temporary.
sub(m, p3, p1, p2) ==
  LET both == [p \in Points \cup {"tmp"} |-> IF p = "tmp" THEN neg(m[p2]) ELSE m[p]]
      res  == add(both, p3, p1, "tmp")
  IN [p \in Points |-> res[p]]

\* eq(Point, Point) and eq(Point, PointAffine).
eq(p1, p2) ==
  IF isZero(p1) THEN isZero(p2)
  ELSE Mul(p1.x, p2.zz) = Mul(p2.x, p1.zz) /\ Mul(p1.y, p2.zzz) = Mul(p2.y, p1.zzz)

eqMixed(p1, q) ==
  IF isZero(p1) THEN isZeroAffine(q)
  ELSE Mul(q.x, p1.zz) = p1.x /\ Mul(q.y, p1.zzz) = p1.y

--------------------------------------------------------------------------------
\* The points of the curve, and the law of the group by chords and tangents, with
\* products and quotients by their definition.
Times(x, y) == F(curve)!Product(x, y)
Over(x, y)  == F(curve)!Quotient(x, y)

OnCurve(c, x, y) ==
  LET times(u, v) == F(c)!Product(u, v) IN
  times(y, y) = F(c)!add(F(c)!add(times(x, times(x, x)), times(c.a, x)), c.b)

\* Zero included: (0, 0) must not be on the curve.
Affine == {Zero} \cup {p \in [x : F(curve)!Elements, y : F(curve)!Elements] :
                          OnCurve(curve, p.x, p.y)}

Plus(u, v) ==
  IF u = Zero THEN v ELSE IF v = Zero THEN u
  ELSE IF u.x = v.x /\ Add(u.y, v.y) = zero THEN Zero
  ELSE LET slope == IF u = v THEN Over(Add(Thrice(Times(u.x, u.x)), a), Add(u.y, u.y))
                    ELSE Over(Sub(v.y, u.y), Sub(v.x, u.x))
           x == Sub(Sub(Times(slope, slope), u.x), v.x)
       IN [x |-> x, y |-> Sub(Times(slope, Sub(u.x, x)), u.y)]

\* A usable curve has no point where both derivatives are 0, and (0, 0) is not on it.
Usable(c) ==
  /\ ~OnCurve(c, F(c)!zero, F(c)!zero)
  /\ \A x, y \in F(c)!Elements :
       ~ /\ OnCurve(c, x, y)
         /\ F(c)!add(y, y) = F(c)!zero
         /\ F(c)!add(F(c)!mul(F(c)!small(3), F(c)!mul(x, x)), c.a) = F(c)!zero

ASSUME CurvesAssumption ==
  \A c \in Curves : c.a \in F(c)!Elements /\ c.b \in F(c)!Elements /\ Usable(c)

Init ==
  /\ curve \in Curves
  /\ mem = [p \in Points |-> fzero]
  /\ val = [p \in Points |-> Zero]

Set(p3, m, v) == mem' = m /\ val' = [val EXCEPT ![p3] = v] /\ UNCHANGED curve

Next ==
  \E p3 \in Points :
    \/ \E p1, p2 \in Points :
         \/ Set(p3, add(mem, p3, p1, p2), Plus(val[p1], val[p2]))
         \/ Set(p3, sub(mem, p3, p1, p2), Plus(val[p1], negAffine(val[p2])))
    \/ \E p1 \in Points, q \in Affine :
         \/ Set(p3, addMixed(mem, p3, p1, q), Plus(val[p1], q))
         \/ Set(p3, addMixed(mem, p3, p1, negAffine(q)), Plus(val[p1], negAffine(q)))
    \/ \E q1, q2 \in Affine : Set(p3, addAffine(mem, p3, q1, q2), Plus(q1, q2))
    \/ \E p1 \in Points :
         \/ Set(p3, dbl(mem, p3, p1), Plus(val[p1], val[p1]))
         \/ Set(p3, [mem EXCEPT ![p3] = neg(mem[p1])], negAffine(val[p1]))
         \/ Set(p3, [mem EXCEPT ![p3] = toPoint(toAffine(mem[p1]))], val[p1])
         \/ Set(p3, [mem EXCEPT ![p3] = toPoint(negToAffine(mem[p1]))], negAffine(val[p1]))
    \/ \E q \in Affine :
         \/ Set(p3, dblAffine(mem, p3, q), Plus(q, q))
         \/ Set(p3, [mem EXCEPT ![p3] = toPoint(q)], q)
         \/ /\ q # Zero     \* which negToPoint does not know; it has no caller
            /\ Set(p3, [mem EXCEPT ![p3] = negToPoint(q)], negAffine(q))

Spec == Init /\ [][Next]_vars

--------------------------------------------------------------------------------
\* Type invariant.
TypeOK ==
  /\ curve \in Curves
  /\ mem \in [Points -> [{"x", "y", "zz", "zzz"} -> F(curve)!Elements]]
  /\ val \in [Points -> Affine]

\* After any sequence of operations, on any of the representations it leads to, a
\* point stands for what the group law says; with operands and results that are one
\* object, equal or opposite operands, zeros and points of order two.
GroupLaw == \A p \in Points : toAffine(mem[p]) = val[p]

\* The two zs belong together, and a zero never has x = 0, which eq relies on when
\* only its second operand is zero.
Representation ==
  \A p \in Points :
    /\ Mul(mem[p].zz, Sq(mem[p].zz)) = Sq(mem[p].zzz)
    /\ isZero(mem[p]) => mem[p].x # zero

\* Points compare equal if and only if they are the same element.
EqDecides ==
  \A p1 \in Points :
    /\ \A p2 \in Points : eq(mem[p1], mem[p2]) <=> val[p1] = val[p2]
    /\ \A q \in Affine : eqMixed(mem[p1], q) <=> val[p1] = q
================================================================================
