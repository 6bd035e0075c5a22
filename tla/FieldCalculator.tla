---------------------------- MODULE FieldCalculator ----------------------------
(***************************************************************************)
(* A machine that applies the operations of FieldElement one after another *)
(* to an accumulator, in whatever form the operation before has left it in,*)
(* and to operands in every form; val is the integer modulo Q that the     *)
(* accumulator should stand for.                                           *)
(*                                                                         *)
(* Every result goes to an object full of junk, as the locals of the code  *)
(* are: the test below would notice a field that is read and was not set.  *)
(***************************************************************************)
EXTENDS FieldElement

CONSTANT Values     \* the elements the operands are made of

ASSUME ValuesAssumption == Values \subseteq Field

VARIABLES acc, val

vars == <<acc, val>>

Junk == [type |-> "lmont", shortVal |-> SMin, longVal |-> Q - 1]

Signed(v) == IF v > half THEN v - Q ELSE v
Fits(v)   == Signed(v) \in SMin .. SMax

\* The element v in one of the forms.
Make(t, v) ==
  [type |-> t,
   shortVal |-> IF t \in {"short", "smont"} THEN Signed(v) ELSE Junk.shortVal,
   longVal |-> CASE t = "short" -> Junk.longVal
                 [] t = "long"  -> v
                 [] OTHER       -> Mul(v, R1)]

Forms(v) == IF Fits(v) THEN {"short", "smont", "long", "lmont"} ELSE {"long", "lmont"}

Operands == UNION {{[elem |-> Make(t, v), val |-> v] : t \in Forms(v)} : v \in Values}

\* What the long part in Montgomery form stands for, and what the short part does.
fromMont == [m \in Field |-> Mul(m, Inv(R1))]
longPart(e)  == IF isMont(e) THEN fromMont[e.longVal] ELSE e.longVal
shortPart(e) == e.shortVal % Q

\* The two parts of a short in Montgomery form agree.  toMontgomery of a short into
\* another object does not set its shortVal, and the operations on shorts read it.
InSync(e) == e.type = "smont" => shortPart(e) = longPart(e)

--------------------------------------------------------------------------------
Init == \E b \in Operands : acc = b.elem /\ val = b.val

\* Bits are cut to those of the prime, and the number they spell taken modulo Q.
Cut(x) == (x % 2^MaxBits) % Q

Set(e, v) == acc' = e /\ val' = v

Load == \E b \in Operands : Set(b.elem, b.val)

\* In place, or into another object.
ToMontgomery == Set(Fr_toMontgomery(acc, acc), val) \/ Set(Fr_toMontgomery(Junk, acc), val)

ToNormal     == Set(Fr_toNormal(Junk, acc), val)
ToLongNormal == InSync(acc) /\ Set(Fr_toLongNormal(Junk, acc), val)

Negate == InSync(acc) /\ Set(Fr_neg(Junk, acc), Sub(0, val))
Square == InSync(acc) /\ Set(Fr_square(Junk, acc), Mul(val, val))
BitNot == InSync(acc) /\ Set(Fr_bnot(Junk, acc), Cut(Radix - 1 - val))
LogNot == InSync(acc) /\ Set(Fr_lnot(Junk, acc), IF val = 0 THEN 1 ELSE 0)
Invert == InSync(acc) /\ val # 0 /\ Set(Fr_inv(Junk, acc), Inv(val))

DoAdd(b) == \/ Set(Fr_add(Junk, acc, b.elem), Add(val, b.val))
            \/ Set(Fr_add(Junk, b.elem, acc), Add(val, b.val))
DoSub(b) == \/ Set(Fr_sub(Junk, acc, b.elem), Sub(val, b.val))
            \/ Set(Fr_sub(Junk, b.elem, acc), Sub(b.val, val))
DoMul(b) == \/ Set(Fr_mul(Junk, acc, b.elem), Mul(val, b.val))
            \/ Set(Fr_mul(Junk, b.elem, acc), Mul(val, b.val))
Divide(b) == b.val # 0 /\ Set(Fr_div(Junk, acc, b.elem), Mul(val, Inv(b.val)))
Idiv(b)   == b.val # 0 /\ Set(Fr_idiv(Junk, acc, b.elem), val \div b.val)
Remain(b) == b.val # 0 /\ Set(Fr_mod(Junk, acc, b.elem), val % b.val)
Power(b)  == Set(Fr_pow(Junk, acc, b.elem), Pow(val, b.val))

\* The comparisons are those of the signed integers.
Bool(p) == IF p THEN 1 ELSE 0
Compare(b) ==
  LET x == Signed(val)
      y == Signed(b.val)
  IN \/ Set(Fr_lt(Junk, acc, b.elem), Bool(x < y))
     \/ Set(Fr_lt(Junk, b.elem, acc), Bool(y < x))
     \/ Set(Fr_gt(Junk, acc, b.elem), Bool(x > y))
     \/ Set(Fr_gt(Junk, b.elem, acc), Bool(y > x))
     \/ Set(Fr_geq(Junk, acc, b.elem), Bool(x >= y))
     \/ Set(Fr_leq(Junk, acc, b.elem), Bool(x <= y))
Equate(b) == \/ Set(Fr_eq(Junk, acc, b.elem), Bool(val = b.val))
             \/ Set(Fr_neq(Junk, b.elem, acc), Bool(val # b.val))
Decide(b) == \/ Set(Fr_land(Junk, acc, b.elem), Bool(val # 0 /\ b.val # 0))
             \/ Set(Fr_lor(Junk, acc, b.elem), Bool(val # 0 \/ b.val # 0))

\* Of the least nonnegative integers, cut to the bits of the prime.
Logic(b) == \/ Set(Fr_band(Junk, acc, b.elem), Cut(mpn_and(val, b.val)))
            \/ Set(Fr_bor(Junk, acc, b.elem), Cut(mpn_ior(val, b.val)))
            \/ Set(Fr_bxor(Junk, acc, b.elem), Cut(mpn_xor(val, b.val)))

\* Of x to the left by the signed integer k.
Shifted(x, k) ==
  CASE k \in 0 .. MaxBits - 1 -> Cut(x * 2^k)
    [] -k \in 1 .. MaxBits - 1 -> x \div 2^(-k)
    [] OTHER -> 0
Shift(b) == \/ Set(Fr_shl(Junk, acc, b.elem), Shifted(val, Signed(b.val)))
            \/ Set(Fr_shl(Junk, b.elem, acc), Shifted(b.val, Signed(val)))
            \/ Set(Fr_shr(Junk, acc, b.elem), Shifted(val, -Signed(b.val)))
            \/ Set(Fr_shr(Junk, b.elem, acc), Shifted(b.val, -Signed(val)))

\* The engine's operations, on raw elements.
Engine(b) ==
  /\ acc.type = "lmont" /\ b.elem.type = "lmont"
  /\ \/ b.val # 0 /\ Set(Long(Junk, "lmont", RawFr_div(acc.longVal, b.elem.longVal)),
                         Mul(val, Inv(b.val)))
     \/ Set(Long(Junk, "lmont", RawFr_exp(acc.longVal, b.val)), Pow(val, b.val))
     \/ Set(Long(Junk, "lmont", RawFr_set(Signed(b.val))), b.val)

Binary(b) ==
  \/ DoAdd(b) \/ DoSub(b) \/ DoMul(b) \/ Divide(b) \/ Idiv(b) \/ Remain(b) \/ Power(b)
  \/ Compare(b) \/ Equate(b) \/ Decide(b) \/ Logic(b) \/ Shift(b) \/ Engine(b)

Next ==
  \/ Load \/ ToMontgomery \/ ToNormal \/ ToLongNormal
  \/ Negate \/ Square \/ BitNot \/ LogNot \/ Invert
  \/ InSync(acc) /\ \E b \in Operands : Binary(b)

Spec == Init /\ [][Next]_vars

--------------------------------------------------------------------------------
\* Type invariant: the long part of a long element is reduced, which every
\* comparison and the single subtraction of rawAdd rely on.
TypeOK ==
  /\ acc \in Element /\ val \in Field
  /\ isLong(acc) \/ isMont(acc) => acc.longVal < Q

\* Whatever the operations were and whatever forms their operands had, the element
\* stands for the integer modulo q that the operations yield: overflowing shorts,
\* negative shorts, Montgomery products of mixed forms, comparisons around half and
\* shifts by negative amounts included.
Tracks ==
  /\ isLong(acc) \/ isMont(acc) => longPart(acc) = val
  /\ ~isLong(acc) /\ InSync(acc) => shortPart(acc) = val

\* What leaves the field is right as well: the conversion to a GMP integer, and the
\* one to an int of every element that fits one.
ReadsBack ==
  InSync(acc) => /\ Fr_toMpz(acc) = val
                 /\ Fits(val) => Fr_toInt(acc) = Signed(val)
================================================================================
