----------------------------- MODULE FieldElement ------------------------------
(***************************************************************************)
(* The tagged field elements of fr_generic.cpp and fr.cpp (fq_generic.cpp  *)
(* and fq.cpp are the same text for the base field).  An element is a short*)
(* integer or a long one, in plain or in Montgomery form:                  *)
(*   "short"  shortVal is the integer;   "smont"  so it is, and longVal is *)
(*   "long"   longVal is the element;             its Montgomery form;     *)
(*   "lmont"  longVal is its Montgomery form.                              *)
(* A field that the type does not use keeps what was there before.         *)
(*                                                                         *)
(* An operation is a function of the old contents r of its result and of   *)
(* its operands; the result is an object of its own.  S is the width of a  *)
(* short (32), so that an int64_t holds a sum or a product of two.         *)
(***************************************************************************)
EXTENDS FieldRaw

CONSTANT S

SMin == -(2^(S - 1))
SMax == 2^(S - 1) - 1

\* Half of a word holds a short, so a word holds a product of two.
ASSUME ShortAssumption == S \in Nat /\ S > 1 /\ 2^(2 * S - 2) < Word /\ Word < Q

Element == [type : {"short", "smont", "long", "lmont"}, shortVal : SMin .. SMax, longVal : Raw]

isLong(e) == e.type \in {"long", "lmont"}
isMont(e) == e.type \in {"smont", "lmont"}

Long(r, t, v)  == [r EXCEPT !.type = t, !.longVal = v]
Short(r, v)    == [r EXCEPT !.type = "short", !.shortVal = v]
Overflow(r, v) == [r EXCEPT !.type = "long", !.shortVal = 0, !.longVal = rawCopyS2L(v)]
Truth(r, b)    == Short(r, IF b THEN 1 ELSE 0)

--------------------------------------------------------------------------------
\* Conversions.  toNormal leaves a short in Montgomery form as it is.
Fr_toNormal(r, a) ==
  IF a.type = "lmont" THEN Long(r, "long", rawFromMontgomery(a.longVal)) ELSE a

Fr_toLongNormal(r, a) ==
  IF isLong(a) THEN Fr_toNormal(r, a) ELSE Overflow(r, a.shortVal)

MulShort(x, w) == IF w < 0 THEN rawNeg(rawMMul1(x, -w)) ELSE rawMMul1(x, w)

\* A short is converted into the long part of r alone.
Fr_toMontgomery(r, a) ==
  CASE isMont(a)       -> a
    [] a.type = "long" -> [r EXCEPT !.type = "lmont", !.shortVal = a.shortVal,
                                    !.longVal = rawMMul(a.longVal, R2)]
    [] OTHER           -> Long(r, "smont", MulShort(R2, a.shortVal))

\* The long part of an operand, brought to one form or to the other.
plain(a) == Fr_toLongNormal(a, a).longVal
mont(a)  == Fr_toMontgomery(a, a).longVal

\* Some long operand is in Montgomery form; both operands are long, and plain.
anyLmont(a, b)  == "lmont" \in {a.type, b.type}
bothPlain(a, b) == a.type = "long" /\ b.type = "long"

--------------------------------------------------------------------------------
\* Sums of shorts are made in 64 bits; the two bits from the sign bit of a short
\* on tell an overflow.
has_add32_overflow(v) == (v \div 2^(S - 1)) % 4 \in {1, 2}

\* Mutant of SumOfShorts: the overflow is not looked for.
WrappedSum(r, v) == Short(r, ((v - SMin) % 2^S) + SMin)
SumOfShorts(r, v) == IF has_add32_overflow(v) THEN Overflow(r, v) ELSE Short(r, v)

addLS(x, w) == IF w >= 0 THEN rawAdd(x, w) ELSE rawSub(x, -w)
subLS(x, w) == IF w < 0 THEN rawAdd(x, -w) ELSE rawSub(x, w)
subSL(w, x) == IF w >= 0 THEN rawSub(w, x) ELSE rawNegLS(x, -w)

Fr_add(r, a, b) ==
  CASE ~isLong(a) /\ ~isLong(b) -> SumOfShorts(r, a.shortVal + b.shortVal)
    [] anyLmont(a, b)           -> Long(r, "lmont", rawAdd(mont(a), mont(b)))
    [] bothPlain(a, b)          -> Long(r, "long", rawAdd(a.longVal, b.longVal))
    [] a.type = "long" /\ ~isLong(b) -> Long(r, "long", addLS(a.longVal, b.shortVal))
    [] OTHER                    -> Long(r, "long", addLS(b.longVal, a.shortVal))

Fr_sub(r, a, b) ==
  CASE ~isLong(a) /\ ~isLong(b) -> SumOfShorts(r, a.shortVal - b.shortVal)
    [] anyLmont(a, b)           -> Long(r, "lmont", rawSub(mont(a), mont(b)))
    [] bothPlain(a, b)          -> Long(r, "long", rawSub(a.longVal, b.longVal))
    [] a.type = "long" /\ ~isLong(b) -> Long(r, "long", subLS(a.longVal, b.shortVal))
    [] OTHER                    -> Long(r, "long", subSL(a.shortVal, b.longVal))

Fr_neg(r, a) ==
  IF isLong(a) THEN [a EXCEPT !.longVal = rawNeg(a.longVal)]
  ELSE SumOfShorts(r, -a.shortVal)

--------------------------------------------------------------------------------
\* Products.  A Montgomery product divides by R, so the number of operands that are
\* in Montgomery form decides the form of the product.  The product of two shorts
\* is stored as a long one, whether it overflows or not.
MulForm(r, am, bm, p) ==
  CASE am /\ bm -> Long(r, "lmont", p)
    [] am # bm  -> Long(r, "long", p)
    [] OTHER    -> Long(r, "lmont", rawMMul(p, R3))

Fr_mul(r, a, b) ==
  IF ~isLong(a) /\ ~isLong(b) THEN Overflow(r, a.shortVal * b.shortVal)
  ELSE MulForm(r, isMont(a), isMont(b),
         CASE a.type = "short" -> MulShort(b.longVal, a.shortVal)
           [] b.type = "short" -> MulShort(a.longVal, b.shortVal)
           [] OTHER            -> rawMMul(a.longVal, b.longVal))

Fr_square(r, a) ==
  IF isLong(a) THEN MulForm(r, isMont(a), isMont(a), rawMMul(a.longVal, a.longVal))
  ELSE Overflow(r, a.shortVal * a.shortVal)

--------------------------------------------------------------------------------
\* Comparisons: the elements above half are the negative ones.
rltL1L2(x, y) ==
  IF half < x THEN half < y => x < y ELSE ~(half < y) /\ x < y
rgtL1L2(x, y) ==
  IF half < x THEN half < y /\ x > y ELSE half < y \/ x > y

Fr_rlt(a, b) == IF ~isLong(a) /\ ~isLong(b) THEN a.shortVal < b.shortVal
                ELSE rltL1L2(plain(a), plain(b))
Fr_rgt(a, b) == IF ~isLong(a) /\ ~isLong(b) THEN a.shortVal > b.shortVal
                ELSE rgtL1L2(plain(a), plain(b))
Fr_req(a, b) ==
  CASE ~isLong(a) /\ ~isLong(b) -> a.shortVal = b.shortVal
    [] anyLmont(a, b)           -> mont(a) = mont(b)
    [] OTHER                    -> plain(a) = plain(b)

Fr_lt(r, a, b)  == Truth(r, Fr_rlt(a, b))
Fr_geq(r, a, b) == Truth(r, ~Fr_rlt(a, b))
Fr_gt(r, a, b)  == Truth(r, Fr_rgt(a, b))
Fr_leq(r, a, b) == Truth(r, ~Fr_rgt(a, b))
Fr_eq(r, a, b)  == Truth(r, Fr_req(a, b))
Fr_neq(r, a, b) == Truth(r, ~Fr_req(a, b))

Fr_isTrue(a)     == IF isLong(a) THEN a.longVal # 0 ELSE a.shortVal # 0
Fr_land(r, a, b) == Truth(r, Fr_isTrue(a) /\ Fr_isTrue(b))
Fr_lor(r, a, b)  == Truth(r, Fr_isTrue(a) \/ Fr_isTrue(b))
Fr_lnot(r, a)    == Truth(r, ~Fr_isTrue(a))

--------------------------------------------------------------------------------
\* Logical operations on the bits of the plain form.
bothShort(a, b) == /\ ~isLong(a) /\ ~isLong(b)
                   /\ a.shortVal >= 0 /\ b.shortVal >= 0

Fr_band(r, a, b) ==
  IF bothShort(a, b) THEN Short(r, mpn_and(a.shortVal, b.shortVal))
  ELSE Long(r, "long", rawAnd(plain(a), plain(b)))
Fr_bor(r, a, b) ==
  IF bothShort(a, b) THEN Short(r, mpn_ior(a.shortVal, b.shortVal))
  ELSE Long(r, "long", rawOr(plain(a), plain(b)))
Fr_bxor(r, a, b) ==
  IF bothShort(a, b) THEN Short(r, mpn_xor(a.shortVal, b.shortVal))
  ELSE Long(r, "long", rawXor(plain(a), plain(b)))
Fr_bnot(r, a) == Long(r, "long", rawNot(plain(a)))

\* Shifts, by k >= 0 places.
wrapped(x, k, shifted) == IF k = 0 THEN x ELSE IF k >= MaxBits THEN 0 ELSE shifted

do_shl(r, a, k) ==
  LET long == Long(r, "long", wrapped(plain(a), k, rawShl(plain(a), k)))
      fits == a.shortVal > 0 /\ k < S - 1 /\ a.shortVal * 2^k <= SMax
  IN CASE ~isLong(a) /\ a.shortVal = 0 -> Short(r, 0)
       [] ~isLong(a) /\ fits           -> Short(r, a.shortVal * 2^k)
       [] OTHER                        -> long

do_shr(r, a, k) ==
  IF isLong(a) \/ a.shortVal < 0
  THEN Long(r, "long", wrapped(plain(a), k, rawShr(plain(a), k)))
  ELSE Short(r, IF k >= S - 1 THEN 0 ELSE a.shortVal \div 2^k)

\* The number of places is an element too; a negative one shifts the other way.
places(b) ==
  IF ~isLong(b) THEN b.shortVal
  ELSE IF plain(b) >= MaxBits THEN -rawSubRegular(Q, plain(b)) ELSE plain(b)

Fr_shl(r, a, b) ==
  LET k == places(b)
  IN CASE k \in 0 .. MaxBits - 1  -> do_shl(r, a, k)
       [] -k \in 1 .. MaxBits - 1 -> do_shr(r, a, -k)
       [] OTHER                   -> Short(r, 0)
Fr_shr(r, a, b) ==
  LET k == places(b)
  IN CASE k \in 0 .. MaxBits - 1  -> do_shr(r, a, k)
       [] -k \in 1 .. MaxBits - 1 -> do_shl(r, a, -k)
       [] OTHER                   -> Short(r, 0)

--------------------------------------------------------------------------------
\* Through GMP's integers (fr.cpp).  A negative short becomes its residue.
Fr_toMpz(a) ==
  LET n == Fr_toNormal(a, a)
  IN IF isLong(n) THEN n.longVal ELSE IF n.shortVal < 0 THEN n.shortVal + Q ELSE n.shortVal

\* A small integer becomes a short.
Fr_fromMpz(r, v) == IF v <= SMax THEN Short(r, v) ELSE Long(r, "long", v)

Fr_idiv(r, a, b) == Fr_fromMpz(r, Fr_toMpz(a) \div Fr_toMpz(b))
Fr_mod(r, a, b)  == Fr_fromMpz(r, Fr_toMpz(a) % Fr_toMpz(b))
Fr_pow(r, a, b)  == Fr_fromMpz(r, Pow(Fr_toMpz(a), Fr_toMpz(b)))
Fr_inv(r, a)     == Fr_fromMpz(r, Inv(Fr_toMpz(a)))
Fr_div(r, a, b)  == Fr_mul(r, a, Fr_inv(r, b))

\* toInt: what the code returns, or Err where it fails.  A long that does not fit
\* an int is read as negative from its lowest word alone.
Err == SMax + 1
longNeg(x) ==
  LET d == (limb(x, 0) - limb(Q, 0)) % Word
  IN IF x < Q /\ Word + SMin <= d THEN d - Word ELSE Err
longNormal(x) == IF x <= SMax THEN x ELSE longNeg(x)
\* Mutant of Fr_toInt: the Montgomery form is read as it is.
toIntOfRaw(a) == IF isLong(a) THEN longNormal(a.longVal) ELSE a.shortVal
Fr_toInt(a) == IF isLong(a) THEN longNormal(plain(a)) ELSE a.shortVal

\* The engine's RawFr: raw elements, all of them in Montgomery form.
RawFr_set(v)    == rawToMontgomery(IF v < 0 THEN v + Q ELSE v)
RawFr_inv(x)    == rawMMul(Inv(x), R3)
RawFr_div(x, y) == rawMMul(x, RawFr_inv(y))

\* exp: from the highest bit set of the scalar down.
RawFr_exp(x, k) ==
  LET top  == CHOOSE i \in 0 .. k : 2^i <= k /\ k < 2^(i + 1)
      r[i \in 0 .. top] ==      \* after the bits from top down to i
        IF i = top THEN x
        ELSE LET sq == rawMMul(r[i + 1], r[i + 1])
             IN IF bit(k, i) = 1 THEN rawMMul(sq, x) ELSE sq
  IN IF k = 0 THEN RawFr_set(1) ELSE r[0]
================================================================================
