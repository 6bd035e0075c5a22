------------------------------- MODULE FieldRaw --------------------------------
(***************************************************************************)
(* The arithmetic of fr_raw_generic.cpp (fq_raw_generic.cpp is the same    *)
(* text for the base field): a raw element is N words of W bits, taken here*)
(* as the number they spell.  GMP's mpn functions act on that number modulo*)
(* Radix and report the carry.  The code has N = 4 and W = 64, and a prime *)
(* of MaxBits = 254 bits, two less than the words have: hence the mask     *)
(* lboMask, and the single subtraction of q that follows it.               *)
(***************************************************************************)
EXTENDS PrimeField

CONSTANTS N, W

MaxBits == N * W - 2

ASSUME RawAssumption ==
  /\ N \in Nat \ {0} /\ W \in Nat \ {0} /\ MaxBits > 0
  /\ Q % 2 = 1 /\ 2^(MaxBits - 1) < Q /\ Q < 2^MaxBits

Word  == 2^W
Radix == 2^(N * W)
Raw   == 0 .. Radix - 1

\* The constants Fr_np, Fr_rawR2, Fr_R3 and half.
np   == CHOOSE x \in 0 .. Word - 1 : (x * Q) % Word = Word - 1
R1   == Radix % Q
R2   == Mul(R1, R1)
R3   == Mul(R2, R1)
half == Q \div 2

limb(a, i) == (a \div 2^(i * W)) % Word

--------------------------------------------------------------------------------
\* Sums: one addition, then q off on a carry or a result that is not below q.
rawAdd(x, y) == IF x + y >= Q THEN (x + y - Q) % Radix ELSE x + y

\* Differences: one subtraction, then q back on a borrow.
rawSub(x, y)  == IF x < y THEN (x - y + Q) % Radix ELSE x - y
rawSubRegular(x, y) == (x - y) % Radix
rawNeg(x)     == IF x = 0 THEN 0 ELSE (Q - x) % Radix

\* 0 - x - w, by two subtractions of which either may borrow.
rawNegLS(x, w) ==
  LET d == (Q - w) % Radix
  IN IF w > Q \/ d < x THEN (d - x + Q) % Radix ELSE d - x

\* A signed integer as an element.
rawCopyS2L(v) == IF v < 0 THEN (v + Q) % Radix ELSE v % Word

--------------------------------------------------------------------------------
\* Montgomery products.  Every round adds a term of N + 1 words to what the round
\* before has left, and the multiple of q that clears the lowest word.  The carry
\* of that addition goes to word 1 of the next round.
Top      == Radix * Word
Clear(t) == t + ((np * (t % Word)) % Word) * Q
Left(t)  == (t % Top) \div Word + (t \div Top) * Word

\* Mutant of Reduced: the last subtraction is missing.
NotReduced(x) == x
Reduced(x) == IF x >= Q THEN x - Q ELSE x

Rounds(term) ==
  LET t[i \in 0 .. N - 1] ==
        Clear((term[i] + (IF i = 0 THEN 0 ELSE Left(t[i - 1]))) % Top)
  IN Reduced((t[N - 1] % Top) \div Word)

First(x) == [i \in 0 .. N - 1 |-> IF i = 0 THEN x ELSE 0]

rawMMul(x, y)  == Rounds([i \in 0 .. N - 1 |-> y * limb(x, i)])
rawMMul1(x, w) == Rounds(First(x * w))
rawToMontgomery(x)   == rawMMul(x, R2)
rawFromMontgomery(x) == Rounds(First(x))

--------------------------------------------------------------------------------
\* Logical operations, bit by bit.  The result is masked to the bits of the prime
\* and may then still exceed it, once.
bit(x, i) == (x \div 2^i) % 2
fromBits(P(_)) == SumFunction([i \in 0 .. N * W - 1 |-> IF P(i) THEN 2^i ELSE 0])

mpn_and(x, y) == fromBits(LAMBDA i : bit(x, i) = 1 /\ bit(y, i) = 1)
mpn_ior(x, y) == fromBits(LAMBDA i : bit(x, i) = 1 \/ bit(y, i) = 1)
mpn_xor(x, y) == fromBits(LAMBDA i : bit(x, i) # bit(y, i))

Masked(x) == Reduced(x % 2^MaxBits)

rawAnd(x, y) == Masked(mpn_and(x, y))
rawOr(x, y)  == Masked(mpn_ior(x, y))
rawXor(x, y) == Masked(mpn_xor(x, y))
rawNot(x)    == Masked(Radix - 1 - x)
rawShl(x, k) == Masked((x * 2^k) % Radix)
rawShr(x, k) == x \div 2^k
================================================================================
