------------------------- MODULE FieldCalculatorProofs -------------------------
(***************************************************************************)
(* Proofs about FieldCalculator, FieldElement and FieldRaw.                *)
(***************************************************************************)
EXTENDS FieldCalculator, FieldProofs

--------------------------------------------------------------------------------
\* Words.

\* The sizes: a word and the numbers of N words, the prime within them.
LEMMA Sizes ==
  /\ Q \in Nat /\ Q > 2 /\ N \in Nat \ {0} /\ W \in Nat \ {0} /\ MaxBits \in Nat \ {0}
  /\ Word \in Nat \ {0} /\ Radix \in Nat \ {0} /\ Top = Radix * Word /\ Top \in Nat
  /\ 2^MaxBits \in Nat \ {0} /\ Radix = 4 * 2^MaxBits
  /\ 2^(MaxBits - 1) \in Nat \ {0} /\ 2^MaxBits = 2 * 2^(MaxBits - 1)
  /\ 2^(MaxBits - 1) < Q /\ Q < 2^MaxBits /\ Q % 2 = 1 /\ Word < Q
<1>1. /\ N \in Nat \ {0} /\ W \in Nat \ {0} /\ MaxBits > 0 /\ N * W \in Nat /\ Q \in Nat /\ Q > 2
      /\ 2^(MaxBits - 1) < Q /\ Q < 2^MaxBits /\ Q % 2 = 1 /\ Word < Q
  <2>1. N \in Nat /\ W \in Nat => N * W \in Nat
    OBVIOUS
  <2> QED  BY <2>1, RawAssumption, ShortAssumption, FieldAssumption
<1>2. MaxBits \in Nat \ {0} /\ MaxBits - 1 \in Nat /\ N * W = (MaxBits + 1) + 1 /\ (MaxBits - 1) + 1 = MaxBits
  BY <1>1 DEF MaxBits
<1> HIDE DEF MaxBits
<1>3. Word \in Nat \ {0} /\ Radix \in Nat \ {0}
  BY <1>1, TwoExp DEF Word, Radix
<1>4. /\ 2^MaxBits \in Nat \ {0} /\ 2^(MaxBits + 1) = 2 * 2^MaxBits
      /\ 2^((MaxBits + 1) + 1) = 2 * 2^(MaxBits + 1)
      /\ 2^(MaxBits - 1) \in Nat \ {0} /\ 2^((MaxBits - 1) + 1) = 2 * 2^(MaxBits - 1)
  <2>1. MaxBits + 1 \in Nat
    BY <1>2
  <2> QED  BY <1>2, <2>1, TwoExp
<1>5. Radix = 4 * 2^MaxBits
  <2>1. Radix = 2^((MaxBits + 1) + 1)
    BY <1>2 DEF Radix
  <2> QED  BY <1>4, <2>1
<1>6. Top = Radix * Word /\ Top \in Nat
  <2>1. \A x, y \in Nat : x * y \in Nat
    OBVIOUS
  <2> QED  BY <1>3, <2>1 DEF Top
<1> QED  BY <1>1, <1>2, <1>3, <1>4, <1>5, <1>6

\* The word-sized factor with which a multiple of Q ends in ones exists.
LEMMA NpIs == np \in 0 .. Word - 1 /\ (np * Q) % Word = Word - 1
<1> DEFINE T == {k \in Nat : \E x \in Nat, j \in Nat : x * Q + 1 = j * 2^k}
<1>0. Q \in Nat /\ Q % 2 = 1 /\ W \in Nat /\ Word \in Nat \ {0}
  BY Sizes
<1>1. 0 \in T
  <2>1. 0 * Q + 1 = 1 * 1 /\ 2^0 = 1
    BY <1>0
  <2> QED  BY <2>1
<1>2. ASSUME NEW k \in Nat, k \in T PROVE k + 1 \in T
  <2>1. PICK x \in Nat, j \in Nat : x * Q + 1 = j * 2^k
    BY <1>2
  <2> DEFINE p == 2^k
  <2>2. p \in Nat \ {0} /\ 2^(k + 1) = 2 * p
    BY TwoExp
  <2>3. j = 2 * (j \div 2) + (j % 2) /\ j \div 2 \in Nat /\ j % 2 \in {0, 1}
    OBVIOUS
  <2> HIDE DEF p
  <2>4. CASE j % 2 = 0
    <3> DEFINE i == j \div 2
    <3>1. j = 2 * i /\ i \in Nat
      BY <2>3, <2>4
    <3> HIDE DEF i
    <3>2. x * Q + 1 = i * (2 * p)
      <4>1. (2 * i) * p = i * (2 * p)
        BY <2>2, <3>1
      <4> QED  BY <2>1, <3>1, <4>1 DEF p
    <3> QED  BY <2>2, <3>1, <3>2
  <2>5. CASE j % 2 = 1
    <3> DEFINE i == j \div 2
               h == Q \div 2
    <3>1. j = 2 * i + 1 /\ i \in Nat /\ Q = 2 * h + 1 /\ h \in Nat
      BY <1>0, <2>3, <2>5
    <3> HIDE DEF i, h
    <3>2. (x + p) * Q + 1 = (i + h + 1) * (2 * p)
      <4>1. (x + p) * Q = x * Q + p * Q
        BY <1>0, <2>2
      <4>2. p * Q = h * (2 * p) + p
        BY <2>2, <3>1
      <4>3. j * p = i * (2 * p) + p
        BY <2>2, <3>1
      <4>4. (i + h + 1) * (2 * p) = (i * (2 * p) + h * (2 * p)) + 2 * p
        BY <2>2, <3>1
      <4>5. i * (2 * p) \in Nat /\ h * (2 * p) \in Nat /\ x * Q \in Nat
        BY <1>0, <2>2, <3>1
      <4> QED  BY <2>1, <2>2, <4>1, <4>2, <4>3, <4>4, <4>5 DEF p
    <3>3. x + p \in Nat /\ i + h + 1 \in Nat
      BY <2>2, <3>1
    <3> QED  BY <2>2, <3>2, <3>3
  <2> QED  BY <2>3, <2>4, <2>5
<1>3. W \in T
  <2>1. \A k \in Nat : k \in T
    <3> HIDE DEF T
    <3> QED  BY <1>1, <1>2, Induction
  <2> QED  BY <1>0, <2>1
<1>4. PICK x \in Nat, j \in Nat : x * Q + 1 = j * Word
  BY <1>3 DEF Word
<1> HIDE DEF T
<1> DEFINE r == x % Word
           a == x \div Word
<1>5. r \in 0 .. Word - 1 /\ a \in Int /\ x = Word * a + r
  BY <1>0, DivMod
<1> HIDE DEF r, a
<1>6. r * Q = (j - a * Q - 1) * Word + (Word - 1)
  <2>1. x * Q = (Word * a) * Q + r * Q
    BY <1>0, <1>5
  <2>2. (j - a * Q - 1) * Word = j * Word - (Word * a) * Q - Word
    BY <1>0, <1>5
  <2>3. j * Word \in Int /\ (Word * a) * Q \in Int /\ r * Q \in Int
    BY <1>0, <1>5
  <2> QED  BY <1>0, <1>4, <2>1, <2>2, <2>3
<1>7. (r * Q) % Word = Word - 1
  <2> DEFINE k == j - a * Q - 1
  <2>1. k \in Int /\ Word - 1 \in 0 .. Word - 1
    BY <1>0, <1>5
  <2>2. r * Q = k * Word + (Word - 1)
    BY <1>6
  <2> HIDE DEF k
  <2>3. ((k * Word) + (Word - 1)) % Word = Word - 1
    <3>1. Word \in Nat
      BY <1>0
    <3> QED  BY <2>1, <3>1, ModUnique, Zenon
  <2> QED  BY <2>2, <2>3, Zenon
<1> QED  BY <1>5, <1>7 DEF np

\* A round clears the lowest word, by adding a multiple of Q.
LEMMA Cleared ==
  ASSUME NEW t \in Nat
  PROVE  \E m \in 0 .. Word - 1, s \in Nat : Clear(t) = t + m * Q /\ Clear(t) = Word * s
<1> DEFINE b == t % Word
           a == t \div Word
           m == (np * b) % Word
           c == (np * b) \div Word
           d == (np * Q) \div Word
           s == a + (d + 1) * b - c * Q
<1>0. Word \in Nat \ {0} /\ Q \in Nat /\ np \in Int
  BY Sizes, NpIs
<1>1. b \in 0 .. Word - 1 /\ a \in Int /\ t = Word * a + b
  BY <1>0, DivMod
<1> HIDE DEF a, b
<1>2. m \in 0 .. Word - 1 /\ c \in Int /\ np * b = Word * c + m
  <2>1. np * b \in Int
    BY <1>0, <1>1
  <2> QED  BY <1>0, <2>1, DivMod
<1>3. d \in Int /\ np * Q = Word * d + (Word - 1)
  <2>1. np * Q \in Int
    BY <1>0
  <2> QED  BY <1>0, <2>1, DivMod, NpIs
<1>4. Clear(t) = t + m * Q
  BY DEF Clear, m, b
<1> HIDE DEF m, c, d
<1>5. t + m * Q = Word * s
  <2>1. (np * b) * Q = (Word * c) * Q + m * Q
    BY <1>0, <1>1, <1>2
  <2>2. (np * b) * Q = (Word * d + (Word - 1)) * b
    <3>1. (np * b) * Q = (np * Q) * b
      BY <1>0, <1>1
    <3> QED  BY <1>3, <3>1
  <2>3. (Word * d + (Word - 1)) * b = Word * ((d + 1) * b) - b
    BY <1>0, <1>1, <1>3
  <2>4. (Word * c) * Q = Word * (c * Q)
    BY <1>0, <1>2
  <2>5. Word * s = Word * a + Word * ((d + 1) * b) - Word * (c * Q)
    BY <1>0, <1>1, <1>2, <1>3
  <2>6. /\ Word * a \in Int /\ Word * ((d + 1) * b) \in Int /\ Word * (c * Q) \in Int
        /\ m * Q \in Int
    BY <1>0, <1>1, <1>2, <1>3
  <2> QED  BY <1>1, <2>1, <2>2, <2>3, <2>4, <2>5, <2>6
<1>6. s \in Int
  BY <1>0, <1>1, <1>2, <1>3
<1> HIDE DEF s
<1>7. s \in Nat
  <2>1. m * Q \in Nat
    BY <1>0, <1>2
  <2>2. Word * s >= 0
    BY <1>5, <2>1
  <2>3. \A x \in Nat \ {0}, y \in Int : x * y >= 0 => y >= 0
    OBVIOUS
  <2> QED  BY <1>0, <1>6, <2>2, <2>3
<1> QED  BY <1>2, <1>4, <1>5, <1>7

\* The rounds, as a recursive function of their number.
RoundAt(term, t, i) == Clear((term[i] + (IF i = 0 THEN 0 ELSE Left(t[i - 1]))) % Top)
AreRounds(term, t) == t = [i \in 0 .. N - 1 |-> RoundAt(term, t, i)]

LEMMA RoundsUnfold ==
  \A term : Rounds(term) = Reduced((((CHOOSE t : AreRounds(term, t))[N - 1]) % Top) \div Word)
BY Zenon DEF Rounds, AreRounds, RoundAt

LEMMA RoundsExist == ASSUME NEW term PROVE \E t : AreRounds(term, t)
<1> DEFINE T == {n \in Nat : \E t : t = [i \in 0 .. n |-> RoundAt(term, t, i)]}
<1>1. 0 \in T
  <2> DEFINE t == [i \in 0 .. 0 |-> Clear((term[i] + 0) % Top)]
  <2>1. t = [i \in 0 .. 0 |-> RoundAt(term, t, i)]
    BY DEF RoundAt
  <2> QED  BY <2>1
<1>2. ASSUME NEW n \in Nat, n \in T PROVE n + 1 \in T
  <2>1. PICK t : t = [i \in 0 .. n |-> RoundAt(term, t, i)]
    BY <1>2
  <2> DEFINE u == [i \in 0 .. n + 1 |-> IF i <= n THEN t[i] ELSE RoundAt(term, t, i)]
  <2>2. ASSUME NEW i \in 0 .. n + 1 PROVE u[i] = RoundAt(term, u, i)
    <3>1. u[i] = RoundAt(term, t, i)
      BY <2>1
    <3>2. i = 0 \/ u[i - 1] = t[i - 1]
      OBVIOUS
    <3> HIDE DEF u
    <3> QED  BY <3>1, <3>2 DEF RoundAt
  <2>3. u = [i \in 0 .. n + 1 |-> RoundAt(term, u, i)]
    <3> DEFINE w == [i \in 0 .. n + 1 |-> RoundAt(term, u, i)]
    <3>1. DOMAIN u = 0 .. n + 1 /\ u = [i \in 0 .. n + 1 |-> u[i]]
      OBVIOUS
    <3> HIDE DEF u
    <3>2. \A i \in 0 .. n + 1 : u[i] = w[i]
      BY <2>2
    <3>3. u = w
      BY <3>1, <3>2
    <3> QED  BY <3>3
  <2> HIDE DEF u
  <2> QED  BY <2>3
<1>3. N - 1 \in T
  <2>1. \A n \in Nat : n \in T
    <3> HIDE DEF T
    <3> QED  BY <1>1, <1>2, Induction
  <2>2. N - 1 \in Nat
    BY Sizes
  <2> QED  BY <2>1, <2>2
<1> QED  BY <1>3 DEF AreRounds

\* One round, without an overflow: what it leaves is below 2Q whenever what it found was.
LEMMA Round ==
  ASSUME NEW z \in Nat, z <= (Word - 1) * Q, NEW s \in Nat, s < 2 * Q
  PROVE  \E m \in 0 .. Word - 1, u \in Nat :
           /\ Clear((z + s) % Top) = Word * u /\ Word * u = z + s + m * Q /\ u < 2 * Q
           /\ Left(Word * u) = u /\ ((Word * u) % Top) \div Word = u
<1>0. Word \in Nat \ {0} /\ Q \in Nat /\ Q > 0 /\ Radix \in Nat /\ 4 * Q <= Radix /\ Top = Radix * Word /\ Top \in Nat
  BY Sizes
<1>1. 4 * (Q * Word) <= Top
  <2>1. \A x, y, k \in Nat : x <= y => x * k <= y * k
    OBVIOUS
  <2>2. (4 * Q) * Word <= Radix * Word
    BY <1>0, <2>1
  <2> QED  BY <1>0, <2>2
<1>2. (Word - 1) * Q = Q * Word - Q /\ Q * Word \in Nat /\ Q <= Q * Word
  <2>1. (Word - 1) * Q = Q * Word - Q /\ Q * Word \in Nat
    BY <1>0
  <2>2. \A x, y \in Nat : y > 0 => x <= x * y
    OBVIOUS
  <2> QED  BY <1>0, <2>1, <2>2
<1>3. z + s < Top /\ z + s \in Nat
  BY <1>0, <1>1, <1>2
<1>4. (z + s) % Top = z + s
  BY <1>0, <1>3
<1>5. PICK m \in 0 .. Word - 1, u \in Nat : Clear(z + s) = (z + s) + m * Q /\ Clear(z + s) = Word * u
  BY <1>3, Cleared
<1>6. m * Q <= Q * Word - Q /\ m * Q \in Nat
  <2>1. \A x, y, k \in Nat : x <= y => x * k <= y * k
    OBVIOUS
  <2>2. m * Q <= (Word - 1) * Q
    BY <1>0, <2>1
  <2> QED  BY <1>0, <1>2, <2>2
<1>7. Word * u < 2 * (Q * Word)
  BY <1>0, <1>2, <1>5, <1>6
<1>8. u < 2 * Q
  <2> SUFFICES ASSUME u >= 2 * Q PROVE FALSE
    BY <1>0
  <2>1. \A x, y, k \in Nat : x <= y => k * x <= k * y
    OBVIOUS
  <2>2. Word * (2 * Q) <= Word * u
    BY <1>0, <2>1
  <2>3. Word * (2 * Q) = 2 * (Q * Word)
    BY <1>0
  <2> QED  BY <1>0, <1>2, <1>7, <2>2, <2>3
<1>9. Word * u < Top /\ Word * u \in Nat
  BY <1>0, <1>1, <1>2, <1>7
<1>10. (Word * u) % Top = Word * u /\ (Word * u) \div Top = 0
  <2> DEFINE y == Word * u
  <2>1. y \in Nat /\ y < Top /\ Top \in Nat
    BY <1>0, <1>9
  <2> HIDE DEF y
  <2>2. y % Top = y /\ y \div Top = 0
    BY <2>1
  <2> QED  BY <2>2 DEF y
<1>11. (Word * u) \div Word = u
  <2>1. u * Word + 0 = Word * u
    BY <1>0
  <2>2. 0 \in 0 .. Word - 1
    BY <1>0
  <2>3. ((u * Word) + 0) \div Word = u
    BY <1>0, <2>2, ModUnique
  <2> QED  BY <2>1, <2>3
<1>12. Left(Word * u) = u
  <2>1. 0 * Word = 0
    BY <1>0
  <2> QED  BY <1>10, <1>11, <2>1 DEF Left
<1> QED  BY <1>4, <1>5, <1>8, <1>10, <1>11, <1>12

\* Where a word begins.
LEMMA WordPower ==
  /\ 2^(0 * W) = 1 /\ 2^(N * W) = Radix
  /\ \A i \in Nat : 2^(i * W) \in Nat \ {0} /\ 2^((i + 1) * W) = 2^(i * W) * Word
<1>0. W \in Nat
  BY Sizes
<1>1. 2^(0 * W) = 1
  <2>1. 0 * W = 0 /\ 2^0 = 1
    BY <1>0
  <2> QED  BY <2>1
<1>2. ASSUME NEW i \in Nat PROVE 2^(i * W) \in Nat \ {0} /\ 2^((i + 1) * W) = 2^(i * W) * Word
  <2>1. i * W \in Nat /\ (i + 1) * W = i * W + W
    BY <1>0
  <2>2. 2^(i * W + W) = 2^(i * W) * 2^W
    BY <1>0, <2>1, TwoExpAdd
  <2> QED  BY <2>1, <2>2, TwoExp DEF Word
<1> QED  BY <1>1, <1>2 DEF Radix

\* A multiple of Q does not matter.
LEMMA CongMultiple == ASSUME NEW x \in Int, NEW k \in Int PROVE Cong(x + k * Q, x)
<1>1. Q \in Nat /\ x + k * Q \in Int
  BY Sizes
<1> QED  BY <1>1, CongWitness

\* One round divides by a word.
LEMMA RoundCong ==
  ASSUME NEW z \in Int, NEW s \in Int, NEW m \in Int, NEW u \in Int, Word * u = z + s + m * Q,
         NEW p \in Int, NEW v \in Int, Cong(s * p, v)
  PROVE  Cong(u * (p * Word), v + z * p)
<1>0. Word \in Int /\ Q \in Int
  BY Sizes
<1>1. u * (p * Word) = (s * p + z * p) + (m * p) * Q
  <2>1. u * (p * Word) = (Word * u) * p
    BY <1>0
  <2>2. (z + s + m * Q) * p = (s * p + z * p) + (m * p) * Q
    BY <1>0
  <2> QED  BY <2>1, <2>2
<1>2. s * p \in Int /\ z * p \in Int /\ m * p \in Int
  BY <1>0
<1>3. Cong((s * p + z * p) + (m * p) * Q, s * p + z * p)
  BY <1>2, CongMultiple
<1>4. Cong(s * p + z * p, v + z * p)
  <2>1. Cong(z * p, z * p)
    BY DEF Cong
  <2> QED  BY <1>2, <2>1, CongSums
<1> QED  BY <1>1, <1>3, <1>4 DEF Cong

\* The terms are no larger than a word times an element, and v[i] is what the first i + 1
\* of them spell.
Spelled(term, v) ==
  /\ \A i \in 0 .. N - 1 : term[i] \in Nat /\ term[i] <= (Word - 1) * Q /\ v[i] \in Nat
  /\ v[0] = term[0]
  /\ \A i \in Nat : i + 1 \in 0 .. N - 1 => v[i + 1] = v[i] + term[i + 1] * 2^((i + 1) * W)

\* The rounds yield a reduced element: the one that the terms spell, divided by Radix.
LEMMA RoundsMean ==
  ASSUME NEW term, NEW v, Spelled(term, v)
  PROVE  Rounds(term) \in Field /\ Cong(Rounds(term) * Radix, v[N - 1])
<1>0. N \in Nat \ {0} /\ Q \in Nat /\ Q > 0 /\ Word \in Nat \ {0} /\ Radix \in Nat /\ W \in Nat
  BY Sizes
<1> DEFINE t == CHOOSE x : AreRounds(term, x)
<1>1. AreRounds(term, t)
  BY RoundsExist
<1>2. Rounds(term) = Reduced(((t[N - 1]) % Top) \div Word)
  BY RoundsUnfold
<1> HIDE DEF t
<1>3. ASSUME NEW i \in 0 .. N - 1 PROVE t[i] = RoundAt(term, t, i)
  <2> DEFINE h == [j \in 0 .. N - 1 |-> RoundAt(term, t, j)]
  <2>1. h[i] = RoundAt(term, t, i)
    OBVIOUS
  <2>2. t = h
    BY <1>1 DEF AreRounds
  <2> QED  BY <2>1, <2>2, Zenon
<1> DEFINE Good(i, u) ==
             /\ t[i] = Word * u /\ u < 2 * Q /\ Left(t[i]) = u /\ ((t[i]) % Top) \div Word = u
             /\ Cong(u * 2^((i + 1) * W), v[i])
           T == {i \in Nat : i <= N - 1 => \E u \in Nat : Good(i, u)}
<1>4. ASSUME NEW i \in 0 .. N - 1, NEW s \in Nat, s < 2 * Q, NEW y \in Nat,
             t[i] = Clear((term[i] + s) % Top), Cong(s * 2^(i * W), y),
             v[i] = y + term[i] * 2^(i * W)
      PROVE  \E u \in Nat : Good(i, u)
  <2>1. term[i] \in Nat /\ term[i] <= (Word - 1) * Q
    BY DEF Spelled
  <2>2. PICK m \in 0 .. Word - 1, u \in Nat :
           /\ Clear((term[i] + s) % Top) = Word * u /\ Word * u = term[i] + s + m * Q /\ u < 2 * Q
           /\ Left(Word * u) = u /\ ((Word * u) % Top) \div Word = u
    BY <1>4, <2>1, Round
  <2>3. i \in Nat /\ m \in Int /\ 2^(i * W) \in Int /\ 2^((i + 1) * W) = 2^(i * W) * Word
    BY <1>0, WordPower
  <2>4. Cong(u * (2^(i * W) * Word), y + term[i] * 2^(i * W))
    <3> DEFINE p == 2^(i * W)
    <3>1. p \in Int /\ Cong(s * p, y)
      BY <1>4, <2>3
    <3> HIDE DEF p
    <3> DEFINE z == term[i]
    <3>2. z \in Int /\ s \in Int /\ u \in Int /\ m \in Int /\ y \in Int
      BY <1>0, <2>1
    <3>3. Word * u = z + s + m * Q
      BY <2>2
    <3> HIDE DEF z
    <3>4. Cong(u * (p * Word), y + z * p)
      BY ONLY <3>1, <3>2, <3>3, RoundCong
    <3> QED  BY <3>4 DEF p, z
  <2>5. t[i] = Word * u
    BY <1>4, <2>2
  <2>6. Good(i, u)
    BY <1>4, <2>2, <2>3, <2>4, <2>5
  <2> QED  BY <2>6
<1>5. 0 \in T
  <2>1. 0 \in 0 .. N - 1 /\ 0 < 2 * Q
    BY <1>0
  <2>2. t[0] = Clear((term[0] + 0) % Top)
    BY <1>3, <2>1 DEF RoundAt
  <2>3. term[0] \in Nat /\ v[0] = 0 + term[0] * 2^(0 * W) /\ Cong(0 * 2^(0 * W), 0)
    <3>1. term[0] \in Nat /\ v[0] = term[0]
      BY <2>1 DEF Spelled
    <3>2. term[0] * 1 = term[0] /\ 0 * 1 = 0
      BY <3>1
    <3> QED  BY <3>1, <3>2, WordPower DEF Cong
  <2> HIDE DEF Good
  <2>4. \E u \in Nat : Good(0, u)
    BY <1>4, <2>1, <2>2, <2>3
  <2> QED  BY <2>4
<1>6. ASSUME NEW i \in Nat, i \in T PROVE i + 1 \in T
  <2> HIDE DEF Good
  <2> SUFFICES ASSUME i + 1 <= N - 1 PROVE \E u \in Nat : Good(i + 1, u)
    BY <1>6
  <2>1. i \in 0 .. N - 1 /\ i + 1 \in 0 .. N - 1 /\ i + 1 # 0 /\ (i + 1) - 1 = i
    BY <1>0
  <2>2. PICK u \in Nat : Good(i, u)
    BY <1>6, <2>1
  <2>3. t[i + 1] = Clear((term[i + 1] + Left(t[i])) % Top)
    BY <1>3, <2>1 DEF RoundAt
  <2>4. v[i] \in Nat /\ v[i + 1] = v[i] + term[i + 1] * 2^((i + 1) * W)
    BY <2>1 DEF Spelled
  <2>5. Left(t[i]) = u /\ u < 2 * Q /\ Cong(u * 2^((i + 1) * W), v[i])
    BY <2>2 DEF Good
  <2> QED  BY <1>4, <2>1, <2>3, <2>4, <2>5
<1>7. N - 1 \in T
  <2>1. \A i \in Nat : i \in T
    <3> HIDE DEF T
    <3> QED  BY <1>5, <1>6, Induction
  <2> HIDE DEF T
  <2> QED  BY <1>0, <2>1
<1>8. PICK u \in Nat : Good(N - 1, u)
  <2> HIDE DEF Good
  <2> QED  BY <1>0, <1>7
<1>9. /\ Rounds(term) = Reduced(u) /\ u < 2 * Q /\ Cong(u * Radix, v[N - 1])
  <2>1. ((N - 1) + 1) * W = N * W
    BY <1>0
  <2> QED  BY <1>2, <1>8, <2>1, WordPower
<1>10. v[N - 1] \in Int
  <2>1. N - 1 \in 0 .. N - 1
    BY <1>0
  <2> QED  BY <2>1 DEF Spelled
<1>11. CASE u >= Q
  <2>1. Reduced(u) = u - Q /\ u - Q \in 0 .. Q - 1
    BY <1>0, <1>9, <1>11 DEF Reduced
  <2>2. Cong((u - Q) * Radix, u * Radix)
    <3>1. u * Radix = (u - Q) * Radix + Radix * Q
      BY <1>0
    <3>2. (u - Q) * Radix \in Int /\ Radix \in Int
      BY <1>0
    <3>3. Cong((u - Q) * Radix + Radix * Q, (u - Q) * Radix)
      BY <3>2, CongMultiple
    <3> QED  BY <3>1, <3>3 DEF Cong
  <2> QED  BY <1>9, <2>1, <2>2 DEF Cong, Field
<1>12. CASE u < Q
  <2>1. Reduced(u) = u /\ u \in 0 .. Q - 1
    BY <1>0, <1>12 DEF Reduced
  <2> QED  BY <1>9, <2>1 DEF Field
<1> QED  BY <1>0, <1>11, <1>12

\* The part of a number below a place and the word there.
LEMMA ModSplit ==
  ASSUME NEW x \in Nat, NEW p \in Nat \ {0}, NEW k \in Nat \ {0}
  PROVE  /\ p * k \in Nat \ {0} /\ x % (p * k) = (x % p) + ((x \div p) % k) * p
         /\ (x \div p) % k \in 0 .. k - 1 /\ x % p \in Nat
<1> DEFINE a == x \div p
           b == x % p
           c == a \div k
           d == a % k
<1>1. a \in Nat /\ b \in 0 .. p - 1 /\ x = p * a + b
  BY ModType
<1> HIDE DEF a, b
<1>2. c \in Nat /\ d \in 0 .. k - 1 /\ a = k * c + d
  BY <1>1, ModType
<1> HIDE DEF c, d
<1>3. p * k \in Nat \ {0}
  <2>1. \A i, j \in Nat : i # 0 /\ j # 0 => i * j \in Nat /\ i * j # 0
    OBVIOUS
  <2> QED  BY <2>1
<1>4. x = c * (p * k) + (b + d * p)
  <2>1. p * (k * c + d) = c * (p * k) + d * p
    BY <1>1, <1>2
  <2>2. c * (p * k) \in Int /\ d * p \in Int
    BY <1>1, <1>2
  <2> QED  BY <1>1, <1>2, <2>1, <2>2
<1>5. b + d * p \in 0 .. (p * k) - 1
  <2>1. \A i, j, l \in Nat : i <= j => i * l <= j * l
    OBVIOUS
  <2>2. d * p <= (k - 1) * p /\ d * p \in Nat
    BY <1>2, <2>1
  <2>3. (k - 1) * p = p * k - p
    OBVIOUS
  <2>4. p * k \in Nat
    OBVIOUS
  <2> QED  BY <1>1, <2>2, <2>3, <2>4
<1>6. x % (p * k) = b + d * p
  <2> DEFINE q == p * k
             r == b + d * p
  <2>1. q \in Nat /\ r \in 0 .. q - 1 /\ c \in Int /\ x = c * q + r
    BY <1>2, <1>3, <1>4, <1>5
  <2> HIDE DEF q, r
  <2>2. x % q = r
    BY <2>1, ModUnique
  <2> QED  BY <2>2 DEF q, r
<1> QED  BY <1>1, <1>2, <1>3, <1>6 DEF a, b, d

\* A product by a word of an element is not too large a term.
LEMMA TermSize ==
  ASSUME NEW y \in Field, NEW w \in 0 .. Word - 1
  PROVE  y * w \in Nat /\ y * w <= (Word - 1) * Q
<1>1. y \in Nat /\ y <= Q /\ Q \in Nat /\ Word \in Nat \ {0}
  BY Sizes DEF Field
<1>2. \A i, j, k, l \in Nat : i <= j /\ k <= l => i * k <= j * l /\ i * k \in Nat
  <2>1. \A i, j, k \in Nat : i <= j => i * k <= j * k /\ k * i <= k * j
    OBVIOUS
  <2> SUFFICES ASSUME NEW i \in Nat, NEW j \in Nat, NEW k \in Nat, NEW l \in Nat, i <= j, k <= l
               PROVE  i * k <= j * l /\ i * k \in Nat
    OBVIOUS
  <2>2. i * k <= j * k /\ j * k <= j * l
    BY <2>1
  <2>3. i * k \in Nat /\ j * k \in Nat /\ j * l \in Nat
    OBVIOUS
  <2> QED  BY <2>2, <2>3
<1>3. Q * (Word - 1) = (Word - 1) * Q
  BY <1>1
<1>4. w \in Nat /\ w <= Word - 1 /\ Word - 1 \in Nat
  BY <1>1
<1> QED  BY <1>1, <1>2, <1>3, <1>4

\* The Montgomery product of a number and an element.
LEMMA MMulIs ==
  ASSUME NEW x \in Raw, NEW y \in Field
  PROVE  rawMMul(x, y) \in Field /\ Cong(rawMMul(x, y) * Radix, x * y)
<1> DEFINE term == [i \in 0 .. N - 1 |-> y * limb(x, i)]
           v == [i \in 0 .. N - 1 |-> y * (x % 2^((i + 1) * W))]
<1>0. N \in Nat \ {0} /\ W \in Nat /\ Word \in Nat \ {0} /\ Radix \in Nat \ {0} /\ y \in Nat /\ x \in Nat /\ x < Radix
  BY Sizes DEF Field, Raw
<1>1. ASSUME NEW i \in 0 .. N - 1
      PROVE  /\ 2^(i * W) \in Nat \ {0} /\ 2^((i + 1) * W) = 2^(i * W) * Word
             /\ x % 2^((i + 1) * W) = (x % 2^(i * W)) + limb(x, i) * 2^(i * W)
             /\ limb(x, i) \in 0 .. Word - 1 /\ x % 2^(i * W) \in Nat
             /\ 2^((i + 1) * W) \in Nat \ {0}
  <2> DEFINE p == 2^(i * W)
  <2>1. p \in Nat \ {0} /\ 2^((i + 1) * W) = p * Word
    BY <1>0, WordPower
  <2>2. limb(x, i) = (x \div p) % Word
    BY DEF limb
  <2> HIDE DEF p
  <2>3. /\ x % (p * Word) = (x % p) + limb(x, i) * p
        /\ limb(x, i) \in 0 .. Word - 1 /\ x % p \in Nat /\ p * Word \in Nat \ {0}
    <3>1. /\ x % (p * Word) = (x % p) + ((x \div p) % Word) * p
          /\ (x \div p) % Word \in 0 .. Word - 1 /\ x % p \in Nat /\ p * Word \in Nat \ {0}
      BY <1>0, <2>1, ModSplit
    <3> QED  BY <2>2, <3>1
  <2> QED  BY <2>1, <2>3 DEF p
<1>2. ASSUME NEW i \in 0 .. N - 1
      PROVE  term[i] \in Nat /\ term[i] <= (Word - 1) * Q /\ v[i] \in Nat
  <2>1. term[i] = y * limb(x, i) /\ v[i] = y * (x % 2^((i + 1) * W))
    OBVIOUS
  <2>2. x % 2^((i + 1) * W) \in Nat
    <3> DEFINE p == 2^((i + 1) * W)
    <3>1. p \in Nat \ {0}
      BY <1>1
    <3> HIDE DEF p
    <3>2. x % p \in Nat
      BY <1>0, <3>1, ModType
    <3> QED  BY <3>2 DEF p
  <2>3. \A j, k \in Nat : j * k \in Nat
    OBVIOUS
  <2> HIDE DEF term, v
  <2> QED  BY <1>0, <1>1, <2>1, <2>2, <2>3, TermSize
<1>3. v[0] = term[0]
  <2>1. 0 \in 0 .. N - 1 /\ 0 + 1 = 1
    BY <1>0
  <2>2. x % 1 = 0
    BY <1>0
  <2>3. limb(x, 0) \in Nat /\ x % 2^((0 + 1) * W) = (x % 2^(0 * W)) + limb(x, 0) * 2^(0 * W)
    BY <1>0, <1>1, <2>1
  <2>4. x % 2^((0 + 1) * W) = limb(x, 0)
    BY <2>2, <2>3, WordPower
  <2> QED  BY <2>1, <2>4
<1>4. ASSUME NEW i \in Nat, i + 1 \in 0 .. N - 1
      PROVE  v[i + 1] = v[i] + term[i + 1] * 2^((i + 1) * W)
  <2> DEFINE p == 2^((i + 1) * W)
             w == limb(x, i + 1)
             r == x % p
  <2>1. i \in 0 .. N - 1
    BY <1>0, <1>4
  <2>2. v[i + 1] = y * (x % 2^(((i + 1) + 1) * W)) /\ v[i] = y * r /\ term[i + 1] = y * w
    BY <1>4, <2>1
  <2>3. x % 2^(((i + 1) + 1) * W) = r + w * p /\ p \in Nat /\ w \in Nat /\ r \in Nat
    BY <1>0, <1>1, <1>4
  <2> HIDE DEF p, w, r, v, term
  <2>4. y * (r + w * p) = y * r + (y * w) * p
    BY <1>0, <2>3
  <2> QED  BY <2>2, <2>3, <2>4 DEF p
<1>5. Spelled(term, v)
  <2> HIDE DEF term, v
  <2> QED  BY <1>2, <1>3, <1>4 DEF Spelled
<1>6. rawMMul(x, y) = Rounds(term)
  BY DEF rawMMul
<1>7. v[N - 1] = x * y
  <2>1. N - 1 \in 0 .. N - 1 /\ ((N - 1) + 1) * W = N * W
    BY <1>0
  <2>2. v[N - 1] = y * (x % Radix)
    BY <2>1, WordPower
  <2>3. x % Radix = x
    BY <1>0
  <2> HIDE DEF v
  <2> QED  BY <1>0, <2>2, <2>3
<1> HIDE DEF term, v
<1> QED  BY <1>5, <1>6, <1>7, RoundsMean

\* A single term: the product of an element with a word, and the way back from Montgomery form.
LEMMA FirstIs ==
  ASSUME NEW x \in Nat, x <= (Word - 1) * Q
  PROVE  Rounds(First(x)) \in Field /\ Cong(Rounds(First(x)) * Radix, x)
<1> DEFINE term == First(x)
           v == [i \in 0 .. N - 1 |-> x]
<1>0. N \in Nat \ {0} /\ Q \in Nat /\ Word \in Nat \ {0}
  BY Sizes
<1>1. (Word - 1) * Q \in Nat
  <2>1. \A j, k \in Nat : j * k \in Nat
    OBVIOUS
  <2> QED  BY <1>0, <2>1
<1>2. ASSUME NEW i \in 0 .. N - 1
      PROVE  term[i] = IF i = 0 THEN x ELSE 0
  BY DEF First
<1>3. ASSUME NEW i \in Nat, i + 1 \in 0 .. N - 1
      PROVE  v[i + 1] = v[i] + term[i + 1] * 2^((i + 1) * W)
  <2>1. i \in 0 .. N - 1 /\ i + 1 # 0
    BY <1>0, <1>3
  <2>2. v[i + 1] = x /\ v[i] = x
    BY <1>3, <2>1
  <2>3. term[i + 1] = 0
    BY <1>2, <1>3, <2>1
  <2>4. 0 * 2^((i + 1) * W) = 0
    <3> DEFINE p == 2^((i + 1) * W)
    <3>1. p \in Nat
      BY WordPower
    <3> HIDE DEF p
    <3>2. 0 * p = 0
      BY <3>1
    <3> QED  BY <3>2 DEF p
  <2> HIDE DEF v, term
  <2> QED  BY <2>2, <2>3, <2>4
<1>4. Spelled(term, v)
  <2>1. \A i \in 0 .. N - 1 : v[i] = x
    OBVIOUS
  <2>2. 0 \in 0 .. N - 1
    BY <1>0
  <2> HIDE DEF term, v
  <2> QED  BY <1>1, <1>2, <1>3, <2>1, <2>2 DEF Spelled
<1>5. v[N - 1] = x
  BY <1>0
<1> HIDE DEF term, v
<1>6. Rounds(term) \in Field /\ Cong(Rounds(term) * Radix, x)
  BY <1>4, <1>5, RoundsMean
<1> QED  BY <1>6 DEF term

--------------------------------------------------------------------------------
\* Montgomery form.

\* What is a field element is a raw number, and so is a word.
LEMMA FieldIs ==
  /\ Field \subseteq Raw /\ Field \subseteq Nat /\ 0 .. Word - 1 \subseteq Field
  /\ \A x : x \in Field <=> x \in Nat /\ x < Q
  /\ 0 \in Field /\ 1 \in Field /\ 2 \in Field
BY Sizes DEF Field, Raw

\* No power of two is a multiple of Q.
LEMMA TwoUnit == \A k \in Nat : 2^k % Q # 0
<1> DEFINE T == {k \in Nat : 2^k % Q # 0}
<1>1. 0 \in T
  <2>1. 2^0 = 1 /\ 1 % Q = 1
    BY Sizes
  <2> QED  BY <2>1
<1>2. ASSUME NEW k \in Nat, k \in T PROVE k + 1 \in T
  <2> DEFINE x == 2^k
             r == x % Q
  <2>1. x \in Nat /\ 2^(k + 1) = 2 * x
    BY TwoExp
  <2>2. r # 0
    BY <1>2
  <2> HIDE DEF x
  <2>3. r \in Field /\ r \in Int
    BY <2>1, ResidueType
  <2>4. r \in 1 .. Q - 1 /\ 2 \in 1 .. Q - 1
    BY <2>2, <2>3, Sizes DEF Field
  <2>5. Cong(r, x)
    BY <2>1, CongResidue
  <2> HIDE DEF r
  <2>6. (2 * r) % Q # 0
    BY <2>4, PrimeAssumption
  <2>7. Cong(2 * r, 2 * x)
    <3>1. 2 \in Int /\ x \in Int /\ r \in Int
      BY <2>1, <2>3
    <3> QED  BY <2>5, <3>1, CongTimes, Zenon
  <2>8. (2 * x) % Q # 0
    BY <2>6, <2>7 DEF Cong
  <2> QED  BY <2>1, <2>8
<1> QED
  <2> HIDE DEF T
  <2>1. \A k \in Nat : k \in T
    BY <1>1, <1>2, Induction
  <2> QED  BY <2>1 DEF T

\* The constants.
LEMMA RIs ==
  /\ R1 \in Field \ {0} /\ R1 \in Int /\ Cong(Radix, R1)
  /\ R2 \in Field /\ R2 \in Int /\ R2 = Mul(R1, R1)
  /\ R3 \in Field /\ R3 \in Int /\ R3 = Mul(R2, R1)
<1>1. N * W \in Nat /\ Radix \in Int
  <2>1. N \in Nat /\ W \in Nat
    BY Sizes
  <2>2. N * W \in Nat
    BY <2>1
  <2> QED  BY <2>2, Sizes
<1>2. R1 # 0 /\ R1 \in Field /\ R1 \in Int /\ Cong(R1, Radix)
  BY <1>1, TwoUnit, ResidueType, CongResidue DEF R1, Radix
<1>3. R2 \in Field /\ R2 \in Int
  BY <1>2, MulType DEF R2
<1>4. R3 \in Field /\ R3 \in Int
  BY <1>2, <1>3, MulType DEF R3
<1> QED  BY <1>2, <1>3, <1>4 DEF R2, R3, Cong

\* A product with Radix is one with R1.
LEMMA RadixIsR == ASSUME NEW x \in Int, NEW y \in Int, Cong(x * Radix, y) PROVE Mul(x, R1) = y % Q
<1>1. Radix \in Int
  BY Sizes
<1>2. Cong(x * Radix, x * R1)
  BY <1>1, RIs, CongTimes
<1> QED  BY <1>2 DEF Mul, Cong

\* An element is known by its Montgomery form.
LEMMA CancelR == ASSUME NEW x \in Field, NEW y \in Field, Mul(x, R1) = Mul(y, R1) PROVE x = y
<1>1. x \in Int /\ y \in Int
  BY FieldResidue
<1>2. Mul(R1, x) = Mul(R1, y)
  BY <1>1, RIs, MulCommutes
<1> QED  BY <1>2, RIs, Cancel

\* The Montgomery products of the limbs are reduced, and times R1 they are the product of the
\* operands, that with a word and the operand: Fr_rawMMul, Fr_rawMMul1, Fr_rawFromMontgomery.
THEOREM Montgomery ==
  /\ \A x \in Field, y \in Field : rawMMul(x, y) \in Field /\ Mul(rawMMul(x, y), R1) = Mul(x, y)
  /\ \A x \in Field, w \in 0 .. Word - 1 :
       rawMMul1(x, w) \in Field /\ Mul(rawMMul1(x, w), R1) = Mul(x, w)
  /\ \A x \in Field : rawFromMontgomery(x) \in Field /\ Mul(rawFromMontgomery(x), R1) = x
<1>1. ASSUME NEW x \in Field, NEW y \in Field
      PROVE  rawMMul(x, y) \in Field /\ Mul(rawMMul(x, y), R1) = Mul(x, y)
  <2>1. x \in Raw /\ x \in Int /\ y \in Int /\ x * y \in Int
    BY FieldIs
  <2>2. rawMMul(x, y) \in Field /\ Cong(rawMMul(x, y) * Radix, x * y)
    BY <2>1, MMulIs
  <2>3. rawMMul(x, y) \in Int
    BY <2>2, FieldIs
  <2> QED  BY <2>1, <2>2, <2>3, RadixIsR DEF Mul
<1>2. ASSUME NEW x \in Field, NEW w \in 0 .. Word - 1
      PROVE  rawMMul1(x, w) \in Field /\ Mul(rawMMul1(x, w), R1) = Mul(x, w)
  <2>1. x * w \in Nat /\ x * w <= (Word - 1) * Q
    BY TermSize
  <2>2. rawMMul1(x, w) \in Field /\ Cong(rawMMul1(x, w) * Radix, x * w)
    BY <2>1, FirstIs DEF rawMMul1
  <2>3. rawMMul1(x, w) \in Int /\ x * w \in Int
    BY <2>1, <2>2, FieldIs
  <2> QED  BY <2>2, <2>3, RadixIsR DEF Mul
<1>3. ASSUME NEW x \in Field
      PROVE  rawFromMontgomery(x) \in Field /\ Mul(rawFromMontgomery(x), R1) = x
  <2>1. x \in Nat /\ x <= (Word - 1) * Q
    <3>1. x \in Nat /\ x < Q /\ Q \in Nat /\ Word \in Nat
      BY FieldIs, Sizes
    <3>2. Word >= 2
      <4>1. W - 1 \in Nat /\ (W - 1) + 1 = W
        BY Sizes
      <4>2. 2^(W - 1) \in Nat \ {0} /\ Word = 2 * 2^(W - 1)
        BY <4>1, TwoExp DEF Word
      <4> QED  BY <4>2
    <3>3. \A i, j, k \in Nat : i <= j => i * k <= j * k
      OBVIOUS
    <3>4. 1 * Q <= (Word - 1) * Q /\ 1 * Q = Q /\ (Word - 1) * Q \in Nat
      <4>1. 1 * Q <= (Word - 1) * Q
        BY <3>1, <3>2, <3>3
      <4>2. \A j, k \in Nat : j * k \in Nat
        OBVIOUS
      <4> QED  BY <3>1, <3>2, <4>1, <4>2
    <3> QED  BY <3>1, <3>4
  <2>2. rawFromMontgomery(x) \in Field /\ Cong(rawFromMontgomery(x) * Radix, x)
    BY <2>1, FirstIs DEF rawFromMontgomery
  <2>3. rawFromMontgomery(x) \in Int /\ x \in Int /\ x % Q = x
    BY <2>1, <2>2, FieldResidue
  <2> QED  BY <2>2, <2>3, RadixIsR
<1> QED  BY <1>1, <1>2, <1>3

\* Products of products.
LEMMA MulSwap ==
  ASSUME NEW x \in Int, NEW y \in Int, NEW z \in Int
  PROVE  /\ Mul(Mul(x, z), y) = Mul(Mul(x, y), z) /\ Mul(x, Mul(y, z)) = Mul(Mul(x, y), z)
         /\ Mul(Mul(x, y), z) \in Field
<1>1. Mul(x, z) \in Int /\ Mul(x, y) \in Int /\ Mul(y, z) = Mul(z, y)
  BY MulType, MulCommutes
<1>2. Mul(Mul(x, z), y) = Mul(x, Mul(z, y)) /\ Mul(Mul(x, y), z) = Mul(x, Mul(y, z))
  BY MulAssoc
<1> QED  BY <1>1, <1>2, MulType

\* What the Montgomery product of elements in either form is.
LEMMA MontgomeryForms ==
  ASSUME NEW x \in Field, NEW y \in Field
  PROVE  /\ Mul(x, R1) \in Field /\ Mul(x, y) \in Field
         /\ rawMMul(Mul(x, R1), Mul(y, R1)) = Mul(Mul(x, y), R1)
         /\ rawMMul(Mul(x, R1), y) = Mul(x, y)
         /\ rawMMul(x, Mul(y, R1)) = Mul(x, y)
         /\ rawMMul(rawMMul(x, y), R3) = Mul(Mul(x, y), R1)
         /\ rawMMul(x, R2) = Mul(x, R1)
         /\ rawFromMontgomery(Mul(x, R1)) = x
<1>0. x \in Int /\ y \in Int /\ Mul(x, R1) \in Field /\ Mul(y, R1) \in Field /\ Mul(x, y) \in Field
  BY FieldResidue, RIs, MulType
<1>1. Mul(x, R1) \in Int /\ Mul(y, R1) \in Int /\ Mul(x, y) \in Int /\ Mul(Mul(x, y), R1) \in Field
  BY <1>0, RIs, FieldResidue, MulType
<1> DEFINE p == Mul(x, y)
           u == Mul(x, R1)
           v == Mul(y, R1)
<1>2. Mul(u, y) = Mul(p, R1) /\ Mul(x, v) = Mul(p, R1)
  BY <1>0, RIs, MulSwap
<1>3. Mul(u, v) = Mul(Mul(p, R1), R1)
  <2>1. Mul(u, v) = Mul(Mul(u, y), R1)
    BY <1>0, <1>1, RIs, MulSwap
  <2> QED  BY <1>2, <2>1
<1> HIDE DEF u, v, p
<1>4. rawMMul(u, y) = p /\ rawMMul(x, v) = p
  <2>1. u \in Field /\ v \in Field /\ p \in Field
    BY <1>0 DEF u, v, p
  <2>2. rawMMul(u, y) \in Field /\ Mul(rawMMul(u, y), R1) = Mul(p, R1)
    BY <1>2, <2>1, Montgomery
  <2>3. rawMMul(x, v) \in Field /\ Mul(rawMMul(x, v), R1) = Mul(p, R1)
    BY <1>2, <2>1, Montgomery
  <2> QED  BY <2>1, <2>2, <2>3, CancelR
<1>5. rawMMul(u, v) = Mul(p, R1)
  <2>1. u \in Field /\ v \in Field /\ Mul(p, R1) \in Field
    BY <1>0, <1>1 DEF u, v, p
  <2>2. rawMMul(u, v) \in Field /\ Mul(rawMMul(u, v), R1) = Mul(Mul(p, R1), R1)
    BY <1>3, <2>1, Montgomery
  <2> QED  BY <2>1, <2>2, CancelR
<1>6. rawMMul(rawMMul(x, y), R3) = Mul(p, R1)
  <2> DEFINE m == rawMMul(x, y)
             k == rawMMul(m, R3)
  <2>1. m \in Field /\ m \in Int /\ Mul(m, R1) = p
    BY Montgomery, FieldResidue DEF p
  <2> HIDE DEF m
  <2>2. k \in Field /\ Mul(k, R1) = Mul(m, R3)
    BY <2>1, RIs, Montgomery
  <2>3. Mul(m, R3) = Mul(Mul(m, R2), R1) /\ Mul(m, R2) = Mul(Mul(m, R1), R1)
    BY <2>1, RIs, MulSwap
  <2> HIDE DEF k
  <2>4. Mul(m, R2) \in Field
    BY <2>1, RIs, MulType
  <2>5. k = Mul(m, R2)
    BY <2>2, <2>3, <2>4, CancelR
  <2> QED  BY <2>1, <2>3, <2>5 DEF k, m
<1>7. rawMMul(x, R2) = Mul(x, R1)
  <2>1. rawMMul(x, R2) \in Field /\ Mul(rawMMul(x, R2), R1) = Mul(x, R2)
    BY RIs, Montgomery
  <2>2. Mul(x, R2) = Mul(Mul(x, R1), R1)
    BY <1>0, RIs, MulSwap
  <2> QED  BY <1>0, <2>1, <2>2, CancelR
<1>8. rawFromMontgomery(Mul(x, R1)) = x
  <2>1. rawFromMontgomery(Mul(x, R1)) \in Field /\ Mul(rawFromMontgomery(Mul(x, R1)), R1) = Mul(x, R1)
    BY <1>0, Montgomery
  <2> QED  BY <2>1, CancelR
<1> QED  BY <1>0, <1>4, <1>5, <1>6, <1>7, <1>8 DEF u, v, p

--------------------------------------------------------------------------------
\* Raw sums and short integers.

\* Residues next to the range.
LEMMA NearMod ==
  ASSUME NEW q \in Nat \ {0}
  PROVE  /\ \A z \in 0 .. q - 1 : z % q = z
         /\ \A z \in q .. 2 * q - 1 : z % q = z - q
         /\ \A z \in (-q) .. -1 : z % q = z + q
<1>1. ASSUME NEW z \in 0 .. q - 1 PROVE z % q = z
  <2>1. (0 * q) + z = z /\ 0 \in Int
    OBVIOUS
  <2>2. ((0 * q) + z) % q = z
    BY <1>1, ModUnique
  <2> QED  BY <2>1, <2>2
<1>2. ASSUME NEW z \in q .. 2 * q - 1 PROVE z % q = z - q
  <2>1. (1 * q) + (z - q) = z /\ z - q \in 0 .. q - 1 /\ 1 \in Int
    BY <1>2
  <2>2. ((1 * q) + (z - q)) % q = z - q
    BY <2>1, ModUnique
  <2> QED  BY <2>1, <2>2
<1>3. ASSUME NEW z \in (-q) .. -1 PROVE z % q = z + q
  <2>1. ((-1) * q) + (z + q) = z /\ z + q \in 0 .. q - 1 /\ -1 \in Int
    BY <1>3
  <2>2. (((-1) * q) + (z + q)) % q = z + q
    BY <2>1, ModUnique
  <2> QED  BY <2>1, <2>2
<1> QED  BY <1>1, <1>2, <1>3

\* The same of the moduli here.
LEMMA Near ==
  /\ \A z \in 0 .. Q - 1 : z % Q = z
  /\ \A z \in Q .. 2 * Q - 1 : z % Q = z - Q
  /\ \A z \in (-Q) .. -1 : z % Q = z + Q
  /\ \A z \in 0 .. Radix - 1 : z % Radix = z
  /\ \A z \in 0 .. Word - 1 : z % Word = z
<1>1. Q \in Nat \ {0} /\ Radix \in Nat \ {0} /\ Word \in Nat \ {0}
  BY Sizes
<1> QED  BY <1>1, NearMod, Zenon

\* The shorts are few: sums and products of two of them fit a word.
H == 2^(S - 1)
LEMMA Shorts ==
  /\ H \in Nat \ {0} /\ SMin = -H /\ SMax = H - 1 /\ S - 1 \in Nat
  /\ H * H \in Nat /\ H * H < Word /\ 2 * H <= Word /\ Word < Q /\ Word \in Nat /\ Q \in Nat
  /\ 4 * Q <= Radix /\ Radix \in Nat \ {0} /\ H < Q
<1>1. S - 1 \in Nat /\ 2 * S - 2 = (S - 1) + (S - 1) /\ 2^(2 * S - 2) < Word
  BY ShortAssumption
<1>2. H \in Nat \ {0}
  BY <1>1, TwoExp DEF H
<1>3. H * H = 2^(2 * S - 2)
  BY <1>1, TwoExpAdd DEF H
<1>4. 2 * H <= H * H + 1 /\ H * H \in Nat
  <2>1. \A x \in Nat : 2 * x <= x * x + 1 /\ x * x \in Nat
    <3> SUFFICES ASSUME NEW x \in Nat PROVE 2 * x <= x * x + 1 /\ x * x \in Nat
      OBVIOUS
    <3>1. (x - 1) * (x - 1) = x * x - 2 * x + 1 /\ x * x \in Nat
      OBVIOUS
    <3>2. \A y \in Int : y * y >= 0
      OBVIOUS
    <3>3. (x - 1) * (x - 1) >= 0
      BY <3>2
    <3> QED  BY <3>1, <3>3
  <2> QED  BY <1>2, <2>1
<1> QED  BY <1>1, <1>2, <1>3, <1>4, Sizes DEF SMin, SMax, H

\* The raw operations are those of the field.
LEMMA RawSums ==
  ASSUME NEW x \in Field, NEW y \in Field
  PROVE  /\ rawAdd(x, y) = Add(x, y) /\ Add(x, y) \in Field
         /\ rawSub(x, y) = Sub(x, y) /\ Sub(x, y) \in Field
         /\ rawNeg(x) = Sub(0, x) /\ Sub(0, x) \in Field
<1>0. x \in Nat /\ x < Q /\ y \in Nat /\ y < Q /\ Q \in Nat \ {0} /\ 4 * Q <= Radix /\ Radix \in Nat \ {0}
  BY FieldIs, Sizes
<1>1. rawAdd(x, y) = Add(x, y)
  <2>1. CASE x + y >= Q
    <3>1. (x + y - Q) % Radix = x + y - Q
      <4>1. x + y - Q \in 0 .. Radix - 1
        BY <1>0, <2>1
      <4> QED  BY <4>1, Near, Zenon
    <3>2. (x + y) % Q = (x + y) - Q
      <4>1. x + y \in Q .. 2 * Q - 1
        BY <1>0, <2>1
      <4> QED  BY <4>1, Near, Zenon
    <3>3. (x + y) - Q = x + y - Q
      BY <1>0
    <3> QED  BY <2>1, <3>1, <3>2, <3>3, Zenon DEF rawAdd, Add
  <2>2. CASE x + y < Q
    <3>1. (x + y) % Q = x + y
      <4>1. x + y \in 0 .. Q - 1
        BY <1>0, <2>2
      <4> QED  BY <4>1, Near, Zenon
    <3> QED  BY <1>0, <2>2, <3>1 DEF rawAdd, Add
  <2> QED  BY <1>0, <2>1, <2>2
<1>2. rawSub(x, y) = Sub(x, y)
  <2>1. CASE x < y
    <3>1. (x - y + Q) % Radix = x - y + Q
      <4>1. x - y + Q \in 0 .. Radix - 1
        BY <1>0, <2>1
      <4> QED  BY <4>1, Near, Zenon
    <3>2. (x - y) % Q = x - y + Q
      <4>1. x - y \in (-Q) .. -1
        BY <1>0, <2>1
      <4> QED  BY <4>1, Near, Zenon
    <3> QED  BY <2>1, <3>1, <3>2 DEF rawSub, Sub
  <2>2. CASE x >= y
    <3>1. (x - y) % Q = x - y
      <4>1. x - y \in 0 .. Q - 1
        BY <1>0, <2>2
      <4> QED  BY <4>1, Near, Zenon
    <3> QED  BY <1>0, <2>2, <3>1 DEF rawSub, Sub
  <2> QED  BY <1>0, <2>1, <2>2
<1>3. rawNeg(x) = Sub(0, x)
  <2>1. CASE x = 0
    <3>1. (0 - 0) % Q = 0
      BY <1>0, NearMod
    <3> QED  BY <2>1, <3>1 DEF rawNeg, Sub
  <2>2. CASE x # 0
    <3>1. (Q - x) % Radix = Q - x
      <4>1. Q - x \in 0 .. Radix - 1
        BY <1>0, <2>2
      <4> QED  BY <4>1, Near, Zenon
    <3>2. (0 - x) % Q = (0 - x) + Q
      <4>1. 0 - x \in (-Q) .. -1
        BY <1>0, <2>2
      <4> QED  BY <4>1, Near, Zenon
    <3> QED  BY <1>0, <2>2, <3>1, <3>2 DEF rawNeg, Sub
  <2> QED  BY <2>1, <2>2
<1>4. Add(x, y) \in Field /\ Sub(x, y) \in Field /\ Sub(0, x) \in Field
  BY <1>0, ResidueType DEF Add, Sub
<1> QED  BY <1>1, <1>2, <1>3, <1>4

\* A signed integer as an element.
LEMMA CopyIs ==
  ASSUME NEW v \in Int, -Q <= v, v < Word
  PROVE  rawCopyS2L(v) = v % Q /\ v % Q \in Field
<1>1. CASE v < 0
  <2>1. (v + Q) % Radix = v + Q
    <3>1. v + Q \in 0 .. Radix - 1
      BY <1>1, Shorts
    <3> QED  BY <3>1, Near, Zenon
  <2>2. v % Q = v + Q
    <3>1. v \in (-Q) .. -1
      BY <1>1, Shorts
    <3> QED  BY <3>1, Near, Zenon
  <2> QED  BY <1>1, <2>1, <2>2, ResidueType DEF rawCopyS2L
<1>2. CASE v >= 0
  <2>1. v % Word = v
    BY <1>2, Shorts, NearMod
  <2>2. v % Q = v
    BY <1>2, Shorts, NearMod
  <2> QED  BY <1>2, <2>1, <2>2, ResidueType DEF rawCopyS2L
<1> QED  BY <1>1, <1>2

\* The residue of a short.
LEMMA ShortResidue ==
  ASSUME NEW w \in SMin .. SMax
  PROVE  /\ w \in Int /\ w % Q \in Field /\ w % Q = IF w < 0 THEN w + Q ELSE w
         /\ Cong(w % Q, w)
         /\ w >= 0 => w \in Field /\ w \in 0 .. Word - 1
         /\ w < 0 => -w \in Field /\ -w \in 0 .. Word - 1
<1>1. w \in Int /\ -H <= w /\ w < H
  BY Shorts
<1>2. w % Q = IF w < 0 THEN w + Q ELSE w
  <2>1. CASE w < 0
    <3>1. w \in (-Q) .. -1
      BY <1>1, <2>1, Shorts
    <3>2. w % Q = w + Q
      BY <3>1, Near, Zenon
    <3> QED  BY <2>1, <3>2
  <2>2. CASE w >= 0
    <3>1. w \in 0 .. Q - 1
      BY <1>1, <2>2, Shorts
    <3>2. w % Q = w
      BY <3>1, Near, Zenon
    <3> QED  BY <1>1, <2>2, <3>2
  <2> QED  BY <1>1, <2>1, <2>2
<1>3. w >= 0 => w \in Field /\ w \in 0 .. Word - 1
  BY <1>1, Shorts DEF Field
<1>4. w < 0 => -w \in Field /\ -w \in 0 .. Word - 1
  BY <1>1, Shorts DEF Field
<1> QED  BY <1>1, <1>2, <1>3, <1>4, ResidueType, CongResidue

\* Sums and differences with a short.
LEMMA ShortSums ==
  ASSUME NEW x \in Field, NEW w \in SMin .. SMax
  PROVE  /\ addLS(x, w) = Add(x, w % Q) /\ Add(x, w % Q) \in Field
         /\ subLS(x, w) = Sub(x, w % Q) /\ Sub(x, w % Q) \in Field
         /\ subSL(w, x) = Sub(w % Q, x) /\ Sub(w % Q, x) \in Field
<1>0. /\ x \in Int /\ 0 <= x /\ x < Q /\ w \in Int /\ -H <= w /\ w < H /\ w % Q \in Field
      /\ H \in Nat \ {0} /\ H < Q /\ Q \in Nat \ {0} /\ Radix \in Nat \ {0} /\ 4 * Q <= Radix
  BY FieldIs, Shorts, ShortResidue
<1>1. CASE w >= 0
  <2>1. w % Q = w /\ w \in Field
    BY <1>1, ShortResidue
  <2>2. addLS(x, w) = rawAdd(x, w) /\ subLS(x, w) = rawSub(x, w) /\ subSL(w, x) = rawSub(w, x)
    BY <1>0, <1>1 DEF addLS, subLS, subSL
  <2> QED  BY <2>1, <2>2, RawSums
<1>2. CASE w < 0
  <2>1. w % Q = w + Q /\ -w \in Field
    BY <1>2, ShortResidue
  <2>2. addLS(x, w) = Sub(x, -w) /\ subLS(x, w) = Add(x, -w)
    BY <1>0, <1>2, <2>1, RawSums DEF addLS, subLS
  <2>3. Sub(x, -w) = Add(x, w + Q) /\ Add(x, -w) = Sub(x, w + Q)
    <3>1. x - (-w) = x + w /\ x + (-w) = x - w /\ x + (w + Q) = (x + w) + 1 * Q
          /\ x - (w + Q) = (x - w) + (-1) * Q /\ x + w \in Int /\ x - w \in Int /\ 1 \in Int /\ -1 \in Int
      BY <1>0
    <3>2. Cong((x + w) + 1 * Q, x + w) /\ Cong((x - w) + (-1) * Q, x - w)
      BY <3>1, CongMultiple
    <3> QED  BY <3>1, <3>2 DEF Add, Sub, Cong
  <2>4. subSL(w, x) = rawNegLS(x, -w)
    BY <1>0, <1>2 DEF subSL
  <2>5. (Q - (-w)) % Radix = Q + w /\ ~ (-w > Q)
    <3>1. Q + w \in 0 .. Radix - 1 /\ Q - (-w) = Q + w /\ ~ (-w > Q)
      BY <1>0, <1>2
    <3>2. (Q + w) % Radix = Q + w
      BY <3>1, Near, Zenon
    <3> QED  BY <3>1, <3>2
  <2>6. CASE Q + w < x
    <3>1. (Q + w - x + Q) % Radix = Q + w - x + Q
      <4>1. Q + w - x + Q \in 0 .. Radix - 1
        BY <1>0, <1>2, <2>6
      <4> QED  BY <4>1, Near, Zenon
    <3>2. rawNegLS(x, -w) = Q + w - x + Q
      <4> DEFINE d == (Q - (-w)) % Radix
      <4>1. rawNegLS(x, -w) = IF -w > Q \/ d < x THEN (d - x + Q) % Radix ELSE d - x
        BY DEF rawNegLS
      <4>2. d = Q + w /\ ~ (-w > Q)
        BY <2>5
      <4> HIDE DEF d
      <4>3. rawNegLS(x, -w) = (Q + w - x + Q) % Radix
        <5>1. d < x
          BY <2>6, <4>2
        <5>2. rawNegLS(x, -w) = (d - x + Q) % Radix
          BY <4>1, <5>1, Zenon
        <5>3. d - x + Q = Q + w - x + Q
          BY <1>0, <4>2
        <5> QED  BY <5>2, <5>3, Zenon
      <4> QED  BY <3>1, <4>3
    <3>3. ((w + Q) - x) % Q = ((w + Q) - x) + Q
      <4>1. (w + Q) - x \in (-Q) .. -1
        BY <1>0, <1>2, <2>6
      <4> QED  BY <4>1, Near, Zenon
    <3>4. Sub(w % Q, x) = Q + w - x + Q
      BY <1>0, <2>1, <3>3 DEF Sub
    <3> QED  BY <1>0, <2>1, <2>2, <2>3, <2>4, <3>2, <3>4, RawSums
  <2>7. CASE Q + w >= x
    <3>1. rawNegLS(x, -w) = Q + w - x
      <4> DEFINE d == (Q - (-w)) % Radix
      <4>1. rawNegLS(x, -w) = IF -w > Q \/ d < x THEN (d - x + Q) % Radix ELSE d - x
        BY DEF rawNegLS
      <4>2. d = Q + w /\ ~ (-w > Q)
        BY <2>5
      <4> HIDE DEF d
      <4> QED  BY <1>0, <2>7, <4>1, <4>2
    <3>2. ((w + Q) - x) % Q = (w + Q) - x
      <4>1. (w + Q) - x \in 0 .. Q - 1
        BY <1>0, <1>2, <2>7
      <4> QED  BY <4>1, Near, Zenon
    <3>3. Sub(w % Q, x) = Q + w - x
      BY <1>0, <2>1, <3>2 DEF Sub
    <3> QED  BY <1>0, <2>1, <2>2, <2>3, <2>4, <3>1, <3>3, RawSums
  <2> QED  BY <1>0, <2>6, <2>7
<1> QED  BY <1>0, <1>1, <1>2

\* The Montgomery product with a short.
LEMMA MulShortIs ==
  ASSUME NEW x \in Field, NEW w \in SMin .. SMax
  PROVE  MulShort(x, w) \in Field /\ Mul(MulShort(x, w), R1) = Mul(x, w % Q)
<1>0. x \in Int /\ w \in Int /\ w % Q \in Int /\ w % Q \in Field
  BY FieldResidue, ShortResidue
<1>1. CASE w >= 0
  <2>1. w % Q = w /\ w \in 0 .. Word - 1 /\ MulShort(x, w) = rawMMul1(x, w)
    BY <1>0, <1>1, ShortResidue DEF MulShort
  <2> QED  BY <2>1, Montgomery
<1>2. CASE w < 0
  <2> DEFINE p == rawMMul1(x, -w)
  <2>1. -w \in 0 .. Word - 1 /\ MulShort(x, w) = rawNeg(p)
    BY <1>2, ShortResidue DEF MulShort
  <2>2. p \in Field /\ Mul(p, R1) = Mul(x, -w)
    BY <2>1, Montgomery
  <2> HIDE DEF p
  <2>3. rawNeg(p) = Sub(0, p) /\ Sub(0, p) \in Field /\ p \in Int /\ R1 \in Int /\ Sub(0, p) \in Int
    BY <2>2, RawSums, FieldResidue, RIs
  <2>4. Cong(Sub(0, p), 0 - p)
    BY <2>3, CongResidue DEF Sub
  <2>5. Cong(Sub(0, p) * R1, (0 - p) * R1)
    <3>1. 0 - p \in Int
      BY <2>3
    <3> QED  BY <2>3, <2>4, <3>1, CongTimes, Zenon
  <2>6. (0 - p) * R1 = 0 - p * R1 /\ p * R1 \in Int /\ x * (-w) \in Int /\ 0 - x * (-w) = x * w
    BY <1>0, <2>3
  <2>7. Cong(p * R1, x * (-w))
    BY <2>2 DEF Mul, Cong
  <2>8. Cong(0 - p * R1, 0 - x * (-w))
    BY <2>6, <2>7, CongSums DEF Cong
  <2>9. Cong(x * (w % Q), x * w)
    BY <1>0, CongResidue, CongTimes
  <2> QED  BY <2>1, <2>3, <2>5, <2>6, <2>8, <2>9 DEF Mul, Cong
<1> QED  BY <1>0, <1>1, <1>2

--------------------------------------------------------------------------------
\* What an element stands for.

\* The long part of a long element and of one in Montgomery form, the short part of a short one.
IsValue(e, v) ==
  /\ e \in Element /\ v \in Field
  /\ e.type = "long" => e.longVal = v
  /\ isMont(e) => e.longVal = Mul(v, R1)
  /\ e.type = "short" => e.shortVal % Q = v

\* And the short part of a short element in Montgomery form.
Stands(e, v) == IsValue(e, v) /\ (e.type = "smont" => e.shortVal % Q = v)

\* The parts of an element.
LEMMA ElementIs ==
  ASSUME NEW e \in Element
  PROVE  /\ e.type \in {"short", "smont", "long", "lmont"} /\ e.shortVal \in SMin .. SMax
         /\ e.shortVal \in Int /\ e.longVal \in Raw
         /\ e = [type |-> e.type, shortVal |-> e.shortVal, longVal |-> e.longVal]
<1>1. SMin \in Int /\ SMax \in Int
  BY Shorts
<1> QED  BY <1>1 DEF Element

\* What is written into an object.
LEMMA Written ==
  ASSUME NEW r \in Element, NEW t \in {"short", "smont", "long", "lmont"},
         NEW s \in SMin .. SMax, NEW v \in Field
  PROVE  /\ Long(r, t, v) \in Element /\ Long(r, t, v).type = t
         /\ Long(r, t, v).shortVal = r.shortVal /\ Long(r, t, v).longVal = v
         /\ Short(r, s) \in Element /\ Short(r, s).type = "short" /\ Short(r, s).shortVal = s
<1>1. v \in Raw
  BY FieldIs
<1> QED  BY <1>1 DEF Long, Short, Element

\* What a writer of the long part leaves.
LEMMA WrittenLong ==
  ASSUME NEW r \in Element, NEW t \in {"short", "smont", "long", "lmont"}, NEW v \in Field
  PROVE  Long(r, t, v) \in Element /\ Long(r, t, v).type = t /\ Long(r, t, v).longVal = v
<1>1. v \in Raw
  BY FieldIs
<1> QED  BY <1>1 DEF Long, Element

\* Results in one of three forms.
LEMMA Results ==
  ASSUME NEW r \in Element
  PROVE  /\ \A v \in Field : Stands(Long(r, "long", v), v)
         /\ \A v \in Field : Stands(Long(r, "lmont", Mul(v, R1)), v)
         /\ \A s \in SMin .. SMax : Stands(Short(r, s), s % Q)
<1>1. ASSUME NEW v \in Field PROVE Stands(Long(r, "long", v), v)
  <2> DEFINE e == Long(r, "long", v)
  <2>1. e \in Element /\ e.type = "long" /\ e.longVal = v
    <3>1. 0 \in SMin .. SMax
      BY Shorts
    <3> QED  BY <3>1, Written
  <2> HIDE DEF e
  <2>2. Stands(e, v)
    BY <2>1 DEF Stands, IsValue, isMont
  <2> QED  BY <2>2 DEF e
<1>2. ASSUME NEW v \in Field PROVE Stands(Long(r, "lmont", Mul(v, R1)), v)
  <2> DEFINE e == Long(r, "lmont", Mul(v, R1))
  <2>1. e \in Element /\ e.type = "lmont" /\ e.longVal = Mul(v, R1)
    <3>1. 0 \in SMin .. SMax
      BY Shorts
    <3>2. Mul(v, R1) \in Field
      BY MulType, RIs, FieldIs
    <3> QED  BY <3>1, <3>2, Written
  <2> HIDE DEF e
  <2>2. Stands(e, v)
    BY <2>1 DEF Stands, IsValue, isMont
  <2> QED  BY <2>2 DEF e
<1>3. ASSUME NEW s \in SMin .. SMax PROVE Stands(Short(r, s), s % Q)
  <2> DEFINE e == Short(r, s)
  <2>1. e \in Element /\ e.type = "short" /\ e.shortVal = s
    BY FieldIs, Written
  <2>2. s % Q \in Field
    BY ShortResidue
  <2> HIDE DEF e
  <2>3. Stands(e, s % Q)
    BY <2>1, <2>2 DEF Stands, IsValue, isMont
  <2> QED  BY <2>3 DEF e
<1> QED  BY <1>1, <1>2, <1>3

\* A result that does not fit a short.
LEMMA OverflowIs ==
  ASSUME NEW r \in Element, NEW v \in Int, -Q <= v, v < Word
  PROVE  /\ Stands(Overflow(r, v), v % Q) /\ Overflow(r, v).longVal = v % Q
         /\ Overflow(r, v).type = "long" /\ v % Q \in Field
<1> DEFINE e == Overflow(r, v)
<1>1. rawCopyS2L(v) = v % Q /\ v % Q \in Field /\ v % Q \in Raw
  BY CopyIs, FieldIs
<1>2. 0 \in SMin .. SMax
  BY Shorts
<1>3. e \in Element /\ e.type = "long" /\ e.longVal = v % Q
  BY <1>1, <1>2 DEF Overflow, Element
<1> HIDE DEF e
<1>4. Stands(e, v % Q)
  BY <1>1, <1>3 DEF Stands, IsValue, isMont
<1> QED  BY <1>1, <1>3, <1>4 DEF e

\* The integers between -half and half.
LEMMA SignedIs ==
  /\ half \in Nat /\ Q = 2 * half + 1 /\ H <= half
  /\ \A s \in SMin .. SMax : Signed(s % Q) = s
  /\ \A v \in Field : Signed(v) \in Int /\ (Signed(v) % Q) = v
<1>1. half \in Nat /\ Q = 2 * half + 1
  BY Sizes DEF half
<1>2. H <= half
  BY <1>1, Shorts
<1>3. ASSUME NEW s \in SMin .. SMax PROVE Signed(s % Q) = s
  <2>1. s \in Int /\ -H <= s /\ s < H /\ H \in Nat
    BY Shorts
  <2>2. s % Q = IF s < 0 THEN s + Q ELSE s
    BY ShortResidue
  <2>3. CASE s < 0
    <3>1. s % Q = s + Q /\ s + Q > half /\ (s + Q) - Q = s
      BY <1>1, <1>2, <2>1, <2>2, <2>3
    <3> QED  BY <3>1 DEF Signed
  <2>4. CASE s >= 0
    <3>1. s % Q = s /\ ~ (s > half)
      BY <1>1, <1>2, <2>1, <2>2, <2>4
    <3> QED  BY <3>1 DEF Signed
  <2> QED  BY <2>1, <2>3, <2>4
<1>4. ASSUME NEW v \in Field PROVE Signed(v) \in Int /\ (Signed(v) % Q) = v
  <2>1. v \in Nat /\ v < Q /\ Q \in Nat
    BY FieldIs, Sizes
  <2>2. CASE v > half
    <3>1. v - Q \in (-Q) .. -1 /\ (v - Q) + Q = v
      BY <1>1, <2>1, <2>2
    <3>2. (v - Q) % Q = (v - Q) + Q
      BY <3>1, Near, Zenon
    <3>3. Signed(v) = v - Q
      BY <2>2 DEF Signed
    <3> QED  BY <2>1, <3>1, <3>2, <3>3
  <2>3. CASE ~ (v > half)
    <3>1. v % Q = v /\ Signed(v) = v
      BY <2>3, FieldResidue DEF Signed
    <3> QED  BY <2>1, <3>1
  <2> QED  BY <2>2, <2>3
<1> QED  BY <1>1, <1>2, <1>3, <1>4

\* The long parts of an operand, brought to one form or to the other, and its short part.
LEMMA Operand ==
  ASSUME NEW a, NEW x, Stands(a, x)
  PROVE  /\ a \in Element /\ x \in Field /\ Mul(x, R1) \in Field
         /\ plain(a) = x /\ mont(a) = Mul(x, R1)
         /\ ~ isLong(a) => a.shortVal = Signed(x) /\ a.shortVal % Q = x
<1>0. a \in Element /\ x \in Field /\ Mul(x, R1) \in Field /\ x \in Int
  BY MontgomeryForms, FieldIs DEF Stands, IsValue
<1>1. /\ a.type \in {"short", "smont", "long", "lmont"} /\ a.shortVal \in SMin .. SMax
      /\ a.shortVal \in Int
  BY <1>0, ElementIs
<1>2. ~ isLong(a) => a.shortVal % Q = x
  BY <1>1 DEF Stands, IsValue, isLong
<1>3. ~ isLong(a) => a.shortVal = Signed(x)
  BY <1>1, <1>2, SignedIs
<1>4. plain(a) = x
  <2>1. CASE a.type = "lmont"
    <3>1. a.longVal = Mul(x, R1) /\ rawFromMontgomery(a.longVal) = x
      BY <1>0, <2>1, MontgomeryForms DEF Stands, IsValue, isMont
    <3>2. Fr_toLongNormal(a, a) = Long(a, "long", x)
      BY <2>1, <3>1 DEF Fr_toLongNormal, Fr_toNormal, isLong
    <3>3. Long(a, "long", x).longVal = x
      BY <1>0, <1>1, Written
    <3> QED  BY <3>2, <3>3 DEF plain
  <2>2. CASE a.type = "long"
    BY <2>2 DEF plain, Fr_toLongNormal, Fr_toNormal, isLong, Stands, IsValue
  <2>3. CASE ~ isLong(a)
    <3>1. -Q <= a.shortVal /\ a.shortVal < Word
      BY <1>1, Shorts
    <3>2. Overflow(a, a.shortVal).longVal = a.shortVal % Q
      BY <1>0, <1>1, <3>1, OverflowIs
    <3> QED  BY <1>2, <2>3, <3>2 DEF plain, Fr_toLongNormal
  <2> QED  BY <1>1, <2>1, <2>2, <2>3 DEF isLong
<1>5. mont(a) = Mul(x, R1)
  <2>1. CASE isMont(a)
    <3>1. a.type # "long" /\ a.longVal = Mul(x, R1)
      BY <2>1 DEF isMont, Stands, IsValue
    <3>2. Fr_toMontgomery(a, a) = a
      BY <2>1, <3>1 DEF Fr_toMontgomery
    <3> QED  BY <3>1, <3>2 DEF mont
  <2>2. CASE a.type = "long"
    <3>1. ~ isMont(a) /\ a.longVal = x
      BY <2>2 DEF isMont, Stands, IsValue
    <3>2. Fr_toMontgomery(a, a) = [a EXCEPT !.type = "lmont", !.shortVal = a.shortVal, !.longVal = rawMMul(x, R2)]
      BY <2>2, <3>1 DEF Fr_toMontgomery
    <3>3. Fr_toMontgomery(a, a).longVal = rawMMul(x, R2)
      BY <1>0, <3>2, ElementIs DEF Element
    <3> QED  BY <1>0, <3>3, MontgomeryForms DEF mont
  <2>3. CASE a.type = "short"
    <3> DEFINE w == a.shortVal
               p == MulShort(R2, w)
    <3>1. Fr_toMontgomery(a, a) = Long(a, "smont", p)
      BY <2>3 DEF Fr_toMontgomery, isMont
    <3>2. w % Q = x
      BY <1>2, <2>3 DEF isLong
    <3>3. p \in Field /\ Mul(p, R1) = Mul(R2, x)
      BY <1>1, <3>2, RIs, MulShortIs
    <3>4. Long(a, "smont", p).longVal = p
      <4> HIDE DEF p
      <4> QED  BY <1>0, <1>1, <3>3, Written
    <3> HIDE DEF p
    <3>5. Mul(R2, x) = Mul(Mul(x, R1), R1)
      BY <1>0, RIs, MulSwap, MulCommutes
    <3>6. p = Mul(x, R1)
      BY <1>0, <3>3, <3>5, CancelR
    <3> QED  BY <3>1, <3>4, <3>6 DEF mont
  <2> QED  BY <1>1, <2>1, <2>2, <2>3 DEF isMont
<1> QED  BY <1>0, <1>2, <1>3, <1>4, <1>5

--------------------------------------------------------------------------------
\* Conversions, sums and products.

\* The conversions keep the value.
LEMMA Converted ==
  ASSUME NEW r \in Element, NEW a, NEW x, IsValue(a, x)
  PROVE  /\ IsValue(Fr_toMontgomery(r, a), x) /\ IsValue(Fr_toMontgomery(a, a), x)
         /\ IsValue(Fr_toNormal(r, a), x)
         /\ Stands(a, x) => Stands(Fr_toLongNormal(r, a), x)
<1>0. a \in Element /\ x \in Field /\ Mul(x, R1) \in Field /\ x \in Int
  BY MontgomeryForms, FieldIs DEF IsValue
<1>1. /\ a.type \in {"short", "smont", "long", "lmont"} /\ a.shortVal \in SMin .. SMax
      /\ a.shortVal \in Int
  BY <1>0, ElementIs
<1>2. ASSUME NEW o \in Element PROVE IsValue(Fr_toMontgomery(o, a), x)
  <2>1. CASE isMont(a)
    <3>1. a.type # "long"
      BY <2>1 DEF isMont
    <3>2. Fr_toMontgomery(o, a) = a
      BY <2>1, <3>1 DEF Fr_toMontgomery
    <3> QED  BY <3>2
  <2>2. CASE a.type = "long"
    <3> DEFINE e == Fr_toMontgomery(o, a)
    <3>1. ~ isMont(a) /\ a.longVal = x
      BY <2>2 DEF isMont, IsValue
    <3>2. e = [o EXCEPT !.type = "lmont", !.shortVal = a.shortVal, !.longVal = rawMMul(x, R2)]
      BY <2>2, <3>1 DEF Fr_toMontgomery
    <3>3. rawMMul(x, R2) = Mul(x, R1) /\ Mul(x, R1) \in Raw
      BY <1>0, MontgomeryForms, FieldIs
    <3> HIDE DEF e
    <3>4. e \in Element /\ e.type = "lmont" /\ e.longVal = Mul(x, R1)
      BY <1>1, <3>2, <3>3 DEF Element
    <3>5. IsValue(e, x)
      BY <1>0, <3>4 DEF IsValue, isMont
    <3> QED  BY <3>5 DEF e
  <2>3. CASE a.type = "short"
    <3> DEFINE w == a.shortVal
               p == MulShort(R2, w)
               e == Fr_toMontgomery(o, a)
    <3>1. e = Long(o, "smont", p)
      BY <2>3 DEF Fr_toMontgomery, isMont
    <3>2. w % Q = x
      BY <2>3 DEF IsValue
    <3>3. p \in Field /\ Mul(p, R1) = Mul(R2, x)
      BY <1>1, <3>2, RIs, MulShortIs
    <3> HIDE DEF p
    <3>4. e \in Element /\ e.type = "smont" /\ e.longVal = p
      <4> HIDE DEF e
      <4>1. Long(o, "smont", p) \in Element /\ Long(o, "smont", p).type = "smont"
            /\ Long(o, "smont", p).longVal = p
        BY <3>3, WrittenLong
      <4> QED  BY <3>1, <4>1, Zenon
    <3>5. Mul(R2, x) = Mul(Mul(x, R1), R1)
      BY <1>0, RIs, MulSwap, MulCommutes
    <3>6. p = Mul(x, R1)
      BY <1>0, <3>3, <3>5, CancelR
    <3> HIDE DEF e
    <3>7. IsValue(e, x)
      BY <1>0, <3>4, <3>6 DEF IsValue, isMont
    <3> QED  BY <3>7 DEF e
  <2> QED  BY <1>1, <2>1, <2>2, <2>3 DEF isMont
<1>3. IsValue(Fr_toNormal(r, a), x)
  <2>1. CASE a.type = "lmont"
    <3>1. a.longVal = Mul(x, R1) /\ rawFromMontgomery(a.longVal) = x
      BY <1>0, <2>1, MontgomeryForms DEF IsValue, isMont
    <3>2. Fr_toNormal(r, a) = Long(r, "long", x)
      BY <2>1, <3>1 DEF Fr_toNormal
    <3> QED  BY <1>0, <3>2, Results DEF Stands
  <2>2. CASE a.type # "lmont"
    BY <2>2 DEF Fr_toNormal
  <2> QED  BY <2>1, <2>2
<1>4. ASSUME Stands(a, x) PROVE Stands(Fr_toLongNormal(r, a), x)
  <2>1. CASE isLong(a)
    <3>1. Fr_toLongNormal(r, a) = Fr_toNormal(r, a)
      BY <2>1 DEF Fr_toLongNormal
    <3>2. Fr_toNormal(r, a).type = "long"
      <4>1. CASE a.type = "lmont"
        <5> DEFINE p == rawFromMontgomery(a.longVal)
        <5>1. a.longVal = Mul(x, R1) /\ p = x
          BY <1>0, <4>1, MontgomeryForms DEF IsValue, isMont
        <5>2. Fr_toNormal(r, a) = Long(r, "long", x)
          BY <4>1, <5>1 DEF Fr_toNormal
        <5> HIDE DEF p
        <5>3. Long(r, "long", x).type = "long"
          BY <1>0, WrittenLong
        <5> QED  BY <5>2, <5>3, Zenon
      <4>2. CASE a.type = "long"
        BY <4>2 DEF Fr_toNormal
      <4> QED  BY <2>1, <4>1, <4>2 DEF isLong
    <3> QED  BY <1>3, <3>1, <3>2 DEF Stands
  <2>2. CASE ~ isLong(a)
    <3>1. -Q <= a.shortVal /\ a.shortVal < Word
      BY <1>1, Shorts
    <3>2. Stands(Overflow(r, a.shortVal), a.shortVal % Q)
      BY <1>1, <3>1, OverflowIs
    <3>3. a.shortVal % Q = x
      BY <1>4, <2>2, Operand
    <3> QED  BY <2>2, <3>2, <3>3 DEF Fr_toLongNormal
  <2> QED  BY <2>1, <2>2
<1> QED  BY <1>0, <1>2, <1>3, <1>4

\* A sum of shorts is a short or, if its bits from the sign of a short on say so, a long.
LEMMA SumOfShortsIs ==
  ASSUME NEW r \in Element, NEW v \in Int, -(2 * H) <= v, v < 2 * H
  PROVE  Stands(SumOfShorts(r, v), v % Q)
<1>0. H \in Nat \ {0} /\ SMin = -H /\ SMax = H - 1 /\ 2 * H <= Word
  BY Shorts
<1>1. v \div H = IF v < -H THEN -2 ELSE IF v < 0 THEN -1 ELSE IF v < H THEN 0 ELSE 1
  <2>1. ASSUME NEW k \in Int, NEW s \in 0 .. H - 1, v = k * H + s PROVE v \div H = k
    BY <1>0, <2>1, ModUnique
  <2>2. CASE v < -H
    <3>1. v = (-2) * H + (v + 2 * H) /\ v + 2 * H \in 0 .. H - 1 /\ -2 \in Int
      BY <1>0, <2>2
    <3> QED  BY <2>1, <2>2, <3>1
  <2>3. CASE -H <= v /\ v < 0
    <3>1. v = (-1) * H + (v + H) /\ v + H \in 0 .. H - 1 /\ -1 \in Int
      BY <1>0, <2>3
    <3>2. v \div H = -1
      BY <2>1, <3>1
    <3> QED  BY <1>0, <2>3, <3>2
  <2>4. CASE 0 <= v /\ v < H
    <3>1. v = 0 * H + v /\ v \in 0 .. H - 1 /\ 0 \in Int
      BY <1>0, <2>4
    <3>2. v \div H = 0
      BY <2>1, <3>1
    <3> QED  BY <1>0, <2>4, <3>2
  <2>5. CASE H <= v
    <3>1. v = 1 * H + (v - H) /\ v - H \in 0 .. H - 1 /\ 1 \in Int
      BY <1>0, <2>5
    <3>2. v \div H = 1
      BY <2>1, <3>1
    <3> QED  BY <1>0, <2>5, <3>2
  <2> QED  BY <1>0, <2>2, <2>3, <2>4, <2>5
<1>2. has_add32_overflow(v) <=> (v < -H \/ H <= v)
  <2>1. has_add32_overflow(v) <=> (v \div H) % 4 \in {1, 2}
    BY DEF has_add32_overflow, H
  <2>2. (-2) % 4 = 2 /\ (-1) % 4 = 3 /\ 0 % 4 = 0 /\ 1 % 4 = 1
    <3>1. \A z \in Int :
            (z = -2 => z % 4 = 2) /\ (z = -1 => z % 4 = 3) /\ (z = 0 => z % 4 = 0) /\ (z = 1 => z % 4 = 1)
      OBVIOUS
    <3>2. -2 \in Int /\ -1 \in Int /\ 0 \in Int /\ 1 \in Int
      OBVIOUS
    <3> QED  BY <3>1, <3>2, Zenon
  <2>3. CASE v < -H
    BY <1>1, <2>1, <2>2, <2>3
  <2>4. CASE -H <= v /\ v < 0
    <3>1. v \div H = -1
      BY <1>0, <1>1, <2>4
    <3> QED  BY <1>0, <2>1, <2>2, <2>4, <3>1
  <2>5. CASE 0 <= v /\ v < H
    <3>1. v \div H = 0
      BY <1>0, <1>1, <2>5
    <3> QED  BY <1>0, <2>1, <2>2, <2>5, <3>1
  <2>6. CASE H <= v
    <3>1. v \div H = 1
      BY <1>0, <1>1, <2>6
    <3> QED  BY <1>0, <2>1, <2>2, <2>6, <3>1
  <2> QED  BY <1>0, <2>3, <2>4, <2>5, <2>6
<1>3. CASE has_add32_overflow(v)
  <2>1. v < Word /\ -Q <= v
    BY <1>0, Shorts
  <2>2. Stands(Overflow(r, v), v % Q)
    BY <2>1, OverflowIs
  <2> QED  BY <1>3, <2>2 DEF SumOfShorts
<1>4. CASE ~ has_add32_overflow(v)
  <2>1. v \in SMin .. SMax
    BY <1>0, <1>2, <1>4
  <2> QED  BY <1>4, <2>1, Results DEF SumOfShorts
<1> QED  BY <1>3, <1>4

\* The field's sums and its product.
LEMMA Distribute ==
  ASSUME NEW x \in Int, NEW y \in Int, NEW z \in Int
  PROVE  /\ Add(Mul(x, z), Mul(y, z)) = Mul(Add(x, y), z)
         /\ Sub(Mul(x, z), Mul(y, z)) = Mul(Sub(x, y), z)
         /\ Sub(0, Mul(x, z)) = Mul(Sub(0, x), z)
<1>1. /\ x * z \in Int /\ y * z \in Int /\ Mul(x, z) \in Int /\ Mul(y, z) \in Int
      /\ x + y \in Int /\ x - y \in Int /\ 0 - x \in Int /\ Add(x, y) \in Int /\ Sub(x, y) \in Int
      /\ Sub(0, x) \in Int /\ 0 \in Int
  BY MulType, ResidueType DEF Add, Sub
<1>2. Cong(Mul(x, z), x * z) /\ Cong(Mul(y, z), y * z) /\ Cong(0, 0)
  BY MulCong DEF Cong
<1>3. /\ Cong(Mul(x, z) + Mul(y, z), x * z + y * z)
      /\ Cong(Mul(x, z) - Mul(y, z), x * z - y * z)
      /\ Cong(0 - Mul(x, z), 0 - x * z)
  BY <1>1, <1>2, CongSums
<1>4. Cong(Add(x, y), x + y) /\ Cong(Sub(x, y), x - y) /\ Cong(Sub(0, x), 0 - x)
  BY <1>1, CongResidue DEF Add, Sub
<1>5. /\ Cong(Add(x, y) * z, (x + y) * z) /\ Cong(Sub(x, y) * z, (x - y) * z)
      /\ Cong(Sub(0, x) * z, (0 - x) * z)
  BY <1>1, <1>4, CongTimes, Zenon
<1>6. (x + y) * z = x * z + y * z /\ (x - y) * z = x * z - y * z /\ (0 - x) * z = 0 - x * z
  OBVIOUS
<1> QED  BY <1>3, <1>5, <1>6 DEF Mul, Add, Sub, Cong

\* Sums of residues.
LEMMA ResidueSums ==
  ASSUME NEW x \in Int, NEW y \in Int
  PROVE  /\ (x + y) % Q = Add(x % Q, y % Q) /\ (x - y) % Q = Sub(x % Q, y % Q)
         /\ (x * y) % Q = Mul(x % Q, y % Q) /\ (-x) % Q = Sub(0, x % Q)
<1>1. x % Q \in Int /\ y % Q \in Int /\ Cong(x % Q, x) /\ Cong(y % Q, y) /\ 0 \in Int /\ Cong(0, 0)
  BY ResidueType, CongResidue DEF Cong
<1>2. /\ Cong((x % Q) + (y % Q), x + y) /\ Cong((x % Q) - (y % Q), x - y)
      /\ Cong((x % Q) * (y % Q), x * y) /\ Cong(0 - (x % Q), 0 - x)
  BY <1>1, CongSums
<1>3. 0 - x = -x
  OBVIOUS
<1> QED  BY <1>2, <1>3 DEF Add, Sub, Mul, Cong

\* The sum and the difference, whatever the forms of the operands are.
LEMMA SumsAre ==
  ASSUME NEW r \in Element, NEW a, NEW b, NEW x, NEW y, Stands(a, x), Stands(b, y)
  PROVE  /\ Stands(Fr_add(r, a, b), Add(x, y)) /\ Stands(Fr_sub(r, a, b), Sub(x, y))
<1>0. /\ x \in Field /\ y \in Field /\ x \in Int /\ y \in Int
      /\ Mul(x, R1) \in Field /\ Mul(y, R1) \in Field /\ R1 \in Int
      /\ plain(a) = x /\ mont(a) = Mul(x, R1) /\ plain(b) = y /\ mont(b) = Mul(y, R1)
      /\ ~ isLong(a) => a.shortVal % Q = x
      /\ ~ isLong(b) => b.shortVal % Q = y
      /\ a.shortVal \in SMin .. SMax /\ b.shortVal \in SMin .. SMax
      /\ a.shortVal \in Int /\ b.shortVal \in Int
      /\ a.type \in {"short", "smont", "long", "lmont"} /\ b.type \in {"short", "smont", "long", "lmont"}
      /\ a.type = "long" => a.longVal = x
      /\ b.type = "long" => b.longVal = y
  BY Operand, ElementIs, FieldResidue, RIs DEF Stands, IsValue
<1>1. Add(x, y) \in Field /\ Sub(x, y) \in Field /\ Add(y, x) = Add(x, y)
  <2>1. x + y = y + x
    BY <1>0
  <2> QED  BY <1>0, <2>1, RawSums DEF Add
<1>2. CASE ~ isLong(a) /\ ~ isLong(b)
  <2> DEFINE u == a.shortVal
             v == b.shortVal
  <2>1. /\ u + v \in Int /\ -(2 * H) <= u + v /\ u + v < 2 * H
        /\ u - v \in Int /\ -(2 * H) <= u - v /\ u - v < 2 * H
    BY <1>0, Shorts
  <2>2. Stands(SumOfShorts(r, u + v), (u + v) % Q) /\ Stands(SumOfShorts(r, u - v), (u - v) % Q)
    BY <2>1, SumOfShortsIs
  <2>3. (u + v) % Q = Add(x, y) /\ (u - v) % Q = Sub(x, y)
    <3>1. u \in Int /\ v \in Int /\ u % Q = x /\ v % Q = y
      BY <1>0, <1>2
    <3> HIDE DEF u, v
    <3>2. (u + v) % Q = Add(u % Q, v % Q) /\ (u - v) % Q = Sub(u % Q, v % Q)
      BY <3>1, ResidueSums
    <3> QED  BY <3>1, <3>2
  <2>4. Fr_add(r, a, b) = SumOfShorts(r, u + v) /\ Fr_sub(r, a, b) = SumOfShorts(r, u - v)
    <3>1. ~ anyLmont(a, b) /\ ~ bothPlain(a, b) /\ ~ (a.type = "long" /\ ~ isLong(b))
      BY <1>2 DEF anyLmont, bothPlain, isLong
    <3> QED  BY <1>2, <3>1 DEF Fr_add, Fr_sub
  <2> QED  BY <2>2, <2>3, <2>4
<1>3. CASE anyLmont(a, b)
  <2>1. /\ ~ (~ isLong(a) /\ ~ isLong(b)) /\ ~ bothPlain(a, b)
        /\ ~ (a.type = "long" /\ ~ isLong(b))
    BY <1>3 DEF anyLmont, isLong, bothPlain
  <2>2. /\ Fr_add(r, a, b) = Long(r, "lmont", rawAdd(Mul(x, R1), Mul(y, R1)))
        /\ Fr_sub(r, a, b) = Long(r, "lmont", rawSub(Mul(x, R1), Mul(y, R1)))
    BY <1>0, <1>3, <2>1 DEF Fr_add, Fr_sub
  <2>3. /\ rawAdd(Mul(x, R1), Mul(y, R1)) = Mul(Add(x, y), R1)
        /\ rawSub(Mul(x, R1), Mul(y, R1)) = Mul(Sub(x, y), R1)
    <3> DEFINE u == Mul(x, R1)
               v == Mul(y, R1)
    <3>1. Add(u, v) = Mul(Add(x, y), R1) /\ Sub(u, v) = Mul(Sub(x, y), R1)
      BY <1>0, Distribute
    <3>2. u \in Field /\ v \in Field
      BY <1>0
    <3> HIDE DEF u, v
    <3>3. rawAdd(u, v) = Add(u, v) /\ rawSub(u, v) = Sub(u, v)
      BY <3>2, RawSums
    <3> QED  BY <3>1, <3>3 DEF u, v
  <2> QED  BY <1>1, <2>2, <2>3, Results
<1>4. CASE bothPlain(a, b)
  <2>1. /\ ~ (~ isLong(a) /\ ~ isLong(b)) /\ ~ anyLmont(a, b)
        /\ ~ (a.type = "long" /\ ~ isLong(b))
    BY <1>4 DEF anyLmont, isLong, bothPlain
  <2>2. a.longVal = x /\ b.longVal = y
    BY <1>0, <1>4 DEF bothPlain
  <2>3. /\ Fr_add(r, a, b) = Long(r, "long", rawAdd(x, y))
        /\ Fr_sub(r, a, b) = Long(r, "long", rawSub(x, y))
    BY <1>4, <2>1, <2>2 DEF Fr_add, Fr_sub
  <2>4. rawAdd(x, y) = Add(x, y) /\ rawSub(x, y) = Sub(x, y)
    BY <1>0, RawSums
  <2> QED  BY <1>1, <2>3, <2>4, Results
<1>5. CASE a.type = "long" /\ ~ isLong(b)
  <2>1. /\ ~ (~ isLong(a) /\ ~ isLong(b)) /\ ~ anyLmont(a, b) /\ ~ bothPlain(a, b)
        /\ a.longVal = x /\ b.shortVal % Q = y
    BY <1>0, <1>5 DEF anyLmont, isLong, bothPlain
  <2>2. /\ Fr_add(r, a, b) = Long(r, "long", addLS(x, b.shortVal))
        /\ Fr_sub(r, a, b) = Long(r, "long", subLS(x, b.shortVal))
    BY <1>5, <2>1 DEF Fr_add, Fr_sub
  <2>3. addLS(x, b.shortVal) = Add(x, y) /\ subLS(x, b.shortVal) = Sub(x, y)
    BY <1>0, <2>1, ShortSums
  <2> QED  BY <1>1, <2>2, <2>3, Results
<1>6. CASE b.type = "long" /\ ~ isLong(a)
  <2>1. /\ ~ (~ isLong(a) /\ ~ isLong(b)) /\ ~ anyLmont(a, b) /\ ~ bothPlain(a, b)
        /\ ~ (a.type = "long" /\ ~ isLong(b))
        /\ b.longVal = y /\ a.shortVal % Q = x
    BY <1>0, <1>6 DEF anyLmont, isLong, bothPlain
  <2>2. /\ Fr_add(r, a, b) = Long(r, "long", addLS(y, a.shortVal))
        /\ Fr_sub(r, a, b) = Long(r, "long", subSL(a.shortVal, y))
    BY <2>1 DEF Fr_add, Fr_sub
  <2>3. addLS(y, a.shortVal) = Add(y, x) /\ subSL(a.shortVal, y) = Sub(x, y)
    BY <1>0, <2>1, ShortSums
  <2> QED  BY <1>1, <2>2, <2>3, Results
<1> QED  BY <1>0, <1>2, <1>3, <1>4, <1>5, <1>6 DEF isLong, anyLmont, bothPlain

\* The opposite.
LEMMA NegationIs ==
  ASSUME NEW r \in Element, NEW a, NEW x, Stands(a, x)
  PROVE  Stands(Fr_neg(r, a), Sub(0, x))
<1>0. a \in Element /\ x \in Field /\ Mul(x, R1) \in Field /\ x \in Int /\ R1 \in Int /\ a.shortVal \in Int
      /\ a.shortVal \in SMin .. SMax
  BY Operand, ElementIs, FieldResidue, RIs
<1>1. CASE ~ isLong(a)
  <2>1. -a.shortVal \in Int /\ -(2 * H) <= -a.shortVal /\ -a.shortVal < 2 * H
    BY <1>0, Shorts
  <2>2. (-a.shortVal) % Q = Sub(0, x)
    BY <1>0, <1>1, Operand, ResidueSums
  <2>3. Fr_neg(r, a) = SumOfShorts(r, -a.shortVal)
    BY <1>1 DEF Fr_neg
  <2> QED  BY <2>1, <2>2, <2>3, SumOfShortsIs
<1>2. CASE isLong(a)
  <2> DEFINE t == a.type
  <2>1. t \in {"long", "lmont"} /\ Sub(0, x) \in Field
    BY <1>0, <1>2, RawSums DEF isLong
  <2>2. Fr_neg(r, a) = Long(a, t, rawNeg(a.longVal))
    <3>1. a = [type |-> a.type, shortVal |-> a.shortVal, longVal |-> a.longVal]
      BY <1>0, ElementIs
    <3>2. Fr_neg(r, a) = [a EXCEPT !.longVal = rawNeg(a.longVal)]
      BY <1>2 DEF Fr_neg
    <3>3. [a EXCEPT !.longVal = rawNeg(a.longVal)] = [a EXCEPT !.type = t, !.longVal = rawNeg(a.longVal)]
      BY <1>0 DEF Element
    <3> QED  BY <3>2, <3>3 DEF Long
  <2>3. CASE t = "long"
    <3>1. a.longVal = x /\ rawNeg(x) = Sub(0, x)
      BY <1>0, <2>3, RawSums DEF Stands, IsValue
    <3> QED  BY <1>0, <2>1, <2>2, <2>3, <3>1, Results
  <2>4. CASE t = "lmont"
    <3>1. a.longVal = Mul(x, R1) /\ rawNeg(Mul(x, R1)) = Mul(Sub(0, x), R1)
      BY <1>0, <2>4, RawSums, Distribute DEF Stands, IsValue, isMont
    <3> QED  BY <1>0, <2>1, <2>2, <2>4, <3>1, Results
  <2> QED  BY <2>1, <2>3, <2>4
<1> QED  BY <1>1, <1>2

\* The form of a product: p is the Montgomery product of what the operands hold.
LEMMA MulFormIs ==
  ASSUME NEW r \in Element, NEW x \in Field, NEW y \in Field, NEW am \in BOOLEAN, NEW bm \in BOOLEAN,
         NEW u, NEW v, u = IF am THEN Mul(x, R1) ELSE x, v = IF bm THEN Mul(y, R1) ELSE y,
         NEW p \in Field, Mul(p, R1) = Mul(u, v)
  PROVE  Stands(MulForm(r, am, bm, p), Mul(x, y))
<1>0. /\ Mul(x, R1) \in Field /\ Mul(y, R1) \in Field /\ Mul(x, y) \in Field
      /\ u \in Field /\ v \in Field
  BY MontgomeryForms
<1>1. p = rawMMul(u, v)
  <2>1. rawMMul(u, v) \in Field /\ Mul(rawMMul(u, v), R1) = Mul(u, v)
    BY <1>0, Montgomery
  <2> QED  BY <2>1, CancelR
<1>2. CASE am /\ bm
  <2>1. p = Mul(Mul(x, y), R1)
    BY <1>1, <1>2, MontgomeryForms
  <2>2. MulForm(r, am, bm, p) = Long(r, "lmont", p)
    BY <1>2 DEF MulForm
  <2> QED  BY <1>0, <2>1, <2>2, Results
<1>3. CASE am /\ ~ bm
  <2>1. p = Mul(x, y)
    BY <1>1, <1>3, MontgomeryForms
  <2>2. MulForm(r, am, bm, p) = Long(r, "long", p)
    BY <1>3 DEF MulForm
  <2> QED  BY <1>0, <2>1, <2>2, Results
<1>4. CASE ~ am /\ bm
  <2>1. p = Mul(x, y)
    BY <1>1, <1>4, MontgomeryForms
  <2>2. MulForm(r, am, bm, p) = Long(r, "long", p)
    BY <1>4 DEF MulForm
  <2> QED  BY <1>0, <2>1, <2>2, Results
<1>5. CASE ~ am /\ ~ bm
  <2>1. rawMMul(p, R3) = Mul(Mul(x, y), R1)
    BY <1>1, <1>5, MontgomeryForms
  <2>2. MulForm(r, am, bm, p) = Long(r, "lmont", rawMMul(p, R3))
    BY <1>5 DEF MulForm
  <2> QED  BY <1>0, <2>1, <2>2, Results
<1> QED  BY <1>2, <1>3, <1>4, <1>5

\* What the long part of an operand that is not a plain short one holds.
LEMMA Held ==
  ASSUME NEW a, NEW x, Stands(a, x)
  PROVE  /\ isMont(a) \in BOOLEAN
         /\ a.type # "short" => a.longVal = IF isMont(a) THEN Mul(x, R1) ELSE x
         /\ a.type = "short" => ~ isMont(a) /\ a.shortVal % Q = x
<1>1. a.type \in {"short", "smont", "long", "lmont"}
  BY ElementIs DEF Stands, IsValue
<1> QED  BY <1>1 DEF Stands, IsValue, isMont

\* The product of two shorts.
LEMMA ProductOfShorts ==
  ASSUME NEW r \in Element, NEW s \in SMin .. SMax, NEW t \in SMin .. SMax
  PROVE  Stands(Overflow(r, s * t), Mul(s % Q, t % Q))
<1>1. s \in Int /\ t \in Int /\ -H <= s /\ s <= H /\ -H <= t /\ t <= H /\ H \in Nat
  BY Shorts
<1>2. s * t \in Int /\ -(H * H) <= s * t /\ s * t <= H * H
  <2>1. \A u, v \in Nat : u * v >= 0
    OBVIOUS
  <2>2. (H - s) * (H + t) >= 0 /\ (H + s) * (H - t) >= 0 /\ (H - s) * (H - t) >= 0 /\ (H + s) * (H + t) >= 0
    BY <1>1, <2>1
  <2>3. /\ (H - s) * (H + t) = H * H + H * t - s * H - s * t
        /\ (H + s) * (H - t) = H * H - H * t + s * H - s * t
        /\ (H - s) * (H - t) = H * H - H * t - s * H + s * t
        /\ (H + s) * (H + t) = H * H + H * t + s * H + s * t
    BY <1>1
  <2>4. H * t \in Int /\ s * H \in Int /\ s * t \in Int /\ H * H \in Int
    BY <1>1
  <2> QED  BY <2>2, <2>3, <2>4
<1>3. s * t < Word /\ -Q <= s * t
  BY <1>2, Shorts
<1>4. (s * t) % Q = Mul(s % Q, t % Q)
  BY <1>1, ResidueSums
<1> DEFINE p == s * t
<1> HIDE DEF p
<1>5. Stands(Overflow(r, p), p % Q)
  BY <1>2, <1>3, OverflowIs DEF p
<1> QED  BY <1>4, <1>5 DEF p

\* The product and the square.
LEMMA ProductIs ==
  ASSUME NEW r \in Element, NEW a, NEW b, NEW x, NEW y, Stands(a, x), Stands(b, y)
  PROVE  Stands(Fr_mul(r, a, b), Mul(x, y))
<1>0. /\ x \in Field /\ y \in Field /\ x \in Int /\ y \in Int
      /\ Mul(x, R1) \in Field /\ Mul(y, R1) \in Field /\ R1 \in Int
      /\ a.shortVal \in SMin .. SMax /\ b.shortVal \in SMin .. SMax
      /\ a.type \in {"short", "smont", "long", "lmont"} /\ b.type \in {"short", "smont", "long", "lmont"}
  BY Operand, ElementIs, FieldResidue, RIs
<1>1. CASE ~ isLong(a) /\ ~ isLong(b)
  <2>1. a.shortVal % Q = x /\ b.shortVal % Q = y
    BY <1>1, Operand
  <2>2. Fr_mul(r, a, b) = Overflow(r, a.shortVal * b.shortVal)
    BY <1>1 DEF Fr_mul
  <2> QED  BY <1>0, <2>1, <2>2, ProductOfShorts
<1>2. CASE ~ (~ isLong(a) /\ ~ isLong(b))
  <2> DEFINE u == IF isMont(a) THEN Mul(x, R1) ELSE x
             v == IF isMont(b) THEN Mul(y, R1) ELSE y
             p == CASE a.type = "short" -> MulShort(b.longVal, a.shortVal)
                    [] b.type = "short" -> MulShort(a.longVal, b.shortVal)
                    [] OTHER            -> rawMMul(a.longVal, b.longVal)
  <2>1. u \in Field /\ v \in Field /\ u \in Int /\ v \in Int
    BY <1>0, FieldResidue
  <2>2. p \in Field /\ Mul(p, R1) = Mul(u, v)
    <3>1. CASE a.type = "short"
      <4>1. b.type # "short" /\ ~ isMont(a) /\ a.shortVal % Q = x
        BY <1>2, <3>1, Held DEF isLong
      <4>2. u = x /\ b.longVal = v
        BY <4>1, Held
      <4> HIDE DEF u, v
      <4>3. p = MulShort(v, a.shortVal)
        BY <3>1, <4>1, <4>2
      <4>4. MulShort(v, a.shortVal) \in Field /\ Mul(MulShort(v, a.shortVal), R1) = Mul(v, x)
        BY <1>0, <2>1, <4>1, MulShortIs
      <4>5. Mul(v, x) = Mul(u, v)
        BY <2>1, <4>2, MulCommutes
      <4> QED  BY <4>3, <4>4, <4>5
    <3>2. CASE b.type = "short"
      <4>1. a.type # "short" /\ ~ isMont(b) /\ b.shortVal % Q = y
        BY <1>2, <3>2, Held DEF isLong
      <4>2. v = y /\ a.longVal = u
        BY <4>1, Held
      <4> HIDE DEF u, v
      <4>3. p = MulShort(u, b.shortVal)
        BY <3>2, <4>1, <4>2
      <4>4. MulShort(u, b.shortVal) \in Field /\ Mul(MulShort(u, b.shortVal), R1) = Mul(u, y)
        BY <1>0, <2>1, <4>1, MulShortIs
      <4> QED  BY <4>2, <4>3, <4>4
    <3>3. CASE a.type # "short" /\ b.type # "short"
      <4>1. a.longVal = u /\ b.longVal = v
        BY <3>3, Held
      <4> HIDE DEF u, v
      <4>2. p = rawMMul(u, v)
        BY <3>3, <4>1
      <4> QED  BY <2>1, <4>2, Montgomery
    <3> QED  BY <3>1, <3>2, <3>3
  <2>3. Fr_mul(r, a, b) = MulForm(r, isMont(a), isMont(b), p)
    BY <1>2, Zenon DEF Fr_mul
  <2> HIDE DEF p
  <2>4. isMont(a) \in BOOLEAN /\ isMont(b) \in BOOLEAN
    BY DEF isMont
  <2> QED  BY <1>0, <2>2, <2>3, <2>4, MulFormIs
<1> QED  BY <1>1, <1>2

\* The square.
LEMMA SquareIs ==
  ASSUME NEW r \in Element, NEW a, NEW x, Stands(a, x)
  PROVE  Stands(Fr_square(r, a), Mul(x, x))
<1>0. x \in Field /\ Mul(x, R1) \in Field /\ a.shortVal \in SMin .. SMax
  BY Operand, ElementIs
<1>1. CASE ~ isLong(a)
  <2>1. a.shortVal % Q = x /\ Fr_square(r, a) = Overflow(r, a.shortVal * a.shortVal)
    BY <1>1, Operand DEF Fr_square
  <2> QED  BY <1>0, <2>1, ProductOfShorts
<1>2. CASE isLong(a)
  <2> DEFINE u == IF isMont(a) THEN Mul(x, R1) ELSE x
             p == rawMMul(u, u)
  <2>1. a.longVal = u /\ u \in Field /\ isMont(a) \in BOOLEAN
    BY <1>0, <1>2, Held DEF isLong, isMont
  <2>2. Fr_square(r, a) = MulForm(r, isMont(a), isMont(a), p)
    BY <1>2, <2>1 DEF Fr_square
  <2>3. p \in Field /\ Mul(p, R1) = Mul(u, u)
    <3> HIDE DEF u
    <3> QED  BY <2>1, Montgomery
  <2> HIDE DEF p
  <2> QED  BY <1>0, <2>1, <2>2, <2>3, MulFormIs
<1> QED  BY <1>1, <1>2

--------------------------------------------------------------------------------
\* Through GMP's integers.

\* To an integer, and back.
LEMMA MpzIs ==
  ASSUME NEW r \in Element, NEW a, NEW x, Stands(a, x)
  PROVE  Fr_toMpz(a) = x /\ \A v \in Field : Stands(Fr_fromMpz(r, v), v)
<1>0. /\ a \in Element /\ x \in Field /\ a.shortVal \in SMin .. SMax
      /\ a.type \in {"short", "smont", "long", "lmont"}
  BY Operand, ElementIs
<1> DEFINE n == Fr_toNormal(a, a)
<1>1. Fr_toMpz(a) = IF isLong(n) THEN n.longVal ELSE IF n.shortVal < 0 THEN n.shortVal + Q ELSE n.shortVal
  BY DEF Fr_toMpz
<1>2. ASSUME a.type = "lmont" PROVE Fr_toMpz(a) = x
  <2>1. n = Long(a, "long", x)
    <3>1. a.longVal = Mul(x, R1) /\ rawFromMontgomery(a.longVal) = x
      BY <1>0, <1>2, MontgomeryForms DEF Stands, IsValue, isMont
    <3> QED  BY <1>2, <3>1 DEF Fr_toNormal
  <2>2. n.type = "long" /\ n.longVal = x
    BY <1>0, <2>1, Written
  <2> QED  BY <1>1, <2>2 DEF isLong
<1>3. ASSUME a.type = "long" PROVE Fr_toMpz(a) = x
  <2>1. n = a /\ a.longVal = x
    BY <1>3 DEF Fr_toNormal, Stands, IsValue
  <2> QED  BY <1>1, <1>3, <2>1 DEF isLong
<1>4. ASSUME ~ isLong(a) PROVE Fr_toMpz(a) = x
  <2>1. n = a /\ a.shortVal % Q = x
    BY <1>4, Operand DEF Fr_toNormal, isLong
  <2>2. x = IF a.shortVal < 0 THEN a.shortVal + Q ELSE a.shortVal
    BY <1>0, <2>1, ShortResidue
  <2> HIDE DEF n
  <2> QED  BY <1>1, <1>4, <2>1, <2>2
<1>5. ASSUME NEW v \in Field PROVE Stands(Fr_fromMpz(r, v), v)
  <2>1. CASE v <= SMax
    <3>1. v \in SMin .. SMax /\ v % Q = v
      BY <2>1, Shorts, FieldIs, FieldResidue
    <3> QED  BY <2>1, <3>1, Results DEF Fr_fromMpz
  <2>2. CASE ~ (v <= SMax)
    BY <2>2, Results DEF Fr_fromMpz
  <2> QED  BY <2>1, <2>2
<1> QED  BY <1>0, <1>2, <1>3, <1>4, <1>5 DEF isLong

\* The quotient, the remainder and the power of integers, and the inverse.
LEMMA IntegersAre ==
  ASSUME NEW r \in Element, NEW a, NEW b, NEW x, NEW y, Stands(a, x), Stands(b, y)
  PROVE  /\ Stands(Fr_pow(r, a, b), Pow(x, y))
         /\ y # 0 => /\ Stands(Fr_idiv(r, a, b), x \div y) /\ Stands(Fr_mod(r, a, b), x % y)
                     /\ Stands(Fr_inv(r, b), Inv(y)) /\ Inv(y) \in Field
                     /\ Stands(Fr_div(r, a, b), Mul(x, Inv(y)))
<1>0. /\ x \in Field /\ y \in Field /\ x \in Nat /\ y \in Nat /\ x < Q /\ y < Q /\ Q \in Nat
      /\ Fr_toMpz(a) = x /\ Fr_toMpz(b) = y /\ \A v \in Field : Stands(Fr_fromMpz(r, v), v)
  BY Operand, MpzIs, FieldIs, Sizes
<1>1. Stands(Fr_pow(r, a, b), Pow(x, y))
  <2>1. Pow(x, y) \in Field
    BY <1>0, PowFacts
  <2> QED  BY <1>0, <2>1 DEF Fr_pow
<1>2. ASSUME y # 0 PROVE Stands(Fr_idiv(r, a, b), x \div y) /\ Stands(Fr_mod(r, a, b), x % y)
  <2>1. y \in Nat \ {0}
    BY <1>0, <1>2
  <2>2. x \div y \in Nat /\ x % y \in Nat /\ x % y \in 0 .. y - 1 /\ x = y * (x \div y) + (x % y)
    BY <1>0, <2>1, ModType
  <2> DEFINE q == x \div y
             m == x % y
  <2>3. q < Q /\ m < Q
    <3>1. \A k \in Nat \ {0} : \A l \in Nat : l <= k * l /\ k * l \in Nat
      OBVIOUS
    <3>2. q <= y * q /\ y * q \in Nat
      BY <2>1, <2>2, <3>1
    <3>3. x = y * q + m /\ q \in Nat /\ m \in Nat /\ m < y
      BY <2>1, <2>2
    <3> HIDE DEF q, m
    <3> QED  BY <1>0, <3>2, <3>3
  <2>4. q \in Field /\ m \in Field
    BY <2>2, <2>3, FieldIs
  <2> QED  BY <1>0, <2>4 DEF Fr_idiv, Fr_mod
<1>3. ASSUME y # 0 PROVE Stands(Fr_inv(r, b), Inv(y)) /\ Inv(y) \in Field
  BY <1>0, <1>3, UnitInverse DEF Fr_inv
<1>4. ASSUME y # 0 PROVE Stands(Fr_div(r, a, b), Mul(x, Inv(y)))
  BY <1>3, <1>4, ProductIs DEF Fr_div
<1> QED  BY <1>1, <1>2, <1>3, <1>4

\* An int of an element that fits one.
LEMMA ToIntIs ==
  ASSUME NEW a, NEW x, Stands(a, x), Fits(x)
  PROVE  Fr_toInt(a) = Signed(x)
<1>0. /\ x \in Field /\ x \in Nat /\ x < Q /\ Q \in Nat /\ plain(a) = x
      /\ H \in Nat \ {0} /\ SMin = -H /\ SMax = H - 1 /\ 2 * H <= Word /\ Word \in Nat \ {0}
      /\ half \in Nat /\ Q = 2 * half + 1 /\ H <= half
      /\ Signed(x) \in SMin .. SMax
  BY Operand, FieldIs, Shorts, Sizes, SignedIs DEF Fits
<1>1. CASE ~ isLong(a)
  BY <1>1, Operand DEF Fr_toInt
<1>2. CASE isLong(a)
  <2>1. Fr_toInt(a) = longNormal(x)
    BY <1>0, <1>2 DEF Fr_toInt
  <2>2. CASE x <= SMax
    <3>1. ~ (x > half)
      BY <1>0, <2>2
    <3> QED  BY <2>1, <2>2, <3>1 DEF longNormal, Signed
  <2>3. CASE ~ (x <= SMax)
    <3>1. x > half
      <4>1. CASE ~ (x > half)
        BY <1>0, <2>3, <4>1 DEF Signed
      <4> QED  BY <4>1
    <3>2. Signed(x) = x - Q /\ x - Q >= -H
      BY <1>0, <3>1 DEF Signed
    <3>3. limb(x, 0) = x % Word /\ limb(Q, 0) = Q % Word
      <4>1. 0 * W = 0
        BY Sizes
      <4>2. 2^(0 * W) = 1
        <5>1. 2^0 = 1
          OBVIOUS
        <5> QED  BY <4>1, <5>1
      <4>3. \A z \in Int : z \div 1 = z
        OBVIOUS
      <4>4. x \in Int /\ Q \in Int
        BY <1>0
      <4> QED  BY <4>2, <4>3, <4>4, Zenon DEF limb
    <3> DEFINE s == x % Word
               t == Q % Word
               j == x \div Word
               k == Q \div Word
               d == (s - t) % Word
    <3>4. /\ s \in Int /\ t \in Int /\ j \in Int /\ k \in Int
          /\ x = Word * j + s /\ Q = Word * k + t
      BY <1>0, DivMod
    <3>5. d = (x - Q) + Word
      <4> HIDE DEF s, t, j, k
      <4>1. s - t = ((k - j) - 1) * Word + ((x - Q) + Word)
        <5>1. ((k - j) - 1) * Word = Word * k - Word * j - Word
          BY <1>0, <3>4
        <5>2. Word * k \in Int /\ Word * j \in Int
          BY <1>0, <3>4
        <5> QED  BY <1>0, <3>4, <5>1, <5>2
      <4>2. (k - j) - 1 \in Int /\ (x - Q) + Word \in 0 .. Word - 1
        BY <1>0, <3>2, <3>4
      <4> DEFINE e == (x - Q) + Word
                 c == (k - j) - 1
      <4>3. c \in Int /\ e \in 0 .. Word - 1 /\ s - t = (c * Word) + e
        BY <4>1, <4>2
      <4> HIDE DEF c, e
      <4>4. (s - t) % Word = e
        BY <1>0, <4>3, Quotient, Zenon
      <4> QED  BY <4>4 DEF e
    <3> HIDE DEF d
    <3>6. longNeg(x) = IF x < Q /\ Word + SMin <= d THEN d - Word ELSE Err
      BY <3>3 DEF longNeg, d
    <3>7. longNeg(x) = x - Q
      <4>1. x < Q /\ Word + SMin <= d /\ d - Word = x - Q
        BY <1>0, <3>2, <3>5
      <4> QED  BY <3>6, <4>1, Zenon
    <3> QED  BY <2>1, <2>3, <3>2, <3>7 DEF longNormal
  <2> QED  BY <2>2, <2>3
<1> QED  BY <1>1, <1>2

--------------------------------------------------------------------------------
\* Comparisons and truth values.

\* A truth value as an element.
LEMMA TruthIs ==
  ASSUME NEW r \in Element, NEW p \in BOOLEAN
  PROVE  Stands(Truth(r, p), Bool(p))
<1>1. 0 \in SMin .. SMax /\ 0 % Q = 0 /\ (1 \in SMin .. SMax => 1 % Q = 1)
  BY Shorts, FieldIs, FieldResidue
<1>2. 1 \in SMin .. SMax
  <2>1. S - 1 \in Nat /\ 1 < 2^(S - 1)
    <3>1. S \in Nat /\ S - 1 \in Nat \ {0} /\ 2^0 = 1
      BY ShortAssumption
    <3>2. 2^0 < 2^(S - 1)
      <4>1. 0 \in Nat /\ S - 1 \in Nat /\ 0 < S - 1
        BY <3>1
      <4> QED  BY <4>1, TwoExpMonotonic, Zenon
    <3> QED  BY <3>1, <3>2
  <2> QED  BY <2>1, Shorts DEF H
<1> QED  BY <1>1, <1>2, Results DEF Truth, Bool

\* The elements above half are the negative ones.
LEMMA SignedOrder ==
  ASSUME NEW x \in Field, NEW y \in Field
  PROVE  /\ rltL1L2(x, y) = (Signed(x) < Signed(y)) /\ rgtL1L2(x, y) = (Signed(x) > Signed(y))
         /\ (Signed(x) = Signed(y)) = (x = y) /\ Signed(x) \in Int /\ Signed(y) \in Int
<1>1. x \in Nat /\ y \in Nat /\ x < Q /\ y < Q /\ half \in Nat /\ Q = 2 * half + 1
  BY FieldIs, SignedIs
<1>2. CASE half < x /\ half < y
  <2>1. Signed(x) = x - Q /\ Signed(y) = y - Q
    BY <1>1, <1>2 DEF Signed
  <2> QED  BY <1>1, <1>2, <2>1 DEF rltL1L2, rgtL1L2
<1>3. CASE half < x /\ ~ (half < y)
  <2>1. Signed(x) = x - Q /\ Signed(y) = y
    BY <1>1, <1>3 DEF Signed
  <2> QED  BY <1>1, <1>3, <2>1 DEF rltL1L2, rgtL1L2
<1>4. CASE ~ (half < x) /\ half < y
  <2>1. Signed(x) = x /\ Signed(y) = y - Q
    BY <1>1, <1>4 DEF Signed
  <2> QED  BY <1>1, <1>4, <2>1 DEF rltL1L2, rgtL1L2
<1>5. CASE ~ (half < x) /\ ~ (half < y)
  <2>1. Signed(x) = x /\ Signed(y) = y
    BY <1>1, <1>5 DEF Signed
  <2> QED  BY <1>1, <1>5, <2>1 DEF rltL1L2, rgtL1L2
<1> QED  BY <1>2, <1>3, <1>4, <1>5

\* What the comparisons and the test find.
LEMMA Decisions ==
  ASSUME NEW a, NEW b, NEW x, NEW y, Stands(a, x), Stands(b, y)
  PROVE  /\ Fr_rlt(a, b) = (Signed(x) < Signed(y)) /\ Fr_rgt(a, b) = (Signed(x) > Signed(y))
         /\ Fr_req(a, b) = (x = y) /\ Fr_isTrue(a) = (x # 0)
<1>0. /\ x \in Field /\ y \in Field /\ Mul(x, R1) \in Field /\ Mul(y, R1) \in Field
      /\ plain(a) = x /\ mont(a) = Mul(x, R1) /\ plain(b) = y /\ mont(b) = Mul(y, R1)
      /\ ~ isLong(a) => a.shortVal = Signed(x) /\ a.shortVal % Q = x
      /\ ~ isLong(b) => b.shortVal = Signed(y)
  BY Operand
<1>1. Fr_rlt(a, b) = (Signed(x) < Signed(y)) /\ Fr_rgt(a, b) = (Signed(x) > Signed(y))
  BY <1>0, SignedOrder DEF Fr_rlt, Fr_rgt
<1>2. Fr_req(a, b) = (x = y)
  <2>1. CASE ~ isLong(a) /\ ~ isLong(b)
    <3>1. ~ anyLmont(a, b)
      BY <2>1 DEF anyLmont, isLong
    <3> QED  BY <1>0, <2>1, <3>1, SignedOrder DEF Fr_req
  <2>2. CASE anyLmont(a, b)
    <3>1. ~ (~ isLong(a) /\ ~ isLong(b))
      BY <2>2 DEF anyLmont, isLong
    <3>2. Fr_req(a, b) = (Mul(x, R1) = Mul(y, R1))
      BY <1>0, <2>2, <3>1 DEF Fr_req
    <3> QED  BY <1>0, <3>2, CancelR
  <2>3. CASE ~ (~ isLong(a) /\ ~ isLong(b)) /\ ~ anyLmont(a, b)
    BY <1>0, <2>3 DEF Fr_req
  <2> QED  BY <2>1, <2>2, <2>3
<1>3. Fr_isTrue(a) = (x # 0)
  <2>1. CASE ~ isLong(a)
    <3>1. a.shortVal \in SMin .. SMax
      BY ElementIs, Operand
    <3>2. x = 0 <=> a.shortVal = 0
      <4>1. x = IF a.shortVal < 0 THEN a.shortVal + Q ELSE a.shortVal
        BY <1>0, <2>1, <3>1, ShortResidue
      <4>2. a.shortVal \in Int /\ a.shortVal + Q > 0
        BY <3>1, Shorts
      <4> QED  BY <4>1, <4>2
    <3> QED  BY <2>1, <3>2 DEF Fr_isTrue
  <2>2. CASE a.type = "long"
    BY <2>2 DEF Fr_isTrue, isLong, Stands, IsValue
  <2>3. CASE a.type = "lmont"
    <3>1. a.longVal = Mul(x, R1) /\ isLong(a)
      BY <2>3 DEF isLong, Stands, IsValue, isMont
    <3>2. Mul(0, R1) = 0 /\ 0 \in Field
      <4>1. 0 * R1 = 0 /\ 0 % Q = 0
        BY RIs, FieldIs, FieldResidue
      <4> QED  BY <4>1, FieldIs DEF Mul
    <3>3. Mul(x, R1) = 0 <=> x = 0
      BY <1>0, <3>2, CancelR
    <3> QED  BY <3>1, <3>3 DEF Fr_isTrue
  <2> QED  BY <2>1, <2>2, <2>3 DEF isLong
<1> QED  BY <1>1, <1>2, <1>3

\* The results of the comparisons and of the connectives.
LEMMA TruthsAre ==
  ASSUME NEW r \in Element, NEW a, NEW b, NEW x, NEW y, Stands(a, x), Stands(b, y)
  PROVE  /\ Stands(Fr_lt(r, a, b), Bool(Signed(x) < Signed(y)))
         /\ Stands(Fr_gt(r, a, b), Bool(Signed(x) > Signed(y)))
         /\ Stands(Fr_geq(r, a, b), Bool(Signed(x) >= Signed(y)))
         /\ Stands(Fr_leq(r, a, b), Bool(Signed(x) <= Signed(y)))
         /\ Stands(Fr_eq(r, a, b), Bool(x = y)) /\ Stands(Fr_neq(r, a, b), Bool(x # y))
         /\ Stands(Fr_land(r, a, b), Bool(x # 0 /\ y # 0))
         /\ Stands(Fr_lor(r, a, b), Bool(x # 0 \/ y # 0))
         /\ Stands(Fr_lnot(r, a), Bool(x = 0))
<1>1. /\ Fr_rlt(a, b) = (Signed(x) < Signed(y)) /\ Fr_rgt(a, b) = (Signed(x) > Signed(y))
      /\ Fr_req(a, b) = (x = y) /\ Fr_isTrue(a) = (x # 0) /\ Fr_isTrue(b) = (y # 0)
  BY Decisions
<1>2. Signed(x) \in Int /\ Signed(y) \in Int
  BY Operand, SignedOrder
<1> DEFINE s == Signed(x)
           t == Signed(y)
<1> HIDE DEF s, t
<1>3. /\ Stands(Truth(r, s < t), Bool(s < t)) /\ Stands(Truth(r, s > t), Bool(s > t))
      /\ Stands(Truth(r, s >= t), Bool(s >= t)) /\ Stands(Truth(r, s <= t), Bool(s <= t))
      /\ Stands(Truth(r, x = y), Bool(x = y)) /\ Stands(Truth(r, x # y), Bool(x # y))
      /\ Stands(Truth(r, x # 0 /\ y # 0), Bool(x # 0 /\ y # 0))
      /\ Stands(Truth(r, x # 0 \/ y # 0), Bool(x # 0 \/ y # 0))
      /\ Stands(Truth(r, x = 0), Bool(x = 0))
  <2>1. \A p \in BOOLEAN : Stands(Truth(r, p), Bool(p))
    BY TruthIs
  <2>2. /\ (s < t) \in BOOLEAN /\ (s > t) \in BOOLEAN /\ (s >= t) \in BOOLEAN
        /\ (s <= t) \in BOOLEAN
    BY <1>2 DEF s, t
  <2> QED  BY <2>1, <2>2, Zenon
<1>4. (~ (s < t)) = (s >= t) /\ (~ (s > t)) = (s <= t)
  BY <1>2 DEF s, t
<1> QED  BY <1>1, <1>3, <1>4 DEF Fr_lt, Fr_gt, Fr_geq, Fr_leq, Fr_eq, Fr_neq, Fr_land, Fr_lor, Fr_lnot, s, t

--------------------------------------------------------------------------------
\* Bits.

\* Bits below the k-th spell a number below the k-th power of two.
LEMMA BitSum ==
  ASSUME NEW f, NEW n \in Nat, DOMAIN f = 0 .. n - 1, \A i \in 0 .. n - 1 : f[i] \in {0, 2^i}
  PROVE  /\ SumFunction(f) \in Nat
         /\ \A k \in 0 .. n : (\A i \in k .. n - 1 : f[i] = 0) => SumFunction(f) < 2^k
<1> DEFINE T == {k \in Nat : k <= n => Sum(f, 0 .. k - 1) \in Nat /\ Sum(f, 0 .. k - 1) < 2^k}
<1>0. \A i \in 0 .. n - 1 : f[i] \in Nat /\ f[i] <= 2^i /\ 2^i \in Nat /\ f[i] \in Int
  BY TwoExp
<1>1. 0 \in T
  <2>1. 0 .. 0 - 1 = {} /\ 2^0 = 1
    OBVIOUS
  <2> QED  BY <2>1, SumEmpty
<1>2. ASSUME NEW k \in Nat, k \in T PROVE k + 1 \in T
  <2> SUFFICES ASSUME k + 1 <= n
               PROVE  Sum(f, 0 .. (k + 1) - 1) \in Nat /\ Sum(f, 0 .. (k + 1) - 1) < 2^(k + 1)
    OBVIOUS
  <2>1. 0 .. (k + 1) - 1 = (0 .. k - 1) \cup {k} /\ k \notin 0 .. k - 1 /\ k \in 0 .. n - 1
        /\ 0 .. k - 1 \subseteq 0 .. n - 1
    OBVIOUS
  <2>2. IsFiniteSet(0 .. k - 1)
    BY FS_Interval
  <2>3. Sum(f, (0 .. k - 1) \cup {k}) = Sum(f, 0 .. k - 1) + f[k]
    BY <1>0, <2>1, <2>2, SumAdd
  <2>4. Sum(f, 0 .. k - 1) \in Nat /\ Sum(f, 0 .. k - 1) < 2^k
    BY <1>2
  <2>5. 2^(k + 1) = 2 * 2^k /\ 2^k \in Nat /\ f[k] \in Nat /\ f[k] <= 2^k
    BY <1>0, <2>1, TwoExp
  <2>6. Sum(f, 0 .. (k + 1) - 1) = Sum(f, 0 .. k - 1) + f[k]
    BY <2>1, <2>3
  <2> QED  BY <2>4, <2>5, <2>6
<1>3. \A k \in 0 .. n : Sum(f, 0 .. k - 1) \in Nat /\ Sum(f, 0 .. k - 1) < 2^k
  <2>1. \A k \in Nat : k \in T
    <3> HIDE DEF T
    <3> QED  BY <1>1, <1>2, Induction
  <2> QED  BY <2>1
<1>4. SumFunction(f) = Sum(f, 0 .. n - 1)
  BY SumFunctionIs
<1>5. ASSUME NEW k \in 0 .. n, \A i \in k .. n - 1 : f[i] = 0 PROVE Sum(f, 0 .. n - 1) < 2^k
  <2>1. 0 .. n - 1 = (0 .. k - 1) \cup (k .. n - 1) /\ (0 .. k - 1) \cap (k .. n - 1) = {}
    OBVIOUS
  <2>2. IsFiniteSet(0 .. k - 1) /\ IsFiniteSet(k .. n - 1)
    BY FS_Interval
  <2>3. \A i \in (0 .. k - 1) \cup (k .. n - 1) : f[i] \in Int
    BY <1>0, <2>1
  <2>4. Sum(f, (0 .. k - 1) \cup (k .. n - 1)) = Sum(f, 0 .. k - 1) + Sum(f, k .. n - 1)
    BY <2>1, <2>2, <2>3, SumUnion
  <2>5. Sum(f, k .. n - 1) = 0
    BY <1>5, <2>2, SumZero
  <2>6. Sum(f, 0 .. k - 1) \in Nat /\ Sum(f, 0 .. k - 1) < 2^k
    BY <1>3
  <2>7. Sum(f, 0 .. n - 1) = Sum(f, 0 .. k - 1) + Sum(f, k .. n - 1)
    BY <2>1, <2>4
  <2> QED  BY <2>5, <2>6, <2>7
<1>6. n \in 0 .. n
  OBVIOUS
<1> QED  BY <1>3, <1>4, <1>5, <1>6

\* The logical operations of numbers below a power of two.
LEMMA Logical ==
  ASSUME NEW x \in Nat, NEW y \in Nat
  PROVE  /\ mpn_and(x, y) \in Nat /\ mpn_ior(x, y) \in Nat /\ mpn_xor(x, y) \in Nat
         /\ \A k \in 0 .. N * W :
              x < 2^k /\ y < 2^k => mpn_and(x, y) < 2^k /\ mpn_ior(x, y) < 2^k /\ mpn_xor(x, y) < 2^k
<1> DEFINE n == N * W
           f == [i \in 0 .. n - 1 |-> IF bit(x, i) = 1 /\ bit(y, i) = 1 THEN 2^i ELSE 0]
           g == [i \in 0 .. n - 1 |-> IF bit(x, i) = 1 \/ bit(y, i) = 1 THEN 2^i ELSE 0]
           h == [i \in 0 .. n - 1 |-> IF bit(x, i) # bit(y, i) THEN 2^i ELSE 0]
<1>1. /\ mpn_and(x, y) = SumFunction(f) /\ mpn_ior(x, y) = SumFunction(g)
      /\ mpn_xor(x, y) = SumFunction(h)
  BY DEF mpn_and, mpn_ior, mpn_xor, fromBits
<1>2. n \in Nat
  <2>1. \A i, j \in Nat : i * j \in Nat
    OBVIOUS
  <2> QED  BY <2>1, Sizes
<1>3. /\ DOMAIN f = 0 .. n - 1 /\ DOMAIN g = 0 .. n - 1 /\ DOMAIN h = 0 .. n - 1
      /\ \A i \in 0 .. n - 1 : f[i] \in {0, 2^i} /\ g[i] \in {0, 2^i} /\ h[i] \in {0, 2^i}
  OBVIOUS
<1>4. ASSUME NEW k \in 0 .. n, x < 2^k, y < 2^k
      PROVE  \A i \in k .. n - 1 : f[i] = 0 /\ g[i] = 0 /\ h[i] = 0
  <2> SUFFICES ASSUME NEW i \in k .. n - 1 PROVE f[i] = 0 /\ g[i] = 0 /\ h[i] = 0
    OBVIOUS
  <2>1. k \in Nat /\ i \in Nat /\ k <= i /\ i \in 0 .. n - 1
    BY <1>2
  <2>2. 2^k <= 2^i /\ 2^i \in Nat \ {0} /\ 2^k \in Nat
    BY <2>1, TwoExp, TwoExpMonotonic
  <2>3. bit(x, i) = 0 /\ bit(y, i) = 0
    <3>1. ASSUME NEW z \in Nat, z < 2^k PROVE bit(z, i) = 0
      <4> DEFINE p == 2^i
      <4>1. z \in 0 .. p - 1 /\ p \in Nat /\ z = (0 * p) + z /\ 0 \in Int
        BY <2>2, <3>1
      <4> HIDE DEF p
      <4>2. z \div p = 0
        BY <4>1, Quotient, Zenon
      <4>3. 0 % 2 = 0
        OBVIOUS
      <4> QED  BY <4>2, <4>3, Zenon DEF bit, p
    <3> QED  BY <1>4, <3>1
  <2> QED  BY <2>1, <2>3
<1> HIDE DEF f, g, h, n
<1>5. /\ SumFunction(f) \in Nat /\ SumFunction(g) \in Nat /\ SumFunction(h) \in Nat
      /\ \A k \in 0 .. n : (\A i \in k .. n - 1 : f[i] = 0) => SumFunction(f) < 2^k
      /\ \A k \in 0 .. n : (\A i \in k .. n - 1 : g[i] = 0) => SumFunction(g) < 2^k
      /\ \A k \in 0 .. n : (\A i \in k .. n - 1 : h[i] = 0) => SumFunction(h) < 2^k
  BY <1>2, <1>3, BitSum
<1> QED  BY <1>1, <1>4, <1>5 DEF n

\* The bits of the prime, of which one subtraction is enough.
LEMMA CutIs ==
  ASSUME NEW x \in Nat
  PROVE  Masked(x) = Cut(x) /\ Cut(x) \in Field /\ (x < Q => Cut(x) = x)
<1> DEFINE M == 2^MaxBits
           m == x % M
<1>1. M \in Nat \ {0} /\ Q \in Nat \ {0} /\ M < 2 * Q /\ Q < M
  BY Sizes
<1>2. m \in 0 .. M - 1 /\ (x < M => m = x)
  <2> HIDE DEF M
  <2>1. m \in 0 .. M - 1
    BY <1>1, DivMod
  <2>2. x < M => m = x
    BY <1>1, NearMod
  <2> QED  BY <2>1, <2>2
<1> HIDE DEF m
<1>3. Reduced(m) = m % Q
  <2>1. CASE m >= Q
    <3>1. m \in Q .. 2 * Q - 1
      BY <1>1, <1>2, <2>1
    <3>2. m % Q = m - Q
      BY <3>1, Near, Zenon
    <3> QED  BY <2>1, <3>2 DEF Reduced
  <2>2. CASE ~ (m >= Q)
    <3>1. m \in 0 .. Q - 1
      BY <1>1, <1>2, <2>2
    <3>2. m % Q = m
      BY <3>1, Near, Zenon
    <3> QED  BY <2>2, <3>2 DEF Reduced
  <2> QED  BY <2>1, <2>2
<1>4. m % Q \in Field
  BY <1>1, <1>2, ResidueType
<1>5. x < Q => m % Q = x
  <2> SUFFICES ASSUME x < Q PROVE m % Q = x
    OBVIOUS
  <2>1. m = x /\ x \in 0 .. Q - 1
    BY <1>1, <1>2
  <2> QED  BY <2>1, Near, Zenon
<1>6. Masked(x) = Reduced(m) /\ Cut(x) = m % Q
  BY DEF Masked, Cut, m
<1> QED  BY <1>3, <1>4, <1>5, <1>6

\* The logical operations: those of two shorts that are not negative are made on the shorts.
LEMMA LogicIs ==
  ASSUME NEW r \in Element, NEW a, NEW b, NEW x, NEW y, Stands(a, x), Stands(b, y)
  PROVE  /\ Stands(Fr_band(r, a, b), Cut(mpn_and(x, y)))
         /\ Stands(Fr_bor(r, a, b), Cut(mpn_ior(x, y)))
         /\ Stands(Fr_bxor(r, a, b), Cut(mpn_xor(x, y)))
         /\ Stands(Fr_bnot(r, a), Cut(Radix - 1 - x))
<1>0. /\ x \in Field /\ y \in Field /\ x \in Nat /\ y \in Nat /\ x < Q
      /\ plain(a) = x /\ plain(b) = y
      /\ ~ isLong(a) => a.shortVal % Q = x
      /\ ~ isLong(b) => b.shortVal % Q = y
      /\ a.shortVal \in SMin .. SMax /\ b.shortVal \in SMin .. SMax
  BY Operand, ElementIs, FieldIs
<1>1. mpn_and(x, y) \in Nat /\ mpn_ior(x, y) \in Nat /\ mpn_xor(x, y) \in Nat
  BY <1>0, Logical
<1>2. Stands(Fr_bnot(r, a), Cut(Radix - 1 - x))
  <2>1. (Radix - 1) - x \in Nat
    BY <1>0, Sizes
  <2>2. Fr_bnot(r, a) = Long(r, "long", Masked(Radix - 1 - x))
    BY <1>0 DEF Fr_bnot, rawNot
  <2> QED  BY <2>1, <2>2, CutIs, Results
<1>3. CASE bothShort(a, b)
  <2>1. a.shortVal = x /\ b.shortVal = y
    BY <1>0, <1>3, ShortResidue, Shorts DEF bothShort
  <2>2. x < H /\ y < H /\ H = 2^(S - 1)
    BY <1>0, <2>1, Shorts DEF H
  <2>3. S - 1 \in 0 .. N * W
    <3>1. S - 1 \in Nat /\ N * W \in Nat /\ H < Radix /\ Radix \in Nat /\ H \in Nat
      <4>1. \A i, j \in Nat : i * j \in Nat
        OBVIOUS
      <4> QED  BY <4>1, Sizes, Shorts
    <3>2. N * W < S - 1 => Radix < H
      BY <3>1, TwoExpMonotonic DEF Radix, H
    <3> DEFINE s == S - 1
               n == N * W
    <3>3. s \in Nat /\ n \in Nat /\ ~ (n < s)
      BY <3>1, <3>2
    <3> HIDE DEF s, n
    <3>4. s \in 0 .. n
      BY <3>3
    <3> QED  BY <3>4 DEF s, n
  <2>4. mpn_and(x, y) < H /\ mpn_ior(x, y) < H /\ mpn_xor(x, y) < H
    BY <1>0, <2>2, <2>3, Logical
  <2>5. ASSUME NEW m \in Nat, m < H PROVE Stands(Short(r, m), Cut(m))
    <3>1. m \in SMin .. SMax /\ m < Q /\ m \in 0 .. Q - 1
      BY <2>5, Shorts
    <3>2. Cut(m) = m /\ m % Q = m
      BY <3>1, CutIs, NearMod, Sizes
    <3> QED  BY <3>1, <3>2, Results
  <2>6. /\ Fr_band(r, a, b) = Short(r, mpn_and(x, y)) /\ Fr_bor(r, a, b) = Short(r, mpn_ior(x, y))
        /\ Fr_bxor(r, a, b) = Short(r, mpn_xor(x, y))
    BY <1>3, <2>1 DEF Fr_band, Fr_bor, Fr_bxor
  <2> QED  BY <1>1, <1>2, <2>4, <2>5, <2>6
<1>4. CASE ~ bothShort(a, b)
  <2>1. /\ Fr_band(r, a, b) = Long(r, "long", Masked(mpn_and(x, y)))
        /\ Fr_bor(r, a, b) = Long(r, "long", Masked(mpn_ior(x, y)))
        /\ Fr_bxor(r, a, b) = Long(r, "long", Masked(mpn_xor(x, y)))
    BY <1>0, <1>4 DEF Fr_band, Fr_bor, Fr_bxor, rawAnd, rawOr, rawXor
  <2> QED  BY <1>1, <1>2, <2>1, CutIs, Results
<1> QED  BY <1>3, <1>4

--------------------------------------------------------------------------------
\* Shifts.

\* The bits of the prime are fewer than half of it.
LEMMA FewBits == MaxBits - 1 <= half /\ MaxBits \in Nat \ {0}
<1>1. /\ MaxBits \in Nat \ {0} /\ 2^(MaxBits - 1) < Q /\ Q < 2^MaxBits /\ Q > 2 /\ Q \in Nat
      /\ 2^MaxBits = 2 * 2^(MaxBits - 1) /\ half \in Nat /\ Q = 2 * half + 1
      /\ 2^(MaxBits - 1) \in Nat
  BY Sizes, SignedIs
<1>2. CASE MaxBits = 1
  <2>1. MaxBits - 1 = 0
    BY <1>2
  <2> QED  BY <1>1, <2>1
<1>3. CASE MaxBits # 1
  <2> DEFINE m == MaxBits - 2
  <2>1. m \in Nat /\ MaxBits - 1 = m + 1
    BY <1>1, <1>3
  <2> HIDE DEF m
  <2>2. 2^(m + 1) = 2 * 2^m /\ m < 2^m /\ 2^m \in Nat
    BY <2>1, TwoExp, TwoExpAbove
  <2>3. 2 * 2^m < 2 * half + 1
    BY <1>1, <2>1, <2>2
  <2> QED  BY <1>1, <2>1, <2>2, <2>3
<1> QED  BY <1>1, <1>2, <1>3

\* The number of places is the signed integer, unless both shift everything out.
LEMMA PlacesAre ==
  ASSUME NEW b, NEW y, Stands(b, y)
  PROVE  /\ places(b) \in Int /\ Signed(y) \in Int
         /\ \/ places(b) = Signed(y)
            \/ /\ places(b) \notin -(MaxBits - 1) .. MaxBits - 1
               /\ Signed(y) \notin -(MaxBits - 1) .. MaxBits - 1
<1>0. /\ y \in Field /\ y \in Nat /\ y < Q /\ Q \in Nat /\ plain(b) = y /\ Signed(y) \in Int
      /\ ~ isLong(b) => b.shortVal = Signed(y)
      /\ half \in Nat /\ Q = 2 * half + 1 /\ MaxBits - 1 <= half /\ MaxBits \in Nat \ {0}
      /\ Signed(y) = IF y > half THEN y - Q ELSE y
      /\ Q <= Radix /\ Radix \in Nat
  BY Operand, FieldIs, Sizes, SignedIs, FewBits DEF Signed
<1> HIDE DEF MaxBits
<1>1. CASE ~ isLong(b)
  BY <1>0, <1>1 DEF places
<1>2. CASE isLong(b) /\ ~ (y >= MaxBits)
  <2>1. places(b) = y
    BY <1>0, <1>2 DEF places
  <2> QED  BY <1>0, <1>2, <2>1
<1>3. CASE isLong(b) /\ y >= MaxBits
  <2>1. rawSubRegular(Q, y) = Q - y
    <3>1. Q - y \in 0 .. Radix - 1
      BY <1>0, <1>3
    <3> QED  BY <3>1, Near, Zenon DEF rawSubRegular
  <2>2. places(b) = -(Q - y)
    BY <1>0, <1>3, <2>1 DEF places
  <2>3. CASE y > half
    BY <1>0, <2>2, <2>3
  <2>4. CASE ~ (y > half)
    <3>1. Signed(y) = y /\ -(Q - y) < -(MaxBits - 1)
      BY <1>0, <2>4
    <3> QED  BY <1>0, <1>3, <2>2, <3>1
  <2> QED  BY <2>3, <2>4
<1> QED  BY <1>1, <1>2, <1>3

\* A number that overflows the words loses nothing of the bits of the prime.
LEMMA CutOverflow == ASSUME NEW z \in Nat PROVE Cut(z % Radix) = Cut(z) /\ z % Radix \in Nat
<1> DEFINE M == 2^MaxBits
           j == z \div Radix
           u == z % Radix
           i == u \div M
           s == u % M
<1>0. M \in Nat \ {0} /\ Radix \in Nat \ {0} /\ Radix = 4 * M
  BY Sizes
<1> HIDE DEF M
<1>1. j \in Nat /\ u \in Nat /\ z = (Radix * j) + u
  BY <1>0, ModType, Zenon
<1> HIDE DEF j, u
<1>2. i \in Int /\ s \in 0 .. M - 1 /\ u = M * i + s
  BY <1>0, <1>1, DivMod
<1> HIDE DEF i, s
<1> DEFINE k == 4 * j + i
<1>3. k \in Int /\ z = (k * M) + s
  <2>1. k * M = 4 * M * j + M * i
    BY <1>0, <1>1, <1>2
  <2>2. 4 * M * j \in Int /\ M * i \in Int /\ Radix * j = 4 * M * j
    BY <1>0, <1>1, <1>2
  <2> QED  BY <1>0, <1>1, <1>2, <2>1, <2>2
<1> HIDE DEF k
<1>4. z % M = s
  BY <1>0, <1>2, <1>3, Quotient, Zenon
<1>5. u % M = s
  BY DEF s
<1> QED  BY <1>1, <1>4, <1>5 DEF Cut, M, u

\* Shifts of a number by a number of places.
LEMMA ShiftFacts ==
  ASSUME NEW x \in Nat, NEW k \in Nat
  PROVE  /\ x * 2^k \in Nat /\ 2^k \in Nat \ {0} /\ x \div 2^k \in Nat /\ x \div 2^k <= x
         /\ x < 2^k => x \div 2^k = 0
         /\ k = 0 => x \div 2^k = x /\ x * 2^k = x
<1> DEFINE p == 2^k
           d == x \div p
<1>1. p \in Nat \ {0} /\ (k = 0 => p = 1)
  <2>1. 2^0 = 1
    OBVIOUS
  <2> QED  BY <2>1, TwoExp
<1> HIDE DEF p
<1>2. d \in Nat /\ x = (p * d) + (x % p) /\ x % p \in Nat
  BY <1>1, ModType
<1>3. x < p => d = 0
  <2> SUFFICES ASSUME x < p PROVE d = 0
    OBVIOUS
  <2>1. x = (0 * p) + x /\ x \in 0 .. p - 1 /\ 0 \in Int /\ p \in Nat
    BY <1>1
  <2> QED  BY <2>1, Quotient, Zenon
<1>4. p = 1 => d = x /\ x * p = x
  OBVIOUS
<1> DEFINE m == x % p
<1>5. d <= x
  <2>1. \A u \in Nat \ {0} : \A v \in Nat : v <= u * v /\ u * v \in Nat
    OBVIOUS
  <2> HIDE DEF d, m
  <2>2. d <= p * d /\ p * d \in Nat
    BY <1>1, <1>2, <2>1
  <2> QED  BY <1>1, <1>2, <2>2 DEF m
<1>6. x * p \in Nat
  BY <1>1
<1> QED  BY <1>1, <1>2, <1>3, <1>4, <1>5, <1>6 DEF p

\* To the left and to the right by a number of places below MaxBits.
LEMMA ShiftsBy ==
  ASSUME NEW r \in Element, NEW a, NEW x, Stands(a, x), NEW k \in 0 .. MaxBits - 1
  PROVE  /\ Stands(do_shl(r, a, k), Cut(x * 2^k)) /\ Stands(do_shr(r, a, k), x \div 2^k)
         /\ k = 0 => x \div 2^k = Cut(x * 2^k)
<1>0. /\ x \in Field /\ x \in Nat /\ x < Q /\ k \in Nat /\ plain(a) = x
      /\ ~ isLong(a) => a.shortVal % Q = x
      /\ a.shortVal \in SMin .. SMax /\ a.shortVal \in Int /\ Q \in Nat /\ ~ (k >= MaxBits)
  <2>1. MaxBits \in Nat
    BY FewBits
  <2>2. k \in Nat /\ ~ (k >= MaxBits)
    <3> HIDE DEF MaxBits
    <3> QED  BY <2>1
  <2> QED  BY <2>2, Operand, ElementIs, FieldIs, Sizes
<1> HIDE DEF MaxBits
<1>1. /\ x * 2^k \in Nat /\ 2^k \in Nat \ {0} /\ x \div 2^k \in Nat /\ x \div 2^k <= x
      /\ x < 2^k => x \div 2^k = 0
      /\ k = 0 => x \div 2^k = x /\ x * 2^k = x
  BY <1>0, ShiftFacts
<1> DEFINE u == x * 2^k
           d == x \div 2^k
<1>2. Cut(u) \in Field /\ d \in Field /\ (u < Q => Cut(u) = u) /\ Cut(u % Radix) = Cut(u)
      /\ rawShl(x, k) = Cut(u) /\ rawShr(x, k) = d
  <2>1. u \in Nat /\ d \in Nat /\ d < Q
    <3> HIDE DEF u
    <3>1. d \in Nat /\ d <= x
      BY <1>1
    <3> HIDE DEF d
    <3> QED  BY <1>0, <1>1, <3>1 DEF u
  <2>2. d \in Field
    BY <2>1, FieldIs
  <2>3. rawShl(x, k) = Masked(u % Radix) /\ rawShr(x, k) = d
    BY DEF rawShl, rawShr
  <2> HIDE DEF u, d
  <2> QED  BY <2>1, <2>2, <2>3, CutIs, CutOverflow
<1>3. k = 0 => d = x /\ Cut(u) = x
  BY <1>0, <1>1, <1>2
<1> HIDE DEF u, d
<1>4. ASSUME NEW s \in SMin .. SMax, s >= 0 PROVE Stands(Short(r, s), s) /\ Cut(s) = s
  <2>1. s % Q = s /\ s \in Nat /\ s < Q
    BY <1>4, Shorts, ShortResidue
  <2>2. Stands(Short(r, s), s % Q)
    BY Results
  <2> QED  BY <2>1, <2>2, CutIs
<1>5. wrapped(x, k, Cut(u)) = Cut(u) /\ wrapped(x, k, d) = d
  BY <1>0, <1>3 DEF wrapped
<1>6. Stands(do_shl(r, a, k), Cut(u))
  <2> DEFINE fits == a.shortVal > 0 /\ k < S - 1 /\ a.shortVal * 2^k <= SMax
  <2>1. do_shl(r, a, k) =
          CASE ~ isLong(a) /\ a.shortVal = 0 -> Short(r, 0)
            [] ~ isLong(a) /\ fits           -> Short(r, a.shortVal * 2^k)
            [] OTHER                         -> Long(r, "long", wrapped(x, k, rawShl(x, k)))
    BY <1>0 DEF do_shl
  <2>2. CASE ~ isLong(a) /\ a.shortVal = 0
    <3>1. x = 0
      BY <1>0, <2>2, ShortResidue
    <3>2. u = 0 /\ 0 \in SMin .. SMax
      BY <1>1, <3>1, Shorts DEF u
    <3>3. ~ fits
      BY <2>2
    <3>4. do_shl(r, a, k) = Short(r, 0)
      BY <2>1, <2>2, <3>3
    <3> QED  BY <1>4, <3>2, <3>4
  <2>3. CASE ~ isLong(a) /\ fits
    <3>1. a.shortVal = x /\ a.shortVal # 0
      BY <1>0, <2>3, ShortResidue
    <3>2. do_shl(r, a, k) = Short(r, u)
      BY <2>1, <2>3, <3>1 DEF u
    <3>3. u \in SMin .. SMax /\ u >= 0
      BY <1>1, <2>3, <3>1, Shorts DEF u
    <3> QED  BY <1>4, <3>2, <3>3
  <2>4. CASE ~ (~ isLong(a) /\ a.shortVal = 0) /\ ~ (~ isLong(a) /\ fits)
    <3>1. do_shl(r, a, k) = Long(r, "long", Cut(u))
      BY <1>2, <1>5, <2>1, <2>4
    <3> QED  BY <1>2, <3>1, Results
  <2> QED  BY <2>2, <2>3, <2>4
<1>7. Stands(do_shr(r, a, k), d)
  <2>1. CASE isLong(a) \/ a.shortVal < 0
    <3>1. do_shr(r, a, k) = Long(r, "long", d)
      BY <1>0, <1>2, <1>5, <2>1 DEF do_shr
    <3> QED  BY <1>2, <3>1, Results
  <2>2. CASE ~ (isLong(a) \/ a.shortVal < 0)
    <3>1. a.shortVal = x /\ x <= SMax
      BY <1>0, <2>2, ShortResidue, Shorts
    <3>2. do_shr(r, a, k) = Short(r, IF k >= S - 1 THEN 0 ELSE d)
      BY <2>2, <3>1 DEF do_shr, d
    <3>3. CASE k >= S - 1
      <4>1. x < 2^k
        <5>1. S - 1 \in Nat /\ k \in Nat /\ H \in Nat /\ x < H /\ H = 2^(S - 1) /\ 2^k \in Nat
          BY <1>0, <1>1, <3>1, Shorts DEF H
        <5>2. S - 1 < k => H < 2^k
          BY <5>1, TwoExpMonotonic
        <5>3. S - 1 = k => H = 2^k
          BY <5>1
        <5> DEFINE s == S - 1
        <5>4. s \in Nat /\ k \in Nat /\ k >= s
          BY <1>0, <3>3, <5>1
        <5>5. s < k \/ s = k
          <6> HIDE DEF s
          <6> QED  BY <5>4
        <5> QED  BY <1>0, <5>1, <5>2, <5>3, <5>5
      <4>2. d = 0 /\ 0 \in SMin .. SMax
        BY <1>1, <4>1, Shorts DEF d
      <4> QED  BY <1>4, <3>2, <3>3, <4>2
    <3>4. CASE ~ (k >= S - 1)
      <4>1. d \in SMin .. SMax /\ d >= 0
        BY <1>0, <1>1, <3>1, Shorts DEF d
      <4> QED  BY <1>4, <3>2, <3>4, <4>1
    <3> QED  BY <3>3, <3>4
  <2> QED  BY <2>1, <2>2
<1> QED  BY <1>3, <1>6, <1>7 DEF u, d

\* The shifts, by a number of places that is an element as well.
LEMMA ShiftsAre ==
  ASSUME NEW r \in Element, NEW a, NEW b, NEW x, NEW y, Stands(a, x), Stands(b, y)
  PROVE  /\ Stands(Fr_shl(r, a, b), Shifted(x, Signed(y)))
         /\ Stands(Fr_shr(r, a, b), Shifted(x, -Signed(y)))
<1> DEFINE k == places(b)
           s == Signed(y)
<1>0. MaxBits \in Nat \ {0}
  BY FewBits
<1>1. /\ k \in Int /\ s \in Int
      /\ \/ k = s
         \/ k \notin -(MaxBits - 1) .. MaxBits - 1 /\ s \notin -(MaxBits - 1) .. MaxBits - 1
  BY PlacesAre
<1>2. /\ Fr_shl(r, a, b) = CASE k \in 0 .. MaxBits - 1  -> do_shl(r, a, k)
                             [] -k \in 1 .. MaxBits - 1 -> do_shr(r, a, -k)
                             [] OTHER                   -> Short(r, 0)
      /\ Fr_shr(r, a, b) = CASE k \in 0 .. MaxBits - 1  -> do_shr(r, a, k)
                             [] -k \in 1 .. MaxBits - 1 -> do_shl(r, a, -k)
                             [] OTHER                   -> Short(r, 0)
  BY DEF Fr_shl, Fr_shr
<1> HIDE DEF k, s, MaxBits
<1>3. CASE k = s /\ s \in 1 .. MaxBits - 1
  <2>1. /\ s \in 0 .. MaxBits - 1 /\ ~ (-s \in 1 .. MaxBits - 1) /\ ~ (-s \in 0 .. MaxBits - 1)
        /\ -(-s) = s
    BY <1>0, <1>1, <1>3
  <2>2. Shifted(x, s) = Cut(x * 2^s) /\ Shifted(x, -s) = x \div 2^s
    BY <1>3, <2>1 DEF Shifted
  <2>3. Fr_shl(r, a, b) = do_shl(r, a, s) /\ Fr_shr(r, a, b) = do_shr(r, a, s)
    BY <1>2, <1>3, <2>1
  <2> QED  BY <2>1, <2>2, <2>3, ShiftsBy DEF s
<1>4. CASE k = s /\ -s \in 1 .. MaxBits - 1
  <2>1. /\ -s \in 0 .. MaxBits - 1 /\ ~ (s \in 0 .. MaxBits - 1) /\ ~ (-(-s) \in 1 .. MaxBits - 1)
    BY <1>0, <1>1, <1>4
  <2>2. Shifted(x, -s) = Cut(x * 2^(-s)) /\ Shifted(x, s) = x \div 2^(-s)
    BY <1>4, <2>1 DEF Shifted
  <2>3. Fr_shl(r, a, b) = do_shr(r, a, -s) /\ Fr_shr(r, a, b) = do_shl(r, a, -s)
    BY <1>2, <1>4, <2>1
  <2> QED  BY <2>1, <2>2, <2>3, ShiftsBy DEF s
<1>5. CASE k = s /\ s = 0
  <2>1. 0 \in 0 .. MaxBits - 1 /\ ~ (-0 \in 1 .. MaxBits - 1) /\ -0 = 0
    <3>1. 0 \in 0 .. MaxBits - 1 /\ ~ (0 \in 1 .. MaxBits - 1)
      BY <1>0
    <3>2. -0 = 0
      <4>1. \A z \in Int : -z = 0 - z
        OBVIOUS
      <4>2. 0 \in Int /\ 0 - 0 = 0
        OBVIOUS
      <4> QED  BY <4>1, <4>2, Zenon
    <3> QED  BY <3>1, <3>2, Zenon
  <2>2. Shifted(x, 0) = Cut(x * 2^0)
    BY <2>1 DEF Shifted
  <2>3. Fr_shl(r, a, b) = do_shl(r, a, 0) /\ Fr_shr(r, a, b) = do_shr(r, a, 0)
    BY <1>2, <1>5, <2>1
  <2>4. /\ Stands(do_shl(r, a, 0), Cut(x * 2^0)) /\ Stands(do_shr(r, a, 0), x \div 2^0)
        /\ x \div 2^0 = Cut(x * 2^0)
    BY <2>1, ShiftsBy
  <2>5. Signed(y) = 0 /\ -Signed(y) = 0
    BY <1>5, <2>1 DEF s
  <2> QED  BY <2>2, <2>3, <2>4, <2>5
<1>6. CASE k \notin -(MaxBits - 1) .. MaxBits - 1 /\ s \notin -(MaxBits - 1) .. MaxBits - 1
  <2>1. /\ ~ (k \in 0 .. MaxBits - 1) /\ ~ (-k \in 1 .. MaxBits - 1)
        /\ ~ (s \in 0 .. MaxBits - 1) /\ ~ (-s \in 1 .. MaxBits - 1)
        /\ ~ (-s \in 0 .. MaxBits - 1) /\ ~ (-(-s) \in 1 .. MaxBits - 1)
    BY <1>0, <1>1, <1>6
  <2>2. Shifted(x, s) = 0 /\ Shifted(x, -s) = 0
    BY <2>1 DEF Shifted
  <2>3. Fr_shl(r, a, b) = Short(r, 0) /\ Fr_shr(r, a, b) = Short(r, 0)
    BY <1>2, <2>1
  <2>4. Stands(Short(r, 0), 0)
    <3>1. 0 \in SMin .. SMax /\ 0 % Q = 0
      BY Shorts, FieldIs, FieldResidue
    <3> QED  BY <3>1, Results
  <2> QED  BY <2>2, <2>3, <2>4 DEF s
<1>7. k = s => s \in 1 .. MaxBits - 1 \/ -s \in 1 .. MaxBits - 1 \/ s = 0
               \/ s \notin -(MaxBits - 1) .. MaxBits - 1
  BY <1>0, <1>1
<1> QED  BY <1>1, <1>3, <1>4, <1>5, <1>6, <1>7

--------------------------------------------------------------------------------
\* The engine's operations.

\* A signed integer, and the quotient.
LEMMA EngineIs ==
  ASSUME NEW x \in Field, NEW y \in Field
  PROVE  /\ RawFr_set(Signed(y)) = Mul(y, R1) /\ RawFr_set(1) = Mul(1, R1)
         /\ y # 0 => RawFr_div(Mul(x, R1), Mul(y, R1)) = Mul(Mul(x, Inv(y)), R1)
<1>0. x \in Int /\ y \in Int /\ R1 \in Int /\ R2 \in Int /\ R3 \in Int /\ Mul(y, R1) \in Field /\ Mul(y, R1) \in Int
  BY FieldResidue, RIs, MulType
<1>1. RawFr_set(Signed(y)) = Mul(y, R1)
  <2>1. /\ y \in Nat /\ y < Q /\ Q \in Nat /\ half \in Nat
        /\ Signed(y) = IF y > half THEN y - Q ELSE y
    BY FieldIs, SignedIs, Sizes DEF Signed
  <2>2. (IF Signed(y) < 0 THEN Signed(y) + Q ELSE Signed(y)) = y
    BY <2>1
  <2>3. RawFr_set(Signed(y)) = rawMMul(y, R2)
    BY <2>2 DEF RawFr_set, rawToMontgomery
  <2> QED  BY <2>3, MontgomeryForms
<1>2. RawFr_set(1) = Mul(1, R1)
  <2>1. RawFr_set(1) = rawMMul(1, R2)
    BY DEF RawFr_set, rawToMontgomery
  <2> QED  BY <2>1, MontgomeryForms, FieldIs
<1>3. ASSUME y # 0 PROVE RawFr_div(Mul(x, R1), Mul(y, R1)) = Mul(Mul(x, Inv(y)), R1)
  <2> DEFINE u == Mul(y, R1)
             i == Inv(u)
             m == rawMMul(i, R3)
  <2>1. u # 0
    BY <1>3, RIs, ZeroProduct
  <2>2. i \in Field /\ i \in Int /\ Mul(u, i) = 1
    BY <1>0, <2>1, UnitInverse, FieldResidue
  <2>3. Inv(y) = Mul(R1, i) /\ Inv(y) \in Field /\ Inv(y) \in Int
    <3> HIDE DEF i
    <3>1. Mul(y, Mul(R1, i)) = Mul(u, i)
      BY <1>0, <2>2, MulAssoc
    <3>2. Mul(R1, i) \in Field /\ Mul(R1, i) \in Int
      BY <1>0, <2>2, MulType
    <3> QED  BY <1>0, <2>2, <3>1, <3>2, InvUnique
  <2>4. Mul(i, R3) = Mul(Mul(Inv(y), R1), R1)
    <3> HIDE DEF i
    <3>1. Mul(i, R3) = Mul(Mul(i, R2), R1)
      BY <1>0, <2>2, RIs, MulSwap
    <3>2. Mul(i, R2) = Mul(Mul(i, R1), R1)
      BY <1>0, <2>2, RIs, MulSwap
    <3>3. Mul(i, R1) = Inv(y)
      BY <1>0, <2>2, <2>3, MulCommutes
    <3> QED  BY <3>1, <3>2, <3>3
  <2>5. m \in Field /\ Mul(m, R1) = Mul(i, R3)
    BY <2>2, RIs, Montgomery
  <2> HIDE DEF i, m
  <2>6. m = Mul(Inv(y), R1)
    <3>1. Mul(Inv(y), R1) \in Field
      BY <1>0, <2>3, MulType
    <3> QED  BY <2>4, <2>5, <3>1, CancelR
  <2>7. RawFr_div(Mul(x, R1), u) = rawMMul(Mul(x, R1), m)
    BY DEF RawFr_div, RawFr_inv, m, i
  <2> QED  BY <2>3, <2>6, <2>7, MontgomeryForms
<1> QED  BY <1>1, <1>2, <1>3

\* The highest bit of a number.
LEMMA HighestBit ==
  ASSUME NEW k \in Nat \ {0}
  PROVE  \E t \in 0 .. k : 2^t <= k /\ k < 2^(t + 1)
<1> DEFINE T == {i \in Nat : k < 2^(i + 1)}
<1>1. k \in T
  <2>1. k < 2^k /\ 2^(k + 1) = 2 * 2^k /\ 2^k \in Nat
    BY TwoExpAbove, TwoExp
  <2> QED  BY <2>1
<1>2. PICK t \in T : \A j \in T : t <= j
  <2>1. T \subseteq Nat /\ T # {}
    BY <1>1
  <2> HIDE DEF T
  <2> QED  BY <2>1, Least
<1>3. t \in 0 .. k
  BY <1>1, <1>2
<1>4. 2^t <= k
  <2>1. CASE t = 0
    <3>1. 2^0 = 1
      OBVIOUS
    <3> QED  BY <2>1, <3>1
  <2>2. CASE t # 0
    <3>1. t - 1 \in Nat /\ t - 1 \notin T /\ (t - 1) + 1 = t /\ 2^t \in Nat
      BY <1>2, <2>2, TwoExp
    <3> QED  BY <3>1
  <2> QED  BY <2>1, <2>2
<1> QED  BY <1>2, <1>3, <1>4

\* The bits of a number from the i-th up are twice those from the next up, and the i-th.
LEMMA UpperBits ==
  ASSUME NEW k \in Nat, NEW i \in Nat
  PROVE  /\ k \div 2^i \in Nat /\ k \div 2^(i + 1) \in Nat /\ bit(k, i) \in {0, 1}
         /\ k \div 2^i = ((k \div 2^(i + 1)) + (k \div 2^(i + 1))) + bit(k, i)
<1> DEFINE p == 2^i
           d == k \div p
           m == k % p
           e == d \div 2
           c == d % 2
<1>1. p \in Nat \ {0} /\ 2^(i + 1) = 2 * p
  BY TwoExp
<1> HIDE DEF p
<1>2. d \in Nat /\ m \in 0 .. p - 1 /\ k = (p * d) + m
  BY <1>1, ModType, Zenon
<1> HIDE DEF d, m
<1>3. e \in Nat /\ c \in {0, 1} /\ d = (e + e) + c
  BY <1>2, Halves
<1> HIDE DEF e, c
<1>4. k = (e * (2 * p)) + (p * c + m) /\ p * c + m \in 0 .. 2 * p - 1 /\ 2 * p \in Nat /\ e \in Int
  <2>1. p * d = e * (2 * p) + p * c
    BY <1>1, <1>3
  <2>2. p * c \in {0, p} /\ e * (2 * p) \in Nat
    BY <1>1, <1>3
  <2> QED  BY <1>1, <1>2, <1>3, <2>1, <2>2
<1> DEFINE s == p * c + m
           w == 2 * p
<1>5. k = (e * w) + s /\ s \in 0 .. w - 1 /\ w \in Nat /\ e \in Int
  BY <1>4
<1> HIDE DEF s, w
<1>6. k \div w = e
  BY <1>5, Quotient, Zenon
<1>7. k \div 2^(i + 1) = e /\ k \div 2^i = d /\ bit(k, i) = c
  BY <1>1, <1>6 DEF w, d, p, c, bit
<1> QED  BY <1>2, <1>3, <1>7

\* The exponentiation from the highest bit down, as a recursive function.
ExpAt(x, k, t, r, i) ==
  IF i = t THEN x
  ELSE IF bit(k, i) = 1 THEN rawMMul(rawMMul(r[i + 1], r[i + 1]), x)
       ELSE rawMMul(r[i + 1], r[i + 1])
AreExps(x, k, t, r) == r = [i \in 0 .. t |-> ExpAt(x, k, t, r, i)]
HighBit(k) == CHOOSE i \in 0 .. k : 2^i <= k /\ k < 2^(i + 1)

LEMMA ExpUnfold ==
  \A x, k : RawFr_exp(x, k) = IF k = 0 THEN RawFr_set(1)
                              ELSE (CHOOSE r : AreExps(x, k, HighBit(k), r))[0]
BY Zenon DEF RawFr_exp, AreExps, ExpAt, HighBit

\* The exponentiation: after the bits from i up it holds the power with the exponent they spell.
LEMMA ExpIs ==
  ASSUME NEW x \in Field, NEW k \in Nat
  PROVE  RawFr_exp(Mul(x, R1), k) = Mul(Pow(x, k), R1)
<1>0. x \in Int /\ R1 \in Int /\ Mul(x, R1) \in Field
  BY FieldResidue, RIs, MulType
<1>1. CASE k = 0
  <2>1. RawFr_exp(Mul(x, R1), k) = RawFr_set(1) /\ Pow(x, 0) = 1
    BY <1>0, <1>1, ExpUnfold, PowFacts
  <2> QED  BY <1>0, <1>1, <2>1, EngineIs
<1>2. CASE k # 0
  <2> DEFINE u == Mul(x, R1)
             t == HighBit(k)
             e(i) == Pow(x, k \div 2^i)
             f == [i \in 0 .. t |-> Mul(e(i), R1)]
             r == CHOOSE g : AreExps(u, k, t, g)
  <2>1. t \in 0 .. k /\ t \in Nat /\ 2^t <= k /\ k < 2^(t + 1)
    <3>1. k \in Nat \ {0}
      BY <1>2
    <3>2. \E i \in 0 .. k : 2^i <= k /\ k < 2^(i + 1)
      BY <3>1, HighestBit
    <3>3. t \in 0 .. k /\ 2^t <= k /\ k < 2^(t + 1)
      BY <3>2 DEF HighBit
    <3> HIDE DEF t
    <3> QED  BY <3>3
  <2> HIDE DEF t
  <2>2. \A i \in Nat : e(i) \in Field /\ e(i) \in Int
    BY <1>0, UpperBits, PowFacts
  <2>3. e(t) = x
    <3> DEFINE p == 2^t
    <3>1. p \in Nat \ {0} /\ 2^(t + 1) = 2 * p
      BY <2>1, TwoExp
    <3>2. k = (1 * p) + (k - p) /\ k - p \in 0 .. p - 1 /\ 1 \in Int /\ p \in Nat
      BY <2>1, <3>1
    <3>3. k \div p = 1
      <4> HIDE DEF p
      <4> QED  BY <3>2, Quotient, Zenon
    <3>4. Pow(x, 0 + 1) = Mul(Pow(x, 0), x) /\ Pow(x, 0) = 1 /\ 0 + 1 = 1
      BY <1>0, PowFacts
    <3> QED  BY <3>3, <3>4, MulOne
  <2>4. ASSUME NEW i \in 0 .. t, NEW g, i # t => g[i + 1] = Mul(e(i + 1), R1)
        PROVE  ExpAt(u, k, t, g, i) = Mul(e(i), R1)
    <3>1. i \in Nat /\ i + 1 \in Nat
      BY <2>1
    <3>2. CASE i = t
      BY <2>3, <3>2 DEF ExpAt
    <3>3. CASE i # t
      <4> DEFINE h == k \div 2^(i + 1)
                 d == k \div 2^i
                 c == bit(k, i)
                 P == Pow(x, h)
                 sq == rawMMul(g[i + 1], g[i + 1])
      <4>1. h \in Nat /\ c \in {0, 1} /\ d = (h + h) + c /\ h + h \in Nat
        <5>1. h \in Nat /\ c \in {0, 1} /\ d = (h + h) + c
          BY <3>1, UpperBits, Zenon
        <5> HIDE DEF h, d, c
        <5> QED  BY <5>1
      <4> HIDE DEF h, d, c
      <4>2. P \in Field /\ Pow(x, h + h) = Mul(P, P) /\ Pow(x, h + h) \in Field
            /\ Pow(x, (h + h) + 1) = Mul(Pow(x, h + h), x)
        <5>1. \A j \in Nat : Pow(x, j) \in Field /\ Pow(x, j + 1) = Mul(Pow(x, j), x)
          BY <1>0, PowFacts
        <5>2. Pow(x, h + h) = Mul(Pow(x, h), Pow(x, h))
          BY <1>0, <4>1, PowFacts
        <5> QED  BY <4>1, <5>1, <5>2
      <4>3. g[i + 1] = Mul(P, R1)
        BY <2>4, <3>3 DEF h
      <4> HIDE DEF P
      <4>4. sq = Mul(Pow(x, h + h), R1)
        BY <4>2, <4>3, MontgomeryForms
      <4>5. ExpAt(u, k, t, g, i) = IF c = 1 THEN rawMMul(sq, u) ELSE sq
        BY <3>3 DEF ExpAt, c
      <4> HIDE DEF sq
      <4>6. CASE c = 0
        <5>1. d = h + h
          BY <4>1, <4>6
        <5> QED  BY <4>4, <4>5, <4>6, <5>1 DEF d
      <4>7. CASE c = 1
        <5>1. d = (h + h) + 1
          BY <4>1, <4>7
        <5>2. rawMMul(sq, u) = Mul(Mul(Pow(x, h + h), x), R1)
          BY <4>2, <4>4, MontgomeryForms
        <5> QED  BY <4>2, <4>5, <4>7, <5>1, <5>2 DEF d
      <4> QED  BY <4>1, <4>6, <4>7
    <3> QED  BY <3>2, <3>3
  <2>5. AreExps(u, k, t, f)
    <3> DEFINE g == [i \in 0 .. t |-> ExpAt(u, k, t, f, i)]
    <3>1. ASSUME NEW i \in 0 .. t PROVE f[i] = g[i]
      <4>1. i # t => f[i + 1] = Mul(e(i + 1), R1)
        BY <2>1
      <4>2. f[i] = Mul(e(i), R1)
        OBVIOUS
      <4> HIDE DEF f, e, u
      <4>3. ExpAt(u, k, t, f, i) = Mul(e(i), R1)
        BY <2>4, <4>1
      <4> QED  BY <4>2, <4>3
    <3>2. DOMAIN f = 0 .. t /\ f = [i \in 0 .. t |-> f[i]]
      OBVIOUS
    <3> HIDE DEF f
    <3>3. f = g
      BY <3>1, <3>2
    <3> QED  BY <3>3 DEF AreExps
  <2>6. AreExps(u, k, t, r)
    <3> HIDE DEF f, u
    <3> QED  BY <2>5
  <2>7. RawFr_exp(u, k) = r[0]
    BY <1>2, ExpUnfold DEF t
  <2> HIDE DEF r, u, f
  <2> DEFINE D == {j \in Nat : j <= t => r[t - j] = Mul(e(t - j), R1)}
  <2>8. \A i \in 0 .. t : r[i] = ExpAt(u, k, t, r, i)
    <3> DEFINE g == [i \in 0 .. t |-> ExpAt(u, k, t, r, i)]
    <3>1. \A i \in 0 .. t : g[i] = ExpAt(u, k, t, r, i)
      OBVIOUS
    <3>2. r = g
      BY <2>6 DEF AreExps
    <3> HIDE DEF g
    <3> QED  BY <3>1, <3>2
  <2> HIDE DEF e
  <2>9. ASSUME NEW j \in Nat, j <= t, j # 0 => r[(t - j) + 1] = Mul(e((t - j) + 1), R1)
        PROVE  r[t - j] = Mul(e(t - j), R1)
    <3> DEFINE i == t - j
    <3>1. i \in 0 .. t /\ (i # t => j # 0)
      BY <2>1, <2>9
    <3> HIDE DEF i
    <3>2. i # t => r[i + 1] = Mul(e(i + 1), R1)
      BY <2>9, <3>1 DEF i
    <3>3. r[i] = Mul(e(i), R1)
      BY <2>4, <2>8, <3>1, <3>2
    <3> QED  BY <3>3 DEF i
  <2>10. 0 \in D
    BY <2>1, <2>9
  <2>11. ASSUME NEW j \in Nat, j \in D PROVE j + 1 \in D
    <3> SUFFICES ASSUME j + 1 <= t PROVE r[t - (j + 1)] = Mul(e(t - (j + 1)), R1)
      OBVIOUS
    <3>1. (t - (j + 1)) + 1 = t - j /\ j <= t /\ j + 1 \in Nat
      BY <2>1
    <3>2. r[t - j] = Mul(e(t - j), R1)
      BY <2>11, <3>1
    <3> QED  BY <2>9, <3>1, <3>2
  <2>12. t \in D
    <3> HIDE DEF D
    <3>1. \A j \in Nat : j \in D
      BY <2>10, <2>11, Induction
    <3> QED  BY <2>1, <3>1
  <2>13. r[0] = Mul(e(0), R1)
    <3>1. t - t = 0
      BY <2>1
    <3> QED  BY <2>1, <2>12, <3>1
  <2>14. e(0) = Pow(x, k)
    <3>1. k \div 2^0 = k
      BY ShiftFacts
    <3> QED  BY <3>1 DEF e
  <2> QED  BY <2>7, <2>13, <2>14 DEF u
<1> QED  BY <1>1, <1>2

--------------------------------------------------------------------------------
\* The calculator.

\* The inductive invariant: the parts that the type of the accumulator has stand for val.
\* The short part of a short in Montgomery form is not among them.
IInv == IsValue(acc, val)

\* From the Montgomery form back.
LEMMA FromMont == \A x \in Field : fromMont[Mul(x, R1)] = x
<1> SUFFICES ASSUME NEW x \in Field PROVE fromMont[Mul(x, R1)] = x
  OBVIOUS
<1>1. x \in Int /\ R1 \in Int /\ Mul(x, R1) \in Field
  BY FieldResidue, RIs, MulType
<1>2. Inv(R1) \in Field /\ Inv(R1) \in Int /\ Mul(R1, Inv(R1)) = 1
  BY RIs, UnitInverse, FieldResidue
<1>3. Mul(Mul(x, R1), Inv(R1)) = Mul(x, Mul(R1, Inv(R1)))
  BY <1>1, <1>2, MulAssoc
<1>4. fromMont[Mul(x, R1)] = Mul(Mul(x, R1), Inv(R1))
  BY <1>1 DEF fromMont
<1> QED  BY <1>2, <1>3, <1>4, MulOne

\* An object full of junk is an element.
LEMMA JunkIs == Junk \in Element
<1>1. Q - 1 \in Raw /\ SMin \in SMin .. SMax
  BY Sizes, Shorts DEF Raw
<1> QED  BY <1>1 DEF Junk, Element

\* An operand stands for its value.
LEMMA OperandsStand == \A b \in Operands : Stands(b.elem, b.val)
<1> SUFFICES ASSUME NEW v \in Values, NEW t \in Forms(v) PROVE Stands(Make(t, v), v)
  BY DEF Operands
<1> DEFINE s == IF t \in {"short", "smont"} THEN Signed(v) ELSE SMin
           l == CASE t = "short" -> Q - 1
                  [] t = "long"  -> v
                  [] OTHER       -> Mul(v, R1)
           e == Make(t, v)
<1>1. v \in Field /\ v \in Int /\ Mul(v, R1) \in Field /\ Q - 1 \in Field
  <2>1. v \in Field
    BY ValuesAssumption
  <2>2. Q - 1 \in Field
    BY Sizes, FieldIs
  <2> QED  BY <2>1, <2>2, FieldResidue, RIs, MulType
<1>2. /\ t \in {"short", "smont", "long", "lmont"}
      /\ t \in {"short", "smont"} => Signed(v) \in SMin .. SMax
  BY DEF Forms, Fits
<1>3. e = [type |-> t, shortVal |-> s, longVal |-> l]
  BY DEF Make, Junk
<1>4. s \in SMin .. SMax
  BY <1>2, Shorts
<1>5. l \in Raw /\ (t = "long" => l = v) /\ (t \in {"smont", "lmont"} => l = Mul(v, R1))
  <2>1. CASE t = "short"
    BY <1>1, <2>1, FieldIs
  <2>2. CASE t = "long"
    BY <1>1, <2>2, FieldIs
  <2>3. CASE t # "short" /\ t # "long"
    BY <1>1, <2>3, FieldIs
  <2> QED  BY <2>1, <2>2, <2>3
<1>6. t \in {"short", "smont"} => s % Q = v
  BY <1>1, SignedIs
<1> HIDE DEF s, l, e
<1>7. e \in Element /\ e.type = t /\ e.shortVal = s /\ e.longVal = l
  BY <1>2, <1>3, <1>4, <1>5 DEF Element
<1>8. Stands(e, v)
  BY <1>1, <1>5, <1>6, <1>7 DEF Stands, IsValue, isMont
<1> QED  BY <1>8 DEF e

\* The parts of an element in sync stand for its value.
LEMMA InSyncIs ==
  ASSUME NEW e, NEW x, IsValue(e, x)
  PROVE  /\ InSync(e) => Stands(e, x)
         /\ isLong(e) \/ isMont(e) => longPart(e) = x /\ e.longVal \in Field
         /\ ~ isLong(e) /\ InSync(e) => shortPart(e) = x
<1>0. x \in Field /\ Mul(x, R1) \in Field /\ e.type \in {"short", "smont", "long", "lmont"}
  BY MontgomeryForms, ElementIs DEF IsValue
<1>1. isLong(e) \/ isMont(e) => longPart(e) = x /\ e.longVal \in Field
  <2>1. CASE isMont(e)
    <3>1. e.longVal = Mul(x, R1) /\ longPart(e) = fromMont[e.longVal]
      BY <2>1 DEF IsValue, longPart
    <3> QED  BY <1>0, <3>1, FromMont
  <2>2. CASE ~ isMont(e) /\ isLong(e)
    BY <1>0, <2>2 DEF IsValue, longPart, isMont, isLong
  <2> QED  BY <2>1, <2>2
<1>2. InSync(e) => Stands(e, x)
  <2> SUFFICES ASSUME InSync(e), e.type = "smont" PROVE e.shortVal % Q = x
    BY DEF Stands
  <2>1. shortPart(e) = longPart(e) /\ longPart(e) = x
    BY <1>1 DEF InSync, isMont
  <2> QED  BY <2>1 DEF shortPart
<1>3. ~ isLong(e) /\ InSync(e) => shortPart(e) = x
  <2> SUFFICES ASSUME ~ isLong(e), InSync(e) PROVE shortPart(e) = x
    OBVIOUS
  <2>1. Stands(e, x)
    BY <1>2
  <2> QED  BY <1>0, <2>1 DEF Stands, IsValue, isLong, shortPart
<1> QED  BY <1>1, <1>2, <1>3

\* The operations on two elements.
LEMMA BinaryIs ==
  ASSUME NEW b \in Operands, Stands(acc, val), Binary(b)
  PROVE  Stands(acc', val')
<1> DEFINE c == b.elem
           y == b.val
<1>1. Stands(c, y) /\ Junk \in Element
  BY OperandsStand, JunkIs
<1>2. val \in Field /\ y \in Field /\ val \in Int /\ y \in Int
  BY <1>1, FieldResidue DEF Stands, IsValue
<1>3. CASE DoAdd(b)
  <2>1. Add(y, val) = Add(val, y)
    <3>1. y + val = val + y
      BY <1>2
    <3> QED  BY <3>1 DEF Add
  <2>2. /\ Stands(Fr_add(Junk, acc, c), Add(val, y)) /\ Stands(Fr_add(Junk, c, acc), Add(val, y))
    BY <1>1, <2>1, SumsAre
  <2> QED  BY <1>3, <2>2 DEF DoAdd, Set
<1>4. CASE DoSub(b)
  <2>1. Stands(Fr_sub(Junk, acc, c), Sub(val, y)) /\ Stands(Fr_sub(Junk, c, acc), Sub(y, val))
    BY <1>1, SumsAre
  <2> QED  BY <1>4, <2>1 DEF DoSub, Set
<1>5. CASE DoMul(b)
  <2>1. Stands(Fr_mul(Junk, acc, c), Mul(val, y)) /\ Stands(Fr_mul(Junk, c, acc), Mul(val, y))
    BY <1>1, <1>2, ProductIs, MulCommutes
  <2> QED  BY <1>5, <2>1 DEF DoMul, Set
<1>6. CASE Divide(b) \/ Idiv(b) \/ Remain(b) \/ Power(b)
  <2>1. /\ Stands(Fr_pow(Junk, acc, c), Pow(val, y))
        /\ y # 0 => /\ Stands(Fr_idiv(Junk, acc, c), val \div y)
                    /\ Stands(Fr_mod(Junk, acc, c), val % y)
                    /\ Stands(Fr_div(Junk, acc, c), Mul(val, Inv(y)))
    BY <1>1, IntegersAre
  <2> QED  BY <1>6, <2>1 DEF Divide, Idiv, Remain, Power, Set
<1>7. CASE Compare(b) \/ Equate(b) \/ Decide(b)
  <2> DEFINE s == Signed(val)
             t == Signed(y)
  <2>1. /\ Stands(Fr_lt(Junk, acc, c), Bool(s < t)) /\ Stands(Fr_lt(Junk, c, acc), Bool(t < s))
        /\ Stands(Fr_gt(Junk, acc, c), Bool(s > t)) /\ Stands(Fr_gt(Junk, c, acc), Bool(t > s))
        /\ Stands(Fr_geq(Junk, acc, c), Bool(s >= t)) /\ Stands(Fr_leq(Junk, acc, c), Bool(s <= t))
        /\ Stands(Fr_eq(Junk, acc, c), Bool(val = y)) /\ Stands(Fr_neq(Junk, c, acc), Bool(y # val))
        /\ Stands(Fr_land(Junk, acc, c), Bool(val # 0 /\ y # 0))
        /\ Stands(Fr_lor(Junk, acc, c), Bool(val # 0 \/ y # 0))
    <3> HIDE DEF c, y
    <3>1. /\ Stands(Fr_lt(Junk, acc, c), Bool(Signed(val) < Signed(y)))
          /\ Stands(Fr_gt(Junk, acc, c), Bool(Signed(val) > Signed(y)))
          /\ Stands(Fr_geq(Junk, acc, c), Bool(Signed(val) >= Signed(y)))
          /\ Stands(Fr_leq(Junk, acc, c), Bool(Signed(val) <= Signed(y)))
          /\ Stands(Fr_eq(Junk, acc, c), Bool(val = y))
          /\ Stands(Fr_land(Junk, acc, c), Bool(val # 0 /\ y # 0))
          /\ Stands(Fr_lor(Junk, acc, c), Bool(val # 0 \/ y # 0))
      BY <1>1, TruthsAre
    <3>2. /\ Stands(Fr_lt(Junk, c, acc), Bool(Signed(y) < Signed(val)))
          /\ Stands(Fr_gt(Junk, c, acc), Bool(Signed(y) > Signed(val)))
          /\ Stands(Fr_neq(Junk, c, acc), Bool(y # val))
      BY <1>1, TruthsAre
    <3> QED  BY <3>1, <3>2
  <2>2. Bool(y # val) = Bool(val # y)
    BY DEF Bool
  <2> HIDE DEF s, t
  <2>3. CASE Compare(b)
    BY <2>1, <2>3 DEF Compare, Set, s, t
  <2>4. CASE Equate(b)
    BY <2>1, <2>2, <2>4 DEF Equate, Set
  <2>5. CASE Decide(b)
    BY <2>1, <2>5 DEF Decide, Set
  <2> QED  BY <1>7, <2>3, <2>4, <2>5
<1>8. CASE Logic(b)
  <2>1. /\ Stands(Fr_band(Junk, acc, c), Cut(mpn_and(val, y)))
        /\ Stands(Fr_bor(Junk, acc, c), Cut(mpn_ior(val, y)))
        /\ Stands(Fr_bxor(Junk, acc, c), Cut(mpn_xor(val, y)))
    BY <1>1, LogicIs
  <2> QED  BY <1>8, <2>1 DEF Logic, Set
<1>9. CASE Shift(b)
  <2>1. /\ Stands(Fr_shl(Junk, acc, c), Shifted(val, Signed(y)))
        /\ Stands(Fr_shl(Junk, c, acc), Shifted(y, Signed(val)))
        /\ Stands(Fr_shr(Junk, acc, c), Shifted(val, -Signed(y)))
        /\ Stands(Fr_shr(Junk, c, acc), Shifted(y, -Signed(val)))
    BY <1>1, ShiftsAre
  <2> QED  BY <1>9, <2>1 DEF Shift, Set
<1>10. CASE Engine(b)
  <2>1. acc.longVal = Mul(val, R1) /\ c.longVal = Mul(y, R1)
    BY <1>1, <1>10 DEF Engine, Stands, IsValue, isMont
  <2>2. /\ RawFr_exp(acc.longVal, y) = Mul(Pow(val, y), R1) /\ RawFr_set(Signed(y)) = Mul(y, R1)
        /\ y # 0 => RawFr_div(acc.longVal, c.longVal) = Mul(Mul(val, Inv(y)), R1)
    BY <1>2, <2>1, EngineIs, ExpIs, FieldIs
  <2>3. /\ Pow(val, y) \in Field
        /\ y # 0 => Mul(val, Inv(y)) \in Field
    <3>1. y \in Nat
      BY <1>2, FieldIs
    <3>2. y # 0 => Inv(y) \in Int
      BY <1>2, UnitInverse, FieldResidue
    <3> QED  BY <1>2, <3>1, <3>2, PowFacts, MulType
  <2>4. \A v \in Field : Stands(Long(Junk, "lmont", Mul(v, R1)), v)
    BY <1>1, Results
  <2>5. CASE y # 0 /\ Set(Long(Junk, "lmont", RawFr_div(acc.longVal, c.longVal)), Mul(val, Inv(y)))
    BY <2>2, <2>3, <2>4, <2>5 DEF Set
  <2>6. CASE Set(Long(Junk, "lmont", RawFr_exp(acc.longVal, y)), Pow(val, y))
    BY <2>2, <2>3, <2>4, <2>6 DEF Set
  <2>7. CASE Set(Long(Junk, "lmont", RawFr_set(Signed(y))), y)
    BY <1>2, <2>2, <2>4, <2>7 DEF Set
  <2> QED  BY <1>10, <2>5, <2>6, <2>7 DEF Engine
<1> QED  BY <1>3, <1>4, <1>5, <1>6, <1>7, <1>8, <1>9, <1>10 DEF Binary

\* The operations on the accumulator alone.
LEMMA UnaryIs ==
  ASSUME Stands(acc, val), Negate \/ Square \/ BitNot \/ LogNot \/ Invert \/ ToLongNormal
  PROVE  Stands(acc', val')
<1>1. Junk \in Element /\ val \in Field /\ IsValue(acc, val)
  BY JunkIs DEF Stands, IsValue
<1>2. CASE Negate
  BY <1>1, <1>2, NegationIs DEF Negate, Set
<1>3. CASE Square
  BY <1>1, <1>3, SquareIs DEF Square, Set
<1>4. CASE BitNot
  BY <1>1, <1>4, LogicIs DEF BitNot, Set
<1>5. CASE LogNot
  <2>1. Stands(Fr_lnot(Junk, acc), Bool(val = 0))
    BY <1>1, TruthsAre
  <2> QED  BY <1>5, <2>1 DEF LogNot, Set, Bool
<1>6. CASE Invert
  BY <1>1, <1>6, IntegersAre DEF Invert, Set
<1>7. CASE ToLongNormal
  BY <1>1, <1>7, Converted DEF ToLongNormal, Set
<1> QED  BY <1>2, <1>3, <1>4, <1>5, <1>6, <1>7

\* The invariant holds at first, and every step keeps it.
LEMMA CalculatorInvariant == Spec => []IInv
<1>1. Init => IInv
  BY OperandsStand DEF Init, IInv, Stands
<1>2. IInv /\ [Next]_vars => IInv'
  <2> SUFFICES ASSUME IInv, [Next]_vars PROVE IInv'
    OBVIOUS
  <2>1. IsValue(acc, val) /\ Junk \in Element
    BY JunkIs DEF IInv
  <2>2. CASE Load
    BY <2>2, OperandsStand DEF Load, Set, IInv, Stands
  <2>3. CASE ToMontgomery
    BY <2>1, <2>3, Converted DEF ToMontgomery, Set, IInv
  <2>4. CASE ToNormal
    BY <2>1, <2>4, Converted DEF ToNormal, Set, IInv
  <2>5. CASE Negate \/ Square \/ BitNot \/ LogNot \/ Invert \/ ToLongNormal
    <3>1. InSync(acc)
      BY <2>5 DEF Negate, Square, BitNot, LogNot, Invert, ToLongNormal
    <3>2. Stands(acc', val')
      BY <2>1, <2>5, <3>1, InSyncIs, UnaryIs
    <3> QED  BY <3>2 DEF IInv, Stands
  <2>6. CASE InSync(acc) /\ \E b \in Operands : Binary(b)
    <3>1. Stands(acc', val')
      BY <2>1, <2>6, InSyncIs, BinaryIs
    <3> QED  BY <3>1 DEF IInv, Stands
  <2>7. CASE UNCHANGED vars
    BY <2>7 DEF vars, IInv
  <2> QED  BY <2>2, <2>3, <2>4, <2>5, <2>6, <2>7 DEF Next
<1> QED  BY <1>1, <1>2, PTL DEF Spec

\* For every prime, word and short, and whatever the operands and the order of the operations:
\* the accumulator is an element, and its long part is below Q.
THEOREM CalculatorTypeCorrect == Spec => []TypeOK
<1>1. IInv => TypeOK
  <2> SUFFICES ASSUME IInv PROVE TypeOK
    OBVIOUS
  <2>1. IsValue(acc, val)
    BY DEF IInv
  <2>2. isLong(acc) \/ isMont(acc) => acc.longVal < Q
    BY <2>1, InSyncIs, FieldIs
  <2> QED  BY <2>1, <2>2 DEF TypeOK, IsValue
<1> QED  BY <1>1, CalculatorInvariant, PTL

\* It stands for the integer modulo Q that the operations yield, in whatever form.
THEOREM CalculatorTracks == Spec => []Tracks
<1>1. IInv => Tracks
  BY InSyncIs DEF IInv, Tracks
<1> QED  BY <1>1, CalculatorInvariant, PTL

\* It leaves the field as that integer, and as an int whenever it fits one.
THEOREM CalculatorReadsBack == Spec => []ReadsBack
<1>1. IInv => ReadsBack
  <2> SUFFICES ASSUME IInv, InSync(acc)
               PROVE  Fr_toMpz(acc) = val /\ (Fits(val) => Fr_toInt(acc) = Signed(val))
    BY DEF ReadsBack
  <2>1. Stands(acc, val)
    BY InSyncIs DEF IInv
  <2> QED  BY <2>1, JunkIs, MpzIs, ToIntIs
<1> QED  BY <1>1, CalculatorInvariant, PTL
================================================================================
