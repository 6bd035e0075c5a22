----------------------------- MODULE JwtFieldProofs -----------------------------
(***************************************************************************)
(* The invariants of JwtField, for payloads, fields and arrays of every    *)
(* length.                                                                 *)
(***************************************************************************)
EXTENDS JwtField, SequenceTheorems, FiniteSetTheorems, TLAPS

--------------------------------------------------------------------------------
\* Induction.

\* A set of naturals has a least element.
LEMMA Least ==
  ASSUME NEW S \in SUBSET Nat, S # {}
  PROVE  \E m \in S : \A k \in S : m <= k
<1> DEFINE R == OpToRel(<, Nat)
<1>1. IsWellFoundedOn(R, Nat)
  BY NatLessThanWellFounded
<1>2. \A x, y \in Nat : <<x, y>> \in R <=> x < y
  BY DEF OpToRel
<1> HIDE DEF R
<1>3. PICK m \in S : \A k \in S : ~ (<<k, m>> \in R)
  BY <1>1, WFMin
<1>4. ASSUME NEW k \in S PROVE m <= k
  <2>1. ~ (k < m)
    BY <1>2, <1>3
  <2> QED  BY <2>1
<1> QED  BY <1>4

\* A set that has a, and of each number from a to b - 1 the next, has all of a to b.
LEMMA Induction ==
  ASSUME NEW a \in Int, NEW b \in Int, NEW S, a \in S,
         \A k \in a .. b - 1 : k \in S => k + 1 \in S
  PROVE  \A k \in a .. b : k \in S
<1> SUFFICES ASSUME NEW n \in a .. b, n \notin S PROVE FALSE
  OBVIOUS
<1> DEFINE D == {j \in Nat : a + j <= b /\ a + j \notin S}
<1>1. D \in SUBSET Nat /\ D # {}
  <2>1. n - a \in D
    OBVIOUS
  <2> QED  BY <2>1
<1>2. PICK m \in D : \A k \in D : m <= k
  <2> HIDE DEF D
  <2> QED  BY <1>1, Least
<1>3. m \in Nat /\ a + m <= b /\ a + m \notin S /\ m # 0
  BY <1>2
<1>4. m - 1 \in Nat /\ (m - 1) \notin D
  <2>1. m - 1 \in Nat
    BY <1>3
  <2>2. ~ (m <= m - 1)
    BY <1>3
  <2> HIDE DEF D
  <2> QED  BY <1>2, <2>1, <2>2
<1>5. a + (m - 1) \in S
  BY <1>3, <1>4
<1>6. a + (m - 1) \in a .. b - 1 /\ (a + (m - 1)) + 1 = a + m
  BY <1>3
<1> QED  BY <1>3, <1>5, <1>6

\* The values of f from x on, each by T from the one before and the index.
Recursive(f, n, V, x, T) ==
  /\ f \in [0 .. n - 1 -> V]
  /\ \A i \in 0 .. n - 1 : f[i] = IF i = 0 THEN x ELSE T[<<f[i - 1], i>>]

\* There is a function like that.
LEMMA Recursion ==
  ASSUME NEW n \in Nat, NEW V, NEW x \in V, NEW T \in [V \X (0 .. n - 1) -> V]
  PROVE  \E f : Recursive(f, n, V, x, T)
<1> DEFINE Upto(m, f) == /\ f \in [0 .. m - 1 -> V]
                         /\ \A i \in 0 .. m - 1 :
                              f[i] = IF i = 0 THEN x ELSE T[<<f[i - 1], i>>]
           S == {m \in 0 .. n : \E f : Upto(m, f)}
<1>1. 0 \in S
  <2>1. Upto(0, [i \in 0 .. 0 - 1 |-> x])
    OBVIOUS
  <2>2. 0 \in 0 .. n
    OBVIOUS
  <2> HIDE DEF Upto
  <2> QED  BY <2>1, <2>2
<1>2. ASSUME NEW m \in 0 .. n - 1, m \in S PROVE m + 1 \in S
  <2>1. PICK f : Upto(m, f)
    BY <1>2
  <2> DEFINE g == [i \in 0 .. m |-> IF i < m THEN f[i]
                                    ELSE IF m = 0 THEN x ELSE T[<<f[m - 1], m>>]]
  <2>2. m # 0 => f[m - 1] \in V /\ T[<<f[m - 1], m>>] \in V
    <3> SUFFICES ASSUME m # 0 PROVE f[m - 1] \in V /\ T[<<f[m - 1], m>>] \in V
      OBVIOUS
    <3>1. f[m - 1] \in V
      BY <2>1
    <3>2. <<f[m - 1], m>> \in V \X (0 .. n - 1)
      BY <3>1
    <3> QED  BY <3>1, <3>2
  <2>3. (m + 1) - 1 = m
    OBVIOUS
  <2>4. g \in [0 .. m -> V]
    BY <2>1, <2>2
  <2>5. ASSUME NEW i \in 0 .. m PROVE g[i] = IF i = 0 THEN x ELSE T[<<g[i - 1], i>>]
    <3>1. CASE i < m
      <4>1. i \in 0 .. m - 1 /\ (i # 0 => i - 1 \in 0 .. m /\ i - 1 < m)
        BY <3>1
      <4>2. g[i] = f[i] /\ (i # 0 => g[i - 1] = f[i - 1])
        BY <3>1, <4>1
      <4> QED  BY <2>1, <4>1, <4>2
    <3>2. CASE i = m
      <4>1. m # 0 => m - 1 \in 0 .. m /\ m - 1 < m
        OBVIOUS
      <4>2. m # 0 => g[m - 1] = f[m - 1]
        BY <4>1
      <4>3. g[m] = IF m = 0 THEN x ELSE T[<<f[m - 1], m>>]
        BY <3>2
      <4> HIDE DEF g
      <4> QED  BY <3>2, <4>2, <4>3
    <3> QED  BY <3>1, <3>2
  <2>6. Upto(m + 1, g)
    <3> HIDE DEF g
    <3> QED  BY <2>3, <2>4, <2>5
  <2>7. m + 1 \in 0 .. n
    OBVIOUS
  <2> HIDE DEF Upto
  <2> QED  BY <2>6, <2>7
<1>3. n \in S
  <2> HIDE DEF S
  <2>1. 0 \in Int /\ n \in Int
    OBVIOUS
  <2>2. \A k \in 0 .. n : k \in S
    BY <1>1, <1>2, <2>1, Induction
  <2> QED  BY <2>2
<1>4. PICK f : Upto(n, f)
  <2> HIDE DEF Upto
  <2> QED  BY <1>3
<1>5. Recursive(f, n, V, x, T)
  BY <1>4 DEF Recursive
<1> QED  BY <1>5

--------------------------------------------------------------------------------
\* The arrays of the circuit, by the equations of their definitions.

LEMMA BackslashParity ==
  ASSUME NEW n \in Nat, NEW in \in [0 .. n - 1 -> Int]
  PROVE  /\ adjacent_backslash_parity(in) \in [0 .. n - 1 -> {0, 1}]
         /\ \A i \in 0 .. n - 1 :
              adjacent_backslash_parity(in)[i] =
                IF in[i] # backslash THEN 0
                ELSE IF i = 0 THEN 1 ELSE 1 - adjacent_backslash_parity(in)[i - 1]
<1> DEFINE V == {0, 1}
           T == [p \in V \X (0 .. n - 1) |-> IF in[p[2]] # backslash THEN 0 ELSE 1 - p[1]]
           x == IF in[0] # backslash THEN 0 ELSE 1
           Step(f) == [i \in DOMAIN in |->
                         IF in[i] # backslash THEN 0 ELSE IF i = 0 THEN 1 ELSE 1 - f[i - 1]]
           odd == adjacent_backslash_parity(in)
<1>1. T \in [V \X (0 .. n - 1) -> V] /\ x \in V
  OBVIOUS
<1>2. PICK f : Recursive(f, n, V, x, T)
  <2> HIDE DEF T, x, V
  <2> QED  BY <1>1, Recursion
<1>3. ASSUME NEW i \in 0 .. n - 1
      PROVE  f[i] = IF in[i] # backslash THEN 0 ELSE IF i = 0 THEN 1 ELSE 1 - f[i - 1]
  <2>1. CASE i = 0
    <3>1. f[0] = x
      <4> HIDE DEF T, x, V
      <4> QED  BY <1>2, <2>1 DEF Recursive
    <3> QED  BY <2>1, <3>1
  <2>2. CASE i # 0
    <3>1. <<f[i - 1], i>> \in V \X (0 .. n - 1) /\ f[i - 1] \in V
      BY <1>2, <2>2 DEF Recursive
    <3>2. T[<<f[i - 1], i>>] = IF in[i] # backslash THEN 0 ELSE 1 - f[i - 1]
      BY <3>1
    <3>3. f[i] = T[<<f[i - 1], i>>]
      <4> HIDE DEF T, x, V
      <4> QED  BY <1>2, <2>2 DEF Recursive
    <3> QED  BY <2>2, <3>2, <3>3
  <2> QED  BY <2>1, <2>2
<1>4. f = Step(f)
  BY <1>2, <1>3 DEF Recursive
<1>5. odd = CHOOSE g : g = Step(g)
  BY DEF adjacent_backslash_parity
<1>6. odd = Step(odd)
  <2> HIDE DEF Step, odd
  <2> QED  BY <1>4, <1>5
<1>7. DOMAIN odd = 0 .. n - 1 /\ odd \in [0 .. n - 1 -> {odd[i] : i \in 0 .. n - 1}]
  <2> HIDE DEF odd
  <2> QED  BY <1>6
<1>8. \A i \in 0 .. n - 1 :
        odd[i] = IF in[i] # backslash THEN 0 ELSE IF i = 0 THEN 1 ELSE 1 - odd[i - 1]
  <2> HIDE DEF odd
  <2> QED  BY <1>6
<1>9. \A i \in 0 .. n - 1 : odd[i] \in {0, 1}
  <2> DEFINE S == {i \in 0 .. n - 1 : odd[i] \in {0, 1}}
  <2> HIDE DEF odd
  <2>1. CASE n = 0
    BY <2>1
  <2>2. CASE n # 0
    <3>1. 0 \in S
      BY <1>8, <2>2
    <3>2. ASSUME NEW i \in 0 .. (n - 1) - 1, i \in S PROVE i + 1 \in S
      <4>1. i + 1 \in 0 .. n - 1 /\ i + 1 # 0 /\ (i + 1) - 1 = i
        OBVIOUS
      <4>2. odd[i + 1] = IF in[i + 1] # backslash THEN 0 ELSE 1 - odd[i]
        BY <1>8, <4>1
      <4> QED  BY <3>2, <4>1, <4>2
    <3>3. \A i \in 0 .. n - 1 : i \in S
      <4> HIDE DEF S
      <4>1. 0 \in Int /\ n - 1 \in Int
        OBVIOUS
      <4> QED  BY <3>1, <3>2, <4>1, Induction
    <3> QED  BY <3>3
  <2> QED  BY <2>1, <2>2
<1> HIDE DEF odd
<1>10. odd \in [0 .. n - 1 -> {0, 1}]
  BY <1>7, <1>9
<1> QED  BY <1>8, <1>10 DEF odd

\* A quote that counts is one that is not escaped.
Counts(in, escapes, i) == in[i] = quote /\ (i = 0 \/ escapes[i - 1] = 0)

LEMMA QuoteParity ==
  ASSUME NEW n \in Nat, NEW in \in [0 .. n - 1 -> Int], NEW e \in [0 .. n - 1 -> {0, 1}]
  PROVE  /\ quote_parity(in, e) \in [0 .. n - 1 -> {0, 1}]
         /\ \A i \in 0 .. n - 1 :
              quote_parity(in, e)[i] =
                IF i = 0 THEN Bit(Counts(in, e, i))
                ELSE IF Counts(in, e, i) THEN 1 - quote_parity(in, e)[i - 1]
                ELSE quote_parity(in, e)[i - 1]
<1> DEFINE V == {0, 1}
           quotes == [i \in DOMAIN in |-> Bit(Counts(in, e, i))]
           T == [p \in V \X (0 .. n - 1) |-> IF quotes[p[2]] = 1 THEN 1 - p[1] ELSE p[1]]
           x == IF quotes[0] = 1 THEN 1 ELSE 0
           Step(f) == [i \in DOMAIN in |->
                         IF i = 0 THEN quotes[i]
                         ELSE IF quotes[i] = 1 THEN 1 - f[i - 1] ELSE f[i - 1]]
           parity == quote_parity(in, e)
<1>0. /\ quotes \in [0 .. n - 1 -> {0, 1}]
      /\ \A i \in 0 .. n - 1 : quotes[i] = 1 <=> Counts(in, e, i)
  BY DEF Bit
<1>12. \A i \in 0 .. n - 1 : quotes[i] = Bit(Counts(in, e, i))
  OBVIOUS
<1> HIDE DEF quotes
<1>1. T \in [V \X (0 .. n - 1) -> V] /\ x \in V
  BY <1>0
<1>2. PICK f : Recursive(f, n, V, x, T)
  <2> HIDE DEF T, x, V
  <2> QED  BY <1>1, Recursion
<1>3. ASSUME NEW i \in 0 .. n - 1
      PROVE  f[i] = IF i = 0 THEN quotes[i] ELSE IF quotes[i] = 1 THEN 1 - f[i - 1] ELSE f[i - 1]
  <2>1. CASE i = 0
    <3>1. f[0] = x
      <4> HIDE DEF T, x, V
      <4> QED  BY <1>2, <2>1 DEF Recursive
    <3> QED  BY <1>0, <2>1, <3>1
  <2>2. CASE i # 0
    <3>1. <<f[i - 1], i>> \in V \X (0 .. n - 1) /\ f[i - 1] \in V
      BY <1>2, <2>2 DEF Recursive
    <3>2. T[<<f[i - 1], i>>] = IF quotes[i] = 1 THEN 1 - f[i - 1] ELSE f[i - 1]
      BY <3>1
    <3>3. f[i] = T[<<f[i - 1], i>>]
      <4> HIDE DEF T, x, V
      <4> QED  BY <1>2, <2>2 DEF Recursive
    <3> QED  BY <2>2, <3>2, <3>3
  <2> QED  BY <2>1, <2>2
<1>4. f = Step(f)
  BY <1>2, <1>3 DEF Recursive
<1>5. parity = CHOOSE g : g = Step(g)
  BY DEF quote_parity, Counts, quotes
<1>6. parity = Step(parity)
  <2> HIDE DEF Step, parity
  <2> QED  BY <1>4, <1>5
<1>7. DOMAIN parity = 0 .. n - 1 /\ parity \in [0 .. n - 1 -> {parity[i] : i \in 0 .. n - 1}]
  <2> HIDE DEF parity
  <2> QED  BY <1>6
<1>8. \A i \in 0 .. n - 1 :
        parity[i] = IF i = 0 THEN quotes[i]
               ELSE IF quotes[i] = 1 THEN 1 - parity[i - 1] ELSE parity[i - 1]
  <2> HIDE DEF parity
  <2> QED  BY <1>6
<1>9. \A i \in 0 .. n - 1 : parity[i] \in {0, 1}
  <2> DEFINE S == {i \in 0 .. n - 1 : parity[i] \in {0, 1}}
  <2> HIDE DEF parity
  <2>1. CASE n = 0
    BY <2>1
  <2>2. CASE n # 0
    <3>1. 0 \in S
      BY <1>0, <1>8, <2>2
    <3>2. ASSUME NEW i \in 0 .. (n - 1) - 1, i \in S PROVE i + 1 \in S
      <4>1. i + 1 \in 0 .. n - 1 /\ i + 1 # 0 /\ (i + 1) - 1 = i
        OBVIOUS
      <4>2. parity[i + 1] = IF quotes[i + 1] = 1 THEN 1 - parity[i] ELSE parity[i]
        BY <1>8, <4>1
      <4> QED  BY <3>2, <4>1, <4>2
    <3>3. \A i \in 0 .. n - 1 : i \in S
      <4> HIDE DEF S
      <4>1. 0 \in Int /\ n - 1 \in Int
        OBVIOUS
      <4> QED  BY <3>1, <3>2, <4>1, Induction
    <3> QED  BY <3>3
  <2> QED  BY <2>1, <2>2
<1> HIDE DEF parity
<1>10. parity \in [0 .. n - 1 -> {0, 1}]
  BY <1>7, <1>9
<1> QED  BY <1>0, <1>8, <1>10, <1>12 DEF parity

LEMMA RunningSum ==
  ASSUME NEW n \in Nat, NEW arr \in [0 .. n - 1 -> Int]
  PROVE  /\ prelim_out1(arr) \in [0 .. n - 1 -> Int]
         /\ \A i \in 0 .. n - 1 :
              prelim_out1(arr)[i] =
                IF i = 0 THEN arr[i] ELSE prelim_out1(arr)[i - 1] + arr[i]
<1> DEFINE T == [p \in Int \X (0 .. n - 1) |-> p[1] + arr[p[2]]]
           x == IF n = 0 THEN 0 ELSE arr[0]
           Step(f) == [i \in DOMAIN arr |-> IF i = 0 THEN arr[i] ELSE f[i - 1] + arr[i]]
           sum == prelim_out1(arr)
<1>1. T \in [Int \X (0 .. n - 1) -> Int] /\ x \in Int
  OBVIOUS
<1>2. PICK f : Recursive(f, n, Int, x, T)
  <2> HIDE DEF T, x
  <2> QED  BY <1>1, Recursion
<1>3. ASSUME NEW i \in 0 .. n - 1 PROVE f[i] = IF i = 0 THEN arr[i] ELSE f[i - 1] + arr[i]
  <2>1. CASE i = 0
    <3>1. f[0] = x
      <4> HIDE DEF T, x
      <4> QED  BY <1>2, <2>1 DEF Recursive
    <3> QED  BY <2>1, <3>1
  <2>2. CASE i # 0
    <3>1. <<f[i - 1], i>> \in Int \X (0 .. n - 1) /\ f[i - 1] \in Int
      BY <1>2, <2>2 DEF Recursive
    <3>2. T[<<f[i - 1], i>>] = f[i - 1] + arr[i]
      BY <3>1
    <3>3. f[i] = T[<<f[i - 1], i>>]
      <4> HIDE DEF T, x
      <4> QED  BY <1>2, <2>2 DEF Recursive
    <3> QED  BY <2>2, <3>2, <3>3
  <2> QED  BY <2>1, <2>2
<1>4. f = Step(f)
  BY <1>2, <1>3 DEF Recursive
<1>5. sum = CHOOSE g : g = Step(g)
  BY DEF prelim_out1
<1>6. sum = Step(sum)
  <2> HIDE DEF Step, sum
  <2> QED  BY <1>4, <1>5
<1>7. DOMAIN sum = 0 .. n - 1 /\ sum \in [0 .. n - 1 -> {sum[i] : i \in 0 .. n - 1}]
  <2> HIDE DEF sum
  <2> QED  BY <1>6
<1>8. \A i \in 0 .. n - 1 : sum[i] = IF i = 0 THEN arr[i] ELSE sum[i - 1] + arr[i]
  <2> HIDE DEF sum
  <2> QED  BY <1>6
<1>9. \A i \in 0 .. n - 1 : sum[i] \in Int
  <2> HIDE DEF sum
  <2>1. ASSUME NEW i \in 0 .. n - 1 PROVE sum[i] \in Int
    <3>1. CASE i = 0
      BY <1>8, <3>1
    <3>2. CASE i # 0
      <4> DEFINE S == {j \in 0 .. n - 1 : sum[j] \in Int}
      <4>1. 0 \in S
        BY <1>8, <3>2
      <4>2. ASSUME NEW j \in 0 .. (n - 1) - 1, j \in S PROVE j + 1 \in S
        <5>1. j + 1 \in 0 .. n - 1 /\ j + 1 # 0 /\ (j + 1) - 1 = j
          OBVIOUS
        <5>2. sum[j + 1] = sum[j] + arr[j + 1]
          BY <1>8, <5>1
        <5> QED  BY <4>2, <5>1, <5>2
      <4>3. \A j \in 0 .. n - 1 : j \in S
        <5> HIDE DEF S
        <5>1. 0 \in Int /\ n - 1 \in Int
          OBVIOUS
        <5> QED  BY <4>1, <4>2, <5>1, Induction
      <4> QED  BY <4>3
    <3> QED  BY <3>1, <3>2
  <2> QED  BY <2>1
<1> HIDE DEF sum
<1>10. sum \in [0 .. n - 1 -> Int]
  BY <1>7, <1>9
<1> QED  BY <1>8, <1>10 DEF sum

--------------------------------------------------------------------------------
\* A scan of the payload: what is known before the character at k, the end included.

\* 1 if this character is escaped, if it is in a string; the number of open brackets.
Escaped(in, k) == IF k = 0 THEN 0 ELSE adjacent_backslash_parity(in)[k - 1]
Inside(in, k)  ==
  IF k = 0 THEN 0 ELSE quote_parity(in, adjacent_backslash_parity(in))[k - 1]
Level(in, k)   ==
  IF k = 0 THEN 0 ELSE prelim_out1(UnquotedBracketsMap(StringBodies(in), in))[k - 1]

ScanType(in, k) ==
  Escaped(in, k) \in {0, 1} /\ Inside(in, k) \in {0, 1} /\ Level(in, k) \in Int

\* How the character at k changes what is known.
ScanStep(in, k) ==
  /\ ScanType(in, k)
  /\ Escaped(in, k + 1) = IF in[k] = backslash THEN 1 - Escaped(in, k) ELSE 0
  /\ Inside(in, k + 1) = IF in[k] = quote /\ Escaped(in, k) = 0
                         THEN 1 - Inside(in, k) ELSE Inside(in, k)
  /\ Level(in, k + 1) =
       IF (Inside(in, k) = 1 /\ Inside(in, k + 1) = 1)
          \/ in[k] \notin {open, close} THEN Level(in, k)
       ELSE IF in[k] = open THEN Level(in, k) + 1 ELSE Level(in, k) - 1
  /\ StringBodies(in)[k] \in {0, 1}
  /\ StringBodies(in)[k] = 1 <=> Inside(in, k) = 1 /\ Inside(in, k + 1) = 1

LEMMA Scan ==
  ASSUME NEW n \in Nat, NEW in \in [0 .. n - 1 -> Int]
  PROVE  /\ Escaped(in, 0) = 0 /\ Inside(in, 0) = 0 /\ Level(in, 0) = 0
         /\ \A k \in 0 .. n : ScanType(in, k)
         /\ \A k \in 0 .. n - 1 : ScanStep(in, k)
         /\ StringBodies(in) \in [0 .. n - 1 -> {0, 1}]
<1> DEFINE e == adjacent_backslash_parity(in)
           p == quote_parity(in, e)
           b == StringBodies(in)
           m == UnquotedBracketsMap(b, in)
           d == prelim_out1(m)
<1>1. /\ e \in [0 .. n - 1 -> {0, 1}]
      /\ \A i \in 0 .. n - 1 :
           e[i] = IF in[i] # backslash THEN 0 ELSE IF i = 0 THEN 1 ELSE 1 - e[i - 1]
  BY BackslashParity
<1>2. /\ p \in [0 .. n - 1 -> {0, 1}]
      /\ \A i \in 0 .. n - 1 :
           p[i] = IF i = 0 THEN Bit(Counts(in, e, i))
                  ELSE IF Counts(in, e, i) THEN 1 - p[i - 1] ELSE p[i - 1]
  <2> HIDE DEF e
  <2> QED  BY <1>1, QuoteParity
<1>3. b \in [0 .. n - 1 -> {0, 1}]
  BY DEF StringBodies, Bodies, Bit
<1>4. \A i \in 0 .. n - 1 : b[i] = 1 <=> i > 0 /\ p[i - 1] = 1 /\ p[i] = 1
  BY DEF StringBodies, Bodies, Bit
<1>5. m \in [0 .. n - 1 -> Int]
  <2> HIDE DEF b
  <2> QED  BY <1>3 DEF UnquotedBracketsMap, BracketsMap, Bit
<1>6. \A i \in 0 .. n - 1 :
        m[i] = IF b[i] = 1 \/ in[i] \notin {open, close} THEN 0
               ELSE IF in[i] = open THEN 1 ELSE 0 - 1
  <2> HIDE DEF b
  <2> QED  BY <1>3 DEF UnquotedBracketsMap, BracketsMap, Bit, open, close
<1>7. /\ d \in [0 .. n - 1 -> Int]
      /\ \A i \in 0 .. n - 1 : d[i] = IF i = 0 THEN m[i] ELSE d[i - 1] + m[i]
  <2> HIDE DEF m
  <2> QED  BY <1>5, RunningSum
<1>8. \A k : /\ Escaped(in, k) = IF k = 0 THEN 0 ELSE e[k - 1]
             /\ Inside(in, k) = IF k = 0 THEN 0 ELSE p[k - 1]
             /\ Level(in, k) = IF k = 0 THEN 0 ELSE d[k - 1]
  BY DEF Escaped, Inside, Level
<1> HIDE DEF e, p, b, m, d
<1>9. \A k \in 0 .. n :
        Escaped(in, k) \in {0, 1} /\ Inside(in, k) \in {0, 1} /\ Level(in, k) \in Int
  <2> SUFFICES ASSUME NEW k \in 0 .. n
               PROVE  Escaped(in, k) \in {0, 1} /\ Inside(in, k) \in {0, 1} /\ Level(in, k) \in Int
    OBVIOUS
  <2>1. k # 0 => k - 1 \in 0 .. n - 1
    OBVIOUS
  <2>2. k # 0 => e[k - 1] \in {0, 1} /\ p[k - 1] \in {0, 1} /\ d[k - 1] \in Int
    BY <1>1, <1>2, <1>7, <2>1
  <2> QED  BY <1>8, <2>2
<1>10. ASSUME NEW k \in 0 .. n - 1
       PROVE  /\ Escaped(in, k + 1) = e[k] /\ Inside(in, k + 1) = p[k] /\ Level(in, k + 1) = d[k]
              /\ k # 0 => k - 1 \in 0 .. n - 1
  <2>1. k + 1 # 0 /\ (k + 1) - 1 = k /\ (k # 0 => k - 1 \in 0 .. n - 1)
    OBVIOUS
  <2> QED  BY <1>8, <2>1
<1>11. ASSUME NEW k \in 0 .. n - 1
       PROVE  /\ Escaped(in, k + 1) = IF in[k] = backslash THEN 1 - Escaped(in, k) ELSE 0
              /\ Inside(in, k + 1) = IF in[k] = quote /\ Escaped(in, k) = 0
                                     THEN 1 - Inside(in, k) ELSE Inside(in, k)
  <2>1. Escaped(in, k + 1) = IF in[k] = backslash THEN 1 - Escaped(in, k) ELSE 0
    BY <1>1, <1>8, <1>10
  <2>2. Counts(in, e, k) <=> in[k] = quote /\ Escaped(in, k) = 0
    BY <1>8 DEF Counts
  <2>3. Inside(in, k + 1) = IF in[k] = quote /\ Escaped(in, k) = 0
                            THEN 1 - Inside(in, k) ELSE Inside(in, k)
    BY <1>2, <1>8, <1>10, <2>2 DEF Bit
  <2> QED  BY <2>1, <2>3
<1>12. ASSUME NEW k \in 0 .. n - 1
       PROVE  b[k] = 1 <=> Inside(in, k) = 1 /\ Inside(in, k + 1) = 1
  <2>1. b[k] = 1 <=> k > 0 /\ p[k - 1] = 1 /\ p[k] = 1
    BY <1>4
  <2>2. Inside(in, k + 1) = p[k]
    BY <1>10
  <2>3. Inside(in, k) = IF k = 0 THEN 0 ELSE p[k - 1]
    BY <1>8
  <2> QED  BY <2>1, <2>2, <2>3
<1>13. ASSUME NEW k \in 0 .. n - 1
       PROVE  Level(in, k + 1) =
                IF (Inside(in, k) = 1 /\ Inside(in, k + 1) = 1)
                   \/ in[k] \notin {open, close} THEN Level(in, k)
                ELSE IF in[k] = open THEN Level(in, k) + 1 ELSE Level(in, k) - 1
  <2>1. m[k] = IF b[k] = 1 \/ in[k] \notin {open, close} THEN 0
               ELSE IF in[k] = open THEN 1 ELSE 0 - 1
    BY <1>6
  <2>2. Level(in, k) \in Int
    BY <1>9
  <2>3. Level(in, k + 1) = Level(in, k) + m[k]
    BY <1>7, <1>8, <1>10, <1>5
  <2> QED  BY <1>12, <2>1, <2>2, <2>3
<1>14. Escaped(in, 0) = 0 /\ Inside(in, 0) = 0 /\ Level(in, 0) = 0
  BY <1>8
<1>15. ASSUME NEW k \in 0 .. n - 1 PROVE ScanStep(in, k)
  <2>1. k \in 0 .. n
    OBVIOUS
  <2>2. ScanType(in, k)
    BY <1>9, <2>1 DEF ScanType
  <2>3. b[k] \in {0, 1}
    BY <1>3
  <2> QED  BY <1>11, <1>12, <1>13, <2>2, <2>3 DEF b, ScanStep
<1> QED  BY <1>3, <1>9, <1>14, <1>15 DEF b, ScanType

\* The scan up to a position depends on what is before it.
LEMMA ScanOfPrefix ==
  ASSUME NEW n \in Nat, NEW in \in [0 .. n - 1 -> Int], NEW to \in [0 .. n - 1 -> Int],
         NEW m \in 0 .. n, \A k \in 0 .. m - 1 : in[k] = to[k]
  PROVE  \A k \in 0 .. m : /\ Escaped(in, k) = Escaped(to, k)
                           /\ Inside(in, k) = Inside(to, k)
                           /\ Level(in, k) = Level(to, k)
<1> DEFINE S == {k \in 0 .. m : /\ Escaped(in, k) = Escaped(to, k)
                                /\ Inside(in, k) = Inside(to, k)
                                /\ Level(in, k) = Level(to, k)}
<1>0. /\ \A k \in 0 .. n - 1 : ScanStep(in, k) /\ ScanStep(to, k)
      /\ Escaped(in, 0) = 0 /\ Inside(in, 0) = 0 /\ Level(in, 0) = 0
      /\ Escaped(to, 0) = 0 /\ Inside(to, 0) = 0 /\ Level(to, 0) = 0
  BY Scan
<1>1. 0 \in S
  BY <1>0
<1>2. ASSUME NEW k \in 0 .. m - 1, k \in S PROVE k + 1 \in S
  <2>1. k \in 0 .. n - 1 /\ k + 1 \in 0 .. m /\ in[k] = to[k]
    OBVIOUS
  <2>0. ScanStep(in, k) /\ ScanStep(to, k) /\ Level(in, k) = Level(to, k)
        /\ Inside(in, k) = Inside(to, k)
    BY <1>0, <1>2, <2>1
  <2>2. /\ Escaped(in, k + 1) = Escaped(to, k + 1)
        /\ Inside(in, k + 1) = Inside(to, k + 1)
    BY <1>0, <1>2, <2>1 DEF ScanStep
  <2>3. Level(in, k + 1) = Level(to, k + 1)
    BY <2>0, <2>1, <2>2 DEF ScanStep
  <2> QED  BY <2>1, <2>2, <2>3
<1>3. \A k \in 0 .. m : k \in S
  <2> HIDE DEF S
  <2>1. 0 \in Int /\ m \in Int
    OBVIOUS
  <2> QED  BY <1>1, <1>2, <2>1, Induction
<1> QED  BY <1>3

\* Characters that mean nothing to the scan.
Idle == Chars \ {quote, backslash, open, close}

IdleAt(in, a, b) == \A k \in a .. b - 1 : in[k] \in Idle

Steady(in, a, b) ==
  \A k \in a .. b : /\ Escaped(in, k) = 0
                    /\ Inside(in, k) = Inside(in, a) /\ Level(in, k) = Level(in, a)

LEMMA IdleRun ==
  ASSUME NEW n \in Nat, NEW in \in [0 .. n - 1 -> Int], NEW a \in 0 .. n, NEW b \in a .. n,
         Escaped(in, a) = 0, IdleAt(in, a, b)
  PROVE  Steady(in, a, b)
<1> DEFINE S == {k \in a .. b : /\ Escaped(in, k) = 0
                                /\ Inside(in, k) = Inside(in, a) /\ Level(in, k) = Level(in, a)}
<1>0. \A k \in 0 .. n - 1 : ScanStep(in, k)
  BY Scan
<1>1. a \in S
  OBVIOUS
<1>2. ASSUME NEW k \in a .. b - 1, k \in S PROVE k + 1 \in S
  <2>1. k \in 0 .. n - 1 /\ k + 1 \in a .. b
    OBVIOUS
  <2>2. in[k] \notin {quote, backslash, open, close}
    BY DEF Idle, IdleAt
  <2> QED  BY <1>0, <1>2, <2>1, <2>2 DEF ScanStep
<1>3. \A k \in a .. b : k \in S
  <2> HIDE DEF S
  <2>1. a \in Int /\ b \in Int
    OBVIOUS
  <2> QED  BY <1>1, <1>2, <2>1, Induction
<1> QED  BY <1>3 DEF Steady

LEMMA PaddedType ==
  ASSUME NEW s \in Seq(Chars), NEW n \in Nat
  PROVE  /\ Padded(s, n) \in [0 .. n - 1 -> 0 .. 127] /\ Padded(s, n) \in [0 .. n - 1 -> Int]
         /\ \A i \in 0 .. n - 1 : i < Len(s) => Padded(s, n)[i] = s[i + 1] /\ s[i + 1] \in Chars
         /\ \A i \in 0 .. n - 1 : i >= Len(s) => Padded(s, n)[i] = 0
<1>1. \A i \in 0 .. n - 1 : i < Len(s) => i + 1 \in 1 .. Len(s)
  OBVIOUS
<1>2. \A i \in 0 .. n - 1 : i < Len(s) => s[i + 1] \in Chars
  BY <1>1
<1>3. Len(s) \in Nat
  OBVIOUS
<1>4. \A i \in 0 .. n - 1 : Padded(s, n)[i] = IF i < Len(s) THEN s[i + 1] ELSE 0
  BY DEF Padded, charAt
<1>5. DOMAIN Padded(s, n) = 0 .. n - 1
      /\ Padded(s, n) \in [0 .. n - 1 -> {Padded(s, n)[i] : i \in 0 .. n - 1}]
  BY DEF Padded, charAt
<1>6. \A i \in 0 .. n - 1 : Padded(s, n)[i] \in 0 .. 127
  <2> SUFFICES ASSUME NEW i \in 0 .. n - 1 PROVE Padded(s, n)[i] \in 0 .. 127
    OBVIOUS
  <2>1. i < Len(s) => s[i + 1] \in 1 .. 127
    BY <1>2 DEF Chars
  <2>2. Padded(s, n)[i] = s[i + 1] \/ Padded(s, n)[i] = 0
    BY <1>4
  <2>3. CASE i < Len(s)
    BY <1>4, <2>1, <2>3
  <2>4. CASE ~ (i < Len(s))
    BY <1>4, <2>4
  <2> QED  BY <2>3, <2>4
<1>7. Padded(s, n) \in [0 .. n - 1 -> 0 .. 127]
  BY <1>5, <1>6
<1>8. Padded(s, n) \in [0 .. n - 1 -> Int]
  <2>0. ASSUME NEW i \in 0 .. n - 1 PROVE Padded(s, n)[i] \in Int
    <3>1. \A x \in 0 .. 127 : x \in Int
      OBVIOUS
    <3> QED  BY <1>6, <3>1, Zenon
  <2>1. \A i \in 0 .. n - 1 : Padded(s, n)[i] \in Int
    BY <2>0
  <2> QED  BY <1>5, <2>1
<1> QED  BY <1>2, <1>3, <1>4, <1>7, <1>8

\* The contents of a string, between its quotes.
LEMMA BodyRun ==
  ASSUME NEW n \in Nat, NEW in \in [0 .. n - 1 -> Int], NEW s \in Seq(Chars), WellFormed(s),
         NEW a \in 0 .. n, a + Len(s) <= n, Inside(in, a) = 1, Escaped(in, a) = 0,
         \A j \in 0 .. Len(s) - 1 : in[a + j] = s[j + 1]
  PROVE  /\ \A k \in a .. a + Len(s) : Inside(in, k) = 1 /\ Level(in, k) = Level(in, a)
         /\ Escaped(in, a + Len(s)) = 0
<1> DEFINE l == Len(s)
           t == Padded(s, l)
           S == {j \in 0 .. l : /\ Escaped(in, a + j) = Escaped(t, j)
                                /\ Inside(in, a + j) = 1 /\ Level(in, a + j) = Level(in, a)}
<1>1. l \in Nat
  OBVIOUS
<1>2. /\ t \in [0 .. l - 1 -> Int]
      /\ \A j \in 0 .. l - 1 : t[j] = s[j + 1]
  <2>1. /\ t \in [0 .. l - 1 -> Int]
        /\ \A j \in 0 .. l - 1 : j < Len(s) => t[j] = s[j + 1]
    <3> HIDE DEF l
    <3> QED  BY <1>1, PaddedType
  <2> QED  BY <2>1
<1>3. /\ Escaped(t, l) = 0
      /\ \A j \in 0 .. l - 1 : s[j + 1] = quote => Escaped(t, j) = 1
  <2>1. Escaped(t, l) = 0
    <3>1. CASE s = <<>>
      BY <3>1 DEF Escaped
    <3>2. CASE s # <<>>
      <4>1. l # 0
        BY <3>2
      <4> QED  BY <3>2, <4>1 DEF Escaped, WellFormed
    <3> QED  BY <3>1, <3>2
  <2>2. ASSUME NEW j \in 0 .. l - 1, s[j + 1] = quote PROVE Escaped(t, j) = 1
    BY <2>2 DEF Escaped, WellFormed, charAt
  <2> QED  BY <2>1, <2>2
<1> HIDE DEF t, l
<1>0. /\ \A k \in 0 .. n - 1 : ScanStep(in, k)
      /\ \A j \in 0 .. l - 1 : ScanStep(t, j)
      /\ Escaped(t, 0) = 0
  BY <1>1, <1>2, Scan
<1>4. a + 0 = a /\ 0 \in S
  BY <1>0, <1>1
<1>5. ASSUME NEW j \in 0 .. l - 1, j \in S PROVE j + 1 \in S
  <2>1. a + j \in 0 .. n - 1 /\ (a + j) + 1 = a + (j + 1) /\ j + 1 \in 0 .. l
    BY <1>1 DEF l
  <2>2. in[a + j] = t[j] /\ (in[a + j] = quote => Escaped(t, j) = 1)
    BY <1>2, <1>3 DEF l
  <2>3. Escaped(in, (a + j) + 1) = Escaped(t, j + 1)
    <3>1. ScanStep(in, a + j) /\ ScanStep(t, j) /\ Escaped(in, a + j) = Escaped(t, j)
      BY <1>0, <1>5, <2>1
    <3> QED  BY <2>2, <3>1 DEF ScanStep
  <2>4. Inside(in, (a + j) + 1) = 1
    <3>1. ScanStep(in, a + j) /\ Escaped(in, a + j) = Escaped(t, j) /\ Inside(in, a + j) = 1
      BY <1>0, <1>5, <2>1
    <3>2. ~ (in[a + j] = quote /\ Escaped(in, a + j) = 0)
      BY <2>2, <3>1
    <3> QED  BY <3>1, <3>2 DEF ScanStep
  <2>5. Level(in, (a + j) + 1) = Level(in, a)
    BY <1>0, <1>5, <2>1, <2>4 DEF ScanStep
  <2> QED  BY <2>1, <2>3, <2>4, <2>5
<1>6. \A j \in 0 .. l : j \in S
  <2> HIDE DEF S
  <2>1. 0 \in Int /\ l \in Int
    BY <1>1
  <2> QED  BY <1>4, <1>5, <2>1, Induction
<1>7. ASSUME NEW k \in a .. a + l PROVE Inside(in, k) = 1 /\ Level(in, k) = Level(in, a)
  <2>1. k - a \in 0 .. l /\ a + (k - a) = k
    BY <1>1
  <2> QED  BY <1>6, <2>1
<1>8. Escaped(in, a + l) = 0
  BY <1>1, <1>3, <1>6
<1> QED  BY <1>7, <1>8 DEF l

--------------------------------------------------------------------------------
\* Where things are in the payload.

\* From i on: a string with its quotes.
StringAt(in, i, s) ==
  /\ in[i] = quote /\ in[i + Len(s) + 1] = quote
  /\ \A j \in 0 .. Len(s) - 1 : in[(i + 1) + j] = s[j + 1]
  /\ Inside(in, i) = 0 /\ Inside(in, i + Len(s) + 2) = 0
  /\ \A k \in i + 1 .. i + Len(s) + 1 : Inside(in, k) = 1

\* From a up to b: white space between tokens.
BlankAt(in, a, b) ==
  /\ \A k \in a .. b - 1 : in[k] \in Blanks
  /\ \A k \in a .. b : Inside(in, k) = 0

\* Of a member: its name, the colon at c, the value from w up to e, and what is at d.
ValueEnd(m, w) == w + Len(m.value) + IF m.quoted THEN 2 ELSE 0

ValueOf(in, m, w) ==
  IF m.quoted THEN StringAt(in, w, m.value)
  ELSE /\ \A j \in 0 .. Len(m.value) - 1 : in[w + j] = m.value[j + 1]
       /\ \A k \in w .. w + Len(m.value) : Inside(in, k) = 0

MemberAt(in, len, m, c, w, d) ==
  /\ m.index + Len(m.name) + 2 <= c /\ c < w /\ ValueEnd(m, w) <= d /\ d <= len
  /\ StringAt(in, m.index, m.name)
  /\ BlankAt(in, m.index + Len(m.name) + 2, c) /\ in[c] = colon /\ BlankAt(in, c + 1, w)
  /\ ValueOf(in, m, w) /\ BlankAt(in, ValueEnd(m, w), d)
  /\ d < len => in[d] \in {comma, close}
  /\ \A k \in m.index .. d : Level(in, k) = m.level

\* The name of an object.
ObjectAt(in, len, i, s) ==
  /\ i + Len(s) + 4 <= len
  /\ StringAt(in, i, s) /\ in[i + Len(s) + 2] = colon /\ in[i + Len(s) + 3] = open

\* The quotes of a string and of a member.
QuotesOf(i, s) == {i, i + Len(s) + 1}

QuoteOfMember(in, len, ms, k) ==
  \E m \in ms : \E c, w, d \in 0 .. len :
    /\ MemberAt(in, len, m, c, w, d)
    /\ k \in QuotesOf(m.index, m.name) \/ (m.quoted /\ k \in QuotesOf(w, m.value))

QuoteOfObject(in, len, k) ==
  \E i \in 0 .. len - 1, s \in Names : ObjectAt(in, len, i, s) /\ k \in QuotesOf(i, s)

--------------------------------------------------------------------------------
\* The invariant of the issuer.
Payload == Padded(text, MAX_JWT_PAYLOAD_LEN)

MemberType(m) ==
  /\ m.index \in Nat /\ m.level \in Nat \ {0} /\ m.name \in Names /\ m.quoted \in BOOLEAN
  /\ m.value \in IF m.quoted THEN Strings ELSE Numbers

TextType ==
  /\ text \in Seq(Chars) /\ text # <<>> /\ names \in Seq(SUBSET Names)
  /\ Len(text) + Len(names) <= MaxText
  /\ \A m \in members : MemberType(m)

\* The text ends outside of strings; only in strings there are escapes.
Ended ==
  /\ Inside(Payload, Len(text)) = 0 /\ Escaped(Payload, Len(text)) = 0
  /\ Level(Payload, Len(text)) = Len(names)
  /\ \A k \in 0 .. Len(text) : Escaped(Payload, k) = 1 => Inside(Payload, k) = 1

\* Every member is where it says.
MembersPlaced ==
  \A m \in members : \E c, w, d \in 0 .. Len(text) :
    MemberAt(Payload, Len(text), m, c, w, d)

\* Every quote that is not escaped is one of a member or of the name of an object.
QuotesKnown ==
  \A k \in 0 .. Len(text) - 1 :
    Inside(Payload, k) # Inside(Payload, k + 1) =>
      \/ QuoteOfMember(Payload, Len(text), members, k)
      \/ QuoteOfObject(Payload, Len(text), k)

Issued == TextType /\ Ended /\ MembersPlaced /\ QuotesKnown

--------------------------------------------------------------------------------
\* What the pieces of a text do to the scan.

LEMMA StringRun ==
  ASSUME NEW n \in Nat, NEW in \in [0 .. n - 1 -> Int], NEW s \in Seq(Chars), WellFormed(s),
         NEW a \in 0 .. n, a + Len(s) + 2 <= n, Inside(in, a) = 0, Escaped(in, a) = 0,
         in[a] = quote, in[a + Len(s) + 1] = quote,
         \A j \in 0 .. Len(s) - 1 : in[(a + 1) + j] = s[j + 1]
  PROVE  /\ StringAt(in, a, s) /\ Escaped(in, a + Len(s) + 2) = 0
         /\ \A k \in a .. a + Len(s) + 2 :
              Level(in, k) = Level(in, a) /\ (Escaped(in, k) = 1 => Inside(in, k) = 1)
<1> DEFINE l == Len(s)
           b == a + 1
           e == b + l
<1>1. /\ l \in Nat /\ b \in 0 .. n /\ a \in 0 .. n - 1 /\ e \in 0 .. n - 1 /\ b + l = e
      /\ e = a + l + 1 /\ e + 1 = a + l + 2
  OBVIOUS
<1>2. \A k \in 0 .. n - 1 : ScanStep(in, k)
  BY Scan
<1>3. Inside(in, b) = 1 /\ Escaped(in, b) = 0 /\ Level(in, b) = Level(in, a)
  <2>1. ScanStep(in, a)
    BY <1>1, <1>2
  <2> QED  BY <2>1 DEF ScanStep, quote, backslash, open, close
<1>4. /\ \A k \in b .. e : Inside(in, k) = 1 /\ Level(in, k) = Level(in, b)
      /\ Escaped(in, e) = 0
  <2>1. \A j \in 0 .. Len(s) - 1 : in[b + j] = s[j + 1]
    OBVIOUS
  <2>2. b \in 0 .. n /\ b + Len(s) <= n
    OBVIOUS
  <2> HIDE DEF b
  <2> QED  BY <1>3, <2>1, <2>2, BodyRun
<1>5. e \in b .. e
  OBVIOUS
<1> HIDE DEF b, e, l
<1>6. Inside(in, e + 1) = 0 /\ Escaped(in, e + 1) = 0 /\ Level(in, e + 1) = Level(in, b)
  <2>1. ScanStep(in, e) /\ in[e] = quote
    BY <1>1, <1>2 DEF l
  <2>2. Inside(in, e) = 1 /\ Escaped(in, e) = 0 /\ Level(in, e) = Level(in, b)
    BY <1>4, <1>5
  <2> QED  BY <2>1, <2>2 DEF ScanStep, quote, backslash, open, close
<1>7. StringAt(in, a, s)
  <2>1. Inside(in, a + Len(s) + 2) = 0
    BY <1>1, <1>6 DEF l
  <2>2. \A k \in a + 1 .. a + Len(s) + 1 : Inside(in, k) = 1
    BY <1>1, <1>4 DEF l, b
  <2> QED  BY <2>1, <2>2 DEF StringAt
<1>8. ASSUME NEW k \in a .. a + l + 2
      PROVE  Level(in, k) = Level(in, a) /\ (Escaped(in, k) = 1 => Inside(in, k) = 1)
  <2>1. k = a \/ k \in b .. e \/ k = e + 1
    BY <1>1 DEF b
  <2>2. CASE k = a
    BY <2>2
  <2>3. CASE k \in b .. e
    BY <1>3, <1>4, <2>3
  <2>4. CASE k = e + 1
    BY <1>3, <1>6, <2>4
  <2> QED  BY <2>1, <2>2, <2>3, <2>4
<1>9. Escaped(in, a + l + 2) = 0
  BY <1>1, <1>6
<1> QED  BY <1>7, <1>8, <1>9 DEF l

LEMMA IdleChars ==
  /\ Blanks \subseteq Idle /\ comma \in Idle /\ colon \in Idle
  /\ Blanks \subseteq Chars /\ comma \in Chars /\ colon \in Chars /\ quote \in Chars
  /\ open \in Chars /\ close \in Chars
BY DEF Blanks, Idle, Chars, comma, colon, quote, open, close, backslash

AllBlank(in, a, b) == \A k \in a .. b - 1 : in[k] \in Blanks

LEMMA BlankRun ==
  ASSUME NEW n \in Nat, NEW in \in [0 .. n - 1 -> Int], NEW a \in 0 .. n, NEW b \in a .. n,
         Escaped(in, a) = 0, Inside(in, a) = 0, AllBlank(in, a, b)
  PROVE  BlankAt(in, a, b) /\ Steady(in, a, b)
<1>1. IdleAt(in, a, b)
  BY IdleChars DEF IdleAt, AllBlank
<1>2. Steady(in, a, b)
  BY <1>1, IdleRun
<1> QED  BY <1>2 DEF BlankAt, Steady, AllBlank

\* One character outside of strings that is no quote.
LEMMA OneChar ==
  ASSUME NEW n \in Nat, NEW in \in [0 .. n - 1 -> Int], NEW a \in 0 .. n - 1,
         Escaped(in, a) = 0, Inside(in, a) = 0, in[a] \notin {quote, backslash}
  PROVE  /\ Escaped(in, a + 1) = 0 /\ Inside(in, a + 1) = 0
         /\ Level(in, a + 1) = IF in[a] = open THEN Level(in, a) + 1
                               ELSE IF in[a] = close THEN Level(in, a) - 1 ELSE Level(in, a)
<1>1. ScanStep(in, a)
  BY Scan
<1>2. Escaped(in, a + 1) = 0 /\ Inside(in, a + 1) = 0
  BY <1>1 DEF ScanStep
<1> QED  BY <1>1, <1>2 DEF ScanStep, open, close

\* What the members are made of.
LEMMA MemberTyped ==
  ASSUME NEW m, MemberType(m)
  PROVE  /\ m.index \in Nat /\ m.level \in Nat \ {0} /\ m.quoted \in BOOLEAN
         /\ m.name \in Seq(Chars) /\ WellFormed(m.name) /\ Len(m.name) \in Nat
         /\ m.value \in Seq(Chars) /\ Len(m.value) \in Nat
         /\ m.quoted => WellFormed(m.value)
         /\ ~ m.quoted => /\ m.value # <<>>
                          /\ \A j \in 0 .. Len(m.value) - 1 :
                               m.value[j + 1] \notin
                                 Blanks \cup {quote, backslash, comma, colon, open, close}
<1> DEFINE Part == Chars \ (Blanks \cup {quote, backslash, comma, colon, open, close})
<1>1. /\ m.index \in Nat /\ m.level \in Nat \ {0} /\ m.quoted \in BOOLEAN
      /\ m.name \in Seq(Chars) /\ WellFormed(m.name)
  BY JsonAssumption DEF MemberType
<1>2. CASE m.quoted
  <2>1. m.value \in Seq(Chars) /\ WellFormed(m.value)
    BY <1>2, JsonAssumption DEF MemberType
  <2> QED  BY <1>1, <1>2, <2>1
<1>3. CASE ~ m.quoted
  <2>1. m.value \in Seq(Part) /\ m.value # <<>>
    BY <1>3, JsonAssumption DEF MemberType
  <2>2. \A j \in 0 .. Len(m.value) - 1 : m.value[j + 1] \in Part
    <3> HIDE DEF Part
    <3>1. \A j \in 0 .. Len(m.value) - 1 : j + 1 \in 1 .. Len(m.value)
      BY <2>1
    <3> QED  BY <2>1, <3>1
  <2>3. m.value \in Seq(Chars)
    <3>1. Part \subseteq Chars
      OBVIOUS
    <3> HIDE DEF Part
    <3> QED  BY <2>1, <3>1, SeqMonotonic
  <2> QED  BY <1>1, <1>3, <2>1, <2>2, <2>3
<1> QED  BY <1>1, <1>2, <1>3

\* Escapes are only in strings, and the level does not change.
Flat(in, a, b) ==
  \A k \in a .. b : Level(in, k) = Level(in, a) /\ (Escaped(in, k) = 1 => Inside(in, k) = 1)

LEMMA FlatJoin ==
  ASSUME NEW in, NEW a \in Int, NEW b \in Int, NEW c \in Int, a <= b, b <= c,
         Flat(in, a, b), Flat(in, b, c)
  PROVE  Flat(in, a, c)
<1>1. Level(in, b) = Level(in, a)
  BY DEF Flat
<1>2. \A k \in a .. c : k \in a .. b \/ k \in b .. c
  OBVIOUS
<1> QED  BY <1>1, <1>2 DEF Flat

\* A name with its colon, from i up to w.
NameFits(n, i, s, c, w) ==
  i \in Nat /\ c \in Nat /\ w \in Nat /\ i + Len(s) + 2 <= c /\ c < w /\ w <= n

NameWritten(in, i, s, c, w) ==
  /\ in[i] = quote /\ in[i + Len(s) + 1] = quote
  /\ \A j \in 0 .. Len(s) - 1 : in[(i + 1) + j] = s[j + 1]
  /\ AllBlank(in, i + Len(s) + 2, c)
  /\ in[c] = colon
  /\ AllBlank(in, c + 1, w)

NamePlaced(in, i, s, c, w) ==
  /\ StringAt(in, i, s) /\ BlankAt(in, i + Len(s) + 2, c) /\ BlankAt(in, c + 1, w)
  /\ Inside(in, w) = 0 /\ Escaped(in, w) = 0 /\ Inside(in, c) = 0
  /\ Flat(in, i, w)

LEMMA NameRun ==
  ASSUME NEW n \in Nat, NEW in \in [0 .. n - 1 -> Int], NEW s \in Seq(Chars), WellFormed(s),
         NEW i, NEW c, NEW w, NameFits(n, i, s, c, w),
         Inside(in, i) = 0, Escaped(in, i) = 0, NameWritten(in, i, s, c, w)
  PROVE  NamePlaced(in, i, s, c, w)
<1> DEFINE l == Len(s)
           b == i + l + 2
<1>1. /\ l \in Nat /\ b \in 0 .. n /\ c \in b .. n /\ c \in 0 .. n - 1 /\ i \in 0 .. n /\ i + l + 2 <= n
      /\ c + 1 \in 0 .. n /\ w \in c + 1 .. n /\ i <= b /\ b <= c /\ c <= c + 1 /\ c + 1 <= w
  BY DEF NameFits
<1>2. /\ StringAt(in, i, s) /\ Escaped(in, b) = 0
      /\ Flat(in, i, b)
  BY <1>1, StringRun DEF NameWritten, Flat
<1>3. Inside(in, b) = 0
  BY <1>2 DEF StringAt
<1>4. AllBlank(in, b, c)
  BY DEF NameWritten
<1>5. AllBlank(in, c + 1, w)
  BY DEF NameWritten
<1> HIDE DEF b, l
<1>6. BlankAt(in, b, c) /\ Steady(in, b, c)
  BY <1>1, <1>2, <1>3, <1>4, BlankRun
<1>7. Escaped(in, c) = 0 /\ Inside(in, c) = 0 /\ Flat(in, b, c)
  <2>1. c \in b .. c
    BY <1>1
  <2> QED  BY <1>3, <1>6, <2>1 DEF Flat, Steady
<1>8. /\ Escaped(in, c + 1) = 0 /\ Inside(in, c + 1) = 0 /\ Level(in, c + 1) = Level(in, c)
  <2>1. in[c] = colon
    BY DEF NameWritten
  <2>2. in[c] \notin {quote, backslash} /\ in[c] # open /\ in[c] # close
    BY <2>1 DEF colon, quote, backslash, open, close
  <2> QED  BY <1>1, <1>7, <2>2, OneChar
<1>9. Flat(in, c, c + 1)
  <2>1. \A k \in c .. c + 1 : k = c \/ k = c + 1
    BY <1>1
  <2> QED  BY <1>7, <1>8, <2>1 DEF Flat
<1>10. BlankAt(in, c + 1, w) /\ Steady(in, c + 1, w)
  BY <1>1, <1>5, <1>8, BlankRun
<1>11. Escaped(in, w) = 0 /\ Inside(in, w) = 0 /\ Flat(in, c + 1, w)
  <2>1. w \in c + 1 .. w
    BY <1>1
  <2> QED  BY <1>8, <1>10, <2>1 DEF Flat, Steady
<1>12. Flat(in, b, c + 1)
  BY <1>1, <1>7, <1>9, FlatJoin
<1>13. Flat(in, b, w)
  BY <1>1, <1>11, <1>12, FlatJoin
<1>14. Flat(in, i, w)
  <2>1. b \in Int /\ w \in Int /\ b <= w
    BY <1>1
  <2> QED  BY <1>1, <1>2, <1>13, <2>1, FlatJoin
<1> QED  BY <1>2, <1>6, <1>7, <1>10, <1>11, <1>14 DEF b, l, NamePlaced

\* A value with the white space after it, from w up to d.
ValueFits(n, m, w, d) == w \in Nat /\ d \in Nat /\ ValueEnd(m, w) <= d /\ d <= n

ValuePlaced(in, m, w, d) ==
  /\ ValueOf(in, m, w) /\ BlankAt(in, ValueEnd(m, w), d)
  /\ Inside(in, d) = 0 /\ Escaped(in, d) = 0
  /\ Flat(in, w, d)

ValueWritten(in, m, w, d) ==
  /\ m.quoted => in[w] = quote /\ in[w + Len(m.value) + 1] = quote
  /\ \A j \in 0 .. Len(m.value) - 1 : in[(w + IF m.quoted THEN 1 ELSE 0) + j] = m.value[j + 1]
  /\ AllBlank(in, ValueEnd(m, w), d)

LEMMA ValueRun ==
  ASSUME NEW n \in Nat, NEW in \in [0 .. n - 1 -> Int], NEW m, MemberType(m),
         NEW w, NEW d, ValueFits(n, m, w, d),
         Inside(in, w) = 0, Escaped(in, w) = 0, ValueWritten(in, m, w, d)
  PROVE  ValuePlaced(in, m, w, d)
<1> DEFINE l == Len(m.value)
           e == ValueEnd(m, w)
<1>0. w \in Nat /\ d \in Nat /\ e <= d /\ d <= n
  BY DEF ValueFits
<1>1. l \in Nat /\ m.value \in Seq(Chars) /\ m.quoted \in BOOLEAN
  BY MemberTyped
<1>2. e \in Nat /\ w <= e /\ (m.quoted => e = w + l + 2) /\ (~ m.quoted => e = w + l)
  <2>1. CASE m.quoted
    BY <1>0, <1>1, <2>1 DEF ValueEnd
  <2>2. CASE ~ m.quoted
    BY <1>0, <1>1, <2>2 DEF ValueEnd
  <2> QED  BY <2>1, <2>2
<1>3. /\ ValueOf(in, m, w) /\ Escaped(in, e) = 0 /\ Inside(in, e) = 0
      /\ Flat(in, w, e)
  <2>1. CASE m.quoted
    <3>1. in[w] = quote /\ in[w + l + 1] = quote
      BY <2>1 DEF ValueWritten
    <3>2. \A j \in 0 .. l - 1 : in[(w + 1) + j] = m.value[j + 1]
      BY <2>1 DEF ValueWritten
    <3>3. w \in 0 .. n /\ w + l + 2 <= n /\ e = w + l + 2
      BY <1>0, <1>1, <1>2, <2>1
    <3>4. WellFormed(m.value)
      BY <2>1, MemberTyped
    <3>5. /\ StringAt(in, w, m.value) /\ Escaped(in, e) = 0
          /\ Flat(in, w, e)
      <4> HIDE DEF e
      <4> QED  BY <1>1, <3>1, <3>2, <3>3, <3>4, StringRun DEF Flat
    <3>6. Inside(in, e) = 0
      BY <3>3, <3>5 DEF StringAt
    <3> QED  BY <2>1, <3>5, <3>6 DEF ValueOf
  <2>2. CASE ~ m.quoted
    <3>1. \A j \in 0 .. l - 1 : in[w + j] = m.value[j + 1]
      <4>1. w + (IF m.quoted THEN 1 ELSE 0) = w
        BY <1>0, <2>2
      <4>2. \A j \in 0 .. l - 1 :
              in[(w + IF m.quoted THEN 1 ELSE 0) + j] = m.value[j + 1]
        BY DEF ValueWritten
      <4> QED  BY <4>1, <4>2
    <3>2. \A j \in 0 .. l - 1 : m.value[j + 1] \in Idle
      <4>1. \A j \in 0 .. l - 1 : /\ j + 1 \in 1 .. l
                                  /\ m.value[j + 1] \notin {quote, backslash, open, close}
        BY <2>2, MemberTyped
      <4>2. \A j \in 0 .. l - 1 : m.value[j + 1] \in Chars
        BY <1>1, <4>1
      <4> QED  BY <4>1, <4>2 DEF Idle
    <3>3. IdleAt(in, w, e)
      <4> SUFFICES ASSUME NEW k \in w .. e - 1 PROVE in[k] \in Idle
        BY DEF IdleAt
      <4>1. k - w \in 0 .. l - 1 /\ w + (k - w) = k
        BY <1>0, <1>2, <2>2
      <4> QED  BY <3>1, <3>2, <4>1
    <3>4. w \in 0 .. n /\ e \in w .. n
      BY <1>0, <1>2
    <3>5. Steady(in, w, e)
      <4> HIDE DEF e
      <4> QED  BY <3>3, <3>4, IdleRun
    <3>6. e \in w .. e /\ e = w + l
      BY <1>0, <1>2, <2>2
    <3>7. ValueOf(in, m, w)
      BY <2>2, <3>1, <3>5, <3>6 DEF ValueOf, Steady
    <3> QED  BY <3>5, <3>6, <3>7 DEF Steady, Flat
  <2> QED  BY <1>1, <2>1, <2>2
<1>4. AllBlank(in, e, d)
  BY DEF ValueWritten
<1>5. e \in 0 .. n /\ d \in e .. n /\ d \in e .. d
  BY <1>0, <1>2
<1> HIDE DEF e
<1>6. BlankAt(in, e, d) /\ Steady(in, e, d)
  BY <1>3, <1>4, <1>5, BlankRun
<1>7. Inside(in, d) = 0 /\ Escaped(in, d) = 0 /\ Flat(in, e, d)
  BY <1>3, <1>5, <1>6 DEF Flat, Steady
<1>8. Flat(in, w, d)
  <2>1. e <= d
    BY <1>5
  <2> QED  BY <1>0, <1>2, <1>3, <1>7, <2>1, FlatJoin
<1> QED  BY <1>3, <1>6, <1>7, <1>8 DEF e, ValuePlaced

--------------------------------------------------------------------------------
\* What is known of a text stays true of a longer one.
Agree(in, to, len) ==
  /\ \A k \in 0 .. len - 1 : in[k] = to[k]
  /\ \A k \in 0 .. len : /\ Escaped(in, k) = Escaped(to, k)
                         /\ Inside(in, k) = Inside(to, k)
                         /\ Level(in, k) = Level(to, k)

LEMMA StringStays ==
  ASSUME NEW in, NEW to, NEW len \in Nat, Agree(in, to, len), NEW s \in Seq(Chars),
         NEW i \in Nat, i + Len(s) + 2 <= len, StringAt(in, i, s)
  PROVE  StringAt(to, i, s)
<1> DEFINE l == Len(s)
<1>1. l \in Nat
  OBVIOUS
<1> HIDE DEF l
<1>2. /\ i \in 0 .. len - 1 /\ i + l + 1 \in 0 .. len - 1 /\ i \in 0 .. len
      /\ i + l + 2 \in 0 .. len
      /\ \A j \in 0 .. l - 1 : (i + 1) + j \in 0 .. len - 1
      /\ \A k \in i + 1 .. i + l + 1 : k \in 0 .. len
  BY <1>1 DEF l
<1> QED  BY <1>2 DEF StringAt, Agree, l

LEMMA BlankStays ==
  ASSUME NEW in, NEW to, NEW len \in Nat, Agree(in, to, len),
         NEW a \in Nat, NEW b \in Nat, b <= len, BlankAt(in, a, b)
  PROVE  BlankAt(to, a, b)
<1>1. /\ \A k \in a .. b - 1 : k \in 0 .. len - 1
      /\ \A k \in a .. b : k \in 0 .. len
  OBVIOUS
<1> QED  BY <1>1 DEF BlankAt, Agree

LEMMA MemberStays ==
  ASSUME NEW in, NEW to, NEW len \in Nat, Agree(in, to, len), NEW more \in Nat, len < more,
         NEW m, MemberType(m), NEW c \in Nat, NEW w \in Nat, NEW d \in Nat,
         MemberAt(in, len, m, c, w, d), d = len => to[len] \in {comma, close}
  PROVE  MemberAt(to, more, m, c, w, d)
<1> DEFINE i == m.index
           n == Len(m.name)
           l == Len(m.value)
           e == ValueEnd(m, w)
<1>1. /\ i \in Nat /\ n \in Nat /\ l \in Nat /\ m.quoted \in BOOLEAN
      /\ m.name \in Seq(Chars) /\ m.value \in Seq(Chars)
  BY MemberTyped
<1>2. e \in Nat /\ e >= w + l /\ (m.quoted => e = w + l + 2) /\ (~ m.quoted => e = w + l)
  <2>1. CASE m.quoted
    BY <1>1, <2>1 DEF ValueEnd
  <2>2. CASE ~ m.quoted
    BY <1>1, <2>2 DEF ValueEnd
  <2> QED  BY <2>1, <2>2
<1> HIDE DEF i, n, l, e
<1>3. /\ i + n + 2 <= c /\ c < w /\ e <= d /\ d <= len
      /\ StringAt(in, i, m.name)
      /\ BlankAt(in, i + n + 2, c) /\ in[c] = colon /\ BlankAt(in, c + 1, w)
      /\ ValueOf(in, m, w) /\ BlankAt(in, e, d)
      /\ d < len => in[d] \in {comma, close}
      /\ \A k \in i .. d : Level(in, k) = m.level
  BY DEF MemberAt, i, n, l, e
<1>4. StringAt(to, i, m.name)
  <2>1. i + n + 2 <= len
    BY <1>1, <1>2, <1>3
  <2> QED  BY <1>1, <1>3, <2>1, StringStays DEF n
<1>5. BlankAt(to, i + n + 2, c) /\ BlankAt(to, c + 1, w) /\ BlankAt(to, e, d)
  <2>1. i + n + 2 \in Nat /\ c + 1 \in Nat /\ c <= len /\ w <= len
    BY <1>1, <1>2, <1>3
  <2> QED  BY <1>1, <1>2, <1>3, <2>1, BlankStays
<1>6. to[c] = colon
  <2>1. c \in 0 .. len - 1
    BY <1>1, <1>2, <1>3
  <2> QED  BY <1>3, <2>1 DEF Agree
<1>7. ValueOf(to, m, w)
  <2>1. CASE m.quoted
    <3>1. StringAt(in, w, m.value) /\ w + l + 2 <= len
      BY <1>2, <1>3, <2>1 DEF ValueOf
    <3>2. StringAt(to, w, m.value)
      BY <1>1, <3>1, StringStays DEF l
    <3> QED  BY <2>1, <3>2 DEF ValueOf
  <2>2. CASE ~ m.quoted
    <3>1. w + l \in Nat /\ w + l <= len
      BY <1>1, <1>2, <1>3, <2>2
    <3>2. \A j \in 0 .. l - 1 : w + j \in 0 .. len - 1
      BY <1>1, <3>1
    <3>3. \A k \in w .. w + l : k \in 0 .. len
      BY <3>1
    <3> QED  BY <1>3, <2>2, <3>2, <3>3 DEF ValueOf, Agree, l
  <2> QED  BY <1>1, <2>1, <2>2
<1>8. to[d] \in {comma, close}
  <2>1. CASE d = len
    BY <2>1
  <2>2. CASE d # len
    <3>1. d < len /\ d \in 0 .. len - 1
      BY <1>3, <2>2
    <3> QED  BY <1>3, <3>1 DEF Agree
  <2> QED  BY <2>1, <2>2
<1>9. \A k \in i .. d : Level(to, k) = m.level
  <2>1. \A k \in i .. d : k \in 0 .. len
    BY <1>1, <1>3
  <2> QED  BY <1>3, <2>1 DEF Agree
<1>10. d <= more
  BY <1>3
<1> QED  BY <1>3, <1>4, <1>5, <1>6, <1>7, <1>8, <1>9, <1>10 DEF MemberAt, i, n, e

LEMMA ObjectStays ==
  ASSUME NEW in, NEW to, NEW len \in Nat, Agree(in, to, len), NEW more \in Nat, len < more,
         NEW s \in Names, NEW i \in Nat, ObjectAt(in, len, i, s)
  PROVE  ObjectAt(to, more, i, s)
<1>1. s \in Seq(Chars) /\ Len(s) \in Nat
  BY JsonAssumption
<1>2. i + Len(s) + 4 <= len /\ StringAt(in, i, s)
  BY DEF ObjectAt
<1>3. /\ i + Len(s) + 2 <= len /\ i + Len(s) + 4 <= more
      /\ i + Len(s) + 2 \in 0 .. len - 1 /\ i + Len(s) + 3 \in 0 .. len - 1
  BY <1>1, <1>2
<1>4. StringAt(to, i, s)
  BY <1>1, <1>2, <1>3, StringStays
<1> QED  BY <1>3, <1>4 DEF ObjectAt, Agree

\* No bracket is the last character of a member.
LEMMA MemberLast ==
  ASSUME NEW in, NEW len \in Nat, NEW m, MemberType(m), NEW c \in Nat, NEW w \in Nat,
         NEW d \in Nat, MemberAt(in, len, m, c, w, d)
  PROVE  in[d - 1] # open
<1> DEFINE l == Len(m.value)
           e == ValueEnd(m, w)
<1>1. l \in Nat /\ m.quoted \in BOOLEAN
  BY MemberTyped
<1>2. e <= d /\ ValueOf(in, m, w) /\ BlankAt(in, e, d)
  BY DEF MemberAt
<1>3. e \in Nat /\ (m.quoted => e = w + l + 2) /\ (~ m.quoted => e = w + l)
  <2>1. CASE m.quoted
    BY <1>1, <2>1 DEF ValueEnd
  <2>2. CASE ~ m.quoted
    BY <1>1, <2>2 DEF ValueEnd
  <2> QED  BY <2>1, <2>2
<1> HIDE DEF e
<1>4. CASE e < d
  <2>1. d - 1 \in e .. d - 1
    BY <1>3, <1>4
  <2>2. in[d - 1] \in Blanks
    BY <1>2, <2>1 DEF BlankAt
  <2> QED  BY <2>2 DEF Blanks, open
<1>5. CASE e = d /\ m.quoted
  <2>1. d - 1 = w + l + 1
    BY <1>1, <1>3, <1>5
  <2>2. in[w + l + 1] = quote
    BY <1>2, <1>5 DEF ValueOf, StringAt
  <2> QED  BY <2>1, <2>2 DEF open, quote
<1>6. CASE e = d /\ ~ m.quoted
  <2>1. /\ m.value # <<>>
        /\ \A j \in 0 .. l - 1 : m.value[j + 1] # open
    BY <1>6, MemberTyped
  <2>2. l # 0
    BY <2>1, MemberTyped
  <2>3. l - 1 \in 0 .. l - 1 /\ w + (l - 1) = d - 1
    BY <1>1, <1>3, <1>6, <2>2
  <2>4. in[w + (l - 1)] = m.value[(l - 1) + 1]
    BY <1>2, <1>6, <2>3 DEF ValueOf
  <2> QED  BY <2>1, <2>3, <2>4
<1> QED  BY <1>1, <1>2, <1>3, <1>4, <1>5, <1>6

\* All that is known of a text, if a longer one goes on as it should.
LEMMA AllStays ==
  ASSUME NEW in, NEW to, NEW len \in Nat \ {0}, Agree(in, to, len), NEW more \in Nat, len < more,
         NEW ms, \A m \in ms : MemberType(m), NEW all, ms \subseteq all,
         in[len - 1] = open \/ to[len] \in {comma, close}
  PROVE  /\ \A m \in ms : \A c, w, d \in 0 .. len :
              MemberAt(in, len, m, c, w, d) => MemberAt(to, more, m, c, w, d)
         /\ \A k : QuoteOfMember(in, len, ms, k) => QuoteOfMember(to, more, all, k)
         /\ \A k : QuoteOfObject(in, len, k) => QuoteOfObject(to, more, k)
<1>1. ASSUME NEW m \in ms, NEW c \in 0 .. len, NEW w \in 0 .. len, NEW d \in 0 .. len,
             MemberAt(in, len, m, c, w, d)
      PROVE  MemberAt(to, more, m, c, w, d)
  <2>1. MemberType(m) /\ c \in Nat /\ w \in Nat /\ d \in Nat
    OBVIOUS
  <2>2. in[d - 1] # open
    BY <1>1, <2>1, MemberLast
  <2>3. d = len => to[len] \in {comma, close}
    BY <2>2
  <2> QED  BY <1>1, <2>1, <2>3, MemberStays
<1>2. ASSUME NEW k, QuoteOfMember(in, len, ms, k) PROVE QuoteOfMember(to, more, all, k)
  <2>1. PICK m \in ms, c \in 0 .. len, w \in 0 .. len, d \in 0 .. len :
          /\ MemberAt(in, len, m, c, w, d)
          /\ k \in QuotesOf(m.index, m.name) \/ (m.quoted /\ k \in QuotesOf(w, m.value))
    BY <1>2 DEF QuoteOfMember
  <2>2. MemberAt(to, more, m, c, w, d)
    BY <1>1, <2>1
  <2>3. m \in all /\ c \in 0 .. more /\ w \in 0 .. more /\ d \in 0 .. more
    OBVIOUS
  <2> QED  BY <2>1, <2>2, <2>3 DEF QuoteOfMember
<1>3. ASSUME NEW k, QuoteOfObject(in, len, k) PROVE QuoteOfObject(to, more, k)
  <2>1. PICK i \in 0 .. len - 1, s \in Names : ObjectAt(in, len, i, s) /\ k \in QuotesOf(i, s)
    BY <1>3 DEF QuoteOfObject
  <2>2. ObjectAt(to, more, i, s)
    <3>1. i \in Nat
      OBVIOUS
    <3> QED  BY <2>1, <3>1, ObjectStays
  <2>3. i \in 0 .. more - 1
    OBVIOUS
  <2> QED  BY <2>1, <2>2, <2>3 DEF QuoteOfObject
<1> QED  BY <1>1, <1>2, <1>3

\* The quotes of a string are where it begins and ends.
LEMMA QuotesInString ==
  ASSUME NEW in, NEW i \in Nat, NEW s \in Seq(Chars), StringAt(in, i, s),
         NEW k \in i .. i + Len(s) + 1, Inside(in, k) # Inside(in, k + 1)
  PROVE  k \in QuotesOf(i, s)
<1>1. Len(s) \in Nat
  OBVIOUS
<1>2. k = i \/ k = i + Len(s) + 1 \/ (k \in i + 1 .. i + Len(s) + 1 /\ k + 1 \in i + 1 .. i + Len(s) + 1)
  BY <1>1
<1> QED  BY <1>2 DEF StringAt, QuotesOf

LEMMA QuotesInMember ==
  ASSUME NEW in, NEW len \in Nat, NEW m, MemberType(m), NEW c \in Nat, NEW w \in Nat,
         NEW d \in Nat, MemberAt(in, len, m, c, w, d),
         NEW k \in m.index .. d - 1, Inside(in, k) # Inside(in, k + 1)
  PROVE  k \in QuotesOf(m.index, m.name) \/ (m.quoted /\ k \in QuotesOf(w, m.value))
<1> DEFINE i == m.index
           n == Len(m.name)
           l == Len(m.value)
           e == ValueEnd(m, w)
<1>1. /\ i \in Nat /\ n \in Nat /\ l \in Nat /\ m.quoted \in BOOLEAN
      /\ m.name \in Seq(Chars) /\ m.value \in Seq(Chars)
  BY MemberTyped
<1>2. e \in Nat /\ (m.quoted => e = w + l + 2) /\ (~ m.quoted => e = w + l)
  <2>1. CASE m.quoted
    BY <1>1, <2>1 DEF ValueEnd
  <2>2. CASE ~ m.quoted
    BY <1>1, <2>2 DEF ValueEnd
  <2> QED  BY <2>1, <2>2
<1>3. /\ i + n + 2 <= c /\ c < w /\ e <= d
      /\ StringAt(in, i, m.name) /\ BlankAt(in, i + n + 2, c) /\ BlankAt(in, c + 1, w)
      /\ ValueOf(in, m, w) /\ BlankAt(in, e, d)
  BY DEF MemberAt
<1> HIDE DEF i, n, l, e
<1>4. CASE k \in i .. i + n + 1
  BY <1>1, <1>3, <1>4, QuotesInString DEF i, n
<1>5. CASE k \in i + n + 2 .. w - 1
  <2>1. \/ k \in i + n + 2 .. c /\ k + 1 \in i + n + 2 .. c
        \/ k = c
        \/ k \in c + 1 .. w /\ k + 1 \in c + 1 .. w
    BY <1>1, <1>3, <1>5
  <2>2. c \in i + n + 2 .. c
    BY <1>1, <1>3
  <2> QED  BY <1>3, <2>1, <2>2 DEF BlankAt
<1>6. CASE k \in w .. e - 1 /\ m.quoted
  <2>1. k \in w .. w + l + 1
    BY <1>1, <1>2, <1>6
  <2>2. StringAt(in, w, m.value)
    BY <1>3, <1>6 DEF ValueOf
  <2>3. k \in QuotesOf(w, m.value)
    BY <1>1, <2>1, <2>2, QuotesInString DEF l
  <2> QED  BY <1>6, <2>3
<1>7. CASE k \in w .. e - 1 /\ ~ m.quoted
  <2>1. k \in w .. w + l /\ k + 1 \in w .. w + l
    BY <1>1, <1>2, <1>7
  <2> QED  BY <1>3, <1>7, <2>1 DEF ValueOf, l
<1>8. CASE k \in e .. d - 1
  <2>1. k \in e .. d /\ k + 1 \in e .. d
    BY <1>2, <1>8
  <2> QED  BY <1>3, <2>1 DEF BlankAt
<1>9. k \in i .. d - 1
  BY DEF i
<1> QED  BY <1>1, <1>2, <1>3, <1>4, <1>5, <1>6, <1>7, <1>8, <1>9

--------------------------------------------------------------------------------
\* What is written.
Prefix(s, t) == Len(s) <= Len(t) /\ \A k \in 1 .. Len(s) : t[k] = s[k]

\* s ends at from, and t is what comes next.
Holds(t, from, s) ==
  from + Len(s) <= Len(t) /\ \A j \in 1 .. Len(s) : t[from + j] = s[j]

LEMMA Joined ==
  ASSUME NEW s \in Seq(Chars), NEW t \in Seq(Chars)
  PROVE  /\ s \o t \in Seq(Chars) /\ Len(s \o t) = Len(s) + Len(t)
         /\ Prefix(s, s \o t) /\ Holds(s \o t, Len(s), t)
<1>1. /\ s \o t \in Seq(Chars) /\ Len(s \o t) = Len(s) + Len(t)
      /\ \A i \in 1 .. Len(s) + Len(t) :
           (s \o t)[i] = IF i <= Len(s) THEN s[i] ELSE t[i - Len(s)]
  BY ConcatProperties
<1>2. Len(s) \in Nat /\ Len(t) \in Nat
  OBVIOUS
<1>3. Prefix(s, s \o t)
  BY <1>1, <1>2 DEF Prefix
<1>4. \A j \in 1 .. Len(t) : (s \o t)[Len(s) + j] = t[j]
  <2> SUFFICES ASSUME NEW j \in 1 .. Len(t) PROVE (s \o t)[Len(s) + j] = t[j]
    OBVIOUS
  <2>1. Len(s) + j \in 1 .. Len(s) + Len(t) /\ ~ (Len(s) + j <= Len(s)) /\ (Len(s) + j) - Len(s) = j
    BY <1>2
  <2> QED  BY <1>1, <2>1
<1> QED  BY <1>1, <1>3, <1>4 DEF Holds

LEMMA PrefixHolds ==
  ASSUME NEW s \in Seq(Chars), NEW t \in Seq(Chars), NEW u \in Seq(Chars), Prefix(t, u)
  PROVE  /\ Prefix(s, t) => Prefix(s, u)
         /\ \A a \in Nat : Holds(t, a, s) => Holds(u, a, s)
<1>1. Len(s) \in Nat /\ Len(t) \in Nat /\ Len(u) \in Nat
  OBVIOUS
<1>2. Prefix(s, t) => Prefix(s, u)
  BY <1>1 DEF Prefix
<1>3. ASSUME NEW a \in Nat, Holds(t, a, s) PROVE Holds(u, a, s)
  <2>1. a + Len(s) <= Len(t) /\ a + Len(s) <= Len(u)
    BY <1>1, <1>3 DEF Holds, Prefix
  <2>2. \A j \in 1 .. Len(s) : a + j \in 1 .. Len(t)
    BY <1>1, <2>1
  <2> QED  BY <1>3, <2>1, <2>2 DEF Holds, Prefix
<1> QED  BY <1>2, <1>3

LEMMA OneQuote ==
  ASSUME NEW ch \in Chars
  PROVE  <<ch>> \in Seq(Chars) /\ Len(<<ch>>) = 1 /\ <<ch>>[1] = ch
OBVIOUS

\* A name and its colon after b.
NameText(b, s, x, y) == b \o <<quote>> \o s \o <<quote>> \o x \o <<colon>> \o y

HoldsName(t, b, s, x, y) ==
  /\ t \in Seq(Chars) /\ Len(t) = Len(b) + Len(s) + Len(x) + Len(y) + 3
  /\ Prefix(b, t) /\ Holds(t, Len(b), <<quote>>) /\ Holds(t, Len(b) + 1, s)
  /\ Holds(t, Len(b) + Len(s) + 1, <<quote>>) /\ Holds(t, Len(b) + Len(s) + 2, x)
  /\ Holds(t, Len(b) + Len(s) + Len(x) + 2, <<colon>>)
  /\ Holds(t, Len(b) + Len(s) + Len(x) + 3, y)

LEMMA NameTextHolds ==
  ASSUME NEW b \in Seq(Chars), NEW s \in Seq(Chars), NEW x \in Seq(Chars), NEW y \in Seq(Chars),
         NEW t, t = NameText(b, s, x, y)
  PROVE  HoldsName(t, b, s, x, y)
<1> DEFINE q == <<quote>>
           p == <<colon>>
           t1 == b \o q
           t2 == t1 \o s
           t3 == t2 \o q
           t4 == t3 \o x
           t5 == t4 \o p
           t6 == t5 \o y
<1>0. q \in Seq(Chars) /\ p \in Seq(Chars) /\ Len(q) = 1 /\ Len(p) = 1
  BY IdleChars, OneQuote
<1>a. Len(b) \in Nat /\ Len(s) \in Nat /\ Len(x) \in Nat /\ Len(y) \in Nat
  OBVIOUS
<1>b. t = t6
  BY DEF NameText
<1> HIDE DEF q, p
<1>1. /\ t1 \in Seq(Chars) /\ Len(t1) = Len(b) + 1
      /\ Prefix(b, t1) /\ Holds(t1, Len(b), q)
  <2>1. /\ t1 \in Seq(Chars) /\ Len(t1) = Len(b) + Len(q)
        /\ Prefix(b, t1) /\ Holds(t1, Len(b), q)
    BY <1>0, Joined
  <2>2. Len(b) = Len(b) /\ Len(b) + Len(q) = Len(b) + 1
    BY <1>0, <1>a
  <2> HIDE DEF t1
  <2> QED  BY <2>1, <2>2
<1> HIDE DEF t1
<1>2. /\ t2 \in Seq(Chars) /\ Len(t2) = Len(b) + Len(s) + 1
      /\ Prefix(t1, t2) /\ Holds(t2, Len(b) + 1, s)
  <2>1. /\ t2 \in Seq(Chars) /\ Len(t2) = Len(t1) + Len(s)
        /\ Prefix(t1, t2) /\ Holds(t2, Len(t1), s)
    BY <1>1, Joined
  <2>2. Len(t1) = Len(b) + 1 /\ Len(b) + 1 + Len(s) = Len(b) + Len(s) + 1
    BY <1>1, <1>a
  <2> HIDE DEF t2
  <2> QED  BY <2>1, <2>2
<1> HIDE DEF t2
<1>3. /\ t3 \in Seq(Chars) /\ Len(t3) = Len(b) + Len(s) + 2
      /\ Prefix(t2, t3) /\ Holds(t3, Len(b) + Len(s) + 1, q)
  <2>1. /\ t3 \in Seq(Chars) /\ Len(t3) = Len(t2) + Len(q)
        /\ Prefix(t2, t3) /\ Holds(t3, Len(t2), q)
    BY <1>0, <1>2, Joined
  <2>2. Len(t2) = Len(b) + Len(s) + 1 /\ Len(b) + Len(s) + 1 + Len(q) = Len(b) + Len(s) + 2
    BY <1>0, <1>2, <1>a
  <2> HIDE DEF t3
  <2> QED  BY <2>1, <2>2
<1> HIDE DEF t3
<1>4. /\ t4 \in Seq(Chars) /\ Len(t4) = Len(b) + Len(s) + Len(x) + 2
      /\ Prefix(t3, t4) /\ Holds(t4, Len(b) + Len(s) + 2, x)
  <2>1. /\ t4 \in Seq(Chars) /\ Len(t4) = Len(t3) + Len(x)
        /\ Prefix(t3, t4) /\ Holds(t4, Len(t3), x)
    BY <1>3, Joined
  <2>2. Len(t3) = Len(b) + Len(s) + 2 /\ Len(b) + Len(s) + 2 + Len(x) = Len(b) + Len(s) + Len(x) + 2
    BY <1>3, <1>a
  <2> HIDE DEF t4
  <2> QED  BY <2>1, <2>2
<1> HIDE DEF t4
<1>5. /\ t5 \in Seq(Chars) /\ Len(t5) = Len(b) + Len(s) + Len(x) + 3
      /\ Prefix(t4, t5) /\ Holds(t5, Len(b) + Len(s) + Len(x) + 2, p)
  <2>1. /\ t5 \in Seq(Chars) /\ Len(t5) = Len(t4) + Len(p)
        /\ Prefix(t4, t5) /\ Holds(t5, Len(t4), p)
    BY <1>0, <1>4, Joined
  <2>2. Len(t4) = Len(b) + Len(s) + Len(x) + 2 /\ Len(b) + Len(s) + Len(x) + 2 + Len(p) = Len(b) + Len(s) + Len(x) + 3
    BY <1>0, <1>4, <1>a
  <2> HIDE DEF t5
  <2> QED  BY <2>1, <2>2
<1> HIDE DEF t5
<1>6. /\ t6 \in Seq(Chars) /\ Len(t6) = Len(b) + Len(s) + Len(x) + Len(y) + 3
      /\ Prefix(t5, t6) /\ Holds(t6, Len(b) + Len(s) + Len(x) + 3, y)
  <2>1. /\ t6 \in Seq(Chars) /\ Len(t6) = Len(t5) + Len(y)
        /\ Prefix(t5, t6) /\ Holds(t6, Len(t5), y)
    BY <1>5, Joined
  <2>2. Len(t5) = Len(b) + Len(s) + Len(x) + 3 /\ Len(b) + Len(s) + Len(x) + 3 + Len(y) = Len(b) + Len(s) + Len(x) + Len(y) + 3
    BY <1>5, <1>a
  <2> HIDE DEF t6
  <2> QED  BY <2>1, <2>2
<1> HIDE DEF t6
<1>7. Prefix(t4, t6) /\ Prefix(t3, t6)
  BY <1>3, <1>4, <1>5, <1>6, PrefixHolds
<1>8. Prefix(t2, t6) /\ Prefix(t1, t6)
  BY <1>1, <1>2, <1>3, <1>6, <1>7, PrefixHolds
<1>9. Prefix(b, t6)
  BY <1>1, <1>6, <1>8, PrefixHolds
<1>10. Holds(t6, Len(b), q) /\ Holds(t6, Len(b) + 1, s)
  <2>1. Len(b) + 1 \in Nat
    BY <1>a
  <2> QED  BY <1>0, <1>a, <1>1, <1>2, <1>6, <1>8, <2>1, PrefixHolds
<1>11. Holds(t6, Len(b) + Len(s) + 1, q) /\ Holds(t6, Len(b) + Len(s) + 2, x)
  <2>1. Len(b) + Len(s) + 1 \in Nat /\ Len(b) + Len(s) + 2 \in Nat
    BY <1>a
  <2> QED  BY <1>0, <1>3, <1>4, <1>6, <1>7, <2>1, PrefixHolds
<1>12. Holds(t6, Len(b) + Len(s) + Len(x) + 2, p)
  <2>1. Len(b) + Len(s) + Len(x) + 2 \in Nat
    BY <1>a
  <2> QED  BY <1>0, <1>5, <1>6, <2>1, PrefixHolds
<1> QED  BY <1>b, <1>6, <1>9, <1>10, <1>11, <1>12 DEF q, p, HoldsName

\* A value, in quotes or not, and white space after t.
ValueText(t, q, v, z) == t \o q \o v \o q \o z

HoldsValue(u, t, q, v, z) ==
  /\ u \in Seq(Chars) /\ Len(u) = Len(t) + Len(q) + Len(v) + Len(q) + Len(z)
  /\ Prefix(t, u) /\ Holds(u, Len(t), q) /\ Holds(u, Len(t) + Len(q), v)
  /\ Holds(u, Len(t) + Len(q) + Len(v), q)
  /\ Holds(u, Len(t) + Len(q) + Len(v) + Len(q), z)

LEMMA ValueTextHolds ==
  ASSUME NEW t \in Seq(Chars), NEW q \in Seq(Chars), NEW v \in Seq(Chars), NEW z \in Seq(Chars),
         NEW u, u = ValueText(t, q, v, z)
  PROVE  HoldsValue(u, t, q, v, z)
<1> DEFINE t1 == t \o q
           t2 == t1 \o v
           t3 == t2 \o q
           t4 == t3 \o z
<1>a. Len(t) \in Nat /\ Len(q) \in Nat /\ Len(v) \in Nat /\ Len(z) \in Nat
  OBVIOUS
<1>b. u = t4
  BY DEF ValueText
<1>1. /\ t1 \in Seq(Chars) /\ Len(t1) = Len(t) + Len(q)
      /\ Prefix(t, t1) /\ Holds(t1, Len(t), q)
  <2>1. /\ t1 \in Seq(Chars) /\ Len(t1) = Len(t) + Len(q)
        /\ Prefix(t, t1) /\ Holds(t1, Len(t), q)
    BY Joined
  <2>2. Len(t) = Len(t) /\ Len(t) + Len(q) = Len(t) + Len(q)
    BY <1>a
  <2> HIDE DEF t1
  <2> QED  BY <2>1, <2>2
<1> HIDE DEF t1
<1>2. /\ t2 \in Seq(Chars) /\ Len(t2) = Len(t) + Len(q) + Len(v)
      /\ Prefix(t1, t2) /\ Holds(t2, Len(t) + Len(q), v)
  <2>1. /\ t2 \in Seq(Chars) /\ Len(t2) = Len(t1) + Len(v)
        /\ Prefix(t1, t2) /\ Holds(t2, Len(t1), v)
    BY <1>1, Joined
  <2>2. Len(t1) = Len(t) + Len(q) /\ Len(t) + Len(q) + Len(v) = Len(t) + Len(q) + Len(v)
    BY <1>1, <1>a
  <2> HIDE DEF t2
  <2> QED  BY <2>1, <2>2
<1> HIDE DEF t2
<1>3. /\ t3 \in Seq(Chars) /\ Len(t3) = Len(t) + Len(q) + Len(v) + Len(q)
      /\ Prefix(t2, t3) /\ Holds(t3, Len(t) + Len(q) + Len(v), q)
  <2>1. /\ t3 \in Seq(Chars) /\ Len(t3) = Len(t2) + Len(q)
        /\ Prefix(t2, t3) /\ Holds(t3, Len(t2), q)
    BY <1>2, Joined
  <2>2. Len(t2) = Len(t) + Len(q) + Len(v) /\ Len(t) + Len(q) + Len(v) + Len(q) = Len(t) + Len(q) + Len(v) + Len(q)
    BY <1>2, <1>a
  <2> HIDE DEF t3
  <2> QED  BY <2>1, <2>2
<1> HIDE DEF t3
<1>4. /\ t4 \in Seq(Chars) /\ Len(t4) = Len(t) + Len(q) + Len(v) + Len(q) + Len(z)
      /\ Prefix(t3, t4) /\ Holds(t4, Len(t) + Len(q) + Len(v) + Len(q), z)
  <2>1. /\ t4 \in Seq(Chars) /\ Len(t4) = Len(t3) + Len(z)
        /\ Prefix(t3, t4) /\ Holds(t4, Len(t3), z)
    BY <1>3, Joined
  <2>2. Len(t3) = Len(t) + Len(q) + Len(v) + Len(q) /\ Len(t) + Len(q) + Len(v) + Len(q) + Len(z) = Len(t) + Len(q) + Len(v) + Len(q) + Len(z)
    BY <1>3, <1>a
  <2> HIDE DEF t4
  <2> QED  BY <2>1, <2>2
<1> HIDE DEF t4
<1>5. Prefix(t2, t4)
  BY <1>2, <1>3, <1>4, PrefixHolds
<1>6. Prefix(t1, t4)
  BY <1>1, <1>2, <1>4, <1>5, PrefixHolds
<1>7. Prefix(t, t4) /\ Holds(t4, Len(t), q)
  BY <1>a, <1>1, <1>4, <1>6, PrefixHolds
<1>8. Holds(t4, Len(t) + Len(q), v) /\ Holds(t4, Len(t) + Len(q) + Len(v), q)
  <2>1. Len(t) + Len(q) \in Nat /\ Len(t) + Len(q) + Len(v) \in Nat
    BY <1>a
  <2> QED  BY <1>2, <1>3, <1>4, <1>5, <2>1, PrefixHolds
<1> QED  BY <1>b, <1>4, <1>7, <1>8 DEF HoldsValue

--------------------------------------------------------------------------------
\* What is written, in the array of the payload.
LEMMA PaddedHolds ==
  ASSUME NEW u \in Seq(Chars), NEW n \in Nat, Len(u) <= n, NEW a \in Nat,
         NEW s \in Seq(Chars), Holds(u, a, s)
  PROVE  \A j \in 0 .. Len(s) - 1 : Padded(u, n)[a + j] = s[j + 1]
<1> SUFFICES ASSUME NEW j \in 0 .. Len(s) - 1 PROVE Padded(u, n)[a + j] = s[j + 1]
  OBVIOUS
<1>1. Len(s) \in Nat /\ Len(u) \in Nat
  OBVIOUS
<1>2. j + 1 \in 1 .. Len(s) /\ a + (j + 1) = (a + j) + 1 /\ a + Len(s) <= Len(u)
  BY <1>1 DEF Holds
<1>3. a + j \in 0 .. n - 1 /\ a + j < Len(u)
  BY <1>1, <1>2
<1>4. Padded(u, n)[a + j] = u[(a + j) + 1]
  BY <1>3, PaddedType
<1>5. u[a + (j + 1)] = s[j + 1]
  BY <1>2 DEF Holds
<1> QED  BY <1>2, <1>4, <1>5

LEMMA OneHolds ==
  ASSUME NEW u \in Seq(Chars), NEW n \in Nat, Len(u) <= n, NEW a \in Nat,
         NEW ch \in Chars, Holds(u, a, <<ch>>)
  PROVE  Padded(u, n)[a] = ch
<1>1. <<ch>> \in Seq(Chars) /\ Len(<<ch>>) = 1 /\ <<ch>>[1] = ch
  BY OneQuote
<1>2. \A j \in 0 .. Len(<<ch>>) - 1 : Padded(u, n)[a + j] = <<ch>>[j + 1]
  BY <1>1, PaddedHolds
<1>3. 0 \in 0 .. Len(<<ch>>) - 1 /\ a + 0 = a /\ 0 + 1 = 1
  BY <1>1
<1> QED  BY <1>1, <1>2, <1>3

LEMMA BlankHolds ==
  ASSUME NEW u \in Seq(Chars), NEW n \in Nat, Len(u) <= n, NEW a \in Nat,
         NEW s \in Seq(Blanks), Holds(u, a, s), NEW b, b = a + Len(s)
  PROVE  AllBlank(Padded(u, n), a, b)
<1>1. s \in Seq(Chars) /\ Len(s) \in Nat
  <2>1. Blanks \subseteq Chars
    BY IdleChars
  <2> QED  BY <2>1, SeqMonotonic
<1>2. \A j \in 0 .. Len(s) - 1 : Padded(u, n)[a + j] = s[j + 1]
  BY <1>1, PaddedHolds
<1>3. ASSUME NEW k \in a .. b - 1 PROVE Padded(u, n)[k] \in Blanks
  <2>1. k - a \in 0 .. Len(s) - 1 /\ a + (k - a) = k /\ (k - a) + 1 \in 1 .. Len(s)
    BY <1>1
  <2>2. s[(k - a) + 1] \in Blanks
    BY <2>1
  <2> QED  BY <1>2, <2>1, <2>2
<1> QED  BY <1>3 DEF AllBlank

LEMMA Extension ==
  ASSUME NEW t \in Seq(Chars), NEW u \in Seq(Chars), NEW n \in Nat, Len(u) <= n, Prefix(t, u)
  PROVE  Agree(Padded(t, n), Padded(u, n), Len(t))
<1> DEFINE in == Padded(t, n)
           to == Padded(u, n)
           m == Len(t)
<1>1. m \in 0 .. n /\ Len(u) \in Nat /\ m <= Len(u)
  BY DEF Prefix
<1>2. /\ in \in [0 .. n - 1 -> Int] /\ to \in [0 .. n - 1 -> Int]
  BY PaddedType
<1>3. ASSUME NEW k \in 0 .. m - 1 PROVE in[k] = to[k]
  <2>1. k \in 0 .. n - 1 /\ k < m /\ k < Len(u) /\ k + 1 \in 1 .. m
    BY <1>1
  <2>2. in[k] = t[k + 1] /\ to[k] = u[k + 1]
    BY <2>1, PaddedType
  <2>3. u[k + 1] = t[k + 1]
    BY <2>1 DEF Prefix
  <2> QED  BY <2>2, <2>3
<1>4. \A k \in 0 .. m : /\ Escaped(in, k) = Escaped(to, k)
                        /\ Inside(in, k) = Inside(to, k)
                        /\ Level(in, k) = Level(to, k)
  <2> HIDE DEF in, to, m
  <2> QED  BY <1>1, <1>2, <1>3, ScanOfPrefix
<1> QED  BY <1>3, <1>4 DEF Agree

\* The text, with a comma where one is due.
LEMMA BegunText ==
  ASSUME text \in Seq(Chars), text # <<>>
  PROVE  /\ Begun \in Seq(Chars) /\ Prefix(text, Begun) /\ Len(text) \in Nat \ {0}
         /\ \/ Len(Begun) = Len(text) /\ text[Len(text)] = open
            \/ Len(Begun) = Len(text) + 1 /\ Holds(Begun, Len(text), <<comma>>)
<1>1. Len(text) \in Nat \ {0} /\ Last(text) = text[Len(text)]
  BY DEF Last
<1>2. CASE Last(text) = open
  <2>1. Begun = text
    BY <1>2 DEF Begun
  <2> QED  BY <1>1, <1>2, <2>1 DEF Prefix
<1>3. CASE Last(text) # open
  <2>1. Begun = text \o <<comma>>
    BY <1>3 DEF Begun
  <2>2. <<comma>> \in Seq(Chars) /\ Len(<<comma>>) = 1
    BY IdleChars, OneQuote
  <2>3. /\ text \o <<comma>> \in Seq(Chars)
        /\ Len(text \o <<comma>>) = Len(text) + Len(<<comma>>)
        /\ Prefix(text, text \o <<comma>>) /\ Holds(text \o <<comma>>, Len(text), <<comma>>)
    BY <2>2, Joined
  <2> QED  BY <1>1, <2>1, <2>2, <2>3
<1> QED  BY <1>2, <1>3

LEMMA Sliced ==
  ASSUME NEW S, NEW s \in Seq(S), NEW a \in Nat, NEW l \in Nat, a + l <= Len(s)
  PROVE  /\ Slice(s, a, l) \in Seq(S) /\ Len(Slice(s, a, l)) = l
         /\ \A j \in 0 .. l - 1 : Slice(s, a, l)[j + 1] = s[(a + j) + 1]
<1> DEFINE b == a + 1
           c == a + l
           t == SubSeq(s, b, c)
<1>1. b \in Int /\ c \in Int /\ \A i \in b .. c : i \in 1 .. Len(s)
  OBVIOUS
<1>2. \A i \in b .. c : s[i] \in S
  BY <1>1
<1>3. t = Slice(s, a, l)
  BY DEF Slice
<1>4. c - b + 1 = l /\ (IF b <= c THEN c - b + 1 ELSE 0) = l
  OBVIOUS
<1>5. /\ t \in Seq(S) /\ Len(t) = IF b <= c THEN c - b + 1 ELSE 0
      /\ \A i \in 1 .. c - b + 1 : t[i] = s[b + i - 1]
  <2> HIDE DEF b, c
  <2> QED  BY <1>1, <1>2, SubSeqProperties
<1>6. ASSUME NEW j \in 0 .. l - 1 PROVE t[j + 1] = s[(a + j) + 1]
  <2>1. j + 1 \in 1 .. c - b + 1 /\ b + (j + 1) - 1 = (a + j) + 1
    OBVIOUS
  <2> HIDE DEF t
  <2> QED  BY <1>5, <2>1
<1> HIDE DEF t
<1>7. Len(t) = l
  BY <1>4, <1>5
<1>8. t \in Seq(S)
  BY <1>5
<1> QED  BY <1>3, <1>6, <1>7, <1>8

LEMMA OpenNames ==
  ASSUME names \in Seq(SUBSET Names), names # <<>>
  PROVE  /\ Front(names) \in Seq(SUBSET Names) /\ Len(names) \in Nat \ {0}
         /\ Len(Front(names)) = Len(names) - 1 /\ Last(names) \in SUBSET Names
         /\ \A name \in Names :
              WithName(name) \in Seq(SUBSET Names) /\ Len(WithName(name)) = Len(names)
<1>1. Len(names) \in Nat \ {0} /\ Last(names) = names[Len(names)]
      /\ Front(names) = SubSeq(names, 1, Len(names) - 1)
  BY DEF Last, Front
<1>2. Front(names) \in Seq(SUBSET Names) /\ Len(Front(names)) = Len(names) - 1
  <2> DEFINE l == Len(names) - 1
             T == SUBSET Names
  <2>1. l \in Nat /\ 0 + l <= Len(names) /\ 0 \in Nat /\ names \in Seq(T)
    BY <1>1
  <2>2. Slice(names, 0, l) \in Seq(T) /\ Len(Slice(names, 0, l)) = l
    <3> HIDE DEF l, T
    <3> QED  BY <2>1, Sliced
  <2>3. Slice(names, 0, l) = Front(names)
    BY <1>1, <2>1 DEF Slice
  <2> QED  BY <2>2, <2>3
<1>3. Last(names) \in SUBSET Names
  <2>1. Len(names) \in 1 .. Len(names)
    BY <1>1
  <2>2. names[Len(names)] \in SUBSET Names
    BY <2>1, ElementOfSeq
  <2> QED  BY <1>1, <2>2
<1>4. ASSUME NEW name \in Names
      PROVE  WithName(name) \in Seq(SUBSET Names) /\ Len(WithName(name)) = Len(names)
  <2>1. Last(names) \cup {name} \in SUBSET Names
    BY <1>3
  <2>2. WithName(name) = Append(Front(names), Last(names) \cup {name})
    BY DEF WithName
  <2>3. /\ Append(Front(names), Last(names) \cup {name}) \in Seq(SUBSET Names)
        /\ Len(Append(Front(names), Last(names) \cup {name})) = Len(Front(names)) + 1
    BY <1>2, <2>1, AppendProperties
  <2> QED  BY <1>1, <1>2, <2>2, <2>3
<1> QED  BY <1>1, <1>2, <1>3, <1>4

\* What is left to show of a longer text.
GoesOn(len) ==
  \/ Payload[len - 1] = open
  \/ Payload'[len] \in {comma, close}

LEMMA IssuedStep ==
  ASSUME Issued, TextType', Prefix(text, text'), Len(text) < Len(text'), GoesOn(Len(text)),
         Inside(Payload', Len(text')) = 0, Escaped(Payload', Len(text')) = 0,
         Level(Payload', Len(text')) = Len(names'),
         \A k \in Len(text) .. Len(text') :
           Escaped(Payload', k) = 1 => Inside(Payload', k) = 1,
         members \subseteq members',
         \A m \in members' \ members :
           \E c, w, d \in 0 .. Len(text') : MemberAt(Payload', Len(text'), m, c, w, d),
         \A k \in Len(text) .. Len(text') - 1 :
           Inside(Payload', k) # Inside(Payload', k + 1) =>
             \/ QuoteOfMember(Payload', Len(text'), members', k)
             \/ QuoteOfObject(Payload', Len(text'), k)
  PROVE  Issued'
<1> DEFINE in == Payload
           to == Payload'
           len == Len(text)
           more == Len(text')
<1>1. /\ text \in Seq(Chars) /\ text' \in Seq(Chars) /\ len \in Nat \ {0} /\ more \in Nat
      /\ \A m \in members : MemberType(m)
      /\ more <= MAX_JWT_PAYLOAD_LEN /\ MAX_JWT_PAYLOAD_LEN \in Nat
  <2>1. text \in Seq(Chars) /\ text' \in Seq(Chars) /\ text # <<>>
        /\ \A m \in members : MemberType(m)
    BY DEF Issued, TextType
  <2>2. Len(text') + Len(names') <= MaxText /\ Len(names') \in Nat
    BY DEF TextType
  <2>3. MAX_JWT_PAYLOAD_LEN \in Nat /\ MaxText \in Nat /\ MaxText <= MAX_JWT_PAYLOAD_LEN
    BY LengthsAssumption, TextAssumption
  <2>4. Len(text) \in Nat /\ Len(text) # 0 /\ Len(text') \in Nat
    BY <2>1
  <2> QED  BY <2>1, <2>2, <2>3, <2>4
<1>2. Agree(in, to, len)
  BY <1>1, Extension DEF Payload
<1>3. in[len - 1] = open \/ to[len] \in {comma, close}
  BY DEF GoesOn
<1> HIDE DEF in, to, len, more
<1>4. /\ \A m \in members : \A c, w, d \in 0 .. len :
           MemberAt(in, len, m, c, w, d) => MemberAt(to, more, m, c, w, d)
      /\ \A k : QuoteOfMember(in, len, members, k) => QuoteOfMember(to, more, members', k)
      /\ \A k : QuoteOfObject(in, len, k) => QuoteOfObject(to, more, k)
  <2>1. len < more
    BY DEF len, more
  <2> QED  BY <1>1, <1>2, <1>3, <2>1, AllStays, ZenonT(60)
<1>5. Ended'
  <2>1. ASSUME NEW k \in 0 .. more, Escaped(to, k) = 1 PROVE Inside(to, k) = 1
    <3>1. CASE k \in 0 .. len
      BY <1>2, <2>1, <3>1 DEF Agree, Issued, Ended, in, len
    <3>2. CASE k \in len .. more
      BY <2>1, <3>2 DEF to, len, more
    <3> QED  BY <1>1, <3>1, <3>2
  <2> QED  BY <2>1 DEF Ended, to, more
<1>6. MembersPlaced'
  <2>1. ASSUME NEW m \in members'
        PROVE  \E c, w, d \in 0 .. more : MemberAt(to, more, m, c, w, d)
    <3>1. CASE m \in members
      <4>1. PICK c \in 0 .. len, w \in 0 .. len, d \in 0 .. len : MemberAt(in, len, m, c, w, d)
        BY <3>1 DEF Issued, MembersPlaced, in, len
      <4>2. c \in 0 .. more /\ w \in 0 .. more /\ d \in 0 .. more
        BY <1>1 DEF len, more
      <4> QED  BY <1>4, <3>1, <4>1, <4>2
    <3>2. CASE m \notin members
      BY <3>2 DEF to, more
    <3> QED  BY <3>1, <3>2
  <2> QED  BY <2>1 DEF MembersPlaced, to, more
<1>7. QuotesKnown'
  <2>1. ASSUME NEW k \in 0 .. more - 1, Inside(to, k) # Inside(to, k + 1)
        PROVE  QuoteOfMember(to, more, members', k) \/ QuoteOfObject(to, more, k)
    <3>1. CASE k \in 0 .. len - 1
      <4>1. k \in 0 .. len /\ k + 1 \in 0 .. len
        BY <1>1, <3>1
      <4>2. Inside(in, k) # Inside(in, k + 1)
        BY <1>2, <2>1, <4>1 DEF Agree
      <4>3. QuoteOfMember(in, len, members, k) \/ QuoteOfObject(in, len, k)
        BY <3>1, <4>2 DEF Issued, QuotesKnown, in, len
      <4> QED  BY <1>4, <4>3
    <3>2. CASE k \in len .. more - 1
      BY <2>1, <3>2 DEF to, len, more
    <3> QED  BY <1>1, <3>1, <3>2
  <2> QED  BY <2>1 DEF QuotesKnown, to, more
<1> QED  BY <1>5, <1>6, <1>7 DEF Issued

\* What is known at the comma, if one is due.
LEMMA AfterBegun ==
  ASSUME Issued, NEW u \in Seq(Chars), Prefix(Begun, u), Len(text) < Len(u),
         Len(u) <= MAX_JWT_PAYLOAD_LEN,
         NEW to, to = Padded(u, MAX_JWT_PAYLOAD_LEN)
  PROVE  /\ Begun \in Seq(Chars) /\ Len(Begun) \in Nat \ {0} /\ Prefix(text, u)
         /\ Len(Begun) = Len(text) \/ Len(Begun) = Len(text) + 1
         /\ Payload[Len(text) - 1] = open \/ to[Len(text)] \in {comma, close}
         /\ Inside(to, Len(Begun)) = 0 /\ Escaped(to, Len(Begun)) = 0
         /\ Level(to, Len(Begun)) = Len(names)
         /\ \A k \in Len(text) .. Len(Begun) : Inside(to, k) = 0 /\ Escaped(to, k) = 0
<1> DEFINE N == MAX_JWT_PAYLOAD_LEN
           len == Len(text)
<1>1. /\ text \in Seq(Chars) /\ text # <<>> /\ N \in Nat
  BY LengthsAssumption DEF Issued, TextType
<1>2. /\ Begun \in Seq(Chars) /\ Prefix(text, Begun) /\ len \in Nat \ {0}
      /\ \/ Len(Begun) = len /\ text[len] = open
         \/ Len(Begun) = len + 1 /\ Holds(Begun, len, <<comma>>)
  BY <1>1, BegunText
<1>3. Prefix(text, u) /\ Len(u) \in Nat
  BY <1>1, <1>2, PrefixHolds
<1>4. Agree(Payload, to, len)
  BY <1>1, <1>3, Extension DEF Payload
<1>5. Inside(to, len) = 0 /\ Escaped(to, len) = 0 /\ Level(to, len) = Len(names)
  <2>1. len \in 0 .. len
    BY <1>2
  <2> QED  BY <1>4, <2>1 DEF Agree, Issued, Ended
<1>6. to \in [0 .. N - 1 -> Int] /\ len \in 0 .. N - 1
  <2>1. to \in [0 .. N - 1 -> Int]
    BY <1>1, PaddedType
  <2>2. len \in 0 .. N - 1
    BY <1>1, <1>2, <1>3
  <2> QED  BY <2>1, <2>2
<1>7. CASE Len(Begun) = len /\ text[len] = open
  <2>1. len - 1 \in 0 .. N - 1 /\ len - 1 < len /\ (len - 1) + 1 = len
    BY <1>1, <1>2, <1>6
  <2>2. Payload[len - 1] = open
    <3>1. Payload[len - 1] = text[(len - 1) + 1]
      BY <1>1, <2>1, PaddedType DEF Payload
    <3> QED  BY <1>7, <2>1, <3>1
  <2>3. \A k \in len .. Len(Begun) : k = len
    BY <1>2, <1>7
  <2> QED  BY <1>2, <1>3, <1>5, <1>7, <2>2, <2>3
<1>8. CASE Len(Begun) = len + 1 /\ Holds(Begun, len, <<comma>>)
  <2>1. <<comma>> \in Seq(Chars) /\ comma \in Chars
    BY IdleChars, OneQuote
  <2>2. Holds(u, len, <<comma>>)
    BY <1>2, <1>8, <2>1, PrefixHolds
  <2>3. to[len] = comma
    BY <1>1, <1>2, <2>1, <2>2, OneHolds
  <2>4. to[len] \notin {quote, backslash} /\ to[len] # open /\ to[len] # close
    BY <2>3 DEF comma, quote, backslash, open, close
  <2>5. Inside(to, len + 1) = 0 /\ Escaped(to, len + 1) = 0 /\ Level(to, len + 1) = Len(names)
    BY <1>1, <1>5, <1>6, <2>4, OneChar
  <2>6. \A k \in len .. Len(Begun) : k = len \/ k = len + 1
    BY <1>2, <1>8
  <2> QED  BY <1>2, <1>3, <1>5, <1>8, <2>3, <2>5, <2>6
<1> QED  BY <1>2, <1>7, <1>8

LEMMA TypedPayload ==
  ASSUME NEW u \in Seq(Chars), NEW l \in Nat, Len(u) + l <= MaxText
  PROVE  /\ Len(u) \in Nat /\ Len(u) <= MAX_JWT_PAYLOAD_LEN /\ MAX_JWT_PAYLOAD_LEN \in Nat
         /\ Padded(u, MAX_JWT_PAYLOAD_LEN) \in [0 .. MAX_JWT_PAYLOAD_LEN - 1 -> Int]
<1>1. MAX_JWT_PAYLOAD_LEN \in Nat /\ MaxText \in Nat /\ MaxText <= MAX_JWT_PAYLOAD_LEN
  BY LengthsAssumption, TextAssumption
<1>2. Len(u) \in Nat
  OBVIOUS
<1> QED  BY <1>1, <1>2, PaddedType

--------------------------------------------------------------------------------
\* The steps of the issuer.
LEMMA CloseIssued ==
  ASSUME Issued, CloseObject
  PROVE  Issued'
<1> DEFINE N == MAX_JWT_PAYLOAD_LEN
           len == Len(text)
           to == Payload'
<1>1. /\ text \in Seq(Chars) /\ text # <<>> /\ names \in Seq(SUBSET Names) /\ names # <<>>
      /\ \A m \in members : MemberType(m)
  BY DEF Issued, TextType, CloseObject
<1>2. /\ text' = text \o <<close>> /\ names' = Front(names) /\ members' = members
      /\ Len(text') + Len(names') <= MaxText
  BY <1>1 DEF CloseObject, Write
<1>3. <<close>> \in Seq(Chars) /\ Len(<<close>>) = 1 /\ close \in Chars
  BY IdleChars, OneQuote
<1>4. /\ text' \in Seq(Chars) /\ Len(text') = len + Len(<<close>>)
      /\ Prefix(text, text') /\ Holds(text', len, <<close>>)
  BY <1>1, <1>2, <1>3, Joined
<1>5. Len(text') = len + 1 /\ len \in Nat \ {0}
  <2>1. len \in Nat /\ len # 0
    BY <1>1
  <2> QED  BY <1>3, <1>4, <2>1
<1>6. /\ names' \in Seq(SUBSET Names) /\ Len(names') = Len(names) - 1 /\ Len(names) \in Nat
      /\ Len(names') \in Nat
  BY <1>1, <1>2, OpenNames
<1>7. TextType'
  <2>1. text' # <<>>
    BY <1>5
  <2> QED  BY <1>1, <1>2, <1>4, <1>6, <2>1 DEF TextType
<1>8. /\ Len(text') <= N /\ N \in Nat /\ to \in [0 .. N - 1 -> Int] /\ len \in 0 .. N - 1
  <2>1. /\ Len(text') <= N /\ N \in Nat
        /\ Padded(text', N) \in [0 .. N - 1 -> Int]
    BY <1>2, <1>4, <1>6, TypedPayload
  <2> QED  BY <1>5, <2>1 DEF Payload
<1>9. to[len] = close
  BY <1>3, <1>4, <1>5, <1>8, OneHolds DEF Payload
<1>10. Agree(Payload, to, len)
  BY <1>1, <1>4, <1>8, Extension DEF Payload
<1>11. Inside(to, len) = 0 /\ Escaped(to, len) = 0 /\ Level(to, len) = Len(names)
  <2>1. len \in 0 .. len
    BY <1>5
  <2> QED  BY <1>10, <2>1 DEF Agree, Issued, Ended
<1>12. Inside(to, len + 1) = 0 /\ Escaped(to, len + 1) = 0 /\ Level(to, len + 1) = Len(names) - 1
  <2>1. to[len] \notin {quote, backslash} /\ to[len] # open
    BY <1>9 DEF close, open, quote, backslash
  <2> HIDE DEF to
  <2> QED  BY <1>8, <1>9, <1>11, <2>1, OneChar
<1>13. \A k \in len .. Len(text') : k = len \/ k = len + 1
  BY <1>5
<1>14. \A k \in len .. Len(text') - 1 : k = len
  BY <1>5
<1>15. GoesOn(len)
  BY <1>9 DEF GoesOn
<1> HIDE DEF to
<1>16. /\ len < Len(text')
       /\ Inside(to, Len(text')) = 0 /\ Escaped(to, Len(text')) = 0
       /\ Level(to, Len(text')) = Len(names')
       /\ \A k \in len .. Len(text') : Escaped(to, k) = 1 => Inside(to, k) = 1
       /\ \A k \in len .. Len(text') - 1 : Inside(to, k) = Inside(to, k + 1)
  BY <1>5, <1>6, <1>11, <1>12, <1>13, <1>14
<1> QED  BY <1>2, <1>4, <1>7, <1>15, <1>16, IssuedStep DEF to

LEMMA OpenIssued ==
  ASSUME Issued, NEW name \in Names, OpenObject(name)
  PROVE  Issued'
<1> DEFINE N == MAX_JWT_PAYLOAD_LEN
           len == Len(text)
           b == Len(Begun)
           l == Len(name)
           to == Payload'
           t == NameText(Begun, name, <<>>, <<>>)
<1>1. /\ text \in Seq(Chars) /\ text # <<>> /\ names \in Seq(SUBSET Names) /\ names # <<>>
      /\ \A m \in members : MemberType(m)
  BY DEF Issued, TextType, OpenObject, NewName
<1>2. /\ name \in Seq(Chars) /\ WellFormed(name) /\ l \in Nat
  BY JsonAssumption
<1>3. /\ text' = t \o <<open>> /\ names' = Append(WithName(name), {}) /\ members' = members
      /\ Len(text') + Len(names') <= MaxText
  <2>1. Named(name, << <<>>, <<>>, <<>> >>) = t
    BY DEF Named, NameText
  <2> QED  BY <2>1 DEF OpenObject, Write
<1>4. Begun \in Seq(Chars) /\ Prefix(text, Begun) /\ len \in Nat \ {0} /\ b \in Nat
  BY <1>1, BegunText
<1>5. /\ t \in Seq(Chars) /\ Len(t) = b + l + 3
      /\ Prefix(Begun, t) /\ Holds(t, b, <<quote>>) /\ Holds(t, b + 1, name)
      /\ Holds(t, b + l + 1, <<quote>>)
      /\ Holds(t, b + l + 2, <<colon>>)
  <2> DEFINE x == <<>>
  <2>1. x \in Seq(Chars) /\ Len(x) = 0 /\ t = NameText(Begun, name, x, x)
    OBVIOUS
  <2> HIDE DEF t, x
  <2>2. /\ t \in Seq(Chars) /\ Len(t) = b + l + Len(x) + Len(x) + 3
        /\ Prefix(Begun, t) /\ Holds(t, b, <<quote>>) /\ Holds(t, b + 1, name)
        /\ Holds(t, b + l + 1, <<quote>>)
        /\ Holds(t, b + l + Len(x) + 2, <<colon>>)
    <3>1. HoldsName(t, Begun, name, x, x)
      BY <1>2, <1>4, <2>1, NameTextHolds
    <3> QED  BY <3>1 DEF HoldsName, b, l
  <2>3. b + l + Len(x) + Len(x) + 3 = b + l + 3 /\ b + l + Len(x) + 2 = b + l + 2
    BY <1>2, <1>4, <2>1
  <2> HIDE DEF b, l
  <2> QED  BY <2>2, <2>3
<1> HIDE DEF t
<1>6. /\ text' \in Seq(Chars) /\ Len(text') = b + l + 4
      /\ Prefix(t, text') /\ Holds(text', b + l + 3, <<open>>)
  <2>1. <<open>> \in Seq(Chars) /\ Len(<<open>>) = 1
    BY IdleChars, OneQuote
  <2>2. /\ text' \in Seq(Chars) /\ Len(text') = Len(t) + Len(<<open>>)
        /\ Prefix(t, text') /\ Holds(text', Len(t), <<open>>)
    BY <1>3, <1>5, <2>1, Joined
  <2> QED  BY <1>2, <1>4, <1>5, <2>1, <2>2
<1>7. /\ Prefix(Begun, text') /\ Prefix(text, text')
      /\ Holds(text', b, <<quote>>) /\ Holds(text', b + 1, name)
      /\ Holds(text', b + l + 1, <<quote>>) /\ Holds(text', b + l + 2, <<colon>>)
  <2>1. <<quote>> \in Seq(Chars) /\ <<colon>> \in Seq(Chars)
    BY IdleChars, OneQuote
  <2>2. b + 1 \in Nat /\ b + l + 1 \in Nat /\ b + l + 2 \in Nat
    BY <1>2, <1>4
  <2>3. Prefix(Begun, text')
    BY <1>4, <1>5, <1>6, PrefixHolds
  <2>4. Prefix(text, text')
    BY <1>1, <1>4, <1>6, <2>3, PrefixHolds
  <2> HIDE DEF b, l
  <2> QED  BY <1>2, <1>4, <1>5, <1>6, <2>1, <2>2, <2>3, <2>4, PrefixHolds
<1>8. /\ names' \in Seq(SUBSET Names) /\ Len(names') = Len(names) + 1 /\ Len(names) \in Nat
      /\ Len(names') \in Nat
  <2>1. WithName(name) \in Seq(SUBSET Names) /\ Len(WithName(name)) = Len(names)
        /\ Len(names) \in Nat
    BY <1>1, OpenNames
  <2> QED  BY <1>3, <2>1, AppendProperties
<1>9. TextType'
  <2>1. text' # <<>>
    BY <1>2, <1>4, <1>6
  <2> QED  BY <1>1, <1>3, <1>6, <1>8, <2>1 DEF TextType
<1>10. Len(text') <= N /\ N \in Nat /\ to \in [0 .. N - 1 -> Int]
  <2>1. /\ Len(text') <= N /\ N \in Nat
        /\ Padded(text', N) \in [0 .. N - 1 -> Int]
    BY <1>3, <1>6, <1>8, TypedPayload
  <2> QED  BY <2>1 DEF Payload
<1>11. /\ b = len \/ b = len + 1
       /\ Payload[len - 1] = open \/ to[len] \in {comma, close}
       /\ Inside(to, b) = 0 /\ Escaped(to, b) = 0 /\ Level(to, b) = Len(names)
       /\ \A k \in len .. b : Inside(to, k) = 0 /\ Escaped(to, k) = 0
  <2>1. len < Len(text')
    BY <1>2, <1>4, <1>6 DEF Prefix
  <2>2. to = Padded(text', MAX_JWT_PAYLOAD_LEN)
    BY DEF Payload
  <2> HIDE DEF to
  <2> QED  BY <1>6, <1>7, <1>10, <2>1, <2>2, AfterBegun
<1>12. NameWritten(to, b, name, b + l + 2, b + l + 3)
  <2>1. /\ to[b] = quote /\ to[b + l + 1] = quote /\ to[b + l + 2] = colon
    <3>1. b + l + 1 \in Nat /\ b + l + 2 \in Nat /\ quote \in Chars /\ colon \in Chars
      BY <1>2, <1>4, IdleChars
    <3> QED  BY <1>4, <1>6, <1>7, <1>10, <3>1, OneHolds DEF Payload
  <2>2. \A j \in 0 .. l - 1 : to[(b + 1) + j] = name[j + 1]
    <3>1. b + 1 \in Nat
      BY <1>4
    <3> QED  BY <1>2, <1>6, <1>7, <1>10, <3>1, PaddedHolds DEF Payload
  <2>3. AllBlank(to, b + l + 2, b + l + 2) /\ AllBlank(to, (b + l + 2) + 1, b + l + 3)
    BY <1>2, <1>4 DEF AllBlank
  <2> QED  BY <2>1, <2>2, <2>3 DEF NameWritten
<1>13. to[b + l + 3] = open
  <2>1. b + l + 3 \in Nat /\ open \in Chars
    BY <1>2, <1>4, IdleChars
  <2> QED  BY <1>6, <1>10, <2>1, OneHolds DEF Payload
<1> HIDE DEF to, b, l
<1>14. /\ StringAt(to, b, name) /\ BlankAt(to, b + l + 2, b + l + 2)
       /\ Inside(to, b + l + 3) = 0 /\ Escaped(to, b + l + 3) = 0 /\ Inside(to, b + l + 2) = 0
       /\ Flat(to, b, b + l + 3)
  <2> DEFINE c == b + l + 2
             w == b + l + 3
  <2>1. NameFits(N, b, name, c, w)
    BY <1>2, <1>4, <1>6, <1>10 DEF NameFits, l
  <2>2. NameWritten(to, b, name, c, w) /\ b + Len(name) + 2 = c
    BY <1>12 DEF l
  <2> HIDE DEF c, w
  <2>3. /\ StringAt(to, b, name) /\ BlankAt(to, b + Len(name) + 2, c)
        /\ Inside(to, w) = 0 /\ Escaped(to, w) = 0 /\ Inside(to, c) = 0
        /\ Flat(to, b, w)
    <3>1. NamePlaced(to, b, name, c, w)
      BY <1>2, <1>10, <1>11, <2>1, <2>2, NameRun
    <3> QED  BY <3>1 DEF NamePlaced
  <2> QED  BY <2>2, <2>3 DEF c, w
<1>15. /\ Escaped(to, b + l + 4) = 0 /\ Inside(to, b + l + 4) = 0
       /\ Level(to, b + l + 4) = Len(names) + 1
  <2>1. b + l + 3 \in 0 .. N - 1 /\ (b + l + 3) + 1 = b + l + 4 /\ b + l + 3 \in b .. b + l + 3
    BY <1>2, <1>4, <1>6, <1>10
  <2>2. to[b + l + 3] \notin {quote, backslash}
    BY <1>13 DEF open, quote, backslash
  <2>3. Level(to, b + l + 3) = Len(names)
    BY <1>11, <1>14, <2>1 DEF Flat
  <2>4. /\ Escaped(to, (b + l + 3) + 1) = 0 /\ Inside(to, (b + l + 3) + 1) = 0
        /\ Level(to, (b + l + 3) + 1) = Level(to, b + l + 3) + 1
    BY <1>10, <1>13, <1>14, <2>1, <2>2, OneChar
  <2> QED  BY <2>1, <2>3, <2>4
<1>16. ASSUME NEW k \in len .. Len(text'), Escaped(to, k) = 1 PROVE Inside(to, k) = 1
  <2>1. k \in len .. b \/ k \in b .. b + l + 3 \/ k = b + l + 4
    BY <1>2, <1>4, <1>6, <1>11
  <2>2. CASE k \in len .. b
    BY <1>11, <1>16, <2>2
  <2>3. CASE k \in b .. b + l + 3
    BY <1>14, <1>16, <2>3 DEF Flat
  <2>4. CASE k = b + l + 4
    BY <1>15, <1>16, <2>4
  <2> QED  BY <2>1, <2>2, <2>3, <2>4
<1>17. ObjectAt(to, Len(text'), b, name)
  <2>1. b + l + 4 <= Len(text') /\ to[b + l + 2] = colon
    BY <1>2, <1>4, <1>6, <1>12 DEF NameWritten
  <2> QED  BY <1>13, <1>14, <2>1 DEF ObjectAt, l
<1>18. ASSUME NEW k \in len .. Len(text') - 1, Inside(to, k) # Inside(to, k + 1)
       PROVE  QuoteOfObject(to, Len(text'), k)
  <2>1. \/ k \in len .. b /\ k + 1 \in len .. b
        \/ k \in b .. b + l + 1
        \/ k = b + l + 2 \/ k = b + l + 3
    BY <1>2, <1>4, <1>6, <1>11
  <2>2. k \in b .. b + l + 1
    <3>1. k = b + l + 2 => k + 1 = b + l + 3
      BY <1>2, <1>4
    <3>2. k = b + l + 3 => k + 1 = b + l + 4
      BY <1>2, <1>4
    <3> QED  BY <1>11, <1>14, <1>15, <1>18, <2>1, <3>1, <3>2
  <2>3. k \in QuotesOf(b, name)
    BY <1>2, <1>4, <1>14, <1>18, <2>2, QuotesInString DEF l
  <2>4. b \in 0 .. Len(text') - 1
    BY <1>2, <1>4, <1>6
  <2> QED  BY <1>17, <2>3, <2>4 DEF QuoteOfObject
<1>19. /\ Inside(to, Len(text')) = 0 /\ Escaped(to, Len(text')) = 0
       /\ Level(to, Len(text')) = Len(names')
  BY <1>6, <1>8, <1>15
<1>20. len < Len(text') /\ GoesOn(len)
  <2>1. len < Len(text')
    BY <1>2, <1>4, <1>6, <1>11
  <2> QED  BY <1>11, <2>1 DEF GoesOn, to
<1> QED  BY <1>3, <1>7, <1>9, <1>16, <1>18, <1>19, <1>20, IssuedStep DEF to

LEMMA MemberIssued ==
  ASSUME Issued, NEW name \in Names, NEW spacing \in Spacings, NEW quoted \in BOOLEAN,
         NEW value, value \in IF quoted THEN Strings ELSE Numbers,
         Member(name, spacing, quoted, value)
  PROVE  Issued'
<1> DEFINE N == MAX_JWT_PAYLOAD_LEN
           len == Len(text)
           b == Len(Begun)
           l == Len(name)
           x == spacing[1]
           y == spacing[2]
           z == spacing[3]
           q == IF quoted THEN <<quote>> ELSE <<>>
           t == NameText(Begun, name, x, y)
           m == [index |-> b, level |-> Len(names), name |-> name,
                 quoted |-> quoted, value |-> value]
           to == Payload'
           c == b + l + 2 + Len(x)
           w == c + 1 + Len(y)
           d == Len(text')
<1>1. /\ text \in Seq(Chars) /\ text # <<>> /\ names \in Seq(SUBSET Names) /\ names # <<>>
      /\ \A o \in members : MemberType(o)
  BY DEF Issued, TextType, Member, NewName
<1>2. /\ name \in Seq(Chars) /\ WellFormed(name) /\ l \in Nat
  BY JsonAssumption
<1>3. /\ text' = ValueText(t, q, value, z) /\ names' = WithName(name)
      /\ members' = members \cup {m}
      /\ Len(text') + Len(names') <= MaxText
  <2>1. Named(name, spacing) = t
    BY DEF Named, NameText
  <2> QED  BY <2>1 DEF Member, Write, ValueText
<1>4. Begun \in Seq(Chars) /\ Prefix(text, Begun) /\ len \in Nat \ {0} /\ b \in Nat
  BY <1>1, BegunText
<1>5. /\ names' \in Seq(SUBSET Names) /\ Len(names') = Len(names) /\ Len(names) \in Nat \ {0}
  BY <1>1, <1>3, OpenNames
<1>6. MemberType(m)
  <2>1. /\ m.index = b /\ m.level = Len(names) /\ m.name = name
        /\ m.quoted = quoted /\ m.value = value
    OBVIOUS
  <2> HIDE DEF m
  <2> QED  BY <1>4, <1>5, <2>1 DEF MemberType
<1>7. /\ m.index = b /\ m.level = Len(names) /\ m.name = name
      /\ m.quoted = quoted /\ m.value = value
  OBVIOUS
<1> HIDE DEF m
<1>8. value \in Seq(Chars) /\ Len(value) \in Nat
  BY <1>6, <1>7, MemberTyped
<1>9. /\ x \in Seq(Blanks) /\ y \in Seq(Blanks) /\ z \in Seq(Blanks)
      /\ x \in Seq(Chars) /\ y \in Seq(Chars) /\ z \in Seq(Chars)
      /\ Len(x) \in Nat /\ Len(y) \in Nat /\ Len(z) \in Nat
  <2>1. x \in Seq(Blanks) /\ y \in Seq(Blanks) /\ z \in Seq(Blanks)
    BY JsonAssumption
  <2>2. Blanks \subseteq Chars
    BY IdleChars
  <2> HIDE DEF x, y, z
  <2>3. x \in Seq(Chars) /\ y \in Seq(Chars) /\ z \in Seq(Chars)
    BY <2>1, <2>2, SeqMonotonic
  <2> QED  BY <2>1, <2>3
<1>10. /\ q \in Seq(Chars) /\ Len(q) \in Nat
       /\ quoted => q = <<quote>> /\ Len(q) = 1
       /\ ~ quoted => Len(q) = 0
  <2>1. CASE quoted
    <3>1. q = <<quote>>
      BY <2>1
    <3> QED  BY <2>1, <3>1, IdleChars, OneQuote
  <2>2. CASE ~ quoted
    <3>1. q = <<>>
      BY <2>2
    <3> QED  BY <2>2, <3>1
  <2> QED  BY <2>1, <2>2
<1>11. HoldsName(t, Begun, name, x, y)
  <2> HIDE DEF x, y
  <2> QED  BY <1>2, <1>4, <1>9, NameTextHolds
<1>12. HoldsValue(text', t, q, value, z)
  <2>1. t \in Seq(Chars)
    BY <1>11 DEF HoldsName
  <2> HIDE DEF t, q, z
  <2> QED  BY <1>3, <1>8, <1>9, <1>10, <2>1, ValueTextHolds
<1> HIDE DEF t, q, x, y, z
<1>13. /\ t \in Seq(Chars) /\ Len(t) = w /\ Prefix(Begun, t)
       /\ Holds(t, b, <<quote>>) /\ Holds(t, b + 1, name) /\ Holds(t, b + l + 1, <<quote>>)
       /\ Holds(t, b + l + 2, x) /\ Holds(t, c, <<colon>>) /\ Holds(t, c + 1, y)
  <2>1. /\ Len(t) = b + l + Len(x) + Len(y) + 3
        /\ Holds(t, b + l + Len(x) + 2, <<colon>>) /\ Holds(t, b + l + Len(x) + 3, y)
    BY <1>11 DEF HoldsName
  <2>2. /\ b + l + Len(x) + Len(y) + 3 = w /\ b + l + Len(x) + 2 = c
        /\ b + l + Len(x) + 3 = c + 1
    BY <1>2, <1>4, <1>9
  <2>3. /\ t \in Seq(Chars) /\ Prefix(Begun, t)
        /\ Holds(t, b, <<quote>>) /\ Holds(t, b + 1, name) /\ Holds(t, b + l + 1, <<quote>>)
        /\ Holds(t, b + l + 2, x)
    BY <1>11 DEF HoldsName
  <2> HIDE DEF b, l, c, w
  <2> QED  BY <2>1, <2>2, <2>3
<1>14. /\ text' \in Seq(Chars) /\ Prefix(t, text')
       /\ d = w + Len(q) + Len(value) + Len(q) + Len(z)
       /\ Holds(text', w, q) /\ Holds(text', w + Len(q), value)
       /\ Holds(text', w + Len(q) + Len(value), q)
       /\ Holds(text', w + Len(q) + Len(value) + Len(q), z)
  <2> HIDE DEF w
  <2> QED  BY <1>12, <1>13 DEF HoldsValue
<1>15. /\ b \in Nat /\ l \in Nat /\ c \in Nat /\ w \in Nat /\ d \in Nat
       /\ b + 1 \in Nat /\ b + l + 1 \in Nat /\ b + l + 2 \in Nat /\ c + 1 \in Nat
       /\ b + l + 2 <= c /\ c < w /\ w <= d
       /\ c = (b + l + 2) + Len(x) /\ w = (c + 1) + Len(y)
  BY <1>2, <1>4, <1>8, <1>9, <1>10, <1>14
<1>16. /\ Prefix(Begun, text') /\ Prefix(text, text')
  <2>1. Prefix(Begun, text')
    BY <1>4, <1>13, <1>14, PrefixHolds
  <2> QED  BY <1>1, <1>4, <1>14, <2>1, PrefixHolds
<1> HIDE DEF b, l, c, w, d
<1>17. /\ Holds(text', b, <<quote>>) /\ Holds(text', b + 1, name)
       /\ Holds(text', b + l + 1, <<quote>>)
       /\ Holds(text', b + l + 2, x) /\ Holds(text', c, <<colon>>) /\ Holds(text', c + 1, y)
  <2>1. <<quote>> \in Seq(Chars) /\ <<colon>> \in Seq(Chars)
    BY IdleChars, OneQuote
  <2> QED  BY <1>2, <1>9, <1>13, <1>14, <1>15, <2>1, PrefixHolds
<1>18. TextType'
  <2>1. text' # <<>>
    BY <1>15, <1>14 DEF d
  <2>2. \A o \in members' : MemberType(o)
    BY <1>1, <1>3, <1>6
  <2> QED  BY <1>3, <1>5, <1>14, <2>1, <2>2 DEF TextType
<1>19. d <= N /\ N \in Nat /\ to \in [0 .. N - 1 -> Int]
  <2>1. /\ Len(text') <= N /\ N \in Nat
        /\ Padded(text', N) \in [0 .. N - 1 -> Int]
    BY <1>3, <1>5, <1>14, TypedPayload
  <2> QED  BY <2>1 DEF Payload, d
<1>20. /\ b = len \/ b = len + 1
       /\ Payload[len - 1] = open \/ to[len] \in {comma, close}
       /\ Inside(to, b) = 0 /\ Escaped(to, b) = 0 /\ Level(to, b) = Len(names)
       /\ \A k \in len .. b : Inside(to, k) = 0 /\ Escaped(to, k) = 0
  <2>1. len < Len(text')
    BY <1>4, <1>15, <1>16 DEF Prefix, d, b
  <2>2. to = Padded(text', MAX_JWT_PAYLOAD_LEN)
    BY DEF Payload
  <2> HIDE DEF to
  <2> QED  BY <1>14, <1>16, <1>19, <2>1, <2>2, AfterBegun DEF b, d
<1>21. NameWritten(to, b, name, c, w)
  <2>0. Len(text') <= N
    BY <1>19 DEF d
  <2>1. /\ to[b] = quote /\ to[b + l + 1] = quote /\ to[c] = colon
    BY <1>14, <1>15, <1>17, <1>19, <2>0, IdleChars, OneHolds DEF Payload
  <2>2. \A j \in 0 .. l - 1 : to[(b + 1) + j] = name[j + 1]
    <3> DEFINE a == b + 1
    <3>1. a \in Nat /\ Holds(text', a, name)
      BY <1>15, <1>17
    <3> HIDE DEF a
    <3>2. \A j \in 0 .. Len(name) - 1 : Padded(text', N)[a + j] = name[j + 1]
      BY <1>2, <1>14, <1>19, <2>0, <3>1, PaddedHolds
    <3> QED  BY <3>2 DEF Payload, l, a
  <2>3. AllBlank(to, b + l + 2, c)
    BY <1>9, <1>14, <1>15, <1>17, <1>19, <2>0, BlankHolds DEF Payload
  <2>4. AllBlank(to, c + 1, w)
    BY <1>9, <1>14, <1>15, <1>17, <1>19, <2>0, BlankHolds DEF Payload
  <2> QED  BY <2>1, <2>2, <2>3, <2>4 DEF NameWritten, l
<1>22. ValueEnd(m, w) = w + Len(q) + Len(value) + Len(q)
  <2>1. CASE quoted
    <3>1. Len(q) = 1 /\ ValueEnd(m, w) = w + Len(m.value) + 2
      BY <1>7, <1>10, <2>1, Zenon DEF ValueEnd
    <3> QED  BY <1>7, <1>8, <1>15, <3>1
  <2>2. CASE ~ quoted
    <3>1. Len(q) = 0 /\ ValueEnd(m, w) = w + Len(m.value) + 0
      BY <1>7, <1>10, <2>2, Zenon DEF ValueEnd
    <3> QED  BY <1>7, <1>8, <1>15, <3>1
  <2> QED  BY <2>1, <2>2
<1>23. ValueWritten(to, m, w, d)
  <2>0. Len(text') <= N
    BY <1>19 DEF d
  <2>1. /\ w + Len(q) \in Nat /\ w + Len(q) + Len(value) \in Nat
        /\ w + Len(q) + Len(value) + Len(q) \in Nat
    BY <1>8, <1>10, <1>15
  <2>2. ASSUME quoted PROVE to[w] = quote /\ to[w + Len(value) + 1] = quote
    <3> DEFINE f == w + Len(q) + Len(value)
    <3>1. q = <<quote>> /\ Len(q) = 1
      BY <1>10, <2>2, Zenon
    <3>2. /\ Holds(text', w, <<quote>>) /\ Holds(text', f, <<quote>>)
          /\ f = w + Len(value) + 1 /\ f \in Nat /\ quote \in Chars
      BY <1>8, <1>14, <1>15, <2>1, <3>1, IdleChars
    <3> HIDE DEF f
    <3>3. ASSUME NEW k \in Nat, Holds(text', k, <<quote>>) PROVE Padded(text', N)[k] = quote
      <4>1. text' \in Seq(Chars) /\ N \in Nat /\ quote \in Chars
        BY <1>14, <1>19, <3>2
      <4> QED  BY <2>0, <3>3, <4>1, OneHolds
    <3>4. Padded(text', N)[w] = quote /\ Padded(text', N)[f] = quote
      BY <1>15, <3>2, <3>3
    <3> QED  BY <3>2, <3>4 DEF Payload
  <2>3. \A j \in 0 .. Len(value) - 1 : to[(w + Len(q)) + j] = value[j + 1]
    BY <1>8, <1>14, <1>19, <2>0, <2>1, PaddedHolds, ZenonT(60) DEF Payload
  <2>4. Len(q) = IF m.quoted THEN 1 ELSE 0
    BY <1>7, <1>10
  <2>5. AllBlank(to, w + Len(q) + Len(value) + Len(q), d)
    <3>1. d = (w + Len(q) + Len(value) + Len(q)) + Len(z)
      BY <1>14
    <3> QED  BY <1>9, <1>14, <1>19, <2>0, <2>1, <3>1, BlankHolds DEF Payload
  <2> QED  BY <1>7, <1>22, <2>2, <2>3, <2>4, <2>5 DEF ValueWritten
<1> HIDE DEF to
<1>24. NamePlaced(to, b, name, c, w)
  <2>1. NameFits(N, b, name, c, w)
    BY <1>15, <1>19 DEF NameFits, l
  <2> QED  BY <1>2, <1>19, <1>20, <1>21, <2>1, NameRun
<1>25. ValuePlaced(to, m, w, d)
  <2>1. ValueFits(N, m, w, d)
    BY <1>8, <1>9, <1>10, <1>14, <1>15, <1>19, <1>22 DEF ValueFits
  <2>2. Inside(to, w) = 0 /\ Escaped(to, w) = 0
    BY <1>24 DEF NamePlaced
  <2> QED  BY <1>6, <1>19, <1>23, <2>1, <2>2, ValueRun
<1>26. Flat(to, b, d)
  <2>1. Flat(to, b, w) /\ Flat(to, w, d) /\ b <= w /\ w <= d
    BY <1>15, <1>24, <1>25 DEF NamePlaced, ValuePlaced
  <2> QED  BY <1>15, <2>1, FlatJoin
<1>27. MemberAt(to, d, m, c, w, d)
  <2>1. \A k \in b .. d : Level(to, k) = m.level
    BY <1>7, <1>20, <1>26 DEF Flat
  <2>2. ValueEnd(m, w) <= d /\ d <= d
    BY <1>8, <1>9, <1>10, <1>14, <1>15, <1>22
  <2>3. to[c] = colon
    BY <1>21 DEF NameWritten
  <2> QED  BY <1>7, <1>15, <1>24, <1>25, <2>1, <2>2, <2>3 DEF MemberAt, NamePlaced, ValuePlaced, l
<1>28. ASSUME NEW k \in len .. d, Escaped(to, k) = 1 PROVE Inside(to, k) = 1
  <2>1. k \in len .. b \/ k \in b .. d
    BY <1>4, <1>15, <1>20
  <2> QED  BY <1>20, <1>26, <1>28, <2>1 DEF Flat
<1>29. ASSUME NEW k \in len .. d - 1, Inside(to, k) # Inside(to, k + 1)
       PROVE  QuoteOfMember(to, d, members', k)
  <2>1. \/ k \in len .. b /\ k + 1 \in len .. b
        \/ k \in b .. d - 1
    BY <1>4, <1>15, <1>20
  <2>2. k \in m.index .. d - 1
    BY <1>7, <1>20, <1>29, <2>1
  <2>3. k \in QuotesOf(m.index, m.name) \/ (m.quoted /\ k \in QuotesOf(w, m.value))
    BY <1>6, <1>15, <1>27, <1>29, <2>2, QuotesInMember
  <2>4. m \in members' /\ c \in 0 .. d /\ w \in 0 .. d /\ d \in 0 .. d
    BY <1>3, <1>15
  <2> QED  BY <1>27, <2>3, <2>4 DEF QuoteOfMember
<1>30. /\ Inside(to, d) = 0 /\ Escaped(to, d) = 0
       /\ Level(to, d) = Len(names')
  <2>1. d \in b .. d
    BY <1>15
  <2> QED  BY <1>5, <1>20, <1>25, <1>26, <2>1 DEF ValuePlaced, Flat
<1>31. len < d /\ GoesOn(len)
  <2>1. len < d
    BY <1>4, <1>15, <1>20
  <2> QED  BY <1>20, <2>1 DEF GoesOn, to
<1>32. \A o \in members' \ members : \E f, g, h \in 0 .. d : MemberAt(to, d, o, f, g, h)
  <2>1. c \in 0 .. d /\ w \in 0 .. d /\ d \in 0 .. d
    BY <1>15
  <2> QED  BY <1>3, <1>27, <2>1
<1> QED  BY <1>3, <1>16, <1>18, <1>28, <1>29, <1>30, <1>31, <1>32, IssuedStep DEF to, d

LEMMA InitIssued == Init => Issued
<1> SUFFICES ASSUME Init PROVE Issued
  OBVIOUS
<1> DEFINE N == MAX_JWT_PAYLOAD_LEN
           in == Payload
<1>1. /\ text = <<open>> /\ names = << {} >> /\ members = {}
  BY DEF Init
<1>2. /\ text \in Seq(Chars) /\ Len(text) = 1 /\ text[1] = open /\ text # <<>>
      /\ names \in Seq(SUBSET Names) /\ Len(names) = 1
  BY <1>1, IdleChars, OneQuote
<1>3. Len(text) + Len(names) <= MaxText /\ N \in Nat /\ 2 <= N
  BY <1>2, LengthsAssumption, TextAssumption
<1>4. TextType
  BY <1>1, <1>2, <1>3 DEF TextType
<1>5. in \in [0 .. N - 1 -> Int] /\ in[0] = open
  <2>1. in \in [0 .. N - 1 -> Int]
    BY <1>2, <1>3, PaddedType DEF Payload
  <2>2. 0 \in 0 .. N - 1 /\ 0 < Len(text) /\ 0 + 1 = 1
    BY <1>2, <1>3
  <2>3. in[0] = text[0 + 1]
    BY <1>2, <1>3, <2>2, PaddedType DEF Payload
  <2> QED  BY <1>2, <2>1, <2>2, <2>3
<1> HIDE DEF in
<1>6. Escaped(in, 0) = 0 /\ Inside(in, 0) = 0 /\ Level(in, 0) = 0
  BY <1>3, <1>5, Scan
<1>7. Escaped(in, 1) = 0 /\ Inside(in, 1) = 0 /\ Level(in, 1) = 1
  <2>1. 0 \in 0 .. N - 1 /\ 0 + 1 = 1
    BY <1>3
  <2>2. in[0] \notin {quote, backslash}
    BY <1>5 DEF open, quote, backslash
  <2>3. Escaped(in, 0 + 1) = 0 /\ Inside(in, 0 + 1) = 0 /\ Level(in, 0 + 1) = Level(in, 0) + 1
    BY <1>3, <1>5, <1>6, <2>1, <2>2, OneChar
  <2> QED  BY <1>6, <2>1, <2>3
<1>8. /\ \A k \in 0 .. Len(text) : k = 0 \/ k = 1
      /\ \A k \in 0 .. Len(text) - 1 : k = 0 /\ k + 1 = 1
  BY <1>2
<1>9. Ended
  BY <1>2, <1>6, <1>7, <1>8 DEF Ended, in
<1>10. MembersPlaced
  BY <1>1 DEF MembersPlaced
<1>11. QuotesKnown
  BY <1>6, <1>7, <1>8 DEF QuotesKnown, in
<1> QED  BY <1>4, <1>9, <1>10, <1>11 DEF Issued

--------------------------------------------------------------------------------
\* Signals are made of the whole payload, once.
MadeOfMember(mode, m) ==
  /\ Deserialized(mode, m)
  /\ Parses(text, key) /\ Fits(text, Parse(text, key), key, ValueUsed(mode, m))
  /\ signals = [by |-> "service", mode |-> mode,
                field |-> signals_for_field(text, key, ValueUsed(mode, m), mode = "skip")]

MadeByService == \E mode \in Modes : \E m \in members : MadeOfMember(mode, m)

MadeByAnyone ==
  \E mode \in Modes \ {"skip"} :
    \E f \in Parts(Hints(Payload), Kind(mode)) :
      /\ Accepts(Hints(Payload), mode, f)
      /\ signals = [by |-> "anyone", mode |-> mode, field |-> f]

Made == signals = None \/ (names = <<>> /\ (MadeByService \/ MadeByAnyone))

IInv == Issued /\ Made

LEMMA StepIInv ==
  ASSUME IInv, [Next]_vars
  PROVE  IInv'
<1> USE DEF IInv
<1>1. CASE signals = None
  <2>1. ASSUME NEW name \in Names, OpenObject(name) PROVE IInv'
    <3>1. Issued'
      BY <2>1, OpenIssued
    <3>2. signals' = None
      BY <1>1, <2>1 DEF OpenObject
    <3> QED  BY <3>1, <3>2 DEF Made
  <2>2. ASSUME NEW name \in Names, NEW spacing \in Spacings, NEW quoted \in BOOLEAN,
               NEW value, value \in IF quoted THEN Strings ELSE Numbers,
               Member(name, spacing, quoted, value)
        PROVE  IInv'
    <3>1. Issued'
      BY <2>2, MemberIssued
    <3>2. signals' = None
      BY <1>1, <2>2 DEF Member
    <3> QED  BY <3>1, <3>2 DEF Made
  <2>3. CASE CloseObject
    <3>1. Issued'
      BY <2>3, CloseIssued
    <3>2. signals' = None
      BY <1>1, <2>3 DEF CloseObject
    <3> QED  BY <3>1, <3>2 DEF Made
  <2>4. ASSUME UNCHANGED <<text, names, members>> PROVE Issued'
    <3>1. Payload' = Payload
      BY <2>4 DEF Payload
    <3>2. TextType'
      BY <2>4 DEF Issued, TextType
    <3>3. Ended' /\ MembersPlaced' /\ QuotesKnown'
      BY <2>4, <3>1 DEF Issued, Ended, MembersPlaced, QuotesKnown
    <3> QED  BY <3>2, <3>3 DEF Issued
  <2>5. ASSUME NEW mode \in Modes, Derive(mode) PROVE IInv'
    <3>1. UNCHANGED <<text, names, members>>
      BY <2>5 DEF Derive
    <3>2. MadeByService' /\ names' = <<>>
      <4>1. PICK m \in members :
              /\ Deserialized(mode, m)
              /\ Parses(text, key) /\ Fits(text, Parse(text, key), key, ValueUsed(mode, m))
              /\ signals' = [by |-> "service", mode |-> mode,
                             field |-> signals_for_field(text, key, ValueUsed(mode, m), mode = "skip")]
        BY <2>5 DEF Derive
      <4>2. Deserialized(mode, m)' /\ ValueUsed(mode, m)' = ValueUsed(mode, m)
        BY <3>1, <4>1 DEF Deserialized, ValueUsed
      <4>3. MadeOfMember(mode, m)'
        BY <3>1, <4>1, <4>2 DEF MadeOfMember
      <4> QED  BY <2>5, <3>1, <4>3 DEF Derive, MadeByService
    <3> QED  BY <2>4, <3>1, <3>2 DEF Made
  <2>6. ASSUME NEW mode \in Modes \ {"skip"}, Prove(mode) PROVE IInv'
    <3>1. UNCHANGED <<text, names, members>>
      BY <2>6 DEF Prove
    <3>2. MadeByAnyone' /\ names' = <<>>
      <4>1. PICK f \in Parts(Hints(Payload), Kind(mode)) :
              /\ Accepts(Hints(Payload), mode, f)
              /\ signals' = [by |-> "anyone", mode |-> mode, field |-> f]
        BY <2>6 DEF Prove, Payload
      <4>2. f \in Parts(Hints(Payload), Kind(mode))'
        BY <3>1, ZenonT(60) DEF Payload, Parts
      <4>3. Accepts(Hints(Payload), mode, f)'
        BY <3>1, <4>1 DEF Payload
      <4>4. names' = <<>>
        BY <2>6 DEF Prove
      <4> QED  BY <4>1, <4>2, <4>3, <4>4 DEF MadeByAnyone
    <3> QED  BY <2>4, <3>1, <3>2 DEF Made
  <2>7. CASE UNCHANGED vars
    <3>1. UNCHANGED <<text, names, members>> /\ signals' = None
      BY <1>1, <2>7 DEF vars
    <3> QED  BY <2>4, <3>1 DEF Made
  <2>8. CASE Done
    BY <2>7, <2>8 DEF Done
  <2>9. \A name \in Names, spacing \in Spacings :
          /\ \A value \in Strings : Member(name, spacing, TRUE, value) => IInv'
          /\ \A value \in Numbers : Member(name, spacing, FALSE, value) => IInv'
    <3>1. TRUE \in BOOLEAN /\ FALSE \in BOOLEAN
      OBVIOUS
    <3> QED  BY <2>2, <3>1
  <2> QED  BY <2>1, <2>3, <2>5, <2>6, <2>7, <2>8, <2>9 DEF Next
<1>2. CASE signals # None
  <2>1. names = <<>>
    BY <1>2 DEF Made
  <2>2. UNCHANGED vars
    BY <1>2, <2>1
      DEF Next, OpenObject, Member, NewName, CloseObject, Derive, Prove, Done, vars
  <2>3. UNCHANGED <<text, names, members, signals>>
    BY <2>2 DEF vars
  <2>4. Payload' = Payload
    BY <2>3 DEF Payload
  <2>5. TextType'
    BY <2>3 DEF Issued, TextType
  <2>6. Ended' /\ MembersPlaced' /\ QuotesKnown'
    BY <2>3, <2>4 DEF Issued, Ended, MembersPlaced, QuotesKnown
  <2>7. Made'
    <3>1. CASE MadeByService
      <4>1. PICK mode \in Modes, m \in members : MadeOfMember(mode, m)
        BY <3>1 DEF MadeByService
      <4>2. Deserialized(mode, m)' /\ ValueUsed(mode, m)' = ValueUsed(mode, m)
        BY <2>3, <4>1 DEF MadeOfMember, Deserialized, ValueUsed
      <4>3. MadeOfMember(mode, m)'
        BY <2>3, <4>1, <4>2 DEF MadeOfMember
      <4> QED  BY <2>1, <2>3, <4>3 DEF Made, MadeByService
    <3>2. CASE MadeByAnyone
      <4>0. PICK mode \in Modes \ {"skip"} :
              \E f \in Parts(Hints(Payload), Kind(mode)) :
                /\ Accepts(Hints(Payload), mode, f)
                /\ signals = [by |-> "anyone", mode |-> mode, field |-> f]
        BY <3>2 DEF MadeByAnyone
      <4>1. PICK f \in Parts(Hints(Payload), Kind(mode)) :
              /\ Accepts(Hints(Payload), mode, f)
              /\ signals = [by |-> "anyone", mode |-> mode, field |-> f]
        BY <4>0
      <4>2. f \in Parts(Hints(Payload), Kind(mode))'
        BY <2>3, ZenonT(60) DEF Payload, Parts
      <4>3. Accepts(Hints(Payload), mode, f)'
        BY <2>3, <4>1 DEF Payload
      <4>4. MadeByAnyone'
        BY <2>3, <4>1, <4>2, <4>3 DEF MadeByAnyone
      <4> QED  BY <2>1, <2>3, <4>4 DEF Made
    <3> QED  BY <1>2, <3>1, <3>2 DEF Made
  <2> QED  BY <2>5, <2>6, <2>7 DEF Issued
<1> QED  BY <1>1, <1>2

\* In every text an issuer writes, each member is where it says and every quote that
\* is not escaped belongs to a member or to the name of an object, by the circuit's
\* own account of strings and nesting; signals are made once, of the whole payload.
THEOREM Written == Spec => []IInv
<1>1. Init => IInv
  <2>1. Init => Made
    BY DEF Init, Made
  <2> QED  BY <2>1, InitIssued DEF IInv
<1>2. IInv /\ [Next]_vars => IInv'
  BY StepIInv
<1> QED  BY <1>1, <1>2, PTL DEF Spec

--------------------------------------------------------------------------------
\* What the service finds.
LEMMA MinIs ==
  ASSUME NEW S \in SUBSET Nat, S # {}
  PROVE  Min(S) \in S /\ \A k \in S : Min(S) <= k
<1>1. \E m \in S : \A k \in S : m <= k
  BY Least
<1> QED  BY <1>1 DEF Min

\* r is the first position from i on with one of the characters, or the end.
FirstFrom(s, i, chars, r) ==
  /\ r \in Nat /\ r <= Len(s)
  /\ i <= Len(s) => i <= r
  /\ r < Len(s) => i <= r /\ charAt(s, r) \in chars
  /\ \A j \in i .. r - 1 : charAt(s, j) \notin chars

LEMMA FromIs ==
  ASSUME NEW S, NEW s \in Seq(S), NEW i \in Nat, NEW chars
  PROVE  FirstFrom(s, i, chars, From(s, i, chars))
<1> DEFINE M == {Len(s)} \cup {j \in i .. Len(s) - 1 : charAt(s, j) \in chars}
           r == From(s, i, chars)
<1>1. Len(s) \in Nat
  OBVIOUS
<1>2. M \in SUBSET Nat /\ M # {} /\ Len(s) \in M
  BY <1>1
<1>3. r = Min(M)
  BY DEF From
<1>4. r \in M /\ \A k \in M : r <= k
  <2> HIDE DEF M, r
  <2> QED  BY <1>2, <1>3, MinIs
<1>5. r \in Nat /\ r <= Len(s)
  BY <1>2, <1>4
<1>6. r < Len(s) => i <= r /\ charAt(s, r) \in chars
  <2> SUFFICES ASSUME r < Len(s) PROVE i <= r /\ charAt(s, r) \in chars
    OBVIOUS
  <2>1. r # Len(s)
    BY <1>1, <1>5
  <2> HIDE DEF r
  <2> QED  BY <1>1, <1>4, <1>5, <2>1
<1>7. i <= Len(s) => i <= r
  <2>1. r = Len(s) \/ r < Len(s)
    BY <1>1, <1>5
  <2> QED  BY <1>6, <2>1
<1>8. ASSUME NEW j \in i .. r - 1 PROVE charAt(s, j) \notin chars
  <2>1. j \in i .. Len(s) - 1 /\ ~ (r <= j)
    BY <1>1, <1>5
  <2>2. j \notin M
    <3> HIDE DEF M, r
    <3> QED  BY <1>4, <2>1
  <2> QED  BY <2>1, <2>2
<1> HIDE DEF r
<1> QED  BY <1>5, <1>6, <1>7, <1>8 DEF FirstFrom, r

\* The positions of a field: of its name, the colon, the value, what ends the value and
\* what ends the field.
Positions(p, first, q) ==
  /\ p.index \in Found(text, key) /\ p.index \in Nat
  /\ first \in Nat /\ q \in {0, 1}
  /\ FirstFrom(text, p.index + Len(key) + 2, NotSpace, p.colon)
  /\ FirstFrom(text, p.colon + 1, NotSpace, first)
  /\ q = 1 <=> first < Len(text) /\ charAt(text, first) = quote
  /\ p.value = first + q
  /\ q = 1 => FirstFrom(text, first + 2, {quote}, p.end)
  /\ q = 0 => FirstFrom(text, first, {space, comma, close}, p.end)
  /\ FirstFrom(text, p.end + q, NotSpace, p.delimiter)

LEMMA ParseIs ==
  ASSUME text \in Seq(Chars), Found(text, key) # {}
  PROVE  \E first, q : Positions(Parse(text, key), first, q)
<1> DEFINE index == Min(Found(text, key))
           colonAt == From(text, index + Len(key) + 2, NotSpace)
           first  == From(text, colonAt + 1, NotSpace)
           quoted == first < Len(text) /\ charAt(text, first) = quote
           end    == IF quoted THEN From(text, first + 2, {quote})
                     ELSE From(text, first, {space, comma, close})
           q == Bit(quoted)
           del == From(text, end + q, NotSpace)
           p == Parse(text, key)
<1>1. Len(key) \in Nat
  BY KeyAssumption
<1>2. Found(text, key) \subseteq Nat
  BY DEF Found
<1>3. index \in Found(text, key) /\ index \in Nat
  BY <1>2, MinIs
<1>4. p = [index |-> index, colon |-> colonAt, value |-> first + q, end |-> end,
           delimiter |-> del]
  BY DEF Parse
<1>5. /\ p.index = index /\ p.colon = colonAt /\ p.value = first + q /\ p.end = end
      /\ p.delimiter = del
  BY <1>4
<1> HIDE DEF p, index
<1>6. FirstFrom(text, index + Len(key) + 2, NotSpace, colonAt) /\ colonAt \in Nat
  <2>1. index + Len(key) + 2 \in Nat
    BY <1>1, <1>3
  <2>2. FirstFrom(text, index + Len(key) + 2, NotSpace, colonAt)
    BY <2>1, FromIs
  <2> QED  BY <2>2 DEF FirstFrom
<1> HIDE DEF colonAt
<1>7. FirstFrom(text, colonAt + 1, NotSpace, first) /\ first \in Nat
  <2>1. colonAt + 1 \in Nat
    BY <1>6
  <2>2. FirstFrom(text, colonAt + 1, NotSpace, first)
    BY <2>1, FromIs
  <2> QED  BY <2>2 DEF FirstFrom
<1> HIDE DEF first
<1>8. q \in {0, 1} /\ (q = 1 <=> quoted)
  BY DEF Bit
<1>9. /\ q = 1 => FirstFrom(text, first + 2, {quote}, end)
      /\ q = 0 => FirstFrom(text, first, {space, comma, close}, end)
      /\ end \in Nat
  <2>1. CASE quoted
    <3>1. end = From(text, first + 2, {quote}) /\ first + 2 \in Nat
      BY <1>7, <2>1
    <3>2. FirstFrom(text, first + 2, {quote}, end)
      BY <3>1, FromIs
    <3>3. q = 1 /\ end \in Nat
      BY <1>8, <2>1, <3>2 DEF FirstFrom
    <3> HIDE DEF end, q
    <3> QED  BY <3>2, <3>3
  <2>2. CASE ~ quoted
    <3>1. end = From(text, first, {space, comma, close})
      BY <2>2
    <3>2. FirstFrom(text, first, {space, comma, close}, end)
      BY <1>7, <3>1, FromIs
    <3>3. q = 0 /\ end \in Nat
      BY <1>8, <2>2, <3>2 DEF FirstFrom
    <3> HIDE DEF end, q
    <3> QED  BY <3>2, <3>3
  <2> QED  BY <2>1, <2>2
<1>10. FirstFrom(text, end + q, NotSpace, del)
  <2>1. end + q \in Nat
    BY <1>8, <1>9
  <2> QED  BY <2>1, FromIs
<1> HIDE DEF end, q, del
<1>11. Positions(p, first, q)
  BY <1>3, <1>5, <1>6, <1>7, <1>8, <1>9, <1>10 DEF Positions
<1> HIDE DEF first
<1> QED  BY <1>11 DEF p

\* The positions are in order, and in the text, if the service can parse the field.
LEMMA InOrder ==
  ASSUME text \in Seq(Chars), Parses(text, key), NEW p, p = Parse(text, key),
         NEW first, NEW q, Positions(p, first, q)
  PROVE  /\ {p.index, p.colon, p.value, p.end, p.delimiter} \subseteq Nat
         /\ p.index + Len(key) + 2 <= p.colon /\ p.colon < first /\ p.value = first + q
         /\ p.value + q <= p.end /\ p.end + q <= p.delimiter /\ p.delimiter < Len(text)
         /\ charAt(text, p.colon) = colon /\ charAt(text, p.delimiter) \in {comma, close}
<1>1. Len(key) \in Nat /\ Len(text) \in Nat
  BY KeyAssumption
<1>2. /\ p.delimiter < Len(text) /\ charAt(text, p.colon) = colon
      /\ charAt(text, p.delimiter) \in {comma, close}
  BY DEF Parses
<1>3. /\ p.index \in Nat /\ first \in Nat /\ p.colon \in Nat /\ p.end \in Nat /\ p.delimiter \in Nat
      /\ q \in {0, 1}
  BY DEF Positions, FirstFrom
<1>4. p.end + q <= p.delimiter
  BY <1>1, <1>2, <1>3 DEF Positions, FirstFrom
<1>5. p.end < Len(text)
  BY <1>1, <1>2, <1>3, <1>4
<1>6. /\ q = 1 => first + 2 <= p.end
      /\ q = 0 => first <= p.end
  BY <1>1, <1>3, <1>5 DEF Positions, FirstFrom
<1>7. first < Len(text)
  BY <1>1, <1>3, <1>5, <1>6
<1>8. p.colon + 1 <= first
  BY <1>1, <1>3, <1>7 DEF Positions, FirstFrom
<1>9. p.index + Len(key) + 2 <= p.colon
  BY <1>1, <1>3, <1>7, <1>8 DEF Positions, FirstFrom
<1>10. p.value = first + q
  BY DEF Positions
<1> QED  BY <1>2, <1>3, <1>4, <1>6, <1>8, <1>9, <1>10, SMTT(30)

--------------------------------------------------------------------------------
\* The type invariant.
SignalsType(f) ==
  /\ f.index \in 0 .. Len(text) - 1
  /\ f.field_len \in 0 .. maxKVPairLen /\ f.value_len \in 0 .. maxValueLen
  /\ f.field \in [0 .. maxKVPairLen - 1 -> 0 .. 127]

LEMMA FieldTyped ==
  ASSUME text \in Seq(Chars), NEW i \in Nat, NEW d \in Nat, i <= d, d < Len(text)
  PROVE  /\ Slice(text, i, d + 1 - i) \in Seq(Chars) /\ Len(Slice(text, i, d + 1 - i)) = d + 1 - i
         /\ Padded(Slice(text, i, d + 1 - i), maxKVPairLen) \in [0 .. maxKVPairLen - 1 -> 0 .. 127]
<1> DEFINE l == d + 1 - i
           s == Slice(text, i, l)
<1>1. l \in Nat /\ i + l <= Len(text) /\ maxKVPairLen \in Nat
  BY LengthsAssumption
<1>2. s \in Seq(Chars) /\ Len(s) = l
  <2> HIDE DEF l
  <2> QED  BY <1>1, Sliced
<1> HIDE DEF s
<1>3. Padded(s, maxKVPairLen) \in [0 .. maxKVPairLen - 1 -> 0 .. 127]
  BY <1>1, <1>2, PaddedType
<1> QED  BY <1>2, <1>3 DEF s

LEMMA ServiceTyped ==
  ASSUME text \in Seq(Chars), Parses(text, key), NEW value, Len(value) \in Nat,
         Fits(text, Parse(text, key), key, value), NEW skip \in BOOLEAN
  PROVE  SignalsType(signals_for_field(text, key, value, skip))
<1> DEFINE p == Parse(text, key)
           whole == WholeField(text, p)
           f == signals_for_field(text, key, value, skip)
<1>1. \E first, q : Positions(p, first, q)
  BY ParseIs DEF Parses
<1>2. PICK first, q : Positions(p, first, q)
  <2> HIDE DEF p
  <2> QED  BY <1>1
<1>3. /\ {p.index, p.colon, p.value, p.end, p.delimiter} \subseteq Nat
      /\ p.index + Len(key) + 2 <= p.colon /\ p.colon < first /\ p.value = first + q
      /\ p.value + q <= p.end /\ p.end + q <= p.delimiter /\ p.delimiter < Len(text)
  <2>1. p = Parse(text, key)
    OBVIOUS
  <2> HIDE DEF p
  <2> QED  BY <1>2, <2>1, InOrder
<1>4. /\ f.index = p.index /\ f.field_len = Len(whole) /\ f.value_len = Len(value)
      /\ f.field = Padded(whole, maxKVPairLen)
  BY DEF signals_for_field, Signals
<1>5. Len(whole) <= maxKVPairLen /\ Len(value) <= maxValueLen
  BY DEF Fits
<1> HIDE DEF p, f
<1>6. /\ p.index \in Nat /\ p.delimiter \in Nat /\ p.index <= p.delimiter
      /\ q \in {0, 1} /\ first \in Nat /\ Len(key) \in Nat
      /\ p.index < Len(text) /\ Len(text) \in Nat
  <2>1. q \in {0, 1} /\ first \in Nat /\ Len(key) \in Nat
    BY <1>2, KeyAssumption DEF Positions
  <2>2. p.index \in Nat /\ p.colon \in Nat /\ p.value \in Nat /\ p.end \in Nat /\ p.delimiter \in Nat
    BY <1>3
  <2>3. Len(text) \in Nat
    OBVIOUS
  <2> QED  BY <1>3, <2>1, <2>2, <2>3, SMTT(30)
<1>7. whole \in Seq(Chars) /\ Padded(whole, maxKVPairLen) \in [0 .. maxKVPairLen - 1 -> 0 .. 127]
  BY <1>3, <1>6, FieldTyped DEF WholeField
<1>8. maxValueLen \in Nat
  BY LengthsAssumption
<1>9. f.index \in 0 .. Len(text) - 1
  BY <1>4, <1>6
<1> HIDE DEF whole
<1>10. Len(whole) \in Nat /\ Len(value) \in Nat /\ maxKVPairLen \in Nat
  BY <1>7, <1>8, LengthsAssumption
<1> QED  BY <1>4, <1>5, <1>7, <1>8, <1>9, <1>10 DEF SignalsType, f

\* What anyone's signals are: parts of the payload, from i to d, with v to e the value.
PartAt(mode, f, i, c, v, e, d) ==
  /\ i \in Found(text, key) /\ i \in 0 .. Len(text) - 1
  /\ c \in 0 .. Len(text) - 1 /\ charAt(text, c) = colon
  /\ v \in Nat /\ e \in Nat
  /\ mode = "unquoted" => charAt(text, v) \in Digits /\ charAt(text, e - 1) \in Digits
  /\ mode # "unquoted" => charAt(text, v - 1) = quote /\ charAt(text, e) = quote
  /\ d \in 0 .. Len(text) - 1 /\ charAt(text, d) \in {comma, close}
  /\ i < c /\ c < v /\ v < e /\ e <= d
  /\ d - i < maxKVPairLen /\ e - v <= maxValueLen
  /\ f.index = i /\ f.colon_index = c - i /\ f.value_index = v - i
  /\ f.field = Padded(Slice(text, i, d + 1 - i), maxKVPairLen)
  /\ f.field_len = Len(Slice(text, i, d + 1 - i))
  /\ f.name = Padded(key, maxNameLen) /\ f.name_len = Len(key)
  /\ f.value = Padded(Slice(text, v, e - v), maxValueLen)
  /\ f.value_len = Len(Slice(text, v, e - v)) /\ f.skip_checks = FALSE
  /\ DOMAIN f.string_bodies = 0 .. maxKVPairLen - 1

\* The value the service uses is a sequence: the parser's, decoded or none.
LEMMA ValueTyped ==
  ASSUME text \in Seq(Chars), Parses(text, key), NEW mode, NEW m, m.value \in Seq(Chars)
  PROVE  Len(ValueUsed(mode, m)) \in Nat
<1>1. Len(Decoded(m.value)) \in Nat
  <2> DEFINE s == m.value
  <2>1. CASE backslash \notin Range(s)
    BY <2>1 DEF Decoded
  <2>2. CASE ~ (backslash \notin Range(s))
    <3> DEFINE parity == adjacent_backslash_parity(Padded(s, Len(s)))
               escaped == {i \in 2 .. Len(s) : parity[i - 2] = 1}
               codes == UNION {i + 1 .. i + 4 : i \in {j \in escaped : s[j] = 117}}
               begins == (1 .. Len(s)) \ (escaped \cup codes)
               nth(j) == CHOOSE i \in begins : Cardinality({k \in begins : k <= i}) = j
               char(i) == IF s[i] = backslash THEN Unescaped(s, i + 1) ELSE s[i]
               n == Cardinality(begins)
    <3>1. Decoded(s) = [j \in 1 .. n |-> char(nth(j))]
      BY <2>2 DEF Decoded
    <3>2. n \in Nat
      <4> HIDE DEF escaped, codes
      <4>1. IsFiniteSet(1 .. Len(s)) /\ begins \subseteq 1 .. Len(s)
        BY FS_Interval
      <4> HIDE DEF begins
      <4> QED  BY <4>1, FS_Subset, FS_CardinalityType
    <3> HIDE DEF n, nth, char, s
    <3> QED  BY <3>1, <3>2 DEF s
  <2> QED  BY <2>1, <2>2
<1>2. Len(Value(text, Parse(text, key))) \in Nat
  <2> DEFINE p == Parse(text, key)
             l == p.end - p.value
  <2>1. \E first, q : Positions(p, first, q)
    BY ParseIs DEF Parses
  <2>2. PICK first, q : Positions(p, first, q)
    <3> HIDE DEF p
    <3> QED  BY <2>1
  <2>3. /\ {p.index, p.colon, p.value, p.end, p.delimiter} \subseteq Nat
        /\ p.value + q <= p.end /\ p.end + q <= p.delimiter /\ p.delimiter < Len(text)
        /\ q \in {0, 1}
    <3>1. p = Parse(text, key)
      OBVIOUS
    <3> HIDE DEF p
    <3> QED  BY <2>2, <3>1, InOrder DEF Positions
  <2> HIDE DEF p
  <2>4. p.value \in Nat /\ p.end \in Nat /\ p.delimiter \in Nat /\ Len(text) \in Nat
    BY <2>3
  <2>5. l \in Nat /\ p.value + l <= Len(text)
    BY <2>3, <2>4
  <2> HIDE DEF l
  <2>6. Slice(text, p.value, l) \in Seq(Chars)
    BY <2>4, <2>5, Sliced
  <2> QED  BY <2>6 DEF Value, l, p
<1>3. CASE mode \in {"aud", "skip"}
  <2>1. ValueUsed(mode, m) \in {<<>>, Decoded(m.value)}
    BY <1>3 DEF ValueUsed, private_aud_value
  <2> QED  BY <1>1, <2>1
<1>4. CASE mode \notin {"aud", "skip"}
  BY <1>2, <1>4 DEF ValueUsed
<1> QED  BY <1>3, <1>4

LEMMA PartsAre ==
  ASSUME text \in Seq(Chars), NEW hints, NEW mode \in {"quoted", "unquoted"},
         NEW f \in Parts(hints, mode)
  PROVE  \E i, c, v, e, d : PartAt(mode, f, i, c, v, e, d)
<1> DEFINE at(chars) == {i \in 0 .. Len(text) - 1 : charAt(text, i) \in chars}
           next(chars) == {i + 1 : i \in at(chars)}
           bodies == [i \in 1 .. Len(text) |-> hints.string_bodies[i - 1]]
           starts == IF mode = "unquoted" THEN at(Digits) ELSE next({quote})
           ends   == IF mode = "unquoted" THEN next(Digits) ELSE at({quote})
           inOrder(i, c, v, e, d) ==
             /\ i < c /\ c < v /\ v < e /\ e <= d
             /\ d - i < maxKVPairLen /\ e - v <= maxValueLen
           F(i, c, v, e, d) ==
             Signals(Slice(text, i, d + 1 - i), Slice(bodies, i, d + 1 - i), key,
                     Slice(text, v, e - v), i, c - i, v - i, FALSE)
<1>1. PICK t \in Found(text, key) \X at({colon}) \X starts \X ends \X at({comma, close}) :
        /\ inOrder(t[1], t[2], t[3], t[4], t[5])
        /\ f = F(t[1], t[2], t[3], t[4], t[5])
  <2> HIDE DEF bodies, starts, ends
  <2> QED  BY DEF Parts, bodies, starts, ends
<1> DEFINE i == t[1]
           c == t[2]
           v == t[3]
           e == t[4]
           d == t[5]
<1>2. /\ i \in Found(text, key) /\ c \in at({colon}) /\ v \in starts /\ e \in ends
      /\ d \in at({comma, close})
  <2> HIDE DEF at, starts, ends
  <2> QED  BY <1>1
<1>3. inOrder(i, c, v, e, d) /\ f = F(i, c, v, e, d)
  BY <1>1
<1> HIDE DEF i, c, v, e, d
<1>9. DOMAIN f.string_bodies = 0 .. maxKVPairLen - 1
  <2>1. f.string_bodies = Padded(Slice(bodies, i, d + 1 - i), maxKVPairLen)
    BY <1>3 DEF Signals
  <2> QED  BY <2>1 DEF Padded
<1>4. Len(text) \in Nat /\ c \in 0 .. Len(text) - 1 /\ d \in 0 .. Len(text) - 1 /\ i \in Nat
      /\ charAt(text, c) = colon /\ charAt(text, d) \in {comma, close}
  BY <1>2 DEF Found
<1>5. i \in 0 .. Len(text) - 1
  BY <1>3, <1>4
<1>6. \A chars : \A k \in next(chars) : k \in Nat /\ charAt(text, k - 1) \in chars
  <2> SUFFICES ASSUME NEW chars, NEW k \in next(chars)
               PROVE  k \in Nat /\ charAt(text, k - 1) \in chars
    OBVIOUS
  <2>1. PICK j \in at(chars) : k = j + 1
    OBVIOUS
  <2>2. j \in Nat /\ charAt(text, j) \in chars /\ k - 1 = j
    BY <1>4, <2>1
  <2> QED  BY <2>1, <2>2
<1>7. CASE mode = "unquoted"
  <2>1. v \in at(Digits) /\ e \in next(Digits)
    BY <1>2, <1>7
  <2>2. v \in Nat /\ charAt(text, v) \in Digits
    BY <1>4, <2>1
  <2>3. e \in Nat /\ charAt(text, e - 1) \in Digits
    <3> HIDE DEF next
    <3> QED  BY <1>6, <2>1
  <2>4. PartAt(mode, f, i, c, v, e, d)
    BY <1>2, <1>3, <1>4, <1>5, <1>7, <1>9, <2>2, <2>3 DEF PartAt, Signals
  <2> QED  BY <2>4
<1>8. CASE mode # "unquoted"
  <2>1. v \in next({quote}) /\ e \in at({quote})
    BY <1>2, <1>8
  <2>2. v \in Nat /\ charAt(text, v - 1) = quote
    <3>1. \A k \in next({quote}) : k \in Nat /\ charAt(text, k - 1) \in {quote}
      <4> HIDE DEF next
      <4> QED  BY <1>6
    <3> HIDE DEF next
    <3>2. v \in Nat /\ charAt(text, v - 1) \in {quote}
      BY <2>1, <3>1
    <3> QED  BY <3>2
  <2>3. e \in Nat /\ charAt(text, e) = quote
    BY <1>4, <2>1
  <2>4. PartAt(mode, f, i, c, v, e, d)
    BY <1>2, <1>3, <1>4, <1>5, <1>8, <1>9, <2>2, <2>3 DEF PartAt, Signals
  <2> QED  BY <2>4
<1> QED  BY <1>7, <1>8

LEMMA AnyoneTyped ==
  ASSUME text \in Seq(Chars), NEW mode, NEW f, NEW i, NEW c, NEW v, NEW e, NEW d,
         PartAt(mode, f, i, c, v, e, d)
  PROVE  /\ SignalsType(f) /\ f.value_len = e - v /\ f.field_len = d + 1 - i
         /\ Slice(text, i, d + 1 - i) \in Seq(Chars) /\ Slice(text, v, e - v) \in Seq(Chars)
<1>1. /\ Len(text) \in Nat /\ i \in 0 .. Len(text) - 1 /\ d \in 0 .. Len(text) - 1
      /\ v \in Nat /\ e \in Nat /\ v < e /\ e <= d /\ i < d
      /\ d - i < maxKVPairLen /\ e - v <= maxValueLen
      /\ maxKVPairLen \in Nat /\ maxValueLen \in Nat
  <2>1. /\ i \in 0 .. Len(text) - 1 /\ c \in 0 .. Len(text) - 1 /\ d \in 0 .. Len(text) - 1
        /\ i < c /\ c < v /\ v < e /\ e <= d /\ v \in Nat /\ e \in Nat
        /\ d - i < maxKVPairLen /\ e - v <= maxValueLen
    BY DEF PartAt
  <2>2. Len(text) \in Nat
    OBVIOUS
  <2>3. maxKVPairLen \in Nat /\ maxValueLen \in Nat
    BY LengthsAssumption
  <2> QED  BY <2>1, <2>2, <2>3
<1>2. /\ Slice(text, i, d + 1 - i) \in Seq(Chars) /\ Len(Slice(text, i, d + 1 - i)) = d + 1 - i
      /\ Padded(Slice(text, i, d + 1 - i), maxKVPairLen) \in [0 .. maxKVPairLen - 1 -> 0 .. 127]
  <2>1. i \in Nat /\ d \in Nat /\ i <= d /\ d < Len(text)
    BY <1>1
  <2> QED  BY <2>1, FieldTyped
<1>3. Slice(text, v, e - v) \in Seq(Chars) /\ Len(Slice(text, v, e - v)) = e - v
  <2> DEFINE l == e - v
  <2>1. l \in Nat /\ v + l <= Len(text)
    BY <1>1
  <2> HIDE DEF l
  <2>2. Slice(text, v, l) \in Seq(Chars) /\ Len(Slice(text, v, l)) = l
    BY <1>1, <2>1, Sliced
  <2> QED  BY <2>2 DEF l
<1>4. /\ f.index = i /\ f.field_len = d + 1 - i /\ f.value_len = e - v
      /\ f.field = Padded(Slice(text, i, d + 1 - i), maxKVPairLen)
  BY <1>2, <1>3 DEF PartAt
<1>5. d + 1 - i \in 0 .. maxKVPairLen /\ e - v \in 0 .. maxValueLen
  BY <1>1
<1> QED  BY <1>1, <1>2, <1>3, <1>4, <1>5 DEF SignalsType

LEMMA IInvTypeOK == IInv => TypeOK
<1> SUFFICES ASSUME IInv PROVE TypeOK
  OBVIOUS
<1>1. text \in Seq(Chars) /\ Len(text) + Len(names) <= MaxText /\ Len(text) \in Nat
      /\ \A m \in members : MemberType(m)
  BY DEF IInv, Issued, TextType
<1>2. ASSUME NEW m \in members PROVE m.index < Len(text) /\ m.name \in Names
  <2>1. PICK c \in 0 .. Len(text), w \in 0 .. Len(text), d \in 0 .. Len(text) :
          MemberAt(Payload, Len(text), m, c, w, d)
    BY DEF IInv, Issued, MembersPlaced
  <2>2. m.index \in Nat /\ Len(m.name) \in Nat /\ m.name \in Names
    BY <1>1, MemberTyped DEF MemberType
  <2>3. m.index + Len(m.name) + 2 <= c
    BY <2>1 DEF MemberAt
  <2> QED  BY <1>1, <2>2, <2>3
<1>3. ASSUME signals # None PROVE SignalsType(signals.field)
  <2>1. CASE MadeByService
    <3>1. PICK mode \in Modes, m \in members : MadeOfMember(mode, m)
      BY <2>1 DEF MadeByService
    <3> DEFINE value == ValueUsed(mode, m)
               skip == (mode = "skip")
    <3>2. Parses(text, key) /\ Fits(text, Parse(text, key), key, value)
          /\ signals.field = signals_for_field(text, key, value, skip)
      BY <3>1 DEF MadeOfMember
    <3>3. skip \in BOOLEAN
      OBVIOUS
    <3>4. m.value \in Seq(Chars)
      BY <1>1, MemberTyped
    <3>5. Len(value) \in Nat
      BY <1>1, <3>2, <3>4, ValueTyped
    <3> HIDE DEF value, skip
    <3> QED  BY <1>1, <3>2, <3>3, <3>5, ServiceTyped
  <2>2. CASE MadeByAnyone
    <3>1. PICK mode \in Modes \ {"skip"} :
            \E f \in Parts(Hints(Payload), Kind(mode)) :
              signals = [by |-> "anyone", mode |-> mode, field |-> f]
      BY <2>2 DEF MadeByAnyone
    <3>2. PICK f \in Parts(Hints(Payload), Kind(mode)) :
            signals = [by |-> "anyone", mode |-> mode, field |-> f]
      BY <3>1
    <3>3. Kind(mode) \in {"quoted", "unquoted"} /\ signals.field = f
      BY <3>2 DEF Kind
    <3>4. PICK i, c, v, e, d : PartAt(Kind(mode), f, i, c, v, e, d)
      BY <1>1, <3>3, PartsAre
    <3> QED  BY <1>1, <3>3, <3>4, AnyoneTyped
  <2> QED  BY <1>3, <2>1, <2>2 DEF IInv, Made
<1> QED  BY <1>1, <1>2, <1>3 DEF TypeOK, SignalsType

\* The lengths that a field's signals claim fit into the circuit's arrays, for the fields
\* the service derives (pad_bytes refuses longer ones) and for anyone's; the members of
\* the payload begin inside of it.
THEOREM TypeCorrect == Spec => []TypeOK
BY Written, IInvTypeOK, PTL

--------------------------------------------------------------------------------
\* A field of the payload with the name that is proved.
KeyAt(i) ==
  /\ Payload[i] = quote /\ Payload[i + Len(key) + 1] = quote
  /\ \A j \in 0 .. Len(key) - 1 : Payload[(i + 1) + j] = key[j + 1]

LEMMA PayloadType ==
  ASSUME TextType
  PROVE  /\ text \in Seq(Chars) /\ Len(text) \in Nat /\ Len(text) <= MAX_JWT_PAYLOAD_LEN
         /\ MAX_JWT_PAYLOAD_LEN \in Nat
         /\ Payload \in [0 .. MAX_JWT_PAYLOAD_LEN - 1 -> Int]
         /\ \A k \in 0 .. Len(text) - 1 : charAt(text, k) = Payload[k] /\ Payload[k] \in Chars
<1>1. text \in Seq(Chars) /\ Len(text) + Len(names) <= MaxText /\ Len(names) \in Nat
  BY DEF TextType
<1>2. /\ Len(text) \in Nat /\ Len(text) <= MAX_JWT_PAYLOAD_LEN
      /\ MAX_JWT_PAYLOAD_LEN \in Nat
      /\ Payload \in [0 .. MAX_JWT_PAYLOAD_LEN - 1 -> Int]
  BY <1>1, TypedPayload DEF Payload
<1>3. ASSUME NEW k \in 0 .. Len(text) - 1 PROVE charAt(text, k) = Payload[k] /\ Payload[k] \in Chars
  <2>1. k \in 0 .. MAX_JWT_PAYLOAD_LEN - 1 /\ k < Len(text)
    BY <1>2
  <2>2. Payload[k] = text[k + 1] /\ text[k + 1] \in Chars
    BY <1>1, <1>2, <2>1, PaddedType DEF Payload
  <2> QED  BY <2>2 DEF charAt
<1> QED  BY <1>1, <1>2, <1>3

LEMMA Letters ==
  \A ch \in 97 .. 122 : ch \notin Blanks \cup Digits \cup
                         {quote, backslash, comma, colon, open, close}
BY DEF Blanks, Digits, quote, backslash, comma, colon, open, close

LEMMA KeyType ==
  /\ key \in Seq(Chars) /\ Len(key) \in Nat \ {0}
  /\ \A j \in 0 .. Len(key) - 1 : key[j + 1] \in 97 .. 122
<1>1. key \in Seq(97 .. 122) /\ key # <<>>
  BY KeyAssumption
<1>2. 97 .. 122 \subseteq Chars
  BY DEF Chars
<1>3. key \in Seq(Chars)
  BY <1>1, <1>2, SeqMonotonic
<1>4. Len(key) \in Nat /\ Len(key) # 0
  BY <1>1
<1>5. \A j \in 0 .. Len(key) - 1 : j + 1 \in 1 .. Len(key)
  BY <1>4
<1>6. \A j \in 0 .. Len(key) - 1 : key[j + 1] \in 97 .. 122
  BY <1>1, <1>5, ElementOfSeq
<1> QED  BY <1>3, <1>4, <1>6

LEMMA FoundAt ==
  ASSUME TextType, NEW i \in Found(text, key)
  PROVE  i \in Nat /\ i + Len(key) + 2 <= Len(text) /\ KeyAt(i)
<1> DEFINE q == <<quote>>
           a == q \o key
           s == a \o q
           l == Len(key)
           m == Len(s)
<1>1. q \in Seq(Chars) /\ Len(q) = 1 /\ q[1] = quote /\ key \in Seq(Chars) /\ l \in Nat
  BY IdleChars, OneQuote, KeyType
<1>2. i \in 0 .. Len(text) - m /\ Slice(text, i, m) = s
  BY DEF Found
<1> HIDE DEF q
<1>3. a \in Seq(Chars) /\ Len(a) = 1 + l /\ Prefix(q, a) /\ Holds(a, 1, key)
  BY <1>1, Joined
<1> HIDE DEF a
<1>4. s \in Seq(Chars) /\ Len(s) = l + 2 /\ Prefix(a, s) /\ Holds(s, 1 + l, q)
  <2>1. s \in Seq(Chars) /\ Len(s) = Len(a) + Len(q) /\ Prefix(a, s) /\ Holds(s, Len(a), q)
    BY <1>1, <1>3, Joined
  <2>2. Len(a) + Len(q) = l + 2 /\ Len(a) = 1 + l
    BY <1>1, <1>3
  <2> HIDE DEF s
  <2> QED  BY <2>1, <2>2
<1> HIDE DEF s
<1>5. Prefix(q, s) /\ Holds(s, 1, key)
  BY <1>1, <1>3, <1>4, PrefixHolds
<1>6. s[1] = quote /\ s[(1 + l) + 1] = quote /\ \A j \in 0 .. l - 1 : s[1 + (j + 1)] = key[j + 1]
  <2>1. s[1] = quote
    BY <1>1, <1>5 DEF Prefix
  <2>2. s[(1 + l) + 1] = quote
    BY <1>1, <1>4 DEF Holds
  <2>3. \A j \in 0 .. l - 1 : j + 1 \in 1 .. l
    BY <1>1
  <2> QED  BY <1>5, <2>1, <2>2, <2>3 DEF Holds
<1>7. m = l + 2 /\ i \in Nat /\ i + m <= Len(text) /\ Len(text) \in Nat /\ text \in Seq(Chars)
  BY <1>1, <1>2, <1>4, PayloadType
<1> HIDE DEF m
<1>8. \A j \in 0 .. m - 1 : s[j + 1] = text[(i + j) + 1]
  <2>1. m \in Nat
    BY <1>1, <1>7
  <2>2. \A j \in 0 .. m - 1 : Slice(text, i, m)[j + 1] = text[(i + j) + 1]
    BY <1>7, <2>1, Sliced, ZenonT(60)
  <2> QED  BY <1>2, <2>2
<1>9. ASSUME NEW j \in 0 .. m - 1 PROVE Payload[i + j] = s[j + 1]
  <2>1. i + j \in 0 .. Len(text) - 1
    BY <1>1, <1>7
  <2> QED  BY <1>8, <2>1, PayloadType DEF charAt
<1> HIDE DEF l
<1>10. Payload[i] = quote
  <2>1. 0 \in 0 .. m - 1 /\ i + 0 = i /\ 0 + 1 = 1
    BY <1>1, <1>7
  <2> QED  BY <1>6, <1>9, <2>1
<1>11. Payload[i + l + 1] = quote
  <2>1. l + 1 \in 0 .. m - 1 /\ i + (l + 1) = i + l + 1 /\ (l + 1) + 1 = (1 + l) + 1
    BY <1>1, <1>7
  <2> QED  BY <1>6, <1>9, <2>1
<1>12. ASSUME NEW j \in 0 .. l - 1 PROVE Payload[(i + 1) + j] = key[j + 1]
  <2>1. j + 1 \in 0 .. m - 1 /\ i + (j + 1) = (i + 1) + j /\ (j + 1) + 1 = 1 + (j + 1)
    BY <1>1, <1>7
  <2> QED  BY <1>6, <1>9, <2>1
<1> QED  BY <1>1, <1>7, <1>10, <1>11, <1>12 DEF KeyAt, l

\* A string there that begins with the name is the name.
LEMMA SameString ==
  ASSUME TextType, NEW i \in Nat, i + Len(key) + 2 <= Len(text), KeyAt(i),
         NEW s \in Seq(Chars), i + Len(s) + 2 <= Len(text), StringAt(Payload, i, s)
  PROVE  s = key
<1> DEFINE l == Len(key)
           n == Len(s)
           in == Payload
           N == MAX_JWT_PAYLOAD_LEN
<1>1. /\ l \in Nat \ {0} /\ n \in Nat /\ key \in Seq(Chars)
      /\ \A j \in 0 .. l - 1 : key[j + 1] \in 97 .. 122
  BY KeyType
<1>2. /\ in \in [0 .. N - 1 -> Int] /\ N \in Nat /\ Len(text) \in Nat /\ Len(text) <= N
  BY PayloadType
<1>3. /\ in[i + l + 1] = quote
      /\ \A j \in 0 .. l - 1 : in[(i + 1) + j] = key[j + 1]
  BY DEF KeyAt
<1>4. /\ in[i + n + 1] = quote
      /\ \A j \in 0 .. n - 1 : in[(i + 1) + j] = s[j + 1]
      /\ \A k \in i + 1 .. i + n + 1 : Inside(in, k) = 1
  BY DEF StringAt
<1>a. i + l + 2 <= Len(text) /\ i + n + 2 <= Len(text)
  OBVIOUS
<1> HIDE DEF l, n, in
<1>5. ~ (n < l)
  <2> SUFFICES ASSUME n < l PROVE FALSE
    OBVIOUS
  <2>1. n \in 0 .. l - 1 /\ (i + 1) + n = i + n + 1
    BY <1>1
  <2>2. key[n + 1] = quote
    BY <1>3, <1>4, <2>1
  <2>3. key[n + 1] \in 97 .. 122
    BY <1>1, <2>1
  <2> QED  BY <2>2, <2>3, Letters
<1>6. ~ (n > l)
  <2> SUFFICES ASSUME n > l PROVE FALSE
    OBVIOUS
  <2>1. l - 1 \in 0 .. l - 1 /\ (i + 1) + (l - 1) = i + l /\ (l - 1) + 1 = l
    BY <1>1
  <2>2. in[i + l] \in 97 .. 122
    BY <1>1, <1>3, <2>1
  <2>3. i + l \in 0 .. N - 1 /\ i + l + 1 \in 0 .. N - 1 /\ (i + l) + 1 = i + l + 1
        /\ (i + l + 1) + 1 = i + l + 2
    BY <1>1, <1>2, <1>a
  <2>4. ScanStep(in, i + l) /\ ScanStep(in, i + l + 1)
    BY <1>2, <2>3, Scan
  <2>5. Escaped(in, i + l + 1) = 0
    <3>1. in[i + l] # backslash
      BY <2>2, Letters
    <3> QED  BY <2>3, <2>4, <3>1 DEF ScanStep
  <2>6. i + l + 1 \in i + 1 .. i + n + 1 /\ i + l + 2 \in i + 1 .. i + n + 1
    BY <1>1
  <2>7. Inside(in, i + l + 1) = 1 /\ Inside(in, i + l + 2) = 1
    BY <1>4, <2>6
  <2> QED  BY <1>3, <2>3, <2>4, <2>5, <2>7 DEF ScanStep
<1>7. n = l
  BY <1>1, <1>5, <1>6
<1>8. ASSUME NEW k \in 1 .. n PROVE s[k] = key[k]
  <2>1. k - 1 \in 0 .. n - 1 /\ (k - 1) + 1 = k
    BY <1>1
  <2> QED  BY <1>3, <1>4, <1>7, <2>1
<1>9. Len(s) = Len(key)
  BY <1>7 DEF n, l
<1> QED  BY <1>1, <1>8, <1>9, SeqEqual DEF n

\* The first character after white space is the same, however it is found.
LEMMA FirstNonBlank ==
  ASSUME NEW in, NEW a \in Nat, NEW c \in Nat, NEW d \in Nat, a <= c, a <= d,
         AllBlank(in, a, c), AllBlank(in, a, d), in[c] \notin Blanks, in[d] \notin Blanks
  PROVE  c = d
<1>1. ~ (c < d)
  <2> SUFFICES ASSUME c < d PROVE FALSE
    OBVIOUS
  <2>1. c \in a .. d - 1
    OBVIOUS
  <2> QED  BY <2>1 DEF AllBlank
<1>2. ~ (d < c)
  <2> SUFFICES ASSUME d < c PROVE FALSE
    OBVIOUS
  <2>1. d \in a .. c - 1
    OBVIOUS
  <2> QED  BY <2>1 DEF AllBlank
<1> QED  BY <1>1, <1>2

\* What the circuit finds in the payload: the name from i on, the colon at c, the value
\* from v up to e, and the end of the field at d.
Checked(mode, i, c, v, e, d) ==
  /\ {i, c, v, e, d} \subseteq Nat
  /\ i + Len(key) + 2 <= c /\ c < v /\ v < e /\ e <= d /\ d < Len(text)
  /\ KeyAt(i)
  /\ AllBlank(Payload, i + Len(key) + 2, c) /\ Payload[c] = colon
  /\ Payload[d] \in {comma, close}
  /\ StringBodies(Payload)[i] = 0
  /\ mode = "quoted" =>
       /\ c < v - 1 /\ AllBlank(Payload, c + 1, v - 1) /\ Payload[v - 1] = quote
       /\ \A k \in v .. e - 1 : StringBodies(Payload)[k] = 1
       /\ StringBodies(Payload)[i + 1] = 1 /\ StringBodies(Payload)[e] = 0
       /\ Hints(Payload).depth[i] = 0
  /\ mode = "unquoted" =>
       /\ AllBlank(Payload, c + 1, v) /\ AllBlank(Payload, e, d)
       /\ \A k \in v .. e - 1 : Payload[k] \in Digits

\* The quote before the name begins a string.
LEMMA OpensString ==
  ASSUME Issued, NEW mode \in {"quoted", "unquoted"}, NEW i, NEW c, NEW v, NEW e, NEW d,
         Checked(mode, i, c, v, e, d)
  PROVE  Inside(Payload, i) = 0 /\ Inside(Payload, i + 1) = 1
<1> DEFINE in == Payload
           N == MAX_JWT_PAYLOAD_LEN
           l == Len(key)
           len == Len(text)
<1>1. /\ i \in Nat /\ c \in Nat /\ l \in Nat \ {0} /\ len \in Nat /\ len <= N
      /\ N \in Nat /\ in \in [0 .. N - 1 -> Int]
  <2>1. /\ len \in Nat /\ len <= N
        /\ N \in Nat /\ in \in [0 .. N - 1 -> Int]
    BY PayloadType DEF Issued
  <2>2. i \in Nat /\ c \in Nat
    BY DEF Checked
  <2> QED  BY <2>1, <2>2, KeyType
<1>2. /\ i + l + 2 <= len /\ in[i] = quote /\ StringBodies(in)[i] = 0
      /\ in[(i + 1) + 0] = key[0 + 1] /\ key[0 + 1] \in 97 .. 122
  <2>1. i + l + 2 <= c /\ c < v /\ v < e /\ e <= d /\ d < len /\ {i, c, v, e, d} \subseteq Nat
    BY DEF Checked
  <2>2. i + l + 2 <= len
    BY <1>1, <2>1
  <2>3. in[i] = quote /\ StringBodies(in)[i] = 0
    BY DEF Checked, KeyAt
  <2>4. 0 \in 0 .. l - 1
    BY <1>1
  <2> QED  BY <2>2, <2>3, <2>4, KeyType DEF Checked, KeyAt
<1>3. \A k \in 0 .. N - 1 : ScanStep(in, k)
  BY <1>1, Scan
<1> HIDE DEF in, l
<1>4. i \in 0 .. N - 1 /\ i \in 0 .. len /\ i \in 0 .. len - 1 /\ i + 1 \in 0 .. len - 1
      /\ (i + 1) + 0 = i + 1
  <2>1. i \in Nat /\ l \in Nat \ {0} /\ len \in Nat /\ N \in Nat /\ len <= N /\ i + l + 2 <= len
    BY <1>1, <1>2
  <2>2. i + 1 <= len - 1
    BY <2>1
  <2> QED  BY <2>1, <2>2
<1>5. ScanStep(in, i)
  BY <1>3, <1>4
<1>6. Inside(in, i) = 0 => Inside(in, i + 1) = 1
  <2>1. Inside(in, i) = 0 => Escaped(in, i) = 0
    BY <1>4, <1>5 DEF Issued, Ended, in, ScanStep, ScanType
  <2> QED  BY <1>2, <1>5, <2>1 DEF ScanStep
<1>7. ~ (Inside(in, i) = 1 /\ Inside(in, i + 1) = 0)
  <2> SUFFICES ASSUME Inside(in, i) = 1, Inside(in, i + 1) = 0 PROVE FALSE
    OBVIOUS
  <2>0. in[i + 1] \notin Blanks \cup {comma, colon, close}
    BY <1>2, <1>4, Letters
  <2>1. QuoteOfMember(in, len, members, i) \/ QuoteOfObject(in, len, i)
    BY <1>4 DEF Issued, QuotesKnown, in
  <2>2. CASE QuoteOfObject(in, len, i)
    <3>1. PICK j \in 0 .. len - 1, s \in Names : ObjectAt(in, len, j, s) /\ i \in QuotesOf(j, s)
      BY <2>2 DEF QuoteOfObject
    <3>2. Len(s) \in Nat /\ j \in Nat
      BY JsonAssumption
    <3>3. i = j + Len(s) + 1
      BY <3>1 DEF ObjectAt, StringAt, QuotesOf
    <3>4. in[i + 1] = colon
      <4>1. i + 1 = j + Len(s) + 2
        BY <3>2, <3>3
      <4> QED  BY <3>1, <4>1 DEF ObjectAt
    <3> QED  BY <2>0, <3>4
  <2>3. CASE QuoteOfMember(in, len, members, i)
    <3>1. PICK m \in members, f \in 0 .. len, w \in 0 .. len, g \in 0 .. len :
            /\ MemberAt(in, len, m, f, w, g)
            /\ i \in QuotesOf(m.index, m.name) \/ (m.quoted /\ i \in QuotesOf(w, m.value))
      BY <2>3 DEF QuoteOfMember
    <3>2. MemberType(m)
      BY DEF Issued, TextType
    <3>3. m.index \in Nat /\ Len(m.name) \in Nat /\ Len(m.value) \in Nat /\ m.quoted \in BOOLEAN
      BY <3>2, MemberTyped
    <3>4. CASE i \in QuotesOf(m.index, m.name)
      <4>1. i = m.index + Len(m.name) + 1
        BY <3>1, <3>4 DEF MemberAt, StringAt, QuotesOf
      <4>2. i + 1 = m.index + Len(m.name) + 2
        BY <3>3, <4>1
      <4>3. i + 1 <= f /\ BlankAt(in, i + 1, f) /\ in[f] = colon
        BY <3>1, <4>2 DEF MemberAt
      <4>4. i + 1 = f \/ i + 1 \in i + 1 .. f - 1
        BY <1>1, <4>3
      <4> QED  BY <2>0, <4>3, <4>4 DEF BlankAt
    <3>5. CASE m.quoted /\ i \in QuotesOf(w, m.value)
      <4>1. i = w + Len(m.value) + 1
        BY <3>1, <3>5 DEF MemberAt, ValueOf, StringAt, QuotesOf
      <4>2. ValueEnd(m, w) = i + 1
        BY <3>3, <3>5, <4>1 DEF ValueEnd
      <4>3. i + 1 <= g /\ BlankAt(in, i + 1, g) /\ (g < len => in[g] \in {comma, close})
        BY <3>1, <4>2 DEF MemberAt
      <4>4. (i + 1 = g /\ g < len) \/ i + 1 \in i + 1 .. g - 1
        BY <1>1, <1>4, <4>3
      <4> QED  BY <2>0, <4>3, <4>4 DEF BlankAt
    <3> QED  BY <3>1, <3>4, <3>5
  <2> QED  BY <2>1, <2>2, <2>3
<1> QED  BY <1>2, <1>4, <1>5, <1>6, <1>7 DEF in, ScanStep, ScanType

\* What follows the name decides what has it.
LEMMA OpensMember ==
  ASSUME Issued, NEW mode \in {"quoted", "unquoted"}, NEW i, NEW c, NEW v, NEW e, NEW d,
         Checked(mode, i, c, v, e, d)
  PROVE  \E m \in members : \E w, g \in 0 .. Len(text) :
           MemberAt(Payload, Len(text), m, c, w, g) /\ m.index = i /\ m.name = key
<1> DEFINE in == Payload
           l == Len(key)
           a == i + l + 2
           len == Len(text)
<1>1. /\ i \in Nat /\ c \in Nat /\ v \in Nat /\ l \in Nat \ {0} /\ len \in Nat /\ a \in Nat
      /\ i + l + 2 <= len /\ a = i + l + 2 /\ a <= c /\ c < v /\ v < len
      /\ i \in 0 .. len - 1
  <2>1. {i, c, v, e, d} \subseteq Nat /\ a <= c /\ c < v /\ v < e /\ e <= d /\ d < len
    BY DEF Checked
  <2>2. l \in Nat \ {0} /\ len \in Nat
    BY KeyType, PayloadType DEF Issued
  <2>3. i \in Nat /\ c \in Nat /\ v \in Nat /\ e \in Nat /\ d \in Nat
    BY <2>1
  <2> QED  BY <2>1, <2>2, <2>3
<1>2. AllBlank(in, a, c) /\ in[c] = colon /\ KeyAt(i)
  BY DEF Checked
<1>3. Inside(in, i) = 0 /\ Inside(in, i + 1) = 1
  BY OpensString
<1>4. \A ch \in {comma, colon, open, close, quote} : ch \notin Blanks
  BY DEF comma, colon, open, close, quote, Blanks
<1> HIDE DEF in, l, a
<1>5. QuoteOfMember(in, len, members, i) \/ QuoteOfObject(in, len, i)
  BY <1>1, <1>3 DEF Issued, QuotesKnown, in
<1>6. ASSUME NEW s \in Seq(Chars), StringAt(in, i, s), i + Len(s) + 2 <= len
      PROVE  s = key /\ i + Len(s) + 2 = a
  <2>1. s = key
    BY <1>1, <1>2, <1>6, SameString DEF in, l, Issued
  <2> QED  BY <1>1, <2>1 DEF l
<1>7. CASE QuoteOfObject(in, len, i)
  <2>1. PICK j \in 0 .. len - 1, s \in Names : ObjectAt(in, len, j, s) /\ i \in QuotesOf(j, s)
    BY <1>7 DEF QuoteOfObject
  <2>2. s \in Seq(Chars) /\ Len(s) \in Nat /\ j \in Nat
    BY JsonAssumption
  <2>3. i = j
    <3>1. i # j + Len(s) + 1
      <4>1. j + Len(s) + 1 \in j + 1 .. j + Len(s) + 1
        BY <2>2
      <4> QED  BY <1>3, <2>1, <4>1 DEF ObjectAt, StringAt
    <3> QED  BY <2>1, <3>1 DEF QuotesOf
  <2>4. i + Len(s) + 2 = a
    <3>1. StringAt(in, i, s) /\ i + Len(s) + 2 <= len
      BY <1>1, <2>1, <2>2, <2>3 DEF ObjectAt
    <3> QED  BY <1>6, <2>2, <3>1
  <2>5. in[a] = colon /\ in[a + 1] = open
    <3>1. i + Len(s) + 3 = a + 1
      BY <1>1, <2>2, <2>4
    <3> QED  BY <2>1, <2>3, <2>4, <3>1 DEF ObjectAt
  <2>6. c = a
    <3>1. AllBlank(in, a, a)
      BY <1>1 DEF AllBlank
    <3>2. in[a] \notin Blanks /\ in[c] \notin Blanks
      BY <1>2, <1>4, <2>5
    <3> QED  BY <1>1, <1>2, <3>1, <3>2, FirstNonBlank
  <2>7. in[c + 1] = open
    BY <2>5, <2>6
  <2>8. CASE mode = "quoted"
    <3>1. c < v - 1 /\ AllBlank(in, c + 1, v - 1) /\ in[v - 1] = quote
      BY <2>8 DEF Checked, in
    <3>2. c + 1 \in c + 1 .. (v - 1) - 1 \/ c + 1 = v - 1
      BY <1>1, <3>1
    <3>3. open \notin Blanks /\ open # quote
      BY <1>4 DEF open, quote
    <3> QED  BY <2>7, <3>1, <3>2, <3>3 DEF AllBlank
  <2>9. CASE mode = "unquoted"
    <3>1. AllBlank(in, c + 1, v) /\ in[v] \in Digits
      <4>1. v \in v .. e - 1
        <5>1. v < e /\ {v, e} \subseteq Nat
          BY DEF Checked
        <5> QED  BY <5>1
      <4> QED  BY <2>9, <4>1 DEF Checked, in
    <3>2. c + 1 \in c + 1 .. v - 1 \/ c + 1 = v
      BY <1>1, <3>1
    <3>3. open \notin Blanks /\ open \notin Digits
      BY <1>4 DEF open, Digits
    <3> QED  BY <2>7, <3>1, <3>2, <3>3 DEF AllBlank
  <2> QED  BY <2>8, <2>9
<1>8. CASE QuoteOfMember(in, len, members, i)
  <2>1. PICK m \in members, f \in 0 .. len, w \in 0 .. len, g \in 0 .. len :
          /\ MemberAt(in, len, m, f, w, g)
          /\ i \in QuotesOf(m.index, m.name) \/ (m.quoted /\ i \in QuotesOf(w, m.value))
    BY <1>8 DEF QuoteOfMember
  <2>2. MemberType(m)
    BY DEF Issued, TextType
  <2>3. /\ m.index \in Nat /\ Len(m.name) \in Nat /\ Len(m.value) \in Nat /\ m.quoted \in BOOLEAN
        /\ m.name \in Seq(Chars) /\ m.value \in Seq(Chars)
    BY <2>2, MemberTyped
  <2>4. CASE i \in QuotesOf(m.index, m.name)
    <3>1. i = m.index
      <4>1. i # m.index + Len(m.name) + 1
        <5>1. \A x, n \in Nat : x + n + 1 \in x + 1 .. x + n + 1
          OBVIOUS
        <5>2. m.index + Len(m.name) + 1 \in m.index + 1 .. m.index + Len(m.name) + 1
          BY <2>3, <5>1
        <5> QED  BY <1>3, <2>1, <5>2 DEF MemberAt, StringAt
      <4> QED  BY <2>4, <4>1 DEF QuotesOf
    <3>2. /\ StringAt(in, i, m.name) /\ i + Len(m.name) + 2 <= f /\ BlankAt(in, i + Len(m.name) + 2, f)
          /\ in[f] = colon
      BY <2>1, <3>1 DEF MemberAt
    <3>3. m.name = key /\ i + Len(m.name) + 2 = a
      <4>1. i + Len(m.name) + 2 <= len
        BY <1>1, <2>3, <3>2
      <4> QED  BY <1>6, <2>3, <3>2, <4>1
    <3>4. f = c
      <4>1. AllBlank(in, a, f) /\ a <= f /\ f \in Nat
        BY <3>2, <3>3 DEF BlankAt, AllBlank
      <4>2. in[f] \notin Blanks /\ in[c] \notin Blanks
        BY <1>2, <1>4, <3>2
      <4> QED  BY <1>1, <1>2, <4>1, <4>2, FirstNonBlank
    <3>5. MemberAt(in, len, m, c, w, g)
      BY <2>1, <3>4
    <3> QED  BY <3>1, <3>3, <3>5 DEF in
  <2>5. CASE m.quoted /\ i \in QuotesOf(w, m.value)
    <3>0. StringAt(in, w, m.value)
      BY <2>1, <2>5 DEF MemberAt, ValueOf
    <3>1. i = w
      <4>1. i # w + Len(m.value) + 1
        <5>1. w + Len(m.value) + 1 \in w + 1 .. w + Len(m.value) + 1
          BY <2>3
        <5> QED  BY <1>3, <3>0, <5>1 DEF StringAt
      <4> QED  BY <2>5, <4>1 DEF QuotesOf
    <3>2. ValueEnd(m, w) = i + Len(m.value) + 2
      BY <2>3, <2>5, <3>1 DEF ValueEnd
    <3>3. /\ i + Len(m.value) + 2 <= g /\ BlankAt(in, i + Len(m.value) + 2, g)
          /\ g < len => in[g] \in {comma, close}
      BY <2>1, <3>2 DEF MemberAt
    <3>4. i + Len(m.value) + 2 = a
      <4>1. i + Len(m.value) + 2 <= len
        BY <1>1, <2>3, <3>3
      <4> QED  BY <1>6, <2>3, <3>0, <3>1, <4>1
    <3>5. AllBlank(in, a, g) /\ a <= g /\ g \in Nat
      BY <3>3, <3>4 DEF BlankAt, AllBlank
    <3>6. in[c] \notin Blanks /\ in[c] \notin {comma, close}
      BY <1>2, <1>4 DEF comma, colon, close
    <3>7. CASE g < len
      <4>1. in[g] \in {comma, close} /\ in[g] \notin Blanks
        BY <1>4, <3>3, <3>7
      <4>2. g = c
        BY <1>1, <1>2, <3>5, <3>6, <4>1, FirstNonBlank
      <4> QED  BY <3>6, <4>1, <4>2
    <3>8. CASE g = len
      <4>1. c \in a .. g - 1
        BY <1>1, <3>8
      <4> QED  BY <3>5, <3>6, <4>1 DEF AllBlank
    <3> QED  BY <1>1, <3>7, <3>8
  <2> QED  BY <2>1, <2>4, <2>5
<1> QED  BY <1>5, <1>7, <1>8

\* The circuit's nesting, where it does not grow.
LEMMA DepthIs ==
  ASSUME NEW n \in Nat, NEW in \in [0 .. n - 1 -> Int], NEW k \in 1 .. n - 1,
         Level(in, k + 1) <= Level(in, k)
  PROVE  Hints(in).depth[k] = IF Level(in, k + 1) < 1 THEN 0 ELSE Level(in, k + 1) - 1
<1> DEFINE b == StringBodies(in)
           m == UnquotedBracketsMap(b, in)
           sum == prelim_out1(m)
           running == [i \in DOMAIN m |-> IF sum[i] < 1 THEN 0 ELSE sum[i] - 1]
           out == [i \in DOMAIN m |->
                     IF i > 0 /\ running[i] = running[i - 1] + 1 THEN running[i] - 1
                     ELSE running[i]]
<1>1. b \in [0 .. n - 1 -> {0, 1}]
  BY Scan
<1>2. m \in [0 .. n - 1 -> Int] /\ DOMAIN m = 0 .. n - 1
  <2> HIDE DEF b
  <2>1. m = [k1 \in 0 .. n - 1 |-> (1 - b[k1]) * BracketsMap(in)[k1]]
    BY <1>1 DEF UnquotedBracketsMap
  <2>2. BracketsMap(in) \in [0 .. n - 1 -> {-1, 0, 1}]
    BY DEF BracketsMap, Bit
  <2>3. \A k1 \in 0 .. n - 1 : (1 - b[k1]) * BracketsMap(in)[k1] \in {-1, 0, 1}
    BY <1>1, <2>2
  <2> QED  BY <2>1, <2>3
<1>3. Hints(in).depth = out
  BY DEF Hints, BracketsDepthMap
<1> HIDE DEF m
<1>4. sum \in [0 .. n - 1 -> Int]
  BY <1>2, RunningSum
<1>5. Level(in, k + 1) = sum[k] /\ Level(in, k) = sum[k - 1]
  <2>1. k + 1 # 0 /\ k # 0 /\ (k + 1) - 1 = k
    OBVIOUS
  <2> HIDE DEF sum, b
  <2> QED  BY <2>1 DEF Level, m, sum, b
<1> HIDE DEF sum
<1>6. k \in 0 .. n - 1 /\ k - 1 \in 0 .. n - 1 /\ k > 0
  OBVIOUS
<1>7. sum[k] \in Int /\ sum[k - 1] \in Int /\ sum[k] <= sum[k - 1]
  BY <1>4, <1>5, <1>6
<1>8. /\ running[k] = IF sum[k] < 1 THEN 0 ELSE sum[k] - 1
      /\ running[k - 1] = IF sum[k - 1] < 1 THEN 0 ELSE sum[k - 1] - 1
  BY <1>2, <1>6
<1> HIDE DEF running
<1>9. running[k] \in Int /\ running[k - 1] \in Int /\ running[k] <= running[k - 1]
  <2>1. CASE sum[k] < 1 /\ sum[k - 1] < 1
    BY <1>8, <2>1
  <2>2. CASE sum[k] < 1 /\ ~(sum[k - 1] < 1)
    BY <1>7, <1>8, <2>2
  <2>3. CASE ~(sum[k] < 1)
    <3>1. ~(sum[k - 1] < 1)
      BY <1>7, <2>3
    <3>2. running[k] = sum[k] - 1
      BY <1>8, <2>3
    <3>3. running[k - 1] = sum[k - 1] - 1
      BY <1>8, <3>1
    <3> QED  BY <1>7, <3>2, <3>3
  <2> QED  BY <2>1, <2>2, <2>3
<1>10. out[k] = running[k]
  BY <1>2, <1>6, <1>9
<1> QED  BY <1>3, <1>5, <1>7, <1>8, <1>10

\* The value of that member is the one that is claimed.
LEMMA ValueIs ==
  ASSUME Issued, NEW mode \in {"quoted", "unquoted"}, NEW i, NEW c, NEW v, NEW e, NEW d,
         Checked(mode, i, c, v, e, d),
         NEW m \in members, NEW w \in 0 .. Len(text), NEW g \in 0 .. Len(text),
         MemberAt(Payload, Len(text), m, c, w, g)
  PROVE  /\ m.quoted = (mode = "quoted") /\ Len(m.value) = e - v
         /\ \A j \in 0 .. e - v - 1 : Payload[v + j] = m.value[j + 1]
<1> DEFINE in == Payload
           N == MAX_JWT_PAYLOAD_LEN
           len == Len(text)
           l == Len(m.value)
<1>1. /\ c \in Nat /\ v \in Nat /\ e \in Nat /\ d \in Nat /\ c < v /\ v < e /\ e <= d /\ d < len
      /\ len \in Nat /\ len <= N /\ N \in Nat /\ in \in [0 .. N - 1 -> Int]
  <2>1. {i, c, v, e, d} \subseteq Nat /\ c < v /\ v < e /\ e <= d /\ d < len
    BY DEF Checked
  <2>2. len \in Nat /\ len <= N /\ N \in Nat /\ in \in [0 .. N - 1 -> Int]
    BY PayloadType DEF Issued
  <2> QED  BY <2>1, <2>2
<1>2. /\ l \in Nat /\ m.quoted \in BOOLEAN
      /\ ~ m.quoted => /\ m.value # <<>>
                       /\ \A j \in 0 .. l - 1 : m.value[j + 1] \notin
                            Blanks \cup {quote, backslash, comma, colon, open, close}
  BY MemberTyped DEF Issued, TextType
<1>3. /\ c + 1 <= w /\ w \in Nat /\ BlankAt(in, c + 1, w) /\ ValueOf(in, m, w)
      /\ BlankAt(in, ValueEnd(m, w), g) /\ ValueEnd(m, w) <= g /\ g \in Nat /\ g <= len
      /\ g < len => in[g] \in {comma, close}
  BY <1>1 DEF MemberAt
<1> HIDE DEF in, l
<1>4. in[w] \notin Blanks
  <2>1. CASE m.quoted
    <3>1. in[w] = quote
      BY <1>3, <2>1 DEF ValueOf, StringAt
    <3> QED  BY <3>1 DEF quote, Blanks
  <2>2. CASE ~ m.quoted
    <3>1. 0 \in 0 .. l - 1 /\ w + 0 = w
      <4>1. l # 0
        <5>1. m.value \in Seq(Chars)
          BY MemberTyped DEF Issued, TextType
        <5> QED  BY <1>2, <2>2, <5>1 DEF l
      <4> QED  BY <1>2, <1>3, <4>1
    <3>2. in[w + 0] = m.value[0 + 1]
      BY <1>3, <2>2, <3>1 DEF ValueOf, l
    <3> QED  BY <1>2, <2>2, <3>1, <3>2
  <2> QED  BY <1>2, <2>1, <2>2
<1>5. AllBlank(in, c + 1, w)
  BY <1>3 DEF AllBlank, BlankAt
<1>6. CASE mode = "quoted"
  <2>1. /\ c < v - 1 /\ AllBlank(in, c + 1, v - 1) /\ in[v - 1] = quote
        /\ \A k \in v .. e - 1 : StringBodies(in)[k] = 1
        /\ StringBodies(in)[e] = 0
    BY <1>6 DEF Checked, in
  <2>2. w = v - 1
    <3>1. in[v - 1] \notin Blanks
      BY <2>1 DEF quote, Blanks
    <3>2. c + 1 \in Nat /\ v - 1 \in Nat /\ c + 1 <= v - 1
      BY <1>1, <2>1
    <3> QED  BY <1>3, <1>4, <1>5, <2>1, <3>1, <3>2, FirstNonBlank
  <2>3. m.quoted
    <3> SUFFICES ASSUME ~ m.quoted PROVE FALSE
      BY <1>2
    <3>1. 0 \in 0 .. l - 1 /\ w + 0 = w
      <4>1. m.value \in Seq(Chars) /\ m.value # <<>>
        BY <1>2, MemberTyped DEF Issued, TextType
      <4> QED  BY <1>2, <1>3, <4>1 DEF l
    <3>2. in[w + 0] = m.value[0 + 1]
      BY <1>3, <3>1 DEF ValueOf, l
    <3> QED  BY <1>2, <2>1, <2>2, <3>1, <3>2
  <2>4. /\ \A j \in 0 .. l - 1 : in[(w + 1) + j] = m.value[j + 1]
        /\ Inside(in, w + l + 2) = 0 /\ \A k \in w + 1 .. w + l + 1 : Inside(in, k) = 1
    BY <1>3, <2>3 DEF ValueOf, StringAt, l
  <2>5. w + l + 2 <= len
    <3>1. ValueEnd(m, w) = w + l + 2
      BY <1>2, <1>3, <2>3 DEF ValueEnd, l
    <3> QED  BY <1>1, <1>2, <1>3, <3>1
  <2>6. \A k \in 0 .. N - 1 : ScanStep(in, k)
    BY <1>1, Scan
  <2>7. ~ (e < w + l + 1)
    <3> SUFFICES ASSUME e < w + l + 1 PROVE FALSE
      OBVIOUS
    <3>1. e \in w + 1 .. w + l + 1 /\ e + 1 \in w + 1 .. w + l + 1 /\ e \in 0 .. N - 1
      BY <1>1, <1>2, <2>2
    <3> QED  BY <2>1, <2>4, <2>6, <3>1 DEF ScanStep
  <2>8. ~ (e > w + l + 1)
    <3> SUFFICES ASSUME e > w + l + 1 PROVE FALSE
      OBVIOUS
    <3>1. w + l + 1 \in v .. e - 1 /\ (w + l + 1) + 1 = w + l + 2 /\ w + l + 1 \in 0 .. N - 1
      BY <1>1, <1>2, <2>2
    <3> QED  BY <2>1, <2>4, <2>6, <3>1 DEF ScanStep
  <2>9. e = w + l + 1 /\ w + 1 = v /\ l = e - v
    BY <1>1, <1>2, <2>2, <2>7, <2>8
  <2> QED  BY <1>6, <2>3, <2>4, <2>9 DEF in, l
<1>7. CASE mode = "unquoted"
  <2>1. /\ AllBlank(in, c + 1, v) /\ AllBlank(in, e, d)
        /\ \A k \in v .. e - 1 : in[k] \in Digits
        /\ in[d] \in {comma, close}
    BY <1>7 DEF Checked, in
  <2>2. \A ch \in Digits : ch \notin Blanks \cup {quote, comma, close}
    BY DEF Digits, Blanks, quote, comma, close
  <2>3. w = v
    <3>1. in[v] \notin Blanks
      <4>1. v \in v .. e - 1
        BY <1>1
      <4> QED  BY <2>1, <2>2, <4>1
    <3>2. c + 1 \in Nat /\ c + 1 <= v
      BY <1>1
    <3> QED  BY <1>1, <1>3, <1>4, <1>5, <2>1, <3>1, <3>2, FirstNonBlank
  <2>4. ~ m.quoted
    <3> SUFFICES ASSUME m.quoted PROVE FALSE
      OBVIOUS
    <3>1. in[w] = quote
      BY <1>3 DEF ValueOf, StringAt
    <3>2. v \in v .. e - 1
      BY <1>1
    <3> QED  BY <2>1, <2>2, <2>3, <3>1, <3>2
  <2>5. /\ \A j \in 0 .. l - 1 : in[w + j] = m.value[j + 1]
        /\ BlankAt(in, w + l, g) /\ w + l <= g
    <3>1. ValueEnd(m, w) = w + l
      BY <1>2, <1>3, <2>4 DEF ValueEnd, l
    <3> QED  BY <1>3, <2>4, <3>1 DEF ValueOf, l
  <2>6. ~ (e < w + l)
    <3> SUFFICES ASSUME e < w + l PROVE FALSE
      OBVIOUS
    <3>1. e - w \in 0 .. l - 1 /\ w + (e - w) = e
      BY <1>1, <1>2, <2>3
    <3>2. in[e] = m.value[(e - w) + 1]
      BY <2>5, <3>1
    <3>3. in[e] \notin Blanks \cup {comma, close}
      BY <1>2, <2>4, <3>1, <3>2
    <3>4. e = d \/ e \in e .. d - 1
      BY <1>1
    <3> QED  BY <2>1, <3>3, <3>4 DEF AllBlank
  <2>7. ~ (e > w + l)
    <3> SUFFICES ASSUME e > w + l PROVE FALSE
      OBVIOUS
    <3>1. w + l \in v .. e - 1
      BY <1>1, <1>2, <2>3
    <3>2. in[w + l] \notin Blanks \cup {comma, close}
      BY <2>1, <2>2, <3>1
    <3>3. w + l \in w + l .. g - 1 \/ (w + l = g /\ g < len)
      BY <1>1, <1>2, <1>3, <2>3, <2>5
    <3> QED  BY <1>3, <2>5, <3>2, <3>3 DEF BlankAt
  <2>8. e = w + l /\ l = e - v
    <3> SUFFICES ASSUME NEW x \in Int, x = w + l PROVE e = x /\ l = e - w
      BY <1>2, <1>3, <2>3
    <3>1. ~ (e < x) /\ ~ (e > x)
      BY <2>6, <2>7
    <3>2. e = x
      BY <1>1, <3>1
    <3> QED  BY <1>1, <1>2, <1>3, <3>2
  <2>9. m.quoted = (mode = "quoted")
    <3>1. mode # "quoted"
      BY <1>7
    <3>2. m.quoted = FALSE
      BY <1>2, <2>4
    <3> QED  BY <3>1, <3>2
  <2>10. ASSUME NEW j \in 0 .. e - v - 1 PROVE in[v + j] = m.value[j + 1]
    <3>1. j \in 0 .. l - 1
      BY <2>8
    <3> QED  BY <2>3, <2>5, <3>1
  <2> QED  BY <2>8, <2>9, <2>10 DEF in, l
<1> QED  BY <1>6, <1>7

\* What the circuit finds is a member.
IsMember(mode, i, v, e, m) ==
  /\ m \in members /\ m.index = i /\ m.name = key
  /\ m.quoted = (mode = "quoted") /\ (m.quoted => m.level = 1)
  /\ Len(m.value) = e - v /\ \A j \in 0 .. e - v - 1 : Payload[v + j] = m.value[j + 1]

LEMMA CheckedIsMember ==
  ASSUME Issued, NEW mode \in {"quoted", "unquoted"}, NEW i, NEW c, NEW v, NEW e, NEW d,
         Checked(mode, i, c, v, e, d)
  PROVE  \E m : IsMember(mode, i, v, e, m)
<1>1. PICK m \in members : \E w, g \in 0 .. Len(text) :
        MemberAt(Payload, Len(text), m, c, w, g) /\ m.index = i /\ m.name = key
  BY OpensMember
<1>2. PICK w \in 0 .. Len(text), g \in 0 .. Len(text) :
        MemberAt(Payload, Len(text), m, c, w, g) /\ m.index = i /\ m.name = key
  BY <1>1
<1>3. /\ m.quoted = (mode = "quoted") /\ Len(m.value) = e - v
      /\ \A j \in 0 .. e - v - 1 : Payload[v + j] = m.value[j + 1]
  BY <1>2, ValueIs
<1>4. ASSUME m.quoted PROVE m.level = 1
  <2> DEFINE in == Payload
             N == MAX_JWT_PAYLOAD_LEN
  <2>1. /\ i \in Nat /\ c \in Nat /\ i + Len(key) + 2 <= c /\ Len(key) \in Nat
        /\ Hints(in).depth[i] = 0 /\ m.level \in Nat \ {0}
    <3>1. i \in Nat /\ c \in Nat /\ i + Len(key) + 2 <= c /\ Hints(in).depth[i] = 0
      <4>1. mode = "quoted"
        BY <1>3, <1>4
      <4>2. {i, c, v, e, d} \subseteq Nat
        BY DEF Checked
      <4> QED  BY <4>1, <4>2 DEF Checked
    <3>2. m.level \in Nat \ {0}
      BY DEF Issued, TextType, MemberType
    <3> QED  BY <3>1, <3>2, KeyType
  <2>2. Len(text) \in Nat /\ Len(text) <= N /\ N \in Nat /\ in \in [0 .. N - 1 -> Int]
    BY PayloadType DEF Issued
  <2>3. c < w /\ \A k \in i .. g : Level(in, k) = m.level
    BY <1>2 DEF MemberAt
  <2>4. w \in Nat /\ g \in Nat /\ w <= g /\ g <= Len(text)
    <3>1. ValueEnd(m, w) <= g /\ Len(m.value) \in Nat
      BY <1>2, MemberTyped DEF MemberAt, Issued, TextType
    <3>2. ValueEnd(m, w) = w + Len(m.value) + 2
      BY <1>4 DEF ValueEnd
    <3> QED  BY <2>2, <3>1, <3>2
  <2> HIDE DEF in
  <2>5. Level(in, i) = m.level /\ Level(in, i + 1) = m.level
    <3>1. i \in i .. g /\ i + 1 \in i .. g
      BY <2>1, <2>3, <2>4
    <3> QED  BY <2>3, <3>1
  <2>6. i # 0
    BY <2>1, <2>5 DEF Level
  <2>7. i \in 1 .. N - 1
    BY <2>1, <2>2, <2>3, <2>4, <2>6
  <2>8. Hints(in).depth[i] = IF Level(in, i + 1) < 1 THEN 0 ELSE Level(in, i + 1) - 1
    <3>1. Level(in, i + 1) <= Level(in, i)
      BY <2>1, <2>5
    <3> QED  BY <2>2, <2>7, <3>1, DepthIs
  <2> QED  BY <2>1, <2>5, <2>8
<1> QED  BY <1>2, <1>3, <1>4 DEF IsMember

\* The signals of such a part, in terms of the payload.
FieldOf(f, i, c, v, e, d) ==
  /\ i \in Nat /\ c \in Nat /\ v \in Nat /\ e \in Nat /\ d \in Nat
  /\ i < c /\ c < v /\ v < e /\ e <= d /\ d < Len(text) /\ d - i < maxKVPairLen
  /\ f.index = i /\ f.colon_index = c - i /\ f.value_index = v - i
  /\ f.field_len = d + 1 - i /\ f.name_len = Len(key) /\ f.value_len = e - v
  /\ \A k \in i .. d : f.field[k - i] = Payload[k]
  /\ \A j \in 0 .. e - v - 1 : f.value[j] = Payload[v + j]
  /\ DOMAIN f.string_bodies = 0 .. maxKVPairLen - 1 /\ f.skip_checks = FALSE

\* A part of the text in an array.
LEMMA PartOfPayload ==
  ASSUME TextType, NEW i \in Nat, NEW l \in Nat, i + l <= Len(text), NEW n \in Nat, l <= n
  PROVE  /\ Len(Slice(text, i, l)) = l
         /\ \A j \in 0 .. l - 1 : Padded(Slice(text, i, l), n)[j] = Payload[i + j]
<1> DEFINE s == Slice(text, i, l)
<1>1. text \in Seq(Chars) /\ Len(text) \in Nat
  BY PayloadType
<1>2. s \in Seq(Chars) /\ Len(s) = l /\ \A j \in 0 .. l - 1 : s[j + 1] = text[(i + j) + 1]
  BY <1>1, Sliced
<1> HIDE DEF s
<1>3. ASSUME NEW j \in 0 .. l - 1 PROVE Padded(s, n)[j] = Payload[i + j]
  <2>1. j \in 0 .. n - 1 /\ j < Len(s) /\ i + j \in 0 .. Len(text) - 1
    BY <1>1, <1>2
  <2>2. Padded(s, n)[j] = s[j + 1]
    BY <1>2, <2>1, PaddedType
  <2> QED  BY <1>2, <2>1, <2>2, PayloadType DEF charAt
<1> QED  BY <1>2, <1>3 DEF s

LEMMA FieldIs ==
  ASSUME TextType, NEW mode, NEW f, NEW i, NEW c, NEW v, NEW e, NEW d,
         PartAt(mode, f, i, c, v, e, d)
  PROVE  FieldOf(f, i, c, v, e, d)
<1>1. /\ i \in Nat /\ c \in Nat /\ v \in Nat /\ e \in Nat /\ d \in Nat
      /\ i < c /\ c < v /\ v < e /\ e <= d /\ d < Len(text) /\ d - i < maxKVPairLen
      /\ e - v <= maxValueLen /\ Len(text) \in Nat /\ maxKVPairLen \in Nat /\ maxValueLen \in Nat
  <2>1. Len(text) \in Nat
    BY PayloadType
  <2> QED  BY <2>1, LengthsAssumption DEF PartAt
<1> DEFINE l == d + 1 - i
           n == e - v
<1>2. /\ l \in Nat /\ i + l <= Len(text) /\ l <= maxKVPairLen
      /\ n \in Nat /\ v + n <= Len(text) /\ n <= maxValueLen
  BY <1>1
<1>3. /\ f.field = Padded(Slice(text, i, l), maxKVPairLen) /\ f.field_len = Len(Slice(text, i, l))
      /\ f.value = Padded(Slice(text, v, n), maxValueLen) /\ f.value_len = Len(Slice(text, v, n))
      /\ f.index = i /\ f.colon_index = c - i /\ f.value_index = v - i /\ f.name_len = Len(key)
      /\ DOMAIN f.string_bodies = 0 .. maxKVPairLen - 1 /\ f.skip_checks = FALSE
  BY DEF PartAt
<1> HIDE DEF l, n
<1>4. /\ Len(Slice(text, i, l)) = l
      /\ \A j \in 0 .. l - 1 : Padded(Slice(text, i, l), maxKVPairLen)[j] = Payload[i + j]
  <2>1. i \in Nat /\ l \in Nat /\ i + l <= Len(text) /\ maxKVPairLen \in Nat /\ l <= maxKVPairLen
    BY <1>1, <1>2
  <2> QED  BY <2>1, PartOfPayload
<1>5. /\ Len(Slice(text, v, n)) = n
      /\ \A j \in 0 .. n - 1 : Padded(Slice(text, v, n), maxValueLen)[j] = Payload[v + j]
  <2>1. v \in Nat /\ n \in Nat /\ v + n <= Len(text) /\ maxValueLen \in Nat /\ n <= maxValueLen
    BY <1>1, <1>2
  <2> QED  BY <2>1, PartOfPayload
<1>6. ASSUME NEW k \in i .. d PROVE f.field[k - i] = Payload[k]
  <2>1. k - i \in 0 .. l - 1 /\ i + (k - i) = k
    BY <1>1 DEF l
  <2> QED  BY <1>3, <1>4, <2>1
<1>7. f.field_len = d + 1 - i /\ f.value_len = e - v
  BY <1>3, <1>4, <1>5 DEF l, n
<1>8. \A j \in 0 .. e - v - 1 : f.value[j] = Payload[v + j]
  BY <1>3, <1>5 DEF n
<1> QED  BY <1>1, <1>3, <1>6, <1>7, <1>8 DEF FieldOf

\* A gap of the field is white space of the payload.
LEMMA GapIs ==
  ASSUME NEW f, NEW i, NEW c, NEW v, NEW e, NEW d, FieldOf(f, i, c, v, e, d),
         NEW a \in Nat, NEW b \in Nat, i <= a, b <= d + 1, NEW x, NEW y, x = a - i, y = b - i,
         \A k \in Selected(maxKVPairLen, x, y) : IsWhitespace(f.field[k])
  PROVE  AllBlank(Payload, a, b)
<1> SUFFICES ASSUME NEW k \in a .. b - 1 PROVE Payload[k] \in Blanks
  BY DEF AllBlank
<1>1. i \in Nat /\ d \in Nat /\ d - i < maxKVPairLen /\ maxKVPairLen \in Nat
  BY LengthsAssumption DEF FieldOf
<1>2. k - i \in Selected(maxKVPairLen, x, y) /\ k \in i .. d
  BY <1>1 DEF Selected
<1>3. f.field[k - i] \in Blanks
  BY <1>2 DEF IsWhitespace
<1> QED  BY <1>2, <1>3 DEF FieldOf

LEMMA Size == \A n \in Nat : Cardinality(0 .. n - 1) = n
<1> SUFFICES ASSUME NEW n \in Nat PROVE Cardinality(0 .. n - 1) = n
  OBVIOUS
<1> DEFINE m == n - 1
<1>1. m \in Int /\ 0 \in Int /\ m - 0 + 1 = n /\ (0 > m => n = 0)
  OBVIOUS
<1> HIDE DEF m
<1>2. Cardinality(0 .. m) = IF 0 > m THEN 0 ELSE m - 0 + 1
  BY <1>1, FS_Interval
<1> QED  BY <1>1, <1>2 DEF m

\* The string bodies that are claimed are those of the payload.
LEMMA BodiesAre ==
  ASSUME TextType, NEW f, NEW i, NEW c, NEW v, NEW e, NEW d, FieldOf(f, i, c, v, e, d),
         IsSubstring(StringBodies(Payload), f.string_bodies, f.field_len, f.index)
  PROVE  \A k \in i .. d : StringBodies(Payload)[k] = f.string_bodies[k - i]
<1> DEFINE b == StringBodies(Payload)
           N == MAX_JWT_PAYLOAD_LEN
           x == f.string_bodies
           sel == Selected(N, i, i + (d + 1 - i))
<1>1. /\ i \in Nat /\ d \in Nat /\ d < Len(text) /\ d - i < maxKVPairLen /\ maxKVPairLen \in Nat
      /\ f.field_len = d + 1 - i /\ f.index = i
      /\ DOMAIN x = 0 .. maxKVPairLen - 1 /\ Len(text) \in Nat /\ Len(text) <= N /\ N \in Nat
      /\ Payload \in [0 .. N - 1 -> Int]
  BY LengthsAssumption, PayloadType DEF FieldOf
<1>2. Cardinality(DOMAIN b) = N
  <2>1. b \in [0 .. N - 1 -> {0, 1}]
    BY <1>1, Scan
  <2> HIDE DEF b
  <2>2. DOMAIN b = 0 .. N - 1
    BY <2>1
  <2> QED  BY <1>1, <2>2, Size
<1> HIDE DEF b, x
<1>3. \A k \in sel : b[k] = IF k - i \in DOMAIN x THEN x[k - i] ELSE 0
  BY <1>1, <1>2 DEF IsSubstring, b, x
<1>4. ASSUME NEW k \in i .. d PROVE b[k] = x[k - i]
  <2>1. k \in sel
    BY <1>1 DEF Selected
  <2>2. k - i \in DOMAIN x
    BY <1>1
  <2> QED  BY <1>3, <2>1, <2>2
<1> QED  BY <1>4 DEF b, x

\* The checks of a field with a quoted value.
LEMMA QuotedChecked ==
  ASSUME TextType, NEW f, NEW i, NEW c, NEW v, NEW e, NEW d, FieldOf(f, i, c, v, e, d),
         i + Len(key) + 2 <= c, Payload[c] = colon, QuotedField(Hints(Payload), f)
  PROVE  /\ AllBlank(Payload, i + Len(key) + 2, c)
         /\ c < v - 1 /\ AllBlank(Payload, c + 1, v - 1) /\ Payload[v - 1] = quote
         /\ \A k \in v .. e - 1 : StringBodies(Payload)[k] = 1
         /\ StringBodies(Payload)[i] = 0
         /\ StringBodies(Payload)[i + 1] = 1 /\ StringBodies(Payload)[e] = 0
         /\ Hints(Payload).depth[i] = 0
<1> DEFINE l == Len(key)
           b == StringBodies(Payload)
           N == MAX_JWT_PAYLOAD_LEN
           P == 0 .. maxKVPairLen - 1
<1>1. /\ i \in Nat /\ c \in Nat /\ v \in Nat /\ e \in Nat /\ d \in Nat /\ l \in Nat \ {0}
      /\ i < c /\ c < v /\ v < e /\ e <= d /\ d < Len(text) /\ d - i < maxKVPairLen
      /\ i + l + 2 <= c /\ maxKVPairLen \in Nat /\ Len(text) \in Nat /\ Len(text) <= N /\ N \in Nat
  BY LengthsAssumption, PayloadType, KeyType DEF FieldOf
<1>2. /\ f.index = i /\ f.colon_index = c - i /\ f.value_index = v - i
      /\ f.field_len = d + 1 - i /\ f.name_len = l /\ f.value_len = e - v
      /\ \A k \in i .. d : f.field[k - i] = Payload[k]
      /\ f.skip_checks = FALSE
  BY DEF FieldOf
<1>3. /\ QuotedChecks(f) /\ EnforceNotNested(f.index, f.field_len, Hints(Payload).depth)
      /\ IsSubstring(b, f.string_bodies, f.field_len, f.index)
  BY <1>2 DEF QuotedField, ParseJWTFieldWithQuotedValue, Hints
<1>4. \A k \in i .. d : b[k] = f.string_bodies[k - i]
  BY <1>3, BodiesAre
<1> HIDE DEF b, l
<1>5. Payload[v - 1] = quote /\ c < v - 1
  <2>1. v - 1 \in i .. d /\ (v - 1) - i = f.value_index - 1
    BY <1>1, <1>2
  <2>2. Payload[v - 1] = quote
    BY <1>2, <1>3, <2>1 DEF QuotedChecks
  <2>3. c # v - 1
    BY <2>2 DEF colon, quote
  <2> QED  BY <1>1, <2>2, <2>3
<1>6. /\ \A k \in Selected(maxKVPairLen, f.name_len + 2, f.colon_index) : IsWhitespace(f.field[k])
      /\ \A k \in Selected(maxKVPairLen, f.colon_index + 1, f.value_index - 1) :
           IsWhitespace(f.field[k])
  BY <1>3 DEF QuotedChecks, GapChecks, Gaps
<1>7. AllBlank(Payload, i + l + 2, c)
  <2>1. f.name_len + 2 = l + 2
    BY <1>2
  <2>2. i + l + 2 \in Nat /\ i <= i + l + 2 /\ c <= d + 1 /\ l + 2 = (i + l + 2) - i
    BY ONLY <1>1, SMTT(30)
  <2> QED  BY <1>1, <1>2, <1>6, <2>1, <2>2, GapIs, ZenonT(60)
<1>8. AllBlank(Payload, c + 1, v - 1)
  <2>1. f.colon_index + 1 = (c - i) + 1 /\ f.value_index - 1 = (v - i) - 1
    BY <1>2
  <2>2. /\ c + 1 \in Nat /\ v - 1 \in Nat /\ i <= c + 1 /\ v - 1 <= d + 1
        /\ (c - i) + 1 = (c + 1) - i /\ (v - i) - 1 = (v - 1) - i
    BY ONLY <1>1, SMTT(30)
  <2> QED  BY <1>6, <2>1, <2>2, GapIs
<1>9. \A k \in P : f.string_bodies[k] = Bit(k \in NameAt(f) \cup ValueAt(f))
  BY <1>3 DEF QuotedChecks
<1>10. \A k \in P : /\ k \in NameAt(f) <=> 1 <= k /\ k < l + 1
                    /\ k \in ValueAt(f) <=> v - i <= k /\ k < (v - i) + (e - v)
  BY <1>2 DEF NameAt, ValueAt, Selected
<1>11. ASSUME NEW k \in v .. e - 1 PROVE b[k] = 1
  <2>1. k - i \in P /\ k \in i .. d /\ v - i <= k - i /\ k - i < (v - i) + (e - v)
    BY <1>1
  <2>2. k - i \in ValueAt(f)
    BY <1>10, <2>1
  <2> QED  BY <1>4, <1>9, <2>1, <2>2 DEF Bit
<1>12. b[i] = 0
  <2>1. 0 \in P /\ i \in i .. d /\ i - i = 0 /\ ~ (1 <= 0) /\ ~ (v - i <= 0)
    BY <1>1
  <2>2. 0 \notin NameAt(f) \cup ValueAt(f)
    BY <1>10, <2>1
  <2> QED  BY <1>4, <1>9, <2>1, <2>2 DEF Bit
<1>13. b[i + 1] = 1
  <2>1. 1 \in P /\ i + 1 \in i .. d /\ (i + 1) - i = 1 /\ 1 <= 1 /\ 1 < l + 1
    BY <1>1
  <2>2. 1 \in NameAt(f)
    BY <1>10, <2>1
  <2> QED  BY <1>4, <1>9, <2>1, <2>2 DEF Bit
<1>14. b[e] = 0
  <2>1. e - i \in P /\ e \in i .. d /\ ~ (e - i < l + 1) /\ ~ (e - i < (v - i) + (e - v))
    BY <1>1
  <2>2. e - i \notin NameAt(f) \cup ValueAt(f)
    BY <1>10, <2>1
  <2> QED  BY <1>4, <1>9, <2>1, <2>2 DEF Bit
<1>15. Hints(Payload).depth[i] = 0
  <2>1. i \in Selected(N, i, i + (d + 1 - i))
    BY <1>1 DEF Selected
  <2> QED  BY <1>2, <1>3, <2>1 DEF EnforceNotNested
<1> QED  BY <1>5, <1>7, <1>8, <1>11, <1>12, <1>13, <1>14, <1>15 DEF b, l

\* And of a field with a number.
LEMMA UnquotedChecked ==
  ASSUME TextType, NEW f, NEW i, NEW c, NEW v, NEW e, NEW d, FieldOf(f, i, c, v, e, d),
         i + Len(key) + 2 <= c, UnquotedField(Hints(Payload), f, key)
  PROVE  /\ AllBlank(Payload, i + Len(key) + 2, c)
         /\ AllBlank(Payload, c + 1, v) /\ AllBlank(Payload, e, d)
         /\ \A k \in v .. e - 1 : Payload[k] \in Digits
         /\ StringBodies(Payload)[i] = 0
<1> DEFINE l == Len(key)
<1>1. /\ i \in Nat /\ c \in Nat /\ v \in Nat /\ e \in Nat /\ d \in Nat /\ l \in Nat \ {0}
      /\ i < c /\ c < v /\ v < e /\ e <= d /\ i + l + 2 <= c
  BY KeyType DEF FieldOf
<1>2. /\ f.index = i /\ f.colon_index = c - i /\ f.value_index = v - i
      /\ f.field_len = d + 1 - i /\ f.name_len = l /\ f.value_len = e - v
      /\ \A j \in 0 .. e - v - 1 : f.value[j] = Payload[v + j]
  BY DEF FieldOf
<1>3. /\ GapChecks(f, 0) /\ AsciiDigitsToScalar(f.value, f.value_len)
      /\ StringBodies(Payload)[f.index] = 0
  BY DEF UnquotedField, ParseJWTFieldWithUnquotedValue, Hints
<1> HIDE DEF l
<1>4. /\ \A k \in Selected(maxKVPairLen, f.name_len + 2, f.colon_index) : IsWhitespace(f.field[k])
      /\ \A k \in Selected(maxKVPairLen, f.colon_index + 1, f.value_index - 0) :
           IsWhitespace(f.field[k])
      /\ \A k \in Selected(maxKVPairLen, f.value_index + f.value_len + 0, f.field_len - 1) :
           IsWhitespace(f.field[k])
  BY <1>3 DEF GapChecks, Gaps
<1>5. AllBlank(Payload, i + l + 2, c)
  <2>1. /\ i + l + 2 \in Nat /\ i <= i + l + 2 /\ c <= d + 1
        /\ f.name_len + 2 = (i + l + 2) - i
    BY <1>1, <1>2
  <2> QED  BY <1>1, <1>2, <1>4, <2>1, GapIs
<1>6. AllBlank(Payload, c + 1, v)
  <2>1. /\ c + 1 \in Nat /\ i <= c + 1 /\ v <= d + 1
        /\ f.colon_index + 1 = (c + 1) - i /\ f.value_index - 0 = v - i
    BY <1>1, <1>2
  <2> QED  BY <1>1, <1>4, <2>1, GapIs
<1>7. AllBlank(Payload, e, d)
  <2>1. /\ i <= e /\ d <= d + 1
        /\ f.value_index + f.value_len + 0 = e - i /\ f.field_len - 1 = d - i
    BY <1>1, <1>2
  <2> QED  BY <1>1, <1>4, <2>1, GapIs
<1>8. ASSUME NEW k \in v .. e - 1 PROVE Payload[k] \in Digits
  <2>1. k - v \in 0 .. e - v - 1 /\ v + (k - v) = k
    BY <1>1
  <2>2. \A j \in 0 .. e - v - 1 : f.value[j] \in Digits
    BY <1>2, <1>3 DEF AsciiDigitsToScalar
  <2>3. f.value[k - v] \in Digits /\ f.value[k - v] = Payload[v + (k - v)]
    BY <1>2, <2>1, <2>2
  <2> QED  BY <2>1, <2>3
<1> QED  BY <1>2, <1>3, <1>5, <1>6, <1>7, <1>8 DEF l

\* What the circuit accepts, it has found in the payload.
LEMMA AcceptedChecked ==
  ASSUME TextType, NEW role, NEW mode, mode = Kind(role), NEW f,
         NEW i, NEW c, NEW v, NEW e, NEW d, PartAt(mode, f, i, c, v, e, d),
         Accepts(Hints(Payload), role, f)
  PROVE  Checked(mode, i, c, v, e, d)
<1>0. IF mode = "unquoted" THEN UnquotedField(Hints(Payload), f, key)
      ELSE mode = "quoted" /\ QuotedField(Hints(Payload), f)
  <2>1. CASE role = "iat"
    BY <2>1 DEF Accepts, Kind
  <2>2. CASE role # "iat"
    <3>1. mode = "quoted" /\ mode # "unquoted"
      BY <2>2 DEF Kind
    <3>2. QuotedField(Hints(Payload), f)
      BY <2>2 DEF Accepts, NamedField, NonceField
    <3> QED  BY <3>1, <3>2
  <2> QED  BY <2>1, <2>2
<1> DEFINE l == Len(key)
<1>1. FieldOf(f, i, c, v, e, d)
  BY FieldIs
<1>2. /\ i \in Nat /\ c \in Nat /\ v \in Nat /\ e \in Nat /\ d \in Nat /\ l \in Nat \ {0}
      /\ i < c /\ c < v /\ v < e /\ e <= d /\ d < Len(text)
      /\ f.name_len = l /\ f.colon_index = c - i /\ f.skip_checks = FALSE
  BY <1>1, KeyType DEF FieldOf
<1>3. KeyAt(i)
  BY FoundAt DEF PartAt
<1>4. Payload[c] = colon /\ Payload[d] \in {comma, close}
  <2>1. /\ c \in 0 .. Len(text) - 1 /\ charAt(text, c) = colon
        /\ d \in 0 .. Len(text) - 1 /\ charAt(text, d) \in {comma, close}
    BY DEF PartAt
  <2> QED  BY <2>1, PayloadType
<1>5. SharedChecks(f)
  <2>1. CASE mode = "unquoted"
    BY <1>0, <2>1 DEF UnquotedField, ParseJWTFieldWithUnquotedValue
  <2>2. CASE mode # "unquoted"
    BY <1>0, <1>2, <2>2 DEF QuotedField, ParseJWTFieldWithQuotedValue
  <2> QED  BY <2>1, <2>2
<1>6. i + l + 2 <= c
  <2>1. l < c - i
    BY <1>2, <1>5 DEF SharedChecks
  <2>2. c # i + l + 1
    BY <1>3, <1>4 DEF KeyAt, quote, colon
  <2> HIDE DEF l
  <2> QED  BY <1>2, <2>1, <2>2
<1>7. CASE mode = "quoted"
  <2>1. QuotedField(Hints(Payload), f)
    BY <1>0, <1>7
  <2>2. /\ AllBlank(Payload, i + Len(key) + 2, c)
        /\ c < v - 1 /\ AllBlank(Payload, c + 1, v - 1) /\ Payload[v - 1] = quote
        /\ \A k \in v .. e - 1 : StringBodies(Payload)[k] = 1
        /\ StringBodies(Payload)[i] = 0
        /\ StringBodies(Payload)[i + 1] = 1 /\ StringBodies(Payload)[e] = 0
        /\ Hints(Payload).depth[i] = 0
    BY <1>1, <1>4, <1>6, <2>1, QuotedChecked
  <2> QED  BY <1>2, <1>3, <1>4, <1>6, <1>7, <2>2 DEF Checked
<1>8. CASE mode = "unquoted"
  <2>1. UnquotedField(Hints(Payload), f, key)
    BY <1>0, <1>8
  <2>2. /\ AllBlank(Payload, i + Len(key) + 2, c)
        /\ AllBlank(Payload, c + 1, v) /\ AllBlank(Payload, e, d)
        /\ \A k \in v .. e - 1 : Payload[k] \in Digits
        /\ StringBodies(Payload)[i] = 0
    BY <1>1, <1>6, <2>1, UnquotedChecked
  <2> QED  BY <1>2, <1>3, <1>4, <1>6, <1>8, <2>2 DEF Checked
<1> QED  BY <1>0, <1>7, <1>8

LEMMA IInvAccepted == IInv => AcceptedIsMember
<1> SUFFICES ASSUME IInv, signals.by = "anyone" PROVE AcceptedIsMember
  BY DEF AcceptedIsMember
<1>1. MadeByAnyone
  <2>1. signals # None
    BY DEF None
  <2>2. ~ MadeByService
    BY DEF MadeByService, MadeOfMember
  <2> QED  BY <2>1, <2>2 DEF IInv, Made
<1>2. PICK role \in Modes \ {"skip"} :
        \E f \in Parts(Hints(Payload), Kind(role)) :
          /\ Accepts(Hints(Payload), role, f)
          /\ signals = [by |-> "anyone", mode |-> role, field |-> f]
  BY <1>1 DEF MadeByAnyone
<1>3. PICK f \in Parts(Hints(Payload), Kind(role)) :
        /\ Accepts(Hints(Payload), role, f)
        /\ signals = [by |-> "anyone", mode |-> role, field |-> f]
  BY <1>2
<1> DEFINE mode == Kind(role)
<1>4. Issued /\ TextType /\ text \in Seq(Chars) /\ mode \in {"quoted", "unquoted"}
      /\ (mode = "quoted") = (role # "iat") /\ mode = Kind(role) /\ f \in Parts(Hints(Payload), mode)
  BY <1>3 DEF IInv, Issued, TextType, Kind
<1> HIDE DEF mode
<1>5. PICK i, c, v, e, d : PartAt(mode, f, i, c, v, e, d)
  BY <1>4, PartsAre
<1>6. Checked(mode, i, c, v, e, d)
  BY <1>3, <1>4, <1>5, AcceptedChecked
<1>7. PICK m : IsMember(mode, i, v, e, m)
  BY <1>4, <1>6, CheckedIsMember
<1>8. f.index = i /\ f.value = Padded(Slice(text, v, e - v), maxValueLen)
  BY <1>5 DEF PartAt
<1>9. FieldOf(f, i, c, v, e, d)
  BY <1>4, <1>5, FieldIs
<1>10. Slice(text, v, e - v) = m.value
  <2> DEFINE n == e - v
             s == Slice(text, v, n)
  <2>1. n \in Nat /\ v \in Nat /\ v + n <= Len(text) /\ Len(text) \in Nat
    <3>1. Len(text) \in Nat
      BY <1>4, PayloadType
    <3> QED  BY <1>9, <3>1 DEF FieldOf
  <2>2. /\ m.value \in Seq(Chars) /\ Len(m.value) = n
        /\ \A j \in 0 .. n - 1 : Payload[v + j] = m.value[j + 1]
    BY <1>4, <1>7, MemberTyped DEF IsMember, TextType
  <2> HIDE DEF n
  <2>3. s \in Seq(Chars) /\ Len(s) = n /\ \A j \in 0 .. n - 1 : s[j + 1] = text[(v + j) + 1]
    <3>1. text \in Seq(Chars)
      BY <1>4
    <3> QED  BY <2>1, <3>1, Sliced
  <2> HIDE DEF s
  <2>4. ASSUME NEW k \in 1 .. n PROVE s[k] = m.value[k]
    <3>1. k - 1 \in 0 .. n - 1 /\ (k - 1) + 1 = k /\ v + (k - 1) \in 0 .. Len(text) - 1
      BY <2>1
    <3>2. s[k] = text[(v + (k - 1)) + 1] /\ Payload[v + (k - 1)] = m.value[k]
      BY <2>2, <2>3, <3>1
    <3> QED  BY <1>4, <3>1, <3>2, PayloadType DEF charAt
  <2>5. s = m.value
    BY <2>2, <2>3, <2>4, SeqEqual
  <2> QED  BY <2>5 DEF s, n
<1>11. f.value_len = Len(m.value)
  BY <1>7, <1>9 DEF FieldOf, IsMember
<1>12. signals.field = f /\ signals.mode = role
  BY <1>3
<1>13. m.quoted = (role # "iat")
  BY <1>4, <1>7 DEF IsMember
<1> QED  BY <1>7, <1>8, <1>10, <1>11, <1>12, <1>13 DEF AcceptedIsMember, IsMember

\* Whoever makes the signals of a field, if the circuit accepts them (keyless.circom) the
\* field is a member of the JWT with the name that is proved and the value it is
\* accepted with, and a quoted one is not in a nested object.
THEOREM FieldsAreMembers == Spec => []AcceptedIsMember
BY Written, IInvAccepted, PTL

--------------------------------------------------------------------------------
\* What arrays take.

\* Powers of two, which the library defines by recursion.
LEMMA TwoExp ==
  ASSUME NEW k \in Nat
  PROVE  2 ^ k \in Nat \ {0} /\ 2 ^ (k + 1) = 2 * 2 ^ k
<1> DEFINE S == 1 .. k
           T == 1 .. (k + 1)
           A == SUBSET S
           B == {s \cup {k + 1} : s \in A}
<1>1. /\ IsFiniteSet(S) /\ Cardinality(S) = k
      /\ IsFiniteSet(T) /\ Cardinality(T) = k + 1
  BY FS_Interval
<1>2. /\ IsFiniteSet(A) /\ Cardinality(A) = 2 ^ k
      /\ Cardinality(SUBSET T) = 2 ^ (k + 1)
  BY <1>1, FS_SUBSET
<1>3. SUBSET T = A \cup B
  <2>1. ASSUME NEW s \in SUBSET T PROVE s \in A \cup B
    <3>1. CASE k + 1 \in s
      <4>1. s \ {k + 1} \in A /\ s = (s \ {k + 1}) \cup {k + 1}
        BY <3>1
      <4> QED  BY <4>1
    <3>2. CASE k + 1 \notin s
      BY <3>2
    <3> QED  BY <3>1, <3>2
  <2>2. ASSUME NEW s \in A \cup B PROVE s \in SUBSET T
    OBVIOUS
  <2> QED  BY <2>1, <2>2
<1>4. k + 1 \notin S
  OBVIOUS
<1>5. A \cap B = {}
  BY <1>4
<1>6. IsFiniteSet(B) /\ Cardinality(B) = Cardinality(A)
  <2> DEFINE f == [s \in A |-> s \cup {k + 1}]
  <2>1. f \in Surjection(A, B)
    BY DEF Surjection
  <2>2. ASSUME NEW s \in A, NEW t \in A, f[s] = f[t] PROVE s = t
    <3>1. k + 1 \notin s /\ k + 1 \notin t /\ s \cup {k + 1} = t \cup {k + 1}
      BY <1>4, <2>2
    <3> QED  BY <3>1
  <2>3. f \in Injection(A, B)
    BY <2>1, <2>2 DEF Injection, IsInjective, Surjection
  <2>4. ExistsBijection(A, B)
    BY <2>1, <2>3 DEF Bijection, ExistsBijection
  <2> QED  BY <1>2, <2>4, FS_Bijection
<1>7. Cardinality(A) \in Nat /\ Cardinality(A) # 0
  <2>1. {} \in A
    OBVIOUS
  <2> HIDE DEF A
  <2> QED  BY <1>2, <2>1, FS_CardinalityType, FS_EmptySet
<1> HIDE DEF A, B, T
<1>8. Cardinality(A \cup B) = Cardinality(A) + Cardinality(A)
  <2>1. Cardinality(A \cup B) = Cardinality(A) + Cardinality(B) - Cardinality(A \cap B)
    BY <1>2, <1>6, FS_Union
  <2>2. Cardinality(A \cap B) = 0
    BY <1>5, FS_EmptySet, Zenon
  <2> QED  BY <1>6, <1>7, <2>1, <2>2
<1>9. Cardinality(A \cup B) = 2 ^ (k + 1)
  BY <1>2, <1>3, Zenon
<1> QED  BY <1>2, <1>7, <1>8, <1>9

\* A natural is below its power of two.
LEMMA TwoExpAbove == \A n \in Nat : n < 2 ^ n
<1> SUFFICES ASSUME NEW n \in Nat PROVE n < 2 ^ n
  OBVIOUS
<1> DEFINE S == {k \in 0 .. n : k < 2 ^ k}
<1>1. 0 \in S
  OBVIOUS
<1>2. ASSUME NEW k \in 0 .. n - 1, k \in S PROVE k + 1 \in S
  BY <1>2, TwoExp
<1>3. n \in 0 .. n /\ \A k \in 0 .. n : k \in S
  <2> HIDE DEF S
  <2>1. 0 \in Int /\ n \in Int
    OBVIOUS
  <2> QED  BY <1>1, <1>2, <2>1, Induction
<1> QED  BY <1>3

\* The length of an array is below the power of two that min_num_bits allows.
LEMMA EnoughBits ==
  ASSUME NEW n \in Nat \ {0}
  PROVE  min_num_bits(n) \in Nat /\ n < 2 ^ min_num_bits(n)
<1> DEFINE S == {k \in Nat : n < 2 ^ k}
           P(k) == 2 ^ (k - 1) <= n /\ n < 2 ^ k
<1>1. n \in S
  BY TwoExpAbove
<1>2. PICK k \in S : \A j \in S : k <= j
  <2>1. S \in SUBSET Nat /\ S # {}
    BY <1>1
  <2> HIDE DEF S
  <2> QED  BY <2>1, Least
<1>3. k \in Nat /\ n < 2 ^ k /\ k <= n
  BY <1>1, <1>2
<1>4. k # 0
  <2> SUFFICES ASSUME k = 0 PROVE FALSE
    OBVIOUS
  <2>1. 2 ^ 0 = 1
    OBVIOUS
  <2>2. n < 2 ^ 0
    BY <1>3, Zenon
  <2> QED  BY <2>1, <2>2
<1>5. 2 ^ (k - 1) <= n
  <2>1. k - 1 \in Nat /\ ~ (k <= k - 1)
    BY <1>3, <1>4
  <2>2. k - 1 \notin S
    <3> HIDE DEF S
    <3> QED  BY <1>2, <2>1
  <2> QED  BY <2>1, <2>2, TwoExp
<1>6. \E j \in 1 .. n : P(j)
  <2>1. k \in 1 .. n /\ P(k)
    BY <1>3, <1>4, <1>5
  <2> HIDE DEF P
  <2> QED  BY <2>1
<1>7. min_num_bits(n) = CHOOSE j \in 1 .. n : P(j)
  BY DEF min_num_bits
<1>8. min_num_bits(n) \in 1 .. n /\ P(min_num_bits(n))
  <2> HIDE DEF P
  <2> QED  BY <1>6, <1>7, Zenon
<1> QED  BY <1>8

\* A range that is not empty can be selected.
LEMMA CanSelect ==
  ASSUME NEW n \in Nat, NEW x \in Nat, NEW y \in Nat, x < y, y <= n
  PROVE  Selectable(n, x, y)
<1>1. n \in Nat \ {0} /\ x \in 0 .. n - 1
  OBVIOUS
<1> DEFINE b == 2 ^ min_num_bits(n)
<1>2. n < b /\ b \in Nat
  BY <1>1, EnoughBits, TwoExp
<1> HIDE DEF b
<1>3. y < b
  BY <1>2
<1> QED  BY <1>1, <1>3 DEF Selectable, IsIndex, b

\* A part of an array that is in another, both given by their entries.
PartOf(str, n, substr, m, len, start) ==
  /\ DOMAIN str = 0 .. n - 1 /\ DOMAIN substr = 0 .. m - 1
  /\ start + len <= n /\ len <= m
  /\ \A j \in 0 .. len - 1 : str[start + j] = substr[j]
  /\ \A j \in len .. m - 1 : substr[j] = 0
  /\ \E j \in 0 .. len - 1 : substr[j] # 0

LEMMA PartIsSubstring ==
  ASSUME NEW str, NEW n \in Nat, NEW substr, NEW m \in Nat, NEW len \in Nat, NEW start \in Nat,
         PartOf(str, n, substr, m, len, start)
  PROVE  IsSubstring(str, substr, len, start)
<1> DEFINE sel == Selected(n, start, start + len)
<1>1. /\ DOMAIN str = 0 .. n - 1 /\ DOMAIN substr = 0 .. m - 1
      /\ start + len <= n /\ len <= m
      /\ \A j \in 0 .. len - 1 : str[start + j] = substr[j]
      /\ \A j \in len .. m - 1 : substr[j] = 0
  BY DEF PartOf
<1>2. Cardinality(DOMAIN str) = n
  BY <1>1, Size
<1>3. \A j \in 0 .. len - 1 : start + j \in sel
  BY <1>1 DEF Selected
<1>4. \E k \in sel : str[k] # 0
  <2>1. PICK j \in 0 .. len - 1 : substr[j] # 0
    BY DEF PartOf
  <2> HIDE DEF sel
  <2> QED  BY <1>1, <1>3, <2>1
<1>5. ASSUME NEW k \in sel
      PROVE  str[k] = IF k - start \in DOMAIN substr THEN substr[k - start] ELSE 0
  <2>1. k - start \in 0 .. len - 1 /\ start + (k - start) = k /\ k - start \in 0 .. m - 1
    BY <1>1 DEF Selected
  <2> QED  BY <1>1, <2>1
<1>6. ASSUME NEW j \in DOMAIN substr, start + j \notin sel PROVE substr[j] = 0
  <2>1. j \in 0 .. m - 1 /\ j \notin 0 .. len - 1
    BY <1>1, <1>3, <1>6
  <2>2. j \in len .. m - 1
    BY <2>1
  <2> QED  BY <1>1, <2>2
<1> HIDE DEF sel
<1> QED  BY <1>2, <1>4, <1>5, <1>6 DEF IsSubstring, sel

--------------------------------------------------------------------------------
\* What the service reads, where the member is plain.

\* A member that is plain, and a field without white space other than spaces.
PlainMember(m) ==
  /\ m \in members /\ m.level = 1 /\ Len(m.value) \in Nat \ {0}
  /\ \A j \in 0 .. Len(m.value) - 1 : m.value[j + 1] # quote
  /\ m.value[Len(m.value)] # backslash
  /\ ~ m.quoted => /\ Len(m.value) < maxValueLen
                   /\ \A j \in 0 .. Len(m.value) - 1 : m.value[j + 1] \in Digits

OnlySpaces(i, d) == \A k \in i .. d : Payload[k] \notin Blanks \ {space}

\* The member is where the service finds it: its value from v up to e, within q quotes.
Reads(q, m, i, c, v, e, d) ==
  /\ i \in Nat /\ c \in Nat /\ v \in Nat /\ e \in Nat /\ d \in Nat /\ d < Len(text)
  /\ q = (IF m.quoted THEN 1 ELSE 0) /\ v - q \in Nat /\ e = v + Len(m.value)
  /\ m.index = i /\ m.name = key
  /\ MemberAt(Payload, Len(text), m, c, v - q, d)

\* A search in the text is one in the payload.
LEMMA FirstIs ==
  ASSUME TextType, NEW a \in Nat, NEW chars, NEW r, FirstFrom(text, a, chars, r), r < Len(text)
  PROVE  /\ r \in Nat /\ a <= r /\ Payload[r] \in chars
         /\ \A j \in a .. r - 1 : Payload[j] \notin chars
<1>1. /\ r \in Nat /\ a <= r /\ charAt(text, r) \in chars
      /\ \A j \in a .. r - 1 : charAt(text, j) \notin chars
  BY DEF FirstFrom
<1>2. Len(text) \in Nat /\ \A k \in 0 .. Len(text) - 1 : charAt(text, k) = Payload[k]
  BY PayloadType
<1>3. r \in 0 .. Len(text) - 1 /\ \A j \in a .. r - 1 : j \in 0 .. Len(text) - 1
  BY <1>1, <1>2
<1> QED  BY <1>1, <1>2, <1>3

\* The service skips spaces only.
LEMMA SpacesRead ==
  ASSUME TextType, NEW a \in Nat, NEW r, FirstFrom(text, a, NotSpace, r), r < Len(text)
  PROVE  r \in Nat /\ a <= r /\ AllBlank(Payload, a, r) /\ Payload[r] # space
<1>1. /\ r \in Nat /\ a <= r /\ Payload[r] \in NotSpace
      /\ \A j \in a .. r - 1 : Payload[j] \notin NotSpace
  BY FirstIs
<1>2. ASSUME NEW j \in a .. r - 1 PROVE Payload[j] \in Blanks
  <2>1. Len(text) \in Nat /\ j \in 0 .. Len(text) - 1
    BY <1>1, PayloadType
  <2>2. Payload[j] \in Chars
    BY <2>1, PayloadType
  <2> QED  BY <1>1, <2>2 DEF NotSpace, Chars, Blanks, space
<1> QED  BY <1>1, <1>2 DEF AllBlank, NotSpace

\* The key there is the name of the member.
LEMMA NameIsKey ==
  ASSUME Issued, NEW m \in members, m.index \in Found(text, key)
  PROVE  m.name = key
<1> DEFINE i == m.index
           len == Len(text)
<1>1. i \in Nat /\ i + Len(key) + 2 <= len /\ KeyAt(i)
  BY FoundAt DEF Issued
<1>2. PICK c \in 0 .. len, w \in 0 .. len, d \in 0 .. len : MemberAt(Payload, len, m, c, w, d)
  BY DEF Issued, MembersPlaced
<1>3. m.name \in Seq(Chars) /\ Len(m.name) \in Nat
  BY MemberTyped DEF Issued, TextType
<1>4. i + Len(m.name) + 2 <= len /\ StringAt(Payload, i, m.name)
  <2>1. i + Len(m.name) + 2 <= c /\ StringAt(Payload, i, m.name)
    BY <1>2 DEF MemberAt
  <2>2. len \in Nat
    BY PayloadType DEF Issued
  <2> QED  BY <1>1, <1>3, <2>1, <2>2
<1> QED  BY <1>1, <1>3, <1>4, SameString DEF Issued

LEMMA ServiceReads ==
  ASSUME Issued, Parses(text, key), NEW p, p = Parse(text, key), NEW first, NEW q,
         Positions(p, first, q), NEW m, PlainMember(m), m.index = p.index,
         OnlySpaces(p.index, p.delimiter)
  PROVE  Reads(q, m, p.index, p.colon, p.value, p.end, p.delimiter)
<1> DEFINE in == Payload
           len == Len(text)
           i == p.index
           c == p.colon
           e == p.end
           d == p.delimiter
           l == Len(m.value)
           a == i + Len(key) + 2
<1>0. TextType /\ len \in Nat /\ Len(key) \in Nat
  BY PayloadType, KeyType DEF Issued
<1>1. /\ i \in Nat /\ c \in Nat /\ p.value \in Nat /\ e \in Nat /\ d \in Nat /\ first \in Nat
      /\ a <= c /\ c < first /\ p.value = first + q /\ q \in {0, 1}
      /\ p.value + q <= e /\ e + q <= d /\ d < len
      /\ charAt(text, c) = colon /\ charAt(text, d) \in {comma, close}
  <2>1. /\ {p.index, p.colon, p.value, p.end, p.delimiter} \subseteq Nat
        /\ p.index + Len(key) + 2 <= p.colon /\ p.colon < first /\ p.value = first + q
        /\ p.value + q <= p.end /\ p.end + q <= p.delimiter /\ p.delimiter < Len(text)
        /\ charAt(text, p.colon) = colon /\ charAt(text, p.delimiter) \in {comma, close}
    BY <1>0, InOrder DEF TextType
  <2>2. first \in Nat /\ q \in {0, 1}
    BY DEF Positions
  <2> QED  BY <2>1, <2>2
<1>2. in[c] = colon /\ in[d] \in {comma, close}
  <2>1. c \in 0 .. len - 1 /\ d \in 0 .. len - 1
    BY <1>0, <1>1
  <2> QED  BY <1>0, <1>1, <2>1, PayloadType
<1>3. m.name = key /\ m \in members
  BY NameIsKey DEF PlainMember, Positions
<1>4. PICK cc \in 0 .. len, w \in 0 .. len, g \in 0 .. len : MemberAt(in, len, m, cc, w, g)
  BY DEF Issued, MembersPlaced, PlainMember
<1>5. /\ a <= cc /\ cc < w /\ ValueEnd(m, w) <= g /\ g <= len
      /\ AllBlank(in, a, cc) /\ in[cc] = colon /\ AllBlank(in, cc + 1, w)
      /\ ValueOf(in, m, w) /\ AllBlank(in, ValueEnd(m, w), g)
      /\ g < len => in[g] \in {comma, close}
  BY <1>3, <1>4 DEF MemberAt, BlankAt, AllBlank
<1>6. /\ l \in Nat \ {0} /\ m.quoted \in BOOLEAN
      /\ \A j \in 0 .. l - 1 : m.value[j + 1] # quote
      /\ ~ m.quoted => \A j \in 0 .. l - 1 : m.value[j + 1] \in Digits
  BY MemberTyped DEF PlainMember, Issued, TextType
<1>7. \A ch \in {quote, comma, colon, close} : ch \notin Blanks
  BY DEF quote, comma, colon, close, Blanks
<1>8. \A ch \in Digits : ch \notin Blanks \cup {quote, comma, close}
  BY DEF Digits, quote, comma, close, Blanks
<1>a. /\ FirstFrom(text, a, NotSpace, c) /\ FirstFrom(text, c + 1, NotSpace, first)
      /\ q = 1 <=> first < len /\ charAt(text, first) = quote
      /\ q = 1 => FirstFrom(text, first + 2, {quote}, e)
      /\ q = 0 => FirstFrom(text, first, {space, comma, close}, e)
      /\ FirstFrom(text, e + q, NotSpace, d)
  BY DEF Positions
<1>c. \A k \in i .. d : in[k] \in Blanks => in[k] = space
  BY DEF OnlySpaces
<1> DEFINE v == p.value
<1>d. a = i + Len(key) + 2 /\ m.index = i
  OBVIOUS
<1> HIDE DEF in, len, a, i, c, v, e, d, l
<1>b. a \in Nat /\ i <= a /\ c + 1 \in Nat /\ e + q \in Nat /\ c < len /\ first < len /\ first <= d /\ e <= d
      /\ e < len /\ v \in Nat /\ v = first + q /\ v + q <= e /\ cc \in Nat /\ w \in Nat /\ g \in Nat
  <2>1. v \in Nat /\ v = first + q /\ v + q <= e
    BY <1>1 DEF v
  <2>2. cc \in Nat /\ w \in Nat /\ g \in Nat
    BY <1>0
  <2>3. a \in Nat /\ i <= a /\ c + 1 \in Nat /\ e + q \in Nat
    BY <1>0, <1>1, <1>d
  <2>4. first <= v /\ v <= e /\ e <= d
    BY <1>1, <2>1
  <2>5. first <= d /\ c <= d
    BY <1>1, <2>1, <2>4
  <2> QED  BY <1>0, <1>1, <2>1, <2>2, <2>3, <2>4, <2>5
<1>9. cc = c
  <2>1. AllBlank(in, a, c)
    BY <1>0, <1>a, <1>b, SpacesRead DEF in, len
  <2> QED  BY <1>1, <1>2, <1>5, <1>7, <1>b, <2>1, FirstNonBlank
<1>10. in[w] \notin Blanks /\ (in[w] = quote <=> m.quoted)
  <2>1. CASE m.quoted
    <3>1. in[w] = quote
      BY <1>5, <2>1 DEF ValueOf, StringAt
    <3> QED  BY <1>7, <2>1, <3>1
  <2>2. CASE ~ m.quoted
    <3>1. 0 \in 0 .. l - 1 /\ w + 0 = w
      BY <1>6, <1>b
    <3>2. in[w + 0] = m.value[0 + 1]
      BY <1>5, <2>2, <3>1 DEF ValueOf, l
    <3>3. m.value[0 + 1] \in Digits
      BY <1>6, <2>2, <3>1
    <3> QED  BY <1>8, <2>2, <3>1, <3>2, <3>3
  <2> QED  BY <1>6, <2>1, <2>2
<1>11. first = w
  <2>1. AllBlank(in, c + 1, first) /\ in[first] # space
    BY <1>0, <1>a, <1>b, SpacesRead DEF in, len
  <2>2. in[first] \notin Blanks
    <3>1. first \in i .. d
      BY <1>0, <1>1, <1>b
    <3> QED  BY <1>c, <2>1, <3>1
  <2>3. c + 1 <= first /\ c + 1 <= w /\ AllBlank(in, c + 1, w)
    BY <1>1, <1>5, <1>9, <1>b
  <2> QED  BY <1>1, <1>10, <1>b, <2>1, <2>2, <2>3, FirstNonBlank
<1>12. q = IF m.quoted THEN 1 ELSE 0
  <2>1. charAt(text, first) = in[first]
    <3>1. first \in 0 .. len - 1
      BY <1>0, <1>1, <1>b
    <3> QED  BY <1>0, <3>1, PayloadType DEF in, len
  <2>2. q = 1 <=> m.quoted
    BY <1>10, <1>11, <1>a, <1>b, <2>1
  <2> QED  BY <1>1, <2>2
<1>13. e = (w + q) + l
  <2>1. CASE m.quoted
    <3>0. q = 1 /\ e < len
      BY <1>0, <1>1, <1>12, <1>b, <2>1
    <3>1. in[w + l + 1] = quote /\ \A j \in 0 .. l - 1 : in[(w + 1) + j] # quote
      BY <1>5, <1>6, <2>1 DEF ValueOf, StringAt, l
    <3>2. w + 2 <= e /\ in[e] = quote /\ \A j \in w + 2 .. e - 1 : in[j] # quote
      <4>1. first + 2 \in Nat
        BY <1>1
      <4>2. first + 2 <= e /\ in[e] \in {quote} /\ \A j \in first + 2 .. e - 1 : in[j] \notin {quote}
        BY <1>0, <1>a, <3>0, <4>1, FirstIs DEF in, len
      <4> QED  BY <1>11, <4>2
    <3>3. ~ (e < w + l + 1)
      <4> SUFFICES ASSUME e < w + l + 1 PROVE FALSE
        OBVIOUS
      <4>1. e - (w + 1) \in 0 .. l - 1 /\ (w + 1) + (e - (w + 1)) = e
        BY <1>1, <1>6, <1>b, <3>2
      <4> QED  BY <3>1, <3>2, <4>1
    <3>4. ~ (e > w + l + 1)
      <4> SUFFICES ASSUME e > w + l + 1 PROVE FALSE
        OBVIOUS
      <4>1. w + l + 1 \in w + 2 .. e - 1
        BY <1>1, <1>6, <1>b
      <4> QED  BY <3>1, <3>2, <4>1
    <3> QED  BY <1>1, <1>6, <1>b, <3>0, <3>3, <3>4
  <2>2. CASE ~ m.quoted
    <3>0. q = 0 /\ e < len
      BY <1>0, <1>1, <1>12, <1>b, <2>2
    <3>1. /\ \A j \in 0 .. l - 1 : in[w + j] \in Digits
          /\ AllBlank(in, w + l, g) /\ w + l <= g
      <4>1. ValueEnd(m, w) = w + l + 0
        BY <2>2 DEF ValueEnd, l
      <4>2. \A j \in 0 .. l - 1 : in[w + j] = m.value[j + 1]
        BY <1>5, <2>2 DEF ValueOf, l
      <4>3. ValueEnd(m, w) = w + l
        BY <1>6, <1>b, <4>1
      <4> QED  BY <1>5, <1>6, <2>2, <4>2, <4>3
    <3>2. /\ w <= e /\ in[e] \in {space, comma, close}
          /\ \A j \in w .. e - 1 : in[j] \notin {space, comma, close}
      BY <1>0, <1>1, <1>11, <1>a, <3>0, FirstIs DEF in, len
    <3>3. ~ (e < w + l)
      <4> SUFFICES ASSUME e < w + l PROVE FALSE
        OBVIOUS
      <4>1. e - w \in 0 .. l - 1 /\ w + (e - w) = e
        BY <1>1, <1>6, <1>b, <3>2
      <4>2. in[e] \in Digits
        BY <3>1, <4>1
      <4>3. space \in Blanks
        BY DEF space, Blanks
      <4> QED  BY <1>8, <3>2, <4>2, <4>3
    <3>4. ~ (e > w + l)
      <4> SUFFICES ASSUME e > w + l PROVE FALSE
        OBVIOUS
      <4>1. w + l \in w .. e - 1 /\ w + l \in i .. d /\ w + l < len
        <5>1. i <= w
          BY <1>0, <1>1, <1>11, <1>b
        <5> QED  BY <1>0, <1>1, <1>6, <1>b, <5>1
      <4>2. in[w + l] \notin Blanks
        BY <1>c, <3>2, <4>1
      <4>3. g = w + l
        <5>1. ~ (w + l < g)
          <6> SUFFICES ASSUME w + l < g PROVE FALSE
            OBVIOUS
          <6>1. w + l \in w + l .. g - 1
            BY <1>6, <1>b
          <6> QED  BY <3>1, <4>2, <6>1 DEF AllBlank
        <5> QED  BY <1>6, <1>b, <3>1, <5>1
      <4> QED  BY <1>5, <3>2, <4>1, <4>3
    <3> QED  BY <1>1, <1>6, <1>b, <3>0, <3>3, <3>4
  <2> QED  BY <1>6, <2>1, <2>2
<1>14. ValueEnd(m, w) = e + q
  <2>1. CASE m.quoted
    <3>1. ValueEnd(m, w) = w + l + 2 /\ q = 1
      BY <1>12, <2>1 DEF ValueEnd, l
    <3> QED  BY <1>6, <1>13, <1>b, <3>1
  <2>2. CASE ~ m.quoted
    <3>1. ValueEnd(m, w) = w + l + 0 /\ q = 0
      BY <1>12, <2>2 DEF ValueEnd, l
    <3> QED  BY <1>6, <1>13, <1>b, <3>1
  <2> QED  BY <1>6, <2>1, <2>2
<1>15. g = d
  <2> DEFINE z == e + q
  <2>0. z \in Nat /\ z <= d /\ z <= g /\ AllBlank(in, z, g)
    BY <1>1, <1>5, <1>14, <1>b
  <2>1. AllBlank(in, z, d)
    <3> HIDE DEF z
    <3>1. FirstFrom(text, z, NotSpace, d)
      BY <1>a DEF z
    <3> QED  BY <1>0, <1>1, <2>0, <3>1, SpacesRead DEF in, len
  <2> HIDE DEF z
  <2>2. CASE g < len
    BY <1>1, <1>2, <1>5, <1>7, <1>b, <2>0, <2>1, <2>2, FirstNonBlank
  <2>3. CASE g = len
    <3>1. d \in z .. g - 1
      BY <1>0, <1>1, <2>0, <2>3
    <3> QED  BY <1>2, <1>7, <2>0, <3>1 DEF AllBlank
  <2> QED  BY <1>0, <1>5, <1>b, <2>2, <2>3
<1>16. v - q = w /\ e = v + l
  BY <1>1, <1>6, <1>11, <1>13, <1>b
<1>17. MemberAt(in, len, m, c, v - q, d)
  BY <1>4, <1>9, <1>15, <1>16
<1> QED  BY <1>1, <1>3, <1>12, <1>16, <1>17, <1>b, <1>d DEF Reads, in, len, i, c, v, e, d, l

--------------------------------------------------------------------------------
\* The field in the payload: which characters are where, in strings or not.
InString(q, i, v, e, k) ==
  (i + 1 <= k /\ k <= i + Len(key)) \/ (q = 1 /\ v <= k /\ k < e)

Ordered(q, i, c, v, e, d) ==
  /\ i \in Nat /\ c \in Nat /\ v \in Nat /\ e \in Nat /\ d \in Nat /\ d < Len(text)
  /\ q \in {0, 1} /\ i + Len(key) + 2 <= c /\ c + 1 <= v - q /\ v < e /\ e + q <= d

Shape(q, i, c, v, e, d) ==
  /\ KeyAt(i) /\ AllBlank(Payload, i + Len(key) + 2, c) /\ Payload[c] = colon
  /\ AllBlank(Payload, c + 1, v - q)
  /\ q = 1 => Payload[v - 1] = quote /\ Payload[e] = quote
  /\ \A k \in v .. e - 1 : Payload[k] # quote /\ (q = 0 => Payload[k] \in Digits)
  /\ Payload[e - 1] # backslash
  /\ AllBlank(Payload, e + q, d) /\ Payload[d] \in {comma, close}

\* Strings are where the circuit sees them, and nothing is nested.
Seen(q, i, v, e, d) ==
  \A k \in i .. d : /\ StringBodies(Payload)[k] = Bit(InString(q, i, v, e, k))
                    /\ Hints(Payload).depth[k] = 0

\* What a part of the text in a string, or outside, is to the circuit's scan.
LEMMA InsideIs ==
  ASSUME NEW in, NEW i \in Nat, NEW c \in Nat, NEW v \in Nat, NEW e \in Nat, NEW d \in Nat,
         NEW q \in {0, 1}, NEW l \in Nat, NEW w \in Nat, w = v - q,
         i + l + 2 <= c, c + 1 <= w, v < e, e + q <= d,
         Inside(in, i) = 0, \A k \in i + 1 .. i + l + 1 : Inside(in, k) = 1,
         \A k \in i + l + 2 .. c : Inside(in, k) = 0, \A k \in c + 1 .. w : Inside(in, k) = 0,
         q = 1 => \A k \in w + 1 .. e : Inside(in, k) = 1,
         q = 0 => \A k \in w .. e : Inside(in, k) = 0,
         \A k \in e + q .. d : Inside(in, k) = 0
  PROVE  \A k \in i .. d :
           Inside(in, k) = IF (i + 1 <= k /\ k <= i + l + 1) \/ (q = 1 /\ v <= k /\ k <= e)
                           THEN 1 ELSE 0
<1> SUFFICES ASSUME NEW k \in i .. d
             PROVE Inside(in, k) = IF (i + 1 <= k /\ k <= i + l + 1) \/ (q = 1 /\ v <= k /\ k <= e)
                           THEN 1 ELSE 0
  OBVIOUS
<1>1. CASE k < v
  <2>1. k = i \/ k \in i + 1 .. i + l + 1 \/ k \in i + l + 2 .. c \/ k \in c + 1 .. w
    BY <1>1
  <2> QED  BY <1>1, <2>1
<1>2. CASE v <= k /\ k <= e
  <2>1. ~ (k <= i + l + 1)
    BY <1>2
  <2>2. CASE q = 1
    <3>1. k \in w + 1 .. e
      BY <1>2, <2>2
    <3> QED  BY <1>2, <2>2, <3>1
  <2>3. CASE q = 0
    <3>1. k \in w .. e
      BY <1>2, <2>3
    <3> QED  BY <2>1, <2>3, <3>1
  <2> QED  BY <2>2, <2>3
<1>3. CASE e < k
  <2>1. k \in e + q .. d /\ ~ (k <= i + l + 1) /\ ~ (k <= e)
    BY <1>3
  <2> QED  BY <2>1
<1> QED  BY <1>1, <1>2, <1>3

LEMMA BothInside ==
  ASSUME NEW i \in Nat, NEW l \in Nat, NEW v \in Nat, NEW e \in Nat, NEW k \in Nat,
         NEW q \in {0, 1}, i + l + 1 < v - q
  PROVE  (/\ (i + 1 <= k /\ k <= i + l + 1) \/ (q = 1 /\ v <= k /\ k <= e)
          /\ (i + 1 <= k + 1 /\ k + 1 <= i + l + 1) \/ (q = 1 /\ v <= k + 1 /\ k + 1 <= e))
         <=> ((i + 1 <= k /\ k <= i + l) \/ (q = 1 /\ v <= k /\ k < e))
<1>1. CASE q = 0
  BY <1>1
<1>2. CASE q = 1
  BY <1>2
<1> QED  BY <1>1, <1>2

LEMMA ShapeIs ==
  ASSUME Issued, NEW m, PlainMember(m), NEW q, NEW i, NEW c, NEW v, NEW e, NEW d,
         Reads(q, m, i, c, v, e, d)
  PROVE  /\ Ordered(q, i, c, v, e, d) /\ Shape(q, i, c, v, e, d) /\ Seen(q, i, v, e, d)
         /\ \A j \in 0 .. e - v - 1 : Payload[v + j] = m.value[j + 1]
<1> DEFINE in == Payload
           N == MAX_JWT_PAYLOAD_LEN
           len == Len(text)
           l == Len(key)
           n == Len(m.value)
           w == v - q
<1>1. /\ i \in Nat /\ c \in Nat /\ v \in Nat /\ e \in Nat /\ d \in Nat /\ d < len
      /\ q = (IF m.quoted THEN 1 ELSE 0) /\ w \in Nat /\ e = v + n
      /\ m.index = i /\ m.name = key /\ MemberAt(in, len, m, c, w, d)
  BY DEF Reads
<1>2. /\ m.level = 1 /\ n \in Nat \ {0} /\ m.quoted \in BOOLEAN
      /\ \A j \in 0 .. n - 1 : m.value[j + 1] # quote
      /\ m.value[n] # backslash
      /\ ~ m.quoted => \A j \in 0 .. n - 1 : m.value[j + 1] \in Digits
  BY MemberTyped DEF PlainMember, Issued, TextType
<1>3. len \in Nat /\ len <= N /\ N \in Nat /\ in \in [0 .. N - 1 -> Int] /\ l \in Nat \ {0}
  BY PayloadType, KeyType DEF Issued
<1>4. /\ i + l + 2 <= c /\ c < w /\ ValueEnd(m, w) <= d
      /\ StringAt(in, i, key) /\ BlankAt(in, i + l + 2, c) /\ in[c] = colon /\ BlankAt(in, c + 1, w)
      /\ ValueOf(in, m, w) /\ BlankAt(in, ValueEnd(m, w), d) /\ in[d] \in {comma, close}
      /\ \A k \in i .. d : Level(in, k) = 1
  BY <1>1, <1>2 DEF MemberAt
<1> HIDE DEF in, l, len, n, w
<1>5. q \in {0, 1} /\ v = w + q /\ (q = 1 <=> m.quoted) /\ ValueEnd(m, w) = e + q
  <2>1. CASE m.quoted
    <3>1. q = 1 /\ ValueEnd(m, w) = w + n + 2
      BY <1>1, <2>1 DEF ValueEnd, n
    <3> QED  BY <1>1, <1>2, <2>1, <3>1 DEF w
  <2>2. CASE ~ m.quoted
    <3>1. q = 0 /\ ValueEnd(m, w) = w + n + 0
      BY <1>1, <2>2 DEF ValueEnd, n
    <3> QED  BY <1>1, <1>2, <2>2, <3>1 DEF w
  <2> QED  BY <1>2, <2>1, <2>2
<1>6. i + l + 2 <= c /\ c + 1 <= w /\ v < e /\ e + q <= d
  BY <1>1, <1>2, <1>4, <1>5
<1>7. Ordered(q, i, c, v, e, d)
  BY <1>1, <1>5, <1>6 DEF Ordered, len, l, w
<1>8. \A j \in 0 .. n - 1 : in[v + j] = m.value[j + 1]
  <2>1. CASE m.quoted
    <3>1. v = w + 1
      BY <1>5, <2>1
    <3> QED  BY <1>4, <2>1, <3>1 DEF ValueOf, StringAt, n
  <2>2. CASE ~ m.quoted
    <3>1. v = w
      BY <1>1, <1>5, <2>2
    <3> QED  BY <1>4, <2>2, <3>1 DEF ValueOf, n
  <2> QED  BY <1>2, <2>1, <2>2
<1>9. ASSUME NEW k \in v .. e - 1 PROVE in[k] # quote /\ (q = 0 => in[k] \in Digits)
  <2>1. k - v \in 0 .. n - 1 /\ v + (k - v) = k
    BY <1>1, <1>2
  <2> QED  BY <1>2, <1>5, <1>8, <2>1
<1>10. in[e - 1] # backslash
  <2>1. n - 1 \in 0 .. n - 1 /\ v + (n - 1) = e - 1 /\ (n - 1) + 1 = n
    BY <1>1, <1>2
  <2> QED  BY <1>2, <1>8, <2>1
<1>11. q = 1 => in[v - 1] = quote /\ in[e] = quote
  <2> SUFFICES ASSUME q = 1 PROVE in[v - 1] = quote /\ in[e] = quote
    OBVIOUS
  <2>1. in[w] = quote /\ in[w + n + 1] = quote
    BY <1>4, <1>5 DEF ValueOf, StringAt, n
  <2>2. w = v - 1 /\ w + n + 1 = e
    BY <1>1, <1>2, <1>5
  <2> QED  BY <2>1, <2>2
<1>12. Shape(q, i, c, v, e, d)
  <2>1. KeyAt(i)
    BY <1>4 DEF KeyAt, StringAt, in
  <2> QED  BY <1>4, <1>5, <1>9, <1>10, <1>11, <2>1 DEF Shape, BlankAt, AllBlank, in, l, w
<1>13. \A k \in i .. d :
         Inside(in, k) = IF (i + 1 <= k /\ k <= i + l + 1) \/ (q = 1 /\ v <= k /\ k <= e)
                         THEN 1 ELSE 0
  <2>1. Inside(in, i) = 0 /\ \A k \in i + 1 .. i + l + 1 : Inside(in, k) = 1
    BY <1>4 DEF StringAt, l
  <2>2. /\ \A k \in i + l + 2 .. c : Inside(in, k) = 0
        /\ \A k \in c + 1 .. w : Inside(in, k) = 0
        /\ \A k \in e + q .. d : Inside(in, k) = 0
    BY <1>4, <1>5 DEF BlankAt
  <2>3. q = 1 => \A k \in w + 1 .. e : Inside(in, k) = 1
    <3> SUFFICES ASSUME q = 1 PROVE \A k \in w + 1 .. e : Inside(in, k) = 1
      OBVIOUS
    <3>1. \A k \in w + 1 .. w + n + 1 : Inside(in, k) = 1
      BY <1>4, <1>5 DEF ValueOf, StringAt, n
    <3>2. w + n + 1 = e
      BY <1>1, <1>2, <1>5
    <3> QED  BY <3>1, <3>2
  <2>4. q = 0 => \A k \in w .. e : Inside(in, k) = 0
    <3> SUFFICES ASSUME q = 0 PROVE \A k \in w .. e : Inside(in, k) = 0
      OBVIOUS
    <3>1. \A k \in w .. w + n : Inside(in, k) = 0
      BY <1>4, <1>5 DEF ValueOf, n
    <3>2. w + n = e
      BY <1>1, <1>2, <1>5
    <3> QED  BY <3>1, <3>2
  <2>5. w = v - q /\ l \in Nat
    BY <1>3 DEF w
  <2> QED  BY <1>1, <1>5, <1>6, <2>1, <2>2, <2>3, <2>4, <2>5, InsideIs
<1>14. \A k \in 0 .. N - 1 : ScanStep(in, k)
  BY <1>3, Scan
<1>15. ASSUME NEW k \in i .. d PROVE StringBodies(in)[k] = Bit(InString(q, i, v, e, k))
  <2>1. k \in 0 .. N - 1
    BY <1>1, <1>3
  <2>2. /\ StringBodies(in)[k] \in {0, 1}
        /\ StringBodies(in)[k] = 1 <=> Inside(in, k) = 1 /\ Inside(in, k + 1) = 1
    BY <1>14, <2>1 DEF ScanStep
  <2>3. InString(q, i, v, e, k) <=>
          (i + 1 <= k /\ k <= i + l) \/ (q = 1 /\ v <= k /\ k < e)
    BY DEF InString, l
  <2>4. CASE k < d
    <3>1. k + 1 \in i .. d
      BY <1>1, <2>4
    <3>2. /\ Inside(in, k) = 1 <=>
               (i + 1 <= k /\ k <= i + l + 1) \/ (q = 1 /\ v <= k /\ k <= e)
          /\ Inside(in, k + 1) = 1 <=>
               (i + 1 <= k + 1 /\ k + 1 <= i + l + 1) \/ (q = 1 /\ v <= k + 1 /\ k + 1 <= e)
      BY <1>13, <3>1
    <3>3. (Inside(in, k) = 1 /\ Inside(in, k + 1) = 1) <=> InString(q, i, v, e, k)
      <4>1. k \in Nat /\ i + l + 1 < v - q
        BY <1>1, <1>3, <1>5, <1>6
      <4> QED  BY <1>1, <1>3, <1>5, <2>3, <3>2, <4>1, BothInside, SMTT(30)
    <3> QED  BY <2>2, <3>3 DEF Bit
  <2>5. CASE k = d
    <3>1. ~ (k <= i + l + 1) /\ ~ (q = 1 /\ k <= e)
      BY <1>1, <1>3, <1>5, <1>6, <2>5
    <3>2. Inside(in, k) = 0 /\ ~ (k <= i + l) /\ ~ (q = 1 /\ k < e)
      BY <1>1, <1>3, <1>5, <1>13, <3>1
    <3> QED  BY <2>2, <2>3, <3>2 DEF Bit
  <2> QED  BY <1>1, <2>4, <2>5
<1>16. ASSUME NEW k \in i .. d PROVE Hints(in).depth[k] = 0
  <2>1. i # 0
    <3> SUFFICES ASSUME i = 0 PROVE FALSE
      OBVIOUS
    <3>1. Level(in, i) = 1
      <4>1. i \in i .. d
        BY <1>1, <1>3, <1>5, <1>6
      <4> QED  BY <1>4, <4>1
    <3> QED  BY <3>1 DEF Level
  <2>2. k \in 1 .. N - 1 /\ k \in 0 .. N - 1 /\ k \in Nat
    BY <1>1, <1>3, <2>1
  <2>3. Level(in, k) = 1 /\ (Level(in, k + 1) = 1 \/ Level(in, k + 1) = 0)
    <3>1. Level(in, k) = 1
      BY <1>4
    <3>2. CASE k < d
      <4>1. k + 1 \in i .. d
        BY <1>1, <3>2
      <4> QED  BY <1>4, <3>1, <4>1
    <3>3. CASE k = d
      <4>1. in[k] # open
        BY <1>4, <3>3 DEF open, comma, close
      <4> QED  BY <1>14, <2>2, <3>1, <4>1 DEF ScanStep
    <3> QED  BY <1>1, <3>1, <3>2, <3>3
  <2>4. Level(in, k + 1) <= Level(in, k)
    BY <2>3
  <2>5. Hints(in).depth[k] = IF Level(in, k + 1) < 1 THEN 0 ELSE Level(in, k + 1) - 1
    BY <1>3, <2>2, <2>4, DepthIs
  <2> QED  BY <2>3, <2>5
<1>17. Seen(q, i, v, e, d)
  BY <1>15, <1>16 DEF Seen, in
<1>18. \A j \in 0 .. e - v - 1 : in[v + j] = m.value[j + 1]
  <2>1. e - v = n
    BY <1>1, <1>2
  <2> QED  BY <1>8, <2>1
<1> QED  BY <1>7, <1>12, <1>17, <1>18 DEF in

--------------------------------------------------------------------------------
\* The string bodies that the service computes for a field with a quoted value.

\* What calc_string_bodies says of its k-th value.
CalcStep(s, g, k) ==
  IF k = 1 THEN 0
  ELSE IF k = 2 THEN Bit(s[1] = quote)
  ELSE IF g[k - 2] = 0 /\ s[k - 1] = quote /\ s[k - 2] # backslash THEN 1
  ELSE IF g[k - 1] = 1 /\ s[k] = quote /\ s[k - 1] # backslash THEN 0
  ELSE g[k - 1]

\* Only one function does.
LEMMA CalcUnique ==
  ASSUME NEW s, Len(s) \in Nat, NEW g, g = [k \in 1 .. Len(s) |-> CalcStep(s, g, k)]
  PROVE  calc_string_bodies(s) = g
<1> DEFINE n == Len(s)
           b == calc_string_bodies(s)
           D == {k \in 1 .. n : b[k] = g[k] /\ (k # 1 => b[k - 1] = g[k - 1])}
<1>1. b = CHOOSE h : h = [k \in 1 .. n |-> CalcStep(s, h, k)]
  BY DEF calc_string_bodies, CalcStep
<1>2. b = [k \in 1 .. n |-> CalcStep(s, b, k)]
  <2> HIDE DEF b, n
  <2> QED  BY <1>1, Zenon DEF n
<1> HIDE DEF b
<1>3. \A k \in 1 .. n : b[k] = CalcStep(s, b, k) /\ g[k] = CalcStep(s, g, k)
  BY <1>2
<1>4. CASE n = 0
  <2>1. 1 .. n = {}
    BY <1>4
  <2> QED  BY <1>2, <2>1 DEF b
<1>5. CASE n # 0
  <2>1. 1 \in Int /\ n \in Int /\ 1 \in 1 .. n
    BY <1>5
  <2>2. 1 \in D
    BY <1>3, <2>1 DEF CalcStep
  <2>3. ASSUME NEW k \in 1 .. n - 1, k \in D PROVE k + 1 \in D
    <3>1. k + 1 \in 1 .. n /\ k + 1 # 1 /\ (k + 1) - 1 = k /\ (k + 1) - 2 = k - 1
          /\ (k + 1 # 2 => k # 1)
      BY <1>5, <2>1
    <3>2. b[k] = g[k] /\ (k # 1 => b[k - 1] = g[k - 1])
      BY <2>3
    <3>3. CalcStep(s, b, k + 1) = CalcStep(s, g, k + 1)
      BY <3>1, <3>2 DEF CalcStep
    <3>4. b[k + 1] = g[k + 1]
      BY <1>3, <3>1, <3>3
    <3> QED  BY <3>1, <3>2, <3>4
  <2>4. \A k \in 1 .. n : k \in D
    <3> HIDE DEF D, n
    <3> QED  BY <2>1, <2>2, <2>3, Induction
  <2>5. \A k \in 1 .. n : b[k] = g[k]
    BY <2>4
  <2> QED  BY <1>2, <2>5 DEF b
<1> QED  BY <1>4, <1>5

\* The quotes of the field are those around the name and the value.
LEMMA QuotesAt ==
  ASSUME NEW i, NEW c, NEW v, NEW e, NEW d, Ordered(1, i, c, v, e, d), Shape(1, i, c, v, e, d)
  PROVE  /\ \A k \in i .. d : Payload[k] = quote <=> k \in {i, i + Len(key) + 1, v - 1, e}
         /\ Payload[i + Len(key)] # backslash /\ Payload[v - 2] # backslash
         /\ Payload[e - 1] # backslash
<1> DEFINE in == Payload
           l == Len(key)
<1>1. /\ i \in Nat /\ c \in Nat /\ v \in Nat /\ e \in Nat /\ d \in Nat
      /\ i + l + 2 <= c /\ c + 2 <= v /\ v < e /\ e + 1 <= d /\ l \in Nat \ {0}
  BY KeyType DEF Ordered
<1>2. /\ in[i] = quote /\ in[i + l + 1] = quote
      /\ \A j \in 0 .. l - 1 : in[(i + 1) + j] = key[j + 1]
      /\ AllBlank(in, i + l + 2, c) /\ in[c] = colon /\ AllBlank(in, c + 1, v - 1)
      /\ in[v - 1] = quote /\ in[e] = quote /\ \A k \in v .. e - 1 : in[k] # quote
      /\ in[e - 1] # backslash
      /\ AllBlank(in, e + 1, d) /\ in[d] \in {comma, close}
  BY DEF Shape, KeyAt
<1> HIDE DEF in, l
<1>3. \A ch \in Blanks \cup {colon, comma, close} : ch # quote /\ ch # backslash
  BY DEF Blanks, colon, comma, close, quote, backslash
<1>4. ASSUME NEW k \in i + 1 .. i + l PROVE in[k] # quote /\ in[k] # backslash
  <2>1. k - (i + 1) \in 0 .. l - 1 /\ (i + 1) + (k - (i + 1)) = k
    BY <1>1
  <2>2. in[k] \in 97 .. 122
    BY <1>2, <2>1, KeyType DEF l
  <2> QED  BY <2>2, Letters
<1>5. ASSUME NEW k \in i + l + 2 .. v - 2 PROVE in[k] # quote /\ in[k] # backslash
  <2>1. k \in i + l + 2 .. c - 1 \/ k = c \/ k \in c + 1 .. (v - 1) - 1
    BY <1>1
  <2>2. in[k] \in Blanks \cup {colon}
    BY <1>2, <2>1 DEF AllBlank
  <2> QED  BY <1>3, <2>2
<1>6. ASSUME NEW k \in e + 1 .. d PROVE in[k] # quote
  <2>1. k \in e + 1 .. d - 1 \/ k = d
    BY <1>1
  <2>2. in[k] \in Blanks \cup {comma, close}
    BY <1>2, <2>1 DEF AllBlank
  <2> QED  BY <1>3, <2>2
<1>7. ASSUME NEW k \in i .. d PROVE in[k] = quote <=> k \in {i, i + l + 1, v - 1, e}
  <2>1. \/ k \in {i, i + l + 1, v - 1, e}
        \/ k \in i + 1 .. i + l \/ k \in i + l + 2 .. v - 2 \/ k \in v .. e - 1 \/ k \in e + 1 .. d
    BY <1>1
  <2>2. CASE k \in {i, i + l + 1, v - 1, e}
    BY <1>2, <2>2
  <2>3. CASE k \notin {i, i + l + 1, v - 1, e}
    BY <1>2, <1>4, <1>5, <1>6, <2>1, <2>3
  <2> QED  BY <2>2, <2>3
<1>8. i + l \in i + 1 .. i + l /\ v - 2 \in i + l + 2 .. v - 2
  BY <1>1
<1> QED  BY <1>2, <1>4, <1>5, <1>7, <1>8 DEF in, l

\* s is the payload from i to d.
TextAt(s, i, d) ==
  Len(s) = d + 1 - i /\ \A x \in 0 .. d - i : s[x + 1] = Payload[i + x]

\* What the service computes is what the circuit sees.
LEMMA CalcIs ==
  ASSUME NEW i, NEW c, NEW v, NEW e, NEW d, Ordered(1, i, c, v, e, d), Shape(1, i, c, v, e, d),
         NEW s, TextAt(s, i, d)
  PROVE  /\ Len(calc_string_bodies(s)) = d + 1 - i
         /\ \A x \in 0 .. d - i : calc_string_bodies(s)[x + 1] = Bit(InString(1, i, v, e, i + x))
<1> DEFINE in == Payload
           l == Len(key)
           B(k) == (i + 1 <= k /\ k <= i + l) \/ (v <= k /\ k < e)
           g == [k \in 1 .. Len(s) |-> Bit(B(i + (k - 1)))]
<1>1. /\ i \in Nat /\ c \in Nat /\ v \in Nat /\ e \in Nat /\ d \in Nat
      /\ i + l + 2 <= c /\ c + 2 <= v /\ v < e /\ e + 1 <= d /\ l \in Nat \ {0}
  BY KeyType DEF Ordered
<1>2. /\ \A k \in i .. d : in[k] = quote <=> k \in {i, i + l + 1, v - 1, e}
      /\ in[i + l] # backslash /\ in[v - 2] # backslash /\ in[e - 1] # backslash
  BY QuotesAt
<1>0. Len(s) = d + 1 - i /\ \A x \in 0 .. d - i : s[x + 1] = in[i + x]
  BY DEF TextAt
<1> HIDE DEF in, l
<1>3. ASSUME NEW k \in 1 .. Len(s) PROVE s[k] = in[i + (k - 1)]
  <2>1. k - 1 \in 0 .. d - i /\ (k - 1) + 1 = k
    BY <1>0, <1>1
  <2> QED  BY <1>0, <2>1
<1>4. ASSUME NEW k \in 1 .. Len(s) PROVE g[k] = CalcStep(s, g, k)
  <2> DEFINE x == i + (k - 1)
  <2>1. x \in i .. d /\ x \in Int /\ g[k] = Bit(B(x))
    BY <1>0, <1>1, SMTT(30)
  <2>2. CASE k = 1
    <3>1. x = i /\ ~ B(x)
      BY <1>1, <2>2
    <3> HIDE DEF B
    <3> QED  BY <2>1, <2>2, <3>1 DEF CalcStep, Bit
  <2>3. CASE k = 2
    <3>1. x = i + 1 /\ B(x) /\ 1 \in 1 .. Len(s) /\ i + (1 - 1) = i /\ i \in i .. d
      BY <1>0, <1>1, <2>3
    <3>2. s[1] = quote
      BY <1>2, <1>3, <3>1
    <3> HIDE DEF B
    <3> QED  BY <2>1, <2>3, <3>1, <3>2 DEF CalcStep, Bit
  <2>4. CASE k # 1 /\ k # 2
    <3>1. /\ k - 1 \in 1 .. Len(s) /\ k - 2 \in 1 .. Len(s)
          /\ i + ((k - 1) - 1) = x - 1 /\ i + ((k - 2) - 1) = x - 2
          /\ x - 1 \in i + 1 .. d /\ x - 1 \in i .. d /\ x \in i + 2 .. d
      BY <1>0, <1>1, <2>4
    <3>2. /\ s[k] = in[x] /\ s[k - 1] = in[x - 1] /\ s[k - 2] = in[x - 2]
          /\ g[k - 1] = Bit(B(x - 1)) /\ g[k - 2] = Bit(B(x - 2))
      <4>1. s[k] = in[x] /\ s[k - 1] = in[x - 1] /\ s[k - 2] = in[x - 2]
        BY <1>3, <3>1
      <4> HIDE DEF B
      <4>2. g[k - 1] = Bit(B(i + ((k - 1) - 1))) /\ g[k - 2] = Bit(B(i + ((k - 2) - 1)))
        BY <3>1
      <4> QED  BY <3>1, <4>1, <4>2
    <3>3. /\ in[x] = quote <=> x \in {i + l + 1, v - 1, e}
          /\ in[x - 1] = quote <=> x - 1 \in {i + l + 1, v - 1, e}
      BY <1>1, <1>2, <2>1, <3>1
    <3> HIDE DEF x
    <3>4. B(x) <=> \/ ~ B(x - 2) /\ in[x - 1] = quote /\ in[x - 2] # backslash
                   \/ B(x - 1) /\ ~ (in[x] = quote /\ in[x - 1] # backslash)
      <4>1. x \in i + 2 .. d
        BY <3>1
      <4>2. CASE x - 1 = i + l + 1
        <5>1. B(x - 2) /\ ~ B(x - 1) /\ ~ B(x)
          BY <1>1, <4>1, <4>2
        <5> QED  BY <5>1
      <4>3. CASE x - 1 = v - 1
        <5>1. x = v /\ ~ B(x - 2) /\ B(x)
          BY <1>1, <4>1, <4>3
        <5> HIDE DEF B
        <5>2. in[x - 2] # backslash
          BY <1>2, <5>1
        <5> QED  BY <3>3, <4>3, <5>1, <5>2
      <4>4. CASE x - 1 = e
        <5>1. B(x - 2) /\ ~ B(x - 1) /\ ~ B(x)
          BY <1>1, <4>1, <4>4
        <5> QED  BY <5>1
      <4>5. CASE x - 1 \notin {i + l + 1, v - 1, e} /\ x \in {i + l + 1, e}
        <5>1. in[x - 1] # quote /\ in[x] = quote /\ in[x - 1] # backslash /\ ~ B(x)
          <6>1. x - 1 = i + l \/ x - 1 = e - 1
            BY <1>1, <4>1, <4>5
          <6> QED  BY <1>1, <1>2, <3>3, <4>1, <4>5, <6>1
        <5> HIDE DEF B
        <5> QED  BY <5>1
      <4>6. CASE x - 1 \notin {i + l + 1, v - 1, e} /\ x \notin {i + l + 1, e}
        <5>1. in[x - 1] # quote /\ (B(x) <=> B(x - 1)) /\ (in[x] = quote => ~ B(x - 1))
          BY <1>1, <3>3, <4>1, <4>6
        <5> HIDE DEF B
        <5> QED  BY <5>1
      <4> QED  BY <4>2, <4>3, <4>4, <4>5, <4>6
    <3> HIDE DEF B, g
    <3> QED  BY <2>1, <2>4, <3>2, <3>4 DEF CalcStep, Bit
  <2> QED  BY <2>2, <2>3, <2>4
<1>5. Len(s) \in Nat
  BY <1>0, <1>1
<1>6. g = [k \in 1 .. Len(s) |-> CalcStep(s, g, k)]
  <2>1. g = [k \in 1 .. Len(s) |-> g[k]]
    OBVIOUS
  <2> HIDE DEF g
  <2> QED  BY <1>4, <2>1
<1>7. calc_string_bodies(s) = g
  <2> HIDE DEF g
  <2> QED  BY <1>5, <1>6, CalcUnique
<1>8. ASSUME NEW x \in 0 .. d - i PROVE g[x + 1] = Bit(InString(1, i, v, e, i + x))
  <2>1. x + 1 \in 1 .. Len(s) /\ (x + 1) - 1 = x
    BY <1>0, <1>1, SMTT(30)
  <2>2. InString(1, i, v, e, i + x) = B(i + x)
    BY DEF InString, l
  <2>3. g[x + 1] = Bit(B(i + ((x + 1) - 1)))
    BY <2>1
  <2> HIDE DEF B
  <2> QED  BY <2>1, <2>2, <2>3
<1>9. Len(g) = d + 1 - i
  <2> DEFINE n == d + 1 - i
  <2>1. n \in Nat /\ g = [k \in 1 .. n |-> Bit(B(i + (k - 1)))]
    BY <1>0, <1>1
  <2>2. g \in [1 .. n -> {0, 1}]
    <3> HIDE DEF B, n
    <3> QED  BY <2>1 DEF Bit
  <2> HIDE DEF g, n
  <2>3. g \in Seq({0, 1}) /\ Len(g) = n
    BY <2>1, <2>2
  <2> QED  BY <2>3 DEF n
<1> QED  BY <1>7, <1>8, <1>9

--------------------------------------------------------------------------------
\* The signals the service makes of a plain member, in terms of the payload.

\* The entries of such an array.
InArray(a, s, n) ==
  /\ DOMAIN a = 0 .. n - 1
  /\ \A j \in 0 .. Len(s) - 1 : j < n => a[j] = s[j + 1]
  /\ \A j \in Len(s) .. n - 1 : a[j] = 0

LEMMA PaddedIs ==
  ASSUME NEW s, Len(s) \in Nat, NEW n \in Nat
  PROVE  InArray(Padded(s, n), s, n)
BY DEF InArray, Padded, charAt

MadeOf(f, q, i, c, v, e, d) ==
  /\ FieldOf(f, i, c, v, e, d)
  /\ e - v <= maxValueLen /\ Len(key) <= maxNameLen
  /\ DOMAIN f.field = 0 .. maxKVPairLen - 1
  /\ \A j \in d + 1 - i .. maxKVPairLen - 1 : f.field[j] = 0
  /\ DOMAIN f.name = 0 .. maxNameLen - 1
  /\ \A j \in 0 .. Len(key) - 1 : f.name[j] = key[j + 1]
  /\ \A j \in Len(key) .. maxNameLen - 1 : f.name[j] = 0
  /\ DOMAIN f.value = 0 .. maxValueLen - 1
  /\ \A j \in e - v .. maxValueLen - 1 : f.value[j] = 0
  /\ q = 1 => /\ \A j \in 0 .. d - i : f.string_bodies[j] = Bit(InString(1, i, v, e, i + j))
              /\ \A j \in d + 1 - i .. maxKVPairLen - 1 : f.string_bodies[j] = 0

LEMMA ServiceMakes ==
  ASSUME TextType, NEW p, p = Parse(text, key), Fits(text, p, key, Value(text, p)), NEW q,
         Ordered(q, p.index, p.colon, p.value, p.end, p.delimiter),
         Shape(q, p.index, p.colon, p.value, p.end, p.delimiter)
  PROVE  MadeOf(signals_for_field(text, key, Value(text, p), FALSE),
                q, p.index, p.colon, p.value, p.end, p.delimiter)
<1> DEFINE f == signals_for_field(text, key, Value(text, p), FALSE)
           i == p.index
           c == p.colon
           v == p.value
           e == p.end
           d == p.delimiter
           K == maxKVPairLen
           l == Len(key)
           h == d + 1 - i
           n == e - v
           whole == Slice(text, i, h)
           bodies == calc_string_bodies(whole)
           value == Slice(text, v, n)
<1>1. /\ f.index = i /\ f.colon_index = c - i /\ f.value_index = v - i /\ f.skip_checks = FALSE
      /\ f.field = Padded(whole, K) /\ f.field_len = Len(whole)
      /\ f.string_bodies = Padded(bodies, K)
      /\ f.name = Padded(key, maxNameLen) /\ f.name_len = l
      /\ f.value = Padded(value, maxValueLen) /\ f.value_len = Len(value)
  BY DEF signals_for_field, Signals, WholeField, Value
<1>2. Len(whole) <= K /\ l <= maxNameLen /\ Len(value) <= maxValueLen
  BY DEF Fits, WholeField, Value
<1>3. Shape(q, i, c, v, e, d)
  OBVIOUS
<1>4. /\ i \in Nat /\ c \in Nat /\ v \in Nat /\ e \in Nat /\ d \in Nat /\ d < Len(text)
      /\ q \in {0, 1} /\ i + l + 2 <= c /\ c + 1 <= v - q /\ v < e /\ e + q <= d
      /\ l \in Nat \ {0} /\ Len(text) \in Nat /\ text \in Seq(Chars)
      /\ K \in Nat /\ maxNameLen \in Nat /\ maxValueLen \in Nat /\ Ordered(q, i, c, v, e, d)
  BY KeyType, PayloadType, LengthsAssumption DEF Ordered
<1> HIDE DEF f, i, c, v, e, d, l, K, h, n, whole, bodies, value
<1>5. /\ h \in Nat /\ h # 0 /\ i + h <= Len(text) /\ h = d + 1 - i
      /\ n \in Nat /\ v + n <= Len(text) /\ n = e - v
  BY <1>4 DEF h, n
<1>6. /\ Len(whole) = h /\ \A j \in 0 .. h - 1 : whole[j + 1] = text[(i + j) + 1]
      /\ Len(value) = n /\ \A j \in 0 .. n - 1 : value[j + 1] = text[(v + j) + 1]
  <2>1. Len(whole) = h /\ \A j \in 0 .. h - 1 : whole[j + 1] = text[(i + j) + 1]
    <3>1. text \in Seq(Chars) /\ i \in Nat /\ h \in Nat /\ i + h <= Len(text)
      BY <1>4, <1>5
    <3> QED  BY <3>1, Sliced DEF whole
  <2>2. Len(value) = n /\ \A j \in 0 .. n - 1 : value[j + 1] = text[(v + j) + 1]
    <3>1. text \in Seq(Chars) /\ v \in Nat /\ n \in Nat /\ v + n <= Len(text)
      BY <1>4, <1>5
    <3> QED  BY <3>1, Sliced DEF value
  <2> QED  BY <2>1, <2>2
<1>7. /\ \A j \in 0 .. h - 1 : whole[j + 1] = Payload[i + j]
      /\ \A j \in 0 .. n - 1 : value[j + 1] = Payload[v + j]
  <2>1. \A k \in 0 .. Len(text) - 1 : text[k + 1] = Payload[k]
    BY PayloadType DEF charAt
  <2>2. /\ \A j \in 0 .. h - 1 : i + j \in 0 .. Len(text) - 1
        /\ \A j \in 0 .. n - 1 : v + j \in 0 .. Len(text) - 1
    BY <1>4, <1>5
  <2> QED  BY <1>6, <2>1, <2>2
<1>8. h <= K /\ n <= maxValueLen
  BY <1>2, <1>6
<1>9. /\ DOMAIN f.field = 0 .. K - 1 /\ \A j \in h .. K - 1 : f.field[j] = 0
      /\ \A j \in 0 .. h - 1 : f.field[j] = Payload[i + j]
  <2>1. /\ DOMAIN f.field = 0 .. K - 1 /\ \A j \in h .. K - 1 : f.field[j] = 0
        /\ \A j \in 0 .. h - 1 : j < K => f.field[j] = whole[j + 1]
    <3>1. Len(whole) \in Nat /\ K \in Nat
      BY <1>4, <1>5, <1>6
    <3>2. InArray(f.field, whole, K)
      BY <1>1, <3>1, PaddedIs
    <3> QED  BY <1>6, <3>2 DEF InArray
  <2>2. \A j \in 0 .. h - 1 : j < K
    BY <1>4, <1>5, <1>8
  <2> QED  BY <1>7, <2>1, <2>2
<1>10. /\ DOMAIN f.value = 0 .. maxValueLen - 1 /\ \A j \in n .. maxValueLen - 1 : f.value[j] = 0
       /\ \A j \in 0 .. n - 1 : f.value[j] = Payload[v + j]
  <2>1. /\ DOMAIN f.value = 0 .. maxValueLen - 1 /\ \A j \in n .. maxValueLen - 1 : f.value[j] = 0
        /\ \A j \in 0 .. n - 1 : j < maxValueLen => f.value[j] = value[j + 1]
    <3>1. Len(value) \in Nat /\ maxValueLen \in Nat
      BY <1>4, <1>5, <1>6
    <3>2. InArray(f.value, value, maxValueLen)
      BY <1>1, <3>1, PaddedIs
    <3> QED  BY <1>6, <3>2 DEF InArray
  <2>2. \A j \in 0 .. n - 1 : j < maxValueLen
    BY <1>4, <1>5, <1>8
  <2> QED  BY <1>7, <2>1, <2>2
<1>11. /\ DOMAIN f.name = 0 .. maxNameLen - 1 /\ \A j \in l .. maxNameLen - 1 : f.name[j] = 0
       /\ \A j \in 0 .. l - 1 : f.name[j] = key[j + 1]
  <2>1. /\ DOMAIN f.name = 0 .. maxNameLen - 1 /\ \A j \in l .. maxNameLen - 1 : f.name[j] = 0
        /\ \A j \in 0 .. l - 1 : j < maxNameLen => f.name[j] = key[j + 1]
    <3>1. Len(key) \in Nat /\ maxNameLen \in Nat
      BY <1>4 DEF l
    <3>2. InArray(f.name, key, maxNameLen)
      BY <1>1, <3>1, PaddedIs
    <3> QED  BY <3>2 DEF InArray, l
  <2>2. \A j \in 0 .. l - 1 : j < maxNameLen
    BY <1>2, <1>4
  <2> QED  BY <2>1, <2>2
<1>12. ASSUME q = 1
       PROVE  /\ \A j \in 0 .. d - i : f.string_bodies[j] = Bit(InString(1, i, v, e, i + j))
              /\ \A j \in h .. K - 1 : f.string_bodies[j] = 0
  <2>1. TextAt(whole, i, d)
    <3>1. d - i = h - 1
      BY <1>4, <1>5
    <3> QED  BY <1>5, <1>6, <1>7, <3>1 DEF TextAt
  <2>2. /\ Len(bodies) = d + 1 - i
        /\ \A x \in 0 .. d - i : bodies[x + 1] = Bit(InString(1, i, v, e, i + x))
    <3>1. Ordered(1, i, c, v, e, d) /\ Shape(1, i, c, v, e, d)
      BY <1>3, <1>4, <1>12
    <3> QED  BY <2>1, <3>1, CalcIs DEF bodies
  <2>3. /\ \A j \in h .. K - 1 : f.string_bodies[j] = 0
        /\ \A j \in 0 .. h - 1 : j < K => f.string_bodies[j] = bodies[j + 1]
    <3>1. Len(bodies) \in Nat /\ K \in Nat /\ Len(bodies) = h
      BY <1>4, <1>5, <2>2
    <3>2. InArray(f.string_bodies, bodies, K)
      BY <1>1, <3>1, PaddedIs
    <3> QED  BY <3>1, <3>2 DEF InArray
  <2>4. \A j \in 0 .. d - i : j \in 0 .. h - 1 /\ j < K
    BY <1>4, <1>5, <1>8
  <2> QED  BY <2>2, <2>3, <2>4
<1>13. DOMAIN f.string_bodies = 0 .. K - 1
  BY <1>1 DEF Padded
<1>14. FieldOf(f, i, c, v, e, d)
  <2>1. ASSUME NEW k \in i .. d PROVE f.field[k - i] = Payload[k]
    <3>1. k - i \in 0 .. h - 1 /\ i + (k - i) = k
      BY <1>4, <1>5
    <3> QED  BY <1>9, <3>1
  <2>2. i < c /\ c < v /\ v < e /\ e <= d /\ d - i < K
    BY <1>4, <1>5, <1>8
  <2>3. f.field_len = d + 1 - i /\ f.value_len = e - v
    BY <1>1, <1>5, <1>6
  <2>4. \A j \in 0 .. e - v - 1 : f.value[j] = Payload[v + j]
    BY <1>5, <1>10
  <2> QED  BY <1>1, <1>4, <1>13, <2>1, <2>2, <2>3, <2>4 DEF FieldOf, l, K
<1>15. MadeOf(f, q, i, c, v, e, d)
  BY <1>2, <1>5, <1>8, <1>9, <1>10, <1>11, <1>12, <1>14 DEF MadeOf, l, K
<1> QED  BY <1>15 DEF f, i, c, v, e, d

--------------------------------------------------------------------------------
\* The circuit accepts these signals.

\* Where things are in the field, which the arrays have room for.
LEMMA Places ==
  ASSUME TextType, NEW f, NEW q, NEW i, NEW c, NEW v, NEW e, NEW d,
         Ordered(q, i, c, v, e, d), MadeOf(f, q, i, c, v, e, d)
  PROVE  /\ i \in Nat /\ c \in Nat /\ v \in Nat /\ e \in Nat /\ d \in Nat /\ q \in {0, 1}
         /\ i + Len(key) + 2 <= c /\ c + 1 <= v - q /\ v < e /\ e + q <= d
         /\ Len(key) \in Nat \ {0} /\ d < MAX_JWT_PAYLOAD_LEN /\ MAX_JWT_PAYLOAD_LEN \in Nat
         /\ maxKVPairLen \in Nat /\ maxNameLen \in Nat /\ maxValueLen \in Nat
         /\ d - i < maxKVPairLen /\ e - v <= maxValueLen /\ Len(key) <= maxNameLen
         /\ f.index = i /\ f.colon_index = c - i /\ f.value_index = v - i
         /\ f.field_len = d + 1 - i /\ f.name_len = Len(key) /\ f.value_len = e - v
         /\ \A k \in i .. d : f.field[k - i] = Payload[k]
<1>1. /\ i \in Nat /\ c \in Nat /\ v \in Nat /\ e \in Nat /\ d \in Nat /\ q \in {0, 1}
      /\ i + Len(key) + 2 <= c /\ c + 1 <= v - q /\ v < e /\ e + q <= d /\ d < Len(text)
  BY DEF Ordered
<1>2. /\ Len(text) \in Nat /\ Len(text) <= MAX_JWT_PAYLOAD_LEN /\ MAX_JWT_PAYLOAD_LEN \in Nat
  BY PayloadType
<1>3. d < MAX_JWT_PAYLOAD_LEN
  BY <1>1, <1>2
<1> QED  BY <1>1, <1>2, <1>3, KeyType, LengthsAssumption DEF MadeOf, FieldOf

LEMMA InPayloadMade ==
  ASSUME TextType, NEW f, NEW q, NEW i, NEW c, NEW v, NEW e, NEW d,
         Ordered(q, i, c, v, e, d), Shape(q, i, c, v, e, d), MadeOf(f, q, i, c, v, e, d)
  PROVE  InPayload(Hints(Payload), f)
<1> DEFINE N == MAX_JWT_PAYLOAD_LEN
           K == maxKVPairLen
           h == d + 1 - i
<1>0. /\ i \in Nat /\ c \in Nat /\ v \in Nat /\ e \in Nat /\ d \in Nat /\ q \in {0, 1}
      /\ i + Len(key) + 2 <= c /\ c + 1 <= v - q /\ v < e /\ e + q <= d /\ Len(key) \in Nat \ {0}
      /\ d < N /\ N \in Nat /\ K \in Nat /\ d - i < K
      /\ f.index = i /\ f.field_len = h /\ \A k \in i .. d : f.field[k - i] = Payload[k]
  BY Places
<1>1. /\ i \in Nat /\ d \in Nat /\ i < d /\ d < N /\ N \in Nat /\ K \in Nat /\ d - i < K
      /\ f.index = i /\ f.field_len = h /\ \A k \in i .. d : f.field[k - i] = Payload[k]
  <2>1. i < d
    BY <1>0
  <2> HIDE DEF h
  <2> QED  BY <1>0, <2>1
<1>2. DOMAIN f.field = 0 .. K - 1 /\ \A j \in h .. K - 1 : f.field[j] = 0
  BY DEF MadeOf
<1>3. DOMAIN Payload = 0 .. N - 1
  BY PayloadType
<1> HIDE DEF h
<1>4. h \in Nat /\ h = d + 1 - i /\ i + h = d + 1 /\ i + h <= N /\ i < i + h /\ i + h \in Nat /\ h <= K
  BY <1>1 DEF h
<1>5. Selectable(N, i, i + h)
  BY <1>1, <1>4, CanSelect
<1>6. ASSUME NEW j \in 0 .. h - 1 PROVE Payload[i + j] = f.field[j]
  <2>1. i + j \in i .. d /\ (i + j) - i = j
    BY <1>1, <1>4
  <2> QED  BY <1>1, <2>1
<1>7. f.field[0] # 0 /\ 0 \in 0 .. h - 1
  <2>1. 0 \in 0 .. h - 1 /\ i + 0 = i
    BY <1>1, <1>4
  <2>2. Payload[i] = quote
    BY DEF Shape, KeyAt
  <2> QED  BY <1>6, <2>1, <2>2 DEF quote
<1>8. PartOf(Payload, N, f.field, K, h, i)
  BY <1>2, <1>3, <1>4, <1>6, <1>7 DEF PartOf
<1>9. IsSubstring(Payload, f.field, h, i)
  BY <1>1, <1>4, <1>8, PartIsSubstring
<1>10. Hints(Payload).payload = Payload
  BY DEF Hints
<1> QED  BY <1>1, <1>5, <1>9, <1>10 DEF InPayload

LEMMA SharedMade ==
  ASSUME TextType, NEW f, NEW q, NEW i, NEW c, NEW v, NEW e, NEW d,
         Ordered(q, i, c, v, e, d), Shape(q, i, c, v, e, d), MadeOf(f, q, i, c, v, e, d)
  PROVE  SharedConstraints(f) /\ SharedChecks(f) /\ NameIs(f, key)
<1> DEFINE K == maxKVPairLen
           l == Len(key)
           n == e - v
           x == v - i
<1>1. /\ i \in Nat /\ c \in Nat /\ v \in Nat /\ e \in Nat /\ d \in Nat /\ q \in {0, 1}
      /\ i + l + 2 <= c /\ c + 1 <= v - q /\ v < e /\ e + q <= d /\ l \in Nat \ {0}
      /\ K \in Nat /\ maxNameLen \in Nat /\ maxValueLen \in Nat
      /\ d - i < K /\ n <= maxValueLen /\ l <= maxNameLen
      /\ f.colon_index = c - i /\ f.value_index = x
      /\ f.field_len = d + 1 - i /\ f.name_len = l /\ f.value_len = n
      /\ \A k \in i .. d : f.field[k - i] = Payload[k]
  BY Places
<1>2. /\ DOMAIN f.field = 0 .. K - 1 /\ DOMAIN f.name = 0 .. maxNameLen - 1
      /\ DOMAIN f.value = 0 .. maxValueLen - 1
      /\ \A j \in 0 .. l - 1 : f.name[j] = key[j + 1]
      /\ \A j \in l .. maxNameLen - 1 : f.name[j] = 0
      /\ \A j \in 0 .. n - 1 : f.value[j] = Payload[v + j]
      /\ \A j \in n .. maxValueLen - 1 : f.value[j] = 0
  BY DEF MadeOf, FieldOf
<1>3. /\ Payload[i] = quote /\ Payload[i + l + 1] = quote /\ Payload[c] = colon
      /\ \A j \in 0 .. l - 1 : Payload[(i + 1) + j] = key[j + 1]
      /\ Payload[d] \in {comma, close}
  BY DEF Shape, KeyAt
<1> HIDE DEF l, n, x
<1>4. /\ n \in Nat /\ n # 0 /\ n = e - v /\ x \in Nat /\ x = v - i /\ x + n = e - i
      /\ x + n \in Nat /\ x + n <= K /\ x < x + n /\ 1 + l \in Nat /\ 1 < 1 + l /\ 1 + l <= K
      /\ 1 \in Nat
  <2>1. n \in Nat /\ n # 0 /\ n = e - v /\ x \in Nat /\ x = v - i
    BY <1>1 DEF n, x
  <2>2. x + n = e - i /\ x + n \in Nat /\ x + n <= K /\ x < x + n
    BY <1>1, <2>1
  <2>3. 1 + l \in Nat /\ 1 < 1 + l /\ 1 + l <= K
    BY <1>1
  <2> QED  BY <2>1, <2>2, <2>3
<1>5. Selectable(K, 1, 1 + l) /\ Selectable(K, x, x + n)
  <2> DEFINE y == 1 + l
             z == x + n
  <2>1. y \in Nat /\ 1 < y /\ y <= K /\ z \in Nat /\ x < z /\ z <= K
    BY <1>4
  <2> HIDE DEF y, z
  <2>2. Selectable(K, 1, y)
    BY <1>1, <1>4, <2>1, CanSelect
  <2>3. Selectable(K, x, z)
    BY <1>1, <1>4, <2>1, CanSelect
  <2> QED  BY <2>2, <2>3 DEF y, z
<1>6. SharedConstraints(f)
  <2>1. l + 1 \in 0 .. K - 1 /\ c - i \in 0 .. K - 1 /\ (d + 1 - i) - 1 \in 0 .. K - 1
    BY <1>1
  <2> QED  BY <1>1, <1>5, <2>1 DEF SharedConstraints, IsIndex
<1>7. /\ f.field[0] = quote /\ f.field[l + 1] = quote /\ f.field[c - i] = colon
      /\ f.field[(d + 1 - i) - 1] \in {comma, close}
  <2>1. /\ i \in i .. d /\ i - i = 0 /\ i + l + 1 \in i .. d /\ (i + l + 1) - i = l + 1
        /\ c \in i .. d /\ d \in i .. d /\ d - i = (d + 1 - i) - 1
    BY <1>1
  <2> QED  BY <1>1, <1>3, <2>1
<1>8. IsSubstring(f.field, f.name, l, 1)
  <2>1. ASSUME NEW j \in 0 .. l - 1 PROVE f.field[1 + j] = f.name[j]
    <3>1. (i + 1) + j \in i .. d /\ ((i + 1) + j) - i = 1 + j
      BY <1>1
    <3> QED  BY <1>1, <1>2, <1>3, <3>1, ZenonT(60)
  <2>2. 0 \in 0 .. l - 1 /\ f.name[0] # 0
    <3>1. 0 \in 0 .. l - 1
      BY <1>1
    <3>2. f.name[0] = key[0 + 1] /\ key[0 + 1] \in 97 .. 122
      BY <1>2, <3>1, KeyType DEF l
    <3> QED  BY <3>1, <3>2
  <2>3. PartOf(f.field, K, f.name, maxNameLen, l, 1)
    BY <1>1, <1>2, <1>4, <2>1, <2>2 DEF PartOf
  <2> QED  BY <1>1, <1>4, <2>3, PartIsSubstring
<1>9. IsSubstring(f.field, f.value, n, x)
  <2>1. ASSUME NEW j \in 0 .. n - 1 PROVE f.field[x + j] = f.value[j]
    <3>1. v + j \in i .. d /\ (v + j) - i = x + j
      BY <1>1, <1>4
    <3> QED  BY <1>1, <1>2, <3>1
  <2>2. 0 \in 0 .. n - 1 /\ f.value[0] # 0
    <3>1. 0 \in 0 .. n - 1 /\ v + 0 = v /\ v \in 0 .. Len(text) - 1
      <4>1. d < Len(text) /\ Len(text) \in Nat
        BY PayloadType DEF Ordered
      <4> QED  BY <1>1, <1>4, <4>1
    <3>2. f.value[0] = Payload[v]
      BY <1>2, <3>1
    <3>3. Payload[v] \in Chars
      BY <3>1, PayloadType
    <3>4. Payload[v] # 0
      BY <3>3 DEF Chars
    <3> QED  BY <3>1, <3>2, <3>4
  <2>3. PartOf(f.field, K, f.value, maxValueLen, n, x)
    BY <1>1, <1>2, <1>4, <2>1, <2>2 DEF PartOf
  <2> QED  BY <1>1, <1>4, <2>3, PartIsSubstring
<1>10. SharedChecks(f)
  <2>1. l < c - i /\ c - i < x /\ d + 1 - i > l + n
    BY <1>1, <1>4
  <2> QED  BY <1>1, <1>7, <1>8, <1>9, <2>1 DEF SharedChecks
<1>11. NameIs(f, key)
  BY <1>2 DEF NameIs, charAt, l
<1> QED  BY <1>6, <1>10, <1>11

LEMMA GapsMade ==
  ASSUME TextType, NEW f, NEW q, NEW i, NEW c, NEW v, NEW e, NEW d,
         Ordered(q, i, c, v, e, d), Shape(q, i, c, v, e, d), MadeOf(f, q, i, c, v, e, d)
  PROVE  GapConstraints(f, q) /\ GapChecks(f, q)
<1> DEFINE K == maxKVPairLen
           l == Len(key)
           Gap(a, b) == /\ SelectableComplex(K, a, b)
                        /\ \A k \in Selected(K, a, b) : IsWhitespace(f.field[k])
<1>1. /\ i \in Nat /\ c \in Nat /\ v \in Nat /\ e \in Nat /\ d \in Nat /\ q \in {0, 1}
      /\ i + l + 2 <= c /\ c + 1 <= v - q /\ v < e /\ e + q <= d /\ l \in Nat \ {0}
      /\ K \in Nat /\ d - i < K
      /\ f.colon_index = c - i /\ f.value_index = v - i
      /\ f.field_len = d + 1 - i /\ f.name_len = l /\ f.value_len = e - v
      /\ \A k \in i .. d : f.field[k - i] = Payload[k]
  BY Places
<1>2. /\ AllBlank(Payload, i + l + 2, c) /\ AllBlank(Payload, c + 1, v - q)
      /\ AllBlank(Payload, e + q, d)
  BY DEF Shape
<1> HIDE DEF l
<1>3. ASSUME NEW a \in Nat, NEW b \in Nat, i < a, a <= b, b <= d, AllBlank(Payload, a, b)
      PROVE  Gap(a - i, b - i)
  <2>1. SelectableComplex(K, a - i, b - i)
    BY <1>1, <1>3 DEF SelectableComplex, IsIndex
  <2>2. ASSUME NEW k \in Selected(K, a - i, b - i) PROVE IsWhitespace(f.field[k])
    <3>1. k + i \in i .. d /\ (k + i) - i = k /\ k + i \in a .. b - 1
      BY <1>1, <1>3 DEF Selected
    <3> QED  BY <1>1, <1>3, <3>1 DEF AllBlank, IsWhitespace
  <2> QED  BY <2>1, <2>2
<1>4. /\ Gap((i + l + 2) - i, c - i) /\ Gap((c + 1) - i, (v - q) - i) /\ Gap((e + q) - i, d - i)
  <2>1. /\ i + l + 2 \in Nat /\ i < i + l + 2 /\ c <= d
        /\ c + 1 \in Nat /\ v - q \in Nat /\ i < c + 1 /\ v - q <= d
        /\ e + q \in Nat /\ i < e + q
    BY <1>1
  <2> HIDE DEF Gap
  <2> QED  BY <1>1, <1>2, <1>3, <2>1
<1>5. Gaps(f, q) = {<<(i + l + 2) - i, c - i>>, <<(c + 1) - i, (v - q) - i>>, <<(e + q) - i, d - i>>}
  <2>1. /\ f.name_len + 2 = (i + l + 2) - i /\ f.colon_index + 1 = (c + 1) - i
        /\ f.value_index - q = (v - q) - i /\ f.value_index + f.value_len + q = (e + q) - i
        /\ f.field_len - 1 = d - i
    BY <1>1
  <2> QED  BY <1>1, <2>1 DEF Gaps
<1>6. \A g \in Gaps(f, q) : Gap(g[1], g[2])
  <2> HIDE DEF Gap
  <2> QED  BY <1>4, <1>5
<1> QED  BY <1>6 DEF GapConstraints, GapChecks

LEMMA BodiesMade ==
  ASSUME TextType, NEW f, NEW i, NEW c, NEW v, NEW e, NEW d, Ordered(1, i, c, v, e, d),
         Seen(1, i, v, e, d), MadeOf(f, 1, i, c, v, e, d)
  PROVE  /\ IsSubstring(StringBodies(Payload), f.string_bodies, f.field_len, f.index)
         /\ EnforceNotNested(f.index, f.field_len, Hints(Payload).depth)
<1> DEFINE N == MAX_JWT_PAYLOAD_LEN
           K == maxKVPairLen
           h == d + 1 - i
           b == StringBodies(Payload)
           depth == Hints(Payload).depth
<1>1. /\ i \in Nat /\ c \in Nat /\ v \in Nat /\ e \in Nat /\ d \in Nat
      /\ i + Len(key) + 2 <= c /\ c + 1 <= v - 1 /\ v < e /\ e + 1 <= d /\ Len(key) \in Nat \ {0}
      /\ d < N /\ N \in Nat /\ K \in Nat /\ d - i < K /\ f.index = i /\ f.field_len = d + 1 - i
  BY Places
<1>2. /\ DOMAIN f.string_bodies = 0 .. K - 1
      /\ \A j \in 0 .. d - i : f.string_bodies[j] = Bit(InString(1, i, v, e, i + j))
      /\ \A j \in d + 1 - i .. K - 1 : f.string_bodies[j] = 0
  BY DEF MadeOf, FieldOf
<1>3. \A k \in i .. d : b[k] = Bit(InString(1, i, v, e, k)) /\ depth[k] = 0
  BY DEF Seen
<1>4. DOMAIN b = 0 .. N - 1
  <2>1. b \in [0 .. N - 1 -> {0, 1}]
    BY <1>1, PayloadType, Scan
  <2> HIDE DEF b
  <2> QED  BY <2>1
<1> HIDE DEF h, b, depth
<1>5. /\ h \in Nat /\ h = d + 1 - i /\ i + h = d + 1 /\ i + h <= N /\ i < i + h /\ i + h \in Nat
      /\ h <= K /\ d - i = h - 1 /\ 1 \in 0 .. h - 1
  BY <1>1 DEF h
<1>6. ASSUME NEW j \in 0 .. h - 1 PROVE b[i + j] = f.string_bodies[j]
  <2>1. i + j \in i .. d /\ j \in 0 .. d - i
    BY <1>1, <1>5
  <2> QED  BY <1>2, <1>3, <2>1
<1>7. f.string_bodies[1] # 0
  <2>1. InString(1, i, v, e, i + 1)
    BY <1>1 DEF InString
  <2>2. f.string_bodies[1] = Bit(InString(1, i, v, e, i + 1))
    BY <1>2, <1>5
  <2> QED  BY <2>1, <2>2 DEF Bit
<1>8. PartOf(b, N, f.string_bodies, K, h, i)
  <2>1. \A j \in h .. K - 1 : f.string_bodies[j] = 0
    BY <1>2, <1>5
  <2> QED  BY <1>2, <1>4, <1>5, <1>6, <1>7, <2>1 DEF PartOf
<1>9. IsSubstring(b, f.string_bodies, h, i)
  BY <1>1, <1>5, <1>8, PartIsSubstring
<1>10. Selectable(N, i, i + h)
  BY <1>1, <1>5, CanSelect
<1>11. \A k \in Selected(N, i, i + h) : depth[k] = 0
  <2>1. \A k \in Selected(N, i, i + h) : k \in i .. d
    BY <1>1, <1>5 DEF Selected
  <2> QED  BY <1>3, <2>1
<1> QED  BY <1>1, <1>5, <1>9, <1>10, <1>11 DEF EnforceNotNested, b, depth

\* A field with a quoted value.
LEMMA QuotedMade ==
  ASSUME TextType, NEW f, NEW i, NEW c, NEW v, NEW e, NEW d, Ordered(1, i, c, v, e, d),
         Shape(1, i, c, v, e, d), Seen(1, i, v, e, d), MadeOf(f, 1, i, c, v, e, d)
  PROVE  QuotedField(Hints(Payload), f) /\ NameIs(f, key)
<1> DEFINE K == maxKVPairLen
           l == Len(key)
<1>1. /\ i \in Nat /\ c \in Nat /\ v \in Nat /\ e \in Nat /\ d \in Nat
      /\ i + l + 2 <= c /\ c + 1 <= v - 1 /\ v < e /\ e + 1 <= d /\ l \in Nat \ {0}
      /\ K \in Nat /\ d - i < K /\ f.value_index = v - i /\ f.name_len = l /\ f.value_len = e - v
      /\ \A k \in i .. d : f.field[k - i] = Payload[k]
  BY Places
<1>2. /\ \A j \in 0 .. d - i : f.string_bodies[j] = Bit(InString(1, i, v, e, i + j))
      /\ \A j \in d + 1 - i .. K - 1 : f.string_bodies[j] = 0
  BY DEF MadeOf
<1>3. Payload[v - 1] = quote /\ Payload[e] = quote
  BY DEF Shape
<1>4. /\ GapConstraints(f, 1) /\ GapChecks(f, 1)
      /\ SharedConstraints(f) /\ SharedChecks(f) /\ NameIs(f, key)
  BY GapsMade, SharedMade
<1>5. IsIndex(K, f.value_index - 1) /\ IsIndex(K, f.value_index + f.value_len)
  <2>1. (v - i) - 1 \in 0 .. K - 1 /\ (v - i) + (e - v) \in 0 .. K - 1
    BY <1>1
  <2> QED  BY <1>1, <2>1 DEF IsIndex
<1>6. f.field[f.value_index - 1] = quote /\ f.field[f.value_index + f.value_len] = quote
  <2>1. /\ v - 1 \in i .. d /\ (v - 1) - i = (v - i) - 1
        /\ e \in i .. d /\ e - i = (v - i) + (e - v)
    BY <1>1
  <2> QED  BY <1>1, <1>3, <2>1
<1>7. \A k \in 0 .. K - 1 : /\ k \in NameAt(f) <=> 1 <= k /\ k < l + 1
                            /\ k \in ValueAt(f) <=> v - i <= k /\ k < (v - i) + (e - v)
  BY <1>1 DEF NameAt, ValueAt, Selected
<1>8. NameAt(f) \cap ValueAt(f) = {}
  <2>1. l + 1 < v - i
    BY <1>1
  <2>2. NameAt(f) \subseteq 0 .. K - 1
    BY DEF NameAt, Selected
  <2>3. \A k \in 0 .. K - 1 : ~ (k < l + 1 /\ v - i <= k)
    BY <1>1, <2>1
  <2> QED  BY <1>7, <2>2, <2>3
<1>9. ASSUME NEW k \in 0 .. K - 1
      PROVE  f.string_bodies[k] = Bit(k \in NameAt(f) \cup ValueAt(f))
  <2>1. CASE k <= d - i
    <3>1. k \in 0 .. d - i
      BY <1>1, <2>1
    <3>2. InString(1, i, v, e, i + k) <=> (1 <= k /\ k < l + 1) \/ (v - i <= k /\ k < (v - i) + (e - v))
      BY <1>1 DEF InString, l
    <3>3. InString(1, i, v, e, i + k) <=> k \in NameAt(f) \cup ValueAt(f)
      BY <1>7, <3>2
    <3> QED  BY <1>2, <3>1, <3>3 DEF Bit
  <2>2. CASE k > d - i
    <3>1. k \in d + 1 - i .. K - 1 /\ ~ (k < l + 1) /\ ~ (k < (v - i) + (e - v))
      BY <1>1, <2>2
    <3>2. k \notin NameAt(f) \cup ValueAt(f)
      BY <1>7, <3>1
    <3> QED  BY <1>2, <3>1, <3>2 DEF Bit
  <2> QED  BY <1>1, <2>1, <2>2
<1>10. ParseJWTFieldWithQuotedValue(f)
  BY <1>4, <1>5, <1>6, <1>8, <1>9 DEF ParseJWTFieldWithQuotedValue, QuotedChecks
<1>11. InPayload(Hints(Payload), f)
  BY InPayloadMade
<1>12. Hints(Payload).string_bodies = StringBodies(Payload)
  BY DEF Hints
<1> QED  BY <1>4, <1>10, <1>11, <1>12, BodiesMade DEF QuotedField

\* A field with a number.
LEMMA UnquotedMade ==
  ASSUME TextType, NEW f, NEW i, NEW c, NEW v, NEW e, NEW d, Ordered(0, i, c, v, e, d),
         Shape(0, i, c, v, e, d), Seen(0, i, v, e, d), MadeOf(f, 0, i, c, v, e, d),
         e - v < maxValueLen
  PROVE  UnquotedField(Hints(Payload), f, key)
<1>1. /\ i \in Nat /\ c \in Nat /\ v \in Nat /\ e \in Nat /\ d \in Nat /\ Len(key) \in Nat
      /\ i + Len(key) + 2 <= c /\ c + 1 <= v - 0 /\ v < e /\ e + 0 <= d
      /\ f.index = i /\ f.value_index = v - i /\ f.value_len = e - v
      /\ \A k \in i .. d : f.field[k - i] = Payload[k] /\ maxValueLen \in Nat
  BY Places
<1>2. /\ \A k \in v .. e - 1 : Payload[k] \in Digits
      /\ \A j \in 0 .. e - v - 1 : f.value[j] = Payload[v + j]
  BY DEF Shape, MadeOf, FieldOf
<1>3. /\ GapConstraints(f, 0) /\ GapChecks(f, 0)
      /\ SharedConstraints(f) /\ SharedChecks(f) /\ NameIs(f, key)
  BY GapsMade, SharedMade
<1>4. ASSUME NEW k \in ValueAt(f) PROVE f.field[k] \notin {comma, close, quote}
  <2>1. k + i \in v .. e - 1 /\ k + i \in i .. d /\ (k + i) - i = k
    BY <1>1 DEF ValueAt, Selected
  <2>2. f.field[k] \in Digits
    BY <1>1, <1>2, <2>1
  <2> QED  BY <2>2 DEF Digits, comma, close, quote
<1>5. AsciiDigitsToScalar(f.value, f.value_len)
  <2>1. e - v \in 1 .. maxValueLen - 1
    BY <1>1, LengthsAssumption
  <2>2. ASSUME NEW j \in 0 .. e - v - 1 PROVE f.value[j] \in Digits
    <3>1. v + j \in v .. e - 1
      BY <1>1
    <3> QED  BY <1>2, <3>1
  <2> QED  BY <1>1, <2>1, <2>2 DEF AsciiDigitsToScalar
<1>6. Hints(Payload).string_bodies[f.index] = 0
  <2>1. i \in i .. d /\ ~ InString(0, i, v, e, i)
    BY <1>1 DEF InString
  <2>2. StringBodies(Payload)[i] = 0
    BY <2>1 DEF Seen, Bit
  <2> QED  BY <1>1, <2>2 DEF Hints
<1>7. ParseJWTFieldWithUnquotedValue(f)
  BY <1>3, <1>4 DEF ParseJWTFieldWithUnquotedValue
<1>8. InPayload(Hints(Payload), f)
  BY InPayloadMade
<1> QED  BY <1>3, <1>5, <1>6, <1>7, <1>8 DEF UnquotedField

--------------------------------------------------------------------------------
\* What the service makes of a plain member.

\* The field has no white space but spaces, and so the payload there.
LEMMA SpacesOnly ==
  ASSUME Issued, Parses(text, key), NEW p, p = Parse(text, key),
         NEW value, Fits(text, p, key, value), NEW first, NEW q, Positions(p, first, q),
         NEW f, f = signals_for_field(text, key, value, FALSE),
         \A k \in DOMAIN f.field : f.field[k] \notin Blanks \ {space}
  PROVE  f.index = p.index /\ OnlySpaces(p.index, p.delimiter)
<1> DEFINE i == p.index
           d == p.delimiter
           K == maxKVPairLen
           h == d + 1 - i
           whole == Slice(text, i, h)
<1>1. f.index = i /\ f.field = Padded(whole, K) /\ Len(whole) <= K
  BY DEF signals_for_field, Signals, WholeField, Fits
<1>2. i \in Nat /\ d \in Nat /\ i <= d /\ d < Len(text) /\ Len(text) \in Nat /\ TextType /\ K \in Nat
  <2>1. TextType /\ text \in Seq(Chars) /\ Len(text) \in Nat /\ Len(key) \in Nat /\ K \in Nat
    BY PayloadType, KeyType, LengthsAssumption DEF Issued
  <2>2. /\ {p.index, p.colon, p.value, p.end, p.delimiter} \subseteq Nat
        /\ p.index + Len(key) + 2 <= p.colon /\ p.colon < first /\ p.value = first + q
        /\ p.value + q <= p.end /\ p.end + q <= p.delimiter /\ p.delimiter < Len(text)
    BY <2>1, InOrder
  <2>3. q \in {0, 1} /\ first \in Nat
    BY DEF Positions
  <2>4. p.index \in Nat /\ p.colon \in Nat /\ p.value \in Nat /\ p.end \in Nat /\ p.delimiter \in Nat
    BY <2>2
  <2>5. p.index <= p.delimiter
    BY <2>1, <2>2, <2>3, <2>4
  <2> QED  BY <2>1, <2>2, <2>4, <2>5
<1> HIDE DEF i, d, h, K
<1>3. h \in Nat /\ i + h <= Len(text) /\ h = d + 1 - i
  BY <1>2 DEF h
<1>4. Len(whole) = h
  BY <1>2, <1>3, Sliced, PayloadType
<1>5. h <= K
  BY <1>1, <1>4
<1>6. \A j \in 0 .. h - 1 : f.field[j] = Payload[i + j]
  <2>1. f.field = Padded(Slice(text, i, h), K)
    BY <1>1
  <2>2. \A j \in 0 .. h - 1 : Padded(Slice(text, i, h), K)[j] = Payload[i + j]
    <3> HIDE DEF whole
    <3> QED  BY <1>2, <1>3, <1>5, PartOfPayload
  <2> QED  BY <2>1, <2>2
<1>7. DOMAIN f.field = 0 .. K - 1
  BY <1>1 DEF Padded
<1>8. ASSUME NEW k \in i .. d PROVE Payload[k] \notin Blanks \ {space}
  <2>1. k - i \in 0 .. h - 1 /\ i + (k - i) = k /\ k - i \in 0 .. K - 1
    BY <1>2, <1>3, <1>5
  <2> QED  BY <1>6, <1>7, <2>1
<1> QED  BY <1>1, <1>8 DEF OnlySpaces, i, d

LEMMA PlainIs ==
  ASSUME TextType, NEW m \in members, m.level = 1,
         m.value # <<>>, quote \notin Range(m.value), Last(m.value) # backslash,
         m.quoted \/ (Len(m.value) < maxValueLen /\ Range(m.value) \subseteq Digits)
  PROVE  PlainMember(m)
<1>1. m.value \in Seq(Chars)
  BY MemberTyped DEF TextType
<1>2. Len(m.value) \in Nat /\ Len(m.value) # 0 /\ DOMAIN m.value = 1 .. Len(m.value)
  BY <1>1
<1>3. ASSUME NEW j \in 0 .. Len(m.value) - 1 PROVE m.value[j + 1] \in Range(m.value)
  <2>1. j + 1 \in DOMAIN m.value
    BY <1>2
  <2> QED  BY <2>1 DEF Range
<1>4. Last(m.value) = m.value[Len(m.value)]
  BY DEF Last
<1> QED  BY <1>2, <1>3, <1>4 DEF PlainMember

\* The parser's value is that of the member.
LEMMA ValueRead ==
  ASSUME TextType, NEW m \in members, NEW p, NEW q, m.quoted => q = 1,
         Reads(q, m, p.index, p.colon, p.value, p.end, p.delimiter),
         Ordered(q, p.index, p.colon, p.value, p.end, p.delimiter)
  PROVE  /\ Value(text, p) = m.value
         /\ \A j \in 0 .. p.end - p.value - 1 : Payload[p.value + j] = m.value[j + 1]
<1> DEFINE v == p.value
           e == p.end
           n == e - v
           s == Slice(text, v, n)
<1>1. /\ v \in Nat /\ e \in Nat /\ v < e /\ p.delimiter \in Nat /\ q \in {0, 1}
      /\ e + q <= p.delimiter /\ p.delimiter < Len(text) /\ Len(text) \in Nat
      /\ text \in Seq(Chars)
  BY PayloadType DEF Ordered
<1>2. m.value \in Seq(Chars) /\ Len(m.value) = n /\ ValueOf(Payload, m, v - q)
      /\ q = IF m.quoted THEN 1 ELSE 0
  <2>1. m.value \in Seq(Chars)
    BY MemberTyped DEF TextType
  <2>2. e = v + Len(m.value) /\ ValueOf(Payload, m, v - q) /\ q = IF m.quoted THEN 1 ELSE 0
    BY DEF Reads, MemberAt
  <2> HIDE DEF v, e
  <2> QED  BY <1>1, <2>1, <2>2
<1> HIDE DEF v, e, n
<1>3. n \in Nat /\ v + n <= Len(text) /\ n = e - v
  BY <1>1 DEF n
<1>4. \A j \in 0 .. n - 1 : Payload[v + j] = m.value[j + 1]
  <2> SUFFICES ASSUME NEW j \in 0 .. n - 1 PROVE Payload[v + j] = m.value[j + 1]
    OBVIOUS
  <2>1. CASE m.quoted
    <3>1. Payload[(v - 1) + 1 + j] = m.value[j + 1]
      BY <1>2, <2>1 DEF ValueOf, StringAt
    <3>2. (v - 1) + 1 + j = v + j
      BY <1>1, <1>3
    <3> QED  BY <3>1, <3>2
  <2>2. CASE ~ m.quoted
    <3>1. Payload[(v - 0) + j] = m.value[j + 1]
      BY <1>2, <2>2 DEF ValueOf
    <3>2. (v - 0) + j = v + j
      BY <1>1, <1>3
    <3> QED  BY <3>1, <3>2
  <2> QED  BY <2>1, <2>2
<1>5. s \in Seq(Chars) /\ Len(s) = n /\ \A j \in 0 .. n - 1 : s[j + 1] = text[(v + j) + 1]
  <2>1. text \in Seq(Chars) /\ v \in Nat /\ n \in Nat /\ v + n <= Len(text)
    BY <1>1, <1>3
  <2> QED  BY <2>1, Sliced
<1> HIDE DEF s
<1>6. ASSUME NEW k \in 1 .. n PROVE s[k] = m.value[k]
  <2>1. k - 1 \in 0 .. n - 1 /\ (k - 1) + 1 = k /\ v + (k - 1) \in 0 .. Len(text) - 1
    BY <1>1, <1>3
  <2>2. s[k] = text[(v + (k - 1)) + 1] /\ Payload[v + (k - 1)] = m.value[k]
    BY <1>4, <1>5, <2>1
  <2> QED  BY <2>1, <2>2, PayloadType DEF charAt
<1>7. s = m.value
  BY <1>2, <1>5, <1>6, SeqEqual
<1> QED  BY <1>3, <1>4, <1>7 DEF Value, s, n, v, e

\* Where there is no escape the decoded value is the same.
LEMMA ValueAsRead ==
  ASSUME NEW mode \in Modes \ {"skip"}, NEW m, NEW value,
         value = Value(text, Parse(text, key)), value = m.value,
         mode = "aud" => backslash \notin Range(m.value)
  PROVE  ValueUsed(mode, m) = value
<1>1. CASE mode = "aud"
  BY <1>1 DEF ValueUsed, private_aud_value, Decoded
<1>2. CASE mode # "aud"
  BY <1>2 DEF ValueUsed, Modes
<1> QED  BY <1>1, <1>2

\* The digits of a nonce.
LEMMA DigitsMade ==
  ASSUME TextType, NEW f, NEW q, NEW i, NEW c, NEW v, NEW e, NEW d, MadeOf(f, q, i, c, v, e, d),
         NEW m \in members, e = v + Len(m.value), Range(m.value) \subseteq Digits,
         Len(m.value) < maxValueLen,
         \A j \in 0 .. e - v - 1 : Payload[v + j] = m.value[j + 1]
  PROVE  AsciiDigitsToScalar(f.value, f.value_len)
<1>1. v \in Nat /\ e \in Nat /\ v < e /\ f.value_len = e - v /\ maxValueLen \in Nat
      /\ \A j \in 0 .. e - v - 1 : f.value[j] = Payload[v + j]
  BY LengthsAssumption DEF MadeOf, FieldOf
<1>2. m.value \in Seq(Chars) /\ Len(m.value) \in Nat
  BY MemberTyped DEF TextType
<1>3. e - v \in 1 .. maxValueLen - 1 /\ e - v = Len(m.value)
  BY <1>1, <1>2
<1>4. ASSUME NEW j \in 0 .. e - v - 1 PROVE f.value[j] \in Digits
  <2>1. j + 1 \in DOMAIN m.value
    BY <1>2, <1>3
  <2>2. m.value[j + 1] \in Digits
    BY <2>1 DEF Range
  <2> QED  BY <1>1, <2>2
<1> QED  BY <1>1, <1>3, <1>4 DEF AsciiDigitsToScalar

LEMMA IInvPlain == IInv => PlainAccepted
<1> SUFFICES ASSUME IInv, Derived, signals.mode # "skip" PROVE Accepted
  BY DEF PlainAccepted
<1>1. Issued /\ TextType
  BY DEF IInv, Issued
<1>2. signals.by = "service"
  BY DEF Derived
<1>3. MadeByService
  <2>1. signals # None
    BY <1>2 DEF None
  <2>2. ~ MadeByAnyone
    BY <1>2 DEF MadeByAnyone
  <2> QED  BY <2>1, <2>2 DEF IInv, Made
<1>4. PICK mode \in Modes, m0 \in members : MadeOfMember(mode, m0)
  BY <1>3 DEF MadeByService
<1> DEFINE used == ValueUsed(mode, m0)
           f == signals_for_field(text, key, used, FALSE)
           p == Parse(text, key)
<1>5. signals.mode = mode /\ signals.field = f /\ mode \in Modes \ {"skip"}
  <2>1. signals.mode = mode /\ signals.field = signals_for_field(text, key, used, mode = "skip")
    BY <1>4 DEF MadeOfMember
  <2>2. (mode = "skip") = FALSE
    BY <2>1
  <2> QED  BY <2>1, <2>2
<1>6. PICK first, q : Positions(p, first, q)
  <2>1. \E first, q : Positions(Parse(text, key), first, q)
    BY <1>1, <1>4, ParseIs DEF TextType, Parses, MadeOfMember
  <2> HIDE DEF p
  <2> QED  BY <2>1 DEF p
<1>7. Plain(f, mode)
  BY <1>5 DEF Derived
<1>8. PICK m \in members :
        /\ m.index = f.index /\ m.level = 1 /\ m.quoted = (mode # "iat")
        /\ m.value # <<>> /\ quote \notin Range(m.value) /\ Last(m.value) # backslash
        /\ mode \in {"aud", "nonce"} => backslash \notin Range(m.value)
        /\ mode \in {"iat", "nonce"} => Len(m.value) < maxValueLen
  <2> HIDE DEF f
  <2> QED  BY <1>7 DEF Plain
<1>9. \A k \in DOMAIN f.field : f.field[k] \notin Blanks \ {space}
  <2> HIDE DEF f
  <2> QED  BY <1>7 DEF Plain
<1>10. p = Parse(text, key) /\ f = signals_for_field(text, key, used, FALSE)
       /\ Parses(text, key) /\ Fits(text, p, key, used)
  BY <1>4 DEF MadeOfMember
<1> HIDE DEF f, p, used
<1>11. f.index = p.index /\ OnlySpaces(p.index, p.delimiter)
  BY <1>1, <1>6, <1>9, <1>10, SpacesOnly
<1>12. m = m0 /\ m.name = key
  <2>1. p.index \in Found(text, key)
    BY <1>6 DEF Positions
  <2>2. m.name = key
    BY <1>1, <1>8, <1>11, <2>1, NameIsKey
  <2>3. {n \in members : n.level = 1 /\ Decoded(n.name) = key} = {m0}
    BY <1>4 DEF MadeOfMember, Deserialized
  <2>4. Decoded(key) = key
    <3>1. backslash \notin Range(key)
      <4>1. \A j \in 1 .. Len(key) : key[j] \in 97 .. 122
        BY KeyAssumption, ElementOfSeq
      <4>2. DOMAIN key = 1 .. Len(key)
        BY KeyAssumption
      <4>3. ASSUME NEW j \in DOMAIN key  PROVE key[j] # backslash
        <5>1. j \in 1 .. Len(key)
          BY <4>2
        <5>2. key[j] \in 97 .. 122
          BY <4>1, <5>1
        <5> QED  BY <5>2 DEF backslash
      <4> QED  BY <4>3 DEF Range
    <3> QED  BY <3>1 DEF Decoded
  <2>5. m \in {n \in members : n.level = 1 /\ Decoded(n.name) = key}
    BY <1>8, <2>2, <2>4
  <2> QED  BY <2>2, <2>3, <2>5
<1>13. /\ mode = "iat" => Range(m.value) \subseteq Digits
       /\ mode = "nonce" => Range(m.value) \subseteq Digits
  <2>1. /\ mode = "iat" => Range(m.value) \subseteq Digits
        /\ mode = "nonce" => Range(Decoded(m.value)) \subseteq Digits
    BY <1>4, <1>12 DEF MadeOfMember, Deserialized
  <2>2. backslash \notin Range(m.value) => Decoded(m.value) = m.value
    BY DEF Decoded
  <2> QED  BY <1>8, <2>1, <2>2
<1>14. PlainMember(m)
  <2>1. m.quoted \/ (Len(m.value) < maxValueLen /\ Range(m.value) \subseteq Digits)
    BY <1>8, <1>13
  <2> QED  BY <1>1, <1>8, <2>1, PlainIs
<1> DEFINE i == p.index
           c == p.colon
           v == p.value
           e == p.end
           d == p.delimiter
<1>15. Reads(q, m, i, c, v, e, d)
  BY <1>1, <1>6, <1>8, <1>10, <1>11, <1>14, ServiceReads
<1>16. Ordered(q, i, c, v, e, d) /\ Shape(q, i, c, v, e, d) /\ Seen(q, i, v, e, d)
  <2> HIDE DEF i, c, v, e, d
  <2> QED  BY <1>1, <1>14, <1>15, ShapeIs
<1>17. Value(text, p) = m.value /\ \A j \in 0 .. e - v - 1 : Payload[v + j] = m.value[j + 1]
  <2>1. m.quoted => q = 1
    BY <1>15 DEF Reads
  <2> QED  BY <1>1, <1>15, <1>16, <2>1, ValueRead
<1>18. used = Value(text, p)
  <2>1. Value(text, p) = Value(text, Parse(text, key)) /\ (mode = "aud" => backslash \notin Range(m.value))
    BY <1>8, <1>10
  <2>2. ValueUsed(mode, m) = Value(text, p)
    BY <1>5, <1>17, <2>1, ValueAsRead
  <2> QED  BY <1>12, <2>2 DEF used
<1>19. MadeOf(f, q, i, c, v, e, d)
  BY <1>1, <1>10, <1>16, <1>18, ServiceMakes
<1>20. e = v + Len(m.value) /\ q = (IF m.quoted THEN 1 ELSE 0) /\ v \in Nat /\ e \in Nat
  BY <1>15 DEF Reads
<1> HIDE DEF i, c, v, e, d
<1>21. Accepts(Hints(Payload), mode, f)
  <2>1. CASE mode = "iat"
    <3>1. ~ m.quoted /\ Len(m.value) < maxValueLen
      BY <1>8, <2>1
    <3>2. q = 0 /\ e - v < maxValueLen
      <4>1. Len(m.value) \in Nat /\ maxValueLen \in Nat
        BY <1>14, LengthsAssumption DEF PlainMember
      <4> QED  BY <1>20, <3>1, <4>1
    <3>3. UnquotedField(Hints(Payload), f, key)
      BY <1>1, <1>16, <1>19, <3>2, UnquotedMade
    <3> QED  BY <2>1, <3>3 DEF Accepts
  <2>2. CASE mode # "iat"
    <3>1. q = 1
      BY <1>8, <1>20, <2>2
    <3>2. QuotedField(Hints(Payload), f) /\ NameIs(f, key)
      BY <1>1, <1>16, <1>19, <3>1, QuotedMade
    <3>3. mode = "nonce" => AsciiDigitsToScalar(f.value, f.value_len)
      <4> SUFFICES ASSUME mode = "nonce" PROVE AsciiDigitsToScalar(f.value, f.value_len)
        OBVIOUS
      <4>1. Range(m.value) \subseteq Digits /\ Len(m.value) < maxValueLen
        BY <1>8, <1>13
      <4>2. \A j \in 0 .. e - v - 1 : Payload[v + j] = m.value[j + 1]
        BY <1>17 DEF e, v
      <4> QED  BY <1>1, <1>19, <1>20, <4>1, <4>2, DigitsMade
    <3> QED  BY <2>2, <3>2, <3>3 DEF Accepts, NamedField, NonceField
  <2> QED  BY <2>1, <2>2
<1> QED  BY <1>5, <1>21 DEF Accepted, Payload

\* The signals that the service derives from a plain member (field_parser.rs,
\* field_check_input.rs) satisfy the circuit's constraints for that field: every test
\* that keyless.circom makes of it, for every payload in which the member can be.
THEOREM ServiceSatisfiesCircuit == Spec => []PlainAccepted
BY Written, IInvPlain, PTL
================================================================================
