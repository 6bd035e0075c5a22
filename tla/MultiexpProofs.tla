----------------------------- MODULE MultiexpProofs -----------------------------
(***************************************************************************)
(* The multiexponentiation computes the sum of scalars[i] times bases[i],  *)
(* however its loops are scheduled, for every group order, every number of *)
(* threads, every chunk size and every call.                               *)
(***************************************************************************)
EXTENDS Multiexp, FieldProofs

--------------------------------------------------------------------------------
\* Numbers.
LEMMA MaxOfTwo == \A a, b \in Int : Max({a, b}) \in {a, b} /\ Max({a, b}) >= a /\ Max({a, b}) >= b
<1> SUFFICES ASSUME NEW a \in Int, NEW b \in Int
             PROVE  Max({a, b}) \in {a, b} /\ Max({a, b}) >= a /\ Max({a, b}) >= b
  OBVIOUS
<1>1. \E x \in {a, b} : \A y \in {a, b} : x >= y
  <2>1. CASE a >= b
    BY <2>1
  <2>2. CASE b >= a
    BY <2>2
  <2> QED  BY <2>1, <2>2
<1> QED  BY <1>1 DEF Max

LEMMA MinOfTwo == \A a, b \in Int : Min({a, b}) \in {a, b} /\ Min({a, b}) <= a /\ Min({a, b}) <= b
<1> SUFFICES ASSUME NEW a \in Int, NEW b \in Int
             PROVE  Min({a, b}) \in {a, b} /\ Min({a, b}) <= a /\ Min({a, b}) <= b
  OBVIOUS
<1>1. \E x \in {a, b} : \A y \in {a, b} : x <= y
  <2>1. CASE a <= b
    BY <2>1
  <2>2. CASE b <= a
    BY <2>2
  <2> QED  BY <2>1, <2>2
<1> QED  BY <1>1 DEF Min

\* Division by a product, in two steps.
LEMMA DivSplit ==
  \A y \in Nat : \A d, m \in Nat \ {0} :
    /\ y \div (d * m) = (y \div d) \div m
    /\ y % (d * m) = (d * ((y \div d) % m)) + (y % d)
<1> SUFFICES ASSUME NEW y \in Nat, NEW d \in Nat \ {0}, NEW m \in Nat \ {0}
             PROVE  /\ y \div (d * m) = (y \div d) \div m
                    /\ y % (d * m) = (d * ((y \div d) % m)) + (y % d)
  OBVIOUS
<1> DEFINE q == y \div d
           s == y % d
           u == q \div m
           v == q % m
           w == (d * v) + s
           dm == d * m
<1>1. q \in Nat /\ s \in 0 .. d - 1 /\ s \in Nat /\ y = (d * q) + s
  BY ModType
<1> HIDE DEF q, s
<1>2. u \in Nat /\ v \in 0 .. m - 1 /\ v \in Nat /\ q = (m * u) + v
  BY <1>1, ModType
<1> HIDE DEF u, v
<1>3. dm \in Nat
  OBVIOUS
<1>4. w \in 0 .. dm - 1
  <2>1. d * v <= d * (m - 1)
    <3>1. \A x, z, t \in Nat : x <= z => t * x <= t * z
      OBVIOUS
    <3>2. v <= m - 1 /\ m - 1 \in Nat
      BY <1>2
    <3> QED  BY <1>2, <3>1, <3>2
  <2>2. d * (m - 1) = d * m - d
    OBVIOUS
  <2>3. d * v \in Nat
    BY <1>2
  <2> QED  BY <1>1, <2>1, <2>2, <2>3
<1>5. y = (u * dm) + w
  <2>1. d * ((m * u) + v) = (u * (d * m)) + (d * v)
    BY <1>2
  <2> QED  BY <1>1, <1>2, <2>1
<1> HIDE DEF w, dm
<1>6. y % dm = w /\ y \div dm = u
  BY <1>2, <1>3, <1>4, <1>5, Quotient
<1> QED  BY <1>6 DEF w, dm, u, v, q, s

\* What is left of a number below d*m, of its remainder by d*m.
LEMMA ModSplit ==
  \A y \in Nat : \A d, m \in Nat \ {0} :
    /\ (y % (d * m)) \div d = (y \div d) % m
    /\ (y % (d * m)) % d = y % d
<1> SUFFICES ASSUME NEW y \in Nat, NEW d \in Nat \ {0}, NEW m \in Nat \ {0}
             PROVE  /\ (y % (d * m)) \div d = (y \div d) % m
                    /\ (y % (d * m)) % d = y % d
  OBVIOUS
<1> DEFINE q == y \div d
           s == y % d
           v == q % m
           z == y % (d * m)
<1>1. z = (d * v) + s
  BY DivSplit
<1>2. q \in Nat /\ s \in 0 .. d - 1
  BY ModType
<1> HIDE DEF q, s, z
<1>3. v \in Nat
  BY <1>2, ModType
<1> HIDE DEF v
<1>4. z = (v * d) + s
  BY <1>1, <1>2, <1>3
<1>5. z % d = s /\ z \div d = v
  BY <1>2, <1>3, <1>4, Quotient
<1> QED  BY <1>5 DEF q, s, v, z

--------------------------------------------------------------------------------
\* Chunks.
LEMMA LogOfPoints == \A m \in Nat : log2(m) \in Nat
<1> SUFFICES ASSUME NEW m \in Nat, m # 0 PROVE log2(m) \in Nat
  BY DEF log2
<1> DEFINE S == {k \in Nat : m < 2 ^ k}
<1>1. m \in S
  BY TwoExpAbove
<1>2. PICK k \in S : \A j \in S : k <= j
  <2>1. S \in SUBSET Nat /\ S # {}
    BY <1>1
  <2> HIDE DEF S
  <2> QED  BY <2>1, Least
<1>3. k # 0
  <2>1. 2 ^ 0 = 1
    OBVIOUS
  <2>2. ~ (m < 1)
    OBVIOUS
  <2>3. m < 2 ^ k
    BY <1>2
  <2> QED  BY <2>1, <2>2, <2>3
<1> DEFINE h == k - 1
<1>4. h \in Nat /\ k = h + 1 /\ h \notin S
  BY <1>2, <1>3
<1>5. k <= m
  BY <1>1, <1>2
<1>6. 2 ^ h \in Nat
  BY <1>4, TwoExp
<1>7. h \in 0 .. m /\ 2 ^ h <= m /\ m < 2 ^ (h + 1)
  BY <1>2, <1>4, <1>5, <1>6
<1> HIDE DEF h
<1>8. log2(m) \in 0 .. m
  BY <1>7 DEF log2
<1> QED  BY <1>8

\* What the sizes of the scalars allow for a chunk.
LEMMA ScalarSizes ==
  /\ ByteBits \in Nat \ {0} /\ ScalarBytes \in Nat \ {0} /\ WordBytes \in Nat \ {0}
  /\ ScalarBits \in Nat \ {0}
  /\ ScalarBytes - WordBytes \in Nat
<1>1. ByteBits \in Nat \ {0} /\ ScalarBytes \in Nat \ {0} /\ WordBytes \in Nat \ {0}
  BY SizesAssumption
<1>2. ScalarBytes - WordBytes \in Nat
  BY SizesAssumption
<1>3. \A a, b \in Nat \ {0} : a * b \in Nat \ {0}
  OBVIOUS
<1> QED  BY <1>1, <1>2, <1>3 DEF ScalarBits

\* The chunks cover the scalar, and the last is not empty.
LEMMA ChunkBits ==
  ASSUME n \in Nat
  PROVE  /\ bitsPerChunk \in Nat \ {0} /\ bitsPerChunk <= MaxBits
         /\ nChunks \in Nat \ {0}
         /\ (nChunks - 1) * bitsPerChunk < ScalarBits
         /\ ScalarBits <= nChunks * bitsPerChunk
<1> DEFINE l == log2(n \div 2)
           a == Min({MaxBits, l})
           b == Max({MinBits, a})
<1>1. l \in Nat
  <2>1. n \div 2 \in Nat
    BY ModType
  <2> QED  BY <2>1, LogOfPoints
<1> HIDE DEF l
<1>2. a \in Int /\ a <= MaxBits
  BY <1>1, MinOfTwo, SizesAssumption
<1> HIDE DEF a
<1>3. b \in Nat \ {0} /\ b <= MaxBits
  <2>1. MinBits \in Int /\ MinBits \in Nat \ {0} /\ MinBits <= MaxBits /\ MaxBits \in Int
    BY SizesAssumption
  <2>2. b \in {MinBits, a} /\ b >= MinBits /\ b >= a
    BY <1>2, <2>1, MaxOfTwo, Zenon
  <2> HIDE DEF b
  <2> QED  BY <1>2, <2>1, <2>2
<1>4. b = bitsPerChunk
  BY DEF a, l, bitsPerChunk
<1> HIDE DEF b
<1> DEFINE k == (ScalarBits - 1) \div b
           x == (ScalarBits - 1) % b
<1>5. k \in Nat /\ x \in 0 .. b - 1 /\ ScalarBits - 1 = (b * k) + x
  BY <1>3, ScalarSizes, ModType, SMTT(30)
<1>6. nChunks = k + 1
  BY <1>4 DEF nChunks
<1> HIDE DEF k, x
<1>7. b * k = k * b /\ (k + 1) * b = k * b + b /\ k * b \in Nat
  BY <1>3, <1>5
<1>8. k * b < ScalarBits /\ ScalarBits <= (k + 1) * b
  BY <1>3, <1>5, <1>7, ScalarSizes
<1> QED  BY <1>3, <1>4, <1>5, <1>6, <1>8

\* The end of a chunk that starts in the scalar, and where getChunk reads it.
LEMMA WordHolds ==
  ASSUME NEW b \in Nat \ {0}, b <= MaxBits, NEW start \in Nat, start < ScalarBits
  PROVE  LET byteStart == Min({start \div ByteBits, ScalarBytes - WordBytes})
             d == start - byteStart * ByteBits
             e == Min({b, ScalarBits - start})
         IN /\ byteStart \in Nat /\ d \in Nat /\ e \in Nat
            /\ d + e <= WordBytes * ByteBits /\ WordBytes * ByteBits \in Nat
            /\ byteStart * ByteBits \in Nat
<1> DEFINE q == start \div ByteBits
           x == start % ByteBits
           l == ScalarBytes - WordBytes
           s == Min({q, l})
           e == Min({b, ScalarBits - start})
           sb == s * ByteBits
           w == WordBytes * ByteBits
<1>1. q \in Nat /\ x \in 0 .. ByteBits - 1 /\ start = (ByteBits * q) + x /\ l \in Nat
  BY ScalarSizes, ModType
<1> HIDE DEF q, x
<1>2. s \in {q, l} /\ s <= q /\ s <= l
  <2>1. q \in Int /\ l \in Int
    BY <1>1
  <2> HIDE DEF l
  <2> QED  BY <2>1, MinOfTwo, Zenon
<1>3. e \in Nat /\ e <= b /\ e <= ScalarBits - start
  BY MinOfTwo, ScalarSizes
<1>4. w \in Nat /\ MaxBits + ByteBits - 1 <= w
  BY SizesAssumption, ScalarSizes
<1>5. ScalarBits = l * ByteBits + w
  <2>1. ScalarBytes = l + WordBytes /\ l \in Nat
    BY <1>1, ScalarSizes
  <2> HIDE DEF l
  <2> QED  BY <2>1, ScalarSizes DEF ScalarBits
<1> HIDE DEF s, e, l, w
<1>6. sb \in Nat /\ sb <= start
  <2>1. \A u, v, t \in Nat : u <= v => u * t \in Nat /\ u * t <= v * t
    OBVIOUS
  <2>2. s * ByteBits \in Nat /\ s * ByteBits <= q * ByteBits
    BY <1>1, <1>2, <2>1, ScalarSizes
  <2>3. q * ByteBits = ByteBits * q /\ q * ByteBits \in Nat
    BY <1>1, ScalarSizes
  <2> QED  BY <1>1, <2>2, <2>3
<1>7. (start - sb) + e <= w
  <2>1. CASE s = q
    <3>1. sb = ByteBits * q /\ sb \in Nat
      BY <1>1, <1>6, <2>1, ScalarSizes
    <3>2. start - sb <= ByteBits - 1
      BY <1>1, <3>1, ScalarSizes
    <3> HIDE DEF sb
    <3> QED  BY <1>3, <1>4, <1>6, <3>2, SizesAssumption
  <2>2. CASE s = l
    <3>1. ScalarBits = sb + w
      BY <1>5, <2>2
    <3> HIDE DEF sb
    <3> QED  BY <1>3, <1>4, <1>6, <3>1
  <2> QED  BY <1>2, <2>1, <2>2
<1>8. start - sb \in Nat
  BY <1>6
<1>9. s \in Nat
  BY <1>1, <1>2
<1> QED  BY <1>3, <1>4, <1>6, <1>7, <1>8, <1>9 DEF q, l, s, e, sb, w

\* getChunk reads the bits of its chunk, whatever word it reads them from.
LEMMA ChunkIs ==
  ASSUME n \in Nat, NEW sc \in Nat, NEW c \in 0 .. nChunks - 1
  PROVE  /\ c * bitsPerChunk \in Nat /\ c * bitsPerChunk < ScalarBits
         /\ getChunk(sc, c) =
              (sc \div 2 ^ (c * bitsPerChunk))
                % 2 ^ Min({bitsPerChunk, ScalarBits - c * bitsPerChunk})
<1> DEFINE b == bitsPerChunk
           start == c * b
           byteStart == Min({start \div ByteBits, ScalarBytes - WordBytes})
           sb == byteStart * ByteBits
           d == start - sb
           e == Min({b, ScalarBits - start})
           w == WordBytes * ByteBits
           k == w - (d + e)
           y == sc \div 2 ^ sb
           word == y % 2 ^ w
<1>1. /\ b \in Nat \ {0} /\ b <= MaxBits /\ c \in Nat /\ c <= nChunks - 1 /\ nChunks - 1 \in Nat
      /\ (nChunks - 1) * b < ScalarBits
  BY ChunkBits
<1>2. getChunk(sc, c) = (word \div 2 ^ d) % 2 ^ e
  BY DEF getChunk
<1> HIDE DEF b
<1>3. start \in Nat /\ start < ScalarBits
  <2>1. \A u, v, t \in Nat : u <= v => u * t \in Nat /\ u * t <= v * t /\ v * t \in Nat
    OBVIOUS
  <2>2. c * b \in Nat /\ c * b <= (nChunks - 1) * b /\ (nChunks - 1) * b \in Nat
    BY <1>1, <2>1
  <2> QED  BY <1>1, <2>2, ScalarSizes
<1> HIDE DEF start
<1>4. /\ byteStart \in Nat /\ d \in Nat /\ e \in Nat /\ d + e <= w /\ w \in Nat /\ sb \in Nat
  BY <1>1, <1>3, WordHolds
<1> HIDE DEF byteStart, sb, e, w
<1>5. k \in Nat /\ w = d + (e + k) /\ start = sb + d
  BY <1>3, <1>4
<1> HIDE DEF d, k
<1>6. 2 ^ w = 2 ^ d * (2 ^ e * 2 ^ k) /\ 2 ^ start = 2 ^ sb * 2 ^ d
  <2>1. e + k \in Nat
    BY <1>4, <1>5
  <2>2. 2 ^ (d + (e + k)) = 2 ^ d * 2 ^ (e + k) /\ 2 ^ (e + k) = 2 ^ e * 2 ^ k
    BY <1>4, <1>5, <2>1, TwoExpAdd
  <2>3. 2 ^ (sb + d) = 2 ^ sb * 2 ^ d
    BY <1>4, TwoExpAdd
  <2> QED  BY <1>5, <2>2, <2>3
<1> DEFINE D == 2 ^ d
           E == 2 ^ e
           K == 2 ^ k
           S == 2 ^ sb
<1>7. D \in Nat \ {0} /\ E \in Nat \ {0} /\ K \in Nat \ {0} /\ S \in Nat \ {0}
  BY <1>4, <1>5, TwoExp
<1>8. word = y % (D * (E * K)) /\ sc \div 2 ^ start = sc \div (S * D)
  BY <1>6
<1>9. y = sc \div S /\ y \in Nat
  <2>1. y = sc \div S
    OBVIOUS
  <2> HIDE DEF y, S
  <2> QED  BY <1>7, <2>1, ModType
<1> HIDE DEF D, E, K, S, y, word
<1>10. E * K \in Nat \ {0}
  BY <1>7
<1>11. word \div D = (y \div D) % (E * K)
  BY <1>7, <1>8, <1>9, <1>10, ModSplit, ZenonT(60)
<1>12. y \div D \in Nat
  BY <1>7, <1>9, ModType
<1>13. ((y \div D) % (E * K)) % E = (y \div D) % E
  BY <1>7, <1>12, ModSplit
<1>14. sc \div (S * D) = y \div D
  BY <1>7, <1>9, DivSplit
<1>15. (word \div D) % E = (sc \div 2 ^ start) % E
  BY <1>8, <1>11, <1>13, <1>14
<1> QED  BY <1>2, <1>3, <1>15 DEF D, E, e, start, b

\* What is left of a scalar above the first c chunks.
HighPart(sc, c) == sc \div 2 ^ (c * bitsPerChunk)

\* The chunks of a scalar are its digits to the base 2^bitsPerChunk.
LEMMA HighPartStep ==
  ASSUME n \in Nat, NEW sc \in 0 .. 2 ^ ScalarBits - 1, NEW c \in 0 .. nChunks - 1
  PROVE  /\ getChunk(sc, c) \in Buckets
         /\ HighPart(sc, c) \in Nat /\ HighPart(sc, c + 1) \in Nat
         /\ HighPart(sc, c) = (2 ^ bitsPerChunk * HighPart(sc, c + 1)) + getChunk(sc, c)
<1> DEFINE b == bitsPerChunk
           start == c * b
           e == Min({b, ScalarBits - start})
           t == HighPart(sc, c)
           B == 2 ^ b
           E == 2 ^ e
           S == 2 ^ start
<1>0. 2 ^ ScalarBits \in Nat /\ sc \in Nat /\ sc < 2 ^ ScalarBits
  BY TwoExp, ScalarSizes
<1>1. /\ b \in Nat \ {0} /\ c \in Nat /\ start \in Nat /\ start < ScalarBits
      /\ getChunk(sc, c) = t % E
  <2>1. bitsPerChunk \in Nat \ {0} /\ nChunks \in Nat
    BY ChunkBits
  <2>2. /\ start \in Nat /\ start < ScalarBits
        /\ getChunk(sc, c) = (sc \div 2 ^ (c * bitsPerChunk))
             % 2 ^ Min({bitsPerChunk, ScalarBits - c * bitsPerChunk})
    BY <1>0, ChunkIs
  <2>3. c \in Nat
    BY <2>1
  <2> QED  BY <2>1, <2>2, <2>3, Zenon DEF HighPart
<1>2. t = sc \div S
  BY DEF HighPart
<1>3. (c + 1) * b = start + b
  <2>1. b \in Nat /\ c \in Nat
    BY <1>1
  <2> HIDE DEF b
  <2> QED  BY <2>1
<1>4. Buckets = 0 .. B - 1 /\ HighPart(sc, c + 1) = sc \div 2 ^ (start + b)
  BY <1>3 DEF Buckets, HighPart
<1> HIDE DEF b, start
<1>5. e \in {b, ScalarBits - start} /\ e <= b /\ e <= ScalarBits - start /\ e \in Nat
  <2>1. b \in Int /\ ScalarBits - start \in Int /\ ScalarBits - start \in Nat
    BY <1>1, ScalarSizes
  <2>2. e \in {b, ScalarBits - start} /\ e <= b /\ e <= ScalarBits - start
    BY <2>1, MinOfTwo, Zenon
  <2> QED  BY <1>1, <2>1, <2>2
<1> HIDE DEF e, t
<1>6. B \in Nat \ {0} /\ E \in Nat \ {0} /\ S \in Nat \ {0}
  BY <1>1, <1>5, TwoExp
<1>7. 2 ^ (start + b) = S * B
  BY <1>1, TwoExpAdd
<1>8. t \in Nat
  BY <1>0, <1>2, <1>6, ModType
<1>9. E <= B
  BY <1>1, <1>5, TwoExpMonotonic, <1>6
<1>10. e = b \/ t < E
  <2> SUFFICES ASSUME e = ScalarBits - start PROVE t < E
    BY <1>5
  <2>1. ScalarBits = start + e
    BY <1>1, ScalarSizes
  <2>2. 2 ^ ScalarBits = S * E
    BY <1>1, <1>5, <2>1, TwoExpAdd
  <2> HIDE DEF S, E
  <2>3. sc = (S * t) + (sc % S) /\ sc % S \in Nat
    BY <1>0, <1>2, <1>6, ModType
  <2> QED  BY <1>0, <1>6, <1>8, <2>2, <2>3, QuotientBound
<1> HIDE DEF B, E, S
<1>11. t % E = t % B
  <2>1. CASE e = b
    BY <2>1 DEF B, E
  <2>2. CASE t < E
    <3>1. t % E = t /\ t % B = t
      BY <1>6, <1>8, <1>9, <2>2
    <3> QED  BY <3>1
  <2> QED  BY <1>10, <2>1, <2>2
<1>12. sc \div (S * B) = t \div B
  BY <1>0, <1>2, <1>6, DivSplit
<1>13. t % B \in 0 .. B - 1 /\ t \div B \in Nat /\ t = (B * (t \div B)) + (t % B)
  BY <1>6, <1>8, ModType
<1>14. t = HighPart(sc, c) /\ getChunk(sc, c) = t % B /\ HighPart(sc, c + 1) = t \div B
  BY <1>1, <1>4, <1>7, <1>11, <1>12 DEF t
<1> QED  BY <1>4, <1>8, <1>13, <1>14 DEF B, b

\* Beyond the last chunk nothing of a scalar is left.
LEMMA HighPartEnds ==
  ASSUME n \in Nat, NEW sc \in 0 .. 2 ^ ScalarBits - 1
  PROVE  HighPart(sc, 0) = sc /\ HighPart(sc, nChunks) = 0
<1> DEFINE m == nChunks * bitsPerChunk
<1>0. 2 ^ ScalarBits \in Nat /\ sc \in Nat /\ sc < 2 ^ ScalarBits
  BY TwoExp, ScalarSizes
<1>1. bitsPerChunk \in Nat /\ nChunks \in Nat /\ ScalarBits <= m
  BY ChunkBits
<1>2. HighPart(sc, nChunks) = sc \div 2 ^ m /\ m \in Nat
  BY <1>1 DEF HighPart
<1> HIDE DEF m
<1>3. 2 ^ ScalarBits <= 2 ^ m /\ 2 ^ m \in Nat \ {0}
  BY <1>1, <1>2, TwoExp, TwoExpMonotonic, ScalarSizes
<1>4. sc \div 2 ^ m = 0
  BY <1>0, <1>3
<1>5. HighPart(sc, 0) = sc
  <2>1. 0 * bitsPerChunk = 0 /\ 2 ^ 0 = 1 /\ sc \div 1 = sc
    BY <1>0, <1>1
  <2> QED  BY <2>1 DEF HighPart
<1> QED  BY <1>2, <1>4, <1>5

--------------------------------------------------------------------------------
\* Sums.

\* One term is replaced.
LEMMA SumUpdate ==
  ASSUME NEW S, IsFiniteSet(S), NEW f, NEW g, NEW x \in S,
         \A i \in S : f[i] \in Int /\ g[i] \in Int,
         \A i \in S : i # x => g[i] = f[i]
  PROVE  Sum(g, S) = (Sum(f, S) - f[x]) + g[x]
<1>1. Sum(f, S) = f[x] + Sum(f, S \ {x}) /\ Sum(g, S) = g[x] + Sum(g, S \ {x})
  BY SumRemove
<1>2. IsFiniteSet(S \ {x}) /\ \A i \in S \ {x} : f[i] = g[i]
  BY FS_RemoveElement
<1>3. Sum(f, S \ {x}) = Sum(g, S \ {x}) /\ Sum(f, S \ {x}) \in Int
  <2>1. Sum(f, S \ {x}) = Sum(g, S \ {x})
    BY <1>2, SumEqual
  <2>2. \A i \in S \ {x} : f[i] \in Int
    OBVIOUS
  <2> QED  BY <1>2, <2>1, <2>2, SumType
<1>4. f[x] \in Int /\ g[x] \in Int
  OBVIOUS
<1> QED  BY <1>1, <1>3, <1>4

\* The terms of f in a part of S, the others replaced by zero.
Filtered(f, U, S) == [i \in S |-> IF i \in U THEN f[i] ELSE 0]

\* A sum in which all but some terms are replaced by zero.
LEMMA SumFiltered ==
  ASSUME NEW S, IsFiniteSet(S), NEW U \in SUBSET S, NEW f, \A i \in U : f[i] \in Int
  PROVE  Sum(Filtered(f, U, S), S) = Sum(f, U)
<1> DEFINE g == Filtered(f, U, S)
<1>1. /\ \A i \in U : g[i] = f[i]
      /\ \A i \in S \ U : g[i] = 0
      /\ \A i \in S : g[i] \in Int
  BY DEF Filtered
<1> HIDE DEF g
<1>2. IsFiniteSet(U) /\ IsFiniteSet(S \ U) /\ U \cup (S \ U) = S
  BY FS_Subset
<1>3. Sum(g, U \cup (S \ U)) = Sum(g, U) + Sum(g, S \ U)
  BY <1>1, <1>2, SumUnion
<1>4. Sum(g, U) = Sum(f, U) /\ Sum(f, U) \in Int
  BY <1>1, <1>2, SumEqual, SumType
<1>5. Sum(g, S \ U) = 0
  BY <1>1, <1>2, SumZero
<1>6. Sum(g, S) = Sum(g, U) + Sum(g, S \ U)
  BY <1>2, <1>3
<1> QED  BY <1>4, <1>5, <1>6 DEF g

\* A call of the kernel.
LEMMA CallFacts ==
  ASSUME call \in Calls
  PROVE  /\ n \in Nat /\ Points = 1 .. n /\ IsFiniteSet(Points) /\ DOMAIN call.bases = Points
         /\ call.bases \in Seq(Field)
         /\ \A i \in Points : /\ call.bases[i] \in Field /\ call.bases[i] \in Int
                              /\ call.scalars[i] \in 0 .. 2 ^ ScalarBits - 1
                              /\ call.scalars[i] \in Nat
<1>1. /\ call.bases \in Seq(Field) /\ call.scalars \in Seq(0 .. 2 ^ ScalarBits - 1)
      /\ Len(call.scalars) = Len(call.bases)
  BY CallsAssumption
<1>2. n \in Nat /\ Points = 1 .. n /\ DOMAIN call.bases = Points
  BY <1>1 DEF n, Points
<1>3. IsFiniteSet(Points)
  <2>1. 1 \in Int /\ n \in Int
    BY <1>2
  <2>2. IsFiniteSet(1 .. n)
    BY <2>1, FS_Interval
  <2> QED  BY <1>2, <2>2, Zenon
<1>4. 2 ^ ScalarBits \in Nat
  BY TwoExp, ScalarSizes
<1>5. \A i \in Points : call.bases[i] \in Field /\ call.scalars[i] \in 0 .. 2 ^ ScalarBits - 1
  <2> DEFINE x == call.bases
             y == call.scalars
             Y == 0 .. 2 ^ ScalarBits - 1
  <2>1. x \in Seq(Field) /\ y \in Seq(Y) /\ Len(y) = Len(x) /\ Points = 1 .. Len(x)
    BY <1>1 DEF n, Points
  <2> HIDE DEF x, y, Y
  <2>2. \A i \in 1 .. Len(x) : x[i] \in Field /\ y[i] \in Y
    BY <2>1
  <2> QED  BY <2>1, <2>2, Zenon DEF x, y, Y
<1>6. \A i \in Points : call.bases[i] \in Int /\ call.scalars[i] \in Nat
  <2>1. \A x \in 0 .. 2 ^ ScalarBits - 1 : x \in Nat
    BY <1>4
  <2> QED  BY <1>5, <2>1, FieldResidue
<1> QED  BY <1>1, <1>2, <1>3, <1>5, <1>6

\* The sum that chunk c is worth, and what all the chunks from c on are.
ChunkTerms(c) == [i \in Points |-> getChunk(call.scalars[i], c) * call.bases[i]]
ChunkSum(c)   == Sum(ChunkTerms(c), Points)
HighTerms(c)  == [i \in Points |-> HighPart(call.scalars[i], c) * call.bases[i]]
HighSum(c)    == Sum(HighTerms(c), Points)
AllTerms      == [i \in Points |-> call.scalars[i] * call.bases[i]]

\* From chunk c on, the scalars are worth chunk c and, shifted, what comes after.
LEMMA HighSumStep ==
  ASSUME call \in Calls, NEW c \in 0 .. nChunks - 1
  PROVE  /\ ChunkSum(c) \in Int /\ HighSum(c) \in Int /\ HighSum(c + 1) \in Int
         /\ HighSum(c) = (2 ^ bitsPerChunk * HighSum(c + 1)) + ChunkSum(c)
<1> DEFINE f == ChunkTerms(c)
           g == HighTerms(c + 1)
           h == HighTerms(c)
           k == 2 ^ bitsPerChunk
           m == [i \in Points |-> k * g[i]]
           s == [i \in Points |-> m[i] + f[i]]
<1>0. n \in Nat /\ IsFiniteSet(Points)
  BY CallFacts
<1>1. k \in Int
  BY <1>0, ChunkBits, TwoExp
<1>2. ASSUME NEW i \in Points
      PROVE  /\ f[i] \in Int /\ g[i] \in Int /\ h[i] = (k * g[i]) + f[i] /\ h[i] \in Int
  <2> DEFINE sc == call.scalars[i]
             x == getChunk(sc, c)
             y == HighPart(sc, c + 1)
             z == HighPart(sc, c)
             p == call.bases[i]
  <2>1. p \in Int /\ sc \in 0 .. 2 ^ ScalarBits - 1
    BY CallFacts
  <2>2. f[i] = x * p /\ g[i] = y * p /\ h[i] = z * p
    BY DEF ChunkTerms, HighTerms
  <2> HIDE DEF f, g, h, p, sc
  <2>3. x \in Buckets /\ y \in Nat /\ z \in Nat /\ z = (k * y) + x
    BY <1>0, <2>1, HighPartStep
  <2>4. x \in Nat
    BY <1>1, <2>3 DEF Buckets
  <2> HIDE DEF x, y, z, k
  <2>5. ((k * y) + x) * p = (k * (y * p)) + (x * p)
    BY <1>1, <2>1, <2>3, <2>4
  <2>6. x * p \in Int /\ y * p \in Int /\ z * p \in Int
    BY <2>1, <2>3, <2>4
  <2> QED  BY <2>2, <2>3, <2>5, <2>6
<1> HIDE DEF f, g, h, k
<1>3. Sum(f, Points) \in Int /\ Sum(g, Points) \in Int /\ Sum(h, Points) \in Int
  BY <1>0, <1>2, SumType
<1>4. Sum(m, Points) = k * Sum(g, Points)
  BY <1>0, <1>1, <1>2, SumTimes
<1>5. \A i \in Points : m[i] \in Int /\ m[i] = k * g[i]
  <2>1. \A u \in Int : k * u \in Int
    BY <1>1
  <2> QED  BY <1>2, <2>1
<1> HIDE DEF m
<1>6. Sum(s, Points) = Sum(m, Points) + Sum(f, Points)
  BY <1>0, <1>2, <1>5, SumPlus
<1>7. \A i \in Points : h[i] = s[i]
  BY <1>2, <1>5
<1> HIDE DEF s
<1>8. Sum(h, Points) = Sum(s, Points)
  BY <1>0, <1>7, SumEqual
<1> QED  BY <1>3, <1>4, <1>6, <1>8 DEF f, g, h, k, ChunkSum, HighSum

\* From chunk 0 on it is everything, from the end on it is nothing.
LEMMA HighSumEnds ==
  ASSUME call \in Calls
  PROVE  HighSum(nChunks) = 0 /\ HighSum(0) = Sum(AllTerms, Points)
<1>0. n \in Nat /\ IsFiniteSet(Points)
  BY CallFacts
<1>1. ASSUME NEW i \in Points
      PROVE  HighTerms(nChunks)[i] = 0 /\ HighTerms(0)[i] = AllTerms[i]
  <2>1. call.bases[i] \in Int /\ call.scalars[i] \in 0 .. 2 ^ ScalarBits - 1
    BY CallFacts
  <2>2. HighPart(call.scalars[i], 0) = call.scalars[i] /\ HighPart(call.scalars[i], nChunks) = 0
    BY <1>0, <2>1, HighPartEnds
  <2>3. 0 * call.bases[i] = 0
    BY <2>1
  <2> QED  BY <2>2, <2>3 DEF HighTerms, AllTerms
<1>2. \A i \in Points : HighTerms(nChunks)[i] = 0
  BY <1>1
<1>3. \A i \in Points : HighTerms(0)[i] = AllTerms[i]
  BY <1>1
<1>4. Sum(HighTerms(nChunks), Points) = 0
  BY <1>0, <1>2, SumZero
<1>5. Sum(HighTerms(0), Points) = Sum(AllTerms, Points)
  BY <1>0, <1>3, SumEqual
<1> QED  BY <1>4, <1>5 DEF HighSum

\* The buckets times what they stand for.
WeightedTerms(B) == [v \in Buckets |-> v * B[v]]
Weighted(B)      == Sum(WeightedTerms(B), Buckets)

\* The bases of the points in W that have value v in chunk c.
Having(W, v, c) == {j \in W : getChunk(call.scalars[j], c) = v}

\* The points that have a value in a chunk, and the terms of a bucket.
LEMMA BucketFacts ==
  ASSUME call \in Calls
  PROVE  /\ IsFiniteSet(Buckets) /\ 0 \in Buckets /\ 1 \in Buckets
         /\ \A v \in Buckets : v \in Nat /\ v < 2 ^ bitsPerChunk
         /\ \A v \in Nat : v < 2 ^ bitsPerChunk => v \in Buckets
         /\ \A i \in Points, c \in 0 .. nChunks - 1 : getChunk(call.scalars[i], c) \in Buckets
         /\ IsFiniteSet(ThreadIds) /\ 0 \in ThreadIds
<1>0. n \in Nat
  BY CallFacts
<1>1. bitsPerChunk \in Nat \ {0} /\ 2 ^ bitsPerChunk \in Nat
  BY <1>0, ChunkBits, TwoExp
<1> DEFINE B == 2 ^ bitsPerChunk
<1>2. B > 1
  <2>1. 1 <= bitsPerChunk /\ bitsPerChunk < B
    BY <1>1, TwoExpAbove
  <2> QED  BY <1>1, <2>1
<1>3. Buckets = 0 .. B - 1
  BY DEF Buckets
<1>4. \A i \in Points, c \in 0 .. nChunks - 1 : getChunk(call.scalars[i], c) \in Buckets
  BY <1>0, CallFacts, HighPartStep
<1>5. IsFiniteSet(ThreadIds) /\ 0 \in ThreadIds
  <2>1. 0 \in Int /\ Threads - 1 \in Int /\ 0 <= Threads - 1
    BY SizesAssumption
  <2>2. IsFiniteSet(0 .. Threads - 1)
    BY <2>1, FS_Interval
  <2> QED  BY <2>1, <2>2 DEF ThreadIds
<1> HIDE DEF B
<1>6. IsFiniteSet(0 .. B - 1)
  <2>1. 0 \in Int /\ B - 1 \in Int
    BY <1>1 DEF B
  <2> QED  BY <2>1, FS_Interval
<1>7. 0 \in Buckets /\ 1 \in Buckets
  BY <1>1, <1>2, <1>3 DEF B
<1>8. (\A v \in Buckets : v \in Nat /\ v < B) /\ (\A v \in Nat : v < B => v \in Buckets)
  BY <1>1, <1>3 DEF B
<1> QED  BY <1>3, <1>4, <1>5, <1>6, <1>7, <1>8 DEF B

\* The terms of a bucket's sum, as a row over all the points.
BucketRow(v, c) == [i \in Points |-> IF i \in Having(Points, v, c) THEN v * call.bases[i] ELSE 0]
Table(c)   == [v \in Buckets |-> BucketRow(v, c)]

\* Buckets that hold the bases of their values are worth the sum of the chunk.
LEMMA WeightedIsChunkSum ==
  ASSUME call \in Calls, NEW c \in 0 .. nChunks - 1, NEW B, \A v \in Buckets : B[v] \in Int,
         \A v \in Buckets \ {0} : Cong(B[v], Sum(call.bases, Having(Points, v, c)))
  PROVE  Cong(Weighted(B), ChunkSum(c))
<1> DEFINE T == Table(c)
           rows == [v \in Buckets |-> Sum(T[v], Points)]
           cols == [i \in Points |-> Sum(ColumnOf(T, Buckets, i), Buckets)]
           g(i) == getChunk(call.scalars[i], c)
<1>0. IsFiniteSet(Points) /\ \A i \in Points : call.bases[i] \in Int
  BY CallFacts
<1>1. IsFiniteSet(Buckets) /\ (\A v \in Buckets : v \in Nat) /\ (\A i \in Points : g(i) \in Buckets)
  BY BucketFacts
<1>2. \A v \in Buckets, i \in Points :
        /\ T[v][i] = IF g(i) = v THEN v * call.bases[i] ELSE 0
        /\ T[v][i] \in Int
  <2> SUFFICES ASSUME NEW v \in Buckets, NEW i \in Points
               PROVE  /\ T[v][i] = IF g(i) = v THEN v * call.bases[i] ELSE 0
                      /\ T[v][i] \in Int
    OBVIOUS
  <2>1. T[v][i] = IF g(i) = v THEN v * call.bases[i] ELSE 0
    BY DEF Table, BucketRow, Having
  <2>2. v * call.bases[i] \in Int
    BY <1>0, <1>1
  <2> QED  BY <2>1, <2>2
<1>3. Sum(rows, Buckets) = Sum(cols, Points)
  <2>1. /\ \A v \in Buckets : rows[v] = Sum(T[v], Points)
        /\ \A i \in Points : cols[i] = Sum(ColumnOf(T, Buckets, i), Buckets)
    OBVIOUS
  <2> HIDE DEF rows, cols, T, g
  <2> QED  BY <1>0, <1>1, <1>2, <2>1, SumSwap
<1>4. ASSUME NEW i \in Points PROVE cols[i] = ChunkTerms(c)[i]
  <2> DEFINE f == ColumnOf(T, Buckets, i)
  <2>1. /\ \A v \in Buckets : f[v] = IF g(i) = v THEN v * call.bases[i] ELSE 0
        /\ cols[i] = Sum(f, Buckets)
    BY <1>2 DEF ColumnOf
  <2>2. g(i) \in Buckets /\ g(i) * call.bases[i] \in Int
    BY <1>0, <1>1
  <2>3. ChunkTerms(c)[i] = g(i) * call.bases[i]
    BY DEF ChunkTerms
  <2> HIDE DEF f, g, cols
  <2>4. f[g(i)] = g(i) * call.bases[i] /\ \A v \in Buckets : v # g(i) => f[v] = 0
    BY <2>1, <2>2
  <2>5. Sum(f, Buckets) = f[g(i)]
    BY <1>1, <2>2, <2>4, SumSingle
  <2> QED  BY <2>1, <2>3, <2>4, <2>5
<1>5. ASSUME NEW v \in Buckets PROVE rows[v] = v * Sum(call.bases, Having(Points, v, c))
  <2> DEFINE U == Having(Points, v, c)
             f == call.bases
             k == [i \in U |-> v * f[i]]
  <2>1. U \in SUBSET Points /\ IsFiniteSet(U)
    BY <1>0, FS_Subset DEF Having
  <2>2. \A i \in U : f[i] \in Int
    BY <1>0, <2>1
  <2>3. rows[v] = Sum(T[v], Points) /\ T[v] = Filtered(k, U, Points)
    BY DEF Table, BucketRow, Filtered
  <2>4. v \in Int
    BY <1>1
  <2> HIDE DEF U, f
  <2>5. \A i \in U : k[i] = v * f[i] /\ v * f[i] \in Int
    <3>1. \A x \in Int : v * x \in Int
      BY <2>4
    <3> QED  BY <2>2, <3>1
  <2>6. Sum(k, U) = v * Sum(f, U)
    BY <2>1, <2>2, <2>4, SumTimes
  <2> HIDE DEF k, rows, T
  <2>7. Sum(Filtered(k, U, Points), Points) = Sum(k, U)
    BY <1>0, <2>1, <2>5, SumFiltered
  <2> QED  BY <2>3, <2>6, <2>7 DEF U, f
<1>6. ASSUME NEW v \in Buckets
      PROVE  /\ WeightedTerms(B)[v] \in Int /\ rows[v] \in Int
             /\ Cong(WeightedTerms(B)[v], rows[v])
  <2> DEFINE x == Sum(call.bases, Having(Points, v, c))
             y == B[v]
  <2>1. x \in Int
    <3>1. Having(Points, v, c) \in SUBSET Points
      BY DEF Having
    <3> QED  BY <1>0, <3>1, FS_Subset, SumType
  <2>2. v \in Int /\ y \in Int /\ WeightedTerms(B)[v] = v * y /\ rows[v] = v * x
    BY <1>1, <1>5 DEF WeightedTerms
  <2>3. v = 0 \/ Cong(y, x)
    OBVIOUS
  <2> HIDE DEF x, y, rows
  <2>4. v * y \in Int /\ v * x \in Int
    BY <2>1, <2>2
  <2>5. CASE v = 0
    <3>1. v * y = 0 /\ v * x = 0
      BY <2>1, <2>2, <2>5
    <3> QED  BY <2>2, <3>1 DEF Cong
  <2>6. CASE Cong(y, x)
    BY <2>1, <2>2, <2>4, <2>6, CongTimes
  <2> QED  BY <2>3, <2>5, <2>6
<1> HIDE DEF rows, cols
<1>7. Cong(Sum(WeightedTerms(B), Buckets), Sum(rows, Buckets))
  BY <1>1, <1>6, SumCong
<1>8. Sum(cols, Points) = Sum(ChunkTerms(c), Points)
  BY <1>0, <1>4, SumEqual
<1> QED  BY <1>3, <1>7, <1>8 DEF Weighted, ChunkSum

\* C is B with bucket h folded onto bucket i.
FoldedOnto(B, C, i, h) ==
  /\ B \in [Buckets -> Field] /\ C \in [Buckets -> Field]
  /\ i \in Buckets /\ h \in Buckets /\ i # h
  /\ C[i] = Add(B[i], B[h]) /\ C[h] = 0
  /\ \A v \in Buckets : v # i /\ v # h => C[v] = B[v]

\* What a fold takes from the buckets' worth.
LEMMA WeightedFold ==
  ASSUME call \in Calls, NEW B, NEW C, NEW i, NEW h, FoldedOnto(B, C, i, h)
  PROVE  /\ Weighted(B) \in Int /\ Weighted(C) \in Int
         /\ Cong(Weighted(C), Weighted(B) - ((h - i) * B[h]))
<1> DEFINE f == WeightedTerms(B)
           g == [f EXCEPT ![i] = i * C[i]]
           k == WeightedTerms(C)
           x == B[i]
           y == B[h]
           z == C[i]
<1> USE DEF FoldedOnto
<1>0. IsFiniteSet(Buckets) /\ \A v \in Buckets : v \in Nat
  BY BucketFacts
<1>1. \A v \in Buckets : B[v] \in Int /\ C[v] \in Int
  BY FieldResidue
<1>2. /\ \A v \in Buckets : f[v] = v * B[v] /\ k[v] = v * C[v]
      /\ \A v \in Buckets : g[v] = IF v = i THEN i * C[i] ELSE f[v]
  BY DEF WeightedTerms
<1> HIDE DEF f, g, k
<1>3. \A v \in Buckets : f[v] \in Int /\ g[v] \in Int /\ k[v] \in Int
  <2>1. \A u, w \in Int : u * w \in Int
    OBVIOUS
  <2> QED  BY <1>0, <1>1, <1>2, <2>1
<1>4. Sum(g, Buckets) = (Sum(f, Buckets) - f[i]) + g[i]
  <2>1. \A v \in Buckets : v # i => g[v] = f[v]
    BY <1>2
  <2>2. \A v \in Buckets : f[v] \in Int /\ g[v] \in Int
    BY <1>3
  <2>3. IsFiniteSet(Buckets)
    BY <1>0
  <2> HIDE <1>0, <1>2, <1>3
  <2> QED  BY <2>1, <2>2, <2>3, SumUpdate
<1>5. \A v \in Buckets : v # h => k[v] = g[v]
  BY <1>2
<1>6. Sum(k, Buckets) = (Sum(g, Buckets) - g[h]) + k[h]
  BY <1>0, <1>3, <1>5, SumUpdate, SMTT(30)
<1>7. /\ f[i] = i * x /\ g[i] = i * z /\ g[h] = h * y /\ k[h] = h * 0
      /\ x \in Int /\ y \in Int /\ z \in Int /\ i \in Int /\ h \in Int
      /\ z = Add(x, y)
  BY <1>0, <1>1, <1>2
<1> HIDE DEF x, y, z
<1>8. Sum(f, Buckets) \in Int /\ Sum(k, Buckets) \in Int
  BY <1>0, <1>3, SumType
<1> DEFINE s == Sum(f, Buckets)
           p == i * x
           q == i * z
           m == h * y
           u == i * (x + y)
<1>9. p \in Int /\ q \in Int /\ m \in Int /\ u \in Int /\ h * 0 = 0
  BY <1>7
<1>10. Sum(k, Buckets) = (((s - p) + q) - m)
  <2>1. Sum(k, Buckets) = ((((s - p) + q)) - m) + 0
    BY <1>4, <1>6, <1>7, <1>9
  <2> HIDE DEF s, p, q, m
  <2> QED  BY <2>1, <1>8, <1>9 DEF s
<1>11. Cong(q, u)
  <2>1. Cong(z, x + y)
    BY <1>7, CongResidue DEF Add
  <2>2. x + y \in Int
    BY <1>7
  <2> DEFINE t == x + y
  <2>3. Cong(z, t) /\ t \in Int
    BY <2>1, <2>2
  <2> HIDE DEF t
  <2>4. Cong(i * z, i * t)
    BY <1>7, <2>3, CongTimes
  <2> QED  BY <2>4 DEF t
<1>12. u = p + i * y /\ (h - i) * y = m - i * y /\ i * y \in Int
  BY <1>7
<1> DEFINE w == i * y
<1>13. (s - ((h - i) * y)) = ((s - p) - m) + u
  <2>1. u = p + w /\ (h - i) * y = m - w /\ w \in Int
    BY <1>12
  <2> HIDE DEF s, p, m, u, w
  <2> QED  BY <1>8, <1>9, <2>1 DEF s
<1> HIDE DEF s, p, q, m, u
<1>14. Cong(((s - p) - m) + q, ((s - p) - m) + u)
  <2>1. (s - p) - m \in Int /\ Cong((s - p) - m, (s - p) - m)
    BY <1>8, <1>9 DEF s, Cong
  <2> QED  BY <1>9, <1>11, <2>1, CongSums
<1>15. ((s - p) + q) - m = ((s - p) - m) + q
  BY <1>8, <1>9 DEF s
<1>16. Cong(Sum(k, Buckets), s - ((h - i) * y))
  BY <1>10, <1>13, <1>14, <1>15
<1> QED  BY <1>8, <1>16 DEF Weighted, f, k, s, y

\* When only buckets 0 and 1 are left, bucket 1 is the sum.
LEMMA WeightedOne ==
  ASSUME call \in Calls, NEW B \in [Buckets -> Field], \A v \in Buckets : v >= 2 => B[v] = 0
  PROVE  Weighted(B) = B[1]
<1> DEFINE f == WeightedTerms(B)
<1>0. IsFiniteSet(Buckets) /\ 1 \in Buckets /\ \A v \in Buckets : v \in Nat
  BY BucketFacts
<1>1. \A v \in Buckets : f[v] = v * B[v] /\ B[v] \in Int
  BY FieldResidue DEF WeightedTerms
<1> HIDE DEF f
<1>2. f[1] = B[1] /\ f[1] \in Int
  BY <1>0, <1>1
<1>3. ASSUME NEW v \in Buckets, v # 1 PROVE f[v] = 0
  <2>1. v = 0 \/ v >= 2
    BY <1>0, <1>3
  <2>2. CASE v = 0
    BY <1>1, <2>2
  <2>3. CASE v >= 2
    BY <1>0, <1>1, <2>3
  <2> QED  BY <2>1, <2>2, <2>3
<1>4. Sum(f, Buckets) = f[1]
  BY <1>0, <1>2, <1>3, SumSingle
<1> QED  BY <1>2, <1>4 DEF Weighted, f

--------------------------------------------------------------------------------
\* The inductive invariant.

\* What a digit of the recoded scalar stands for.
DigitValue(d) == CASE d = 1 -> 1 [] d = 2 -> -1 [] OTHER -> 0

\* The digits ds are followed by a number of which the carried bits are the lowest.
Carried(sc, p, s) ==
  (IF s.last THEN 1 ELSE 0) + (IF s.carry THEN 2 ELSE 0) + (2 * (sc \div 2 ^ (p + 1)))

\* left[i] is what the digits from i + 1 on stand for.
IsLeft(left, sc, ds, s) ==
  /\ left \in [0 .. Len(ds) -> Nat]
  /\ left[0] = sc
  /\ \A i \in 1 .. Len(ds) : left[i - 1] = (2 * left[i]) + DigitValue(ds[i])
  /\ \A i \in 0 .. Len(ds) : i > ScalarBits => left[i] = 0
  /\ left[Len(ds)] = Carried(sc, Len(ds), s)

\* The digits ds of a scalar, and what is carried: at most one more than its next bit.
Recoded(sc, ds, s) ==
  /\ ds \in Seq({0, 1, 2})
  /\ s.last \in BOOLEAN /\ s.carry \in BOOLEAN
  /\ \E left : IsLeft(left, sc, ds, s)
  /\ s.carry => ~ s.last /\ Bit(sc, Len(ds))
  /\ Bit(sc, Len(ds)) => s.last \/ s.carry
  /\ Len(ds) > ScalarBits => ~ s.last /\ ~ s.carry
  /\ \A i \in 1 .. Len(ds) - 1 : ds[i] = 0 \/ ds[i + 1] = 0
  /\ ds # <<>> => ds[Len(ds)] = 0 \/ ~ s.last

Recoding ==
  /\ phase = "start" => NafIdle /\ chunk = 0
  /\ phase = "naf" => /\ n = 1 /\ byte \in 0 .. ScalarBytes + 2
                      /\ Recoded(call.scalars[1], naf, state)

AccTypes == accs \in [ThreadIds -> [Buckets -> Field]]

\* The sum over the threads of the buckets of a value.
BucketOf(v) == [t \in ThreadIds |-> accs[t][v]]

Processing ==
  phase = "process" =>
    /\ todo \subseteq Points /\ AccTypes
    /\ chunk = Len(results)
    /\ \A v \in Buckets \ {0} :
         Cong(Sum(BucketOf(v), ThreadIds), Sum(call.bases, Having(Points \ todo, v, chunk)))

\* What reduce has set aside, what the threads have folded and what is in the buckets.
Worth == (upper + (2 ^ (bits - 1) * Sum(sall, ThreadIds))) + Weighted(accs[0])

Reducing ==
  phase = "reduce" =>
    /\ AccTypes /\ sall \in [ThreadIds -> Field]
    /\ chunk = Len(results)
    /\ bits \in 1 .. bitsPerChunk /\ todo \subseteq 0 .. 2 ^ (bits - 1) - 1
    /\ \A t \in ThreadIds \ {0}, v \in Buckets : accs[t][v] = 0
    /\ \A v \in Buckets : v >= 2 ^ bits => accs[0][v] = 0
    /\ bits > 1 => \A v \in Buckets :
                     v >= 2 ^ (bits - 1) /\ v - 2 ^ (bits - 1) \notin todo => accs[0][v] = 0
    /\ bits = 1 => \A t \in ThreadIds : sall[t] = 0
    /\ Cong(Worth, ChunkSum(chunk))

\* The results of the chunks that are done, and the result of the call.
Collected ==
  /\ results \in Seq(Field) /\ Len(results) <= nChunks
  /\ phase \in {"start", "naf"} => results = <<>>
  /\ phase \in {"process", "reduce"} => Len(results) < nChunks
  /\ phase = "horner" => Len(results) = nChunks
  /\ \A k \in 1 .. Len(results) : Cong(results[k], ChunkSum(k - 1))
  /\ phase = "done" /\ ~ onGpu => Cong(r, Sum(AllTerms, Points))

MultiexpInv == TypeOK /\ Recoding /\ Processing /\ Reducing /\ Collected

\* What only depends on the call does not change while it runs.
LEMMA CallKept ==
  ASSUME call' = call
  PROVE  /\ n' = n /\ Points' = Points /\ bitsPerChunk' = bitsPerChunk /\ nChunks' = nChunks
         /\ Buckets' = Buckets /\ AllTerms' = AllTerms
         /\ \A c : ChunkSum(c)' = ChunkSum(c)
         /\ \A sc, c : getChunk(sc, c)' = getChunk(sc, c)
         /\ \A B : Weighted(B)' = Weighted(B)
         /\ \A W, v, c : Having(W, v, c)' = Having(W, v, c)
<1>1. n' = n /\ Points' = Points
  BY DEF n, Points
<1>2. bitsPerChunk' = bitsPerChunk
  BY <1>1 DEF bitsPerChunk
<1>3. nChunks' = nChunks /\ Buckets' = Buckets
  BY <1>2 DEF nChunks, Buckets
<1>4. \A sc, c : getChunk(sc, c)' = getChunk(sc, c)
  BY <1>2, Zenon DEF getChunk
<1>5. AllTerms' = AllTerms
  BY <1>1 DEF AllTerms
<1>6. \A c : ChunkSum(c)' = ChunkSum(c)
  BY <1>1, <1>2, Zenon DEF ChunkSum, ChunkTerms, getChunk
<1>7. \A B : Weighted(B)' = Weighted(B)
  BY <1>3, Zenon DEF Weighted, WeightedTerms
<1>8. \A W, v, c : Having(W, v, c)' = Having(W, v, c)
  BY <1>2, Zenon DEF Having, getChunk
<1> QED  BY <1>1, <1>2, <1>3, <1>4, <1>5, <1>6, <1>7, <1>8

\* The chunk that is processed or reduced.
LEMMA ChunkInRange ==
  ASSUME MultiexpInv, phase \in {"process", "reduce"}
  PROVE  /\ call \in Calls /\ n \in Nat /\ chunk \in 0 .. nChunks - 1 /\ nChunks \in Nat
         /\ chunk = Len(results) /\ Len(results) \in Nat
<1>1. call \in Calls /\ results \in Seq(Field) /\ chunk = Len(results) /\ Len(results) < nChunks
  BY DEF MultiexpInv, TypeOK, Processing, Reducing, Collected
<1>2. n \in Nat
  BY <1>1, CallFacts
<1>3. nChunks \in Nat \ {0}
  BY <1>2, ChunkBits
<1> QED  BY <1>1, <1>2, <1>3

\* TypeOK' from the types of what a step sets.
LEMMA TypesStepNaf ==
  ASSUME TypeOK, call' = call, NafTypeOK',
         phase' \in {"start", "naf", "process", "reduce", "horner", "done"},
         chunk' \in 0 .. nChunks - 1, bits' \in 0 .. bitsPerChunk,
         todo' \subseteq Points \cup Buckets, accs' = <<>> \/ AccTypes',
         upper' \in Field, r' \in Field, onGpu' \in BOOLEAN,
         results' \in Seq(Field), Len(results') <= nChunks
  PROVE  TypeOK'
<1>1. /\ nChunks' = nChunks /\ bitsPerChunk' = bitsPerChunk
      /\ Points' = Points /\ Buckets' = Buckets
  BY CallKept
<1>2. call' \in Calls
  BY DEF TypeOK
<1> QED  BY <1>1, <1>2, Zenon DEF TypeOK, AccTypes

LEMMA TypesStep ==
  ASSUME TypeOK, call' = call, UNCHANGED nafVars,
         phase' \in {"start", "naf", "process", "reduce", "horner", "done"},
         chunk' \in 0 .. nChunks - 1, bits' \in 0 .. bitsPerChunk,
         todo' \subseteq Points \cup Buckets, accs' = <<>> \/ AccTypes',
         upper' \in Field, r' \in Field, onGpu' \in BOOLEAN,
         results' \in Seq(Field), Len(results') <= nChunks
  PROVE  TypeOK'
<1>1. NafTypeOK'
  BY DEF TypeOK, NafTypeOK, nafVars
<1> QED  BY <1>1, TypesStepNaf

\* The results stay what they are while a chunk is worked on.
LEMMA CollectedStays ==
  ASSUME Collected, call' = call, results' = results,
         phase \in {"process", "reduce"}, phase' \in {"process", "reduce"}
  PROVE  Collected'
<1>1. nChunks' = nChunks /\ \A c : ChunkSum(c)' = ChunkSum(c)
  BY CallKept
<1>2. \A k \in 1 .. Len(results') : Cong(results'[k], ChunkSum(k - 1)')
  BY <1>1 DEF Collected
<1> QED  BY <1>1, <1>2 DEF Collected

\* A point goes into the bucket of its value, on whatever thread.
LEMMA ProcessKeeps ==
  ASSUME MultiexpInv, NEW i \in todo, NEW t \in ThreadIds, Process(i, t)
  PROVE  MultiexpInv'
<1> DEFINE g == getChunk(call.scalars[i], chunk)
           x == call.bases[i]
<1>1. /\ phase = "process" /\ phase' = "process" /\ call' = call /\ todo' = todo \ {i}
      /\ results' = results /\ chunk' = chunk
      /\ UNCHANGED <<byte, state, naf, bits, sall, upper, r, onGpu>>
  BY DEF Process, nafVars
<1>2. accs' = IF x = 0 \/ g = 0 THEN accs ELSE [accs EXCEPT ![t][g] = Add(@, x)]
  BY DEF Process
<1>3. /\ call \in Calls /\ chunk \in 0 .. nChunks - 1
  BY <1>1, ChunkInRange
<1>4. todo \subseteq Points /\ AccTypes /\ TypeOK
  BY <1>1 DEF MultiexpInv, Processing
<1>5. g \in Buckets /\ x \in Field /\ x \in Int /\ i \in Points
  BY <1>3, <1>4, CallFacts, BucketFacts
<1>6. IsFiniteSet(Points) /\ IsFiniteSet(ThreadIds) /\ \A j \in Points : call.bases[j] \in Int
  BY <1>3, CallFacts, BucketFacts
<1>7. AccTypes'
  <2>1. \A y \in Field : Add(y, x) \in Field
    <3> SUFFICES ASSUME NEW y \in Field PROVE Add(y, x) \in Field
      OBVIOUS
    <3>1. y \in Int /\ y + x \in Int
      BY <1>5, FieldResidue
    <3> QED  BY <3>1, ResidueType DEF Add
  <2> HIDE DEF g, x
  <2>2. accs \in [ThreadIds -> [Buckets -> Field]]
    BY <1>4 DEF AccTypes
  <2>3. accs' \in [ThreadIds -> [Buckets -> Field]]
    BY <1>2, <1>5, <2>1, <2>2
  <2>4. Buckets' = Buckets
    BY <1>1, CallKept
  <2> QED  BY <2>3, <2>4 DEF AccTypes, ThreadIds
<1>8. ASSUME NEW v \in Buckets \ {0}
      PROVE  Cong(Sum([s \in ThreadIds |-> accs'[s][v]], ThreadIds),
                  Sum(call.bases, Having(Points \ todo', v, chunk)))
  <2> DEFINE f == BucketOf(v)
             h == [s \in ThreadIds |-> accs'[s][v]]
             H == Having(Points \ todo, v, chunk)
             H2 == Having(Points \ todo', v, chunk)
             b == call.bases
  <2>1. Cong(Sum(f, ThreadIds), Sum(b, H))
    BY <1>1 DEF MultiexpInv, Processing
  <2>2. /\ accs \in [ThreadIds -> [Buckets -> Field]]
        /\ accs' \in [ThreadIds -> [Buckets -> Field]]
    BY <1>1, <1>4, <1>7, CallKept DEF AccTypes
  <2>3. \A s \in ThreadIds : /\ f[s] = accs[s][v] /\ h[s] = accs'[s][v]
                             /\ f[s] \in Int /\ h[s] \in Int
    <3> SUFFICES ASSUME NEW s \in ThreadIds
                 PROVE  accs[s][v] \in Int /\ accs'[s][v] \in Int
      BY DEF BucketOf
    <3>1. accs[s][v] \in Field /\ accs'[s][v] \in Field
      BY <2>2
    <3> QED  BY <3>1, FieldResidue
  <2>4. H2 = IF g = v THEN H \cup {i} ELSE H
    BY <1>1, <1>4, <1>5 DEF Having
  <2>5. i \notin H /\ H \in SUBSET Points
    BY DEF Having
  <2>6. IsFiniteSet(H) /\ \A j \in H : b[j] \in Int
    BY <1>6, <2>5, FS_Subset
  <2>7. b[i] = x
    OBVIOUS
  <2> HIDE DEF f, h, H, H2, g, x, b
  <2>8. CASE g # v
    <3>1. \A s \in ThreadIds : h[s] = f[s]
      BY <1>2, <1>5, <2>2, <2>3, <2>8
    <3>2. Sum(h, ThreadIds) = Sum(f, ThreadIds)
      BY <1>6, <3>1, SumEqual
    <3> QED  BY <2>1, <2>4, <2>8, <3>2 DEF h, H2, b
  <2>9. CASE g = v
    <3>1. g # 0
      BY <2>9
    <3>2. \A s \in ThreadIds : s # t => h[s] = f[s]
      BY <1>2, <1>5, <2>2, <2>3
    <3>3. h[t] = (IF x = 0 THEN f[t] ELSE Add(f[t], x)) /\ f[t] \in Int /\ h[t] \in Int
      BY <1>2, <1>5, <2>2, <2>3, <2>9, <3>1
    <3>4. Cong(h[t], f[t] + x)
      <4>1. CASE x = 0
        BY <3>3, <4>1 DEF Cong
      <4>2. CASE x # 0
        <5>1. f[t] + x \in Int
          BY <1>5, <3>3
        <5> QED  BY <3>3, <4>2, <5>1, CongResidue DEF Add
      <4> QED  BY <4>1, <4>2
    <3>5. Sum(h, ThreadIds) = (Sum(f, ThreadIds) - f[t]) + h[t]
      <4>1. (\A s \in ThreadIds : f[s] \in Int /\ h[s] \in Int) /\ IsFiniteSet(ThreadIds)
        BY <1>6, <2>3
      <4> HIDE <1>6, <2>3
      <4> QED  BY <3>2, <4>1, SumUpdate
    <3>6. Sum(f, ThreadIds) \in Int /\ Sum(b, H) \in Int
      BY <1>6, <2>3, <2>6, SumType
    <3>7. Sum(b, H \cup {i}) = Sum(b, H) + x
      <4>1. \A j \in H \cup {i} : b[j] \in Int
        BY <1>5, <2>6, <2>7
      <4>2. Sum(b, H \cup {i}) = Sum(b, H) + b[i]
        BY <2>5, <2>6, <4>1, SumAdd
      <4> QED  BY <2>7, <4>2
    <3> DEFINE S == Sum(f, ThreadIds)
               P == Sum(b, H)
               y == f[t]
               z == h[t]
    <3>8. Cong(z - y, (y + x) - y)
      <4>1. Cong(y, y) /\ y \in Int /\ z \in Int /\ y + x \in Int /\ Cong(z, y + x)
        BY <1>5, <3>3, <3>4 DEF Cong
      <4> HIDE DEF y, z
      <4> QED  BY <4>1, CongOps
    <3>9. (y + x) - y = x /\ z - y \in Int
      BY <1>5, <3>3
    <3>10. Cong(S + (z - y), P + x)
      BY <1>5, <2>1, <3>6, <3>8, <3>9, CongOps
    <3>11. S + (z - y) = (S - y) + z
      BY <3>3, <3>6
    <3>12. Cong(Sum(h, ThreadIds), Sum(b, H \cup {i}))
      BY <3>5, <3>7, <3>10, <3>11
    <3> QED  BY <2>4, <2>9, <3>12 DEF h, H2, b
  <2> QED  BY <2>8, <2>9
<1>9. Processing'
  <2>1. ThreadIds' = ThreadIds
    BY DEF ThreadIds
  <2>2. todo' \subseteq Points' /\ chunk' = Len(results') /\ Buckets' = Buckets /\ Points' = Points
    BY <1>1, <1>4, CallKept DEF MultiexpInv, Processing
  <2>3. \A v : BucketOf(v)' = [s \in ThreadIds |-> accs'[s][v]]
    BY DEF BucketOf, ThreadIds
  <2>4. \A v : Having(Points \ todo, v, chunk)' = Having(Points \ todo', v, chunk)
    BY <1>1, <2>2, CallKept, Zenon DEF Having, getChunk
  <2> QED  BY <1>1, <1>7, <1>8, <2>1, <2>2, <2>3, <2>4 DEF Processing
<1>10. TypeOK'
  <2>1. todo' \subseteq Points \cup Buckets
    BY <1>1, <1>4
  <2> QED  BY <1>1, <1>3, <1>4, <1>7, <2>1, TypesStep DEF nafVars, TypeOK
<1>11. Collected'
  BY <1>1, CollectedStays DEF MultiexpInv
<1>12. Recoding' /\ Reducing'
  BY <1>1 DEF Recoding, Reducing
<1> QED  BY <1>9, <1>10, <1>11, <1>12 DEF MultiexpInv

\* The buckets of the threads are packed into those of thread 0.
LEMMA PackKeeps == ASSUME MultiexpInv, Pack PROVE MultiexpInv'
<1> DEFINE B == [v \in Buckets |-> Total([t \in ThreadIds |-> accs[t][v]])]
<1>1. /\ phase = "process" /\ phase' = "reduce" /\ todo = {} /\ call' = call
      /\ results' = results /\ chunk' = chunk
      /\ bits' = bitsPerChunk /\ todo' = 0 .. 2 ^ (bitsPerChunk - 1) - 1
      /\ sall' = [t \in ThreadIds |-> 0] /\ upper' = 0
      /\ UNCHANGED <<nafVars, r, onGpu>>
  BY DEF Pack
<1>2. accs' = [Zeros EXCEPT ![0] = B]
  BY DEF Pack
<1>3. /\ call \in Calls /\ chunk \in 0 .. nChunks - 1 /\ n \in Nat /\ chunk = Len(results)
  BY <1>1, ChunkInRange
<1>4. AccTypes /\ TypeOK /\ Collected
  BY <1>1 DEF MultiexpInv, Processing
<1>5. bitsPerChunk \in Nat \ {0}
  BY <1>3, ChunkBits
<1>6. 0 \in ThreadIds /\ 0 \in Field /\ IsFiniteSet(ThreadIds) /\ IsFiniteSet(Buckets)
  BY <1>3, BucketFacts, FieldAssumption DEF Field
<1>7. ASSUME NEW v \in Buckets
      PROVE  /\ B[v] \in Field /\ B[v] \in Int
             /\ v # 0 => Cong(B[v], Sum(call.bases, Having(Points, v, chunk)))
  <2> DEFINE f == BucketOf(v)
  <2>1. f = [t \in ThreadIds |-> accs[t][v]] /\ B[v] = Total(f)
    BY DEF BucketOf
  <2>2. DOMAIN f = ThreadIds /\ \A t \in ThreadIds : f[t] \in Int
    <3>1. \A t \in ThreadIds : accs[t][v] \in Field
      BY <1>4 DEF AccTypes
    <3> QED  BY <2>1, <3>1, FieldResidue
  <2> HIDE DEF f, B
  <2>3. Total(f) \in Field /\ Total(f) \in Int /\ Cong(Total(f), Sum(f, ThreadIds))
    BY <1>6, <2>2, TotalIs
  <2>4. v # 0 => Cong(Sum(f, ThreadIds), Sum(call.bases, Having(Points \ todo, v, chunk)))
    BY <1>1 DEF MultiexpInv, Processing, f
  <2>5. Points \ todo = Points
    BY <1>1
  <2> QED  BY <2>1, <2>3, <2>4, <2>5 DEF Cong
<1>8. accs' \in [ThreadIds -> [Buckets -> Field]] /\ accs'[0] = B
      /\ \A t \in ThreadIds \ {0}, v \in Buckets : accs'[t][v] = 0
  <2>1. B \in [Buckets -> Field]
    BY <1>7
  <2> HIDE DEF B
  <2>2. Zeros \in [ThreadIds -> [Buckets -> Field]]
    BY <1>6 DEF Zeros
  <2>3. \A t \in ThreadIds \ {0}, v \in Buckets : Zeros[t][v] = 0
    BY DEF Zeros
  <2> QED  BY <1>2, <1>6, <2>1, <2>2, <2>3
<1>9. Cong(Weighted(B), ChunkSum(chunk))
  <2>1. \A v \in Buckets : B[v] \in Int
    BY <1>7
  <2>2. \A v \in Buckets \ {0} : Cong(B[v], Sum(call.bases, Having(Points, v, chunk)))
    BY <1>7
  <2> HIDE DEF B
  <2> QED  BY <1>3, <2>1, <2>2, WeightedIsChunkSum
<1>10. Weighted(B) \in Int
  <2>1. \A v \in Buckets : v \in Int
    BY <1>3, BucketFacts
  <2>2. \A v \in Buckets : B[v] \in Int
    BY <1>7
  <2> HIDE DEF B
  <2>3. \A v \in Buckets : WeightedTerms(B)[v] \in Int
    BY <2>1, <2>2 DEF WeightedTerms
  <2> QED  BY <1>6, <2>3, SumType DEF Weighted
<1> HIDE DEF B
<1>11. /\ Buckets' = Buckets /\ nChunks' = nChunks /\ bitsPerChunk' = bitsPerChunk
       /\ Points' = Points /\ \A c : ChunkSum(c)' = ChunkSum(c)
       /\ \A C : Weighted(C)' = Weighted(C)
  BY <1>1, CallKept
<1>12. Worth' = Weighted(B)
  <2>1. \A t \in ThreadIds : sall'[t] = 0
    BY <1>1
  <2>2. Sum(sall', ThreadIds) = 0
    BY <1>6, <2>1, SumZero
  <2>3. Worth' = (upper' + (2 ^ (bits' - 1) * Sum(sall', ThreadIds))) + Weighted(accs'[0])
    BY <1>11, Zenon DEF Worth, ThreadIds, Weighted, WeightedTerms
  <2>4. 2 ^ (bits' - 1) \in Int
    BY <1>1, <1>5, TwoExp
  <2>5. 2 ^ (bits' - 1) * 0 = 0
    BY <2>4
  <2> QED  BY <1>1, <1>8, <1>10, <2>2, <2>3, <2>5
<1>13. Reducing'
  <2>1. AccTypes' /\ sall' \in [ThreadIds' -> Field]
    BY <1>1, <1>6, <1>8, <1>11 DEF AccTypes, ThreadIds
  <2>2. bits' \in 1 .. bitsPerChunk'
    BY <1>1, <1>5, <1>11
  <2>3. \A v \in Buckets : /\ ~ (v >= 2 ^ bits')
                           /\ v >= 2 ^ (bits' - 1) => v - 2 ^ (bits' - 1) \in todo'
    <3> SUFFICES ASSUME NEW v \in Buckets
                 PROVE  /\ ~ (v >= 2 ^ bits')
                        /\ v >= 2 ^ (bits' - 1) => v - 2 ^ (bits' - 1) \in todo'
      OBVIOUS
    <3>1. v \in Nat /\ v < 2 ^ bitsPerChunk
      BY <1>3, BucketFacts
    <3> DEFINE m == bitsPerChunk - 1
               M == 2 ^ m
    <3>2. m \in Nat /\ bitsPerChunk = m + 1
      BY <1>5
    <3>3. 2 ^ (m + 1) = 2 * M /\ M \in Nat
      BY <3>2, TwoExp
    <3>4. 2 ^ bits' = 2 * M /\ 2 ^ (bits' - 1) = M /\ todo' = 0 .. M - 1 /\ v < 2 * M
      BY <1>1, <3>1, <3>2, <3>3
    <3> HIDE DEF m, M
    <3> QED  BY <3>1, <3>3, <3>4
  <2>4. chunk' = Len(results') /\ todo' \subseteq 0 .. 2 ^ (bits' - 1) - 1
    BY <1>1, <1>3
  <2>5. bits' = 1 => \A t \in ThreadIds' : sall'[t] = 0
    BY <1>1 DEF ThreadIds
  <2>6. Cong(Worth', ChunkSum(chunk'))
    BY <1>1, <1>9, <1>12
  <2>7. ChunkSum(chunk)' = ChunkSum(chunk')
    BY <1>1, <1>11, Zenon DEF ChunkSum, ChunkTerms, getChunk
  <2>8. ThreadIds' = ThreadIds
    BY DEF ThreadIds
  <2>9. /\ \A t \in ThreadIds' \ {0}, v \in Buckets' : accs'[t][v] = 0
        /\ \A v \in Buckets' : v >= 2 ^ bits' => accs'[0][v] = 0
        /\ bits' > 1 => \A v \in Buckets' :
                     v >= 2 ^ (bits' - 1) /\ v - 2 ^ (bits' - 1) \notin todo' => accs'[0][v] = 0
    BY <1>8, <1>11, <2>3, <2>8
  <2> QED  BY <2>1, <2>2, <2>4, <2>5, <2>6, <2>7, <2>9, Zenon DEF Reducing
<1>14. TypeOK'
  <2>1. todo' \subseteq Buckets
    <3> DEFINE m == bitsPerChunk - 1
               M == 2 ^ m
    <3>1. m \in Nat /\ bitsPerChunk = m + 1
      BY <1>5
    <3>2. 2 ^ (m + 1) = 2 * M /\ M \in Nat
      BY <3>1, TwoExp
    <3>3. Buckets = 0 .. 2 * M - 1 /\ todo' = 0 .. M - 1
      BY <1>1, <3>1, <3>2 DEF Buckets
    <3> HIDE DEF m, M
    <3> QED  BY <3>2, <3>3
  <2>2. todo' \subseteq Points \cup Buckets
    BY <2>1
  <2>3. bits' \in 0 .. bitsPerChunk
    BY <1>1, <1>5
  <2>4. AccTypes'
    BY <1>8, <1>11 DEF AccTypes, ThreadIds
  <2> QED  BY <1>1, <1>3, <1>4, <1>6, <2>2, <2>3, <2>4, TypesStep DEF TypeOK
<1>15. Collected'
  BY <1>1, CollectedStays DEF MultiexpInv
<1>16. Recoding' /\ Processing'
  BY <1>1 DEF Recoding, Processing
<1> QED  BY <1>13, <1>14, <1>15, <1>16 DEF MultiexpInv

\* What holds while a chunk is reduced.
LEMMA ReduceFacts ==
  ASSUME MultiexpInv, phase = "reduce"
  PROVE  /\ call \in Calls /\ chunk \in 0 .. nChunks - 1 /\ n \in Nat
         /\ bitsPerChunk \in Nat \ {0}
         /\ bits \in Nat \ {0} /\ bits <= bitsPerChunk
         /\ 2 ^ (bits - 1) \in Nat \ {0} /\ 2 ^ bits = 2 * 2 ^ (bits - 1)
         /\ 2 ^ bits <= 2 ^ bitsPerChunk
         /\ accs \in [ThreadIds -> [Buckets -> Field]] /\ sall \in [ThreadIds -> Field]
         /\ accs[0] \in [Buckets -> Field]
         /\ Weighted(accs[0]) \in Int /\ Sum(sall, ThreadIds) \in Int
         /\ upper \in Field /\ upper \in Int /\ TypeOK
<1>1. /\ accs \in [ThreadIds -> [Buckets -> Field]] /\ sall \in [ThreadIds -> Field]
      /\ bits \in 1 .. bitsPerChunk /\ TypeOK /\ upper \in Field
  BY DEF MultiexpInv, TypeOK, Reducing, AccTypes
<1>2. call \in Calls /\ n \in Nat /\ chunk \in 0 .. nChunks - 1
  BY ChunkInRange
<1>3. bitsPerChunk \in Nat \ {0}
  BY <1>2, ChunkBits
<1> DEFINE m == bits - 1
<1>4. bits \in Nat \ {0} /\ bits <= bitsPerChunk /\ m \in Nat /\ bits = m + 1
  BY <1>1, <1>3
<1>5. 2 ^ m \in Nat \ {0} /\ 2 ^ (m + 1) = 2 * 2 ^ m
  BY <1>4, TwoExp
<1>6. 2 ^ bits <= 2 ^ bitsPerChunk
  <2>1. bits = bitsPerChunk \/ bits < bitsPerChunk
    BY <1>3, <1>4
  <2>2. 2 ^ bits \in Nat /\ 2 ^ bitsPerChunk \in Nat
    BY <1>3, <1>4, TwoExp
  <2>3. CASE bits = bitsPerChunk
    BY <2>2, <2>3
  <2>4. CASE bits < bitsPerChunk
    BY <1>3, <1>4, <2>2, <2>4, TwoExpMonotonic
  <2> QED  BY <2>1, <2>3, <2>4
<1>7. IsFiniteSet(ThreadIds) /\ IsFiniteSet(Buckets) /\ 0 \in ThreadIds
      /\ \A v \in Buckets : v \in Int
  BY <1>2, BucketFacts
<1>8. Sum(sall, ThreadIds) \in Int
  <2>1. \A t \in ThreadIds : sall[t] \in Int
    BY <1>1, FieldResidue
  <2> QED  BY <1>7, <2>1, SumType
<1>9. accs[0] \in [Buckets -> Field]
  BY <1>1, <1>7
<1>10. Weighted(accs[0]) \in Int
  <2> DEFINE B == accs[0]
  <2>1. \A v \in Buckets : B[v] \in Int
    BY <1>9, FieldResidue
  <2> HIDE DEF B
  <2>2. \A v \in Buckets : WeightedTerms(B)[v] \in Int
    BY <1>7, <2>1 DEF WeightedTerms
  <2>3. Weighted(B) \in Int
    BY <1>7, <2>2, SumType DEF Weighted
  <2> QED  BY <2>3 DEF B
<1>11. upper \in Int
  BY <1>1, FieldResidue
<1> QED  BY <1>1, <1>2, <1>3, <1>4, <1>5, <1>6, <1>8, <1>9, <1>10, <1>11

\* A bucket of the upper half is folded onto one of the lower half.
LEMMA FoldKeeps ==
  ASSUME MultiexpInv, NEW i \in todo, NEW t \in ThreadIds, Fold(i, t)
  PROVE  MultiexpInv'
<1> DEFINE M == 2 ^ (bits - 1)
           h == M + i
           B == accs[0]
           C == accs'[0]
           x == B[i]
           y == B[h]
<1>1. /\ phase = "reduce" /\ phase' = "reduce" /\ bits > 1 /\ call' = call
      /\ results' = results /\ chunk' = chunk /\ bits' = bits /\ upper' = upper
      /\ todo' = todo \ {i}
      /\ UNCHANGED <<nafVars, r, onGpu>>
  BY DEF Fold
<1>2. /\ accs' = [accs EXCEPT ![0][i] = Add(@, y), ![0][h] = 0]
      /\ sall' = [sall EXCEPT ![t] = Add(@, y)]
  BY DEF Fold
<1>3. /\ call \in Calls /\ chunk \in 0 .. nChunks - 1 /\ bits \in Nat /\ TypeOK
      /\ bits <= bitsPerChunk
      /\ M \in Nat \ {0} /\ 2 ^ bits = 2 * M /\ 2 ^ bits <= 2 ^ bitsPerChunk
      /\ accs \in [ThreadIds -> [Buckets -> Field]] /\ sall \in [ThreadIds -> Field]
      /\ B \in [Buckets -> Field]
      /\ Weighted(B) \in Int /\ Sum(sall, ThreadIds) \in Int /\ upper \in Field /\ upper \in Int
  BY <1>1, ReduceFacts
<1>4. /\ todo \subseteq 0 .. M - 1 /\ chunk = Len(results)
      /\ \A s \in ThreadIds \ {0}, v \in Buckets : accs[s][v] = 0
      /\ \A v \in Buckets : v >= 2 ^ bits => B[v] = 0
      /\ \A v \in Buckets : v >= M /\ v - M \notin todo => B[v] = 0
      /\ Cong(Worth, ChunkSum(chunk))
  BY <1>1 DEF MultiexpInv, Reducing
<1>5. /\ IsFiniteSet(ThreadIds) /\ 0 \in ThreadIds
      /\ \A v \in Buckets : v \in Nat
      /\ \A v \in Nat : v < 2 ^ bitsPerChunk => v \in Buckets
      /\ 2 ^ bitsPerChunk \in Nat
  <2>1. bitsPerChunk \in Nat
    BY <1>1, ReduceFacts
  <2> QED  BY <1>3, <2>1, BucketFacts, TwoExp
<1> HIDE DEF M
<1>6. i \in Nat /\ i < M /\ h \in Nat /\ h >= M /\ h < 2 * M /\ h # i /\ h - M = i
  BY <1>3, <1>4
<1>7. i \in Buckets /\ h \in Buckets
  BY <1>3, <1>5, <1>6
<1>8. /\ x \in Field /\ y \in Field /\ x \in Int /\ y \in Int /\ Add(x, y) \in Field
      /\ 0 \in Field
  <2>1. x \in Field /\ y \in Field
    BY <1>3, <1>7
  <2>2. x \in Int /\ y \in Int
    BY <2>1, FieldResidue
  <2>3. x + y \in Int
    BY <2>2
  <2>4. Add(x, y) \in Field
    BY <2>3, ResidueType DEF Add
  <2> QED  BY <2>1, <2>2, <2>4, FieldAssumption DEF Field
<1> HIDE DEF h, y
<1>9. /\ accs' \in [ThreadIds -> [Buckets -> Field]]
      /\ C \in [Buckets -> Field] /\ C[i] = Add(x, y) /\ C[h] = 0
      /\ \A v \in Buckets : v # i /\ v # h => C[v] = B[v]
      /\ \A s \in ThreadIds \ {0} : accs'[s] = accs[s]
  <2>1. accs' = [accs EXCEPT ![0] = [[B EXCEPT ![i] = Add(x, y)] EXCEPT ![h] = 0]]
    BY <1>2, <1>3, <1>5, <1>7
  <2> DEFINE D == [[B EXCEPT ![i] = Add(x, y)] EXCEPT ![h] = 0]
  <2>2. D \in [Buckets -> Field]
    BY <1>3, <1>8
  <2>3. D[i] = Add(x, y) /\ D[h] = 0 /\ \A v \in Buckets : v # i /\ v # h => D[v] = B[v]
    BY <1>3, <1>6, <1>7
  <2>4. accs' = [accs EXCEPT ![0] = D]
    BY <2>1
  <2> HIDE DEF D, B
  <2>5. /\ accs' \in [ThreadIds -> [Buckets -> Field]] /\ accs'[0] = D
        /\ \A s \in ThreadIds \ {0} : accs'[s] = accs[s]
    BY <1>3, <1>5, <2>2, <2>4
  <2> QED  BY <2>2, <2>3, <2>5
<1> DEFINE z == sall'[t]
           k == sall[t]
<1>10. /\ sall' \in [ThreadIds -> Field] /\ z = Add(k, y) /\ k \in Int /\ z \in Int
       /\ \A s \in ThreadIds : s # t => sall'[s] = sall[s]
       /\ \A s \in ThreadIds : sall[s] \in Int /\ sall'[s] \in Int
  <2>1. k \in Field /\ k \in Int
    BY <1>3, FieldResidue
  <2>2. k + y \in Int
    BY <1>8, <2>1
  <2>3. Add(k, y) \in Field
    BY <2>2, ResidueType DEF Add
  <2>4. sall' \in [ThreadIds -> Field] /\ sall'[t] = Add(k, y)
        /\ \A s \in ThreadIds : s # t => sall'[s] = sall[s]
    BY <1>2, <1>3, <2>3
  <2>5. \A s \in ThreadIds : sall[s] \in Int /\ sall'[s] \in Int
    BY <1>3, <2>4, FieldResidue
  <2> QED  BY <2>1, <2>4, <2>5
<1>11. Sum(sall', ThreadIds) = (Sum(sall, ThreadIds) - k) + z
  <2>1. IsFiniteSet(ThreadIds)
    BY <1>5
  <2>2. \A s \in ThreadIds : s # t => sall'[s] = sall[s]
    BY <1>10
  <2>3. \A s \in ThreadIds : sall[s] \in Int /\ sall'[s] \in Int
    BY <1>10
  <2> QED  BY <2>1, <2>2, <2>3, SumUpdate
<1>12. Weighted(C) \in Int /\ Cong(Weighted(C), Weighted(B) - ((h - i) * y))
  <2>1. C[i] = Add(B[i], B[h])
    BY <1>9 DEF y
  <2> DEFINE BB == accs[0]
             CC == accs'[0]
  <2>2. /\ BB \in [Buckets -> Field] /\ CC \in [Buckets -> Field] /\ CC[h] = 0
        /\ CC[i] = Add(BB[i], BB[h])
        /\ \A v \in Buckets : v # i /\ v # h => CC[v] = BB[v]
    BY <1>3, <1>9, <2>1
  <2>3. i # h
    BY <1>6
  <2> HIDE DEF BB, CC
  <2>4. Weighted(CC) \in Int /\ Cong(Weighted(CC), Weighted(BB) - ((h - i) * BB[h]))
    <3>1. FoldedOnto(BB, CC, i, h)
      BY <1>7, <2>2, <2>3, Zenon DEF FoldedOnto
    <3>2. call \in Calls
      BY <1>3
    <3> HIDE <1>7, <2>2, <2>3
    <3> QED  BY <3>1, <3>2, WeightedFold
  <2> QED  BY <2>4 DEF BB, CC, y
<1> HIDE DEF B, C, x, k, z
<1>13. Cong((upper + (M * Sum(sall', ThreadIds))) + Weighted(C), Worth)
  <2> DEFINE S == Sum(sall, ThreadIds)
             S2 == Sum(sall', ThreadIds)
             W == Weighted(B)
             W2 == Weighted(C)
             u == upper
  <2>1. Worth = (u + (M * S)) + W
    BY DEF Worth, M, B
  <2>2. h - i = M
    BY <1>3, <1>6 DEF h
  <2>3. /\ u \in Int /\ M \in Int /\ S \in Int /\ W \in Int /\ W2 \in Int /\ y \in Int
        /\ k \in Int /\ z \in Int /\ S2 = (S - k) + z /\ Cong(W2, W - (M * y))
        /\ z = Add(k, y)
    BY <1>3, <1>8, <1>10, <1>11, <1>12, <2>2
  <2> HIDE DEF u, S, S2, W, W2
  <2>4. k + y \in Int /\ S - k \in Int /\ Cong(S - k, S - k)
    BY <2>3 DEF Cong
  <2>5. Cong(z, k + y)
    BY <2>3, <2>4, CongResidue DEF Add
  <2>6. Cong((S - k) + z, (S - k) + (k + y))
    BY <2>3, <2>4, <2>5, CongSums
  <2>7. (S - k) + (k + y) = S + y /\ S2 \in Int /\ S + y \in Int
    BY <2>3
  <2> DEFINE Sy == S + y
  <2>8. Cong(S2, Sy) /\ Sy \in Int
    BY <2>3, <2>6, <2>7
  <2> HIDE DEF Sy
  <2>9. Cong(M * S2, M * Sy)
    BY <2>3, <2>7, <2>8, CongTimes
  <2> DEFINE My == M * y
             MS == M * S
             MS2 == M * S2
  <2>10. M * Sy = MS + My /\ My \in Int /\ MS \in Int /\ MS2 \in Int
    BY <2>3, <2>7 DEF Sy
  <2>11. Cong(MS2, MS + My) /\ Cong(W2, W - My)
    BY <2>3, <2>9, <2>10
  <2> HIDE DEF My, MS, MS2
  <2>12. Cong(MS2 + W2, (MS + My) + (W - My))
    <3>1. MS + My \in Int /\ W - My \in Int
      BY <2>3, <2>10
    <3> QED  BY <2>3, <2>10, <2>11, <3>1, CongSums
  <2>13. (MS + My) + (W - My) = MS + W /\ MS + W \in Int /\ MS2 + W2 \in Int
    BY <2>3, <2>10
  <2>14. Cong(u + (MS2 + W2), u + (MS + W))
    <3>1. Cong(u, u)
      BY DEF Cong
    <3> DEFINE a == MS2 + W2
               b == MS + W
    <3>2. a \in Int /\ b \in Int /\ Cong(a, b)
      BY <2>12, <2>13
    <3> HIDE DEF a, b
    <3>3. Cong(u + a, u + b)
      BY <2>3, <3>1, <3>2, CongSums
    <3> QED  BY <3>3 DEF a, b
  <2>15. u + (MS2 + W2) = (u + MS2) + W2 /\ u + (MS + W) = (u + MS) + W
    BY <2>3, <2>10
  <2> QED  BY <2>1, <2>14, <2>15 DEF MS, MS2, u, W2, S2
<1>14. /\ Buckets' = Buckets /\ nChunks' = nChunks /\ bitsPerChunk' = bitsPerChunk
       /\ Points' = Points /\ ThreadIds' = ThreadIds
       /\ ChunkSum(chunk)' = ChunkSum(chunk)
  BY <1>1, CallKept, Zenon DEF ThreadIds, ChunkSum, ChunkTerms, getChunk
<1>15. Worth' = (upper + (M * Sum(sall', ThreadIds))) + Weighted(C)
  <2>1. Worth' = (upper' + (2 ^ (bits' - 1) * Sum(sall', ThreadIds))) + Weighted(accs'[0])
    BY <1>14, Zenon DEF Worth, ThreadIds, Weighted, WeightedTerms
  <2> QED  BY <1>1, <2>1 DEF M, C
<1>16. Reducing'
  <2>1. AccTypes' /\ sall' \in [ThreadIds' -> Field]
    BY <1>9, <1>10, <1>14, Zenon DEF AccTypes
  <2>2. \A s \in ThreadIds' \ {0}, v \in Buckets' : accs'[s][v] = 0
    BY <1>4, <1>9, <1>14
  <2>3. \A v \in Buckets : v >= 2 ^ bits => C[v] = 0
    <3> SUFFICES ASSUME NEW v \in Buckets, v >= 2 * M PROVE C[v] = 0
      BY <1>3
    <3>1. v # i /\ v # h /\ B[v] = 0
      BY <1>3, <1>4, <1>5, <1>6
    <3> QED  BY <1>9, <3>1
  <2>4. \A v \in Buckets : v >= M /\ v - M \notin todo' => C[v] = 0
    <3> SUFFICES ASSUME NEW v \in Buckets, v >= M, v - M \notin todo' PROVE C[v] = 0
      OBVIOUS
    <3>1. v \in Nat /\ v # i
      BY <1>3, <1>5, <1>6
    <3>2. CASE v = h
      BY <1>9, <3>2
    <3>3. CASE v # h
      <4>1. v - M # i
        BY <1>3, <1>6, <3>1, <3>3 DEF h
      <4>2. v - M \notin todo
        BY <1>1, <4>1
      <4>3. B[v] = 0
        BY <1>4, <4>2
      <4> QED  BY <1>9, <3>1, <3>3, <4>3
    <3> QED  BY <3>2, <3>3
  <2>5. chunk' = Len(results') /\ bits' \in 1 .. bitsPerChunk' /\ bits' # 1
    BY <1>1, <1>3, <1>4, <1>14
  <2>6. todo' \subseteq 0 .. 2 ^ (bits' - 1) - 1
    BY <1>1, <1>4 DEF M
  <2>7. Cong(Worth', ChunkSum(chunk'))
    BY <1>1, <1>4, <1>13, <1>15 DEF Cong
  <2>8. ChunkSum(chunk)' = ChunkSum(chunk')
    BY <1>1, <1>14
  <2>9. /\ \A v \in Buckets' : v >= 2 ^ bits' => accs'[0][v] = 0
        /\ bits' > 1 => \A v \in Buckets' :
             v >= 2 ^ (bits' - 1) /\ v - 2 ^ (bits' - 1) \notin todo' => accs'[0][v] = 0
    BY <1>1, <1>14, <2>3, <2>4 DEF M, C
  <2> QED  BY <2>1, <2>2, <2>5, <2>6, <2>7, <2>8, <2>9, Zenon DEF Reducing
<1>17. TypeOK'
  <2>1. todo' \subseteq Points \cup Buckets
    BY <1>1, <1>3 DEF TypeOK
  <2>2. bits' \in 0 .. bitsPerChunk
    BY <1>1, <1>3
  <2>3. AccTypes'
    BY <1>9, <1>14, Zenon DEF AccTypes
  <2> QED  BY <1>1, <1>3, <2>1, <2>2, <2>3, TypesStep DEF TypeOK
<1>18. Collected'
  BY <1>1, CollectedStays DEF MultiexpInv
<1>19. Recoding' /\ Processing'
  BY <1>1 DEF Recoding, Processing
<1> QED  BY <1>16, <1>17, <1>18, <1>19 DEF MultiexpInv

\* The loop over the upper half is over, and the inner call begins.
LEMMA RecurseKeeps == ASSUME MultiexpInv, Recurse PROVE MultiexpInv'
<1> DEFINE M == 2 ^ (bits - 1)
           m == bits - 2
           N == 2 ^ m
           S == Sum(sall, ThreadIds)
           W == Weighted(accs[0])
           T == Total(sall)
<1>1. /\ phase = "reduce" /\ phase' = "reduce" /\ bits > 1 /\ todo = {} /\ call' = call
      /\ results' = results /\ chunk' = chunk /\ bits' = bits - 1 /\ accs' = accs
      /\ upper' = Add(upper, Mul(M, T))
      /\ todo' = 0 .. N - 1
      /\ sall' = [t \in ThreadIds |-> 0]
      /\ UNCHANGED <<nafVars, r, onGpu>>
  BY DEF Recurse
<1>2. /\ call \in Calls /\ chunk \in 0 .. nChunks - 1 /\ TypeOK
      /\ bits \in Nat /\ bits <= bitsPerChunk /\ bitsPerChunk \in Nat
      /\ M \in Nat \ {0} /\ 2 ^ bits = 2 * M /\ 2 ^ bits <= 2 ^ bitsPerChunk
      /\ accs \in [ThreadIds -> [Buckets -> Field]] /\ sall \in [ThreadIds -> Field]
      /\ W \in Int /\ S \in Int /\ upper \in Int
  BY <1>1, ReduceFacts
<1>3. /\ chunk = Len(results)
      /\ \A s \in ThreadIds \ {0}, v \in Buckets : accs[s][v] = 0
      /\ \A v \in Buckets : v >= M /\ v - M \notin todo => accs[0][v] = 0
      /\ Cong(Worth, ChunkSum(chunk))
  BY <1>1 DEF MultiexpInv, Reducing
<1>4. \A v \in Buckets : v >= M => accs[0][v] = 0
  BY <1>1, <1>3
<1>5. m \in Nat /\ bits = m + 2 /\ bits - 1 = m + 1 /\ bits' = m + 1 /\ bits' - 1 = m
  BY <1>1, <1>2
<1>6. N \in Nat \ {0} /\ M = 2 * N
  <2>1. 2 ^ (m + 1) = 2 * 2 ^ m
    BY <1>5, TwoExp
  <2>2. N \in Nat \ {0}
    BY <1>5, TwoExp
  <2> QED  BY <1>5, <2>1, <2>2
<1>7. IsFiniteSet(ThreadIds) /\ 0 \in Field /\ \A v \in Buckets : v \in Nat
  BY <1>2, BucketFacts, FieldAssumption DEF Field
<1>8. T \in Int /\ T \in Field /\ Cong(T, S)
  <2>1. DOMAIN sall = ThreadIds /\ \A s \in ThreadIds : sall[s] \in Int
    BY <1>2, FieldResidue
  <2> QED  BY <1>7, <2>1, TotalIs
<1>9. /\ Buckets' = Buckets /\ nChunks' = nChunks /\ bitsPerChunk' = bitsPerChunk
      /\ Points' = Points /\ ThreadIds' = ThreadIds
      /\ ChunkSum(chunk)' = ChunkSum(chunk)
  BY <1>1, CallKept, Zenon DEF ThreadIds, ChunkSum, ChunkTerms, getChunk
<1>10. Worth' = upper' + W /\ upper' \in Field /\ upper' \in Int
  <2>1. upper' \in Field /\ upper' \in Int
    <3>1. Mul(M, T) \in Int
      BY <1>2, <1>8, MulType
    <3>2. upper + Mul(M, T) \in Int
      BY <1>2, <3>1
    <3>3. Add(upper, Mul(M, T)) \in Field
      BY <3>2, ResidueType DEF Add
    <3> QED  BY <1>1, <3>3, FieldResidue
  <2>2. \A t \in ThreadIds : sall'[t] = 0
    BY <1>1
  <2>3. Sum(sall', ThreadIds) = 0
    BY <1>7, <2>2, SumZero
  <2>4. Worth' = (upper' + (2 ^ (bits' - 1) * Sum(sall', ThreadIds))) + Weighted(accs'[0])
    BY <1>9, Zenon DEF Worth, ThreadIds, Weighted, WeightedTerms
  <2>5. 2 ^ (bits' - 1) \in Int /\ 2 ^ (bits' - 1) * 0 = 0
    BY <1>5, <1>6
  <2> QED  BY <1>1, <1>2, <2>1, <2>3, <2>4, <2>5
<1>11. Cong(Worth', Worth)
  <2> DEFINE u == upper
             u2 == upper'
             P == Mul(M, T)
  <2>1. Worth = (u + (M * S)) + W
    BY DEF Worth
  <2> DEFINE MS == M * S
  <2>2. P \in Int /\ MS \in Int /\ Cong(P, MS)
    <3>0. M \in Int /\ T \in Int /\ S \in Int /\ Cong(T, S)
      BY <1>2, <1>8
    <3> HIDE DEF M, T, S
    <3>1. P \in Int /\ Cong(P, M * T)
      BY <3>0, MulType, MulCong
    <3>2. Cong(M * T, M * S)
      BY <3>0, CongTimes
    <3>3. MS \in Int
      BY <3>0
    <3> QED  BY <3>1, <3>2, <3>3 DEF Cong
  <2>3. u2 = Add(u, P) /\ u \in Int /\ W \in Int /\ u2 \in Int
    BY <1>1, <1>2, <1>10
  <2> HIDE DEF P, MS, W, u, u2
  <2>4. Cong(u2, u + P) /\ u + P \in Int /\ u + MS \in Int
    BY <2>2, <2>3, CongResidue DEF Add
  <2>5. Cong(u + P, u + MS)
    <3>1. Cong(u, u)
      BY DEF Cong
    <3> QED  BY <2>2, <2>3, <3>1, CongSums
  <2> DEFINE v == u + MS
  <2>6. Cong(u2, v) /\ v \in Int
    BY <2>4, <2>5 DEF Cong
  <2> HIDE DEF v
  <2>7. Cong(u2 + W, v + W)
    <3>1. Cong(W, W)
      BY DEF Cong
    <3> QED  BY <2>3, <2>6, <3>1, CongSums
  <2> QED  BY <1>10, <2>1, <2>7 DEF v, u2, MS
<1> HIDE DEF M, N, m, S, W, T
<1>12. Reducing'
  <2>1. AccTypes' /\ sall' \in [ThreadIds' -> Field]
    BY <1>1, <1>2, <1>7, <1>9 DEF AccTypes
  <2>2. \A s \in ThreadIds' \ {0}, v \in Buckets' : accs'[s][v] = 0
    BY <1>1, <1>3, <1>9
  <2>3. chunk' = Len(results') /\ bits' \in 1 .. bitsPerChunk'
    BY <1>1, <1>2, <1>3, <1>9
  <2>4. 2 ^ (bits' - 1) = N /\ 2 ^ bits' = M /\ todo' = 0 .. N - 1
    BY <1>1, <1>5 DEF N, M
  <2>5. \A v \in Buckets : v >= 2 ^ bits' => accs'[0][v] = 0
    BY <1>1, <1>4, <2>4
  <2>6. \A v \in Buckets : v >= N /\ v - N \notin todo' => accs'[0][v] = 0
    <3> SUFFICES ASSUME NEW v \in Buckets, v >= N, v - N \notin 0 .. N - 1 PROVE accs[0][v] = 0
      BY <1>1
    <3>1. v >= M
      BY <1>6, <1>7
    <3> QED  BY <1>4, <3>1
  <2>7. bits' = 1 => \A t \in ThreadIds' : sall'[t] = 0
    BY <1>1, <1>9
  <2>8. Cong(Worth', ChunkSum(chunk'))
    BY <1>1, <1>3, <1>11 DEF Cong
  <2>9. ChunkSum(chunk)' = ChunkSum(chunk')
    BY <1>1, <1>9
  <2>10. /\ \A v \in Buckets' : v >= 2 ^ bits' => accs'[0][v] = 0
         /\ bits' > 1 => \A v \in Buckets' :
             v >= 2 ^ (bits' - 1) /\ v - 2 ^ (bits' - 1) \notin todo' => accs'[0][v] = 0
    BY <1>9, <2>4, <2>5, <2>6
  <2>11. todo' \subseteq 0 .. 2 ^ (bits' - 1) - 1
    BY <2>4
  <2> QED  BY <2>1, <2>2, <2>3, <2>7, <2>8, <2>9, <2>10, <2>11, Zenon DEF Reducing
<1>13. TypeOK'
  <2>1. todo' \subseteq Points \cup Buckets
    <3>1. Buckets = 0 .. 2 ^ bitsPerChunk - 1 /\ 2 ^ bitsPerChunk \in Nat
      BY <1>2, TwoExp DEF Buckets
    <3>2. todo' \subseteq Buckets
      BY <1>1, <1>2, <1>6, <3>1
    <3> QED  BY <3>2
  <2>2. bits' \in 0 .. bitsPerChunk
    BY <1>1, <1>2
  <2>3. AccTypes'
    BY <1>1, <1>2, <1>9 DEF AccTypes
  <2> QED  BY <1>1, <1>2, <1>10, <2>1, <2>2, <2>3, TypesStep DEF TypeOK
<1>14. Collected'
  BY <1>1, CollectedStays DEF MultiexpInv
<1>15. Recoding' /\ Processing'
  BY <1>1 DEF Recoding, Processing
<1> QED  BY <1>12, <1>13, <1>14, <1>15 DEF MultiexpInv

\* The innermost call returns: the result of the chunk, and clear buckets for the next.
LEMMA EndReduceKeeps == ASSUME MultiexpInv, EndReduce PROVE MultiexpInv'
<1> DEFINE B == accs[0]
           y == Add(B[1], upper)
<1>1. /\ phase = "reduce" /\ bits = 1 /\ call' = call /\ results' = Append(results, y)
      /\ UNCHANGED <<nafVars, bits, sall, upper, r, onGpu>>
  BY DEF EndReduce
<1>2. accs' = [accs EXCEPT ![0][1] = 0]
  BY DEF EndReduce
<1>3. \/ /\ chunk + 1 < nChunks /\ phase' = "process" /\ chunk' = chunk + 1 /\ todo' = Points
      \/ /\ ~ (chunk + 1 < nChunks) /\ phase' = "horner" /\ chunk' = chunk /\ todo' = {}
  BY DEF EndReduce
<1>4. /\ call \in Calls /\ chunk \in 0 .. nChunks - 1 /\ n \in Nat /\ TypeOK /\ nChunks \in Nat
      /\ chunk = Len(results) /\ Len(results) \in Nat /\ results \in Seq(Field)
      /\ bitsPerChunk \in Nat
      /\ accs \in [ThreadIds -> [Buckets -> Field]] /\ sall \in [ThreadIds -> Field]
      /\ B \in [Buckets -> Field]
      /\ upper \in Field /\ upper \in Int
  BY <1>1, ReduceFacts, ChunkInRange DEF TypeOK
<1>5. /\ \A s \in ThreadIds \ {0}, v \in Buckets : accs[s][v] = 0
      /\ \A v \in Buckets : v >= 2 ^ 1 => B[v] = 0
      /\ \A s \in ThreadIds : sall[s] = 0
      /\ Cong(Worth, ChunkSum(chunk))
  BY <1>1 DEF MultiexpInv, Reducing
<1>6. /\ IsFiniteSet(ThreadIds) /\ 0 \in ThreadIds /\ 1 \in Buckets /\ 0 \in Field
      /\ \A v \in Buckets : v \in Nat
  BY <1>4, BucketFacts, FieldAssumption DEF Field
<1>7. Worth = upper + B[1] /\ B[1] \in Int
  <2>1. Sum(sall, ThreadIds) = 0
    BY <1>5, <1>6, SumZero
  <2>2. Weighted(B) = B[1]
    <3>1. \A v \in Buckets : v >= 2 => B[v] = 0
      BY <1>5
    <3> HIDE DEF B
    <3> QED  BY <1>4, <3>1, WeightedOne
  <2>3. B[1] \in Int
    BY <1>4, <1>6, FieldResidue
  <2>4. Worth = (upper + (2 ^ (1 - 1) * 0)) + B[1]
    BY <1>1, <2>1, <2>2 DEF Worth
  <2>5. 2 ^ (1 - 1) * 0 = 0
    OBVIOUS
  <2> QED  BY <1>4, <2>3, <2>4, <2>5
<1> HIDE DEF B
<1>8. y \in Field /\ Cong(y, ChunkSum(chunk))
  <2>1. B[1] + upper \in Int /\ B[1] + upper = upper + B[1]
    BY <1>4, <1>7
  <2>2. y \in Field /\ Cong(y, B[1] + upper)
    BY <2>1, ResidueType, CongResidue DEF Add
  <2> QED  BY <1>5, <1>7, <2>1, <2>2 DEF Cong
<1> HIDE DEF y
<1>9. /\ accs' \in [ThreadIds -> [Buckets -> Field]]
      /\ \A s \in ThreadIds, v \in Buckets \ {0} : accs'[s][v] = 0
  <2>1. accs' = [accs EXCEPT ![0] = [B EXCEPT ![1] = 0]]
    BY <1>2 DEF B
  <2> DEFINE C == [B EXCEPT ![1] = 0]
  <2>2. C \in [Buckets -> Field]
    BY <1>4, <1>6
  <2>3. \A v \in Buckets \ {0} : C[v] = 0
    <3> SUFFICES ASSUME NEW v \in Buckets \ {0} PROVE C[v] = 0
      OBVIOUS
    <3>1. v = 1 \/ v >= 2
      BY <1>6
    <3> QED  BY <1>4, <1>5, <1>6, <3>1
  <2>4. accs' = [accs EXCEPT ![0] = C]
    BY <2>1
  <2> HIDE DEF C
  <2> QED  BY <1>4, <1>5, <1>6, <2>2, <2>3, <2>4
<1>10. /\ Buckets' = Buckets /\ nChunks' = nChunks /\ bitsPerChunk' = bitsPerChunk
       /\ Points' = Points /\ ThreadIds' = ThreadIds /\ AllTerms' = AllTerms
       /\ \A c : ChunkSum(c)' = ChunkSum(c)
  BY <1>1, CallKept DEF ThreadIds
<1>11. /\ results' \in Seq(Field) /\ Len(results') = Len(results) + 1
       /\ results'[Len(results) + 1] = y
       /\ \A k \in 1 .. Len(results) : results'[k] = results[k]
  BY <1>1, <1>4, <1>8
<1>12. Processing'
  <2> SUFFICES ASSUME phase' = "process" PROVE Processing'
    BY DEF Processing
  <2>1. chunk' = chunk + 1 /\ todo' = Points
    BY <1>3
  <2>2. chunk' = Len(results')
    BY <1>4, <1>11, <2>1
  <2>3. todo' \subseteq Points' /\ AccTypes'
    BY <1>9, <1>10, <2>1 DEF AccTypes
  <2>4. ASSUME NEW v \in Buckets \ {0}
        PROVE  Cong(Sum(BucketOf(v)', ThreadIds'),
                    Sum(call'.bases, Having(Points \ todo, v, chunk)'))
    <3>1. \A t \in ThreadIds : BucketOf(v)'[t] = 0
      BY <1>9, <1>10 DEF BucketOf
    <3>2. Sum(BucketOf(v)', ThreadIds) = 0
      <4> DEFINE f == BucketOf(v)'
      <4>1. \A t \in ThreadIds : f[t] = 0
        BY <3>1
      <4> HIDE DEF f
      <4>2. Sum(f, ThreadIds) = 0
        BY <1>6, <4>1, SumZero
      <4> QED  BY <4>2 DEF f
    <3>3. Having(Points \ todo, v, chunk)' = {}
      BY <1>10, <2>1 DEF Having
    <3>4. Sum(call'.bases, {}) = 0
      BY SumEmpty
    <3> QED  BY <1>10, <3>2, <3>3, <3>4 DEF Cong
  <2> QED  BY <1>10, <2>2, <2>3, <2>4, Zenon DEF Processing
<1>13. Collected'
  <2>1. Collected
    BY DEF MultiexpInv
  <2>2. Len(results') <= nChunks /\ (phase' = "process" => Len(results') < nChunks)
        /\ (phase' = "horner" => Len(results') = nChunks)
        /\ phase' \in {"process", "horner"}
    BY <1>3, <1>4, <1>11
  <2>3. \A k \in 1 .. Len(results') : Cong(results'[k], ChunkSum(k - 1))
    <3> SUFFICES ASSUME NEW k \in 1 .. Len(results') PROVE Cong(results'[k], ChunkSum(k - 1))
      OBVIOUS
    <3>1. CASE k \in 1 .. Len(results)
      BY <1>11, <2>1, <3>1 DEF Collected
    <3>2. CASE k = Len(results) + 1
      <4>1. k - 1 = chunk
        BY <1>4, <3>2
      <4> QED  BY <1>8, <1>11, <3>2, <4>1
    <3> QED  BY <1>4, <1>11, <3>1, <3>2
  <2>4. \A k \in 1 .. Len(results') : Cong(results'[k], ChunkSum(k - 1)')
    BY <1>10, <2>3
  <2> QED  BY <1>10, <1>11, <2>2, <2>4 DEF Collected
<1>14. TypeOK'
  <2>1. todo' \subseteq Points \cup Buckets
    BY <1>3
  <2>2. AccTypes'
    BY <1>9, <1>10 DEF AccTypes
  <2>3. chunk' \in 0 .. nChunks - 1
    BY <1>3, <1>4
  <2>4. Len(results') <= nChunks
    BY <1>4, <1>11
  <2>5. bits' \in 0 .. bitsPerChunk /\ upper' \in Field /\ r' \in Field /\ onGpu' \in BOOLEAN
    BY <1>1, <1>4 DEF TypeOK
  <2>6. UNCHANGED nafVars /\ call' = call
    BY <1>1
  <2>7. phase' \in {"start", "naf", "process", "reduce", "horner", "done"}
    BY <1>3
  <2> QED  BY <1>4, <1>11, <2>1, <2>2, <2>3, <2>4, <2>5, <2>6, <2>7, TypesStep
<1>15. Recoding' /\ Reducing'
  BY <1>3 DEF Recoding, Reducing
<1> QED  BY <1>12, <1>13, <1>14, <1>15 DEF MultiexpInv

\* The recursion that puts the results of the chunks together.
HornerStep(acc, j) ==
  IF j = nChunks THEN results[j] ELSE Add(Mul(2 ^ bitsPerChunk, acc[j + 1]), results[j])
IsHorner(acc) == acc = [j \in 1 .. nChunks |-> HornerStep(acc, j)]

\* The recursion of Horner is IsHorner.
LEMMA HornerUnfold == Horner => r' = (CHOOSE acc : IsHorner(acc))[1]
BY Zenon DEF Horner, IsHorner, HornerStep

\* What a step of the recursion computes is a field element.
LEMMA HornerStepType ==
  ASSUME n \in Nat, results \in Seq(Field), Len(results) = nChunks,
         NEW j \in 1 .. nChunks, NEW acc, \A k \in 1 .. nChunks : acc[k] \in Field
  PROVE  HornerStep(acc, j) \in Field
<1>1. results[j] \in Field /\ results[j] \in Int
  <2>1. results[j] \in Field
    OBVIOUS
  <2> QED  BY <2>1, FieldResidue
<1>2. CASE j = nChunks
  BY <1>1, <1>2 DEF HornerStep
<1>3. CASE j # nChunks
  <2> DEFINE K == 2 ^ bitsPerChunk
             x == acc[j + 1]
  <2>1. j + 1 \in 1 .. nChunks
    BY <1>3, ChunkBits
  <2>2. x \in Int
    BY <2>1, FieldResidue
  <2>3. K \in Int
    BY ChunkBits, TwoExp
  <2> HIDE DEF K, x
  <2>4. Mul(K, x) \in Int
    BY <2>2, <2>3, MulType
  <2>5. Mul(K, x) + results[j] \in Int
    BY <1>1, <2>4
  <2>6. Add(Mul(K, x), results[j]) \in Field
    BY <2>5, ResidueType DEF Add
  <2> QED  BY <1>3, <2>6 DEF HornerStep, K, x
<1> QED  BY <1>2, <1>3

\* A function that satisfies the recursion exists.
LEMMA HornerExists ==
  ASSUME n \in Nat, results \in Seq(Field), Len(results) = nChunks
  PROVE  \E acc : IsHorner(acc)
<1> DEFINE J == 1 .. nChunks
           Upto(g, m) == \A j \in J : nChunks - j < m => g[j] = HornerStep(g, j)
           T == {m \in Nat : \E g \in [J -> Field] : Upto(g, m)}
<1>0. nChunks \in Nat \ {0}
  BY ChunkBits
<1>1. 0 \in T
  <2> DEFINE g == [j \in J |-> 0]
  <2>1. 0 \in Field
    BY FieldAssumption DEF Field
  <2>2. g \in [J -> Field]
    BY <2>1
  <2>3. Upto(g, 0)
    BY <1>0
  <2> QED  BY <2>2, <2>3
<1>2. ASSUME NEW m \in Nat, m \in T PROVE m + 1 \in T
  <2>1. PICK g \in [J -> Field] : Upto(g, m)
    BY <1>2
  <2> DEFINE h == [j \in J |-> HornerStep(g, j)]
  <2>2. \A j \in J : HornerStep(g, j) \in Field
    BY HornerStepType
  <2>3. h \in [J -> Field]
    BY <2>2
  <2>4. ASSUME NEW j \in J, nChunks - j < m + 1 PROVE h[j] = HornerStep(h, j)
    <3>1. h[j] = HornerStep(g, j)
      OBVIOUS
    <3>2. CASE j = nChunks
      BY <3>1, <3>2 DEF HornerStep
    <3>3. CASE j # nChunks
      <4>1. j + 1 \in J /\ nChunks - (j + 1) < m
        BY <1>0, <2>4, <3>3
      <4>2. g[j + 1] = HornerStep(g, j + 1)
        BY <2>1, <4>1
      <4>3. h[j + 1] = g[j + 1]
        BY <4>1, <4>2
      <4> HIDE DEF h
      <4> QED  BY <3>1, <3>3, <4>3 DEF HornerStep
    <3> QED  BY <3>2, <3>3
  <2>5. Upto(h, m + 1)
    BY <2>4
  <2> HIDE DEF h, Upto, J
  <2> QED  BY <2>3, <2>5
<1>3. \A m \in Nat : m \in T
  <2> HIDE DEF T
  <2> QED  BY <1>1, <1>2, Induction
<1>4. PICK g \in [J -> Field] : Upto(g, nChunks)
  BY <1>0, <1>3
<1>5. \A j \in J : g[j] = HornerStep(g, j)
  BY <1>0, <1>4
<1>6. g = [j \in J |-> HornerStep(g, j)]
  <2> DEFINE k == [j \in J |-> HornerStep(g, j)]
  <2>1. \A j \in J : k[j] = g[j]
    BY <1>5
  <2>2. k = [j \in J |-> k[j]] /\ g = [j \in J |-> g[j]]
    OBVIOUS
  <2> HIDE DEF k
  <2> QED  BY <2>1, <2>2 DEF k
<1> QED  BY <1>6 DEF IsHorner

\* From chunk j on, the results are worth what the scalars are from chunk j on.
LEMMA HornerValue ==
  ASSUME call \in Calls, results \in Seq(Field), Len(results) = nChunks,
         \A k \in 1 .. Len(results) : Cong(results[k], ChunkSum(k - 1)),
         NEW acc, IsHorner(acc)
  PROVE  acc[1] \in Field /\ Cong(acc[1], Sum(AllTerms, Points))
<1> DEFINE J == 1 .. nChunks
           P(j) == acc[j] \in Field /\ Cong(acc[j], HighSum(j - 1))
           T == {m \in Nat : \A j \in J : nChunks - j = m => P(j)}
<1>0. n \in Nat /\ nChunks \in Nat \ {0} /\ bitsPerChunk \in Nat
  BY CallFacts, ChunkBits
<1>1. ASSUME NEW j \in J PROVE acc[j] = HornerStep(acc, j)
  <2> DEFINE k == [i \in J |-> HornerStep(acc, i)]
  <2>1. k[j] = HornerStep(acc, j)
    OBVIOUS
  <2>2. acc = k
    BY DEF IsHorner
  <2> HIDE DEF k
  <2> QED  BY <2>1, <2>2, Zenon
<1> DEFINE K == 2 ^ bitsPerChunk
<1>2. K \in Int
  BY <1>0, TwoExp
<1>3. ASSUME NEW j \in J
      PROVE  /\ results[j] \in Field /\ results[j] \in Int /\ Cong(results[j], ChunkSum(j - 1))
             /\ ChunkSum(j - 1) \in Int /\ HighSum(j - 1) \in Int /\ HighSum(j) \in Int
             /\ HighSum(j - 1) = (K * HighSum(j)) + ChunkSum(j - 1)
  <2>1. results[j] \in Field
    OBVIOUS
  <2>2. j - 1 \in 0 .. nChunks - 1 /\ (j - 1) + 1 = j
    BY <1>0
  <2>3. /\ ChunkSum(j - 1) \in Int /\ HighSum(j - 1) \in Int /\ HighSum((j - 1) + 1) \in Int
        /\ HighSum(j - 1) = (2 ^ bitsPerChunk * HighSum((j - 1) + 1)) + ChunkSum(j - 1)
    BY <2>2, HighSumStep
  <2>4. results[j] \in Int /\ Cong(results[j], ChunkSum(j - 1))
    BY <2>1, FieldResidue
  <2> QED  BY <2>1, <2>2, <2>3, <2>4
<1> HIDE DEF K
<1>4. 0 \in T
  <2> SUFFICES ASSUME NEW j \in J, nChunks - j = 0 PROVE P(j)
    OBVIOUS
  <2>1. j = nChunks
    BY <1>0
  <2>2. acc[j] = results[j]
    BY <1>1, <2>1 DEF HornerStep
  <2>3. HighSum(j) = 0
    BY <2>1, HighSumEnds
  <2>4. HighSum(j - 1) = ChunkSum(j - 1)
    <3>1. K * 0 = 0
      BY <1>2
    <3> QED  BY <1>3, <2>3, <3>1
  <2> QED  BY <1>3, <2>2, <2>4
<1>5. ASSUME NEW m \in Nat, m \in T PROVE m + 1 \in T
  <2> SUFFICES ASSUME NEW j \in J, nChunks - j = m + 1 PROVE P(j)
    OBVIOUS
  <2>1. j + 1 \in J /\ nChunks - (j + 1) = m /\ j # nChunks /\ (j + 1) - 1 = j
    BY <1>0
  <2>2. acc[j + 1] \in Field /\ Cong(acc[j + 1], HighSum(j))
    BY <1>5, <2>1
  <2> DEFINE x == acc[j + 1]
             h == HighSum(j)
             s == results[j]
             c == ChunkSum(j - 1)
             p == Mul(K, x)
             kh == K * h
  <2>3. acc[j] = Add(p, s)
    BY <1>1, <2>1 DEF HornerStep, K
  <2>4. x \in Int /\ Cong(x, h) /\ h \in Int /\ s \in Int /\ c \in Int /\ Cong(s, c)
    BY <1>3, <2>2, FieldResidue
  <2>5. HighSum(j - 1) = kh + c
    BY <1>3
  <2> HIDE DEF x, h, s, c
  <2>6. p \in Int /\ Cong(p, K * x) /\ K * x \in Int /\ kh \in Int
    <3>1. K * x \in Int /\ kh \in Int
      BY <1>2, <2>4
    <3>2. x \in Int /\ K \in Int
      BY <1>2, <2>4
    <3>3. p \in Int /\ Cong(p, K * x)
      BY <3>2, MulType, MulCong, Zenon
    <3> QED  BY <3>1, <3>3
  <2>7. Cong(K * x, kh)
    BY <1>2, <2>4, CongTimes
  <2> HIDE DEF p, kh
  <2>8. Cong(p, kh)
    BY <2>6, <2>7 DEF Cong
  <2>9. Cong(p + s, kh + c) /\ p + s \in Int
    BY <2>4, <2>6, <2>8, CongSums
  <2>10. Add(p, s) \in Field /\ Cong(Add(p, s), p + s)
    BY <2>9, ResidueType, CongResidue DEF Add
  <2> QED  BY <2>3, <2>5, <2>9, <2>10 DEF Cong
<1>6. \A m \in Nat : m \in T
  <2> HIDE DEF T
  <2> QED  BY <1>4, <1>5, Induction
<1>7. nChunks - 1 \in T /\ 1 \in J
  BY <1>0, <1>6
<1>8. P(1)
  BY <1>7
<1>9. 1 - 1 = 0 /\ HighSum(0) = Sum(AllTerms, Points)
  BY HighSumEnds
<1> QED  BY <1>8, <1>9

\* The results are put together.
LEMMA HornerKeeps == ASSUME MultiexpInv, Horner PROVE MultiexpInv'
<1>1. /\ phase = "horner" /\ phase' = "done" /\ call' = call /\ results' = results
      /\ UNCHANGED <<nafVars, chunk, bits, todo, accs, sall, upper, onGpu>>
  BY DEF Horner
<1>2. TypeOK /\ Collected
  BY DEF MultiexpInv
<1>3. /\ call \in Calls /\ results \in Seq(Field) /\ Len(results) = nChunks
      /\ \A k \in 1 .. Len(results) : Cong(results[k], ChunkSum(k - 1))
  BY <1>1, <1>2 DEF TypeOK, Collected
<1>4. n \in Nat
  BY <1>3, CallFacts
<1> DEFINE acc == CHOOSE a : IsHorner(a)
<1>5. IsHorner(acc)
  BY <1>3, <1>4, HornerExists
<1>6. r' = acc[1]
  BY HornerUnfold
<1> HIDE DEF acc
<1>7. r' \in Field /\ Cong(r', Sum(AllTerms, Points))
  BY <1>3, <1>5, <1>6, HornerValue
<1>8. TypeOK'
  <2>1. AccTypes' \/ accs' = <<>>
    BY <1>1, <1>2, CallKept DEF TypeOK, AccTypes, ThreadIds
  <2> QED  BY <1>1, <1>2, <1>3, <1>7, <2>1, TypesStep DEF TypeOK
<1>9. Collected'
  <2>1. nChunks' = nChunks /\ AllTerms' = AllTerms /\ Points' = Points
        /\ \A c : ChunkSum(c)' = ChunkSum(c)
    BY <1>1, CallKept
  <2>2. \A k \in 1 .. Len(results') : Cong(results'[k], ChunkSum(k - 1)')
    BY <1>1, <1>3, <2>1
  <2> QED  BY <1>1, <1>2, <1>7, <2>1, <2>2 DEF Collected
<1>10. Recoding' /\ Processing' /\ Reducing'
  BY <1>1 DEF Recoding, Processing, Reducing
<1> QED  BY <1>8, <1>9, <1>10 DEF MultiexpInv

--------------------------------------------------------------------------------
\* The recoding of a scalar.

\* A bit of a scalar is the remainder by two of what is left of it.
LEMMA BitIs ==
  ASSUME NEW sc \in 0 .. 2 ^ ScalarBits - 1, NEW p \in Nat
  PROVE  /\ sc \div 2 ^ p \in Nat /\ sc \div 2 ^ (p + 1) \in Nat
         /\ Bit(sc, p) \in BOOLEAN
         /\ sc \div 2 ^ p = (2 * (sc \div 2 ^ (p + 1))) + (IF Bit(sc, p) THEN 1 ELSE 0)
         /\ p >= ScalarBits => sc \div 2 ^ p = 0 /\ ~ Bit(sc, p)
<1> DEFINE P == 2 ^ p
           x == sc \div P
<1>0. 2 ^ ScalarBits \in Nat /\ sc \in Nat /\ sc < 2 ^ ScalarBits /\ ScalarBits \in Nat
  BY TwoExp, ScalarSizes
<1>1. P \in Nat \ {0} /\ 2 ^ (p + 1) = P * 2
  BY TwoExp
<1>2. x \in Nat
  BY <1>0, <1>1, ModType
<1>3. sc \div 2 ^ (p + 1) = x \div 2
  <2>1. sc \div (P * 2) = (sc \div P) \div 2
    <3> HIDE DEF P
    <3>1. 2 \in Nat \ {0}
      OBVIOUS
    <3> QED  BY <1>0, <1>1, <3>1, DivSplit
  <2> QED  BY <1>1, <2>1
<1>4. p >= ScalarBits => x = 0
  <2> SUFFICES ASSUME p >= ScalarBits PROVE x = 0
    OBVIOUS
  <2>1. p = ScalarBits \/ ScalarBits < p
    BY <1>0
  <2>2. 2 ^ ScalarBits <= P
    <3>1. CASE p = ScalarBits
      BY <1>1, <3>1
    <3>2. CASE ScalarBits < p
      BY <1>0, <3>2, TwoExpMonotonic
    <3> QED  BY <2>1, <3>1, <3>2
  <2>3. sc < P
    BY <1>0, <1>1, <2>2
  <2> HIDE DEF P
  <2> QED  BY <1>0, <1>1, <2>3
<1>5. Bit(sc, p) <=> x % 2 = 1
  <2>1. Bit(sc, p) <=> p < ScalarBits /\ x % 2 = 1
    BY DEF Bit
  <2> HIDE DEF x
  <2>2. p >= ScalarBits => x % 2 = 0
    BY <1>4
  <2> QED  BY <1>0, <2>1, <2>2
<1>6. Bit(sc, p) \in BOOLEAN
  BY DEF Bit
<1> HIDE DEF x, P
<1>7. x \div 2 \in Nat /\ x = (2 * (x \div 2)) + (x % 2) /\ x % 2 \in {0, 1}
  BY <1>2
<1>8. x = (2 * (x \div 2)) + (IF Bit(sc, p) THEN 1 ELSE 0)
  BY <1>5, <1>7
<1>9. p >= ScalarBits => ~ Bit(sc, p)
  BY <1>4, <1>5
<1> QED  BY <1>2, <1>3, <1>4, <1>6, <1>7, <1>8, <1>9 DEF x, P

\* What a row of the table writes and carries, by what it reads.
DigitOk(last, cur, carry, d) ==
  \/ last /\ cur /\ d.res = 2 /\ d.last = FALSE /\ d.carry = TRUE
  \/ last /\ ~ cur /\ d.res = 1 /\ d.last = FALSE /\ d.carry = FALSE
  \/ ~ last /\ cur /\ carry /\ d.res = 0 /\ d.last = FALSE /\ d.carry = TRUE
  \/ ~ last /\ cur /\ ~ carry /\ d.res = 0 /\ d.last = TRUE /\ d.carry = FALSE
  \/ ~ last /\ ~ cur /\ carry /\ d.res = 0 /\ d.last = TRUE /\ d.carry = FALSE
  \/ ~ last /\ ~ cur /\ ~ carry /\ d.res = 0 /\ d.last = FALSE /\ d.carry = FALSE

\* Digit is a row of that table.
LEMMA DigitIs ==
  ASSUME NEW last \in BOOLEAN, NEW cur \in BOOLEAN, NEW carry \in BOOLEAN, carry => ~ last
  PROVE  DigitOk(last, cur, carry, Digit(last, cur, carry))
<1> DEFINE d == Digit(last, cur, carry)
<1>1. ASSUME last = TRUE, cur = TRUE PROVE d.res = 2 /\ d.last = FALSE /\ d.carry = TRUE
  <2>1. carry = FALSE
    BY <1>1
  <2> QED  BY <1>1, <2>1 DEF Digit
<1>2. ASSUME last = TRUE, cur = FALSE PROVE d.res = 1 /\ d.last = FALSE /\ d.carry = FALSE
  <2>1. carry = FALSE
    BY <1>2
  <2> QED  BY <1>2, <2>1 DEF Digit
<1>3. ASSUME last = FALSE, cur = TRUE, carry = TRUE
      PROVE  d.res = 0 /\ d.last = FALSE /\ d.carry = TRUE
  BY <1>3 DEF Digit
<1>4. ASSUME last = FALSE, cur = TRUE, carry = FALSE
      PROVE  d.res = 0 /\ d.last = TRUE /\ d.carry = FALSE
  BY <1>4 DEF Digit
<1>5. ASSUME last = FALSE, cur = FALSE, carry = TRUE
      PROVE  d.res = 0 /\ d.last = TRUE /\ d.carry = FALSE
  BY <1>5 DEF Digit
<1>6. ASSUME last = FALSE, cur = FALSE, carry = FALSE
      PROVE  d.res = 0 /\ d.last = FALSE /\ d.carry = FALSE
  BY <1>6 DEF Digit
<1> HIDE DEF d
<1>7. DigitOk(last, cur, carry, d)
  BY <1>1, <1>2, <1>3, <1>4, <1>5, <1>6, Zenon DEF DigitOk
<1> QED  BY <1>7 DEF d

\* What it reads is worth what it writes and carries.
LEMMA DigitFacts ==
  ASSUME NEW last \in BOOLEAN, NEW cur \in BOOLEAN, NEW carry \in BOOLEAN, carry => ~ last,
         NEW d, DigitOk(last, cur, carry, d)
  PROVE  /\ d.res \in {0, 1, 2} /\ d.last \in BOOLEAN /\ d.carry \in BOOLEAN
         /\ ((IF last THEN 1 ELSE 0) + (IF carry THEN 2 ELSE 0)) + (IF cur THEN 2 ELSE 0)
              = (2 * ((IF d.last THEN 1 ELSE 0) + (IF d.carry THEN 2 ELSE 0))) + DigitValue(d.res)
         /\ d.carry => ~ d.last /\ cur
         /\ cur => d.last \/ d.carry
         /\ d.res = 0 \/ (last /\ ~ d.last)
         /\ ~ cur /\ ~ carry => ~ d.last /\ ~ d.carry
<1> DEFINE x == d.res
           l == d.last
           c == d.carry
<1>0. \/ last = TRUE /\ cur = TRUE /\ carry = FALSE /\ x = 2 /\ l = FALSE /\ c = TRUE
      \/ last = TRUE /\ cur = FALSE /\ carry = FALSE /\ x = 1 /\ l = FALSE /\ c = FALSE
      \/ last = FALSE /\ cur = TRUE /\ carry = TRUE /\ x = 0 /\ l = FALSE /\ c = TRUE
      \/ last = FALSE /\ cur = TRUE /\ carry = FALSE /\ x = 0 /\ l = TRUE /\ c = FALSE
      \/ last = FALSE /\ cur = FALSE /\ carry = TRUE /\ x = 0 /\ l = TRUE /\ c = FALSE
      \/ last = FALSE /\ cur = FALSE /\ carry = FALSE /\ x = 0 /\ l = FALSE /\ c = FALSE
  BY Zenon DEF DigitOk
<1> HIDE DEF x, l, c
<1>1. /\ x \in {0, 1, 2} /\ l \in BOOLEAN /\ c \in BOOLEAN
      /\ c => ~ l /\ cur
      /\ cur => l \/ c
      /\ x = 0 \/ (last /\ ~ l)
      /\ ~ cur /\ ~ carry => ~ l /\ ~ c
  BY <1>0
<1>2. ((IF last THEN 1 ELSE 0) + (IF carry THEN 2 ELSE 0)) + (IF cur THEN 2 ELSE 0)
        = (2 * ((IF l THEN 1 ELSE 0) + (IF c THEN 2 ELSE 0))) + DigitValue(x)
  <2>1. CASE last = TRUE /\ cur = TRUE /\ carry = FALSE /\ x = 2 /\ l = FALSE /\ c = TRUE
    BY <2>1 DEF DigitValue
  <2>2. CASE last = TRUE /\ cur = FALSE /\ carry = FALSE /\ x = 1 /\ l = FALSE /\ c = FALSE
    BY <2>2 DEF DigitValue
  <2>3. CASE last = FALSE /\ cur = TRUE /\ carry = TRUE /\ x = 0 /\ l = FALSE /\ c = TRUE
    BY <2>3 DEF DigitValue
  <2>4. CASE last = FALSE /\ cur = TRUE /\ carry = FALSE /\ x = 0 /\ l = TRUE /\ c = FALSE
    BY <2>4 DEF DigitValue
  <2>5. CASE last = FALSE /\ cur = FALSE /\ carry = TRUE /\ x = 0 /\ l = TRUE /\ c = FALSE
    BY <2>5 DEF DigitValue
  <2>6. CASE last = FALSE /\ cur = FALSE /\ carry = FALSE /\ x = 0 /\ l = FALSE /\ c = FALSE
    BY <2>6 DEF DigitValue
  <2> QED  BY <1>0, <2>1, <2>2, <2>3, <2>4, <2>5, <2>6
<1> QED  BY <1>1, <1>2 DEF x, l, c

\* One more digit.
LEMMA RecodeStep ==
  ASSUME NEW sc \in 0 .. 2 ^ ScalarBits - 1, NEW ds, NEW s, Recoded(sc, ds, s),
         NEW d, d = Digit(s.last, Bit(sc, Len(ds) + 1), s.carry),
         NEW w, w.last = d.last, w.carry = d.carry
  PROVE  Recoded(sc, Append(ds, d.res), w) /\ d.res \in {0, 1, 2}
<1> DEFINE p == Len(ds)
           cur == Bit(sc, p + 1)
           es == Append(ds, d.res)
           y == sc \div 2 ^ (p + 1)
           z == sc \div 2 ^ ((p + 1) + 1)
           a == (IF s.last THEN 1 ELSE 0) + (IF s.carry THEN 2 ELSE 0)
           b == (IF w.last THEN 1 ELSE 0) + (IF w.carry THEN 2 ELSE 0)
           v == DigitValue(d.res)
<1>1. /\ ds \in Seq({0, 1, 2}) /\ s.last \in BOOLEAN /\ s.carry \in BOOLEAN
      /\ s.carry => ~ s.last /\ Bit(sc, p)
      /\ p > ScalarBits => ~ s.last /\ ~ s.carry
      /\ \A i \in 1 .. p - 1 : ds[i] = 0 \/ ds[i + 1] = 0
      /\ ds # <<>> => ds[p] = 0 \/ ~ s.last
  BY DEF Recoded
<1>2. PICK left : IsLeft(left, sc, ds, s)
  BY DEF Recoded
<1>3. p \in Nat /\ p + 1 \in Nat /\ ScalarBits \in Nat
  BY <1>1, ScalarSizes
<1>4. /\ y \in Nat /\ z \in Nat /\ cur \in BOOLEAN
      /\ y = (2 * z) + (IF cur THEN 1 ELSE 0)
      /\ p + 1 >= ScalarBits => y = 0 /\ ~ cur
      /\ p >= ScalarBits => ~ Bit(sc, p)
  BY <1>3, BitIs
<1>5. /\ d.res \in {0, 1, 2} /\ d.last \in BOOLEAN /\ d.carry \in BOOLEAN
      /\ a + (IF cur THEN 2 ELSE 0) = (2 * b) + v
      /\ d.carry => ~ d.last /\ cur
      /\ cur => d.last \/ d.carry
      /\ d.res = 0 \/ (s.last /\ ~ d.last)
      /\ ~ cur /\ ~ s.carry => ~ d.last /\ ~ d.carry
  <2> DEFINE l == s.last
             c == s.carry
  <2>1. l \in BOOLEAN /\ c \in BOOLEAN /\ cur \in BOOLEAN /\ (c => ~ l) /\ d = Digit(l, cur, c)
    BY <1>1, <1>4
  <2> HIDE DEF l, c, cur
  <2>2. DigitOk(l, cur, c, d)
    BY <2>1, DigitIs
  <2>3. /\ d.res \in {0, 1, 2} /\ d.last \in BOOLEAN /\ d.carry \in BOOLEAN
        /\ ((IF l THEN 1 ELSE 0) + (IF c THEN 2 ELSE 0)) + (IF cur THEN 2 ELSE 0)
             = (2 * ((IF d.last THEN 1 ELSE 0) + (IF d.carry THEN 2 ELSE 0))) + DigitValue(d.res)
        /\ d.carry => ~ d.last /\ cur
        /\ cur => d.last \/ d.carry
        /\ d.res = 0 \/ (l /\ ~ d.last)
        /\ ~ cur /\ ~ c => ~ d.last /\ ~ d.carry
    BY <2>1, <2>2, DigitFacts
  <2> QED  BY <2>3 DEF l, c, a, b, v
<1>6. a \in Nat /\ b \in Nat /\ v \in Int
  BY DEF DigitValue
<1>7. Carried(sc, p, s) = a + (2 * y) /\ Carried(sc, p + 1, w) = b + (2 * z)
  BY DEF Carried
<1> HIDE DEF y, z, a, b, v
<1>8. Carried(sc, p + 1, w) \in Nat /\ Carried(sc, p, s) = (2 * Carried(sc, p + 1, w)) + v
  <2>1. CASE cur
    BY <1>4, <1>5, <1>6, <1>7, <2>1
  <2>2. CASE ~ cur
    BY <1>4, <1>5, <1>6, <1>7, <2>2
  <2> QED  BY <2>1, <2>2
<1>9. p + 1 > ScalarBits => ~ w.last /\ ~ w.carry /\ Carried(sc, p + 1, w) = 0
  <2> SUFFICES ASSUME p + 1 > ScalarBits
               PROVE  ~ w.last /\ ~ w.carry /\ Carried(sc, p + 1, w) = 0
    OBVIOUS
  <2>1. p >= ScalarBits /\ ~ s.carry /\ ~ cur /\ y = 0
    BY <1>1, <1>3, <1>4
  <2>2. ~ w.last /\ ~ w.carry
    BY <1>5, <2>1
  <2>3. z = 0 /\ b = 0
    BY <1>4, <2>1, <2>2 DEF b
  <2> QED  BY <1>7, <2>2, <2>3
<1>10. /\ es \in Seq({0, 1, 2}) /\ Len(es) = p + 1 /\ es[p + 1] = d.res /\ es # <<>>
       /\ \A i \in 1 .. p : es[i] = ds[i]
  <2> DEFINE x == d.res
  <2>1. ds \in Seq({0, 1, 2}) /\ x \in {0, 1, 2}
    BY <1>1, <1>5
  <2> HIDE DEF x
  <2>2. /\ Append(ds, x) \in Seq({0, 1, 2}) /\ Len(Append(ds, x)) = Len(ds) + 1
        /\ Append(ds, x)[Len(ds) + 1] = x /\ Append(ds, x) # <<>>
        /\ \A i \in 1 .. Len(ds) : Append(ds, x)[i] = ds[i]
    BY <2>1
  <2> QED  BY <2>2 DEF x
<1> DEFINE L == [i \in 0 .. p + 1 |-> IF i = p + 1 THEN Carried(sc, p + 1, w) ELSE left[i]]
<1>11. IsLeft(L, sc, es, w)
  <2>1. /\ left \in [0 .. p -> Nat] /\ left[0] = sc
        /\ \A i \in 1 .. p : left[i - 1] = (2 * left[i]) + DigitValue(ds[i])
        /\ \A i \in 0 .. p : i > ScalarBits => left[i] = 0
        /\ left[p] = Carried(sc, p, s)
    BY <1>2 DEF IsLeft
  <2>2. L \in [0 .. p + 1 -> Nat]
    BY <1>3, <1>8, <2>1
  <2>3. L[0] = sc /\ L[p + 1] = Carried(sc, p + 1, w) /\ \A i \in 0 .. p : L[i] = left[i]
    BY <1>3, <2>1
  <2> HIDE DEF L, es
  <2>4. \A i \in 1 .. p + 1 : L[i - 1] = (2 * L[i]) + DigitValue(es[i])
    <3> SUFFICES ASSUME NEW i \in 1 .. p + 1
                 PROVE  L[i - 1] = (2 * L[i]) + DigitValue(es[i])
      OBVIOUS
    <3>1. CASE i \in 1 .. p
      <4>1. i - 1 \in 0 .. p /\ i \in 0 .. p
        BY <1>3, <3>1
      <4> QED  BY <1>10, <2>1, <2>3, <3>1, <4>1
    <3>2. CASE i = p + 1
      <4>1. L[i - 1] = left[p] /\ L[i] = Carried(sc, p + 1, w) /\ es[i] = d.res
        BY <1>3, <1>10, <2>3, <3>2
      <4> QED  BY <1>8, <2>1, <4>1 DEF v
    <3> QED  BY <1>3, <3>1, <3>2
  <2>5. \A i \in 0 .. p + 1 : i > ScalarBits => L[i] = 0
    <3> SUFFICES ASSUME NEW i \in 0 .. p + 1, i > ScalarBits PROVE L[i] = 0
      OBVIOUS
    <3>1. CASE i \in 0 .. p
      BY <2>1, <2>3, <3>1
    <3>2. CASE i = p + 1
      BY <1>9, <2>3, <3>2
    <3> QED  BY <1>3, <3>1, <3>2
  <2> QED  BY <1>10, <2>2, <2>3, <2>4, <2>5 DEF IsLeft
<1> HIDE DEF L
<1>12. \E l : IsLeft(l, sc, es, w)
  BY <1>11
<1>13. \A i \in 1 .. Len(es) - 1 : es[i] = 0 \/ es[i + 1] = 0
  <2> SUFFICES ASSUME NEW i \in 1 .. p PROVE es[i] = 0 \/ es[i + 1] = 0
    BY <1>3, <1>10
  <2>1. CASE i = p
    <3>1. es[i] = ds[p] /\ es[i + 1] = d.res /\ ds # <<>>
      BY <1>1, <1>3, <1>10, <2>1
    <3> QED  BY <1>1, <1>5, <3>1
  <2>2. CASE i # p
    <3>1. i \in 1 .. p - 1 /\ i + 1 \in 1 .. p
      BY <1>3, <2>2
    <3> QED  BY <1>1, <1>10, <3>1
  <2> QED  BY <2>1, <2>2
<1> HIDE DEF es
<1>14. Recoded(sc, es, w)
  <2>1. w.last \in BOOLEAN /\ w.carry \in BOOLEAN
    BY <1>5
  <2>2. w.carry => ~ w.last /\ Bit(sc, Len(es))
    BY <1>5, <1>10
  <2>3. Bit(sc, Len(es)) => w.last \/ w.carry
    BY <1>5, <1>10
  <2>4. Len(es) > ScalarBits => ~ w.last /\ ~ w.carry
    BY <1>9, <1>10
  <2>5. es[Len(es)] = 0 \/ ~ w.last
    BY <1>5, <1>10
  <2> QED  BY <1>10, <1>12, <1>13, <2>1, <2>2, <2>3, <2>4, <2>5, Zenon DEF Recoded
<1> QED  BY <1>5, <1>14 DEF es

--------------------------------------------------------------------------------
\* The folds over sequences.

\* A fold takes the elements of a set one by one, in the order of pick.
FoldAt(op, base, pick, g, s) ==
  IF s = {} THEN base ELSE op[<<pick[s], g[s \ {pick[s]}]>>]
IsFold(op, base, pick, S, g) == \A s \in SUBSET S : g[s] = FoldAt(op, base, pick, g, s)

\* A function that folds every subset of a finite set exists.
LEMMA FoldExists ==
  ASSUME NEW S, IsFiniteSet(S), NEW T, NEW base \in T, NEW op \in [S \X T -> T],
         NEW pick, \A s \in SUBSET S : s # {} => pick[s] \in s
  PROVE  \E g \in [SUBSET S -> T] : IsFold(op, base, pick, S, g)
<1> DEFINE Upto(g, m) == \A s \in SUBSET S : Cardinality(s) < m => g[s] = FoldAt(op, base, pick, g, s)
           M == {m \in Nat : \E g \in [SUBSET S -> T] : Upto(g, m)}
<1>0. \A s \in SUBSET S : IsFiniteSet(s) /\ Cardinality(s) \in Nat
  BY FS_Subset, FS_CardinalityType
<1>1. 0 \in M
  <2> DEFINE g == [s \in SUBSET S |-> base]
  <2>1. g \in [SUBSET S -> T]
    OBVIOUS
  <2>2. Upto(g, 0)
    BY <1>0
  <2> HIDE DEF g, Upto
  <2> QED  BY <2>1, <2>2
<1>2. ASSUME NEW m \in Nat, m \in M PROVE m + 1 \in M
  <2>1. PICK g \in [SUBSET S -> T] : Upto(g, m)
    BY <1>2
  <2> DEFINE h == [s \in SUBSET S |-> FoldAt(op, base, pick, g, s)]
  <2>2. ASSUME NEW s \in SUBSET S PROVE FoldAt(op, base, pick, g, s) \in T
    <3>1. CASE s = {}
      BY <3>1 DEF FoldAt
    <3>2. CASE s # {}
      <4>1. pick[s] \in S /\ s \ {pick[s]} \in SUBSET S
        BY <3>2
      <4>2. <<pick[s], g[s \ {pick[s]}]>> \in S \X T
        BY <4>1
      <4>3. op[<<pick[s], g[s \ {pick[s]}]>>] \in T
        BY <4>2
      <4> QED  BY <3>2, <4>3 DEF FoldAt
    <3> QED  BY <3>1, <3>2
  <2>3. h \in [SUBSET S -> T]
    BY <2>2
  <2>4. ASSUME NEW s \in SUBSET S, Cardinality(s) < m + 1
        PROVE  h[s] = FoldAt(op, base, pick, h, s)
    <3>1. h[s] = FoldAt(op, base, pick, g, s)
      OBVIOUS
    <3>2. CASE s = {}
      BY <3>1, <3>2 DEF FoldAt
    <3>3. CASE s # {}
      <4> DEFINE u == s \ {pick[s]}
      <4>1. u \in SUBSET S /\ pick[s] \in s
        BY <3>3
      <4>2. Cardinality(u) = Cardinality(s) - 1
        BY <1>0, <4>1, FS_RemoveElement
      <4>3. Cardinality(u) < m
        BY <1>0, <2>4, <4>1, <4>2
      <4>4. g[u] = FoldAt(op, base, pick, g, u)
        BY <2>1, <4>1, <4>3
      <4>5. h[u] = g[u]
        BY <4>1, <4>4
      <4> HIDE DEF h
      <4> QED  BY <3>1, <3>3, <4>5 DEF FoldAt
    <3> QED  BY <3>2, <3>3
  <2>5. Upto(h, m + 1)
    BY <2>4
  <2> HIDE DEF h, Upto
  <2> QED  BY <2>3, <2>5
<1>3. \A m \in Nat : m \in M
  <2> HIDE DEF M
  <2> QED  BY <1>1, <1>2, Induction
<1>4. Cardinality(S) + 1 \in M
  <2>1. Cardinality(S) \in Nat
    BY <1>0
  <2> HIDE DEF M
  <2> QED  BY <1>3, <2>1
<1>5. PICK g \in [SUBSET S -> T] : Upto(g, Cardinality(S) + 1)
  BY <1>4
<1>6. ASSUME NEW s \in SUBSET S PROVE g[s] = FoldAt(op, base, pick, g, s)
  <2>1. Cardinality(s) <= Cardinality(S)
    BY FS_Subset
  <2>2. Cardinality(s) < Cardinality(S) + 1
    BY <1>0, <2>1
  <2> QED  BY <1>5, <2>2
<1> QED  BY <1>6 DEF IsFold

\* Every nonempty set of numbers of a range has a greatest and a least element.
LEMMA Extremes ==
  ASSUME NEW k \in Nat, NEW s \in SUBSET (1 .. k), s # {}
  PROVE  Max(s) \in s /\ Min(s) \in s
<1>1. \E x \in s : \A y \in s : x <= y
  <2>1. s \in SUBSET Nat
    OBVIOUS
  <2> QED  BY <2>1, Least
<1>2. \E x \in s : \A y \in s : x >= y
  <2> DEFINE t == {j \in Nat : j <= k /\ k - j \in s}
  <2>1. PICK x : x \in s
    OBVIOUS
  <2>2. k - x \in t
    BY <2>1
  <2>3. PICK j \in t : \A i \in t : j <= i
    <3>1. t \in SUBSET Nat /\ t # {}
      BY <2>2
    <3> HIDE DEF t
    <3> QED  BY <3>1, Least
  <2>4. ASSUME NEW y \in s PROVE k - j >= y
    <3>1. k - y \in t
      OBVIOUS
    <3>2. j <= k - y
      BY <2>3, <3>1
    <3> QED  BY <3>2
  <2> QED  BY <2>3, <2>4
<1> QED  BY <1>1, <1>2 DEF Max, Min

\* A range grows by its last number, and shrinks by its first.
LEMMA RangeAfter ==
  ASSUME NEW k \in Nat
  PROVE  1 .. (k + 1) # {} /\ (1 .. (k + 1)) \ {k + 1} = 1 .. k
<1>1. k + 1 \in 1 .. (k + 1)
  OBVIOUS
<1>2. \A j : j \in (1 .. (k + 1)) \ {k + 1} <=> j \in 1 .. k
  OBVIOUS
<1> QED  BY <1>1, <1>2, Zenon

LEMMA RangeBefore ==
  ASSUME NEW k \in Nat, NEW m \in Nat, k <= m
  PROVE  k .. m # {} /\ (k .. m) \ {k} = (k + 1) .. m
<1>1. k \in k .. m
  OBVIOUS
<1>2. \A j : j \in (k .. m) \ {k} <=> j \in (k + 1) .. m
  OBVIOUS
<1> QED  BY <1>1, <1>2, Zenon

\* The greatest element of 1 .. k and the least of k .. m.
LEMMA ExtremesOfRange ==
  ASSUME NEW k \in Nat, NEW m \in Nat, 1 <= k, k <= m
  PROVE  Max(1 .. k) = k /\ Min(k .. m) = k
<1>1. Max(1 .. k) \in 1 .. k /\ \A y \in 1 .. k : Max(1 .. k) >= y
  <2>1. \E x \in 1 .. k : \A y \in 1 .. k : x >= y
    OBVIOUS
  <2> QED  BY <2>1 DEF Max
<1>2. Min(k .. m) \in k .. m /\ \A y \in k .. m : Min(k .. m) <= y
  <2>1. \E x \in k .. m : \A y \in k .. m : x <= y
    OBVIOUS
  <2> QED  BY <2>1 DEF Min
<1> QED  BY <1>1, <1>2

\* The fold over the bits of a byte.
RowBits == [j \in 1 .. ByteBits |-> j]
RowBase == [last |-> state.last, carry |-> state.carry, digits |-> <<>>]
RowNext(sc, i, s, j) ==
  LET d == Digit(s.last, Bit(sc, ByteBits * i + j), s.carry) IN
  [last |-> d.last, carry |-> d.carry, digits |-> Append(s.digits, d.res)]
RowAt(sc, i, g, s) ==
  IF s = {} THEN RowBase ELSE RowNext(sc, i, g[s \ {Max(s)}], RowBits[Max(s)])
IsRow(sc, i, g) == g = [s \in SUBSET DOMAIN RowBits |-> RowAt(sc, i, g, s)]

\* FoldLeft takes the bits of a byte by their number, and is a recursive function.
LEMMA RowUnfold == \A sc, i : Row(sc, i) = (CHOOSE g : IsRow(sc, i, g))[DOMAIN RowBits]
BY Zenon DEF Row, FoldLeft, MapThenFoldSet, IsRow, RowAt, RowNext, RowBase, RowBits

\* nafMulByScalar, a fold over the digits from the highest.
MulDigits == SubSeq(naf, 1, ScalarBits + 2)
MulNext(base, d, x) ==
  LET twice == Add(x, x) IN
  CASE d = 1 -> Add(twice, base) [] d = 2 -> Sub(twice, base) [] OTHER -> twice
MulAt(base, g, s) ==
  IF s = {} THEN 0 ELSE MulNext(base, MulDigits[Min(s)], g[s \ {Min(s)}])
IsMul(base, g) == g = [s \in SUBSET DOMAIN MulDigits |-> MulAt(base, g, s)]

\* FoldRight takes the digits from the last, and is a recursive function too.
LEMMA MulUnfold ==
  \A base : nafMulByScalar(base) = (CHOOSE g : IsMul(base, g))[DOMAIN MulDigits]
BY Zenon DEF nafMulByScalar, FoldRight, MapThenFoldSet, IsMul, MulAt, MulNext, MulDigits

\* What the fold over the bits hands on from bit to bit.
RowStates == [last : BOOLEAN, carry : BOOLEAN, digits : Seq({0, 1, 2})]

\* A bit keeps the types.
LEMMA RowNextType ==
  ASSUME NEW sc, NEW i, NEW s \in RowStates, NEW j PROVE RowNext(sc, i, s, j) \in RowStates
<1> DEFINE cur == Bit(sc, ByteBits * i + j)
           l == s.last
           c == s.carry
           d == Digit(l, cur, c)
           x == d.res
<1>1. l \in BOOLEAN /\ c \in BOOLEAN /\ s.digits \in Seq({0, 1, 2})
  BY DEF RowStates
<1>2. cur \in BOOLEAN
  BY DEF Bit
<1> HIDE DEF l, c, cur
<1>3. x \in {0, 1, 2} /\ d.last \in BOOLEAN /\ d.carry \in BOOLEAN
  <2>1. CASE l
    BY <1>1, <1>2, <2>1 DEF Digit
  <2>2. CASE ~ l
    BY <1>1, <1>2, <2>2 DEF Digit
  <2> QED  BY <2>1, <2>2
<1> HIDE DEF x
<1>4. Append(s.digits, x) \in Seq({0, 1, 2})
  <2> DEFINE ds == s.digits
  <2>1. ds \in Seq({0, 1, 2})
    BY <1>1
  <2> HIDE DEF ds
  <2>2. Append(ds, x) \in Seq({0, 1, 2})
    BY <1>3, <2>1
  <2> QED  BY <2>2 DEF ds
<1>5. RowNext(sc, i, s, j) = [last |-> d.last, carry |-> d.carry, digits |-> Append(s.digits, x)]
  BY Zenon DEF RowNext, l, c, cur, x
<1> HIDE DEF d
<1> QED  BY <1>3, <1>4, <1>5 DEF RowStates

\* A function that folds the bits of a byte exists.
LEMMA RowExists ==
  ASSUME NEW sc, NEW i, state.last \in BOOLEAN, state.carry \in BOOLEAN
  PROVE  \E g : IsRow(sc, i, g)
<1> DEFINE S == 1 .. ByteBits
           op == [z \in S \X RowStates |-> RowNext(sc, i, z[2], RowBits[z[1]])]
           pick == [s \in SUBSET S |-> Max(s)]
<1>0. ByteBits \in Nat
  BY SizesAssumption
<1>1. IsFiniteSet(S)
  BY <1>0, FS_Interval
<1>2. RowBase \in RowStates
  BY DEF RowBase, RowStates
<1>3. op \in [S \X RowStates -> RowStates]
  <2>1. \A z \in S \X RowStates : RowNext(sc, i, z[2], RowBits[z[1]]) \in RowStates
    BY RowNextType
  <2> QED  BY <2>1
<1>4. \A s \in SUBSET S : pick[s] = Max(s) /\ (s # {} => pick[s] \in s)
  BY <1>0, Extremes
<1>5. \A x \in S, y \in RowStates : op[<<x, y>>] = RowNext(sc, i, y, RowBits[x])
  OBVIOUS
<1>6. DOMAIN RowBits = S
  BY DEF RowBits
<1> HIDE DEF op, pick
<1>7. PICK g \in [SUBSET S -> RowStates] : IsFold(op, RowBase, pick, S, g)
  <2> HIDE DEF S
  <2> QED  BY <1>1, <1>2, <1>3, <1>4, FoldExists
<1>8. ASSUME NEW s \in SUBSET S PROVE g[s] = RowAt(sc, i, g, s)
  <2>1. g[s] = FoldAt(op, RowBase, pick, g, s)
    BY <1>7 DEF IsFold
  <2>2. CASE s = {}
    BY <2>1, <2>2 DEF FoldAt, RowAt
  <2>3. CASE s # {}
    <3> DEFINE x == Max(s)
               y == g[s \ {x}]
    <3>1. pick[s] = x /\ x \in S
      BY <1>4, <2>3
    <3>2. y \in RowStates
      BY <1>7
    <3>3. g[s] = op[<<x, y>>]
      BY <2>1, <2>3, <3>1 DEF FoldAt
    <3>4. op[<<x, y>>] = RowNext(sc, i, y, RowBits[x])
      <4> HIDE DEF x, y
      <4> QED  BY <1>5, <3>1, <3>2
    <3> QED  BY <2>3, <3>3, <3>4 DEF RowAt
  <2> QED  BY <2>2, <2>3
<1>9. g = [s \in SUBSET S |-> RowAt(sc, i, g, s)]
  <2> DEFINE k == [s \in SUBSET S |-> RowAt(sc, i, g, s)]
  <2>1. \A s \in SUBSET S : k[s] = g[s]
    BY <1>8
  <2>2. k = [s \in SUBSET S |-> k[s]] /\ g = [s \in SUBSET S |-> g[s]]
    OBVIOUS
  <2> HIDE DEF k
  <2> QED  BY <2>1, <2>2 DEF k
<1> QED  BY <1>6, <1>9 DEF IsRow

\* A row of the table recodes the bits of its byte.
RowOk(sc, ds, s, k) ==
  s.digits \in Seq({0, 1, 2}) /\ Len(s.digits) = k /\ Recoded(sc, ds \o s.digits, s)

\* After each bit the digits so far are those of the scalar.
LEMMA RowValue ==
  ASSUME NEW sc \in 0 .. 2 ^ ScalarBits - 1, NEW i \in Nat, Recoded(sc, naf, state),
         Len(naf) = ByteBits * i, NEW g, IsRow(sc, i, g)
  PROVE  RowOk(sc, naf, g[1 .. ByteBits], ByteBits)
<1> DEFINE M == {k \in Nat : k <= ByteBits => RowOk(sc, naf, g[1 .. k], k)}
<1>0. ByteBits \in Nat /\ ByteBits * i \in Nat /\ naf \in Seq({0, 1, 2})
  BY SizesAssumption DEF Recoded
<1>1. /\ DOMAIN RowBits = 1 .. ByteBits
      /\ \A s \in SUBSET (1 .. ByteBits) : g[s] = RowAt(sc, i, g, s)
  BY DEF IsRow, RowBits
<1>2. 0 \in M
  <2>1. 1 .. 0 = {} /\ {} \in SUBSET (1 .. ByteBits)
    OBVIOUS
  <2>2. g[1 .. 0] = RowBase
    BY <1>1, <2>1 DEF RowAt
  <2>3. naf \o <<>> = naf
    BY <1>0
  <2>4. Recoded(sc, naf, RowBase)
    BY Zenon DEF Recoded, IsLeft, Carried, RowBase
  <2>5. RowBase.digits = <<>>
    BY DEF RowBase
  <2>6. RowOk(sc, naf, RowBase, 0)
    BY <2>3, <2>4, <2>5 DEF RowOk
  <2> QED  BY <2>2, <2>6
<1>3. ASSUME NEW k \in Nat, k \in M PROVE k + 1 \in M
  <2> SUFFICES ASSUME k + 1 <= ByteBits PROVE RowOk(sc, naf, g[1 .. (k + 1)], k + 1)
    OBVIOUS
  <2> DEFINE s == g[1 .. k]
             w == g[1 .. (k + 1)]
             ds == naf \o s.digits
             d == Digit(s.last, Bit(sc, ByteBits * i + (k + 1)), s.carry)
  <2>1. RowOk(sc, naf, s, k)
    BY <1>0, <1>3
  <2>2. w = RowNext(sc, i, s, k + 1)
    <3>1. /\ 1 .. (k + 1) # {} /\ Max(1 .. (k + 1)) = k + 1
          /\ (1 .. (k + 1)) \ {k + 1} = 1 .. k
      <4>1. k + 1 \in Nat /\ 1 <= k + 1
        OBVIOUS
      <4>2. Max(1 .. (k + 1)) = k + 1
        BY <4>1, ExtremesOfRange
      <4>3. 1 .. (k + 1) # {} /\ (1 .. (k + 1)) \ {k + 1} = 1 .. k
        BY RangeAfter
      <4> QED  BY <4>2, <4>3
    <3>2. 1 .. (k + 1) \in SUBSET (1 .. ByteBits) /\ RowBits[k + 1] = k + 1
      BY <1>0 DEF RowBits
    <3>3. g[1 .. (k + 1)] = RowAt(sc, i, g, 1 .. (k + 1))
      BY <1>1, <3>2
    <3> QED  BY <3>1, <3>2, <3>3 DEF RowAt
  <2> HIDE DEF s, w
  <2>3. w.last = d.last /\ w.carry = d.carry /\ w.digits = Append(s.digits, d.res)
    BY <2>2 DEF RowNext
  <2>4. Recoded(sc, ds, s) /\ s.digits \in Seq({0, 1, 2}) /\ Len(s.digits) = k
    BY <2>1 DEF RowOk
  <2>5. Len(ds) + 1 = ByteBits * i + (k + 1)
    <3> DEFINE e == s.digits
               z == ByteBits * i
    <3>1. e \in Seq({0, 1, 2}) /\ naf \in Seq({0, 1, 2}) /\ Len(naf) = z /\ Len(e) = k /\ z \in Nat
      BY <1>0, <2>4
    <3> HIDE DEF e, z
    <3>2. Len(naf \o e) + 1 = z + (k + 1)
      BY <3>1
    <3> QED  BY <3>2 DEF e, z
  <2>6. d = Digit(s.last, Bit(sc, Len(ds) + 1), s.carry)
    BY <2>5
  <2> HIDE DEF ds, d
  <2>7. Recoded(sc, Append(ds, d.res), w) /\ d.res \in {0, 1, 2}
    BY <2>3, <2>4, <2>6, RecodeStep
  <2>8. Append(ds, d.res) = naf \o w.digits /\ w.digits \in Seq({0, 1, 2}) /\ Len(w.digits) = k + 1
    <3> DEFINE e == s.digits
               x == d.res
    <3>1. e \in Seq({0, 1, 2}) /\ naf \in Seq({0, 1, 2}) /\ x \in {0, 1, 2} /\ Len(e) = k
      BY <1>0, <2>4, <2>7
    <3> HIDE DEF e, x
    <3>2. Append(e, x) \in Seq({0, 1, 2}) /\ Len(Append(e, x)) = k + 1
      BY <3>1
    <3>3. Append(naf \o e, x) = naf \o Append(e, x)
      <4> DEFINE a == Append(naf \o e, x)
                 b == naf \o Append(e, x)
      <4>1. /\ a \in Seq({0, 1, 2}) /\ b \in Seq({0, 1, 2})
            /\ Len(a) = (Len(naf) + k) + 1 /\ Len(b) = (Len(naf) + k) + 1
        BY <3>1, <3>2
      <4>2. ASSUME NEW j \in 1 .. (Len(naf) + k) + 1 PROVE a[j] = b[j]
        <5>1. CASE j <= Len(naf)
          BY <3>1, <3>2, <5>1
        <5>2. CASE j > Len(naf) /\ j <= Len(naf) + k
          BY <3>1, <3>2, <5>2
        <5>3. CASE j = (Len(naf) + k) + 1
          BY <3>1, <3>2, <5>3
        <5> QED  BY <3>1, <5>1, <5>2, <5>3
      <4> HIDE DEF a, b
      <4>3. a = b
        BY <4>1, <4>2
      <4> QED  BY <4>3 DEF a, b
    <3> QED  BY <2>3, <3>2, <3>3 DEF e, x, ds
  <2> QED  BY <2>7, <2>8 DEF RowOk, w
<1>4. \A k \in Nat : k \in M
  <2> HIDE DEF M
  <2> QED  BY <1>2, <1>3, Induction
<1> QED  BY <1>0, <1>4

\* What the row of the table is, by its recursion.
LEMMA RowIs ==
  ASSUME NEW sc \in 0 .. 2 ^ ScalarBits - 1, NEW i \in Nat, Recoded(sc, naf, state),
         Len(naf) = ByteBits * i
  PROVE  RowOk(sc, naf, Row(sc, i), ByteBits)
<1> DEFINE g == CHOOSE f : IsRow(sc, i, f)
<1>1. state.last \in BOOLEAN /\ state.carry \in BOOLEAN
  BY DEF Recoded
<1>2. IsRow(sc, i, g)
  BY <1>1, RowExists
<1>3. Row(sc, i) = g[1 .. ByteBits]
  <2>1. DOMAIN RowBits = 1 .. ByteBits
    BY DEF RowBits
  <2> QED  BY <2>1, RowUnfold
<1> HIDE DEF g
<1> QED  BY <1>2, <1>3, RowValue

\* A digit doubles what the higher ones are worth, and adds its own value.
LEMMA MulNextIs ==
  ASSUME NEW base \in Field, NEW d \in {0, 1, 2}, NEW x \in Field
  PROVE  /\ MulNext(base, d, x) \in Field /\ DigitValue(d) \in Int
         /\ Cong(MulNext(base, d, x), (2 * x) + (DigitValue(d) * base))
<1> DEFINE twice == Add(x, x)
<1>1. base \in Int /\ x \in Int /\ x + x = 2 * x
  BY FieldResidue
<1>2. twice \in Field /\ twice \in Int /\ Cong(twice, 2 * x)
  BY <1>1, ResidueType, CongResidue DEF Add
<1> HIDE DEF twice
<1>3. Cong(base, base)
  BY DEF Cong
<1>4. CASE d = 1
  <2>1. MulNext(base, d, x) = Add(twice, base)
    BY <1>4 DEF MulNext, twice
  <2>2. twice + base \in Int /\ Cong(twice + base, (2 * x) + base)
    BY <1>1, <1>2, <1>3, CongOps
  <2>3. Add(twice, base) \in Field /\ Cong(Add(twice, base), (2 * x) + base)
    BY <2>2, ResidueType, CongResidue DEF Add, Cong
  <2>4. DigitValue(d) = 1 /\ (2 * x) + base = (2 * x) + (1 * base)
    BY <1>1, <1>4 DEF DigitValue
  <2> QED  BY <2>1, <2>3, <2>4
<1>5. CASE d = 2
  <2>1. MulNext(base, d, x) = Sub(twice, base)
    BY <1>5 DEF MulNext, twice
  <2>2. twice - base \in Int /\ Cong(twice - base, (2 * x) - base)
    BY <1>1, <1>2, <1>3, CongOps
  <2>3. Sub(twice, base) \in Field /\ Cong(Sub(twice, base), (2 * x) - base)
    BY <2>2, ResidueType, CongResidue DEF Sub, Cong
  <2>4. DigitValue(d) = -1 /\ (2 * x) - base = (2 * x) + ((-1) * base)
    BY <1>1, <1>5 DEF DigitValue
  <2> QED  BY <2>1, <2>3, <2>4
<1>6. CASE d = 0
  <2>1. MulNext(base, d, x) = twice
    BY <1>6 DEF MulNext, twice
  <2>2. DigitValue(d) = 0 /\ 2 * x = (2 * x) + (0 * base)
    BY <1>1, <1>6 DEF DigitValue
  <2> QED  BY <1>2, <2>1, <2>2
<1> QED  BY <1>4, <1>5, <1>6

\* The digits that nafMulByScalar looks at.
LEMMA MulDigitsAre ==
  ASSUME naf \in Seq({0, 1, 2}), Len(naf) >= ScalarBits + 2
  PROVE  /\ ScalarBits + 2 \in Nat /\ DOMAIN MulDigits = 1 .. ScalarBits + 2
         /\ \A i \in 1 .. ScalarBits + 2 : MulDigits[i] = naf[i] /\ naf[i] \in {0, 1, 2}
BY ScalarSizes DEF MulDigits

\* A function that folds the digits exists.
LEMMA MulExists ==
  ASSUME naf \in Seq({0, 1, 2}), Len(naf) >= ScalarBits + 2, NEW base \in Field
  PROVE  \E g : IsMul(base, g)
<1> DEFINE S == 1 .. ScalarBits + 2
           op == [z \in S \X Field |-> MulNext(base, MulDigits[z[1]], z[2])]
           pick == [s \in SUBSET S |-> Min(s)]
<1>0. ScalarBits + 2 \in Nat /\ DOMAIN MulDigits = S /\ \A i \in S : MulDigits[i] \in {0, 1, 2}
  BY MulDigitsAre
<1>1. IsFiniteSet(S)
  BY <1>0, FS_Interval
<1>2. 0 \in Field
  BY FieldAssumption DEF Field
<1>3. op \in [S \X Field -> Field]
  <2>1. \A z \in S \X Field : MulNext(base, MulDigits[z[1]], z[2]) \in Field
    BY <1>0, MulNextIs
  <2> QED  BY <2>1
<1>4. \A s \in SUBSET S : pick[s] = Min(s) /\ (s # {} => pick[s] \in s)
  BY <1>0, Extremes
<1>5. \A x \in S, y \in Field : op[<<x, y>>] = MulNext(base, MulDigits[x], y)
  OBVIOUS
<1> HIDE DEF op, pick
<1>7. PICK g \in [SUBSET S -> Field] : IsFold(op, 0, pick, S, g)
  <2> HIDE DEF S
  <2> QED  BY <1>1, <1>2, <1>3, <1>4, FoldExists
<1>8. ASSUME NEW s \in SUBSET S PROVE g[s] = MulAt(base, g, s)
  <2>1. g[s] = FoldAt(op, 0, pick, g, s)
    BY <1>7 DEF IsFold
  <2>2. CASE s = {}
    BY <2>1, <2>2 DEF FoldAt, MulAt
  <2>3. CASE s # {}
    <3> DEFINE x == Min(s)
               y == g[s \ {x}]
    <3>1. pick[s] = x /\ x \in S
      BY <1>4, <2>3
    <3>2. y \in Field
      BY <1>7
    <3>3. g[s] = op[<<x, y>>]
      BY <2>1, <2>3, <3>1 DEF FoldAt
    <3>4. op[<<x, y>>] = MulNext(base, MulDigits[x], y)
      <4> HIDE DEF x, y
      <4> QED  BY <1>5, <3>1, <3>2
    <3> QED  BY <2>3, <3>3, <3>4 DEF MulAt
  <2> QED  BY <2>2, <2>3
<1>9. g = [s \in SUBSET S |-> MulAt(base, g, s)]
  <2> DEFINE k == [s \in SUBSET S |-> MulAt(base, g, s)]
  <2>1. \A s \in SUBSET S : k[s] = g[s]
    BY <1>8
  <2>2. k = [s \in SUBSET S |-> k[s]] /\ g = [s \in SUBSET S |-> g[s]]
    OBVIOUS
  <2> HIDE DEF k
  <2> QED  BY <2>1, <2>2 DEF k
<1> QED  BY <1>0, <1>9 DEF IsMul

\* The digits from k on are worth base times what they stand for.
LEMMA MulValue ==
  ASSUME NEW sc \in 0 .. 2 ^ ScalarBits - 1, NEW s, Recoded(sc, naf, s),
         Len(naf) >= ScalarBits + 2, NEW base \in Field, NEW g, IsMul(base, g)
  PROVE  g[1 .. ScalarBits + 2] \in Field /\ Cong(g[1 .. ScalarBits + 2], sc * base)
<1> DEFINE L == ScalarBits + 2
<1>0. naf \in Seq({0, 1, 2}) /\ Len(naf) \in Nat
  BY DEF Recoded
<1>1. L \in Nat /\ DOMAIN MulDigits = 1 .. L /\ \A i \in 1 .. L : MulDigits[i] = naf[i] /\ naf[i] \in {0, 1, 2}
  BY <1>0, MulDigitsAre
<1>2. PICK left : IsLeft(left, sc, naf, s)
  BY DEF Recoded
<1>3. /\ \A i \in 0 .. L : left[i] \in Nat
      /\ left[0] = sc /\ left[L] = 0
      /\ \A i \in 1 .. L : left[i - 1] = (2 * left[i]) + DigitValue(naf[i])
  <2>1. ScalarBits \in Nat
    BY ScalarSizes
  <2>2. /\ left \in [0 .. Len(naf) -> Nat] /\ left[0] = sc
        /\ \A i \in 1 .. Len(naf) : left[i - 1] = (2 * left[i]) + DigitValue(naf[i])
        /\ \A i \in 0 .. Len(naf) : i > ScalarBits => left[i] = 0
    BY <1>2 DEF IsLeft
  <2>3. L \in 0 .. Len(naf) /\ L > ScalarBits
    BY <1>0, <1>1, <2>1
  <2> HIDE DEF L
  <2>4. \A i \in 0 .. L : left[i] \in Nat
    BY <1>0, <2>2, <2>3
  <2>5. left[L] = 0
    BY <2>2, <2>3
  <2>6. \A i \in 1 .. L : left[i - 1] = (2 * left[i]) + DigitValue(naf[i])
    <3>1. \A i \in 1 .. L : i \in 1 .. Len(naf)
      BY <1>0, <2>3
    <3> QED  BY <2>2, <3>1
  <2> QED  BY <2>2, <2>4, <2>5, <2>6
<1>4. \A u \in SUBSET (1 .. L) : g[u] = MulAt(base, g, u)
  BY <1>1 DEF IsMul
<1>5. base \in Int
  BY FieldResidue
<1> HIDE DEF L
<1> DEFINE Ok(k) == g[(k + 1) .. L] \in Field /\ Cong(g[(k + 1) .. L], left[k] * base)
           M == {m \in Nat : m <= L => Ok(L - m)}
<1>6. 0 \in M
  <2>1. (L + 1) .. L = {} /\ {} \in SUBSET (1 .. L)
    BY <1>1
  <2>2. g[(L + 1) .. L] = 0
    BY <1>4, <2>1 DEF MulAt
  <2>3. 0 \in Field /\ left[L] * base = 0
    BY <1>3, <1>5, FieldAssumption DEF Field
  <2>4. Ok(L)
    BY <2>2, <2>3 DEF Cong
  <2>5. L - 0 = L
    BY <1>1
  <2> HIDE DEF Ok
  <2> QED  BY <2>4, <2>5
<1>7. ASSUME NEW m \in Nat, m \in M PROVE m + 1 \in M
  <2> SUFFICES ASSUME m + 1 <= L PROVE Ok(L - (m + 1))
    OBVIOUS
  <2> DEFINE k == L - m
             x == g[(k + 1) .. L]
             d == naf[k]
             v == DigitValue(d)
  <2>1. k \in 1 .. L /\ k \in Nat /\ L - (m + 1) = k - 1 /\ (k - 1) + 1 = k
    BY <1>1
  <2>2. x \in Field /\ Cong(x, left[k] * base)
    <3>1. m <= L
      BY <1>1
    <3> QED  BY <1>7, <3>1
  <2> HIDE DEF k, x
  <2>3. g[k .. L] = MulNext(base, d, x)
    <3>1. k .. L # {} /\ (k .. L) \ {k} = (k + 1) .. L
      <4>1. k \in Nat /\ L \in Nat /\ k <= L
        BY <1>1, <2>1
      <4> QED  BY <4>1, RangeBefore
    <3>2. Min(k .. L) = k
      BY <1>1, <2>1, ExtremesOfRange
    <3>3. k .. L \in SUBSET (1 .. L)
      BY <1>1, <2>1
    <3>4. g[k .. L] = MulNext(base, MulDigits[k], g[(k + 1) .. L])
      BY <1>4, <3>1, <3>2, <3>3 DEF MulAt
    <3> QED  BY <1>1, <2>1, <3>4 DEF x
  <2>4. d \in {0, 1, 2} /\ left[k - 1] = (2 * left[k]) + v /\ left[k] \in Int /\ left[k] \in Nat
    BY <1>1, <1>3, <2>1
  <2> HIDE DEF d
  <2>5. /\ MulNext(base, d, x) \in Field /\ v \in Int
        /\ Cong(MulNext(base, d, x), (2 * x) + (v * base))
    BY <2>2, <2>4, MulNextIs
  <2> HIDE DEF v
  <2>6. Cong((2 * x) + (v * base), left[k - 1] * base)
    <3> DEFINE a == left[k]
               b == a * base
               e == v * base
    <3>0. a \in Int
      BY <2>4
    <3>1. x \in Int /\ b \in Int /\ e \in Int
      BY <1>5, <2>2, <2>5, <3>0, FieldResidue
    <3>2. left[k - 1] * base = (2 * b) + e
      <4>1. ((2 * a) + v) * base = (2 * (a * base)) + (v * base)
        <5> HIDE DEF a
        <5> QED  BY <1>5, <2>5, <3>0
      <4> QED  BY <2>4, <4>1
    <3>3. Cong(x, b)
      BY <2>2
    <3> HIDE DEF b, e
    <3>4. Cong(2 * x, 2 * b) /\ 2 * x \in Int /\ 2 * b \in Int
      <4>1. 2 \in Int
        OBVIOUS
      <4>2. Cong(2 * x, 2 * b)
        BY <3>1, <3>3, <4>1, CongTimes, Zenon
      <4> QED  BY <3>1, <4>2
    <3>5. Cong(e, e)
      BY DEF Cong
    <3>6. Cong((2 * x) + e, (2 * b) + e)
      BY <3>1, <3>4, <3>5, CongOps
    <3> QED  BY <3>2, <3>6 DEF e
  <2>7. g[((k - 1) + 1) .. L] = MulNext(base, d, x)
    BY <2>1, <2>3
  <2>8. Ok(k - 1)
    BY <2>5, <2>6, <2>7 DEF Cong
  <2> HIDE DEF Ok
  <2> QED  BY <2>1, <2>8
<1>8. \A m \in Nat : m \in M
  <2> HIDE DEF M
  <2> QED  BY <1>6, <1>7, Induction
<1>9. Ok(L - L)
  <2>1. L <= L
    BY <1>1
  <2> HIDE DEF Ok
  <2> QED  BY <1>1, <1>8, <2>1
<1>10. L - L = 0 /\ 0 + 1 = 1
  BY <1>1
<1>11. Ok(0)
  <2> HIDE DEF Ok
  <2> QED  BY <1>9, <1>10
<1>12. g[1 .. L] \in Field /\ Cong(g[1 .. L], left[0] * base)
  BY <1>10, <1>11
<1> QED  BY <1>3, <1>12 DEF L

\* nafMulByScalar multiplies by the scalar that was recoded.
LEMMA MulIs ==
  ASSUME NEW sc \in 0 .. 2 ^ ScalarBits - 1, NEW s, Recoded(sc, naf, s),
         Len(naf) >= ScalarBits + 2, NEW base \in Field
  PROVE  nafMulByScalar(base) \in Field /\ Cong(nafMulByScalar(base), sc * base)
<1> DEFINE g == CHOOSE f : IsMul(base, f)
<1>1. naf \in Seq({0, 1, 2})
  BY DEF Recoded
<1>2. IsMul(base, g)
  BY <1>1, MulExists
<1>3. nafMulByScalar(base) = g[1 .. ScalarBits + 2]
  BY <1>1, MulDigitsAre, MulUnfold
<1> HIDE DEF g
<1> QED  BY <1>2, <1>3, MulValue

--------------------------------------------------------------------------------
\* The other steps.

\* Before the first bit is read, the whole scalar is left.
LEMMA RecodedAtStart ==
  ASSUME NEW sc \in 0 .. 2 ^ ScalarBits - 1, NEW s, s.last = Bit(sc, 0), s.carry = FALSE
  PROVE  Recoded(sc, <<>>, s)
<1> DEFINE left == [i \in 0 .. 0 |-> sc]
           ds == <<>>
<1>1. /\ ScalarBits \in Nat \ {0} /\ sc \in Nat /\ 0 \in Nat
  <2>1. 2 ^ ScalarBits \in Nat
    BY ScalarSizes, TwoExp
  <2> QED  BY <2>1, ScalarSizes
<1>2. /\ Bit(sc, 0) \in BOOLEAN
      /\ sc \div 2 ^ 0 = (2 * (sc \div 2 ^ (0 + 1))) + (IF Bit(sc, 0) THEN 1 ELSE 0)
      /\ sc \div 2 ^ (0 + 1) \in Nat
  BY <1>1, BitIs
<1>3. sc \div 2 ^ 0 = sc
  <2>1. 2 ^ 0 = 1
    BY TwoExp
  <2> QED  BY <1>1, <2>1
<1>4. Carried(sc, 0, s) = sc
  <2> DEFINE y == sc \div 2 ^ (0 + 1)
  <2>1. Carried(sc, 0, s) = ((IF Bit(sc, 0) THEN 1 ELSE 0) + 0) + (2 * y)
    BY DEF Carried
  <2>2. sc = (2 * y) + (IF Bit(sc, 0) THEN 1 ELSE 0) /\ y \in Nat
    BY <1>2, <1>3
  <2> HIDE DEF y
  <2>3. CASE Bit(sc, 0)
    BY <2>1, <2>2, <2>3
  <2>4. CASE ~ Bit(sc, 0)
    BY <2>1, <2>2, <2>4
  <2> QED  BY <2>3, <2>4
<1>5. ds \in Seq({0, 1, 2}) /\ Len(ds) = 0
  OBVIOUS
<1>6. left \in [0 .. Len(ds) -> Nat] /\ left[0] = sc /\ left[Len(ds)] = Carried(sc, Len(ds), s)
  BY <1>1, <1>4, <1>5
<1>7. \A i \in 0 .. 0 : ~ (i > ScalarBits)
  BY <1>1
<1> HIDE DEF left, ds
<1>8. IsLeft(left, sc, ds, s)
  <2>1. \A i \in 1 .. Len(ds) : left[i - 1] = (2 * left[i]) + DigitValue(ds[i])
    BY <1>5
  <2>2. \A i \in 0 .. Len(ds) : i > ScalarBits => left[i] = 0
    BY <1>5, <1>7
  <2> QED  BY <1>6, <2>1, <2>2 DEF IsLeft
<1>9. Recoded(sc, ds, s)
  <2>1. ds = <<>> /\ ~ (Len(ds) > ScalarBits) /\ s.last \in BOOLEAN /\ s.carry \in BOOLEAN
    <3>1. ds = <<>> /\ ~ (Len(ds) > ScalarBits)
      BY <1>1, <1>5 DEF ds
    <3>2. s.last \in BOOLEAN /\ s.carry \in BOOLEAN
      BY <1>2, Zenon
    <3> QED  BY <3>1, <3>2
  <2>2. \A i \in 1 .. Len(ds) - 1 : ds[i] = 0 \/ ds[i + 1] = 0
    BY <1>5
  <2>3. (Bit(sc, Len(ds)) => s.last) /\ ~ s.carry
    BY <1>5
  <2> QED  BY <1>5, <1>8, <2>1, <2>2, <2>3 DEF Recoded
<1> QED  BY <1>9 DEF ds

\* No scalar at all: the sum is zero.
LEMMA StartEmptyKeeps ==
  ASSUME MultiexpInv, phase = "start", n = 0, r' = 0, phase' = "done",
         UNCHANGED <<nafVars, todo, accs>>,
         UNCHANGED <<call, chunk, bits, sall, upper, results, onGpu>>
  PROVE  MultiexpInv'
<1>1. TypeOK /\ Recoding /\ Collected
  BY DEF MultiexpInv
<1>2. 0 \in Field
  BY FieldAssumption DEF Field
<1>3. n' = n /\ Points' = Points /\ nChunks' = nChunks /\ AllTerms' = AllTerms
      /\ \A c : ChunkSum(c)' = ChunkSum(c)
  BY CallKept
<1>4. TypeOK'
  <2>1. accs' = <<>> \/ AccTypes'
    BY <1>1, <1>3, CallKept DEF TypeOK, AccTypes, ThreadIds
  <2> QED  BY <1>1, <1>2, <2>1, TypesStep DEF TypeOK
<1>5. Sum(AllTerms, Points) = 0
  <2>1. Points = {}
    BY DEF Points
  <2> QED  BY <2>1, SumEmpty
<1>6. Collected'
  <2>1. \A k \in 1 .. Len(results') : Cong(results'[k], ChunkSum(k - 1)')
    BY <1>1, <1>3 DEF Collected
  <2>2. Cong(r', Sum(AllTerms, Points)')
    BY <1>3, <1>5 DEF Cong
  <2> QED  BY <1>1, <1>3, <2>1, <2>2 DEF Collected
<1>7. Recoding' /\ Processing' /\ Reducing'
  BY DEF Recoding, Processing, Reducing
<1> QED  BY <1>4, <1>6, <1>7 DEF MultiexpInv

\* One scalar: it is recoded.
LEMMA StartNafKeeps ==
  ASSUME MultiexpInv, phase = "start", n = 1, NafStart(call.scalars[1]), phase' = "naf",
         UNCHANGED <<r, todo, accs>>,
         UNCHANGED <<call, chunk, bits, sall, upper, results, onGpu>>
  PROVE  MultiexpInv'
<1>1. TypeOK /\ Recoding /\ Collected
  BY DEF MultiexpInv
<1>2. /\ byte' = 0 /\ naf' = <<>>
      /\ state'.last = Bit(call.scalars[1], 0) /\ state'.carry = FALSE
  BY <1>1 DEF Recoding, NafIdle, NafStart
<1>3. n' = n /\ Points' = Points /\ nChunks' = nChunks /\ AllTerms' = AllTerms
      /\ \A c : ChunkSum(c)' = ChunkSum(c)
  BY CallKept
<1>4. TypeOK'
  <2>1. accs' = <<>> \/ AccTypes'
    BY <1>1, <1>3, CallKept DEF TypeOK, AccTypes, ThreadIds
  <2>2. NafTypeOK'
    <3>1. ByteBits \in Nat /\ ByteBits * 0 = 0
      BY ScalarSizes
    <3> QED  BY <1>2, <3>1 DEF NafTypeOK
  <2> QED  BY <1>1, <2>1, <2>2, TypesStepNaf DEF TypeOK
<1>5. Recoding'
  <2>1. call.scalars[1] \in 0 .. 2 ^ ScalarBits - 1
    <3>1. call \in Calls /\ 1 \in Points
      BY <1>1 DEF TypeOK, Points
    <3> QED  BY <3>1, CallFacts
  <2>2. Recoded(call.scalars[1], <<>>, state')
    BY <1>2, <2>1, RecodedAtStart
  <2>3. Recoded(call.scalars[1], naf, state)'
    BY <1>2, <2>2 DEF Recoded, IsLeft, Carried, Bit, ScalarBits
  <2>4. byte' \in 0 .. ScalarBytes + 2
    BY <1>2, ScalarSizes
  <2> QED  BY <1>3, <2>3, <2>4 DEF Recoding
<1>6. Collected'
  <2>1. \A k \in 1 .. Len(results') : Cong(results'[k], ChunkSum(k - 1)')
    BY <1>1, <1>3 DEF Collected
  <2> QED  BY <1>1, <1>3, <2>1 DEF Collected
<1>7. Processing' /\ Reducing'
  BY DEF Processing, Reducing
<1> QED  BY <1>4, <1>5, <1>6, <1>7 DEF MultiexpInv

\* More: the buckets are cleared and the first chunk begins.
LEMMA StartChunksKeeps ==
  ASSUME MultiexpInv, phase = "start", n > 1, accs' = Zeros, phase' = "process",
         todo' = Points, UNCHANGED <<nafVars, r>>,
         UNCHANGED <<call, chunk, bits, sall, upper, results, onGpu>>
  PROVE  MultiexpInv'
<1>1. TypeOK /\ Recoding /\ Collected
  BY DEF MultiexpInv
<1>2. 0 \in Field
  BY FieldAssumption DEF Field
<1>3. /\ n' = n /\ Points' = Points /\ nChunks' = nChunks /\ AllTerms' = AllTerms
      /\ Buckets' = Buckets /\ \A c : ChunkSum(c)' = ChunkSum(c)
      /\ \A W, v, c : Having(W, v, c)' = Having(W, v, c)
  BY CallKept
<1>4. AccTypes'
  BY <1>2, <1>3 DEF AccTypes, Zeros, ThreadIds
<1>5. TypeOK'
  BY <1>1, <1>4, TypesStep DEF TypeOK
<1>6. n \in Nat /\ nChunks \in Nat \ {0}
  <2>1. n \in Nat
    BY <1>1, CallFacts DEF TypeOK
  <2> QED  BY <2>1, ChunkBits
<1>7. results = <<>> /\ Len(results) = 0 /\ chunk = 0
  BY <1>1 DEF Collected, Recoding
<1>8. Processing'
  <2>1. ASSUME NEW v \in Buckets
        PROVE  Cong(Sum(BucketOf(v)', ThreadIds), Sum(call.bases, Having(Points \ Points, v, chunk)))
    <3>1. IsFiniteSet(ThreadIds) /\ \A t \in ThreadIds : BucketOf(v)'[t] = 0
      <4>1. IsFiniteSet(ThreadIds)
        BY SizesAssumption, FS_Interval DEF ThreadIds
      <4>2. BucketOf(v)' = [t \in ThreadIds |-> Zeros[t][v]]
        BY DEF BucketOf, ThreadIds
      <4> QED  BY <4>1, <4>2 DEF Zeros
    <3>2. Sum(BucketOf(v)', ThreadIds) = 0
      BY <3>1, SumZero
    <3>3. Having(Points \ Points, v, chunk) = {}
      BY DEF Having
    <3> QED  BY <3>2, <3>3, SumEmpty DEF Cong
  <2>2. ThreadIds' = ThreadIds /\ call.bases' = call.bases /\ chunk' = chunk
    BY DEF ThreadIds
  <2>3. (\A v \in Buckets \ {0} :
           Cong(Sum(BucketOf(v), ThreadIds), Sum(call.bases, Having(Points \ todo, v, chunk))))'
    BY <1>3, <2>1, <2>2
  <2>4. todo' \subseteq Points' /\ chunk' = Len(results')
    BY <1>3, <1>7
  <2> QED  BY <1>4, <2>3, <2>4 DEF Processing
<1>9. Collected'
  <2>1. \A k \in 1 .. Len(results') : Cong(results'[k], ChunkSum(k - 1)')
    BY <1>1, <1>3 DEF Collected
  <2> QED  BY <1>1, <1>3, <1>6, <1>7, <2>1 DEF Collected
<1>10. Recoding' /\ Reducing'
  BY DEF Recoding, Reducing
<1> QED  BY <1>5, <1>8, <1>9, <1>10 DEF MultiexpInv

\* The three ways to start.
LEMMA StartKeeps == ASSUME MultiexpInv, Start PROVE MultiexpInv'
<1>1. phase = "start" /\ UNCHANGED <<call, chunk, bits, sall, upper, results, onGpu>>
  BY DEF Start
<1>2. CASE n = 0 /\ r' = 0 /\ phase' = "done" /\ UNCHANGED <<nafVars, todo, accs>>
  BY <1>1, <1>2, StartEmptyKeeps
<1>3. CASE n = 1 /\ NafStart(call.scalars[1]) /\ phase' = "naf" /\ UNCHANGED <<r, todo, accs>>
  BY <1>1, <1>3, StartNafKeeps
<1>4. CASE /\ n > 1 /\ accs' = Zeros /\ phase' = "process" /\ todo' = Points
           /\ UNCHANGED <<nafVars, r>>
  BY <1>1, <1>4, StartChunksKeeps
<1> QED  BY <1>2, <1>3, <1>4 DEF Start

\* A byte of the scalar is recoded.
LEMMA BuildNafKeeps == ASSUME MultiexpInv, BuildNaf PROVE MultiexpInv'
<1> DEFINE sc == call.scalars[1]
           w == Row(sc, byte)
<1>1. /\ phase = "naf" /\ BuildByte(sc)
      /\ UNCHANGED <<call, phase, chunk, bits, todo, accs, sall, upper, results, r, onGpu>>
  BY DEF BuildNaf
<1>2. TypeOK /\ Recoding /\ Collected
  BY DEF MultiexpInv
<1>3. n = 1 /\ byte \in 0 .. ScalarBytes + 2 /\ byte \in Nat /\ Recoded(sc, naf, state)
  BY <1>1, <1>2, ScalarSizes DEF Recoding
<1>4. naf \in Seq({0, 1, 2}) /\ Len(naf) = ByteBits * byte
  BY <1>2 DEF TypeOK, NafTypeOK
<1>5. sc \in 0 .. 2 ^ ScalarBits - 1
  <2>1. call \in Calls /\ 1 \in Points
    BY <1>2, <1>3 DEF TypeOK, Points
  <2> QED  BY <2>1, CallFacts
<1>6. RowOk(sc, naf, w, ByteBits)
  <2> HIDE DEF sc
  <2> QED  BY <1>3, <1>4, <1>5, RowIs
<1>7. /\ byte < ScalarBytes + 2 /\ naf' = naf \o w.digits /\ byte' = byte + 1
      /\ state'.last = w.last /\ state'.carry = w.carry
  BY <1>1 DEF BuildByte
<1> HIDE DEF w
<1>8. Recoded(sc, naf', w) /\ Recoded(sc, naf', state')
  <2>1. Recoded(sc, naf', w)
    BY <1>6, <1>7 DEF RowOk
  <2> QED  BY <1>7, <2>1, Zenon DEF Recoded, IsLeft, Carried
<1>9. byte' \in 0 .. ScalarBytes + 2
  BY <1>3, <1>7, ScalarSizes
<1>10. NafTypeOK'
  <2>1. naf' \in Seq({0, 1, 2}) /\ \A i \in 1 .. Len(naf') - 1 : naf'[i] = 0 \/ naf'[i + 1] = 0
    BY <1>8 DEF Recoded
  <2>2. Len(naf') = ByteBits * byte'
    <3> DEFINE ds == w.digits
    <3>1. ds \in Seq({0, 1, 2}) /\ Len(ds) = ByteBits
      BY <1>6 DEF RowOk
    <3> HIDE DEF ds
    <3>2. Len(naf \o ds) = Len(naf) + ByteBits
      BY <1>4, <3>1
    <3>3. ByteBits * (byte + 1) = (ByteBits * byte) + ByteBits
      BY <1>3, ScalarSizes
    <3> QED  BY <1>4, <1>7, <3>2, <3>3 DEF ds
  <2> QED  BY <2>1, <2>2 DEF NafTypeOK
<1>11. /\ n' = n /\ Points' = Points /\ nChunks' = nChunks /\ AllTerms' = AllTerms
       /\ \A c : ChunkSum(c)' = ChunkSum(c)
  BY <1>1, CallKept
<1>12. TypeOK'
  <2>1. accs' = <<>> \/ AccTypes'
    BY <1>1, <1>2, <1>11, CallKept DEF TypeOK, AccTypes, ThreadIds
  <2> QED  BY <1>1, <1>2, <1>10, <2>1, TypesStepNaf DEF TypeOK
<1>13. Recoding'
  <2>1. Recoded(call.scalars[1], naf, state)'
    BY <1>1, <1>8 DEF Recoded, IsLeft, Carried, Bit, ScalarBits
  <2> QED  BY <1>1, <1>3, <1>9, <1>11, <2>1 DEF Recoding
<1>14. Collected'
  <2>1. \A k \in 1 .. Len(results') : Cong(results'[k], ChunkSum(k - 1)')
    BY <1>1, <1>2, <1>11 DEF Collected
  <2> QED  BY <1>1, <1>2, <1>11, <2>1 DEF Collected
<1>15. Processing' /\ Reducing'
  BY <1>1 DEF Processing, Reducing
<1> QED  BY <1>12, <1>13, <1>14, <1>15 DEF MultiexpInv

\* The digits are walked, from the highest.
LEMMA MulByScalarKeeps == ASSUME MultiexpInv, MulByScalar PROVE MultiexpInv'
<1> DEFINE sc == call.scalars[1]
           base == call.bases[1]
<1>1. /\ phase = "naf" /\ byte = ScalarBytes + 2 /\ r' = nafMulByScalar(base) /\ phase' = "done"
      /\ UNCHANGED <<nafVars, call, chunk, bits, todo, accs, sall, upper, results, onGpu>>
  BY DEF MulByScalar
<1>2. TypeOK /\ Recoding /\ Collected
  BY DEF MultiexpInv
<1>3. n = 1 /\ Recoded(sc, naf, state) /\ Len(naf) = ByteBits * byte
  BY <1>1, <1>2 DEF Recoding, TypeOK, NafTypeOK
<1>4. /\ sc \in 0 .. 2 ^ ScalarBits - 1 /\ base \in Field /\ base \in Int /\ sc \in Nat
      /\ Points = {1}
  <2>1. call \in Calls /\ Points = {1}
    BY <1>2, <1>3 DEF TypeOK, Points
  <2> QED  BY <2>1, CallFacts
<1>5. Len(naf) >= ScalarBits + 2
  <2>1. ByteBits * (ScalarBytes + 2) = (ScalarBytes * ByteBits) + (2 * ByteBits)
    BY ScalarSizes
  <2>2. ScalarBytes * ByteBits \in Nat /\ ByteBits \in Nat \ {0}
    BY ScalarSizes DEF ScalarBits
  <2>3. Len(naf) = ScalarBits + (2 * ByteBits) /\ ScalarBits \in Nat
    BY <1>1, <1>3, <2>1, <2>2 DEF ScalarBits
  <2> QED  BY <2>2, <2>3
<1>6. r' \in Field /\ Cong(r', sc * base)
  <2> HIDE DEF sc, base
  <2> QED  BY <1>1, <1>3, <1>4, <1>5, MulIs
<1>7. Sum(AllTerms, Points) = sc * base
  <2>1. AllTerms[1] = sc * base /\ sc * base \in Int
    BY <1>4 DEF AllTerms
  <2>2. 1 \in Points /\ IsFiniteSet(Points) /\ \A i \in Points : i # 1 => AllTerms[i] = 0
    BY <1>4, FS_Singleton
  <2> HIDE DEF sc, base
  <2> QED  BY <2>1, <2>2, SumSingle
<1>8. /\ n' = n /\ Points' = Points /\ nChunks' = nChunks /\ AllTerms' = AllTerms
      /\ \A c : ChunkSum(c)' = ChunkSum(c)
  BY <1>1, CallKept
<1>9. TypeOK'
  <2>1. accs' = <<>> \/ AccTypes'
    BY <1>1, <1>2, <1>8, CallKept DEF TypeOK, AccTypes, ThreadIds
  <2> QED  BY <1>1, <1>2, <1>6, <2>1, TypesStep DEF TypeOK
<1>10. Collected'
  <2>1. \A k \in 1 .. Len(results') : Cong(results'[k], ChunkSum(k - 1)')
    BY <1>1, <1>2, <1>8 DEF Collected
  <2>2. Cong(r', Sum(AllTerms, Points)')
    BY <1>6, <1>7, <1>8
  <2> QED  BY <1>1, <1>2, <1>8, <2>1, <2>2 DEF Collected
<1>11. Recoding' /\ Processing' /\ Reducing'
  BY <1>1 DEF Recoding, Processing, Reducing
<1> QED  BY <1>9, <1>10, <1>11 DEF MultiexpInv

\* The library computes a group element.
LEMMA GpuMsmKeeps == ASSUME MultiexpInv, GpuMsm PROVE MultiexpInv'
<1> DEFINE u == Inv(Radix % Q)
           f == [i \in Points |-> call.scalars[i] * u * call.bases[i]]
<1>1. /\ phase = "start" /\ r' = Total(f) /\ phase' = "done" /\ onGpu' = TRUE
      /\ UNCHANGED <<nafVars, call, chunk, bits, todo, accs, sall, upper, results>>
  BY DEF GpuMsm
<1>2. TypeOK /\ Collected
  BY DEF MultiexpInv
<1>3. call \in Calls
  BY <1>2 DEF TypeOK
<1>4. u \in Int
  <2>1. Radix % Q \in Field \ {0}
    BY SizesAssumption, ResidueType
  <2> HIDE DEF u
  <2>2. Inv(Radix % Q) \in Field
    BY <2>1, UnitInverse
  <2> QED  BY <2>2, FieldResidue DEF u
<1>5. r' \in Field
  <2>1. IsFiniteSet(Points) /\ \A i \in Points : call.scalars[i] \in Int /\ call.bases[i] \in Int
    BY <1>3, CallFacts
  <2> HIDE DEF u
  <2>2. DOMAIN f = Points /\ \A i \in Points : f[i] \in Int
    BY <1>4, <2>1
  <2> HIDE DEF f
  <2> QED  BY <1>1, <2>1, <2>2, TotalIs
<1>6. /\ n' = n /\ Points' = Points /\ nChunks' = nChunks
      /\ \A c : ChunkSum(c)' = ChunkSum(c)
  BY <1>1, CallKept
<1>7. TypeOK'
  <2>1. accs' = <<>> \/ AccTypes'
    BY <1>1, <1>2, <1>6, CallKept DEF TypeOK, AccTypes, ThreadIds
  <2> QED  BY <1>1, <1>2, <1>5, <2>1, TypesStep DEF TypeOK
<1>8. Collected'
  <2>1. \A k \in 1 .. Len(results') : Cong(results'[k], ChunkSum(k - 1)')
    BY <1>1, <1>2, <1>6 DEF Collected
  <2> QED  BY <1>1, <1>2, <1>6, <2>1 DEF Collected
<1>9. Recoding' /\ Processing' /\ Reducing'
  BY <1>1 DEF Recoding, Processing, Reducing
<1> QED  BY <1>7, <1>8, <1>9 DEF MultiexpInv

\* Steps that change nothing.
LEMMA UnchangedKeeps == ASSUME MultiexpInv, UNCHANGED vars PROVE MultiexpInv'
<1>1. /\ UNCHANGED <<nafVars, call, phase, chunk, bits, todo, accs, sall, upper, results, r, onGpu>>
      /\ byte' = byte /\ state' = state /\ naf' = naf
  BY DEF vars, nafVars
<1>2. TypeOK'
  BY <1>1 DEF MultiexpInv, TypeOK, NafTypeOK, ThreadIds, nChunks, bitsPerChunk, Points, Buckets, n
<1>3. Recoding'
  BY <1>1 DEF MultiexpInv, Recoding, NafIdle, n, Recoded, IsLeft, Carried, Bit
<1>4. /\ Points' = Points /\ nChunks' = nChunks /\ AllTerms' = AllTerms /\ Buckets' = Buckets
      /\ bitsPerChunk' = bitsPerChunk /\ \A c : ChunkSum(c)' = ChunkSum(c)
      /\ \A B : Weighted(B)' = Weighted(B)
      /\ \A W, v, c : Having(W, v, c)' = Having(W, v, c)
  BY <1>1, CallKept
<1>5. AccTypes' = AccTypes /\ \A v : BucketOf(v)' = BucketOf(v)
  BY <1>1, <1>4, Zenon DEF AccTypes, BucketOf, ThreadIds
<1>6. Worth' = Worth
  BY <1>1, <1>4, Zenon DEF Worth, ThreadIds
<1>7. Processing'
  BY <1>1, <1>4, <1>5, Zenon DEF MultiexpInv, Processing, ThreadIds
<1>8. Reducing'
  BY <1>1, <1>4, <1>5, <1>6, Zenon DEF MultiexpInv, Reducing, ThreadIds
<1>9. Collected'
  BY <1>1, <1>4, Zenon DEF MultiexpInv, Collected
<1> QED  BY <1>2, <1>3, <1>7, <1>8, <1>9 DEF MultiexpInv

--------------------------------------------------------------------------------
\* The invariant holds of the first state and no step breaks it.
LEMMA InitKeeps == Init => MultiexpInv
<1> SUFFICES ASSUME Init PROVE MultiexpInv
  OBVIOUS
<1>1. /\ call \in Calls /\ phase = "start" /\ chunk = 0 /\ bits = 0 /\ todo = {}
      /\ accs = <<>> /\ upper = 0 /\ results = <<>> /\ r = 0 /\ onGpu = FALSE
      /\ byte = 0 /\ naf = <<>>
  BY DEF Init, NafIdle
<1>2. nChunks \in Nat \ {0} /\ bitsPerChunk \in Nat
  BY <1>1, CallFacts, ChunkBits
<1>3. NafTypeOK
  <2>1. ByteBits * 0 = 0
    BY ScalarSizes
  <2> QED  BY <1>1, <2>1 DEF NafTypeOK
<1>4. 0 \in Field
  BY FieldAssumption DEF Field
<1>5. TypeOK
  <2>1. chunk \in 0 .. nChunks - 1 /\ bits \in 0 .. bitsPerChunk
    BY <1>1, <1>2
  <2>2. results \in Seq(Field) /\ Len(results) <= nChunks
    BY <1>1, <1>2
  <2>3. upper \in Field /\ r \in Field /\ onGpu \in BOOLEAN /\ todo \subseteq Points \cup Buckets
    BY <1>1, <1>4
  <2> QED  BY <1>1, <1>3, <2>1, <2>2, <2>3, Zenon DEF TypeOK
<1>6. Recoding /\ Processing /\ Reducing
  BY <1>1 DEF Init, Recoding, Processing, Reducing
<1>7. Collected
  BY <1>1, <1>2 DEF Collected
<1> QED  BY <1>5, <1>6, <1>7 DEF MultiexpInv

\* Every step keeps the invariant.
LEMMA NextKeeps == MultiexpInv /\ [Next]_vars => MultiexpInv'
<1> SUFFICES ASSUME MultiexpInv, [Next]_vars PROVE MultiexpInv'
  OBVIOUS
<1>1. CASE GpuMsm
  BY <1>1, GpuMsmKeeps
<1>2. CASE Start
  BY <1>2, StartKeeps
<1>3. CASE BuildNaf
  BY <1>3, BuildNafKeeps
<1>4. CASE MulByScalar
  BY <1>4, MulByScalarKeeps
<1>5. ASSUME NEW i \in todo, NEW t \in ThreadIds, Process(i, t) PROVE MultiexpInv'
  BY <1>5, ProcessKeeps
<1>6. CASE Pack
  BY <1>6, PackKeeps
<1>7. ASSUME NEW i \in todo, NEW t \in ThreadIds, Fold(i, t) PROVE MultiexpInv'
  BY <1>7, FoldKeeps
<1>8. CASE Recurse
  BY <1>8, RecurseKeeps
<1>9. CASE EndReduce
  BY <1>9, EndReduceKeeps
<1>10. CASE Horner
  BY <1>10, HornerKeeps
<1>11. CASE Finished
  BY <1>11, UnchangedKeeps DEF Finished
<1>12. CASE UNCHANGED vars
  BY <1>12, UnchangedKeeps
<1> QED  BY <1>1, <1>2, <1>3, <1>4, <1>5, <1>6, <1>7, <1>8, <1>9, <1>10, <1>11, <1>12 DEF Next

\* The invariant holds of every state of every call.
LEMMA InvariantHolds == Spec => []MultiexpInv
BY InitKeeps, NextKeeps, PTL DEF Spec

\* Every variable keeps its type, and of two neighbouring digits of a recoded
\* scalar one is zero, across the bytes of the scalar too (buildNaf).
THEOREM TypesHold == Spec => []TypeOK
<1>1. MultiexpInv => TypeOK
  BY DEF MultiexpInv
<1> QED  BY <1>1, InvariantHolds, PTL

\* While the points are processed, the buckets of a value hold between the threads
\* the bases processed that have this value in the chunk, and nothing of the chunks
\* before, whichever thread runs which body (processChunk, packThreads, reduce).
THEOREM BucketsSum == Spec => []BucketSums
<1>1. MultiexpInv => BucketSums
  <2> SUFFICES ASSUME MultiexpInv, phase = "process", NEW v \in Buckets \ {0}
               PROVE  Total([t \in ThreadIds |-> accs[t][v]]) =
                      Total([i \in {j \in Points \ todo : getChunk(call.scalars[j], chunk) = v} |->
                               call.bases[i]])
    BY DEF BucketSums
  <2> DEFINE S == Having(Points \ todo, v, chunk)
             h == [i \in S |-> call.bases[i]]
  <2>1. /\ AccTypes /\ call \in Calls
        /\ Cong(Sum(BucketOf(v), ThreadIds), Sum(call.bases, S))
    BY DEF MultiexpInv, Processing, TypeOK
  <2>2. IsFiniteSet(ThreadIds) /\ DOMAIN BucketOf(v) = ThreadIds
        /\ \A t \in ThreadIds : BucketOf(v)[t] \in Int
    <3>1. IsFiniteSet(ThreadIds)
      BY SizesAssumption, FS_Interval DEF ThreadIds
    <3>2. \A t \in ThreadIds : accs[t][v] \in Field
      BY <2>1 DEF AccTypes
    <3> QED  BY <3>1, <3>2, FieldResidue DEF BucketOf
  <2>3. IsFiniteSet(S) /\ \A i \in S : call.bases[i] \in Int
    <3>1. S \subseteq Points
      BY DEF Having
    <3>2. IsFiniteSet(Points) /\ \A i \in Points : call.bases[i] \in Int
      BY <2>1, CallFacts
    <3> HIDE DEF S
    <3> QED  BY <3>1, <3>2, FS_Subset
  <2> HIDE DEF S
  <2>4. DOMAIN h = S /\ \A i \in S : h[i] = call.bases[i] /\ h[i] \in Int
    BY <2>3
  <2> HIDE DEF h
  <2>5. Total(BucketOf(v)) = Sum(BucketOf(v), ThreadIds) % Q
    BY <2>2, TotalIs
  <2>6. Total(h) = Sum(h, S) % Q
    BY <2>3, <2>4, TotalIs
  <2>7. Sum(h, S) = Sum(call.bases, S)
    <3> DEFINE b == call.bases
    <3>1. \A i \in S : h[i] = b[i] /\ h[i] \in Int /\ b[i] \in Int
      BY <2>3, <2>4
    <3> HIDE DEF b
    <3>2. Sum(h, S) = Sum(b, S)
      BY <2>3, <3>1, SumEqual
    <3> QED  BY <3>2 DEF b
  <2>8. Total(BucketOf(v)) = Total(h)
    BY <2>1, <2>5, <2>6, <2>7 DEF Cong
  <2> QED  BY <2>8, Zenon DEF BucketOf, h, S, Having
<1> QED  BY <1>1, InvariantHolds, PTL

\* On the CPU the kernel computes the sum of the scalars times the bases, however
\* its loops are scheduled (multiexp), and a single scalar as well (nafMulByScalar).
THEOREM CpuComputes == Spec => []CpuCorrect
<1>1. MultiexpInv => CpuCorrect
  <2> SUFFICES ASSUME MultiexpInv, phase = "done", ~ onGpu PROVE r = Expected
    BY DEF CpuCorrect
  <2>1. call \in Calls /\ r \in Field /\ Cong(r, Sum(AllTerms, Points))
    BY DEF MultiexpInv, TypeOK, Collected
  <2>2. /\ IsFiniteSet(Points) /\ DOMAIN AllTerms = Points
        /\ \A i \in Points : AllTerms[i] \in Int
    <3>1. \A i \in Points : call.scalars[i] \in Int /\ call.bases[i] \in Int
      BY <2>1, CallFacts
    <3>2. IsFiniteSet(Points)
      BY <2>1, CallFacts
    <3> QED  BY <3>1, <3>2 DEF AllTerms
  <2>3. Total(AllTerms) = Sum(AllTerms, Points) % Q
    BY <2>2, TotalIs
  <2>4. r % Q = r
    BY <2>1, FieldResidue
  <2>5. r = Total(AllTerms)
    BY <2>1, <2>3, <2>4 DEF Cong
  <2> QED  BY <2>5 DEF Expected, AllTerms
<1> QED  BY <1>1, InvariantHolds, PTL
================================================================================
