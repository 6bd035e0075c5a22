-------------------------------- MODULE FftProofs -------------------------------
(***************************************************************************)
(* The table of roots and the transforms, for every prime field, every     *)
(* number of spans, every size and every input.                            *)
(***************************************************************************)
EXTENDS Fft, FieldProofs

Entries   == 0 .. nRoots - 1
Filled(i) == table[i] = Pow(Root1, i)

\* The table while it is built, and after.
Table ==
  /\ nSpan \in SpanCounts \cup {0}
  /\ table \in [Entries -> Field]
  /\ Filled(0) /\ Filled(1)

\* What each span has filled.
Progress ==
  /\ at \in [Spans -> 0 .. nRoots]
  /\ \A k \in Spans : /\ start(k) <= at[k]
                      /\ start(k) < at[k] => at[k] <= end(k)
                      /\ \A i \in Entries : start(k) <= i /\ i < at[k] => Filled(i)

\* What a span has made of its first power: that of the bits it is done with.
Raising(k) ==
  /\ exp[k].copyBase \in {Unset, Root1}
  /\ exp[k].bits \in 0 .. Bits(k)
  /\ start(k) > 0 => exp[k].bits > 0
  /\ start(k) > 0 /\ exp[k].bits < Bits(k) =>
       table[start(k)] = Pow(Root1, start(k) \div 2 ^ exp[k].bits)

Raisings ==
  /\ exp \in [Spans -> [copyBase : Field, bits : 0 .. logRoots + 1]]
  /\ \A k \in Spans : at[k] = start(k) /\ start(k) < end(k) => Raising(k)

\* Without spans the table is complete.
Complete == nSpan = 0 => \A i \in Entries : Filled(i)

TableInv == Table /\ Progress /\ Raisings /\ Complete

\* The powers of the generator of the table.
LEMMA RootsTyped ==
  /\ nRoots \in Nat /\ nRoots >= 2 /\ Root1 \in Int
  /\ \A i \in Nat : Pow(Root1, i) \in Field /\ Pow(Root1, i) \in Int
  /\ Pow(Root1, 0) = 1 /\ Pow(Root1, 1) = Root1
  /\ \A i \in Nat : Pow(Root1, i + 1) = Mul(Pow(Root1, i), Root1)
<1>1. nRoots \in Nat /\ nRoots >= 2
  <2>1. logRoots - 1 \in Nat /\ (logRoots - 1) + 1 = logRoots
    BY LogRoots
  <2>2. 2 ^ (logRoots - 1) \in Nat \ {0} /\ 2 ^ ((logRoots - 1) + 1) = 2 * 2 ^ (logRoots - 1)
    BY <2>1, TwoExp
  <2> QED  BY <2>1, <2>2 DEF nRoots
<1>2. Root1 \in Int /\ Root1 \in Field
  BY RootOrder
<1>3. Pow(Root1, 1) = Root1
  <2>1. Pow(Root1, 0 + 1) = Mul(Pow(Root1, 0), Root1) /\ Pow(Root1, 0) = 1
    BY <1>2, PowFacts
  <2> QED  BY <1>2, <2>1, MulFacts
<1> QED  BY <1>1, <1>2, <1>3, PowFacts

\* The spans cover the table.
LEMMA SpanBounds ==
  ASSUME nSpan \in SpanCounts
  PROVE  /\ nSpan \in Nat \ {0} /\ increment \in Nat
         /\ \A k \in Spans : start(k) \in 0 .. nRoots /\ end(k) \in 0 .. nRoots
         /\ \A i \in Entries : i >= 2 => \E k \in Spans : start(k) <= i /\ i < end(k)
<1> DEFINE m == increment
<1>1. nSpan \in Nat \ {0} /\ nRoots \in Nat /\ nRoots >= 2
  BY SpansAssumption, RootsTyped
<1>2. m \in Nat /\ nSpan * m <= nRoots
  <2>1. nRoots = (nSpan * (nRoots \div nSpan)) + (nRoots % nSpan)
        /\ nRoots \div nSpan \in Int /\ nRoots % nSpan \in 0 .. nSpan - 1
    BY <1>1
  <2>2. \A u \in Nat \ {0}, v, w \in Int : w < u /\ u * v + w >= 0 => v >= 0
    OBVIOUS
  <2> QED  BY <1>1, <2>1, <2>2 DEF increment
<1> HIDE DEF m
<1>3. \A k \in Nat : k <= nSpan => k * m \in Nat /\ k * m <= nRoots
  <2> SUFFICES ASSUME NEW k \in Nat, k <= nSpan PROVE k * m \in Nat /\ k * m <= nRoots
    OBVIOUS
  <2>1. (nSpan - k) * m \in Nat /\ k * m \in Nat /\ nSpan - k \in Nat
    BY <1>1, <1>2
  <2>2. (nSpan - k) * m = nSpan * m - k * m
    BY <1>1, <1>2
  <2> QED  BY <1>1, <1>2, <2>1, <2>2
<1>4. ASSUME NEW k \in Spans PROVE start(k) \in 0 .. nRoots /\ end(k) \in 0 .. nRoots
  <2>1. k \in Nat /\ k <= nSpan /\ k + 1 \in Nat /\ k + 1 <= nSpan
    BY <1>1 DEF Spans
  <2>2. k * m \in 0 .. nRoots /\ (k + 1) * m \in 0 .. nRoots
    BY <1>1, <1>3, <2>1
  <2> QED  BY <1>1, <2>2 DEF start, end, m
<1>5. ASSUME NEW i \in Entries, i >= 2 PROVE \E k \in Spans : start(k) <= i /\ i < end(k)
  <2>1. i \in Nat /\ i < nRoots
    BY <1>1 DEF Entries
  <2>2. CASE i >= (nSpan - 1) * m
    <3>1. nSpan - 1 \in Spans /\ start(nSpan - 1) <= i
      BY <1>1, <1>5, <2>2 DEF Spans, start, m
    <3>2. end(nSpan - 1) = nRoots
      BY DEF end
    <3> QED  BY <2>1, <3>1, <3>2
  <2>3. CASE i < (nSpan - 1) * m
    <3>1. m \in Nat \ {0}
      BY <1>1, <1>2, <2>1, <2>3
    <3> DEFINE k == i \div m
    <3>2. k \in Int /\ k * m <= i /\ i < (k + 1) * m
      <4>1. i = (m * (i \div m)) + (i % m) /\ i \div m \in Int /\ i % m \in 0 .. m - 1
        BY <2>1, <3>1, DivMod
      <4>2. (k + 1) * m = m * k + m /\ k * m = m * k
        BY <3>1, <4>1
      <4> QED  BY <2>1, <3>1, <4>1, <4>2
    <3> HIDE DEF k
    <3>3. k \in Nat
      <4>1. \A u \in Nat \ {0}, v \in Int : (v + 1) * u > 0 => v >= 0
        OBVIOUS
      <4> QED  BY <2>1, <3>1, <3>2, <4>1
    <3>4. k < nSpan - 1
      <4>1. \A u \in Nat \ {0}, v, w \in Int : v * u < w * u => v < w
        OBVIOUS
      <4>2. k * m < (nSpan - 1) * m
        BY <1>1, <1>2, <2>1, <2>3, <3>2, <3>3
      <4> QED  BY <1>1, <3>1, <3>3, <4>1, <4>2
    <3>5. k \in Spans /\ start(k) <= i /\ end(k) = (k + 1) * m
      BY <1>1, <1>5, <3>2, <3>3, <3>4 DEF Spans, start, end, m
    <3> QED  BY <3>2, <3>5
  <2>4. (nSpan - 1) * m \in Int
    BY <1>1, <1>2
  <2> QED  BY <2>1, <2>2, <2>3, <2>4
<1> QED  BY <1>1, <1>2, <1>4, <1>5 DEF m

\* No two spans have an entry in common.
LEMMA SpansApart ==
  ASSUME nSpan \in SpanCounts, NEW k \in Spans, NEW l \in Spans, k < l
  PROVE  end(k) <= start(l)
<1> DEFINE m == increment
<1>1. nSpan \in Nat \ {0} /\ m \in Nat /\ k \in Nat /\ l \in Nat /\ k # nSpan - 1 /\ l # 0
  BY SpanBounds DEF Spans
<1>2. end(k) = (k + 1) * m /\ start(l) = l * m
  BY <1>1 DEF end, start
<1> HIDE DEF m
<1>3. l * m = (k + 1) * m + (l - (k + 1)) * m
  BY <1>1
<1>4. (l - (k + 1)) * m \in Nat /\ (k + 1) * m \in Nat
  BY <1>1
<1> QED  BY <1>2, <1>3, <1>4

\* The bits of the exponent: the highest is set.
LEMMA BitsAre ==
  ASSUME NEW k, start(k) \in 0 .. nRoots
  PROVE  /\ Bits(k) \in 0 .. logRoots + 1
         /\ start(k) > 0 => /\ Bits(k) - 1 \in Nat
                            /\ start(k) \div 2 ^ (Bits(k) - 1) = 1
<1> DEFINE e == start(k)
           d == Log2(e)
<1>1. e \in Nat /\ nRoots \in Nat /\ e <= nRoots /\ logRoots \in Nat
  BY RootsTyped, LogRoots
<1>2. CASE e = 0
  BY <1>1, <1>2 DEF Bits
<1>3. CASE e # 0
  <2> HIDE DEF e
  <2>1. d \in Nat /\ 2 ^ d <= e /\ e < 2 ^ (d + 1)
    BY <1>1, <1>3, Log2Type
  <2>2. Bits(k) = d + 1
    BY <1>3 DEF Bits, e
  <2> HIDE DEF d
  <2>3. d <= logRoots
    <3>1. SUFFICES ASSUME logRoots < d PROVE FALSE
      BY <1>1, <2>1
    <3>2. 2 ^ logRoots < 2 ^ d /\ 2 ^ d \in Nat
      BY <1>1, <2>1, <3>1, TwoExpMonotonic, TwoExp
    <3> QED  BY <1>1, <2>1, <3>2 DEF nRoots
  <2>4. e \div 2 ^ d = 1
    <3> DEFINE q == 2 ^ d
    <3>1. q \in Nat \ {0} /\ q <= e /\ e < 2 * q
      BY <2>1, TwoExp
    <3> HIDE DEF q
    <3>2. e - q \in 0 .. q - 1 /\ e = (1 * q) + (e - q)
      BY <1>1, <3>1
    <3>3. e \div q = 1
      BY <3>1, <3>2, Quotient
    <3> QED  BY <3>3 DEF q
  <2>5. (d + 1) - 1 = d
    BY <2>1
  <2> QED  BY <1>1, <2>1, <2>2, <2>3, <2>4, <2>5 DEF e
<1> QED  BY <1>2, <1>3

\* An entry that is written is in no other span.
LEMMA OthersApart ==
  ASSUME TableInv, nSpan \in SpanCounts, NEW k \in Spans, NEW l \in Spans, l # k,
         start(k) <= at[k], at[k] < end(k)
  PROVE  /\ ~ (start(l) <= at[k] /\ at[k] < at[l])
         /\ start(l) < end(l) => start(l) # at[k]
<1>1. /\ nRoots \in Nat
      /\ start(k) \in 0 .. nRoots /\ end(k) \in 0 .. nRoots
      /\ start(l) \in 0 .. nRoots /\ end(l) \in 0 .. nRoots
  BY SpanBounds, RootsTyped
<1>2. at[k] \in 0 .. nRoots /\ at[l] \in 0 .. nRoots /\ (start(l) < at[l] => at[l] <= end(l))
  BY DEF TableInv, Progress
<1>3. end(k) <= start(l) \/ end(l) <= start(k)
  <2>1. k \in Int /\ l \in Int
    BY SpanBounds DEF Spans
  <2> QED  BY <2>1, SpansApart
<1> QED  BY <1>1, <1>2, <1>3

\* What a write to the next entry of a span leaves alone: a write of anything but the
\* root to one of the first two entries is excluded.
LEMMA WriteLeaves ==
  ASSUME TableInv, nSpan \in SpanCounts, NEW k \in Spans, at[k] < end(k),
         NEW power \in Field, at[k] \in {0, 1} => power = Pow(Root1, at[k]),
         table' = [table EXCEPT ![at[k]] = power], nSpan' = nSpan
  PROVE  /\ Spans' = Spans /\ Table' /\ Complete'
         /\ \A l \in Spans : start(l)' = start(l) /\ end(l)' = end(l) /\ Bits(l)' = Bits(l)
         /\ at[k] \in Entries /\ table'[at[k]] = power
         /\ \A i \in Entries : i # at[k] => table'[i] = table[i]
         /\ \A l \in Spans : \A i \in Entries :
              start(l) <= i /\ i < at[l] => table'[i] = Pow(Root1, i)
         /\ \A l \in Spans : l # k /\ start(l) < end(l) => start(l) # at[k]
         /\ \A i \in Entries : Final(i) => table'[i] = table[i]
<1> DEFINE j == at[k]
<1>1. /\ nRoots \in Nat /\ nRoots >= 2 /\ start(k) \in Nat /\ end(k) <= nRoots /\ end(k) \in Nat
      /\ start(k) <= j /\ j \in Nat /\ nSpan # 0 /\ 0 \in Entries /\ 1 \in Entries
  BY SpanBounds, RootsTyped DEF TableInv, Progress, Entries
<1>2. j \in Entries
  BY <1>1 DEF Entries
<1>3. \A i \in Entries : table'[i] = IF i = j THEN power ELSE table[i]
  BY <1>2 DEF TableInv, Table
<1>4. table' \in [Entries -> Field]
  BY <1>2 DEF TableInv, Table
<1>5. Table'
  BY <1>1, <1>3, <1>4 DEF TableInv, Table, Filled
<1>6. Spans' = Spans
      /\ \A l \in Spans : start(l)' = start(l) /\ end(l)' = end(l) /\ Bits(l)' = Bits(l)
  BY DEF Spans, start, end, increment, Bits
<1>7. \A l \in Spans : l # k => /\ ~ (start(l) <= j /\ j < at[l])
                                /\ start(l) < end(l) => start(l) # j
  BY <1>1, OthersApart
<1>8. \A l \in Spans : ~ (start(l) <= j /\ j < at[l])
  BY <1>1, <1>7
<1>9. ASSUME NEW l \in Spans, NEW i \in Entries, start(l) <= i, i < at[l]
      PROVE  table'[i] = Pow(Root1, i) /\ table'[i] = table[i]
  <2>1. i # j
    BY <1>8, <1>9
  <2>2. Filled(i)
    BY <1>9 DEF TableInv, Progress
  <2> QED  BY <1>3, <2>1, <2>2 DEF Filled
<1>10. ASSUME NEW i \in Entries, Final(i) PROVE table'[i] = table[i]
  <2>1. CASE i \in {0, 1}
    BY <1>3, <2>1 DEF TableInv, Table, Filled
  <2>2. CASE \E l \in Spans : start(l) <= i /\ i < at[l]
    BY <1>9, <2>2
  <2> QED  BY <1>1, <1>10, <2>1, <2>2 DEF Final
<1>11. Complete'
  BY <1>1 DEF Complete
<1> QED  BY <1>2, <1>3, <1>5, <1>6, <1>7, <1>9, <1>10, <1>11

\* An entry that is done gets its root.
LEMMA EntryWritten ==
  ASSUME TableInv, nSpan \in SpanCounts, NEW k \in Spans, at[k] < end(k),
         table' = [table EXCEPT ![at[k]] = Pow(Root1, at[k])],
         at' = [at EXCEPT ![k] = @ + 1], UNCHANGED <<nSpan, exp>>
  PROVE  TableInv' /\ \A i \in Entries : Final(i) => table'[i] = table[i]
<1> DEFINE j == at[k]
<1>1. /\ j \in Nat /\ nRoots \in Nat /\ end(k) <= nRoots /\ end(k) \in Nat /\ start(k) \in Nat
      /\ start(k) <= j /\ nSpan' = nSpan /\ exp' = exp
  BY SpanBounds, RootsTyped DEF TableInv, Progress
<1>2. Pow(Root1, j) \in Field
  BY <1>1, RootsTyped
<1>3. /\ Spans' = Spans /\ Table' /\ Complete'
      /\ \A l \in Spans : start(l)' = start(l) /\ end(l)' = end(l) /\ Bits(l)' = Bits(l)
      /\ j \in Entries /\ table'[j] = Pow(Root1, j)
      /\ \A i \in Entries : i # j => table'[i] = table[i]
      /\ \A l \in Spans : \A i \in Entries :
           start(l) <= i /\ i < at[l] => table'[i] = Pow(Root1, i)
      /\ \A l \in Spans : l # k /\ start(l) < end(l) => start(l) # j
      /\ \A i \in Entries : Final(i) => table'[i] = table[i]
  BY <1>1, <1>2, WriteLeaves
<1>4. at' \in [Spans -> 0 .. nRoots] /\ \A l \in Spans : at'[l] = IF l = k THEN j + 1 ELSE at[l]
  BY <1>1 DEF TableInv, Progress
<1>5. \A i \in Entries : i \in Int /\ (i < j + 1 => i = j \/ i < j)
  BY <1>1 DEF Entries
<1> HIDE DEF j
<1>6. Progress'
  <2>1. ASSUME NEW l \in Spans
        PROVE  /\ start(l) <= at'[l]
               /\ start(l) < at'[l] => at'[l] <= end(l)
               /\ \A i \in Entries : start(l) <= i /\ i < at'[l] => table'[i] = Pow(Root1, i)
    <3>1. start(l) <= at[l] /\ (start(l) < at[l] => at[l] <= end(l))
      BY DEF TableInv, Progress
    <3>2. CASE l = k
      <4>1. at'[l] = j + 1 /\ j < end(l) /\ start(l) <= j /\ at[l] = j
        BY <1>1, <1>4, <3>2 DEF j
      <4>2. start(l) <= j + 1 /\ j + 1 <= end(l)
        BY <1>1, <3>2, <4>1
      <4> QED  BY <1>3, <1>5, <4>1, <4>2
    <3>3. CASE l # k
      BY <1>3, <1>4, <3>1, <3>3
    <3> QED  BY <3>2, <3>3
  <2> QED  BY <1>3, <1>4, <2>1 DEF Progress, Filled
<1>7. Raisings'
  <2>1. exp' \in [Spans -> [copyBase : Field, bits : 0 .. logRoots + 1]]
    BY <1>1 DEF TableInv, Raisings
  <2>2. ASSUME NEW l \in Spans, at'[l] = start(l), start(l) < end(l) PROVE Raising(l)'
    <3>1. l # k
      BY <1>1, <1>4, <2>2
    <3>2. Raising(l) /\ start(l) # j
      BY <1>3, <1>4, <2>2, <3>1 DEF TableInv, Raisings
    <3>3. start(l) \in Entries
      BY <2>2, SpanBounds, RootsTyped DEF Entries
    <3> QED  BY <1>1, <1>3, <3>2, <3>3 DEF Raising
  <2> QED  BY <1>3, <2>1, <2>2 DEF Raisings
<1> QED  BY <1>3, <1>6, <1>7 DEF TableInv

\* A power that is not done is of more bits than before.
LEMMA BitRaised ==
  ASSUME TableInv, nSpan \in SpanCounts, NEW k \in Spans, at[k] = start(k), at[k] < end(k),
         exp[k].bits > 1,
         table' = [table EXCEPT ![at[k]] = Pow(Root1, start(k) \div 2 ^ (exp[k].bits - 1))],
         exp' = [exp EXCEPT ![k].bits = @ - 1], UNCHANGED <<nSpan, at>>
  PROVE  TableInv' /\ \A i \in Entries : Final(i) => table'[i] = table[i]
<1> DEFINE j == at[k]
           b == exp[k].bits
           power == Pow(Root1, start(k) \div 2 ^ (b - 1))
<1>1. /\ j \in Nat /\ nRoots \in Nat /\ end(k) <= nRoots /\ end(k) \in Nat /\ start(k) \in Nat
      /\ start(k) <= j /\ nSpan' = nSpan /\ at' = at /\ start(k) \in 0 .. nRoots
  BY SpanBounds, RootsTyped DEF TableInv, Progress
<1>2. Raising(k) /\ exp \in [Spans -> [copyBase : Field, bits : 0 .. logRoots + 1]]
      /\ logRoots \in Nat
  BY LogRoots DEF TableInv, Raisings
<1>3. b \in Nat /\ b <= Bits(k) /\ b - 1 \in Nat /\ b > 1 /\ Bits(k) \in Nat
      /\ Bits(k) <= logRoots + 1
  <2>1. Bits(k) \in 0 .. logRoots + 1
    BY <1>1, BitsAre
  <2>2. b \in 0 .. Bits(k)
    BY <1>2 DEF Raising
  <2> HIDE DEF b
  <2>3. b > 1
    BY DEF b
  <2> QED  BY <1>2, <2>1, <2>2, <2>3
<1>4. power \in Field
  <2>1. 2 ^ (b - 1) \in Nat \ {0}
    BY <1>3, TwoExp
  <2>2. start(k) \div 2 ^ (b - 1) \in Nat
    BY <1>1, <2>1, DivType
  <2> QED  BY <2>2, RootsTyped
<1>5. j \notin {0, 1}
  <2>1. SUFFICES ASSUME start(k) \in {0, 1} PROVE FALSE
    OBVIOUS
  <2>2. CASE start(k) = 0
    <3>1. Bits(k) = 0
      BY <2>2 DEF Bits
    <3> HIDE DEF b
    <3> QED  BY <1>3, <3>1
  <2>3. CASE start(k) = 1
    <3>1. Bits(k) - 1 \in Nat /\ 1 \div 2 ^ (Bits(k) - 1) = 1
      BY <1>1, <2>3, BitsAre
    <3>2. 2 ^ 0 = 1 /\ 2 ^ 0 < 2 ^ (Bits(k) - 1) /\ 2 ^ (Bits(k) - 1) \in Nat
      <4> DEFINE d == Bits(k) - 1
      <4>1. d \in Nat /\ 0 < d
        <5> HIDE DEF b
        <5> QED  BY <1>3
      <4> HIDE DEF d
      <4>2. 2 ^ 0 < 2 ^ d /\ 2 ^ d \in Nat
        BY <4>1, TwoExpMonotonic, TwoExp
      <4>3. 2 ^ 0 = 1
        OBVIOUS
      <4> QED  BY <4>2, <4>3 DEF d
    <3>3. \A q \in Nat : q > 1 => 1 \div q = 0
      OBVIOUS
    <3> QED  BY <3>1, <3>2, <3>3
  <2> QED  BY <2>1, <2>2, <2>3
<1> HIDE DEF power
<1>6. /\ Spans' = Spans /\ Table' /\ Complete'
      /\ \A l \in Spans : start(l)' = start(l) /\ end(l)' = end(l) /\ Bits(l)' = Bits(l)
      /\ j \in Entries /\ table'[j] = power
      /\ \A i \in Entries : i # j => table'[i] = table[i]
      /\ \A l \in Spans : \A i \in Entries :
           start(l) <= i /\ i < at[l] => table'[i] = Pow(Root1, i)
      /\ \A l \in Spans : l # k /\ start(l) < end(l) => start(l) # j
      /\ \A i \in Entries : Final(i) => table'[i] = table[i]
  <2>1. table' = [table EXCEPT ![at[k]] = power]
    BY DEF power
  <2> QED  BY <1>1, <1>4, <1>5, <2>1, WriteLeaves
<1>7. Progress'
  BY <1>1, <1>6 DEF TableInv, Progress, Filled
<1>8. /\ exp' \in [Spans -> [copyBase : Field, bits : 0 .. logRoots + 1]]
      /\ exp'[k].copyBase = exp[k].copyBase /\ exp'[k].bits = b - 1
      /\ \A l \in Spans : l # k => exp'[l] = exp[l]
  <2>1. b - 1 \in 0 .. logRoots + 1
    <3> HIDE DEF b
    <3> QED  BY <1>2, <1>3
  <2> QED  BY <1>2, <2>1
<1>9. Raisings'
  <2>1. ASSUME NEW l \in Spans, at[l] = start(l), start(l) < end(l) PROVE Raising(l)'
    <3>1. Raising(l)
      BY <2>1 DEF TableInv, Raisings
    <3>2. CASE l = k
      <4>1. /\ exp'[k].copyBase \in {Unset, Root1} /\ exp'[k].bits \in 0 .. Bits(k)
            /\ exp'[k].bits > 0
        <5>1. exp[k].copyBase \in {Unset, Root1}
          BY <1>2 DEF Raising
        <5> HIDE DEF b
        <5>2. b - 1 \in 0 .. Bits(k) /\ b - 1 > 0
          BY <1>3
        <5> QED  BY <1>8, <5>1, <5>2
      <4>2. table'[start(k)] = Pow(Root1, start(k) \div 2 ^ exp'[k].bits)
        BY <1>6, <1>8 DEF power
      <4> QED  BY <1>6, <3>2, <4>1, <4>2 DEF Raising
    <3>3. CASE l # k
      <4>1. start(l) \in Entries /\ start(l) # j
        BY <1>6, <2>1, <3>3, SpanBounds, RootsTyped DEF Entries
      <4>2. exp'[l] = exp[l] /\ table'[start(l)] = table[start(l)]
        BY <1>6, <1>8, <3>3, <4>1
      <4>3. start(l)' = start(l) /\ Bits(l)' = Bits(l)
        BY <1>6
      <4> QED  BY <3>1, <4>2, <4>3 DEF Raising
    <3> QED  BY <3>2, <3>3
  <2> QED  BY <1>1, <1>6, <1>8, <2>1 DEF Raisings
<1> QED  BY <1>6, <1>7, <1>9 DEF TableInv

\* The square, times the base if the next bit is set, has one bit more.
LEMMA NextBit ==
  ASSUME NEW e \in Nat, NEW b \in Nat \ {0}
  PROVE  LET r == Pow(Root1, e \div 2 ^ b)
             power == Pow(Root1, e \div 2 ^ (b - 1)) IN
         power = IF (e \div 2 ^ (b - 1)) % 2 = 1 THEN Mul(Mul(r, r), Root1) ELSE Mul(r, r)
<1> DEFINE h == e \div 2 ^ (b - 1)
           m == e \div 2 ^ b
<1>1. b - 1 \in Nat /\ (b - 1) + 1 = b /\ 2 ^ (b - 1) \in Nat \ {0} /\ 2 ^ b = 2 * 2 ^ (b - 1)
  <2>1. b - 1 \in Nat /\ (b - 1) + 1 = b
    OBVIOUS
  <2> QED  BY <2>1, TwoExp
<1>2. h \in Nat
  BY <1>1, DivType
<1>3. m = h \div 2
  <2> DEFINE p == 2 ^ (b - 1)
  <2>1. p \in Nat \ {0} /\ 2 ^ b = p * 2
    BY <1>1
  <2> HIDE DEF p
  <2>2. (e \div p) \div 2 = e \div (p * 2)
    BY <2>1, DivDiv
  <2> QED  BY <2>1, <2>2 DEF p
<1> HIDE DEF h, m
<1>4. m \in Nat /\ h % 2 \in {0, 1} /\ h = (m + m) + (h % 2)
  BY <1>2, <1>3, Halves
<1>5. Pow(Root1, m + m) = Mul(Pow(Root1, m), Pow(Root1, m)) /\ m + m \in Nat
  BY <1>4, RootsTyped, PowFacts
<1>6. Pow(Root1, (m + m) + 1) = Mul(Pow(Root1, m + m), Root1)
  BY <1>5, RootsTyped
<1>7. Pow(Root1, h) = IF h % 2 = 1 THEN Mul(Mul(Pow(Root1, m), Pow(Root1, m)), Root1)
                      ELSE Mul(Pow(Root1, m), Pow(Root1, m))
  <2>1. CASE h % 2 = 1
    <3>1. h = (m + m) + 1
      BY <1>4, <2>1
    <3> QED  BY <1>5, <1>6, <2>1, <3>1, Zenon
  <2>2. CASE h % 2 = 0
    <3>1. h = m + m
      BY <1>4, <2>2
    <3>2. h % 2 # 1
      BY <2>2
    <3> QED  BY <1>5, <3>1, <3>2, Zenon
  <2> QED  BY <1>4, <2>1, <2>2
<1> QED  BY <1>7 DEF h, m

\* What a span writes while it raises roots[1] to its first index.
LEMMA RaiseWrites ==
  ASSUME TableInv, nSpan \in SpanCounts, NEW k \in Spans, at[k] = start(k),
         start(k) < end(k), exp[k].copyBase # Unset, NEW power,
         power = IF start(k) = 0 THEN 1
                 ELSE IF exp[k].bits = Bits(k) THEN exp[k].copyBase
                 ELSE SquareMultiply(k)
  PROVE  IF exp[k].bits <= 1 THEN power = Pow(Root1, start(k))
         ELSE power = Pow(Root1, start(k) \div 2 ^ (exp[k].bits - 1))
<1> DEFINE e == start(k)
           b == exp[k].bits
<1>1. e \in Nat /\ e \in 0 .. nRoots /\ nRoots \in Nat
  BY SpanBounds, RootsTyped
<1>2. /\ exp[k].copyBase = Root1 /\ b \in 0 .. Bits(k)
      /\ e > 0 => b > 0
      /\ e > 0 /\ b < Bits(k) => table[e] = Pow(Root1, e \div 2 ^ b)
  BY DEF TableInv, Raisings, Raising
<1>3. Bits(k) \in Nat /\ (e > 0 => Bits(k) - 1 \in Nat /\ e \div 2 ^ (Bits(k) - 1) = 1)
  BY <1>1, BitsAre
<1>4. CASE e = 0
  <2>1. b = 0 /\ power = 1
    BY <1>2, <1>4 DEF Bits
  <2> QED  BY <1>4, <2>1, RootsTyped
<1>5. CASE e # 0
  <2>1. e > 0 /\ b \in Nat \ {0} /\ b <= Bits(k) /\ b - 1 \in Nat
    <3> HIDE DEF e, b
    <3> QED  BY <1>1, <1>2, <1>3, <1>5
  <2>2. power = Pow(Root1, e \div 2 ^ (b - 1))
    <3>1. CASE b = Bits(k)
      <4>1. power = Root1
        BY <1>2, <1>5, <3>1
      <4>2. e \div 2 ^ (b - 1) = 1
        BY <1>3, <2>1, <3>1
      <4> QED  BY <4>1, <4>2, RootsTyped
    <3>2. CASE b # Bits(k)
      <4> DEFINE r == table[e]
      <4>1. r = Pow(Root1, e \div 2 ^ b)
        <5>1. b < Bits(k)
          <6> HIDE DEF b, e
          <6> QED  BY <1>3, <2>1, <3>2
        <5> HIDE DEF b, e
        <5> QED  BY <1>2, <2>1, <5>1
      <4>2. power = IF (e \div 2 ^ (b - 1)) % 2 = 1 THEN Mul(Mul(r, r), Root1) ELSE Mul(r, r)
        BY <1>2, <1>5, <3>2 DEF SquareMultiply, bit
      <4> HIDE DEF r, e, b
      <4> QED  BY <1>1, <2>1, <4>1, <4>2, NextBit
    <3> QED  BY <3>1, <3>2
  <2>3. b <= 1 => e \div 2 ^ (b - 1) = e
    <3>1. SUFFICES ASSUME b <= 1 PROVE e \div 2 ^ (b - 1) = e
      OBVIOUS
    <3>2. b - 1 = 0 /\ 2 ^ 0 = 1
      BY <2>1, <3>1
    <3>3. e \div 1 = e
      BY <1>1
    <3> QED  BY <3>2, <3>3
  <2> HIDE DEF e, b
  <2>4. CASE b <= 1
    BY <2>2, <2>3, <2>4 DEF e, b
  <2>5. CASE ~ (b <= 1)
    BY <2>2, <2>5 DEF e, b
  <2> QED  BY <2>4, <2>5
<1> QED  BY <1>4, <1>5

\* A step of a span.
LEMMA ConstructStep ==
  ASSUME TableInv, Construct
  PROVE  /\ TableInv' /\ nSpan \in SpanCounts /\ nSpan' = nSpan
         /\ \A i \in Entries : Final(i) => table'[i] = table[i]
<1>1. PICK k \in Spans : CopyBase(k) \/ Raise(k) \/ Following(k)
  BY DEF Construct
<1>2. nSpan \in SpanCounts
  BY <1>1 DEF TableInv, Table, Spans
<1>3. start(k) \in Nat /\ at[k] \in Nat /\ end(k) \in Nat /\ end(k) <= nRoots
      /\ nRoots \in Nat /\ start(k) <= at[k]
  BY <1>2, SpanBounds, RootsTyped DEF TableInv, Progress
<1>4. table[1] = Root1
  BY RootsTyped DEF TableInv, Table, Filled
<1>5. CASE CopyBase(k)
  <2>1. /\ nSpan' = nSpan /\ table' = table /\ at' = at
        /\ exp' = [exp EXCEPT ![k].copyBase = Root1]
    BY <1>4, <1>5 DEF CopyBase
  <2>2. Spans' = Spans
        /\ \A l \in Spans : start(l)' = start(l) /\ end(l)' = end(l) /\ Bits(l)' = Bits(l)
    BY <2>1 DEF Spans, start, end, increment, Bits
  <2>3. /\ exp' \in [Spans -> [copyBase : Field, bits : 0 .. logRoots + 1]]
        /\ exp'[k].copyBase = Root1 /\ exp'[k].bits = exp[k].bits
        /\ \A l \in Spans : l # k => exp'[l] = exp[l]
    BY <2>1, RootOrder DEF TableInv, Raisings
  <2>4. \A l \in Spans : at[l] = start(l) /\ start(l) < end(l) => Raising(l)'
    <3> SUFFICES ASSUME NEW l \in Spans, at[l] = start(l), start(l) < end(l) PROVE Raising(l)'
      OBVIOUS
    <3>1. Raising(l)
      BY DEF TableInv, Raisings
    <3>2. exp'[l].bits = exp[l].bits /\ exp'[l].copyBase \in {Unset, Root1}
      BY <2>3, <3>1 DEF Raising
    <3> QED  BY <2>1, <2>2, <3>1, <3>2 DEF Raising
  <2>5. Raisings'
    BY <2>1, <2>2, <2>3, <2>4 DEF Raisings
  <2>6. Table' /\ Complete' /\ Progress'
    BY <2>1, <2>2 DEF TableInv, Table, Complete, Progress, Filled
  <2> QED  BY <1>2, <2>1, <2>5, <2>6 DEF TableInv
<1>6. CASE Raise(k)
  <2> DEFINE power == IF start(k) = 0 THEN 1
                      ELSE IF exp[k].bits = Bits(k) THEN exp[k].copyBase
                      ELSE SquareMultiply(k)
  <2>1. RaiseTo(k, power)
    BY <1>6 DEF Raise
  <2>2. at[k] = start(k) /\ start(k) < end(k) /\ exp[k].copyBase # Unset
    BY <2>1 DEF RaiseTo
  <2>3. IF exp[k].bits <= 1 THEN power = Pow(Root1, start(k))
        ELSE power = Pow(Root1, start(k) \div 2 ^ (exp[k].bits - 1))
    <3> HIDE DEF power
    <3> USE DEF power
    <3> QED  BY <1>2, <2>2, RaiseWrites
  <2> HIDE DEF power
  <2>4. table' = [table EXCEPT ![at[k]] = power] /\ nSpan' = nSpan
    BY <2>1, <2>2 DEF RaiseTo
  <2>5. CASE exp[k].bits <= 1
    <3>1. at' = [at EXCEPT ![k] = @ + 1] /\ exp' = exp
      BY <2>1, <2>5 DEF RaiseTo
    <3>2. table' = [table EXCEPT ![at[k]] = Pow(Root1, at[k])]
      BY <2>2, <2>3, <2>4, <2>5
    <3> QED  BY <1>2, <2>2, <2>4, <3>1, <3>2, EntryWritten
  <2>6. CASE ~ (exp[k].bits <= 1)
    <3>1. at' = at /\ exp' = [exp EXCEPT ![k].bits = @ - 1]
      BY <2>1, <2>6 DEF RaiseTo
    <3>2. table' = [table EXCEPT ![at[k]] = Pow(Root1, start(k) \div 2 ^ (exp[k].bits - 1))]
      BY <2>3, <2>4, <2>6
    <3>3. exp[k].bits > 1
      <4>1. exp[k].bits \in Int
        BY LogRoots DEF TableInv, Raisings
      <4> QED  BY <2>6, <4>1
    <3> QED  BY <1>2, <2>2, <2>4, <3>1, <3>2, <3>3, BitRaised
  <2> QED  BY <2>5, <2>6
<1>7. CASE Following(k)
  <2>1. at[k] \in Entries /\ at[k] - 1 \in Entries /\ at[k] - 1 \in Nat
        /\ start(k) <= at[k] - 1 /\ at[k] - 1 < at[k] /\ (at[k] - 1) + 1 = at[k]
    BY <1>3, <1>7 DEF Following, Entries
  <2>2. table[at[k] - 1] = Pow(Root1, at[k] - 1)
    BY <2>1 DEF TableInv, Progress, Filled
  <2>3. Mul(table[at[k] - 1], table[1]) = Pow(Root1, at[k])
    BY <1>4, <2>1, <2>2, RootsTyped
  <2>4. /\ table' = [table EXCEPT ![at[k]] = Pow(Root1, at[k])] /\ at[k] < end(k)
        /\ at' = [at EXCEPT ![k] = @ + 1] /\ nSpan' = nSpan /\ exp' = exp
    BY <1>7, <2>3 DEF Following
  <2> QED  BY <1>2, <2>4, EntryWritten
<1> QED  BY <1>1, <1>5, <1>6, <1>7

\* The spans have ended.
LEMMA ConstructedStep == ASSUME TableInv, Constructed PROVE TableInv' /\ nSpan' = 0
<1>1. nSpan' = 0 /\ at' = <<>> /\ exp' = <<>> /\ table' = table
  BY DEF Constructed
<1>2. \A i \in Entries : Filled(i)
  <2>1. CASE nSpan = 0
    BY <2>1 DEF TableInv, Complete
  <2>2. CASE nSpan \in SpanCounts
    <3> SUFFICES ASSUME NEW i \in Entries PROVE Filled(i)
      OBVIOUS
    <3>1. i \in {0, 1} \/ i >= 2
      BY RootsTyped DEF Entries
    <3>2. CASE i >= 2
      <4>1. PICK k \in Spans : start(k) <= i /\ i < end(k)
        BY <2>2, <3>2, SpanBounds
      <4>2. at[k] >= end(k) /\ at[k] \in Int /\ end(k) \in Int /\ i \in Int
        BY <2>2, <4>1, SpanBounds DEF Constructed, Built, TableInv, Progress, Entries
      <4> QED  BY <4>1, <4>2 DEF TableInv, Progress
    <3> QED  BY <3>1, <3>2 DEF TableInv, Table
  <2> QED  BY <2>1, <2>2 DEF TableInv, Table
<1>3. Spans' = {}
  BY <1>1 DEF Spans
<1>4. at' \in [{} -> 0 .. nRoots]
  <2>1. DOMAIN at' = {} /\ at' = [i \in {} |-> at'[i]]
    BY <1>1
  <2> QED  BY <2>1
<1>5. Progress'
  BY <1>3, <1>4 DEF Progress
<1>6. Raisings'
  <2>1. DOMAIN exp' = {} /\ exp' = [i \in {} |-> exp'[i]]
    BY <1>1
  <2>2. exp' \in [{} -> [copyBase : Field, bits : 0 .. logRoots + 1]]
    BY <2>1
  <2> QED  BY <1>3, <2>2 DEF Raisings
<1> QED  BY <1>1, <1>2, <1>5, <1>6 DEF TableInv, Table, Complete, Filled

\* The transforms do not change the table.
LEMMA TableKept == ASSUME TableInv, UNCHANGED tableVars PROVE TableInv'
<1>1. nSpan' = nSpan /\ table' = table /\ at' = at /\ exp' = exp
  BY DEF tableVars
<1>2. Spans' = Spans
      /\ \A k \in Spans : start(k)' = start(k) /\ end(k)' = end(k) /\ Bits(k)' = Bits(k)
  BY <1>1 DEF Spans, start, end, increment, Bits
<1>3. Raisings'
  BY <1>1, <1>2 DEF TableInv, Raisings, Raising
<1> QED  BY <1>1, <1>2, <1>3 DEF TableInv, Table, Progress, Complete, Filled

\* The table when the spans begin.
LEMMA TableBegins == ASSUME TableInit PROVE TableInv
<1>1. nSpan \in SpanCounts /\ nSpan \in Nat \ {0}
  BY SpansAssumption DEF TableInit
<1>2. 0 \in Entries /\ 1 \in Entries /\ Root1 \in Field /\ 0 \in Field /\ 1 \in Field
  BY RootsTyped, RootOrder, FieldAssumption DEF Entries, Field
<1>3. \A i \in Entries : table[i] = IF i = 0 THEN 1 ELSE IF i = 1 THEN Root1 ELSE Unset
  BY DEF TableInit, Entries
<1>4. table \in [Entries -> Field]
  BY <1>2 DEF TableInit, Entries, Unset
<1>5. Table
  BY <1>1, <1>2, <1>3, <1>4, RootsTyped DEF Table, Filled
<1>6. Progress
  <2>1. \A k \in Spans : start(k) \in 0 .. nRoots /\ at[k] = start(k)
    BY <1>1, SpanBounds DEF TableInit
  <2>2. at \in [Spans -> 0 .. nRoots]
    BY <2>1 DEF TableInit
  <2>3. \A k \in Spans, i \in Entries : ~ (start(k) <= i /\ i < at[k])
    BY <2>1 DEF Entries
  <2>4. \A k \in Spans : start(k) <= at[k] /\ ~ (start(k) < at[k])
    BY <2>1
  <2> QED  BY <2>2, <2>3, <2>4 DEF Progress
<1>7. Raisings
  <2>1. \A k \in Spans : start(k) \in 0 .. nRoots
    BY <1>1, SpanBounds
  <2>2. \A k \in Spans : Bits(k) \in 0 .. logRoots + 1 /\ Bits(k) \in Nat
                         /\ (start(k) > 0 => Bits(k) > 0)
    BY <2>1, BitsAre
  <2>3. exp = [k \in Spans |-> [copyBase |-> Unset, bits |-> Bits(k)]] /\ Unset \in Field
    BY <1>2 DEF TableInit, Unset
  <2>4. exp \in [Spans -> [copyBase : Field, bits : 0 .. logRoots + 1]]
    BY <2>2, <2>3
  <2>5. \A k \in Spans : Raising(k)
    BY <2>2, <2>3 DEF Raising
  <2> QED  BY <2>4, <2>5 DEF Raisings
<1> QED  BY <1>1, <1>5, <1>6, <1>7 DEF TableInv, Complete

--------------------------------------------------------------------------------
\* The invariant implies the types.
LEMMA TableTypes == TableInv => TableTypeOK
BY DEF TableInv, Table, Progress, Raisings, TableTypeOK, Entries

\* A step of the constructor.
LEMMA TableNext ==
  ASSUME TableInv, [Next]_vars
  PROVE  TableInv' /\ \A i \in Entries : Final(i) => table'[i] = table[i]
<1>1. CASE Build
  BY <1>1, ConstructStep DEF Build
<1>2. CASE Call
  BY <1>2, ConstructedStep DEF Call, Constructed
<1>3. CASE UNCHANGED tableVars
  BY <1>3, TableKept DEF tableVars
<1> QED
  BY <1>1, <1>2, <1>3
  DEF Next, GpuTransform, NoGpu, Join, Finished, Load, Store, vars

\* The spans fill the table with the powers of roots[1].
THEOREM TableFilled == Spec => []TableInv
<1>1. Init => TableInv
  BY TableBegins DEF Init
<1>2. TableInv /\ [Next]_vars => TableInv'
  BY TableNext
<1> QED  BY <1>1, <1>2, PTL DEF Spec

\* A root that others may read is never changed, however the spans are scheduled.
THEOREM RootsStay == Spec => RootsStable
<1>1. TableInv /\ [Next]_vars
        => [\A i \in 0 .. nRoots - 1 : Final(i) => table'[i] = table[i]]_tableVars
  BY TableNext DEF Entries
<1> QED  BY <1>1, TableFilled, PTL DEF Spec, RootsStable

--------------------------------------------------------------------------------
\* The array at the beginning of the loop of phase p, and at its end.
Begun(p, e) ==
  IF p = Reverse THEN x[e] ELSE IF p \in Stages THEN Stage(domainPow, x, p - 1, e) ELSE DFT(x)[e]

Ended(p, e) ==
  IF p \in {Reverse} \cup Stages THEN Stage(domainPow, x, p, e)
  ELSE IF e \in {0, n \div 2} THEN DFT(x)[e] ELSE InverseDFT(x)[e]

Pair(p, i) == {Low(p, i), High(p, i)}
Pending    == left \cup DOMAIN held
Idle       == left = {} /\ held = <<>>

\* The input, and the array that is transformed.
Shape ==
  /\ domainPow \in Nat /\ domainPow <= logRoots /\ n = 2 ^ domainPow /\ n \in Nat \ {0}
  /\ x \in [0 .. n - 1 -> Field]

\* A size is a power of two that the table has roots for.
LEMMA SizeFacts ==
  ASSUME NEW m \in Sizes
  PROVE  /\ Log2(m) \in Nat /\ Log2(m) <= logRoots /\ m = 2 ^ Log2(m) /\ m \in Nat \ {0}
         /\ Inputs(m) \subseteq [0 .. m - 1 -> Field]
<1>1. PICK d \in 0 .. logRoots : m = 2 ^ d
  BY SizesAssumption
<1>2. d \in Nat /\ d <= logRoots
  BY LogRoots
<1>3. Log2(m) = d
  BY <1>1, <1>2, Log2Power
<1>4. m \in Nat \ {0}
  BY <1>1, <1>2, TwoExp
<1> QED  BY <1>1, <1>2, <1>3, <1>4, SizesAssumption

\* A call has a size and an input of that size.
LEMMA Shaped == ASSUME n \in Sizes, x \in Inputs(n) PROVE Shape
BY SizeFacts DEF Shape, domainPow

\* The bodies that share no element, and what they are to do.
PairsApart(p) ==
  /\ \A i \in Indices(p) : /\ i \in 0 .. n - 1
                           /\ Low(p, i) \in 0 .. n - 1 /\ High(p, i) \in 0 .. n - 1
                           /\ Low(p, i) # High(p, i)
  /\ \A i, j \in Indices(p) : i # j => Pair(p, i) \cap Pair(p, j) = {}

BodiesWrite(p) ==
  \A i \in Indices(p) :
    Written(p, i, Begun(p, Low(p, i)), Begun(p, High(p, i))) = <<Ended(p, Low(p, i)), Ended(p, High(p, i))>>

RestStays(p) ==
  \A e \in 0 .. n - 1 : (\A i \in Indices(p) : e \notin Pair(p, i)) => Begun(p, e) = Ended(p, e)

\* The phases in their order.
LEMMA PhaseFacts ==
  ASSUME Shape
  PROVE  /\ Reverse = 0 /\ Scale = domainPow + 1 /\ End = domainPow + 2
         /\ EnterFft = -1 /\ EnterIfft = -2 /\ Building = -3
         /\ Reverse \notin Stages /\ Scale \notin Stages /\ Reverse # Scale
         /\ Reverse .. Scale = {Reverse, Scale} \cup Stages
BY DEF Shape, Reverse, Scale, End, EnterFft, EnterIfft, Building, Stages

\* The bodies of reversePermutation.
LEMMA ReverseCase ==
  ASSUME Shape
  PROVE  /\ Indices(Reverse) = {i \in 0 .. n - 1 : i > BR(i)}
         /\ \A i : Low(Reverse, i) = i /\ High(Reverse, i) = BR(i)
         /\ \A i, u, v : Written(Reverse, i, u, v) = <<v, u>>
<1>1. Reverse \notin Stages /\ Reverse # Scale
  BY PhaseFacts
<1> HIDE DEF Reverse, Scale, Stages
<1> QED  BY <1>1 DEF Indices, Low, High, Written

\* The bodies of a stage of butterflies.
LEMMA StageCase ==
  ASSUME Shape, NEW p \in Stages
  PROVE  /\ Indices(p) = 0 .. (n \div 2) - 1
         /\ \A i : Low(p, i) = Place(2 ^ (p - 1), i) /\ High(p, i) = Place(2 ^ (p - 1), i) + 2 ^ (p - 1)
         /\ \A i, u, v : Written(p, i, u, v) = <<Add(Mul(Twiddle(p, i), v), u), Sub(u, Mul(Twiddle(p, i), v))>>
<1>1. p # Reverse /\ p # Scale
  BY PhaseFacts
<1>2. Indices(p) = 0 .. (n \div 2) - 1
  BY <1>1 DEF Indices
<1>3. \A i : Low(p, i) = Place(2 ^ (p - 1), i)
  BY <1>1 DEF Low, Place
<1>4. \A i : High(p, i) = Low(p, i) + 2 ^ (p - 1)
  BY <1>1 DEF High
<1>5. \A i, u, v : Written(p, i, u, v) = <<Add(Mul(Twiddle(p, i), v), u), Sub(u, Mul(Twiddle(p, i), v))>>
  BY <1>1 DEF Written
<1> QED  BY <1>2, <1>3, <1>4, <1>5

\* The bodies of the last loop of ifft.
LEMMA ScaleCase ==
  ASSUME Shape
  PROVE  /\ Indices(Scale) = 1 .. (n \div 2) - 1
         /\ \A i : Low(Scale, i) = i /\ High(Scale, i) = n - i
         /\ \A i, u, v : Written(Scale, i, u, v) = <<Mul(v, powTwoInv(domainPow)), Mul(u, powTwoInv(domainPow))>>
<1>1. Scale \notin Stages /\ Reverse # Scale
  BY PhaseFacts
<1> HIDE DEF Reverse, Scale, Stages
<1> QED  BY <1>1 DEF Indices, Low, High, Written

\* BR, with its table of reversed bytes, reverses the bits of an index.
LEMMA BRIs ==
  ASSUME Shape, NEW i \in 0 .. n - 1
  PROVE  BR(i) = Rev(domainPow, i) /\ BR(i) \in 0 .. n - 1 /\ BR(BR(i)) = i
<1> DEFINE d == domainPow
<1>1. d \in Nat /\ n = 2 ^ d /\ n \in Nat
  BY DEF Shape
<1>2. ASSUME NEW j \in 0 .. n - 1 PROVE BR(j) = Rev(d, j)
  <2>1. [b \in 0 .. d - 1 |-> ((j \div 2 ^ b) % 2) * 2 ^ (d - 1 - b)] = IndexBits(d, j)
    BY DEF IndexBits, IndexBit
  <2>2. DOMAIN IndexBits(d, j) = 0 .. d - 1
    BY DEF IndexBits
  <2> HIDE DEF d
  <2> QED  BY <2>1, <2>2, SumFunctionIs, Zenon DEF BR, Rev, d
<1> HIDE DEF d
<1>3. i \in Nat /\ Rev(d, i) \in 0 .. n - 1 /\ Rev(d, Rev(d, i)) = i
  <2>1. i \in Nat
    BY <1>1
  <2> QED  BY <1>1, <2>1, RevRange, RevTwice
<1> QED  BY <1>2, <1>3 DEF d

\* reversePermutation swaps the elements i and BR(i).
LEMMA ReversePairs ==
  ASSUME Shape
  PROVE  PairsApart(Reverse) /\ BodiesWrite(Reverse) /\ RestStays(Reverse)
<1>1. n \in Nat /\ Indices(Reverse) = {i \in 0 .. n - 1 : i > BR(i)}
  BY ReverseCase DEF Shape
<1>2. \A i : Low(Reverse, i) = i /\ High(Reverse, i) = BR(i) /\ Pair(Reverse, i) = {i, BR(i)}
  BY ReverseCase DEF Pair
<1>3. ASSUME NEW e \in 0 .. n - 1
      PROVE  Begun(Reverse, e) = x[e] /\ Ended(Reverse, e) = x[BR(e)]
  <2>1. Stage(domainPow, x, 0, e) = x[Rev(domainPow, e)]
    BY StageZero DEF Shape
  <2> QED  BY <2>1, BRIs DEF Begun, Ended, Reverse
<1>4. PairsApart(Reverse)
  <2>1. ASSUME NEW i \in Indices(Reverse)
        PROVE  i \in 0 .. n - 1 /\ BR(i) \in 0 .. n - 1 /\ i > BR(i) /\ BR(BR(i)) = i
    BY <1>1, BRIs
  <2>2. ASSUME NEW i \in Indices(Reverse), NEW j \in Indices(Reverse), i # j
        PROVE  {i, BR(i)} \cap {j, BR(j)} = {}
    <3>1. i # BR(j)
      BY <1>1, <2>1
    <3>2. BR(i) # j
      BY <1>1, <2>1
    <3>3. BR(i) # BR(j)
      BY <2>1, <2>2
    <3> QED  BY <2>2, <3>1, <3>2, <3>3
  <2> QED  BY <1>1, <1>2, <2>1, <2>2 DEF PairsApart
<1>5. BodiesWrite(Reverse)
  <2> SUFFICES ASSUME NEW i \in Indices(Reverse)
               PROVE  <<Begun(Reverse, BR(i)), Begun(Reverse, i)>> = <<Ended(Reverse, i), Ended(Reverse, BR(i))>>
    BY <1>2, ReverseCase DEF BodiesWrite
  <2>1. i \in 0 .. n - 1 /\ BR(i) \in 0 .. n - 1 /\ BR(BR(i)) = i
    BY <1>1, BRIs
  <2> QED  BY <1>3, <2>1
<1>6. RestStays(Reverse)
  <2> SUFFICES ASSUME NEW e \in 0 .. n - 1, \A i \in Indices(Reverse) : e \notin {i, BR(i)}
               PROVE  Begun(Reverse, e) = Ended(Reverse, e)
    BY <1>2 DEF RestStays
  <2>1. BR(e) \in 0 .. n - 1 /\ BR(BR(e)) = e
    BY BRIs
  <2>2. ~ (e > BR(e)) /\ ~ (BR(e) > e)
    BY <1>1, <2>1
  <2>3. BR(e) = e
    BY <1>1, <2>1, <2>2
  <2> QED  BY <1>3, <2>3
<1> QED  BY <1>4, <1>5, <1>6

\* The stages of fft: the butterflies.
LEMMA StagePairs ==
  ASSUME Shape, NEW p \in Stages
  PROVE  PairsApart(p) /\ RestStays(p)
<1> DEFINE d == domainPow
           h == 2 ^ (p - 1)
           lo(i) == Place(h, i)
<1>1. d \in Nat /\ n = 2 ^ d /\ p \in 1 .. d /\ n \in Nat
  BY DEF Shape, Stages
<1>2. Indices(p) = 0 .. (n \div 2) - 1
  BY StageCase
<1>3. \A i : Low(p, i) = lo(i) /\ High(p, i) = lo(i) + h /\ Pair(p, i) = {lo(i), lo(i) + h}
  BY StageCase DEF Pair
<1>4. ASSUME NEW i \in Indices(p)
      PROVE  /\ h \in Nat \ {0} /\ i \in Nat /\ i \div h \in Nat /\ i % h \in 0 .. h - 1
             /\ i = ((i \div h) * h) + (i % h)
             /\ lo(i) \in 0 .. n - 1 /\ lo(i) + h \in 0 .. n - 1
             /\ InBlocks(h, i \div h, i % h, lo(i))
  <2>1. i \in 0 .. (2 ^ d \div 2) - 1
    BY <1>1, <1>2
  <2>2. LET m == 2 ^ (p - 1) IN
        /\ m \in Nat \ {0} /\ i \in Nat
        /\ i \div m \in Nat /\ i % m \in 0 .. m - 1 /\ i = ((i \div m) * m) + (i % m)
        /\ Place(m, i) \in 0 .. 2 ^ d - 1 /\ Place(m, i) + m \in 0 .. 2 ^ d - 1
        /\ InBlocks(m, i \div m, i % m, Place(m, i))
    <3> HIDE DEF d
    <3> QED  BY <1>1, <2>1, PlaceFacts
  <2> QED  BY <1>1, <2>2, Zenon
<1> HIDE DEF d, h, lo
<1>5. \A i \in Indices(p) : i \in 0 .. n - 1
  <2>1. \A i \in 0 .. (n \div 2) - 1 : i \in 0 .. n - 1
    BY <1>1
  <2> QED  BY <1>2, <2>1
<1>6. \A i \in Indices(p) : lo(i) # lo(i) + h
  BY <1>1, <1>4
<1>7. ASSUME NEW i \in Indices(p), NEW j \in Indices(p), i # j
      PROVE  {lo(i), lo(i) + h} \cap {lo(j), lo(j) + h} = {}
  <2>1. ~ (i \div h = j \div h /\ i % h = j % h)
    BY <1>4, <1>7, Zenon
  <2> DEFINE w == 2 * h
             k == i \div h
             l == j \div h
             r == i % h
             s == j % h
             e == lo(i)
             f == lo(j)
  <2>2. /\ e \div w = k /\ e % w = r /\ (e + h) \div w = k /\ (e + h) % w = r + h
        /\ f \div w = l /\ f % w = s /\ (f + h) \div w = l /\ (f + h) % w = s + h
    BY <1>4, Zenon DEF InBlocks
  <2>3. r \in 0 .. h - 1 /\ s \in 0 .. h - 1 /\ h \in Nat \ {0} /\ e \in Int /\ f \in Int
    BY <1>1, <1>4
  <2> HIDE DEF w, k, l, r, s, e, f
  <2>4. ~ (k = l /\ r = s)
    BY <2>1 DEF k, l, r, s
  <2>5. e # f /\ e + h # f + h
    <3>1. e # f
      BY <2>2, <2>4
    <3> QED  BY <2>3, <3>1
  <2>6. e + h # f /\ e # f + h
    <3>1. r + h # s /\ r # s + h
      BY <2>3
    <3> QED  BY <2>2, <3>1
  <2>7. {e, e + h} \cap {f, f + h} = {}
    BY <2>5, <2>6
  <2> QED  BY <2>7 DEF e, f
<1>8. PairsApart(p)
  BY <1>3, <1>4, <1>5, <1>6, <1>7 DEF PairsApart
<1>9. RestStays(p)
  <2> SUFFICES ASSUME NEW e \in 0 .. n - 1, \A i \in Indices(p) : e \notin {lo(i), lo(i) + h}
               PROVE  FALSE
    BY <1>3 DEF RestStays
  <2>1. \E i \in 0 .. (2 ^ d \div 2) - 1 : e \in {Place(2 ^ (p - 1), i), Place(2 ^ (p - 1), i) + 2 ^ (p - 1)}
    BY <1>1, PlaceInverse
  <2> QED  BY <1>1, <1>2, <2>1 DEF h, lo
<1> QED  BY <1>8, <1>9

\* The roots that the butterflies read.
LEMMA TableRoots ==
  ASSUME TableInv, nSpan = 0, NEW d \in Nat, d <= logRoots, NEW i \in 0 .. 2 ^ d - 1
  PROVE  tableRoot(d, i) = Pow(Gen(d), i)
<1>1. i * 2 ^ (logRoots - d) \in 0 .. nRoots - 1 /\ root(d, i) = Pow(Gen(d), i)
  BY RootIs
<1>2. tableRoot(d, i) = Pow(Root1, i * 2 ^ (logRoots - d))
  BY <1>1 DEF TableInv, Complete, Filled, Entries, tableRoot
<1>3. root(d, i) = Pow(Root1, i * 2 ^ (logRoots - d))
  BY <1>1 DEF root, roots, rootTable
<1> QED  BY <1>1, <1>2, <1>3

\* The bodies of a stage find what the stage before it left.
LEMMA StageBodies ==
  ASSUME Shape, TableInv, nSpan = 0, NEW p \in Stages
  PROVE  BodiesWrite(p)
<1> DEFINE d == domainPow
           s == p - 1
           h == 2 ^ s
<1>1. d \in Nat /\ d <= logRoots /\ n = 2 ^ d /\ p \in 1 .. d /\ n \in Nat /\ x \in [0 .. 2 ^ d - 1 -> Field]
  BY DEF Shape, Stages
<1>2. Indices(p) = 0 .. (n \div 2) - 1
  BY StageCase
<1> SUFFICES ASSUME NEW i \in Indices(p)
             PROVE  Written(p, i, Begun(p, Low(p, i)), Begun(p, High(p, i)))
                      = <<Ended(p, Low(p, i)), Ended(p, High(p, i))>>
  BY DEF BodiesWrite
<1> DEFINE k == i \div h
           r == i % h
           e == Place(h, i)
           u == Stage(d, x, s, e)
           v == Stage(d, x, s, e + h)
           t == Mul(Pow(Gen(p), r), v)
<1>3. /\ Low(p, i) = e /\ High(p, i) = e + h
      /\ Written(p, i, u, v) = <<Add(Mul(Twiddle(p, i), v), u), Sub(u, Mul(Twiddle(p, i), v))>>
  BY StageCase
<1>4. /\ h \in Nat \ {0} /\ i \in Nat /\ k \in Nat /\ r \in 0 .. h - 1
      /\ e = (k * (2 * h)) + r /\ e \in 0 .. n - 1 /\ e + h \in 0 .. n - 1
  BY <1>1, <1>2, PlaceFacts, ZenonT(60)
<1>5. s \in 0 .. d - 1 /\ s + 1 = p /\ s \in Nat
  BY <1>1
<1>6. Twiddle(p, i) = Pow(Gen(p), r)
  <2>1. p \in Nat /\ p <= logRoots /\ r \in 0 .. 2 ^ p - 1
    <3>1. 2 ^ p = 2 * h
      BY <1>1, StageBlocks
    <3>2. logRoots \in Nat
      BY LogRoots
    <3> HIDE DEF h, r
    <3> QED  BY <1>1, <1>4, <3>1, <3>2
  <2> QED  BY <2>1, TableRoots DEF Twiddle
<1>7. \A f : Begun(p, f) = Stage(d, x, s, f) /\ Ended(p, f) = Stage(d, x, p, f)
  <2>1. p # Reverse
    BY PhaseFacts
  <2> QED  BY <2>1 DEF Begun, Ended
<1>8. Stage(d, x, p, e) = Add(t, u) /\ Stage(d, x, p, e + h) = Sub(u, t)
  <2>1. e \in Nat /\ r \in 0 .. 2 ^ s - 1 /\ e = (k * (2 * 2 ^ s)) + r
    BY <1>1, <1>4
  <2>2. t = Mul(Pow(Gen(s + 1), r), Stage(d, x, s, e + 2 ^ s))
    BY <1>5
  <2> HIDE DEF t, e, r, k, s, d
  <2> QED  BY <1>1, <1>4, <1>5, <2>1, <2>2, StageStep DEF h, u
<1> HIDE DEF e, r, k, h, s, d
<1> QED  BY <1>3, <1>6, <1>7, <1>8

\* The scaling of ifft: the elements i and n - i change places.
LEMMA HalfFacts ==
  ASSUME Shape
  PROVE  /\ n = 1 \/ n = (n \div 2) + (n \div 2)
         /\ n \div 2 \in Nat /\ n \div 2 \in 0 .. n - 1
         /\ n = 1 => domainPow = 0
<1>1. domainPow \in Nat /\ n = 2 ^ domainPow /\ n \in Nat \ {0}
  BY DEF Shape
<1>2. CASE domainPow = 0
  <2>1. 2 ^ 0 = 1 /\ 1 \div 2 = 0
    OBVIOUS
  <2>2. n = 1
    BY <1>1, <1>2, <2>1, Zenon
  <2> QED  BY <1>2, <2>1, <2>2
<1>3. CASE domainPow # 0
  <2> DEFINE s == domainPow - 1
             m == 2 ^ s
  <2>1. s \in Nat /\ domainPow = s + 1
    BY <1>1, <1>3
  <2> HIDE DEF s
  <2>2. m \in Nat \ {0} /\ 2 ^ (s + 1) = 2 * m
    BY <2>1, TwoExp
  <2>3. n = 2 * m
    BY <1>1, <2>1, <2>2, Zenon
  <2> HIDE DEF m
  <2>4. n \div 2 = m
    BY <2>2, <2>3
  <2> QED  BY <2>2, <2>3, <2>4
<1> QED  BY <1>2, <1>3

\* The bodies of the last loop of ifft.
LEMMA ScalePairs ==
  ASSUME Shape
  PROVE  PairsApart(Scale) /\ BodiesWrite(Scale) /\ RestStays(Scale)
<1> DEFINE m == n \div 2
           c == powTwoInv(domainPow)
<1>1. /\ n = 1 \/ n = m + m
      /\ m \in Nat /\ m \in 0 .. n - 1 /\ n \in Nat \ {0}
  BY HalfFacts DEF Shape
<1>2. Indices(Scale) = 1 .. m - 1
  BY ScaleCase
<1>3. \A i : Low(Scale, i) = i /\ High(Scale, i) = n - i /\ Pair(Scale, i) = {i, n - i}
  BY ScaleCase DEF Pair
<1>4. \A e : Begun(Scale, e) = DFT(x)[e]
             /\ Ended(Scale, e) = IF e \in {0, m} THEN DFT(x)[e] ELSE InverseDFT(x)[e]
  BY PhaseFacts DEF Begun, Ended
<1>5. \A k \in 1 .. n - 1 : InverseDFT(x)[k] = Mul(DFT(x)[n - k], c)
  BY InverseIs DEF Shape
<1>6. \A i, u, v : Written(Scale, i, u, v) = <<Mul(v, c), Mul(u, c)>>
  BY ScaleCase
<1> HIDE DEF m, c
<1>7. PairsApart(Scale)
  <2>1. \A i \in 1 .. m - 1 : i \in 0 .. n - 1 /\ n - i \in 0 .. n - 1 /\ i # n - i
    BY <1>1
  <2>2. \A i, j \in 1 .. m - 1 : i # j => {i, n - i} \cap {j, n - j} = {}
    BY <1>1
  <2> QED  BY <1>2, <1>3, <2>1, <2>2 DEF PairsApart
<1>8. BodiesWrite(Scale)
  <2> SUFFICES ASSUME NEW i \in 1 .. m - 1
               PROVE  <<Mul(DFT(x)[n - i], c), Mul(DFT(x)[i], c)>> = <<Ended(Scale, i), Ended(Scale, n - i)>>
    BY <1>2, <1>3, <1>4, <1>6 DEF BodiesWrite
  <2>1. /\ i \in 1 .. n - 1 /\ n - i \in 1 .. n - 1 /\ n - (n - i) = i
        /\ i \notin {0, m} /\ n - i \notin {0, m}
    BY <1>1
  <2>2. InverseDFT(x)[i] = Mul(DFT(x)[n - i], c)
    BY <1>5, <2>1
  <2>3. InverseDFT(x)[n - i] = Mul(DFT(x)[n - (n - i)], c)
    BY <1>5, <2>1, Zenon
  <2> QED  BY <1>4, <2>1, <2>2, <2>3
<1>9. RestStays(Scale)
  <2> SUFFICES ASSUME NEW e \in 0 .. n - 1, \A i \in 1 .. m - 1 : e \notin {i, n - i}
               PROVE  e \in {0, m}
    BY <1>2, <1>3, <1>4 DEF RestStays
  <2>1. e \notin 1 .. m - 1
    OBVIOUS
  <2>2. n - e \notin 1 .. m - 1
    <3>1. n - (n - e) = e
      BY <1>1
    <3> QED  BY <3>1
  <2> QED  BY <1>1, <2>1, <2>2
<1> QED  BY <1>7, <1>8, <1>9

\* What a loop leaves is what the next one begins with.
LEMMA Handed ==
  ASSUME Shape, NEW p \in {Reverse} \cup Stages, NEW e \in 0 .. n - 1
  PROVE  Ended(p, e) = IF p = domainPow THEN DFT(x)[e] ELSE Begun(p + 1, e)
<1>1. Ended(p, e) = Stage(domainPow, x, p, e)
  BY DEF Ended
<1>2. CASE p = domainPow
  BY <1>1, <1>2, StageLast DEF Shape
<1>3. CASE p # domainPow
  <2>1. p + 1 \in Stages /\ p + 1 # Reverse /\ (p + 1) - 1 = p
    BY <1>3 DEF Shape, Stages, Reverse
  <2> QED  BY <1>1, <1>3, <2>1 DEF Begun
<1> QED  BY <1>2, <1>3

\* The caller scales the two elements that the loop leaves.
LEMMA Scaled ==
  ASSUME Shape, NEW y \in [0 .. n - 1 -> Field], \A e \in 0 .. n - 1 : y[e] = Ended(Scale, e)
  PROVE  LET scaled(z) == Mul(z, powTwoInv(domainPow)) IN
         [y EXCEPT ![0] = scaled(@), ![n \div 2] = scaled(@)] = InverseDFT(x)
<1> DEFINE m == n \div 2
           c == powTwoInv(domainPow)
           z == [y EXCEPT ![0] = Mul(@, c), ![m] = Mul(@, c)]
<1>1. /\ n = 1 \/ n = m + m
      /\ m \in Nat /\ m \in 0 .. n - 1 /\ n \in Nat \ {0} /\ 0 \in 0 .. n - 1
      /\ n = 1 => domainPow = 0
  BY HalfFacts DEF Shape
<1>2. \A e : Ended(Scale, e) = IF e \in {0, m} THEN DFT(x)[e] ELSE InverseDFT(x)[e]
  BY PhaseFacts DEF Ended
<1>3. /\ InverseDFT(x)[0] = Mul(DFT(x)[0], c)
      /\ \A k \in 1 .. n - 1 : InverseDFT(x)[k] = Mul(DFT(x)[n - k], c)
  BY InverseIs DEF Shape
<1>4. InverseDFT(x) \in [0 .. n - 1 -> Field] /\ DFT(x) \in [0 .. n - 1 -> Field]
  BY TransformTypes DEF Shape
<1>5. n = 1 => c = 1
  <2>1. powTwoInv(0) = 1
    <3>1. 2 \in Field \ {0}
      BY FieldAssumption DEF Field
    <3>2. Inv(2) \in Int
      BY <3>1, UnitInverse, FieldResidue
    <3> QED  BY <3>2, PowFacts DEF powTwoInv
  <2> QED  BY <1>1, <2>1 DEF c
<1> HIDE DEF c, m
<1>6. \A e \in 0 .. n - 1 : z[e] = InverseDFT(x)[e]
  <2> SUFFICES ASSUME NEW e \in 0 .. n - 1 PROVE z[e] = InverseDFT(x)[e]
    OBVIOUS
  <2>1. CASE e \notin {0, m}
    BY <1>2, <2>1
  <2>2. CASE n = 1
    <3>1. m = 0 /\ e = 0
      BY <1>1, <2>2
    <3>2. y[0] = DFT(x)[0] /\ y[0] \in Field
      BY <1>1, <1>2
    <3>3. z[0] \in {Mul(y[0], c), Mul(Mul(y[0], c), c)}
      BY <1>1, <3>1
    <3>4. InverseDFT(x)[0] = y[0] /\ z[0] = y[0]
      <4>1. Mul(y[0], 1) = y[0]
        BY <3>2, MulOne
      <4>2. Mul(y[0], c) = y[0] /\ Mul(Mul(y[0], c), c) = y[0]
        BY <1>5, <2>2, <4>1
      <4>3. InverseDFT(x)[0] = Mul(y[0], c)
        BY <1>3, <3>2
      <4> HIDE DEF z
      <4> QED  BY <3>3, <4>2, <4>3
    <3> QED  BY <3>1, <3>4
  <2>3. CASE n # 1 /\ e \in {0, m}
    <3>1. m # 0 /\ m \in 1 .. n - 1 /\ n - m = m
      BY <1>1, <2>3
    <3>2. z[e] = Mul(y[e], c) /\ y[e] = DFT(x)[e]
      BY <1>1, <1>2, <2>3, <3>1
    <3>3. InverseDFT(x)[m] = Mul(DFT(x)[m], c)
      BY <1>3, <3>1
    <3> QED  BY <1>3, <2>3, <3>2, <3>3
  <2> QED  BY <2>1, <2>2, <2>3
<1>7. z = InverseDFT(x)
  <2>1. DOMAIN z = 0 .. n - 1
    OBVIOUS
  <2>2. z = [e \in 0 .. n - 1 |-> z[e]]
    BY <2>1, Zenon
  <2> HIDE DEF z
  <2> QED  BY <1>4, <1>6, <2>2
<1> QED  BY <1>7 DEF z, m, c

--------------------------------------------------------------------------------
(***************************************************************************)
(* The inductive invariant: of the elements that a loop is to write, those *)
(* of the bodies still to come or in progress are as they were, and all    *)
(* the others are as the loop is to leave them.                            *)
(***************************************************************************)
Called ==
  /\ n \in Sizes /\ x \in Inputs(n) /\ op \in {"fft", "ifft"} /\ nSpan = 0
  /\ phase \in EnterIfft .. End /\ a \in [0 .. n - 1 -> Field]

Waiting == phase \in {EnterIfft, EnterFft} => Idle /\ a = x /\ (phase = EnterIfft => op = "ifft")

Halfway ==
  /\ Pending \subseteq Indices(phase) /\ left \cap DOMAIN held = {}
  /\ held = [i \in DOMAIN held |-> <<a[Low(phase, i)], a[High(phase, i)]>>]
  /\ \A i \in Pending : \A e \in Pair(phase, i) : a[e] = Begun(phase, e)
  /\ \A e \in 0 .. n - 1 : (\A i \in Pending : e \notin Pair(phase, i)) => a[e] = Ended(phase, e)

Loop == phase \in Reverse .. Scale => Halfway /\ (phase = Scale => op = "ifft")

Result == phase = End => Idle /\ a = IF op = "fft" THEN DFT(x) ELSE InverseDFT(x)

Running == Called /\ Waiting /\ Loop /\ Result

FftInv == IF phase = Building THEN Idle /\ n = 1 ELSE Running

\* Without a loop there is no body.
LEMMA OtherCase == ASSUME Shape PROVE Indices(End) = {} /\ Indices(EnterFft) = {}
<1>1. \A p : p \notin {Reverse, Scale} \cup Stages => Indices(p) = {}
  BY DEF Indices
<1>2. End \notin {Reverse, Scale} \cup Stages /\ EnterFft \notin {Reverse, Scale} \cup Stages
  BY DEF Shape, End, EnterFft, Reverse, Scale, Stages
<1> QED  BY <1>1, <1>2, Zenon

\* Functions with the same values are the same.
LEMMA SameFunction ==
  \A S, T, f, g : f \in [S -> T] /\ g \in [S -> T] /\ (\A e \in S : f[e] = g[e]) => f = g
OBVIOUS

\* The invariant depends on the call, the array and the loop only.
LEMMA Same ==
  ASSUME UNCHANGED <<n, x>>
  PROVE  /\ domainPow' = domainPow /\ Stages' = Stages /\ Scale' = Scale /\ End' = End
         /\ \A p : Indices(p)' = Indices(p)
         /\ \A p, i : Low(p, i)' = Low(p, i) /\ High(p, i)' = High(p, i) /\ Pair(p, i)' = Pair(p, i)
         /\ \A p, e : Begun(p, e)' = Begun(p, e) /\ Ended(p, e)' = Ended(p, e)
<1>1. n' = n /\ x' = x
  OBVIOUS
<1>2. domainPow' = domainPow
  BY <1>1 DEF domainPow
<1>3. Stages' = Stages /\ Scale' = Scale /\ End' = End
  BY <1>2 DEF Stages, Scale, End
<1>4. \A i : BR(i)' = BR(i)
  BY <1>2, Zenon DEF BR
<1>5. \A p : Indices(p)' = Indices(p)
  BY <1>1, <1>3, <1>4, Zenon DEF Indices
<1>6. \A p, i : Low(p, i)' = Low(p, i)
  BY <1>3, Zenon DEF Low
<1>7. \A p, i : High(p, i)' = High(p, i)
  BY <1>1, <1>3, <1>4, <1>6, Zenon DEF High
<1>8. \A p, i : Pair(p, i)' = Pair(p, i)
  BY <1>6, <1>7, Zenon DEF Pair
<1>9. \A p, e : Begun(p, e)' = Begun(p, e) /\ Ended(p, e)' = Ended(p, e)
  BY <1>1, <1>2, <1>3, Zenon DEF Begun, Ended
<1> QED  BY <1>2, <1>3, <1>5, <1>6, <1>7, <1>8, <1>9

\* The phase EnterFft or End, where nothing is in progress.
LEMMA AtRest ==
  ASSUME Shape, n \in Sizes, x \in Inputs(n), op \in {"fft", "ifft"}, nSpan = 0,
         UNCHANGED <<n, x, op, nSpan>>, a' \in [0 .. n - 1 -> Field],
         left' = {}, held' = <<>>,
         \/ phase' = EnterFft /\ a' = x
         \/ phase' = End /\ a' = IF op = "fft" THEN DFT(x) ELSE InverseDFT(x)
  PROVE  Running'
<1>1. domainPow \in Nat /\ End' = End /\ Scale' = Scale
  BY Same DEF Shape
<1>2. phase' \in EnterIfft .. End /\ phase' # EnterIfft /\ phase' \notin Reverse .. Scale
  BY <1>1 DEF EnterIfft, EnterFft, Reverse, Scale, End
<1>3. phase' = EnterFft => phase' # End
  BY <1>1 DEF EnterFft, End
<1>4. Called'
  BY <1>1, <1>2 DEF Called
<1>5. Idle'
  BY DEF Idle
<1>6. Waiting' /\ Loop' /\ Result'
  BY <1>1, <1>2, <1>3, <1>5 DEF Waiting, Loop, Result
<1> QED  BY <1>4, <1>6 DEF Running

\* A phase that has a loop.
LEMMA AtLoop ==
  ASSUME Shape, n \in Sizes, x \in Inputs(n), op \in {"fft", "ifft"}, nSpan = 0,
         UNCHANGED <<n, x, op, nSpan>>, a' \in [0 .. n - 1 -> Field],
         phase' \in Reverse .. Scale, phase' = Scale => op = "ifft", Halfway'
  PROVE  Running'
<1>1. domainPow \in Nat /\ End' = End /\ Scale' = Scale
  BY Same DEF Shape
<1>2. phase' \in EnterIfft .. End /\ phase' # EnterIfft /\ phase' # EnterFft /\ phase' # End
  BY <1>1 DEF EnterIfft, EnterFft, Reverse, Scale, End
<1>3. Called'
  BY <1>1, <1>2 DEF Called
<1>4. Waiting' /\ Loop' /\ Result'
  BY <1>1, <1>2 DEF Waiting, Loop, Result
<1> QED  BY <1>3, <1>4 DEF Running

\* The array when a loop is over.
LEMMA EndedType ==
  ASSUME Shape, NEW p \in Reverse .. Scale, NEW e \in 0 .. n - 1
  PROVE  Ended(p, e) \in Field
<1>1. DFT(x)[e] \in Field /\ InverseDFT(x)[e] \in Field
  BY TransformTypes DEF Shape
<1>2. ASSUME p \in {Reverse} \cup Stages PROVE Stage(domainPow, x, p, e) \in Field
  BY <1>2, StageType DEF Shape, Stages, Reverse
<1> QED  BY <1>1, <1>2 DEF Ended

\* What is known of the bodies of any loop.
LEMMA BodyFacts ==
  ASSUME Running, TableInv, phase \in Reverse .. Scale
  PROVE  /\ Shape /\ Halfway /\ (phase = Scale => op = "ifft")
         /\ PairsApart(phase) /\ BodiesWrite(phase) /\ RestStays(phase)
<1>1. Shape /\ nSpan = 0
  BY Shaped DEF Running, Called
<1>2. phase \in {Reverse, Scale} \cup Stages
  BY <1>1, PhaseFacts
<1>3. PairsApart(phase) /\ BodiesWrite(phase) /\ RestStays(phase)
  BY <1>1, <1>2, ReversePairs, StagePairs, StageBodies, ScalePairs
<1> QED  BY <1>1, <1>3 DEF Running, Loop

\* A loop begins.
LEMMA LoopBegins ==
  ASSUME Shape, NEW p \in Reverse .. Scale, UNCHANGED <<n, x, op, held>>, PairsApart(p), RestStays(p),
         phase' = p, left' = Indices(p), held = <<>>, \A e \in 0 .. n - 1 : a'[e] = Begun(p, e)
  PROVE  Halfway'
<1>1. DOMAIN held = {} /\ held' = held
  OBVIOUS
<1>2. Pending' = Indices(p)
  BY <1>1 DEF Pending
<1>3. Pending' \subseteq Indices(phase)' /\ (left \cap DOMAIN held = {})'
  BY <1>1, <1>2, Same
<1>4. (held = [i \in DOMAIN held |-> <<a[Low(phase, i)], a[High(phase, i)]>>])'
  BY <1>1
<1>5. ASSUME NEW i \in Pending', NEW e \in Pair(phase, i)' PROVE a'[e] = Begun(phase, e)'
  <2>1. e \in 0 .. n - 1
    BY <1>2, <1>5, Same DEF PairsApart, Pair
  <2> QED  BY <2>1, Same
<1>6. ASSUME NEW e \in (0 .. n - 1)', \A i \in Pending' : e \notin Pair(phase, i)'
      PROVE  a'[e] = Ended(phase, e)'
  <2>1. \A i \in Indices(p) : e \notin Pair(p, i)
    BY <1>2, <1>6, Same
  <2>2. Begun(p, e) = Ended(p, e)
    BY <1>6, <2>1 DEF RestStays
  <2> QED  BY <1>6, <2>2, Same
<1> QED  BY <1>3, <1>4, <1>5, <1>6 DEF Halfway

\* A body reads its two elements.
LEMMA LoadKeeps ==
  ASSUME Running, TableInv, NEW i \in 0 .. n - 1, Load(i), phase \in Reverse .. Scale
  PROVE  Halfway'
<1>1. /\ i \in left /\ left' = left \ {i} /\ phase' = phase /\ a' = a /\ UNCHANGED <<n, x>>
      /\ held' = [j \in DOMAIN held \cup {i} |->
                    IF j = i THEN <<a[Low(phase, i)], a[High(phase, i)]>> ELSE held[j]]
  BY DEF Load
<1>2. Halfway
  BY BodyFacts
<1>3. DOMAIN held' = DOMAIN held \cup {i}
  BY <1>1
<1>4. Pending' = Pending
  BY <1>1, <1>3 DEF Pending
<1>5. Pending' \subseteq Indices(phase)' /\ (left \cap DOMAIN held = {})'
  BY <1>1, <1>2, <1>3, <1>4, Same DEF Halfway
<1>6. (held = [j \in DOMAIN held |-> <<a[Low(phase, j)], a[High(phase, j)]>>])'
  <2>1. \A j \in DOMAIN held : held[j] = <<a[Low(phase, j)], a[High(phase, j)]>>
    BY <1>2 DEF Halfway
  <2>2. \A j \in DOMAIN held' : held'[j] = <<a[Low(phase, j)], a[High(phase, j)]>>
    BY <1>1, <1>3, <2>1
  <2>3. held' = [j \in DOMAIN held' |-> held'[j]]
    BY <1>1
  <2>4. \A j : Low(phase, j)' = Low(phase, j) /\ High(phase, j)' = High(phase, j)
    BY <1>1, Same
  <2>5. \A j \in DOMAIN held' : held'[j] = <<a'[Low(phase, j)'], a'[High(phase, j)']>>
    BY <1>1, <2>2, <2>4
  <2> QED  BY <2>3, <2>5
<1>7. \A j \in Pending' : \A e \in Pair(phase, j)' : a'[e] = Begun(phase, e)'
  BY <1>1, <1>2, <1>4, Same DEF Halfway
<1>8. \A e \in (0 .. n - 1)' : (\A j \in Pending' : e \notin Pair(phase, j)') => a'[e] = Ended(phase, e)'
  BY <1>1, <1>2, <1>4, Same DEF Halfway
<1> QED  BY <1>5, <1>6, <1>7, <1>8 DEF Halfway

\* A body writes them.
LEMMA StoreWrites ==
  ASSUME Running, TableInv, NEW i \in 0 .. n - 1, Store(i), phase \in Reverse .. Scale
  PROVE  /\ i \in Indices(phase) /\ i \in DOMAIN held
         /\ a' \in [0 .. n - 1 -> Field]
         /\ \A e \in Pair(phase, i) : a'[e] = Ended(phase, e)
         /\ \A e \in (0 .. n - 1) \ Pair(phase, i) : a'[e] = a[e]
<1> DEFINE lo == Low(phase, i)
           hi == High(phase, i)
           w == Written(phase, i, held[i][1], held[i][2])
<1>1. i \in DOMAIN held /\ a' = [a EXCEPT ![lo] = w[1], ![hi] = w[2]]
  BY DEF Store
<1>2. Shape /\ Halfway /\ PairsApart(phase) /\ BodiesWrite(phase)
  BY BodyFacts
<1>3. i \in Pending /\ i \in Indices(phase)
  BY <1>1, <1>2 DEF Pending, Halfway
<1>4. lo \in 0 .. n - 1 /\ hi \in 0 .. n - 1 /\ lo # hi /\ Pair(phase, i) = {lo, hi}
  BY <1>2, <1>3 DEF PairsApart, Pair
<1>5. held[i][1] = Begun(phase, lo) /\ held[i][2] = Begun(phase, hi)
  <2>1. held[i] = <<a[lo], a[hi]>>
    BY <1>1, <1>2 DEF Halfway
  <2>2. a[lo] = Begun(phase, lo) /\ a[hi] = Begun(phase, hi)
    BY <1>2, <1>3 DEF Halfway, Pair
  <2> QED  BY <2>1, <2>2
<1>6. w = <<Ended(phase, lo), Ended(phase, hi)>>
  BY <1>2, <1>3, <1>5 DEF BodiesWrite
<1>7. Ended(phase, lo) \in Field /\ Ended(phase, hi) \in Field
  BY <1>2, <1>4, EndedType
<1>8. a \in [0 .. n - 1 -> Field]
  BY DEF Running, Called
<1> HIDE DEF lo, hi, w
<1>9. a' = [a EXCEPT ![lo] = Ended(phase, lo), ![hi] = Ended(phase, hi)]
  BY <1>1, <1>6
<1> QED  BY <1>1, <1>3, <1>4, <1>7, <1>8, <1>9

\* A body that writes its pair keeps what the others need.
LEMMA StoreKeeps ==
  ASSUME Running, TableInv, NEW i \in 0 .. n - 1, Store(i), phase \in Reverse .. Scale
  PROVE  Halfway'
<1>1. /\ left' = left /\ phase' = phase /\ UNCHANGED <<n, x>>
      /\ held' = Restrict(held, DOMAIN held \ {i})
  BY DEF Store
<1>2. Halfway /\ PairsApart(phase)
  BY BodyFacts
<1>3. /\ i \in Indices(phase) /\ i \in DOMAIN held
      /\ \A e \in Pair(phase, i) : a'[e] = Ended(phase, e)
      /\ \A e \in (0 .. n - 1) \ Pair(phase, i) : a'[e] = a[e]
  BY StoreWrites
<1>4. DOMAIN held' = DOMAIN held \ {i} /\ \A j \in DOMAIN held' : held'[j] = held[j]
  BY <1>1 DEF Restrict
<1>11. held' = [j \in DOMAIN held' |-> held'[j]]
  BY <1>1 DEF Restrict
<1>5. Pending' = Pending \ {i} /\ Pending \subseteq Indices(phase)
  BY <1>1, <1>2, <1>3, <1>4 DEF Pending, Halfway
<1>6. ASSUME NEW j \in Pending' PROVE \A e \in Pair(phase, j) : a'[e] = a[e] /\ e \in 0 .. n - 1
  <2>1. j # i /\ j \in Indices(phase)
    BY <1>5
  <2>2. Pair(phase, j) \cap Pair(phase, i) = {}
    BY <1>2, <1>3, <2>1 DEF PairsApart
  <2>3. Pair(phase, j) \subseteq 0 .. n - 1
    BY <1>2, <2>1 DEF PairsApart, Pair
  <2> QED  BY <1>3, <2>2, <2>3
<1>7. Pending' \subseteq Indices(phase)' /\ (left \cap DOMAIN held = {})'
  BY <1>1, <1>2, <1>4, <1>5, Same DEF Halfway
<1>8. (held = [j \in DOMAIN held |-> <<a[Low(phase, j)], a[High(phase, j)]>>])'
  <2>1. \A j \in DOMAIN held : held[j] = <<a[Low(phase, j)], a[High(phase, j)]>>
    BY <1>2 DEF Halfway
  <2>2. ASSUME NEW j \in DOMAIN held' PROVE held'[j] = <<a'[Low(phase, j)], a'[High(phase, j)]>>
    <3>1. j \in Pending' /\ Low(phase, j) \in Pair(phase, j) /\ High(phase, j) \in Pair(phase, j)
      BY DEF Pending, Pair
    <3> QED  BY <1>4, <1>6, <2>1, <3>1
  <2>3. \A j : Low(phase, j)' = Low(phase, j) /\ High(phase, j)' = High(phase, j)
    BY <1>1, Same
  <2>4. \A j \in DOMAIN held' : held'[j] = <<a'[Low(phase, j)'], a'[High(phase, j)']>>
    BY <1>1, <2>2, <2>3
  <2> QED  BY <1>11, <2>4
<1>9. \A j \in Pending' : \A e \in Pair(phase, j)' : a'[e] = Begun(phase, e)'
  <2>1. \A j \in Pending : \A e \in Pair(phase, j) : a[e] = Begun(phase, e)
    BY <1>2 DEF Halfway
  <2> QED  BY <1>1, <1>5, <1>6, <2>1, Same
<1>10. ASSUME NEW e \in (0 .. n - 1)', \A j \in Pending' : e \notin Pair(phase, j)'
       PROVE  a'[e] = Ended(phase, e)'
  <2>1. \A j \in Pending \ {i} : e \notin Pair(phase, j)
    BY <1>1, <1>5, <1>10, Same
  <2>2. CASE e \in Pair(phase, i)
    BY <1>1, <1>3, <2>2, Same
  <2>3. CASE e \notin Pair(phase, i)
    <3>1. a[e] = Ended(phase, e)
      BY <1>1, <1>2, <1>10, <2>1, <2>3 DEF Halfway
    <3> QED  BY <1>1, <1>3, <1>10, <2>3, <3>1, Same
  <2> QED  BY <2>2, <2>3
<1> QED  BY <1>7, <1>8, <1>9, <1>10 DEF Halfway

\* When a loop is over the array is as the loop is to leave it.
LEMMA LoopOver ==
  ASSUME Running, TableInv, phase \in Reverse .. Scale, left = {}, held = <<>>
  PROVE  \A e \in 0 .. n - 1 : a[e] = Ended(phase, e)
<1>1. Pending = {}
  BY DEF Pending
<1> QED  BY <1>1, BodyFacts DEF Halfway

\* After the last stage of fft the array is the transform, after that of ifft the
\* scaling begins, and after it the caller scales the two elements left.
LEMMA JoinKeeps == ASSUME Running, TableInv, Join PROVE Running'
<1>1. /\ phase \in Reverse .. Scale /\ left = {} /\ held = <<>> /\ held' = <<>>
      /\ UNCHANGED <<n, x, op, held, nSpan>>
      /\ phase' = IF phase = domainPow /\ op = "fft" THEN End ELSE phase + 1
      /\ left' = Indices(phase')
  BY DEF Join, Enter, tableVars
<1>2. Shape /\ (phase = Scale => op = "ifft") /\ phase \in {Reverse, Scale} \cup Stages
  BY <1>1, BodyFacts, PhaseFacts
<1>3. \A e \in 0 .. n - 1 : a[e] = Ended(phase, e)
  BY <1>1, LoopOver
<1>4. a \in [0 .. n - 1 -> Field] /\ n \in Sizes /\ x \in Inputs(n) /\ op \in {"fft", "ifft"} /\ nSpan = 0
  BY DEF Running, Called
<1>5. domainPow \in Nat
  BY <1>2 DEF Shape
<1>6. CASE phase = Scale
  <2>1. phase' = End /\ op = "ifft"
    <3>1. Scale = domainPow + 1 /\ End = domainPow + 2
      BY <1>2, PhaseFacts
    <3> QED  BY <1>1, <1>2, <1>5, <1>6, <3>1
  <2>2. a' = InverseDFT(x)
    <3>1. LET scaled(z) == Mul(z, powTwoInv(domainPow)) IN
          a' = [a EXCEPT ![0] = scaled(@), ![n \div 2] = scaled(@)]
      BY <1>6 DEF Join
    <3> QED  BY <1>2, <1>3, <1>4, <1>6, <3>1, Scaled
  <2>3. a' \in [0 .. n - 1 -> Field]
    BY <1>2, <2>2, TransformTypes DEF Shape
  <2>4. left' = {}
    BY <1>1, <1>2, <2>1, OtherCase, Zenon
  <2>5. a' = IF op = "fft" THEN DFT(x) ELSE InverseDFT(x)
    BY <2>1, <2>2
  <2> QED  BY <1>1, <1>2, <1>4, <2>1, <2>3, <2>4, <2>5, AtRest
<1>7. CASE phase # Scale /\ phase = domainPow /\ op = "fft"
  <2>1. phase' = End /\ a' = a
    BY <1>1, <1>7 DEF Join
  <2>2. \A e \in 0 .. n - 1 : a[e] = DFT(x)[e]
    BY <1>2, <1>3, <1>7, Handed
  <2>3. a = DFT(x)
    <3>1. DFT(x) \in [0 .. n - 1 -> Field]
      BY <1>2, TransformTypes DEF Shape
    <3>2. a \in [0 .. n - 1 -> Field]
      BY <1>4
    <3> DEFINE S == 0 .. n - 1
               y == DFT(x)
    <3>3. y \in [S -> Field] /\ a \in [S -> Field] /\ \A e \in S : a[e] = y[e]
      BY <2>2, <3>1, <3>2
    <3> HIDE DEF S, y
    <3>4. a = y
      BY <3>3
    <3> QED  BY <3>4 DEF y
  <2>4. left' = {}
    BY <1>1, <1>2, <2>1, OtherCase, Zenon
  <2> QED  BY <1>1, <1>2, <1>4, <1>7, <2>1, <2>3, <2>4, AtRest
<1>8. CASE phase # Scale /\ ~ (phase = domainPow /\ op = "fft")
  <2> DEFINE p == phase + 1
  <2>1. phase' = p /\ a' = a /\ p \in {Scale} \cup Stages /\ p \in Reverse .. Scale
        /\ (p = Scale => op = "ifft")
    <3>1. phase' = p /\ a' = a
      BY <1>1, <1>8 DEF Join
    <3>2. p \in {Scale} \cup Stages /\ (p = Scale => phase = domainPow)
      BY <1>2, <1>5, <1>8 DEF Reverse, Scale, Stages
    <3> QED  BY <1>2, <1>4, <1>5, <1>8, <3>1, <3>2, PhaseFacts
  <2>2. \A e \in 0 .. n - 1 : a[e] = Begun(p, e)
    <3> SUFFICES ASSUME NEW e \in 0 .. n - 1 PROVE a[e] = Begun(p, e)
      OBVIOUS
    <3>1. CASE phase = domainPow
      <4>1. a[e] = DFT(x)[e] /\ p = Scale
        BY <1>2, <1>3, <1>8, <3>1, Handed DEF Scale
      <4> QED  BY <1>2, <4>1, PhaseFacts DEF Begun
    <3>2. CASE phase # domainPow
      BY <1>2, <1>3, <1>8, <3>2, Handed
    <3> QED  BY <3>1, <3>2
  <2>3. PairsApart(p) /\ RestStays(p)
    BY <1>2, <2>1, StagePairs, ScalePairs
  <2> HIDE DEF p
  <2>4. Halfway'
    BY <1>1, <1>2, <2>1, <2>2, <2>3, LoopBegins
  <2> QED  BY <1>1, <1>2, <1>4, <2>1, <2>4, AtLoop
<1> QED  BY <1>6, <1>7, <1>8

\* The GPU transforms the array at once.
LEMMA GpuKeeps == ASSUME Running, TableInv, GpuTransform PROVE Running'
<1>1. Shape /\ n \in Sizes /\ x \in Inputs(n) /\ op \in {"fft", "ifft"} /\ nSpan = 0
  BY Shaped DEF Running, Called
<1>2. /\ UNCHANGED <<n, x, op, held, nSpan>> /\ left' = Indices(phase')
      /\ phase \in {EnterIfft, EnterFft}
  BY DEF GpuTransform, Enter, tableVars
<1>3. Idle /\ a = x /\ (phase = EnterIfft => op = "ifft")
  BY <1>2 DEF Running, Waiting
<1>4. DFT(x) \in [0 .. n - 1 -> Field] /\ InverseDFT(x) \in [0 .. n - 1 -> Field] /\ domainPow \in Nat
  BY <1>1, TransformTypes DEF Shape
<1>5. CASE phase = EnterFft /\ op = "ifft"
  <2>1. a' = DFT(x) /\ phase' = Scale
    BY <1>3, <1>5 DEF GpuTransform, Enter, EnterFft, EnterIfft
  <2>2. \A e \in 0 .. n - 1 : a'[e] = Begun(Scale, e)
    BY <1>1, <2>1, PhaseFacts DEF Begun
  <2>3. Halfway'
    BY <1>1, <1>2, <1>3, <2>1, <2>2, ScalePairs, LoopBegins, PhaseFacts DEF Idle
  <2>4. Scale \in Reverse .. Scale
    BY <1>1, PhaseFacts
  <2> QED  BY <1>1, <1>2, <1>4, <1>5, <2>1, <2>3, <2>4, AtLoop
<1>6. CASE ~ (phase = EnterFft /\ op = "ifft")
  <2>1. phase' = End /\ a' = IF op = "fft" THEN DFT(x) ELSE InverseDFT(x)
    BY <1>1, <1>2, <1>3, <1>6 DEF GpuTransform, Enter, EnterFft, EnterIfft
  <2>2. left' = {}
    BY <1>1, <1>2, <2>1, OtherCase, Zenon
  <2>3. held' = <<>> /\ a' \in [0 .. n - 1 -> Field]
    BY <1>2, <1>3, <1>4, <2>1 DEF Idle
  <2> QED  BY <1>1, <1>2, <2>1, <2>2, <2>3, AtRest
<1> QED  BY <1>5, <1>6

\* Without it, ifft goes on to fft, and fft to its loops.
LEMMA NoGpuKeeps == ASSUME Running, TableInv, NoGpu PROVE Running'
<1>1. Shape /\ n \in Sizes /\ x \in Inputs(n) /\ op \in {"fft", "ifft"} /\ nSpan = 0
      /\ a \in [0 .. n - 1 -> Field]
  BY Shaped DEF Running, Called
<1>2. /\ UNCHANGED <<n, x, op, a, held, nSpan>> /\ phase' = phase + 1 /\ left' = Indices(phase')
      /\ phase \in {EnterIfft, EnterFft}
  BY DEF NoGpu, Enter, tableVars
<1>3. Idle /\ a = x /\ (phase = EnterIfft => op = "ifft")
  BY <1>2 DEF Running, Waiting
<1>4. domainPow \in Nat
  BY <1>1 DEF Shape
<1>5. CASE phase = EnterIfft
  <2>1. phase' = EnterFft
    BY <1>2, <1>5, <1>1, PhaseFacts
  <2>2. left' = {}
    BY <1>1, <1>2, <2>1, OtherCase, Zenon
  <2>3. held' = <<>>
    BY <1>2, <1>3 DEF Idle
  <2> QED  BY <1>1, <1>2, <1>3, <2>1, <2>2, <2>3, AtRest
<1>6. CASE phase = EnterFft
  <2>1. phase' = Reverse
    BY <1>2, <1>6, <1>1, PhaseFacts
  <2>2. \A e \in 0 .. n - 1 : a'[e] = Begun(Reverse, e)
    BY <1>2, <1>3 DEF Begun
  <2>3. Reverse \in Reverse .. Scale
    BY <1>1, <1>4, PhaseFacts
  <2>4. Halfway'
    BY <1>1, <1>2, <1>3, <2>1, <2>2, <2>3, ReversePairs, LoopBegins DEF Idle
  <2>5. Reverse # Scale
    BY <1>1, PhaseFacts
  <2> QED  BY <1>1, <1>2, <2>1, <2>3, <2>4, <2>5, AtLoop
<1> QED  BY <1>2, <1>5, <1>6

\* The constructor returns.
LEMMA CallKeeps == ASSUME FftInv, Call PROVE FftInv'
<1>1. /\ n' \in Sizes /\ x' \in Inputs(n') /\ a' = x' /\ nSpan' = 0 /\ left' = left /\ held' = held
      /\ \/ op' = "fft" /\ phase' = EnterFft
         \/ op' = "ifft" /\ phase' = EnterIfft
      /\ left = {} /\ held = <<>>
  BY DEF Call, Constructed, FftInv, Idle
<1>2. domainPow' \in Nat /\ a' \in [0 .. n' - 1 -> Field]
  BY <1>1, SizeFacts DEF domainPow
<1>3. /\ phase' \in (EnterIfft .. End)' /\ phase' # Building /\ phase' \notin (Reverse .. Scale)'
      /\ phase' # End'
  BY <1>1, <1>2 DEF EnterFft, EnterIfft, End, Reverse, Scale, Building
<1>4. phase' = EnterIfft => op' = "ifft"
  BY <1>1 DEF EnterFft, EnterIfft
<1>5. Called'
  BY <1>1, <1>2, <1>3 DEF Called
<1>6. Waiting' /\ Loop' /\ Result'
  BY <1>1, <1>3, <1>4 DEF Waiting, Loop, Result, Idle
<1> QED  BY <1>3, <1>5, <1>6 DEF FftInv, Running

\* Every step keeps the invariant.
LEMMA FftNext == ASSUME TableInv, FftInv, [Next]_vars PROVE FftInv'
<1>1. CASE phase = Building
  <2>1. left = {} /\ held = <<>> /\ n = 1
    BY <1>1 DEF FftInv, Idle
  <2>2. ~ GpuTransform /\ ~ NoGpu /\ ~ (Reverse <= phase)
    BY <1>1 DEF GpuTransform, NoGpu, EnterIfft, EnterFft, Building, Reverse
  <2>3. \A i \in 0 .. n - 1 : ~ Load(i) /\ ~ Store(i)
    BY <2>1 DEF Load, Store
  <2>4. CASE Call
    BY <2>4, CallKeeps
  <2>5. CASE UNCHANGED <<phase, left, held, n>>
    BY <1>1, <2>1, <2>5 DEF FftInv, Idle
  <2>6. ~ Join
    <3>1. n = 2 ^ 0 /\ 0 \in Nat
      BY <2>1
    <3>2. domainPow = 0
      BY <3>1, Log2Power DEF domainPow
    <3> QED  BY <1>1, <3>2 DEF Join, Building, Reverse, Scale
  <2> QED
    BY <2>2, <2>3, <2>4, <2>5, <2>6 DEF Next, Build, Finished, vars, arrayVars
<1>2. CASE phase # Building
  <2>1. Running /\ Shape /\ domainPow \in Nat
    BY <1>2, Shaped DEF FftInv, Running, Called, Shape
  <2>2. ASSUME Running', phase' # Building PROVE FftInv'
    BY <2>2 DEF FftInv
  <2>3. ASSUME Running' PROVE FftInv'
    <3>1. phase' # Building
      BY <2>3 DEF Running, Called, EnterIfft, Building
    <3> QED  BY <2>2, <2>3, <3>1
  <2>4. CASE Join
    BY <2>1, <2>3, <2>4, JoinKeeps
  <2>5. CASE GpuTransform
    BY <2>1, <2>3, <2>5, GpuKeeps
  <2>6. CASE NoGpu
    BY <2>1, <2>3, <2>6, NoGpuKeeps
  <2>7. ASSUME NEW i \in 0 .. n - 1, Load(i) \/ Store(i) PROVE FftInv'
    <3>1. i \in Pending
      BY <2>7 DEF Load, Store, Pending
    <3>2. phase \in Reverse .. Scale
      <4>1. CASE Idle
        BY <3>1, <4>1 DEF Idle, Pending
      <4>2. CASE ~ Idle
        BY <2>1, <4>2, PhaseFacts DEF Running, Called, Waiting, Result
      <4> QED  BY <4>1, <4>2
    <3>3. Halfway' /\ a' \in [0 .. n - 1 -> Field]
      BY <2>1, <2>7, <3>2, LoadKeeps, StoreKeeps, StoreWrites DEF Load, Running, Called
    <3>4. UNCHANGED <<n, x, op, nSpan, phase>>
      BY <2>7 DEF Load, Store, tableVars
    <3>5. Running'
      BY <2>1, <3>2, <3>3, <3>4, AtLoop DEF Running, Called, Loop
    <3> QED  BY <2>3, <3>5
  <2>8. CASE UNCHANGED vars
    <3>1. UNCHANGED <<n, x, op, a, phase, left, held, nSpan>>
      BY <2>8 DEF vars, tableVars
    <3>2. Pending' = Pending /\ Idle' = Idle
      BY <3>1 DEF Pending, Idle
    <3>3. Halfway' = Halfway
      BY <3>1, <3>2, Same DEF Halfway
    <3> QED  BY <2>1, <2>3, <3>1, <3>2, <3>3, Same DEF Running, Called, Waiting, Loop, Result
  <2>9. ~ Build /\ ~ Call
    BY <1>2 DEF Build, Call
  <2> QED  BY <2>4, <2>5, <2>6, <2>7, <2>8, <2>9 DEF Next, Finished
<1> QED  BY <1>1, <1>2

\* What the bodies of a loop have done and still hold at each moment, from which the
\* three properties below follow: the array is the result of the loops that are over
\* where its pairs are done, and of the loop before where they are not.
THEOREM FftInvariant == Spec => [](TableInv /\ FftInv)
<1>1. Init => FftInv
  BY DEF Init, FftInv, Idle
<1>2. TableInv /\ FftInv /\ [Next]_vars => FftInv'
  BY FftNext
<1> QED  BY <1>1, <1>2, TableFilled, PTL DEF Spec

\* Every value of the array is a field element, and every index is within it, in every
\* loop of fft and ifft.
THEOREM TypeCorrect == Spec => []TypeOK
<1>1. TableInv /\ FftInv => TypeOK
  <2> SUFFICES ASSUME TableInv, FftInv PROVE TypeOK
    OBVIOUS
  <2>1. TableTypeOK
    BY TableTypes
  <2>2. CASE phase = Building
    <3>1. n = 2 ^ 0 /\ 0 \in Nat /\ left = {} /\ held = <<>>
      BY <2>2 DEF FftInv, Idle
    <3>2. domainPow = 0
      BY <3>1, Log2Power DEF domainPow
    <3>3. DOMAIN held = {}
      BY <3>1
    <3> QED  BY <2>1, <2>2, <3>1, <3>2, <3>3 DEF TypeOK, Building, End
  <2>3. CASE phase # Building
    <3>1. Running /\ Shape
      BY <2>3, Shaped DEF FftInv, Running, Called
    <3>2. phase \in EnterIfft .. End /\ domainPow \in Nat
      BY <3>1 DEF Running, Called, Shape
    <3>3. Pending \subseteq 0 .. n - 1
      <4>1. CASE Idle
        <5>1. DOMAIN held = {} /\ left = {}
          BY <4>1 DEF Idle
        <5> QED  BY <5>1 DEF Pending
      <4>2. CASE ~ Idle
        <5>1. phase \in Reverse .. Scale
          BY <3>1, <3>2, <4>2, PhaseFacts DEF Running, Waiting, Result
        <5> QED  BY <3>1, <5>1, BodyFacts DEF Halfway, PairsApart
      <4> QED  BY <4>1, <4>2
    <3>4. phase \in Building .. End
      BY <3>2 DEF EnterIfft, Building, End
    <3> QED  BY <2>1, <3>1, <3>3, <3>4 DEF TypeOK, Running, Called, Pending
  <2> QED  BY <2>2, <2>3
<1> QED  BY <1>1, FftInvariant, PTL

\* The parallel_fors of reversePermutation, fft and ifft need no synchronisation: for
\* every size, no two bodies of one loop touch the same element.
THEOREM NeverOverlap == Spec => []NoOverlap
<1>1. TableInv /\ FftInv => NoOverlap
  <2> SUFFICES ASSUME TableInv, FftInv, NEW i \in Pending, NEW j \in Pending, i # j
               PROVE  Pair(phase, i) \cap Pair(phase, j) = {}
    BY DEF NoOverlap, Pending, Pair
  <2>1. ~ Idle
    BY DEF Idle, Pending
  <2>2. Running /\ Shape
    BY <2>1, Shaped DEF FftInv, Running, Called
  <2>3. phase \in Reverse .. Scale
    BY <2>1, <2>2, PhaseFacts DEF Running, Called, Waiting, Result, Shape
  <2> QED  BY <2>2, <2>3, BodyFacts DEF Halfway, PairsApart
<1> QED  BY <1>1, FftInvariant, PTL

\* fft and ifft compute the discrete Fourier transform and its inverse, for every prime
\* field with enough roots, every size, input and number of spans, and whatever the
\* order in which the bodies of their loops run.
THEOREM TransformsCorrect == Spec => []TransformCorrect
<1>1. TableInv /\ FftInv => TransformCorrect
  <2> SUFFICES ASSUME TableInv, FftInv, phase = End
               PROVE  a = IF op = "fft" THEN DFT(x) ELSE InverseDFT(x)
    BY DEF TransformCorrect
  <2>1. CASE phase # Building
    BY <2>1 DEF FftInv, Running, Result
  <2>2. CASE phase = Building
    <3>1. n = 2 ^ 0 /\ 0 \in Nat
      BY <2>2 DEF FftInv
    <3>2. domainPow = 0
      BY <3>1, Log2Power DEF domainPow
    <3> QED  BY <2>2, <3>2 DEF Building, End
  <2> QED  BY <2>1, <2>2
<1> QED  BY <1>1, FftInvariant, PTL
================================================================================
