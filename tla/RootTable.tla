-------------------------------- MODULE RootTable -------------------------------
(***************************************************************************)
(* The constructor of FFT fills the table of roots in nSpan spans that run *)
(* in parallel (fft.cpp).  Each span raises roots[1] to the index it starts*)
(* from, in place (RawFr::exp of fr.cpp), and multiplies by roots[1] from  *)
(* there on.  After it, fft and ifft take their roots from the table.      *)
(***************************************************************************)
EXTENDS FftRoots

CONSTANT SpanCounts   \* the values of nSpan to check

\* Ten times the number of threads.
ASSUME SpansAssumption == SpanCounts \subseteq Nat \ {0}

VARIABLES
  nSpan, table,
  at,    \* at[k]: the index that span k computes next
  exp    \* exp[k]: copyBase in the span's call of exp, and how many bits are to do

tableVars == <<nSpan, table, at, exp>>

Spans     == 0 .. nSpan - 1
Unset     == 0     \* the entries of a resized vector; no root is 0
increment == nRoots \div nSpan

start(k) == IF k = 0 THEN 2 ELSE k * increment

\* Mutants of end: the remainder of the division is left out; spans one longer.
RemainderLeft(k) == (k + 1) * increment
SpansLonger(k) == IF k = nSpan - 1 THEN nRoots ELSE (k + 1) * (increment + 1)
end(k) == IF k = nSpan - 1 THEN nRoots ELSE (k + 1) * increment

\* The bits of the exponent, which is the index itself.
Bits(k)   == IF start(k) = 0 THEN 0 ELSE Log2(start(k)) + 1
bit(k, i) == (start(k) \div 2 ^ i) % 2

TableInit ==
  /\ nSpan \in SpanCounts
  /\ table = [i \in 0 .. nRoots - 1 |-> IF i = 0 THEN 1 ELSE IF i = 1 THEN Root1 ELSE Unset]
  /\ at = [k \in Spans |-> start(k)]
  /\ exp = [k \in Spans |-> [copyBase |-> Unset, bits |-> Bits(k)]]

\* f.exp(roots[start], roots[1], start) copies the base before it writes the result.
CopyBase(k) ==
  /\ at[k] = start(k) /\ start(k) < end(k) /\ exp[k].copyBase = Unset
  /\ exp' = [exp EXCEPT ![k].copyBase = table[1]]
  /\ UNCHANGED <<nSpan, table, at>>

\* Then it works in the entry itself: the base for the highest bit, a square, and a
\* product if the bit is set, for each bit below; one for the exponent 0.
RaiseTo(k, power) ==
  /\ at[k] = start(k) /\ start(k) < end(k) /\ exp[k].copyBase # Unset
  /\ table' = [table EXCEPT ![start(k)] = power]
  /\ IF exp[k].bits <= 1 THEN at' = [at EXCEPT ![k] = @ + 1] /\ UNCHANGED exp
     ELSE exp' = [exp EXCEPT ![k].bits = @ - 1] /\ UNCHANGED at
  /\ UNCHANGED nSpan

SquareMultiply(k) ==
  LET r == table[start(k)]
      squared == Mul(r, r)
  IN IF bit(k, exp[k].bits - 1) = 1 THEN Mul(squared, exp[k].copyBase) ELSE squared

\* Mutant of Raise: the result begins as one, and the highest bit is as any other.
RaiseFromOne(k) ==
  IF start(k) > 0 /\ exp[k].bits = Bits(k) /\ table[start(k)] # 1
  THEN /\ at[k] = start(k) /\ start(k) < end(k) /\ exp[k].copyBase # Unset
       /\ table' = [table EXCEPT ![start(k)] = 1] /\ UNCHANGED <<nSpan, at, exp>>
  ELSE RaiseTo(k, IF start(k) = 0 THEN 1 ELSE SquareMultiply(k))

Raise(k) ==
  RaiseTo(k, IF start(k) = 0 THEN 1
             ELSE IF exp[k].bits = Bits(k) THEN exp[k].copyBase
             ELSE SquareMultiply(k))

\* f.mul(roots[i], roots[i - 1], roots[1])
Following(k) ==
  /\ start(k) < at[k] /\ at[k] < end(k)
  /\ table' = [table EXCEPT ![at[k]] = Mul(table[at[k] - 1], table[1])]
  /\ at' = [at EXCEPT ![k] = @ + 1]
  /\ UNCHANGED <<nSpan, exp>>

Built == \A k \in Spans : at[k] >= end(k)

Construct == \E k \in Spans : CopyBase(k) \/ Raise(k) \/ Following(k)

\* The constructor returns.
Constructed == Built /\ nSpan' = 0 /\ at' = <<>> /\ exp' = <<>> /\ UNCHANGED table

\* roots[idx << (s - domainPow)]
tableRoot(domainPow, idx) == table[idx * 2 ^ (logRoots - domainPow)]

--------------------------------------------------------------------------------
\* Type invariant.
TableTypeOK ==
  /\ nSpan \in SpanCounts \cup {0}
  /\ table \in [0 .. nRoots - 1 -> Field]
  /\ at \in [Spans -> 0 .. nRoots]
  /\ exp \in [Spans -> [copyBase : Field, bits : 0 .. logRoots + 1]]

\* The roots that others may read: the first two, those a span has gone past, and all
\* once the constructor has returned.
Final(i) == i \in {0, 1} \/ nSpan = 0 \/ \E k \in Spans : start(k) <= i /\ i < at[k]

\* A root that others may read is never changed, not even for a moment: the spans, which
\* all read roots[1], do not disturb each other although span 1 builds its first power
\* in roots[1] when increment is 1, and the last span writes it when increment is 0.
RootsStable ==
  [][\A i \in 0 .. nRoots - 1 : Final(i) => table'[i] = table[i]]_tableVars
================================================================================
