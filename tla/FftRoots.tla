-------------------------------- MODULE FftRoots --------------------------------
(***************************************************************************)
(* What the constructor of FFT computes (fft.cpp): the size of the table of*)
(* roots of unity, its generator, and the roots that fft and ifft take from*)
(* it.                                                                     *)
(***************************************************************************)
EXTENDS PrimeField, FiniteSets

CONSTANT MaxDomainSize   \* FFT(maxDomainSize), twice the domain of the circuit

Log2(n) == CHOOSE k \in 0 .. n : 2 ^ k <= n /\ n < 2 ^ (k + 1)

\* The least quadratic non-residue from 2 on.
nqr == Min({m \in 2 .. Q - 1 : Pow(m, (Q - 1) \div 2) # 1})

\* The s of the code is Log2(MaxDomainSize), at least 1; the field must have that
\* many roots.
logRoots == Max({1, Log2(MaxDomainSize)})

ASSUME DomainAssumption ==
  /\ MaxDomainSize \in Nat \ {0}
  /\ (Q - 1) % (2 ^ logRoots) = 0

nRoots == 2 ^ logRoots
Root1  == Pow(nqr, (Q - 1) \div nRoots)

\* The search for nqr ends, and the constructor asserts that roots[nRoots - 1] times
\* roots[1] is one.
ASSUME RootsAssumption ==
  /\ \E m \in 2 .. Q - 1 : Pow(m, (Q - 1) \div 2) # 1
  /\ Pow(Root1, nRoots) = 1

\* roots[i], and the root of index idx for a domain of size 2^domainPow.
rootTable == [i \in 0 .. nRoots - 1 |-> Pow(Root1, i)]
roots(i)  == rootTable[i]
root(domainPow, idx) == roots(idx * 2 ^ (logRoots - domainPow))

powTwoInv(i) == Pow(Inv(2), i)

\* The discrete Fourier transform of an array y of a power of two of elements, and
\* its inverse, by definition: what fft and ifft are to compute.
DFT(y) ==
  LET n == Cardinality(DOMAIN y) IN
  [k \in 0 .. n - 1 |->
     Total([j \in 0 .. n - 1 |-> Mul(y[j], root(Log2(n), (j * k) % n))])]

InverseDFT(y) ==
  LET n == Cardinality(DOMAIN y) IN
  [k \in 0 .. n - 1 |->
     Mul(Inv(n), Total([j \in 0 .. n - 1 |->
                          Mul(y[j], root(Log2(n), (n - ((j * k) % n)) % n))]))]
================================================================================
