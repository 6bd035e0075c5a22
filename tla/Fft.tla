---------------------------------- MODULE Fft ----------------------------------
(***************************************************************************)
(* FFT::fft and FFT::ifft (fft.cpp) on an array a of n elements, after the *)
(* constructor has built the table of the roots (RootTable).  Each of      *)
(* the loops is a tbb::parallel_for: any number of its bodies may be in    *)
(* progress at once, each having read the elements it is about to write.   *)
(* Built with a GPU, both try the GPU first and fall back to these loops;  *)
(* the fallback of ifft is fft, which tries the GPU again.                 *)
(***************************************************************************)
EXTENDS RootTable

CONSTANTS
  Sizes,       \* the sizes n to check, powers of two
  Inputs(_)    \* the arrays of n elements to check

\* fft and ifft assert that n is a power of two, and the table has a root for each
\* element.
ASSUME SizesAssumption ==
  \A m \in Sizes : /\ \E d \in 0 .. logRoots : m = 2 ^ d
                   /\ Inputs(m) \subseteq [0 .. m - 1 -> Field]

VARIABLES n, x, op, a, phase, left, held

\* x is the array at the call of op, fft or ifft.  The loop of a phase has the
\* bodies of the indices in left to begin, and held[i] is what the body of i has
\* read, for those in progress.
arrayVars == <<n, x, op, a, phase, left, held>>
vars == <<tableVars, n, x, op, a, phase, left, held>>

domainPow == Log2(n)

\* The phases: the constructor, the two entry points, the permutation, the stages 1 to domainPow,
\* the scaling of ifft, the end.
Building  == -3
EnterIfft == -2
EnterFft  == -1
Reverse   == 0
Stages    == 1 .. domainPow
Scale     == domainPow + 1
End       == domainPow + 2

\* The bits of i, in the order of domainPow bits reversed.
BR(i) ==
  SumFunction([b \in 0 .. domainPow - 1 |->
                 ((i \div 2 ^ b) % 2) * 2 ^ (domainPow - 1 - b)])

\* Mutant of Indices: both elements of a pair swap it.
SwapBoth(p) ==
  CASE p = Reverse   -> {i \in 0 .. n - 1 : i # BR(i)}
    [] p \in Stages  -> 0 .. (n \div 2) - 1
    [] p = Scale     -> 1 .. (n \div 2) - 1
    [] OTHER         -> {}

Indices(p) ==
  CASE p = Reverse   -> {i \in 0 .. n - 1 : i > BR(i)}
    [] p \in Stages  -> 0 .. (n \div 2) - 1
    [] p = Scale     -> 1 .. (n \div 2) - 1
    [] OTHER         -> {}

\* The two elements that the body of i reads and writes in phase p.
Low(p, i) ==
  CASE p = Reverse  -> i
    [] p \in Stages -> LET half == 2 ^ (p - 1) IN ((i \div half) * 2 * half) + (i % half)
    [] OTHER        -> i

High(p, i) ==
  CASE p = Reverse  -> BR(i)
    [] p \in Stages -> Low(p, i) + 2 ^ (p - 1)
    [] OTHER        -> n - i

\* The root of a butterfly.
Twiddle(p, i)       == tableRoot(p, i % (2 ^ (p - 1)))

\* What it writes there, from the values u and v it has read.
Written(p, i, u, v) ==
  CASE p = Reverse  -> <<v, u>>
    [] p \in Stages -> LET t == Mul(Twiddle(p, i), v) IN <<Add(t, u), Sub(u, t)>>
    [] OTHER        -> <<Mul(v, powTwoInv(domainPow)), Mul(u, powTwoInv(domainPow))>>

Enter(p) == phase' = p /\ left' = Indices(p)

Init ==
  /\ TableInit
  /\ n = 1 /\ x = <<>> /\ a = <<>> /\ op = "none"
  /\ phase = Building
  /\ left = {} /\ held = <<>>

Build == phase = Building /\ Construct /\ UNCHANGED arrayVars

\* The constructor returns, and fft or ifft is called.
Call ==
  /\ phase = Building /\ Constructed
  /\ n' \in Sizes /\ x' \in Inputs(n') /\ a' = x'
  /\ \/ op' = "fft" /\ phase' = EnterFft
     \/ op' = "ifft" /\ phase' = EnterIfft
  /\ UNCHANGED <<left, held>>

\* ntt_forward, ntt_inverse: the data is replaced only if the GPU succeeds.
GpuTransform ==
  /\ \/ phase = EnterIfft /\ a' = InverseDFT(a) /\ Enter(End)
     \/ /\ phase = EnterFft /\ a' = DFT(a)
        /\ Enter(IF op = "fft" THEN End ELSE Scale)
  /\ UNCHANGED <<tableVars, n, x, op, held>>

NoGpu ==
  /\ phase \in {EnterIfft, EnterFft}
  /\ Enter(phase + 1)
  /\ UNCHANGED <<tableVars, n, x, op, a, held>>

Load(i) ==
  /\ i \in left
  /\ left' = left \ {i}
  /\ held' = [j \in DOMAIN held \cup {i} |->
                IF j = i THEN <<a[Low(phase, i)], a[High(phase, i)]>> ELSE held[j]]
  /\ UNCHANGED <<tableVars, n, x, op, a, phase>>

Store(i) ==
  /\ i \in DOMAIN held
  /\ LET w == Written(phase, i, held[i][1], held[i][2]) IN
     a' = [a EXCEPT ![Low(phase, i)] = w[1], ![High(phase, i)] = w[2]]
  /\ held' = Restrict(held, DOMAIN held \ {i})
  /\ UNCHANGED <<tableVars, n, x, op, phase, left>>

\* A loop is over: the next one, or the end.  The caller scales the elements 0
\* and n/2 itself, which are one element if n is 1.
Join ==
  /\ phase \in Reverse .. Scale /\ left = {} /\ held = <<>>
  /\ Enter(IF phase = domainPow /\ op = "fft" THEN End ELSE phase + 1)
  /\ LET scaled(y) == Mul(y, powTwoInv(domainPow)) IN
     a' = IF phase = Scale
          THEN [a EXCEPT ![0] = scaled(@), ![n \div 2] = scaled(@)] ELSE a
  /\ UNCHANGED <<tableVars, n, x, op, held>>

Finished == phase = End /\ UNCHANGED vars

Next ==
  \/ Build \/ Call \/ GpuTransform \/ NoGpu \/ Join \/ Finished
  \/ \E i \in 0 .. n - 1 : Load(i) \/ Store(i)

Spec == Init /\ [][Next]_vars

--------------------------------------------------------------------------------
\* Type invariant: every value of the array is a field element.
TypeOK ==
  /\ TableTypeOK
  /\ phase \in Building .. End
  /\ phase # Building => n \in Sizes /\ a \in [0 .. n - 1 -> Field]
  /\ left \subseteq 0 .. n - 1
  /\ DOMAIN held \subseteq 0 .. n - 1

\* Bodies of a loop that run at the same time share no element, so that the
\* parallel_fors of reversePermutation, fft and ifft need no synchronisation.
NoOverlap ==
  \A i, j \in left \cup DOMAIN held :
    i # j => {Low(phase, i), High(phase, i)} \cap {Low(phase, j), High(phase, j)} = {}

\* Whatever the order of the bodies, with a table that was built in any number of
\* spans, more than roots or with a remainder, and wherever the GPU was available
\* or not, the result is the transform, or the inverse transform, of the input.
TransformCorrect ==
  phase = End => a = IF op = "fft" THEN DFT(x) ELSE InverseDFT(x)
================================================================================
