------------------------------ MODULE ProvingKey ------------------------------
(***************************************************************************)
(* The proving key of a circuit, as snarkjs makes it: what the sections of *)
(* the key file hold.  The groups are written additively, as multiples     *)
(* modulo Q of their generators.  Polynomials are given by their values on *)
(* the domain, and the points of H belong to the odd half of a domain twice*)
(* as big.                                                                 *)
(***************************************************************************)
EXTENDS FftRoots

CONSTANTS
  nVars, nPublic, domainSize,
  QapA, QapB, QapC,   \* of a domain point and a variable: the coefficient
  Setup        \* what the key was made from: tau, alpha, beta, gamma, delta

\* A circuit has a constraint, its domain is a power of two, and its public wires are the
\* first.  The prover has an FFT of twice the domain.
ASSUME SizeAssumption ==
  /\ domainSize \in Nat \ {0}
  /\ \E d \in 0 .. domainSize : domainSize = 2 ^ d
  /\ MaxDomainSize = 2 * domainSize
  /\ nVars \in Nat /\ nPublic \in Nat /\ nPublic < nVars

Domain == 0 .. domainSize - 1
Wires  == 0 .. nVars - 1

\* The coefficients are field elements, and so is what the key was made from, which is
\* divided by gamma and delta.
ASSUME MakingAssumption ==
  /\ QapA \in [Domain -> [Wires -> Field]]
  /\ QapB \in [Domain -> [Wires -> Field]]
  /\ QapC \in [Domain -> [Wires -> Field]]
  /\ Setup.tau \in Field /\ Setup.alpha \in Field /\ Setup.beta \in Field
  /\ Setup.gamma \in Field \ {0} /\ Setup.delta \in Field \ {0}

At(y, x) == LET c == InverseDFT(y) IN
  Total([i \in DOMAIN y |-> Mul(c[i], Pow(x, i))])

Column(M, v) == At([c \in Domain |-> M[c][v]], Setup.tau)

KeyA == [v \in Wires |-> Column(QapA, v)]
KeyB == [v \in Wires |-> Column(QapB, v)]
Combined == [v \in Wires |->
  (Setup.beta * KeyA[v] + Setup.alpha * KeyB[v] + Column(QapC, v)) % Q]
KeyC == [v \in Wires |-> Mul(Combined[v], Inv(Setup.delta))]
KeyH == [i \in Domain |->
  Mul(At([j \in 0 .. 2 * domainSize - 1 |-> IF j = 2 * i + 1 THEN 1 ELSE 0], Setup.tau),
      Inv(Setup.delta))]
KeyIC == [v \in 0 .. nPublic |-> Mul(Combined[v], Inv(Setup.gamma))]
================================================================================
