------------------------------ MODULE FieldProofs -------------------------------
(***************************************************************************)
(* What the arithmetic of PrimeField satisfies, and the roots and the      *)
(* transforms of FftRoots.  First induction, sums and powers, for every    *)
(* prime field; then the roots of unity that the constructor of FFT        *)
(* computes, for every field that has enough of them, and the transform    *)
(* and its inverse.  The lemmas of the first part cite no assumption about *)
(* the roots: the proofs about the multiexponentiation and about the field *)
(* calculator use that part alone.                                         *)
(*                                                                         *)
(* An induction is by a least counterexample: every property of naturals or*)
(* of finite sets that is proved by one is given as the set of those that  *)
(* have it.                                                                *)
(***************************************************************************)
EXTENDS FftRoots, FiniteSetTheorems, TLAPS

\* A set of naturals has a least element.
LEMMA Least ==
  ASSUME NEW S \in SUBSET Nat, S # {}
  PROVE  \E m \in S : \A k \in S : m <= k
<1> DEFINE R == OpToRel(<, Nat)
<1>1. IsWellFoundedOn(R, Nat)
  BY NatLessThanWellFounded
<1>2. \A x, y \in Nat : <<x, y>> \in R <=> x < y
  BY DEF OpToRel
<1> HIDE DEF R
<1>3. PICK m \in S : \A k \in S : ~ (<<k, m>> \in R)
  BY <1>1, WFMin
<1>4. ASSUME NEW k \in S PROVE m <= k
  <2>1. ~ (k < m)
    BY <1>2, <1>3
  <2> QED  BY <2>1
<1> QED  BY <1>4

\* A set of naturals that has 0 and, of each, the next, has all of them.
LEMMA Induction ==
  ASSUME NEW S, 0 \in S, \A n \in Nat : n \in S => n + 1 \in S
  PROVE  \A n \in Nat : n \in S
<1> SUFFICES ASSUME NEW n \in Nat, n \notin S PROVE FALSE
  OBVIOUS
<1>1. PICK m \in Nat \ S : \A k \in Nat \ S : m <= k
  <2>1. Nat \ S \in SUBSET Nat /\ Nat \ S # {}
    OBVIOUS
  <2> QED  BY <2>1, Least
<1>2. m # 0 /\ m - 1 \in Nat
  BY <1>1
<1>3. m - 1 \in S
  BY <1>1, <1>2
<1>4. (m - 1) + 1 = m
  BY <1>1
<1> QED  BY <1>1, <1>2, <1>3, <1>4

\* If S is not in T, there is a subset that is not while its proper subsets are.
LEMMA SmallestSubset ==
  ASSUME NEW S, IsFiniteSet(S), NEW T, S \notin T
  PROVE  \E U \in SUBSET S :
           /\ U \notin T
           /\ \A V \in SUBSET U : V # U => V \in T
<1> DEFINE B == {U \in SUBSET S : U \notin T}
<1>1. IsWellFoundedOn(StrictSubsetOrdering(S), FiniteSubsetsOf(S))
  BY FS_StrictSubsetOrderingWellFounded
<1>2. FiniteSubsetsOf(S) = SUBSET S
  BY FS_FiniteSubsetsOfFinite
<1>3. PICK U \in B : \A V \in B : ~ (<<V, U>> \in StrictSubsetOrdering(S))
  <2>1. B \subseteq SUBSET S /\ S \in B
    OBVIOUS
  <2> HIDE DEF B
  <2> QED  BY <1>1, <1>2, <2>1, WFMin
<1>4. \A V \in SUBSET U : V # U => V \in T
  BY <1>3 DEF StrictSubsetOrdering
<1> QED  BY <1>4

\* Induction over the subsets of a finite set.
LEMMA SubsetInduction ==
  ASSUME NEW S, IsFiniteSet(S), NEW T, {} \in T,
         \A U \in SUBSET S : \A x \in S \ U : U \in T => U \cup {x} \in T
  PROVE  S \in T
<1> SUFFICES ASSUME S \notin T PROVE FALSE
  OBVIOUS
<1>1. PICK U \in SUBSET S : U \notin T /\ \A V \in SUBSET U : V # U => V \in T
  BY SmallestSubset
<1>2. PICK x : x \in U
  BY <1>1
<1>3. U \ {x} \in T
  BY <1>1, <1>2
<1>4. (U \ {x}) \cup {x} = U
  BY <1>2
<1>5. U \ {x} \in SUBSET S /\ x \in S \ (U \ {x})
  BY <1>2
<1> QED  BY <1>1, <1>3, <1>4, <1>5

--------------------------------------------------------------------------------
\* Division, and powers of two.
LEMMA DivMod ==
  ASSUME NEW a \in Int, NEW q \in Nat \ {0}
  PROVE  /\ a % q \in 0 .. q - 1 /\ a \div q \in Int
         /\ a = (q * (a \div q)) + (a % q)
OBVIOUS

\* The quotient and the remainder are the only ones.
LEMMA ModUnique ==
  ASSUME NEW k \in Int, NEW q \in Nat, NEW r \in 0 .. q - 1
  PROVE  ((k * q) + r) % q = r /\ ((k * q) + r) \div q = k
OBVIOUS

\* DivMod, for all naturals at once.
LEMMA ModType ==
  \A q \in Nat \ {0} : \A x \in Nat :
    /\ x \div q \in Nat /\ x % q \in Nat /\ x % q \in 0 .. q - 1
    /\ x = (q * (x \div q)) + (x % q)
OBVIOUS

\* An index below h*q is in one of the first q blocks of h.
LEMMA QuotientBound ==
  ASSUME NEW h \in Nat \ {0}, NEW k \in Nat, NEW q \in Nat, NEW r \in Nat, NEW i \in Nat,
         i = (h * k) + r, NEW n \in Nat, n = h * q, i < n
  PROVE  k < q
<1> SUFFICES ASSUME k >= q PROVE FALSE
  OBVIOUS
<1> DEFINE u == k - q
<1>1. u \in Nat /\ k = q + u
  OBVIOUS
<1> HIDE DEF u
<1>2. h * k = h * q + h * u
  BY <1>1
<1>3. h * u >= 0 /\ h * q \in Int /\ h * u \in Int
  BY <1>1
<1> QED  BY <1>2, <1>3

\* ModUnique, for a sum that has a name.
LEMMA Quotient ==
  \A q \in Nat : \A r \in 0 .. q - 1 : \A k \in Int : \A x :
    x = (k * q) + r => x % q = r /\ x \div q = k
BY ModUnique

\* Without a remainder.
LEMMA Divides ==
  ASSUME NEW a \in Nat, NEW q \in Nat \ {0}, a % q = 0
  PROVE  a \div q \in Nat /\ a = q * (a \div q)
<1>1. a = (q * (a \div q)) + 0 /\ a \div q \in Int
  BY DivMod
<1>2. \A u \in Nat \ {0}, v \in Int : u * v >= 0 => v >= 0
  OBVIOUS
<1> QED  BY <1>1, <1>2

\* Powers of two, which the library defines by recursion.
LEMMA TwoExp ==
  ASSUME NEW k \in Nat
  PROVE  /\ 2 ^ k \in Nat \ {0}
         /\ 2 ^ (k + 1) = 2 * 2 ^ k
<1> DEFINE S == 1 .. k
           A == SUBSET S
           B == {s \cup {k + 1} : s \in A}
<1>1. IsFiniteSet(S) /\ Cardinality(S) = k
  BY FS_Interval
<1>2. IsFiniteSet(1 .. (k + 1)) /\ Cardinality(1 .. (k + 1)) = k + 1
  BY FS_Interval
<1>3. IsFiniteSet(A) /\ Cardinality(A) = 2 ^ k
  BY <1>1, FS_SUBSET
<1>4. Cardinality(SUBSET (1 .. (k + 1))) = 2 ^ (k + 1)
  BY <1>2, FS_SUBSET
<1>5. SUBSET (1 .. (k + 1)) = A \cup B
  <2>1. ASSUME NEW s \in SUBSET (1 .. (k + 1)) PROVE s \in A \cup B
    <3>1. CASE k + 1 \in s
      <4>1. s \ {k + 1} \in A /\ s = (s \ {k + 1}) \cup {k + 1}
        BY <3>1
      <4> QED  BY <4>1
    <3>2. CASE k + 1 \notin s
      BY <3>2
    <3> QED  BY <3>1, <3>2
  <2>2. ASSUME NEW s \in A \cup B PROVE s \in SUBSET (1 .. (k + 1))
    OBVIOUS
  <2> QED  BY <2>1, <2>2
<1>6. A \cap B = {}
  <2>1. k + 1 \notin S
    OBVIOUS
  <2> QED  BY <2>1
<1>7. IsFiniteSet(B) /\ Cardinality(B) = Cardinality(A)
  <2> DEFINE f == [s \in A |-> s \cup {k + 1}]
  <2>1. f \in Surjection(A, B)
    BY DEF Surjection
  <2>2. ASSUME NEW s \in A, NEW t \in A, f[s] = f[t] PROVE s = t
    <3>1. k + 1 \notin s /\ k + 1 \notin t
      OBVIOUS
    <3>2. s \cup {k + 1} = t \cup {k + 1}
      BY <2>2
    <3> QED  BY <3>1, <3>2
  <2>3. f \in Injection(A, B)
    BY <2>1, <2>2 DEF Injection, IsInjective, Surjection
  <2>4. ExistsBijection(A, B)
    BY <2>1, <2>3 DEF Bijection, ExistsBijection
  <2> QED  BY <1>3, <2>4, FS_Bijection
<1>8. Cardinality(A \cup B) = Cardinality(A) + Cardinality(A)
  <2>1. Cardinality(A \cup B) = Cardinality(A) + Cardinality(B) - Cardinality(A \cap B)
    BY <1>3, <1>7, FS_Union
  <2>2. Cardinality(A \cap B) = 0
    BY <1>6, FS_EmptySet, Zenon
  <2>3. Cardinality(A) \in Nat
    BY <1>3, FS_CardinalityType
  <2> HIDE DEF A, B
  <2> QED  BY <1>7, <2>1, <2>2, <2>3
<1>9. Cardinality(A) \in Nat /\ Cardinality(A) # 0
  <2>1. {} \in A
    OBVIOUS
  <2> HIDE DEF A
  <2> QED  BY <2>1, <1>3, FS_CardinalityType, FS_EmptySet
<1> HIDE DEF A, B
<1>10. Cardinality(A \cup B) = 2 ^ (k + 1)
  BY <1>4, <1>5, Zenon
<1> QED  BY <1>3, <1>8, <1>9, <1>10

--------------------------------------------------------------------------------
\* Sums.
Sum(f, S) == SumFunctionOnSet(f, S)

Chosen(s) == CHOOSE x \in s : TRUE
SumStep(f, g, s) == IF s = {} THEN 0 ELSE f[Chosen(s)] + g[s \ {Chosen(s)}]
IsSum(f, g, S) == g = [s \in SUBSET S |-> SumStep(f, g, s)]

\* Sum is the fold of the community modules, whose recursive function is IsSum.
LEMMA SumUnfold == \A f, S : Sum(f, S) = (CHOOSE g : IsSum(f, g, S))[S]
BY Zenon DEF Sum, SumFunctionOnSet, FoldFunctionOnSet, MapThenFoldSet, IsSum, SumStep, Chosen

\* The recursion at one subset.
LEMMA SumAt ==
  ASSUME NEW f, NEW g, NEW S, IsSum(f, g, S), NEW s \in SUBSET S
  PROVE  g[s] = SumStep(f, g, s)
<1> DEFINE h == [t \in SUBSET S |-> SumStep(f, g, t)]
<1>1. h[s] = SumStep(f, g, s)
  OBVIOUS
<1>2. g = h
  BY DEF IsSum
<1> QED  BY <1>1, <1>2, Zenon

\* The element that the fold takes.
LEMMA ChosenIn == \A s : s # {} => Chosen(s) \in s
BY DEF Chosen

\* The recursion gives one sum for a set, within whatever larger set it runs.
LEMMA SumUnique ==
  ASSUME NEW f, NEW g, NEW h, NEW S, NEW V, IsFiniteSet(S), S \subseteq V,
         IsSum(f, g, S), IsSum(f, h, V)
  PROVE  g[S] = h[S]
<1> DEFINE T == {s \in SUBSET S : g[s] = h[s]}
<1> SUFFICES ASSUME S \notin T PROVE FALSE
  OBVIOUS
<1>1. PICK U \in SUBSET S : U \notin T /\ \A W \in SUBSET U : W # U => W \in T
  <2> HIDE DEF T
  <2> QED  BY SmallestSubset
<1>2. g[U] = SumStep(f, g, U) /\ h[U] = SumStep(f, h, U)
  BY SumAt
<1>3. U # {} 
  BY <1>1, <1>2 DEF SumStep
<1>4. U \ {Chosen(U)} \in T
  BY <1>1, <1>3, ChosenIn
<1>5. g[U] = h[U]
  BY <1>2, <1>3, <1>4 DEF SumStep
<1> QED  BY <1>1, <1>5

\* A function that satisfies the recursion exists.
LEMMA SumExists ==
  ASSUME NEW f, NEW S, IsFiniteSet(S)
  PROVE  \E g : IsSum(f, g, S)
<1> DEFINE G(U) == CHOOSE g : IsSum(f, g, U)
           T == {U \in SUBSET S : \E g : IsSum(f, g, U)}
<1> SUFFICES ASSUME S \notin T PROVE FALSE
  OBVIOUS
<1>1. PICK U \in SUBSET S : U \notin T /\ \A V \in SUBSET U : V # U => V \in T
  <2> HIDE DEF T
  <2> QED  BY SmallestSubset
<1>2. \A V \in SUBSET U : V # U => IsSum(f, G(V), V)
  BY <1>1
<1>3. \A V \in SUBSET U : IsFiniteSet(V)
  BY FS_Subset
<1> HIDE DEF G
<1> DEFINE w(V) == IF V = {} THEN 0 ELSE f[Chosen(V)] + G(V \ {Chosen(V)})[V \ {Chosen(V)}]
           g == [V \in SUBSET U |-> w(V)]
<1>4. ASSUME NEW V \in SUBSET U, V # U PROVE G(V)[V] = w(V)
  <2>1. CASE V = {}
    BY <1>2, <1>4, <2>1, SumAt DEF SumStep
  <2>2. CASE V # {}
    <3> DEFINE X == V \ {Chosen(V)}
    <3>1. X \in SUBSET U /\ X # U /\ X \subseteq V
      BY <1>4, <2>2, ChosenIn
    <3>2. G(X)[X] = G(V)[X]
      BY <3>1, <1>2, <1>3, <1>4, SumUnique
    <3>3. G(V)[V] = SumStep(f, G(V), V)
      BY <1>2, <1>4, SumAt
    <3> QED  BY <2>2, <3>2, <3>3 DEF SumStep
  <2> QED  BY <2>1, <2>2
<1>5. ASSUME NEW V \in SUBSET U PROVE w(V) = SumStep(f, g, V)
  <2>1. CASE V = {}
    BY <2>1 DEF SumStep
  <2>2. CASE V # {}
    <3> DEFINE X == V \ {Chosen(V)}
    <3>1. X \in SUBSET U /\ X # U
      BY <2>2, ChosenIn
    <3>2. G(X)[X] = w(X)
      BY <3>1, <1>4
    <3>3. g[X] = w(X)
      BY <3>1
    <3> HIDE DEF g
    <3>4. w(V) = f[Chosen(V)] + g[X]
      BY <2>2, <3>2, <3>3
    <3> QED  BY <2>2, <3>4 DEF SumStep
  <2> QED  BY <2>1, <2>2
<1>6. g = [V \in SUBSET U |-> SumStep(f, g, V)]
  <2> DEFINE k == [V \in SUBSET U |-> SumStep(f, g, V)]
  <2> HIDE DEF w
  <2>1. \A V \in SUBSET U : g[V] = k[V]
    <3> SUFFICES ASSUME NEW V \in SUBSET U PROVE g[V] = k[V]
      OBVIOUS
    <3>1. g[V] = w(V)
      OBVIOUS
    <3> HIDE DEF g
    <3>2. k[V] = SumStep(f, g, V)
      OBVIOUS
    <3> QED  BY <1>5, <3>1, <3>2
  <2>2. DOMAIN g = SUBSET U /\ g = [V \in SUBSET U |-> g[V]]
    OBVIOUS
  <2> HIDE DEF g
  <2> QED  BY <2>1, <2>2
<1> HIDE DEF g
<1> QED  BY <1>1, <1>6 DEF IsSum

\* An empty sum is zero.
LEMMA SumEmpty == \A f : Sum(f, {}) = 0
<1> SUFFICES ASSUME NEW f PROVE Sum(f, {}) = 0
  OBVIOUS
<1>1. PICK g : IsSum(f, g, {})
  BY SumExists, FS_EmptySet
<1>2. IsSum(f, CHOOSE h : IsSum(f, h, {}), {})
  BY <1>1
<1> QED  BY <1>2, SumUnfold, SumAt DEF SumStep

\* A sum is its chosen term and the others.
LEMMA SumChosen ==
  ASSUME NEW f, NEW S, IsFiniteSet(S), S # {}
  PROVE  Sum(f, S) = f[Chosen(S)] + Sum(f, S \ {Chosen(S)})
<1> DEFINE G(U) == CHOOSE g : IsSum(f, g, U)
           X == S \ {Chosen(S)}
<1>1. IsSum(f, G(S), S)
  BY SumExists
<1>2. IsFiniteSet(X)
  BY FS_Subset
<1>3. IsSum(f, G(X), X)
  BY SumExists, <1>2
<1>4. Sum(f, S) = G(S)[S] /\ Sum(f, X) = G(X)[X]
  BY SumUnfold
<1> HIDE DEF G
<1>5. G(X)[X] = G(S)[X]
  BY <1>1, <1>2, <1>3, SumUnique
<1>6. G(S)[S] = SumStep(f, G(S), S)
  BY <1>1, SumAt
<1> QED  BY <1>4, <1>5, <1>6 DEF SumStep

\* A sum of integers is an integer.
LEMMA SumType ==
  ASSUME NEW f, NEW S, IsFiniteSet(S), \A i \in S : f[i] \in Int
  PROVE  Sum(f, S) \in Int
<1> DEFINE T == {U \in SUBSET S : Sum(f, U) \in Int}
<1> SUFFICES ASSUME S \notin T PROVE FALSE
  OBVIOUS
<1>1. PICK U \in SUBSET S : U \notin T /\ \A V \in SUBSET U : V # U => V \in T
  <2> HIDE DEF T
  <2> QED  BY SmallestSubset
<1>2. U # {}
  <2>1. Sum(f, {}) = 0
    BY SumEmpty
  <2> QED  BY <1>1, <2>1
<1>3. Sum(f, U) = f[Chosen(U)] + Sum(f, U \ {Chosen(U)})
  BY <1>2, SumChosen, FS_Subset
<1>4. U \ {Chosen(U)} \in T
  BY <1>1, <1>2, ChosenIn
<1> QED  BY <1>1, <1>2, <1>3, <1>4, ChosenIn

\* Any element can be taken out.
LEMMA SumRemove ==
  ASSUME NEW f, NEW S, IsFiniteSet(S), \A i \in S : f[i] \in Int, NEW x \in S
  PROVE  Sum(f, S) = f[x] + Sum(f, S \ {x})
<1> DEFINE P(U) == \A y \in U : Sum(f, U) = f[y] + Sum(f, U \ {y})
           T == {U \in SUBSET S : P(U)}
<1> SUFFICES ASSUME S \notin T PROVE FALSE
  OBVIOUS
<1>1. PICK U \in SUBSET S : U \notin T /\ \A V \in SUBSET U : V # U => V \in T
  <2> HIDE DEF T
  <2> QED  BY SmallestSubset
<1>2. PICK y \in U : Sum(f, U) # f[y] + Sum(f, U \ {y})
  BY <1>1
<1> DEFINE c == Chosen(U)
<1>3. c \in U
  BY <1>2, ChosenIn
<1>4. \A V \in SUBSET U : IsFiniteSet(V) /\ Sum(f, V) \in Int
  BY SumType, FS_Subset
<1>5. Sum(f, U) = f[c] + Sum(f, U \ {c})
  BY <1>2, <1>4, SumChosen
<1> HIDE DEF c
<1>6. y # c
  BY <1>2, <1>5
<1>7. P(U \ {c}) /\ P(U \ {y})
  BY <1>1, <1>2, <1>3
<1>8. Sum(f, U \ {c}) = f[y] + Sum(f, (U \ {c}) \ {y})
  BY <1>2, <1>6, <1>7
<1>9. Sum(f, U \ {y}) = f[c] + Sum(f, (U \ {y}) \ {c})
  BY <1>3, <1>6, <1>7
<1>10. (U \ {c}) \ {y} = (U \ {y}) \ {c}
  OBVIOUS
<1>11. f[y] \in Int /\ f[c] \in Int /\ Sum(f, (U \ {c}) \ {y}) \in Int
  BY <1>3, <1>4
<1>12. f[c] + (f[y] + Sum(f, (U \ {c}) \ {y})) = f[y] + (f[c] + Sum(f, (U \ {c}) \ {y}))
  BY <1>11
<1> HIDE DEF T, P
<1> QED  BY <1>2, <1>5, <1>8, <1>9, <1>10, <1>12

\* With one more term.
LEMMA SumAdd ==
  ASSUME NEW f, NEW S, IsFiniteSet(S), NEW x, x \notin S,
         \A i \in S \cup {x} : f[i] \in Int
  PROVE  Sum(f, S \cup {x}) = Sum(f, S) + f[x]
<1>1. (S \cup {x}) \ {x} = S /\ IsFiniteSet(S \cup {x})
  BY FS_AddElement
<1>2. Sum(f, S \cup {x}) = f[x] + Sum(f, S)
  BY <1>1, SumRemove
<1> QED  BY <1>2, SumType

\* Sums of equal terms are equal.
LEMMA SumEqual ==
  ASSUME NEW f, NEW g, NEW S, IsFiniteSet(S), \A i \in S : f[i] = g[i]
  PROVE  Sum(f, S) = Sum(g, S)
<1> DEFINE T == {U \in SUBSET S : Sum(f, U) = Sum(g, U)}
<1> SUFFICES ASSUME S \notin T PROVE FALSE
  OBVIOUS
<1>1. PICK U \in SUBSET S : U \notin T /\ \A V \in SUBSET U : V # U => V \in T
  <2> HIDE DEF T
  <2> QED  BY SmallestSubset
<1>2. U # {}
  BY <1>1, SumEmpty
<1>3. /\ Sum(f, U) = f[Chosen(U)] + Sum(f, U \ {Chosen(U)})
      /\ Sum(g, U) = g[Chosen(U)] + Sum(g, U \ {Chosen(U)})
  BY <1>2, SumChosen, FS_Subset
<1>4. U \ {Chosen(U)} \in T
  BY <1>1, <1>2, ChosenIn
<1> QED  BY <1>1, <1>2, <1>3, <1>4, ChosenIn

\* A sum of zeros is zero.
LEMMA SumZero ==
  ASSUME NEW f, NEW S, IsFiniteSet(S), \A i \in S : f[i] = 0
  PROVE  Sum(f, S) = 0
<1> DEFINE T == {U \in SUBSET S : Sum(f, U) = 0}
<1>1. {} \in T
  BY SumEmpty
<1>2. ASSUME NEW U \in SUBSET S, NEW x \in S \ U, U \in T PROVE U \cup {x} \in T
  BY <1>2, SumAdd, FS_Subset
<1>3. S \in T
  <2> HIDE DEF T
  <2> QED  BY <1>1, <1>2, SubsetInduction
<1> QED  BY <1>3

\* A sum of sums is the sum of the sums.
LEMMA SumPlus ==
  ASSUME NEW f, NEW g, NEW S, IsFiniteSet(S), \A i \in S : f[i] \in Int /\ g[i] \in Int
  PROVE  Sum([i \in S |-> f[i] + g[i]], S) = Sum(f, S) + Sum(g, S)
<1> DEFINE h == [i \in S |-> f[i] + g[i]]
           T == {U \in SUBSET S : Sum(h, U) = Sum(f, U) + Sum(g, U)}
<1>1. {} \in T
  BY SumEmpty
<1>2. ASSUME NEW U \in SUBSET S, NEW x \in S \ U, U \in T PROVE U \cup {x} \in T
  <2>1. IsFiniteSet(U)
    BY FS_Subset
  <2>2. Sum(f, U) \in Int /\ Sum(g, U) \in Int /\ f[x] \in Int /\ g[x] \in Int
    BY <2>1, SumType
  <2>3. \A i \in S : h[i] = f[i] + g[i] /\ h[i] \in Int
    OBVIOUS
  <2>4. Sum(h, U) = Sum(f, U) + Sum(g, U)
    BY <1>2
  <2> HIDE DEF h
  <2>5. Sum(h, U \cup {x}) = Sum(h, U) + h[x]
    BY <2>1, <2>3, SumAdd
  <2>6. Sum(f, U \cup {x}) = Sum(f, U) + f[x] /\ Sum(g, U \cup {x}) = Sum(g, U) + g[x]
    BY <2>1, SumAdd
  <2> QED  BY <2>2, <2>3, <2>4, <2>5, <2>6
<1>3. S \in T
  <2> HIDE DEF T
  <2> QED  BY <1>1, <1>2, SubsetInduction
<1> QED  BY <1>3

\* A common factor is taken out of a sum.
LEMMA SumTimes ==
  ASSUME NEW f, NEW S, IsFiniteSet(S), \A i \in S : f[i] \in Int, NEW k \in Int
  PROVE  Sum([i \in S |-> k * f[i]], S) = k * Sum(f, S)
<1> DEFINE h == [i \in S |-> k * f[i]]
           T == {U \in SUBSET S : Sum(h, U) = k * Sum(f, U)}
<1>1. {} \in T
  BY SumEmpty
<1>2. ASSUME NEW U \in SUBSET S, NEW x \in S \ U, U \in T PROVE U \cup {x} \in T
  <2>1. IsFiniteSet(U)
    BY FS_Subset
  <2>2. Sum(f, U) \in Int /\ f[x] \in Int
    BY <2>1, SumType
  <2>3. \A i \in S : h[i] = k * f[i] /\ h[i] \in Int
    OBVIOUS
  <2>4. Sum(h, U) = k * Sum(f, U)
    BY <1>2
  <2> HIDE DEF h
  <2>5. Sum(h, U \cup {x}) = Sum(h, U) + h[x]
    BY <2>1, <2>3, SumAdd
  <2>6. Sum(f, U \cup {x}) = Sum(f, U) + f[x]
    BY <2>1, SumAdd
  <2>7. k * (Sum(f, U) + f[x]) = k * Sum(f, U) + k * f[x]
    BY <2>2
  <2> QED  BY <2>2, <2>3, <2>4, <2>5, <2>6, <2>7
<1>3. S \in T
  <2> HIDE DEF T
  <2> QED  BY <1>1, <1>2, SubsetInduction
<1> QED  BY <1>3

\* A sum over two disjoint sets is the sum of the two sums.
LEMMA SumUnion ==
  ASSUME NEW f, NEW S, IsFiniteSet(S), NEW R, IsFiniteSet(R), S \cap R = {},
         \A i \in S \cup R : f[i] \in Int
  PROVE  Sum(f, S \cup R) = Sum(f, S) + Sum(f, R)
<1> DEFINE T == {U \in SUBSET R : Sum(f, S \cup U) = Sum(f, S) + Sum(f, U)}
<1>1. {} \in T
  <2>1. S \cup {} = S
    OBVIOUS
  <2>2. Sum(f, {}) = 0 /\ Sum(f, S) \in Int
    BY SumEmpty, SumType
  <2>3. Sum(f, S \cup {}) = Sum(f, S)
    BY <2>1
  <2> QED  BY <2>2, <2>3
<1>2. ASSUME NEW U \in SUBSET R, NEW x \in R \ U, U \in T PROVE U \cup {x} \in T
  <2>1. IsFiniteSet(U) /\ IsFiniteSet(S \cup U)
    BY FS_Subset, FS_Union
  <2>2. Sum(f, S) \in Int /\ Sum(f, U) \in Int /\ f[x] \in Int
    BY <2>1, SumType
  <2>3. Sum(f, U \cup {x}) = Sum(f, U) + f[x]
    BY <2>1, SumAdd
  <2>4. x \notin S \cup U
    BY <1>2
  <2>5. Sum(f, (S \cup U) \cup {x}) = Sum(f, S \cup U) + f[x]
    BY <2>1, <2>4, SumAdd
  <2>6. (S \cup U) \cup {x} = S \cup (U \cup {x})
    OBVIOUS
  <2>7. Sum(f, S \cup (U \cup {x})) = Sum(f, S \cup U) + f[x]
    BY <2>5, <2>6
  <2>8. U \cup {x} \in SUBSET R
    OBVIOUS
  <2> QED  BY <1>2, <2>2, <2>3, <2>7, <2>8
<1>3. R \in T
  <2> HIDE DEF T
  <2> QED  BY <1>1, <1>2, SubsetInduction
<1> QED  BY <1>3

\* Along a bijection b from R.
LEMMA SumAlong ==
  ASSUME NEW f, NEW R, IsFiniteSet(R), NEW b,
         \A i, j \in R : b[i] = b[j] => i = j,
         \A i \in R : f[b[i]] \in Int
  PROVE  Sum(f, {b[i] : i \in R}) = Sum([i \in R |-> f[b[i]]], R)
<1> DEFINE h == [i \in R |-> f[b[i]]]
           image(U) == {b[i] : i \in U}
           T == {U \in SUBSET R : Sum(f, image(U)) = Sum(h, U)}
<1>1. {} \in T
  <2>1. image({}) = {}
    OBVIOUS
  <2>2. Sum(f, image({})) = Sum(f, {})
    BY <2>1
  <2> HIDE DEF h, image
  <2> QED  BY <2>2, SumEmpty
<1>2. ASSUME NEW U \in SUBSET R, NEW x \in R \ U, U \in T PROVE U \cup {x} \in T
  <2>1. IsFiniteSet(U)
    BY FS_Subset
  <2>2. IsFiniteSet(image(U))
    <3> DEFINE g == [i \in U |-> b[i]]
    <3>1. g \in Surjection(U, image(U))
      BY DEF Surjection
    <3> HIDE DEF g, image
    <3> QED  BY <2>1, <3>1, FS_Surjection
  <2>3. b[x] \notin image(U)
    OBVIOUS
  <2>4. image(U \cup {x}) = image(U) \cup {b[x]}
    OBVIOUS
  <2>5. \A i \in image(U) \cup {b[x]} : f[i] \in Int
    OBVIOUS
  <2>6. \A i \in R : h[i] = f[b[i]]
    OBVIOUS
  <2>7. Sum(f, image(U)) = Sum(h, U)
    BY <1>2
  <2> HIDE DEF h, image
  <2>8. Sum(f, image(U) \cup {b[x]}) = Sum(f, image(U)) + f[b[x]]
    BY <2>2, <2>3, <2>5, SumAdd
  <2>9. Sum(h, U \cup {x}) = Sum(h, U) + h[x]
    BY <2>1, <2>6, SumAdd
  <2>10. Sum(f, image(U \cup {x})) = Sum(h, U \cup {x})
    BY <2>4, <2>6, <2>7, <2>8, <2>9
  <2> QED  BY <2>10
<1>3. R \in T
  <2> HIDE DEF T
  <2> QED  BY <1>1, <1>2, SubsetInduction
<1> QED  BY <1>3

\* The rows of a table, or its columns.
ColumnOf(f, S, j) == [i \in S |-> f[i][j]]

\* A table is summed by its rows or by its columns.
LEMMA SumSwap ==
  ASSUME NEW f, NEW S, IsFiniteSet(S), NEW R, IsFiniteSet(R),
         \A i \in S, j \in R : f[i][j] \in Int,
         NEW rows, \A i \in S : rows[i] = Sum(f[i], R),
         NEW cols, \A j \in R : cols[j] = Sum(ColumnOf(f, S, j), S)
  PROVE  Sum(rows, S) = Sum(cols, R)
<1> DEFINE column(j) == [i \in S |-> f[i][j]]
           columns(U) == [j \in R |-> Sum(column(j), U)]
           T == {U \in SUBSET S : Sum(rows, U) = Sum(columns(U), R)}
<1>1. {} \in T
  <2>1. \A j \in R : columns({})[j] = 0
    BY SumEmpty
  <2>2. Sum(columns({}), R) = 0
    <3> HIDE DEF columns
    <3> QED  BY <2>1, SumZero
  <2> HIDE DEF columns
  <2> QED  BY <2>2, SumEmpty
<1>2. ASSUME NEW U \in SUBSET S, NEW x \in S \ U, U \in T PROVE U \cup {x} \in T
  <2>1. IsFiniteSet(U)
    BY FS_Subset
  <2>2. \A i \in S : rows[i] = Sum(f[i], R) /\ rows[i] \in Int
    BY SumType
  <2>3. \A j \in R, i \in S : column(j)[i] = f[i][j] /\ column(j)[i] \in Int
    OBVIOUS
  <2>4. ASSUME NEW j \in R
        PROVE  /\ Sum(column(j), U) \in Int
               /\ Sum(column(j), U \cup {x}) = Sum(column(j), U) + f[x][j]
    <3>1. x \in S /\ x \notin U /\ U \subseteq S
      OBVIOUS
    <3> HIDE DEF column
    <3> QED  BY <2>1, <2>3, <3>1, SumAdd, SumType
  <2>5. \A j \in R : /\ columns(U)[j] = Sum(column(j), U)
                     /\ columns(U \cup {x})[j] = Sum(column(j), U \cup {x})
    OBVIOUS
  <2>6. Sum(rows, U) = Sum(columns(U), R)
    BY <1>2
  <2> HIDE DEF columns, column
  <2>7. Sum(rows, U \cup {x}) = Sum(rows, U) + rows[x]
    BY <2>1, <2>2, SumAdd
  <2> DEFINE c == columns(U)
  <2>8. \A j \in R : c[j] \in Int /\ f[x][j] \in Int
    BY <2>4, <2>5
  <2> HIDE DEF c
  <2> DEFINE h == [j \in R |-> c[j] + f[x][j]]
  <2>9. Sum(h, R) = Sum(c, R) + Sum(f[x], R)
    BY <2>8, SumPlus
  <2>10. \A j \in R : columns(U \cup {x})[j] = h[j]
    BY <2>4, <2>5 DEF c
  <2> HIDE DEF h
  <2>11. Sum(columns(U \cup {x}), R) = Sum(h, R)
    <3> DEFINE k == columns(U \cup {x})
    <3>1. \A j \in R : k[j] = h[j]
      BY <2>10
    <3> HIDE DEF k
    <3>2. Sum(k, R) = Sum(h, R)
      BY <3>1, SumEqual
    <3> QED  BY <3>2 DEF k
  <2>12. Sum(rows, U \cup {x}) = Sum(columns(U \cup {x}), R)
    BY <2>2, <2>6, <2>7, <2>9, <2>11 DEF c
  <2> QED  BY <2>12
<1>3. S \in T
  <2> HIDE DEF T
  <2> QED  BY <1>1, <1>2, SubsetInduction
<1>4. Sum(rows, S) = Sum(columns(S), R)
  BY <1>3
<1>5. \A j \in R : columns(S)[j] = cols[j]
  BY DEF ColumnOf
<1> HIDE DEF columns
<1>6. Sum(columns(S), R) = Sum(cols, R)
  BY <1>5, SumEqual
<1> QED  BY <1>4, <1>6

--------------------------------------------------------------------------------
\* Residues.
Cong(x, y) == x % Q = y % Q

\* A residue is a field element.
LEMMA ResidueType == \A x \in Int : x % Q \in Field /\ x % Q \in Int
<1> SUFFICES ASSUME NEW x \in Int PROVE x % Q \in Field /\ x % Q \in Int
  OBVIOUS
<1>1. x % Q \in 0 .. Q - 1
  BY DivMod, FieldAssumption
<1> QED  BY <1>1, FieldAssumption DEF Field

\* A field element is its own residue.
LEMMA FieldResidue == \A x \in Field : x \in Int /\ x % Q = x
<1> SUFFICES ASSUME NEW x \in Field PROVE x \in Int /\ x % Q = x
  OBVIOUS
<1>1. x \in 0 .. Q - 1 /\ x \in Int
  BY FieldAssumption DEF Field
<1>2. ((0 * Q) + x) % Q = x
  BY <1>1, ModUnique, FieldAssumption
<1> QED  BY <1>1, <1>2, FieldAssumption

\* Congruent integers differ by a multiple of Q.
LEMMA CongWitness ==
  ASSUME NEW x \in Int, NEW y \in Int
  PROVE  Cong(x, y) <=> \E k \in Int : x = y + (k * Q)
<1>1. ASSUME Cong(x, y) PROVE \E k \in Int : x = y + (k * Q)
  <2>1. x = (Q * (x \div Q)) + (x % Q) /\ x \div Q \in Int /\ x % Q \in Int
    BY DivMod, ResidueType, FieldAssumption
  <2>2. y = (Q * (y \div Q)) + (y % Q) /\ y \div Q \in Int
    BY DivMod, FieldAssumption
  <2>3. x % Q = y % Q
    BY <1>1 DEF Cong
  <2> DEFINE k == (x \div Q) - (y \div Q)
  <2>4. k * Q = (Q * (x \div Q)) - (Q * (y \div Q))
    BY <2>1, <2>2, FieldAssumption
  <2>5. k \in Int /\ x = y + (k * Q)
    BY <2>1, <2>2, <2>3, <2>4, FieldAssumption
  <2> QED  BY <2>5
<1>2. ASSUME NEW k \in Int, x = y + (k * Q) PROVE Cong(x, y)
  <2>1. y = (Q * (y \div Q)) + (y % Q) /\ y \div Q \in Int /\ y % Q \in 0 .. Q - 1
    BY DivMod, FieldAssumption
  <2> DEFINE l == k + (y \div Q)
  <2>2. l \in Int /\ l * Q = (k * Q) + (Q * (y \div Q))
    BY <2>1, FieldAssumption
  <2>3. x = (l * Q) + (y % Q)
    BY <1>2, <2>1, <2>2, FieldAssumption
  <2> HIDE DEF l
  <2>4. x % Q = y % Q
    BY <2>1, <2>2, <2>3, ModUnique, FieldAssumption
  <2> QED  BY <2>4 DEF Cong
<1> QED  BY <1>1, <1>2

\* An integer is congruent to its residue.
LEMMA CongResidue == \A x \in Int : Cong(x % Q, x)
BY ResidueType, FieldResidue DEF Cong

\* A congruence of sums, differences and products.
LEMMA CongOps ==
  ASSUME NEW x \in Int, NEW y \in Int, NEW u \in Int, NEW v \in Int, Cong(x, u), Cong(y, v)
  PROVE  Cong(x + y, u + v) /\ Cong(x - y, u - v) /\ Cong(x * y, u * v)
<1>1. PICK k \in Int : x = u + (k * Q)
  BY CongWitness
<1>2. PICK l \in Int : y = v + (l * Q)
  BY CongWitness
<1>3. Cong(x + y, u + v)
  <2>1. x + y = (u + v) + ((k + l) * Q) /\ k + l \in Int
    BY <1>1, <1>2, FieldAssumption
  <2> QED  BY <2>1, CongWitness
<1>4. Cong(x - y, u - v)
  <2>1. x - y = (u - v) + ((k - l) * Q) /\ k - l \in Int
    BY <1>1, <1>2, FieldAssumption
  <2> QED  BY <2>1, CongWitness
<1>5. Cong(x * y, u * v)
  <2> DEFINE m == (k * v) + ((u * l) + (k * (l * Q)))
  <2>1. m \in Int
    BY FieldAssumption
  <2>2. (u + (k * Q)) * (v + (l * Q)) = (u * v) + (m * Q)
    BY FieldAssumption
  <2>3. x * y = (u * v) + (m * Q) /\ x * y \in Int /\ u * v \in Int
    BY <1>1, <1>2, <2>2
  <2> HIDE DEF m
  <2> QED  BY <2>1, <2>3, CongWitness
<1> QED  BY <1>3, <1>4, <1>5

\* Sums of congruent terms are congruent.
LEMMA SumCong ==
  ASSUME NEW f, NEW g, NEW S, IsFiniteSet(S),
         \A i \in S : f[i] \in Int /\ g[i] \in Int /\ Cong(f[i], g[i])
  PROVE  Cong(Sum(f, S), Sum(g, S))
<1> DEFINE T == {U \in SUBSET S : Cong(Sum(f, U), Sum(g, U))}
<1>1. {} \in T
  BY SumEmpty DEF Cong
<1>2. ASSUME NEW U \in SUBSET S, NEW x \in S \ U, U \in T PROVE U \cup {x} \in T
  <2>1. IsFiniteSet(U)
    BY FS_Subset
  <2>2. Sum(f, U) \in Int /\ Sum(g, U) \in Int /\ f[x] \in Int /\ g[x] \in Int
    BY <2>1, SumType
  <2>3. Sum(f, U \cup {x}) = Sum(f, U) + f[x] /\ Sum(g, U \cup {x}) = Sum(g, U) + g[x]
    BY <2>1, SumAdd
  <2>4. Cong(Sum(f, U), Sum(g, U)) /\ Cong(f[x], g[x])
    BY <1>2
  <2>5. Cong(Sum(f, U) + f[x], Sum(g, U) + g[x])
    BY <2>2, <2>4, CongOps
  <2> QED  BY <2>3, <2>5
<1>3. S \in T
  <2> HIDE DEF T
  <2> QED  BY <1>1, <1>2, SubsetInduction
<1> QED  BY <1>3

\* The product is commutative, associative and has a one.
LEMMA MulFacts ==
  ASSUME NEW x \in Int, NEW y \in Int, NEW z \in Int
  PROVE  /\ Mul(x, y) \in Field /\ Mul(x, y) \in Int /\ Cong(Mul(x, y), x * y)
         /\ Mul(x, y) = Mul(y, x)
         /\ Mul(Mul(x, y), z) = (x * (y * z)) % Q
         /\ Mul(x, Mul(y, z)) = (x * (y * z)) % Q
         /\ x \in Field => Mul(x, 1) = x /\ Mul(1, x) = x
<1>1. x * y \in Int /\ y * z \in Int /\ x * y = y * x
  OBVIOUS
<1>2. /\ Mul(x, y) \in Field /\ Mul(x, y) \in Int /\ Cong(Mul(x, y), x * y)
      /\ Mul(y, z) \in Int /\ Cong(Mul(y, z), y * z)
  BY <1>1, ResidueType, CongResidue DEF Mul
<1>3. Mul(x, y) = Mul(y, x)
  BY <1>1 DEF Mul
<1>4. Cong(Mul(x, y) * z, (x * y) * z)
  BY <1>1, <1>2, CongOps DEF Cong
<1>5. (x * y) * z = x * (y * z)
  OBVIOUS
<1>6. Cong(x * Mul(y, z), x * (y * z))
  BY <1>1, <1>2, CongOps DEF Cong
<1>7. ASSUME x \in Field PROVE Mul(x, 1) = x /\ Mul(1, x) = x
  BY <1>7, FieldResidue DEF Mul
<1> QED  BY <1>2, <1>3, <1>4, <1>5, <1>6, <1>7 DEF Mul, Cong

\* The parts of MulFacts, for all arguments.
LEMMA MulType == \A x, y \in Int : Mul(x, y) \in Field /\ Mul(x, y) \in Int
BY MulFacts

\* The parts of MulFacts, for all arguments.
LEMMA MulAssoc == \A x, y, z \in Int : Mul(Mul(x, y), z) = Mul(x, Mul(y, z))
BY MulFacts

LEMMA MulCommutes == \A x, y \in Int : Mul(x, y) = Mul(y, x)
BY MulFacts

LEMMA MulOne == \A x \in Field : Mul(x, 1) = x /\ Mul(1, x) = x
BY FieldResidue, MulFacts

LEMMA MulCong == \A x, y \in Int : Cong(Mul(x, y), x * y)
BY MulFacts

\* The parts of CongOps, for all arguments.
LEMMA CongSums ==
  \A x, y, u, v \in Int :
    Cong(x, u) /\ Cong(y, v) => /\ Cong(x + y, u + v) /\ Cong(x - y, u - v) /\ Cong(x * y, u * v)
BY CongOps

\* A factor keeps a congruence.
LEMMA CongTimes == \A x, y, z \in Int : Cong(y, z) => Cong(x * y, x * z) /\ Cong(y * x, z * x)
<1> SUFFICES ASSUME NEW x \in Int, NEW y \in Int, NEW z \in Int, Cong(y, z)
             PROVE  Cong(x * y, x * z) /\ Cong(y * x, z * x)
  OBVIOUS
<1>1. Cong(x, x)
  BY DEF Cong
<1>2. Cong(x * y, x * z)
  BY <1>1, CongOps
<1>3. Cong(y * x, z * x)
  BY <1>1, CongOps
<1> QED  BY <1>2, <1>3

\* Powers, one after another.
IsPowers(g, x, n) ==
  /\ g \in [0 .. n -> Field] /\ g[0] = 1
  /\ \A i \in 0 .. n - 1 : g[i + 1] = Mul(g[i], x)

\* The powers of an element, by repeated multiplication.
LEMMA PowersExist == ASSUME NEW x \in Int PROVE \A n \in Nat : \E g : IsPowers(g, x, n)
<1> DEFINE T == {n \in Nat : \E g : IsPowers(g, x, n)}
<1>1. 0 \in T
  <2> DEFINE g == [i \in 0 .. 0 |-> 1]
  <2>1. IsPowers(g, x, 0)
    BY FieldAssumption DEF IsPowers, Field
  <2> QED  BY <2>1
<1>2. ASSUME NEW n \in Nat, n \in T PROVE n + 1 \in T
  <2>1. PICK g : IsPowers(g, x, n)
    BY <1>2
  <2> DEFINE h == [i \in 0 .. n + 1 |-> IF i <= n THEN g[i] ELSE Mul(g[n], x)]
  <2>2. g[n] \in Int /\ \A i \in 0 .. n : g[i] \in Field
    BY <2>1, FieldResidue DEF IsPowers
  <2>3. Mul(g[n], x) \in Field
    BY <2>2, MulFacts
  <2>4. h \in [0 .. n + 1 -> Field]
    BY <2>2, <2>3
  <2>5. h[0] = 1
    BY <2>1 DEF IsPowers
  <2>6. ASSUME NEW i \in 0 .. (n + 1) - 1 PROVE h[i + 1] = Mul(h[i], x)
    <3>1. CASE i < n
      <4>1. i \in 0 .. n - 1 /\ h[i] = g[i] /\ h[i + 1] = g[i + 1]
        BY <3>1
      <4> QED  BY <4>1, <2>1 DEF IsPowers
    <3>2. CASE i = n
      BY <3>2
    <3> QED  BY <3>1, <3>2
  <2>7. IsPowers(h, x, n + 1)
    <3> HIDE DEF h
    <3> QED  BY <2>4, <2>5, <2>6 DEF IsPowers
  <2> QED  BY <2>7
<1> QED
  <2> HIDE DEF T
  <2>1. \A n \in Nat : n \in T
    BY <1>1, <1>2, Induction
  <2> QED  BY <2>1 DEF T

\* Exponents are added.
LEMMA PowersAdd ==
  ASSUME NEW x \in Int, NEW n \in Nat, NEW g, IsPowers(g, x, n), NEW i \in Nat, i <= n
  PROVE  \A j \in Nat : i + j <= n => g[i + j] = Mul(g[i], g[j])
<1> DEFINE T == {j \in Nat : i + j <= n => g[i + j] = Mul(g[i], g[j])}
<1>0. \A j \in 0 .. n : g[j] \in Field /\ g[j] \in Int
  BY FieldResidue DEF IsPowers
<1>1. 0 \in T
  <2>1. g[0] = 1 /\ g[i] \in Field /\ g[i] \in Int /\ i + 0 = i
    BY <1>0 DEF IsPowers
  <2>2. Mul(g[i], 1) = g[i]
    BY <2>1, MulFacts
  <2> QED  BY <2>1, <2>2
<1>2. ASSUME NEW j \in Nat, j \in T PROVE j + 1 \in T
  <2> SUFFICES ASSUME i + (j + 1) <= n PROVE g[i + (j + 1)] = Mul(g[i], g[j + 1])
    OBVIOUS
  <2>1. g[i + j] = Mul(g[i], g[j])
    BY <1>2
  <2>2. g[(i + j) + 1] = Mul(g[i + j], x) /\ g[j + 1] = Mul(g[j], x)
    BY DEF IsPowers
  <2>3. Mul(Mul(g[i], g[j]), x) = Mul(g[i], Mul(g[j], x))
    <3>1. g[i] \in Int /\ g[j] \in Int
      BY <1>0
    <3> QED  BY <3>1, MulAssoc
  <2>4. (i + j) + 1 = i + (j + 1)
    OBVIOUS
  <2> QED  BY <2>1, <2>2, <2>3, <2>4
<1> QED
  <2> HIDE DEF T
  <2>1. \A j \in Nat : j \in T
    BY <1>1, <1>2, Induction
  <2> QED  BY <2>1 DEF T

PowStep(p, x, i) ==
  IF i = 0 THEN 1 % Q
  ELSE LET h == p[i \div 2] IN IF i % 2 = 1 THEN Mul(Mul(h, h), x) ELSE Mul(h, h)
IsPow(p, x, k) == p = [i \in 0 .. k |-> PowStep(p, x, i)]

\* Pow is the recursive function IsPow.
LEMMA PowUnfold == \A x, k : Pow(x, k) = (CHOOSE p : IsPow(p, x, k))[k]
BY Zenon DEF Pow, IsPow, PowStep

\* The recursion at one exponent.
LEMMA PowAt ==
  ASSUME NEW p, NEW x, NEW k, IsPow(p, x, k), NEW i \in 0 .. k
  PROVE  p[i] = PowStep(p, x, i)
<1> DEFINE h == [j \in 0 .. k |-> PowStep(p, x, j)]
<1>1. h[i] = PowStep(p, x, i)
  OBVIOUS
<1>2. p = h
  BY DEF IsPow
<1> QED  BY <1>1, <1>2, Zenon

\* The two halves of a natural and its last bit.
LEMMA Halves ==
  ASSUME NEW i \in Nat
  PROVE  /\ i \div 2 \in Nat /\ i % 2 \in {0, 1}
         /\ i = ((i \div 2) + (i \div 2)) + (i % 2)
         /\ i # 0 => i \div 2 < i
OBVIOUS

\* The powers satisfy the recursion by squaring.
LEMMA PowersStep ==
  ASSUME NEW x \in Int, NEW k \in Nat, NEW g, IsPowers(g, x, k), NEW i \in 0 .. k
  PROVE  g[i] = PowStep(g, x, i)
<1> DEFINE h == i \div 2
<1>1. CASE i = 0
  BY <1>1, FieldAssumption DEF PowStep, IsPowers
<1>2. CASE i # 0
  <2>1. h \in Nat /\ h < i /\ i % 2 \in {0, 1} /\ i = (h + h) + (i % 2)
    BY <1>2, Halves
  <2> HIDE DEF h
  <2>2. g[h + h] = Mul(g[h], g[h])
    BY <2>1, PowersAdd
  <2>3. CASE i % 2 = 0
    BY <1>2, <2>1, <2>2, <2>3 DEF PowStep, h
  <2>4. CASE i % 2 = 1
    <3>1. g[(h + h) + 1] = Mul(g[h + h], x)
      BY <2>1, <2>4 DEF IsPowers
    <3> QED  BY <1>2, <2>1, <2>2, <2>4, <3>1 DEF PowStep, h
  <2> QED  BY <2>1, <2>3, <2>4
<1> QED  BY <1>1, <1>2

\* Squaring from the highest bit down computes the power.
LEMMA PowIs ==
  ASSUME NEW x \in Int, NEW k \in Nat, NEW g, IsPowers(g, x, k)
  PROVE  Pow(x, k) = g[k]
<1> DEFINE p == CHOOSE q : IsPow(q, x, k)
<1>1. IsPow(g, x, k)
  <2> DEFINE h == [i \in 0 .. k |-> PowStep(g, x, i)]
  <2>1. \A i \in 0 .. k : g[i] = h[i]
    BY PowersStep
  <2>2. g \in [0 .. k -> Field]
    BY DEF IsPowers
  <2>3. DOMAIN h = 0 .. k /\ h = [i \in 0 .. k |-> h[i]]
    OBVIOUS
  <2> HIDE DEF h
  <2>4. g = h
    BY <2>1, <2>2, <2>3
  <2> QED  BY <2>4 DEF IsPow, h
<1>2. IsPow(p, x, k)
  BY <1>1
<1> HIDE DEF p
<1> DEFINE T == {i \in Nat : i <= k => p[i] = g[i]}
           B == Nat \ T
<1>3. B = {}
  <2> SUFFICES ASSUME B # {} PROVE FALSE
    OBVIOUS
  <2>1. PICK i \in B : \A j \in B : i <= j
    <3>1. B \in SUBSET Nat
      OBVIOUS
    <3> HIDE DEF B
    <3> QED  BY <3>1, Least
  <2>2. i \in Nat /\ i <= k /\ p[i] # g[i]
    OBVIOUS
  <2>3. p[i] = PowStep(p, x, i) /\ g[i] = PowStep(g, x, i)
    BY <1>1, <1>2, <2>2, PowAt
  <2>4. i # 0
    BY <2>2, <2>3 DEF PowStep
  <2>5. i \div 2 \in Nat /\ i \div 2 < i
    BY <2>2, <2>4, Halves
  <2>6. p[i \div 2] = g[i \div 2]
    BY <2>1, <2>2, <2>5
  <2>7. PowStep(p, x, i) = PowStep(g, x, i)
    BY <2>4, <2>6 DEF PowStep
  <2> QED  BY <2>2, <2>3, <2>7
<1>4. p[k] = g[k]
  BY <1>3
<1>5. Pow(x, k) = p[k]
  BY PowUnfold DEF p
<1> QED  BY <1>4, <1>5

\* Powers, step by step and of a sum of exponents.
LEMMA PowFacts ==
  ASSUME NEW x \in Int
  PROVE  /\ Pow(x, 0) = 1
         /\ \A k \in Nat : /\ Pow(x, k) \in Field /\ Pow(x, k) \in Int
                           /\ Pow(x, k + 1) = Mul(Pow(x, k), x)
         /\ \A i, j \in Nat : Pow(x, i + j) = Mul(Pow(x, i), Pow(x, j))
<1>1. ASSUME NEW n \in Nat, NEW g, IsPowers(g, x, n), NEW i \in 0 .. n PROVE Pow(x, i) = g[i]
  <2> DEFINE h == [j \in 0 .. i |-> g[j]]
  <2>1. IsPowers(h, x, i)
    BY <1>1 DEF IsPowers
  <2>2. Pow(x, i) = h[i]
    <3> HIDE DEF h
    <3> QED  BY <2>1, PowIs
  <2> QED  BY <2>2
<1>2. ASSUME NEW i \in Nat, NEW j \in Nat
      PROVE  /\ Pow(x, 0) = 1 /\ Pow(x, i) \in Field
             /\ Pow(x, i + 1) = Mul(Pow(x, i), x)
             /\ Pow(x, i + j) = Mul(Pow(x, i), Pow(x, j))
  <2>0. (i + j) + 1 \in Nat
    OBVIOUS
  <2>1. PICK g : IsPowers(g, x, (i + j) + 1)
    BY <2>0, PowersExist
  <2>2. /\ Pow(x, 0) = g[0] /\ Pow(x, i) = g[i] /\ Pow(x, i + 1) = g[i + 1]
        /\ Pow(x, j) = g[j] /\ Pow(x, i + j) = g[i + j]
    BY <1>1, <2>1, <2>0
  <2>3. g[i + j] = Mul(g[i], g[j])
    BY <2>1, <2>0, PowersAdd
  <2> QED  BY <2>1, <2>2, <2>3 DEF IsPowers
<1> QED  BY <1>2, FieldResidue

\* The powers of one.
LEMMA PowOne == \A k \in Nat : Pow(1, k) = 1
<1> DEFINE T == {k \in Nat : Pow(1, k) = 1}
<1>1. 0 \in T
  BY PowFacts
<1>2. ASSUME NEW k \in Nat, k \in T PROVE k + 1 \in T
  <2>1. Pow(1, k + 1) = Mul(1, 1)
    BY <1>2, PowFacts
  <2>2. 1 \in Field /\ Mul(1, 1) = 1
    BY FieldAssumption, MulFacts DEF Field
  <2> QED  BY <2>1, <2>2
<1> HIDE DEF T
<1>3. \A k \in Nat : k \in T
  BY <1>1, <1>2, Induction
<1> QED  BY <1>3 DEF T

\* A power of a power.
LEMMA PowPow ==
  ASSUME NEW x \in Int, NEW i \in Nat
  PROVE  \A j \in Nat : Pow(Pow(x, i), j) = Pow(x, i * j)
<1> DEFINE T == {j \in Nat : Pow(Pow(x, i), j) = Pow(x, i * j)}
<1>0. Pow(x, i) \in Int
  BY PowFacts
<1>1. 0 \in T
  BY <1>0, PowFacts
<1>2. ASSUME NEW j \in Nat, j \in T PROVE j + 1 \in T
  <2>1. Pow(Pow(x, i), j + 1) = Mul(Pow(Pow(x, i), j), Pow(x, i))
    BY <1>0, PowFacts
  <2>2. i * j \in Nat /\ i * (j + 1) = i * j + i
    OBVIOUS
  <2>3. Pow(x, i * j + i) = Mul(Pow(x, i * j), Pow(x, i))
    BY <2>2, PowFacts
  <2> QED  BY <1>2, <2>1, <2>2, <2>3
<1> HIDE DEF T
<1>3. \A j \in Nat : j \in T
  BY <1>1, <1>2, Induction
<1> QED  BY <1>3 DEF T

\* A power of a product.
LEMMA PowProduct ==
  ASSUME NEW x \in Int, NEW y \in Int
  PROVE  \A k \in Nat : Pow(Mul(x, y), k) = Mul(Pow(x, k), Pow(y, k))
<1> DEFINE T == {k \in Nat : Pow(Mul(x, y), k) = Mul(Pow(x, k), Pow(y, k))}
<1>0. Mul(x, y) \in Int
  BY MulType
<1>1. 0 \in T
  <2>1. 1 \in Field /\ Mul(1, 1) = 1
    BY FieldAssumption, MulFacts DEF Field
  <2> QED  BY <1>0, <2>1, PowFacts
<1>2. ASSUME NEW k \in Nat, k \in T PROVE k + 1 \in T
  <2> DEFINE u == Pow(x, k)
             v == Pow(y, k)
  <2>1. u \in Int /\ v \in Int
    BY PowFacts
  <2>2. /\ Pow(Mul(x, y), k + 1) = Mul(Mul(u, v), Mul(x, y))
        /\ Pow(x, k + 1) = Mul(u, x) /\ Pow(y, k + 1) = Mul(v, y)
    BY <1>0, <1>2, PowFacts
  <2> HIDE DEF u, v
  <2>3. Mul(Mul(u, v), Mul(x, y)) = Mul(Mul(u, x), Mul(v, y))
    <3>1. Mul(Mul(u, v), Mul(x, y)) = Mul(u, Mul(v, Mul(x, y)))
      BY <2>1, <1>0, MulAssoc
    <3>2. Mul(v, Mul(x, y)) = Mul(x, Mul(v, y))
      BY <2>1, MulAssoc, MulCommutes
    <3>3. Mul(u, Mul(x, Mul(v, y))) = Mul(Mul(u, x), Mul(v, y))
      BY <2>1, MulType, MulAssoc
    <3> QED  BY <3>1, <3>2, <3>3
  <2> QED  BY <2>2, <2>3
<1> HIDE DEF T
<1>3. \A k \in Nat : k \in T
  BY <1>1, <1>2, Induction
<1> QED  BY <1>3 DEF T

\* The powers of two of a sum.
LEMMA TwoExpAdd ==
  ASSUME NEW i \in Nat
  PROVE  \A j \in Nat : 2 ^ (i + j) = 2 ^ i * 2 ^ j
<1> DEFINE T == {j \in Nat : 2 ^ (i + j) = 2 ^ i * 2 ^ j}
<1>0. 2 ^ 0 = 1
  OBVIOUS
<1>1. 0 \in T
  BY <1>0, TwoExp
<1>2. ASSUME NEW j \in Nat, j \in T PROVE j + 1 \in T
  <2>1. (i + j) + 1 = i + (j + 1) /\ i + j \in Nat
    OBVIOUS
  <2>2. 2 ^ ((i + j) + 1) = 2 * 2 ^ (i + j) /\ 2 ^ (j + 1) = 2 * 2 ^ j
    BY <2>1, TwoExp
  <2>3. 2 ^ i \in Int /\ 2 ^ j \in Int
    BY TwoExp
  <2>4. 2 * (2 ^ i * 2 ^ j) = 2 ^ i * (2 * 2 ^ j)
    BY <2>3
  <2> QED  BY <1>2, <2>1, <2>2, <2>4
<1> HIDE DEF T
<1>3. \A j \in Nat : j \in T
  BY <1>1, <1>2, Induction
<1> QED  BY <1>3 DEF T

\* The powers of two grow.
LEMMA TwoExpMonotonic ==
  ASSUME NEW i \in Nat, NEW j \in Nat, i < j
  PROVE  2 ^ i < 2 ^ j /\ 2 ^ (i + 1) <= 2 ^ j
<1>1. PICK k \in Nat : j = (i + 1) + k
  <2>1. j - (i + 1) \in Nat /\ j = (i + 1) + (j - (i + 1))
    OBVIOUS
  <2> QED  BY <2>1
<1>2. 2 ^ j = 2 ^ (i + 1) * 2 ^ k
  BY <1>1, TwoExpAdd
<1>3. 2 ^ (i + 1) = 2 * 2 ^ i /\ 2 ^ i \in Nat \ {0} /\ 2 ^ k \in Nat \ {0} /\ 2 ^ (i + 1) \in Nat
  BY TwoExp
<1>4. \A u \in Nat, v \in Nat \ {0} : u <= u * v
  OBVIOUS
<1>5. 2 ^ (i + 1) <= 2 ^ (i + 1) * 2 ^ k
  BY <1>3, <1>4
<1> QED  BY <1>2, <1>3, <1>5

\* A natural is below its power of two.
LEMMA TwoExpAbove == \A k \in Nat : k < 2 ^ k
<1> DEFINE T == {k \in Nat : k < 2 ^ k}
<1>1. 0 \in T
  OBVIOUS
<1>2. ASSUME NEW k \in Nat, k \in T PROVE k + 1 \in T
  BY <1>2, TwoExp
<1> HIDE DEF T
<1>3. \A k \in Nat : k \in T
  BY <1>1, <1>2, Induction
<1> QED  BY <1>3 DEF T

--------------------------------------------------------------------------------
\* Inverses.
LEMMA InvUnique ==
  ASSUME NEW x \in Int, NEW y \in Field, Mul(x, y) = 1
  PROVE  Inv(x) = y
<1> SUFFICES ASSUME NEW z \in Field, Mul(x, z) = 1 PROVE z = y
  BY DEF Inv
<1>1. y \in Int /\ z \in Int
  BY FieldResidue
<1>2. Mul(Mul(z, x), y) = Mul(z, Mul(x, y))
  BY <1>1, MulAssoc
<1>3. Mul(z, x) = 1
  BY <1>1, MulCommutes
<1>4. Mul(1, y) = y /\ Mul(z, 1) = z
  BY <1>1, MulFacts
<1> QED  BY <1>2, <1>3, <1>4

\* A product is zero only if a factor is.
LEMMA ZeroProduct ==
  ASSUME NEW x \in Field, NEW y \in Field, Mul(x, y) = 0
  PROVE  x = 0 \/ y = 0
BY PrimeAssumption, FieldAssumption DEF Mul, Field

\* A unit can be cancelled.
LEMMA Cancel ==
  ASSUME NEW x \in Field \ {0}, NEW y \in Field, NEW z \in Field, Mul(x, y) = Mul(x, z)
  PROVE  y = z
<1> DEFINE w == (y - z) % Q
<1>1. x \in Int /\ y \in Int /\ z \in Int
  BY FieldResidue
<1>2. w \in Field /\ w \in Int /\ Cong(w, y - z)
  BY <1>1, ResidueType, CongResidue
<1> HIDE DEF w
<1>3. Cong(x * w, x * (y - z))
  BY <1>1, <1>2, CongOps DEF Cong
<1>4. Cong(x * y, x * z)
  BY DEF Mul, Cong
<1>5. Cong(x * y - x * z, x * z - x * z)
  BY <1>1, <1>4, CongOps DEF Cong
<1>6. x * (y - z) = x * y - x * z /\ x * z - x * z = 0
  BY <1>1
<1>7. Mul(x, w) = 0
  BY <1>3, <1>5, <1>6, FieldResidue, FieldAssumption DEF Cong, Mul, Field
<1>8. w = 0
  BY <1>2, <1>7, ZeroProduct
<1>9. Cong(y - z, 0)
  BY <1>2, <1>8 DEF Cong
<1>10. Cong((y - z) + z, 0 + z)
  BY <1>1, <1>9, CongOps DEF Cong
<1> QED  BY <1>1, <1>10, FieldResidue DEF Cong

\* Every unit has an inverse.
LEMMA UnitInverse ==
  ASSUME NEW x \in Field \ {0}
  PROVE  Inv(x) \in Field /\ Mul(x, Inv(x)) = 1
<1> DEFINE f == [y \in Field |-> Mul(x, y)]
<1>1. x \in Int
  BY FieldResidue
<1>2. f \in [Field -> Field]
  BY <1>1, FieldResidue, MulType
<1>3. f \in Injection(Field, Field)
  BY <1>2, Cancel DEF Injection, IsInjective
<1>4. IsFiniteSet(Field)
  BY FS_Interval, FieldAssumption DEF Field
<1>5. f \in Surjection(Field, Field)
  BY <1>3, <1>4, FS_Injection
<1>6. 1 \in Field
  BY FieldAssumption DEF Field
<1>7. \E y \in Field : Mul(x, y) = 1
  BY <1>5, <1>6 DEF Surjection
<1>8. PICK y \in Field : Mul(x, y) = 1
  BY <1>7
<1>9. Inv(x) = y
  BY <1>1, <1>8, InvUnique
<1> QED  BY <1>8, <1>9

--------------------------------------------------------------------------------
\* Sums in the field.
LEMMA SumFunctionIs == \A f : SumFunction(f) = Sum(f, DOMAIN f)
BY Zenon DEF SumFunction, SumFunctionOnSet, FoldFunction, Sum

\* A total is the residue of the sum.
LEMMA TotalIs ==
  ASSUME NEW S, IsFiniteSet(S), NEW f, DOMAIN f = S, \A i \in S : f[i] \in Int
  PROVE  /\ Total(f) = Sum(f, S) % Q /\ Sum(f, S) \in Int
         /\ Total(f) \in Field /\ Total(f) \in Int
         /\ Cong(Total(f), Sum(f, S))
<1>1. Total(f) = Sum(f, S) % Q
  BY Zenon DEF Total, SumFunction, SumFunctionOnSet, FoldFunction, Sum
<1>2. Sum(f, S) \in Int
  BY SumType
<1> QED  BY <1>1, <1>2, ResidueType, CongResidue

\* Totals of congruent terms are equal.
LEMMA TotalCong ==
  ASSUME NEW S, IsFiniteSet(S), NEW f, DOMAIN f = S, NEW g, DOMAIN g = S,
         \A i \in S : f[i] \in Int /\ g[i] \in Int /\ Cong(f[i], g[i])
  PROVE  Total(f) = Total(g)
BY TotalIs, SumCong DEF Cong

\* A common factor is taken out of a total.
LEMMA TotalTimes ==
  ASSUME NEW S, IsFiniteSet(S), NEW f, DOMAIN f = S, NEW h, DOMAIN h = S, NEW k \in Int,
         \A i \in S : f[i] \in Int /\ h[i] \in Int /\ Cong(h[i], k * f[i])
  PROVE  Total(h) = Mul(k, Total(f)) /\ Total(h) = (k * Total(f)) % Q
<1> DEFINE g == [i \in S |-> k * f[i]]
<1>1. DOMAIN g = S /\ \A i \in S : g[i] \in Int /\ Cong(h[i], g[i])
  OBVIOUS
<1>2. Sum(g, S) = k * Sum(f, S)
  BY SumTimes
<1> HIDE DEF g
<1>3. Cong(Sum(h, S), Sum(g, S))
  BY <1>1, SumCong
<1>4. Cong(k * Total(f), k * Sum(f, S))
  BY TotalIs, CongOps DEF Cong
<1>5. Total(h) = Sum(h, S) % Q
  BY TotalIs
<1> QED  BY <1>2, <1>3, <1>4, <1>5 DEF Mul, Cong

\* A total of sums is the sum of the totals.
LEMMA TotalPlus ==
  ASSUME NEW S, IsFiniteSet(S), NEW f, DOMAIN f = S, NEW g, DOMAIN g = S, NEW h, DOMAIN h = S,
         \A i \in S : f[i] \in Int /\ g[i] \in Int /\ h[i] \in Int /\ Cong(h[i], f[i] + g[i])
  PROVE  Total(h) = Add(Total(f), Total(g)) /\ Total(h) = (Total(f) + Total(g)) % Q
<1> DEFINE e == [i \in S |-> f[i] + g[i]]
<1>1. DOMAIN e = S /\ \A i \in S : e[i] \in Int /\ Cong(h[i], e[i])
  OBVIOUS
<1>2. Sum(e, S) = Sum(f, S) + Sum(g, S)
  BY SumPlus
<1> HIDE DEF e
<1>3. Cong(Sum(h, S), Sum(e, S))
  BY <1>1, SumCong
<1>4. Cong(Total(f) + Total(g), Sum(f, S) + Sum(g, S))
  <2>1. Cong(Total(f), Sum(f, S)) /\ Cong(Total(g), Sum(g, S))
    BY TotalIs
  <2>2. /\ Total(f) \in Int /\ Sum(f, S) \in Int
        /\ Total(g) \in Int /\ Sum(g, S) \in Int
    BY TotalIs
  <2> QED  BY <2>1, <2>2, CongOps
<1>5. Total(h) = Sum(h, S) % Q
  BY TotalIs
<1> QED  BY <1>2, <1>3, <1>4, <1>5 DEF Add, Cong

\* A total of differences is the difference of the totals.
LEMMA TotalMinus ==
  ASSUME NEW S, IsFiniteSet(S), NEW f, DOMAIN f = S, NEW g, DOMAIN g = S, NEW h, DOMAIN h = S,
         \A i \in S : f[i] \in Int /\ g[i] \in Int /\ h[i] \in Int /\ Cong(h[i], f[i] - g[i])
  PROVE  Total(h) = Sub(Total(f), Total(g))
<1>1. ASSUME NEW i \in S PROVE Cong(f[i], h[i] + g[i])
  <2>1. Cong(h[i] + g[i], (f[i] - g[i]) + g[i])
    BY CongOps DEF Cong
  <2> QED  BY <2>1 DEF Cong
<1>2. Total(f) = (Total(h) + Total(g)) % Q
  BY <1>1, TotalPlus
<1>3. Total(f) \in Int /\ Total(h) \in Int /\ Total(g) \in Int /\ Total(h) \in Field
  BY TotalIs
<1>4. Cong(Total(f), Total(h) + Total(g))
  BY <1>2, <1>3, CongResidue
<1>5. Cong(Total(f) - Total(g), (Total(h) + Total(g)) - Total(g))
  BY <1>3, <1>4, CongOps DEF Cong
<1>6. (Total(h) + Total(g)) - Total(g) = Total(h)
  BY <1>3
<1> QED  BY <1>3, <1>5, <1>6, FieldResidue DEF Cong, Sub

\* The sum of the sums of the rows is the sum of the sums of the columns.
LEMMA TotalSwap ==
  ASSUME NEW S, IsFiniteSet(S), NEW R, IsFiniteSet(R), NEW f,
         \A i \in S, j \in R : f[i][j] \in Int,
         NEW rows, DOMAIN rows = S, NEW cols, DOMAIN cols = R,
         \A i \in S : rows[i] \in Int /\ Cong(rows[i], Sum(f[i], R)),
         \A j \in R : cols[j] \in Int /\ Cong(cols[j], Sum(ColumnOf(f, S, j), S))
  PROVE  Total(rows) = Total(cols)
<1> DEFINE r == [i \in S |-> Sum(f[i], R)]
           c == [j \in R |-> Sum(ColumnOf(f, S, j), S)]
<1>1. \A i \in S : r[i] = Sum(f[i], R) /\ r[i] \in Int
  BY SumType
<1>2. ASSUME NEW j \in R PROVE c[j] = Sum(ColumnOf(f, S, j), S) /\ c[j] \in Int
  <2>1. \A i \in S : ColumnOf(f, S, j)[i] \in Int
    BY DEF ColumnOf
  <2> QED  BY <2>1, SumType
<1> HIDE DEF r, c
<1>3. Sum(r, S) = Sum(c, R)
  BY <1>1, <1>2, SumSwap
<1>4. Cong(Sum(rows, S), Sum(r, S))
  BY <1>1, SumCong
<1>5. Cong(Sum(cols, R), Sum(c, R))
  BY <1>2, SumCong
<1>6. Total(rows) = Sum(rows, S) % Q /\ Total(cols) = Sum(cols, R) % Q
  BY TotalIs
<1> QED  BY <1>3, <1>4, <1>5, <1>6 DEF Cong

\* A sum over an even number of indices, by halves.
AreHalves(f, even, odd, m) ==
  /\ \A j \in 0 .. 2 * m - 1 : f[j] \in Int
  /\ \A j \in 0 .. m - 1 : even[j] = f[2 * j] /\ odd[j] = f[(2 * j) + 1]

\* A sum over an even range is the sum of its even and of its odd terms.
LEMMA SumHalves ==
  ASSUME NEW m \in Nat, NEW f, NEW even, NEW odd, AreHalves(f, even, odd, m)
  PROVE  Sum(f, 0 .. 2 * m - 1) = Sum(even, 0 .. m - 1) + Sum(odd, 0 .. m - 1)
<1> DEFINE R == 0 .. m - 1
           b == [j \in R |-> 2 * j]
           c == [j \in R |-> (2 * j) + 1]
           B == {b[j] : j \in R}
           C == {c[j] : j \in R}
           h == [j \in R |-> f[b[j]]]
           k == [j \in R |-> f[c[j]]]
<1>0. /\ \A j \in 0 .. 2 * m - 1 : f[j] \in Int
      /\ \A j \in 0 .. m - 1 : even[j] = f[2 * j] /\ odd[j] = f[(2 * j) + 1]
  BY DEF AreHalves
<1>1. IsFiniteSet(R)
  BY FS_Interval
<1>2. \A j \in R : b[j] = 2 * j /\ c[j] = (2 * j) + 1 /\ b[j] \in 0 .. 2 * m - 1 /\ c[j] \in 0 .. 2 * m - 1
  OBVIOUS
<1>3. 0 .. 2 * m - 1 = B \cup C
  <2>1. ASSUME NEW i \in 0 .. 2 * m - 1 PROVE i \in B \cup C
    <3>1. i \div 2 \in R /\ (i = 2 * (i \div 2) \/ i = (2 * (i \div 2)) + 1)
      OBVIOUS
    <3>2. b[i \div 2] = i \/ c[i \div 2] = i
      BY <3>1
    <3> QED  BY <3>1, <3>2
  <2> QED  BY <1>2, <2>1
<1>4. B \cap C = {}
  OBVIOUS
<1>5. (\A i, j \in R : b[i] = b[j] => i = j) /\ (\A i, j \in R : c[i] = c[j] => i = j)
  OBVIOUS
<1>6. IsFiniteSet(B) /\ IsFiniteSet(C)
  <2>1. B \subseteq 0 .. 2 * m - 1 /\ C \subseteq 0 .. 2 * m - 1
    BY <1>2
  <2>2. IsFiniteSet(0 .. 2 * m - 1)
    BY FS_Interval
  <2> HIDE DEF B, C
  <2> QED  BY <2>1, <2>2, FS_Subset
<1>7. \A j \in R : f[b[j]] \in Int /\ f[c[j]] \in Int
  BY <1>0, <1>2
<1>8. (\A j \in R : h[j] = even[j]) /\ (\A j \in R : k[j] = odd[j])
  BY <1>0, <1>2
<1>9. \A i \in B \cup C : f[i] \in Int
  BY <1>0, <1>3
<1>10. Sum(f, B) = Sum(h, R) /\ Sum(f, C) = Sum(k, R)
  <2> HIDE DEF R, b, c
  <2> QED  BY <1>1, <1>5, <1>7, SumAlong
<1> HIDE DEF R, B, C, h, k
<1>11. Sum(f, B \cup C) = Sum(f, B) + Sum(f, C)
  BY <1>4, <1>6, <1>9, SumUnion
<1>12. Sum(h, R) = Sum(even, R) /\ Sum(k, R) = Sum(odd, R)
  BY <1>1, <1>8, SumEqual
<1> QED  BY <1>3, <1>10, <1>11, <1>12 DEF R

\* A factor in the middle comes first.
LEMMA FactorOut ==
  ASSUME NEW o \in Int, NEW p \in Int, NEW c \in Int
  PROVE  Cong(Mul(o, Mul(p, c)), c * Mul(o, p))
<1>1. Mul(o, Mul(p, c)) = (o * (p * c)) % Q
  BY MulFacts
<1>2. Cong(Mul(o, p), o * p) /\ Mul(o, p) \in Int /\ o * p \in Int
  BY MulFacts
<1>3. Cong(c * Mul(o, p), c * (o * p))
  BY <1>2, CongOps DEF Cong
<1>4. c * (o * p) = o * (p * c) /\ o * (p * c) \in Int
  OBVIOUS
<1>5. Cong((o * (p * c)) % Q, o * (p * c))
  BY <1>4, CongResidue
<1> QED  BY <1>1, <1>3, <1>4, <1>5 DEF Cong

\* The square.
LEMMA PowSquare == \A x \in Int : Pow(x, 2) = Mul(x, x)
<1> SUFFICES ASSUME NEW x \in Int PROVE Pow(x, 2) = Mul(x, x)
  OBVIOUS
<1>1. Pow(x, 0) = 1 /\ Pow(x, 0 + 1) = Mul(Pow(x, 0), x) /\ Pow(x, 1 + 1) = Mul(Pow(x, 1), x)
  BY PowFacts
<1>2. 0 + 1 = 1 /\ 1 + 1 = 2
  OBVIOUS
<1>3. Mul(Mul(1, x), x) = (1 * (x * x)) % Q
  BY MulFacts
<1>4. 1 * (x * x) = x * x
  OBVIOUS
<1> QED  BY <1>1, <1>2, <1>3, <1>4, Zenon DEF Mul

--------------------------------------------------------------------------------
\* A total of terms that are known up to a multiple of Q.
LEMMA TotalOf ==
  ASSUME NEW S, IsFiniteSet(S), NEW h, DOMAIN h = S, NEW g,
         \A i \in S : h[i] \in Int /\ g[i] \in Int /\ Cong(h[i], g[i])
  PROVE  Total(h) \in Field /\ Total(h) \in Int /\ Cong(Total(h), Sum(g, S))
<1>1. Total(h) \in Field /\ Total(h) \in Int /\ Cong(Total(h), Sum(h, S))
  BY TotalIs
<1>2. Cong(Sum(h, S), Sum(g, S))
  BY SumCong
<1> QED  BY <1>1, <1>2 DEF Cong

\* A sum with one term that is not zero.
LEMMA SumSingle ==
  ASSUME NEW S, IsFiniteSet(S), NEW f, NEW m \in S, f[m] \in Int,
         \A i \in S : i # m => f[i] = 0
  PROVE  Sum(f, S) = f[m]
<1>1. \A i \in S : f[i] \in Int
  OBVIOUS
<1>2. Sum(f, S) = f[m] + Sum(f, S \ {m})
  BY <1>1, SumRemove
<1>3. IsFiniteSet(S \ {m}) /\ \A i \in S \ {m} : f[i] = 0
  BY FS_RemoveElement
<1>4. Sum(f, S \ {m}) = 0
  BY <1>3, SumZero
<1> QED  BY <1>2, <1>4

\* u[j] is the sum of c[i] times f[j][i], modulo Q, and w[i] that of v[j] times f[j][i].
RowSums(u, c, f, S, R) ==
  \A j \in S : u[j] \in Int /\ Cong(u[j], Sum([i \in R |-> c[i] * f[j][i]], R))
ColumnSums(w, v, f, S, R) ==
  \A i \in R : w[i] \in Int /\ Cong(w[i], Sum([j \in S |-> v[j] * f[j][i]], S))

\* The bilinear form of a table, by its rows and by its columns.
LEMMA Exchange ==
  ASSUME NEW S, IsFiniteSet(S), NEW R, IsFiniteSet(R), NEW f, NEW u, NEW v, NEW c, NEW w,
         \A j \in S : v[j] \in Int, \A i \in R : c[i] \in Int,
         \A j \in S, i \in R : f[j][i] \in Int,
         RowSums(u, c, f, S, R), ColumnSums(w, v, f, S, R),
         NEW a, DOMAIN a = S, NEW b, DOMAIN b = R,
         \A j \in S : a[j] \in Int /\ Cong(a[j], v[j] * u[j]),
         \A i \in R : b[i] \in Int /\ Cong(b[i], c[i] * w[i])
  PROVE  Total(a) = Total(b)
<1> DEFINE F == [j \in S |-> [i \in R |-> v[j] * (c[i] * f[j][i])]]
           row(j) == [i \in R |-> c[i] * f[j][i]]
           col(i) == [j \in S |-> v[j] * f[j][i]]
<1>1. \A j \in S, i \in R : /\ F[j][i] = v[j] * (c[i] * f[j][i]) /\ F[j][i] \in Int
                            /\ row(j)[i] = c[i] * f[j][i] /\ row(j)[i] \in Int
                            /\ col(i)[j] = v[j] * f[j][i] /\ col(i)[j] \in Int
                            /\ F[j][i] = c[i] * (v[j] * f[j][i])
  <2> SUFFICES ASSUME NEW j \in S, NEW i \in R
               PROVE  /\ v[j] * (c[i] * f[j][i]) \in Int /\ c[i] * f[j][i] \in Int
                      /\ v[j] * f[j][i] \in Int
                      /\ v[j] * (c[i] * f[j][i]) = c[i] * (v[j] * f[j][i])
    OBVIOUS
  <2>1. v[j] \in Int /\ c[i] \in Int /\ f[j][i] \in Int
    OBVIOUS
  <2>2. \A x, y, z \in Int : x * (y * z) \in Int /\ y * z \in Int /\ x * (y * z) = y * (x * z)
    OBVIOUS
  <2> QED  BY <2>1, <2>2
<1>2. \A j \in S : /\ u[j] \in Int /\ Cong(u[j], Sum(row(j), R))
                   /\ Sum(F[j], R) = v[j] * Sum(row(j), R) /\ Sum(row(j), R) \in Int
  <2> SUFFICES ASSUME NEW j \in S
               PROVE  /\ u[j] \in Int /\ Cong(u[j], Sum(row(j), R))
                      /\ Sum(F[j], R) = v[j] * Sum(row(j), R) /\ Sum(row(j), R) \in Int
    OBVIOUS
  <2>1. u[j] \in Int /\ Cong(u[j], Sum(row(j), R))
    BY DEF RowSums
  <2>2. \A i \in R : row(j)[i] \in Int
    BY <1>1
  <2>3. F[j] = [i \in R |-> v[j] * row(j)[i]]
    BY <1>1
  <2> HIDE DEF row, F
  <2>4. Sum(row(j), R) \in Int /\ Sum([i \in R |-> v[j] * row(j)[i]], R) = v[j] * Sum(row(j), R)
    BY <2>2, SumType, SumTimes
  <2> QED  BY <2>1, <2>3, <2>4
<1>3. \A i \in R : /\ w[i] \in Int /\ Cong(w[i], Sum(col(i), S))
                   /\ Sum(ColumnOf(F, S, i), S) = c[i] * Sum(col(i), S) /\ Sum(col(i), S) \in Int
  <2> SUFFICES ASSUME NEW i \in R
               PROVE  /\ w[i] \in Int /\ Cong(w[i], Sum(col(i), S))
                      /\ Sum(ColumnOf(F, S, i), S) = c[i] * Sum(col(i), S) /\ Sum(col(i), S) \in Int
    OBVIOUS
  <2>1. w[i] \in Int /\ Cong(w[i], Sum(col(i), S))
    BY DEF ColumnSums
  <2>2. \A j \in S : col(i)[j] \in Int
    BY <1>1
  <2>3. ColumnOf(F, S, i) = [j \in S |-> c[i] * col(i)[j]]
    BY <1>1 DEF ColumnOf
  <2> HIDE DEF col, F
  <2>4. Sum(col(i), S) \in Int /\ Sum([j \in S |-> c[i] * col(i)[j]], S) = c[i] * Sum(col(i), S)
    BY <2>2, SumType, SumTimes
  <2> QED  BY <2>1, <2>3, <2>4
<1> HIDE DEF F, row, col
<1>4. \A x, y, z \in Int : Cong(y, z) => Cong(x * y, x * z)
  BY CongTimes
<1>5. \A j \in S : a[j] \in Int /\ Cong(a[j], Sum(F[j], R))
  <2> SUFFICES ASSUME NEW j \in S PROVE a[j] \in Int /\ Cong(a[j], Sum(F[j], R))
    OBVIOUS
  <2>1. Cong(v[j] * u[j], v[j] * Sum(row(j), R))
    BY <1>2, <1>4
  <2> QED  BY <1>2, <2>1 DEF Cong
<1>6. \A i \in R : b[i] \in Int /\ Cong(b[i], Sum(ColumnOf(F, S, i), S))
  <2> SUFFICES ASSUME NEW i \in R PROVE b[i] \in Int /\ Cong(b[i], Sum(ColumnOf(F, S, i), S))
    OBVIOUS
  <2>1. Cong(c[i] * w[i], c[i] * Sum(col(i), S))
    BY <1>3, <1>4
  <2> QED  BY <1>3, <2>1 DEF Cong
<1>7. \A j \in S, i \in R : F[j][i] \in Int
  BY <1>1
<1> QED  BY <1>5, <1>6, <1>7, TotalSwap

\* The premises of Exchange, of TotalTimes and of TotalMinus, by name.
BothWays(S, R, f, u, v, c, w, a, b) ==
  /\ IsFiniteSet(S) /\ IsFiniteSet(R) /\ DOMAIN a = S /\ DOMAIN b = R
  /\ \A j \in S : v[j] \in Int
  /\ \A i \in R : c[i] \in Int
  /\ \A j \in S, i \in R : f[j][i] \in Int
  /\ RowSums(u, c, f, S, R) /\ ColumnSums(w, v, f, S, R)
  /\ \A j \in S : a[j] \in Int /\ Cong(a[j], v[j] * u[j])
  /\ \A i \in R : b[i] \in Int /\ Cong(b[i], c[i] * w[i])

\* Exchange, in the field.
LEMMA ExchangeTotals ==
  ASSUME NEW S, NEW R, NEW f, NEW u, NEW v, NEW c, NEW w, NEW a, NEW b,
         BothWays(S, R, f, u, v, c, w, a, b)
  PROVE  Total(a) = Total(b)
BY Exchange DEF BothWays

Multiples(S, f, h, k) ==
  /\ IsFiniteSet(S) /\ DOMAIN f = S /\ DOMAIN h = S /\ k \in Int
  /\ \A i \in S : f[i] \in Int /\ h[i] \in Int /\ Cong(h[i], k * f[i])

\* The total of multiples is the multiple of the total.
LEMMA TotalOfMultiples ==
  ASSUME NEW S, NEW f, NEW h, NEW k, Multiples(S, f, h, k)
  PROVE  Total(h) = Mul(k, Total(f))
BY TotalTimes DEF Multiples

Differences(S, f, g, h) ==
  /\ IsFiniteSet(S) /\ DOMAIN f = S /\ DOMAIN g = S /\ DOMAIN h = S
  /\ \A i \in S : f[i] \in Int /\ g[i] \in Int /\ h[i] \in Int /\ Cong(h[i], f[i] - g[i])

\* The total of differences is the difference of the totals.
LEMMA TotalOfDifferences ==
  ASSUME NEW S, NEW f, NEW g, NEW h, Differences(S, f, g, h)
  PROVE  Total(h) = Sub(Total(f), Total(g))
BY TotalMinus DEF Differences

--------------------------------------------------------------------------------

\* The root of one for a domain of 2^d elements.
Gen(d) == Pow(Root1, 2 ^ (logRoots - d))

\* The logarithm of a power of two.
LEMMA Log2Power == ASSUME NEW d \in Nat PROVE Log2(2 ^ d) = d
<1> DEFINE P(k) == 2 ^ k <= 2 ^ d /\ 2 ^ d < 2 ^ (k + 1)
<1>1. d \in 0 .. 2 ^ d /\ P(d)
  BY TwoExp, TwoExpAbove
<1>2. ASSUME NEW k \in 0 .. 2 ^ d, P(k) PROVE k = d
  <2>1. k \in Nat /\ 2 ^ k \in Nat /\ 2 ^ d \in Nat /\ 2 ^ (k + 1) \in Nat
    BY TwoExp
  <2>2. ~ (k < d)
    BY <1>2, <2>1, TwoExpMonotonic
  <2>3. ~ (d < k)
    BY <1>2, <2>1, TwoExpMonotonic
  <2> QED  BY <2>1, <2>2, <2>3
<1>3. Log2(2 ^ d) = CHOOSE k \in 0 .. 2 ^ d : P(k)
  BY DEF Log2
<1> HIDE DEF P
<1> QED  BY <1>1, <1>2, <1>3

\* A logarithm is a natural, and what it should be.
LEMMA Log2Type ==
  ASSUME NEW n \in Nat \ {0}
  PROVE  Log2(n) \in Nat /\ 2 ^ Log2(n) <= n /\ n < 2 ^ (Log2(n) + 1)
<1> DEFINE S == {k \in Nat : n < 2 ^ (k + 1)}
<1>1. n \in S
  BY TwoExpAbove, TwoExp
<1>2. PICK k \in S : \A j \in S : k <= j
  <2>1. S \in SUBSET Nat /\ S # {}
    BY <1>1
  <2> HIDE DEF S
  <2> QED  BY <2>1, Least
<1>3. k \in Nat /\ n < 2 ^ (k + 1) /\ k <= n
  BY <1>1, <1>2
<1>4. 2 ^ k <= n
  <2>1. CASE k = 0
    <3>1. 2 ^ 0 = 1
      OBVIOUS
    <3> QED  BY <2>1, <3>1
  <2>2. CASE k # 0
    <3>1. k - 1 \in Nat /\ k - 1 \notin S /\ (k - 1) + 1 = k
      BY <1>2, <1>3, <2>2
    <3> QED  BY <3>1, <1>3, TwoExp
  <2> QED  BY <2>1, <2>2
<1>5. \E j \in 0 .. n : 2 ^ j <= n /\ n < 2 ^ (j + 1)
  BY <1>3, <1>4
<1>6. 0 .. n \subseteq Nat
  OBVIOUS
<1> QED  BY <1>5, <1>6, Zenon DEF Log2

\* The size of the table of roots.
LEMMA LogRoots ==
  /\ logRoots \in Nat \ {0}
  /\ Log2(MaxDomainSize) <= logRoots
  /\ Log2(MaxDomainSize) \in Nat \ {0} => logRoots = Log2(MaxDomainSize)
<1> DEFINE k == Log2(MaxDomainSize)
<1>1. k \in Nat
  BY Log2Type, DomainAssumption
<1> HIDE DEF k
<1>2. logRoots = CHOOSE x \in {1, k} : \A y \in {1, k} : x >= y
  BY DEF logRoots, Max, k
<1>3. \E x \in {1, k} : \A y \in {1, k} : x >= y
  BY <1>1
<1>4. logRoots \in {1, k} /\ logRoots >= 1 /\ logRoots >= k
  BY <1>2, <1>3
<1> QED  BY <1>1, <1>4 DEF k

\* The order of the roots, and the half turn.
LEMMA RootOrder ==
  /\ Root1 \in Field /\ Root1 \in Int
  /\ Pow(Root1, nRoots) = 1
  /\ Pow(Root1, 2 ^ (logRoots - 1)) = Q - 1
<1> DEFINE h == 2 ^ (logRoots - 1)
           e == (Q - 1) \div nRoots
           y == Pow(Root1, h)
<1>1. logRoots - 1 \in Nat /\ (logRoots - 1) + 1 = logRoots
  BY LogRoots
<1>2. h \in Nat \ {0} /\ nRoots = 2 * h /\ nRoots \in Nat \ {0}
  <2>1. h \in Nat \ {0} /\ 2 ^ ((logRoots - 1) + 1) = 2 * h
    BY <1>1, TwoExp
  <2> QED  BY <1>1, <2>1 DEF nRoots
<1>3. e \in Nat /\ Q - 1 = nRoots * e
  <2>1. (Q - 1) % nRoots = 0
    BY DomainAssumption DEF nRoots
  <2>2. Q - 1 \in Nat /\ nRoots \in Nat \ {0}
    BY <1>2, FieldAssumption
  <2> QED  BY <2>1, <2>2, Divides
<1>4. nqr \in 2 .. Q - 1 /\ Pow(nqr, (Q - 1) \div 2) # 1
  <2> DEFINE N == {m \in 2 .. Q - 1 : Pow(m, (Q - 1) \div 2) # 1}
  <2>1. N \in SUBSET Nat /\ N # {}
    BY RootsAssumption
  <2>2. \E x \in N : \A z \in N : x <= z
    <3> HIDE DEF N
    <3> QED  BY <2>1, Least
  <2>3. nqr \in N
    BY <2>2 DEF nqr, Min
  <2> QED  BY <2>3
<1>5. nqr \in Int /\ Root1 = Pow(nqr, e)
  BY <1>4, FieldAssumption DEF Root1
<1>6. Root1 \in Field /\ Root1 \in Int
  BY <1>3, <1>5, PowFacts
<1> HIDE DEF e, h
<1>7. (Q - 1) \div 2 = e * h
  <2>1. Q - 1 = ((e * h) * 2) + 0 /\ e * h \in Int
    BY <1>2, <1>3
  <2> QED  BY <2>1, ModUnique
<1>8. y = Pow(nqr, e * h)
  BY <1>2, <1>3, <1>5, PowPow
<1>9. y # 1
  BY <1>4, <1>7, <1>8
<1>10. y \in Field /\ y \in Int /\ Mul(y, y) = 1
  <2>1. nRoots = h + h
    BY <1>2
  <2>2. h \in Nat /\ Pow(Root1, h + h) = Mul(y, y) /\ y \in Field /\ y \in Int
    BY <1>2, <1>6, PowFacts, ZenonT(60)
  <2> QED  BY <2>1, <2>2, RootsAssumption
<1> HIDE DEF y
<1>11. y = Q - 1
  <2> DEFINE u == (y - 1) % Q
             v == (y + 1) % Q
  <2>1. /\ u \in Field /\ u \in Int /\ Cong(u, y - 1)
        /\ v \in Field /\ v \in Int /\ Cong(v, y + 1)
    BY <1>10, ResidueType, CongResidue
  <2>2. Cong(u * v, (y - 1) * (y + 1))
    <3> HIDE DEF u, v
    <3> QED  BY <1>10, <2>1, CongOps
  <2>3. (y - 1) * (y + 1) = y * y - 1
    BY <1>10
  <2>4. Cong(y * y, 1)
    <3>1. 1 % Q = 1
      BY FieldAssumption
    <3> QED  BY <1>10, <3>1 DEF Mul, Cong
  <2>5. Cong(y * y - 1, 1 - 1)
    BY <1>10, <2>4, CongOps DEF Cong
  <2>6. Cong(u * v, 0)
    BY <2>2, <2>3, <2>5 DEF Cong
  <2> HIDE DEF u, v
  <2>7. Mul(u, v) = 0
    BY <2>6, FieldAssumption, FieldResidue DEF Mul, Cong, Field
  <2>8. u = 0 \/ v = 0
    BY <2>1, <2>7, ZeroProduct
  <2>9. CASE u = 0
    <3>1. Cong(y - 1, 0)
      BY <2>1, <2>9 DEF Cong
    <3>2. Cong((y - 1) + 1, 0 + 1)
      BY <3>1, <1>10, CongOps DEF Cong
    <3>3. 1 \in Field /\ (y - 1) + 1 = y /\ 0 + 1 = 1
      BY <1>10, FieldAssumption DEF Field
    <3>4. y % Q = 1 % Q
      BY <3>2, <3>3 DEF Cong
    <3>5. y = 1
      BY <3>3, <3>4, <1>10, FieldResidue
    <3> QED  BY <1>9, <3>5
  <2>10. CASE v = 0
    <3>1. Cong(y + 1, Q)
      <4>1. Q % Q = 0 /\ 0 % Q = 0
        BY FieldAssumption
      <4> QED  BY <2>1, <2>10, <4>1 DEF Cong
    <3>2. Cong((y + 1) - 1, Q - 1)
      <4>1. y + 1 \in Int /\ Q \in Int /\ 1 \in Int /\ Cong(1, 1)
        BY <1>10, FieldAssumption DEF Cong
      <4> HIDE DEF Cong
      <4> QED  BY <3>1, <4>1, CongOps
    <3>3. Q - 1 \in Field /\ (y + 1) - 1 = y
      BY <1>10, FieldAssumption DEF Field
    <3> QED  BY <3>2, <3>3, <1>10, FieldResidue DEF Cong
  <2> QED  BY <2>8, <2>9, <2>10
<1> QED  BY <1>6, <1>11, RootsAssumption DEF y, h

\* A root of order n, raised to a power.
LEMMA PowPeriod ==
  ASSUME NEW x \in Int, NEW n \in Nat \ {0}, Pow(x, n) = 1, NEW i \in Nat
  PROVE  Pow(x, i) = Pow(x, i % n) /\ i % n \in 0 .. n - 1
<1> DEFINE q == i \div n
           r == i % n
<1>1. q \in Nat /\ r \in 0 .. n - 1 /\ i = (n * q) + r
  <2>1. q \in Int /\ r \in 0 .. n - 1 /\ i = (n * q) + r
    OBVIOUS
  <2>2. \A u \in Nat \ {0}, v, w \in Int : w < u /\ u * v + w >= 0 => v >= 0
    OBVIOUS
  <2> HIDE DEF q, r
  <2> QED  BY <2>1, <2>2
<1> HIDE DEF q, r
<1>2. Pow(x, (n * q) + r) = Mul(Pow(x, n * q), Pow(x, r)) /\ Pow(x, r) \in Field /\ Pow(x, r) \in Int
  <2>1. n * q \in Nat /\ r \in Nat
    BY <1>1
  <2> QED  BY <2>1, PowFacts, ZenonT(60)
<1>3. Pow(x, n * q) = 1
  <2>1. Pow(Pow(x, n), q) = Pow(x, n * q)
    BY <1>1, PowPow
  <2> QED  BY <1>1, <2>1, PowOne
<1>4. Mul(1, Pow(x, r)) = Pow(x, r)
  BY <1>2, MulFacts
<1>5. Pow(x, i) = Pow(x, r)
  BY <1>1, <1>2, <1>3, <1>4
<1> QED  BY <1>1, <1>5 DEF r

\* The root of a domain has its order, and its square is the root of half of it.
LEMMA GenFacts ==
  ASSUME NEW d \in Nat, d <= logRoots
  PROVE  /\ Gen(d) \in Field /\ Gen(d) \in Int
         /\ Pow(Gen(d), 2 ^ d) = 1
         /\ d > 0 => Pow(Gen(d), 2 ^ (d - 1)) = Q - 1
         /\ d < logRoots => Mul(Gen(d + 1), Gen(d + 1)) = Gen(d)
<1>1. logRoots - d \in Nat /\ (logRoots - d) + d = logRoots
  BY LogRoots
<1>2. Root1 \in Int /\ 2 ^ (logRoots - d) \in Nat
  BY <1>1, RootOrder, TwoExp
<1>3. Gen(d) \in Field /\ Gen(d) \in Int
  BY <1>2, PowFacts DEF Gen
<1>4. \A k \in Nat : Pow(Gen(d), 2 ^ k) = Pow(Root1, 2 ^ ((logRoots - d) + k))
  <2> SUFFICES ASSUME NEW k \in Nat
               PROVE  Pow(Gen(d), 2 ^ k) = Pow(Root1, 2 ^ ((logRoots - d) + k))
    OBVIOUS
  <2>1. 2 ^ ((logRoots - d) + k) = 2 ^ (logRoots - d) * 2 ^ k /\ 2 ^ k \in Nat
    BY <1>1, TwoExpAdd, TwoExp
  <2> QED  BY <1>2, <2>1, PowPow DEF Gen
<1>5. Pow(Gen(d), 2 ^ d) = 1
  BY <1>1, <1>4, RootOrder DEF nRoots
<1>6. ASSUME d > 0 PROVE Pow(Gen(d), 2 ^ (d - 1)) = Q - 1
  <2>1. d - 1 \in Nat /\ (logRoots - d) + (d - 1) = logRoots - 1
    BY <1>1, <1>6, LogRoots
  <2> QED  BY <1>4, <2>1, RootOrder
<1>7. ASSUME d < logRoots PROVE Mul(Gen(d + 1), Gen(d + 1)) = Gen(d)
  <2> DEFINE m == logRoots - (d + 1)
  <2>1. m \in Nat /\ m + 1 = logRoots - d
    BY <1>7, LogRoots
  <2>2. 2 ^ m \in Nat /\ 2 ^ (m + 1) = 2 ^ m + 2 ^ m
    <3> HIDE DEF m
    <3> QED  BY <2>1, TwoExp
  <2>3. Pow(Root1, 2 ^ m + 2 ^ m) = Mul(Pow(Root1, 2 ^ m), Pow(Root1, 2 ^ m))
    <3> HIDE DEF m
    <3> QED  BY <1>2, <2>2, PowFacts
  <2> QED  BY <2>1, <2>2, <2>3 DEF Gen
<1> QED  BY <1>3, <1>5, <1>6, <1>7

\* The roots that are taken from the table.
LEMMA RootIs ==
  ASSUME NEW d \in Nat, d <= logRoots, NEW i \in 0 .. 2 ^ d - 1
  PROVE  /\ i * 2 ^ (logRoots - d) \in 0 .. nRoots - 1
         /\ root(d, i) = Pow(Gen(d), i)
<1> DEFINE e == 2 ^ (logRoots - d)
           n == 2 ^ d
<1>1. logRoots - d \in Nat /\ d + (logRoots - d) = logRoots
  BY LogRoots
<1>2. e \in Nat \ {0} /\ n \in Nat \ {0} /\ nRoots = n * e
  BY <1>1, TwoExp, TwoExpAdd DEF nRoots
<1>3. i \in 0 .. n - 1
  OBVIOUS
<1> HIDE DEF e, n
<1>4. i * e \in 0 .. nRoots - 1
  <2>1. (n - 1) - i \in Nat /\ ((n - 1) - i) * e \in Nat /\ i * e \in Nat
    BY <1>2, <1>3
  <2>2. ((n - 1) - i) * e = ((n * e) - e) - (i * e)
    BY <1>2, <1>3
  <2>3. n * e \in Nat
    BY <1>2
  <2> QED  BY <1>2, <2>1, <2>2, <2>3
<1>5. root(d, i) = Pow(Root1, i * e)
  BY <1>4 DEF root, roots, rootTable, e
<1>6. Pow(Gen(d), i) = Pow(Root1, e * i)
  BY <1>2, <1>3, RootOrder, PowPow DEF Gen, e
<1>7. e * i = i * e
  BY <1>2, <1>3
<1> QED  BY <1>4, <1>5, <1>6, <1>7 DEF e

\* The same with the products that the transforms take it for.
LEMMA RootPower ==
  ASSUME NEW d \in Nat, d <= logRoots, NEW m \in Nat
  PROVE  /\ root(d, m % 2 ^ d) = Pow(Gen(d), m)
         /\ root(d, (2 ^ d - (m % 2 ^ d)) % 2 ^ d) = Pow(Pow(Gen(d), 2 ^ d - 1), m)
<1> DEFINE n == 2 ^ d
           g == Gen(d)
           b == Pow(g, n - 1)
           k == m % n
<1>1. n \in Nat \ {0} /\ g \in Int /\ Pow(g, n) = 1
  BY TwoExp, GenFacts
<1>2. k \in 0 .. n - 1 /\ (n - k) % n \in 0 .. n - 1 /\ Pow(g, m) = Pow(g, k)
  <2>1. k \in 0 .. n - 1 /\ Pow(g, m) = Pow(g, k)
    <3> HIDE DEF n, g
    <3> QED  BY <1>1, PowPeriod
  <2>2. n - k \in Int
    BY <1>1, <2>1
  <2> HIDE DEF n, k
  <2> QED  BY <1>1, <2>1, <2>2, DivMod
<1>3. root(d, k) = Pow(g, k) /\ root(d, (n - k) % n) = Pow(g, (n - k) % n)
  BY <1>2, RootIs
<1> HIDE DEF n, g, k
<1>4. n - k \in Nat /\ k \in Nat
  BY <1>1, <1>2
<1>5. Pow(g, (n - k) % n) = Pow(g, n - k)
  BY <1>1, <1>4, PowPeriod
<1>6. b \in Int /\ \A j \in Nat : Pow(b, j) \in Field /\ Pow(b, j) \in Int
  <2>1. n - 1 \in Nat
    BY <1>1
  <2>2. b \in Int
    BY <1>1, <2>1, PowFacts
  <2> HIDE DEF b
  <2> QED  BY <2>2, PowFacts
<1>7. Mul(g, b) = 1 /\ Mul(b, g) = 1
  <2>1. n - 1 \in Nat /\ (n - 1) + 1 = n
    BY <1>1
  <2>2. Mul(b, g) = 1
    BY <1>1, <2>1, PowFacts
  <2> QED  BY <1>1, <1>6, <2>2, MulCommutes
<1>8. Mul(Pow(g, k), Pow(b, k)) = 1
  <2> HIDE DEF b
  <2> QED  BY <1>1, <1>4, <1>6, <1>7, PowProduct, PowOne
<1>9. Mul(Pow(g, k), Pow(g, n - k)) = 1
  <2>1. k + (n - k) = n
    BY <1>1, <1>4
  <2> QED  BY <1>1, <1>4, <2>1, PowFacts
<1>10. Pow(g, n - k) = Pow(b, k)
  <2>1. Pow(g, k) \in Int /\ Pow(g, n - k) \in Field /\ Pow(b, k) \in Field
    BY <1>1, <1>4, <1>6, PowFacts
  <2> HIDE DEF b
  <2> QED  BY <1>8, <1>9, <2>1, InvUnique
<1>11. Pow(b, n) = 1
  <2>1. n - 1 \in Nat /\ n \in Nat /\ (n - 1) * n = n * (n - 1)
    BY <1>1
  <2>2. Pow(b, n) = Pow(g, n * (n - 1)) /\ Pow(Pow(g, n), n - 1) = Pow(g, n * (n - 1))
    BY <1>1, <2>1, PowPow, ZenonT(60)
  <2> QED  BY <1>1, <2>1, <2>2, PowOne
<1>12. Pow(b, m) = Pow(b, k)
  <2> HIDE DEF b
  <2> QED  BY <1>1, <1>6, <1>11, PowPeriod DEF k
<1> QED  BY <1>2, <1>3, <1>5, <1>10, <1>12 DEF n, g, k

--------------------------------------------------------------------------------
\* The reversal of the lowest d bits of i.
IndexBit(i, b)  == (i \div 2 ^ b) % 2
IndexBits(d, i) == [b \in 0 .. d - 1 |-> IndexBit(i, b) * 2 ^ ((d - 1) - b)]
Rev(d, i)  == Sum(IndexBits(d, i), 0 .. d - 1)

\* Quotients are naturals.
LEMMA DivType == ASSUME NEW i \in Nat, NEW q \in Nat \ {0} PROVE i \div q \in Nat
<1>1. i = (q * (i \div q)) + (i % q) /\ i \div q \in Int /\ i % q < q /\ i % q \in Int
  BY DivMod
<1>2. \A u \in Nat \ {0}, v, w \in Int : w < u /\ u * v + w >= 0 => v >= 0
  OBVIOUS
<1> QED  BY <1>1, <1>2

\* Dividing twice.
LEMMA DivDiv ==
  ASSUME NEW i \in Nat, NEW p \in Nat \ {0}, NEW q \in Nat \ {0}
  PROVE  (i \div p) \div q = i \div (p * q)
<1> DEFINE u == i \div p
           v == u \div q
           r == i % p
           t == u % q
<1>1. u \in Nat /\ r \in 0 .. p - 1 /\ i = (p * u) + r
  BY DivType, DivMod
<1>2. v \in Nat /\ t \in 0 .. q - 1 /\ u = (q * v) + t
  <2> HIDE DEF u
  <2>1. v \in Nat
    BY <1>1, DivType
  <2>2. t \in 0 .. q - 1 /\ u = (q * v) + t
    BY <1>1
  <2> QED  BY <2>1, <2>2
<1> HIDE DEF u, v, r, t
<1>3. i = (v * (p * q)) + ((p * t) + r)
  BY <1>1, <1>2
<1>4. (p * t) + r \in 0 .. (p * q) - 1 /\ p * q \in Nat
  <2>1. p * t >= 0 /\ p * ((q - 1) - t) >= 0 /\ p * t \in Int
    BY <1>1, <1>2
  <2>2. p * ((q - 1) - t) = (p * q - p) - p * t
    BY <1>1, <1>2
  <2>3. p * q \in Int
    OBVIOUS
  <2> QED  BY <1>1, <2>1, <2>2, <2>3
<1>5. i \div (p * q) = v
  BY <1>2, <1>3, <1>4, ModUnique
<1> QED  BY <1>5 DEF v, u

\* A bit, and the bits of the half.
LEMMA BitType ==
  ASSUME NEW i \in Nat, NEW b \in Nat
  PROVE  IndexBit(i, b) \in {0, 1} /\ IndexBit(i, b + 1) = IndexBit(i \div 2, b)
<1> DEFINE q == 2 ^ b
<1>1. q \in Nat \ {0} /\ 2 ^ (b + 1) = 2 * q
  BY TwoExp
<1> HIDE DEF q
<1>2. i \div q \in Nat
  BY <1>1, DivType
<1>3. (i \div 2) \div q = i \div (2 * q)
  BY <1>1, DivDiv
<1>4. (i \div q) % 2 \in {0, 1}
  BY <1>2, Halves
<1> QED  BY <1>1, <1>3, <1>4 DEF IndexBit, q

\* The terms of a reversal.
LEMMA BitsType ==
  ASSUME NEW d \in Nat, NEW i \in Nat
  PROVE  /\ IsFiniteSet(0 .. d - 1)
         /\ \A b \in 0 .. d - 1 : /\ IndexBits(d, i)[b] = IndexBit(i, b) * 2 ^ ((d - 1) - b)
                                  /\ IndexBits(d, i)[b] \in Nat /\ IndexBits(d, i)[b] \in Int
<1>1. ASSUME NEW b \in 0 .. d - 1 PROVE IndexBit(i, b) * 2 ^ ((d - 1) - b) \in Nat
  <2>1. b \in Nat /\ (d - 1) - b \in Nat
    OBVIOUS
  <2>2. IndexBit(i, b) \in Nat /\ 2 ^ ((d - 1) - b) \in Nat
    BY <2>1, BitType, TwoExp
  <2> QED  BY <2>2
<1> QED  BY <1>1, FS_Interval DEF IndexBits

\* With one more bit.
LEMMA BitsNext ==
  ASSUME NEW d \in Nat, NEW i \in Nat
  PROVE  /\ IsFiniteSet(0 .. d)
         /\ \A b \in 0 .. d : /\ IndexBits(d + 1, i)[b] = IndexBit(i, b) * 2 ^ (d - b)
                              /\ IndexBits(d + 1, i)[b] \in Int
         /\ Rev(d + 1, i) = Sum(IndexBits(d + 1, i), 0 .. d)
<1>1. (d + 1) - 1 = d /\ d + 1 \in Nat
  OBVIOUS
<1>2. /\ IsFiniteSet(0 .. (d + 1) - 1)
      /\ \A b \in 0 .. (d + 1) - 1 :
           /\ IndexBits(d + 1, i)[b] = IndexBit(i, b) * 2 ^ (((d + 1) - 1) - b)
           /\ IndexBits(d + 1, i)[b] \in Int
  BY <1>1, BitsType
<1>3. Rev(d + 1, i) = Sum(IndexBits(d + 1, i), 0 .. (d + 1) - 1)
  BY DEF Rev
<1> QED  BY <1>1, <1>2, <1>3, Zenon

\* The lowest bit, or the highest one, taken out.
LEMMA RevLow ==
  ASSUME NEW d \in Nat, NEW i \in Nat
  PROVE  Rev(d + 1, i) = ((i % 2) * 2 ^ d) + Rev(d, i \div 2)
<1> DEFINE f == IndexBits(d + 1, i)
           g == IndexBits(d, i \div 2)
           D == 0 .. d - 1
           up == [b \in D |-> b + 1]
           h == [b \in D |-> f[up[b]]]
<1>1. i \div 2 \in Nat
  BY Halves
<1>2. IsFiniteSet(0 .. d) /\ \A b \in 0 .. d : f[b] = IndexBit(i, b) * 2 ^ (d - b) /\ f[b] \in Int
  BY BitsNext
<1>3. IsFiniteSet(D) /\ \A b \in D : g[b] = IndexBit(i \div 2, b) * 2 ^ ((d - 1) - b)
  BY <1>1, BitsType
<1>4. Sum(f, 0 .. d) = f[0] + Sum(f, (0 .. d) \ {0})
  <2> DEFINE C == 0 .. d
  <2>1. 0 \in C /\ IsFiniteSet(C) /\ \A b \in C : f[b] \in Int
    BY <1>2
  <2> HIDE DEF f, C
  <2>2. Sum(f, C) = f[0] + Sum(f, C \ {0})
    BY <2>1, SumRemove
  <2> QED  BY <2>2 DEF C
<1>5. (0 .. d) \ {0} = {up[b] : b \in D}
  <2>1. ASSUME NEW k \in (0 .. d) \ {0} PROVE \E b \in D : k = up[b]
    <3>1. k - 1 \in D /\ up[k - 1] = k
      OBVIOUS
    <3> QED  BY <3>1
  <2> QED  BY <2>1
<1>6. \A b \in D : up[b] \in 0 .. d /\ up[b] = b + 1
  OBVIOUS
<1>7. \A b, c \in D : up[b] = up[c] => b = c
  OBVIOUS
<1>8. Sum(f, {up[b] : b \in D}) = Sum(h, D)
  <2>1. \A b \in D : f[up[b]] \in Int
    BY <1>2, <1>6
  <2> HIDE DEF f, up, D
  <2> QED  BY <1>3, <1>7, <2>1, SumAlong
<1>9. Sum(h, D) = Sum(g, D)
  <2>1. ASSUME NEW b \in D PROVE h[b] = g[b]
    <3>1. b \in Nat /\ d - (b + 1) = (d - 1) - b
      OBVIOUS
    <3> HIDE DEF f, g
    <3> QED  BY <1>2, <1>3, <1>6, <3>1, BitType, ZenonT(60)
  <2> HIDE DEF h, g, D
  <2> QED  BY <1>3, <2>1, SumEqual
<1>10. f[0] = (i % 2) * 2 ^ d
  <2>1. IndexBit(i, 0) = i % 2
    <3>1. 2 ^ 0 = 1 /\ i \div 1 = i
      OBVIOUS
    <3> QED  BY <3>1 DEF IndexBit
  <2>2. 0 \in 0 .. d /\ d - 0 = d
    OBVIOUS
  <2> HIDE DEF f
  <2> QED  BY <1>2, <2>1, <2>2
<1>11. Rev(d + 1, i) = Sum(f, 0 .. d)
  BY BitsNext
<1>12. Rev(d, i \div 2) = Sum(g, D)
  BY Zenon DEF Rev
<1> HIDE DEF f, g, h, up, D
<1> QED  BY <1>4, <1>5, <1>8, <1>9, <1>10, <1>11, <1>12

\* The highest bit becomes the lowest.
LEMMA RevHigh ==
  ASSUME NEW d \in Nat, NEW i \in Nat
  PROVE  Rev(d + 1, i) = (2 * Rev(d, i)) + IndexBit(i, d)
<1> DEFINE f == IndexBits(d + 1, i)
           g == IndexBits(d, i)
           D == 0 .. d - 1
           h == [b \in D |-> 2 * g[b]]
<1>2. IsFiniteSet(0 .. d) /\ \A b \in 0 .. d : f[b] = IndexBit(i, b) * 2 ^ (d - b) /\ f[b] \in Int
  BY BitsNext
<1>3. IsFiniteSet(D) /\ \A b \in D : g[b] = IndexBit(i, b) * 2 ^ ((d - 1) - b) /\ g[b] \in Int
  BY BitsType
<1>4. Sum(f, 0 .. d) = f[d] + Sum(f, D)
  <2>1. (0 .. d) \ {d} = D /\ d \in 0 .. d
    OBVIOUS
  <2> HIDE DEF f, D
  <2> QED  BY <1>2, <2>1, SumRemove
<1>5. Sum(f, D) = Sum(h, D)
  <2>1. ASSUME NEW b \in D PROVE f[b] = h[b]
    <3>1. b \in 0 .. d /\ (d - 1) - b \in Nat /\ ((d - 1) - b) + 1 = d - b /\ b \in Nat
      OBVIOUS
    <3>2. 2 ^ (d - b) = 2 * 2 ^ ((d - 1) - b) /\ 2 ^ ((d - 1) - b) \in Nat
      BY <3>1, TwoExp
    <3>3. IndexBit(i, b) \in {0, 1}
      BY <3>1, BitType
    <3>4. f[b] = IndexBit(i, b) * 2 ^ (d - b) /\ g[b] = IndexBit(i, b) * 2 ^ ((d - 1) - b)
      BY <1>2, <1>3, <3>1
    <3> HIDE DEF f, g
    <3> QED  BY <3>2, <3>3, <3>4
  <2> HIDE DEF f, h, D
  <2> QED  BY <1>3, <2>1, SumEqual
<1>6. Sum(h, D) = 2 * Sum(g, D)
  <2> HIDE DEF g, D
  <2> QED  BY <1>3, SumTimes
<1>7. f[d] = IndexBit(i, d)
  <2>1. d \in 0 .. d /\ d - d = 0 /\ 2 ^ 0 = 1 /\ IndexBit(i, d) \in Int
    BY BitType
  <2>2. f[d] = IndexBit(i, d) * 1
    <3> HIDE DEF f
    <3> QED  BY <1>2, <2>1
  <2> QED  BY <2>1, <2>2
<1>8. Sum(g, D) \in Int /\ IndexBit(i, d) \in Int
  <2>1. IndexBit(i, d) \in Int
    BY BitType
  <2> HIDE DEF g, D
  <2> QED  BY <1>3, <2>1, SumType
<1>9. Rev(d + 1, i) = Sum(f, 0 .. d)
  BY BitsNext
<1>10. Rev(d, i) = Sum(g, D)
  BY Zenon DEF Rev
<1> HIDE DEF f, g, h, D
<1> QED  BY <1>4, <1>5, <1>6, <1>7, <1>8, <1>9, <1>10

\* Of no bits.
LEMMA RevZero == \A i \in Nat : Rev(0, i) = 0
<1> SUFFICES ASSUME NEW i \in Nat PROVE Rev(0, i) = 0
  OBVIOUS
<1>1. 0 .. 0 - 1 = {}
  OBVIOUS
<1>2. Rev(0, i) = Sum(IndexBits(0, i), {})
  BY <1>1, Zenon DEF Rev
<1> QED  BY <1>2, SumEmpty

\* A reversal has no more bits.
LEMMA RevRange == \A d, i \in Nat : Rev(d, i) \in 0 .. 2 ^ d - 1 /\ Rev(d, i) \in Nat
<1> DEFINE T == {d \in Nat : \A i \in Nat : Rev(d, i) \in 0 .. 2 ^ d - 1}
<1>1. 0 \in T
  <2>1. 2 ^ 0 = 1
    OBVIOUS
  <2> QED  BY <2>1, RevZero
<1>2. ASSUME NEW d \in Nat, d \in T PROVE d + 1 \in T
  <2> SUFFICES ASSUME NEW i \in Nat PROVE Rev(d + 1, i) \in 0 .. 2 ^ (d + 1) - 1
    OBVIOUS
  <2> DEFINE q == 2 ^ d
  <2>1. i \div 2 \in Nat /\ i % 2 \in {0, 1}
    BY Halves
  <2>2. Rev(d, i \div 2) \in 0 .. q - 1
    BY <1>2, <2>1
  <2>3. q \in Nat \ {0} /\ 2 ^ (d + 1) = 2 * q
    BY TwoExp
  <2>4. Rev(d + 1, i) = ((i % 2) * q) + Rev(d, i \div 2)
    BY RevLow
  <2> HIDE DEF q, T
  <2>5. (i % 2) * q \in {0, q}
    BY <2>1, <2>3
  <2> QED  BY <2>2, <2>3, <2>4, <2>5
<1> HIDE DEF T
<1>3. \A d \in Nat : d \in T
  BY <1>1, <1>2, Induction
<1>4. \A d, i \in Nat : Rev(d, i) \in 0 .. 2 ^ d - 1
  BY <1>3 DEF T
<1>5. \A d, i \in Nat : 0 .. 2 ^ d - 1 \subseteq Nat
  OBVIOUS
<1> QED  BY <1>4, <1>5

\* Higher bits do not count.
LEMMA RevMod ==
  ASSUME NEW d \in Nat, NEW c \in Nat, NEW y \in Nat
  PROVE  Rev(d, (c * 2 ^ d) + y) = Rev(d, y)
<1> DEFINE i == (c * 2 ^ d) + y
<1>1. i \in Nat
  BY TwoExp
<1>2. ASSUME NEW b \in 0 .. d - 1 PROVE IndexBit(i, b) = IndexBit(y, b)
  <2> DEFINE e == (d - 1) - b
             p == 2 ^ b
             q == 2 ^ e
             u == y \div p
             r == y % p
  <2>1. e \in Nat /\ b \in Nat /\ d = (b + 1) + e
    OBVIOUS
  <2>2. 2 ^ d = (2 * p) * q /\ p \in Nat \ {0} /\ q \in Nat \ {0}
    <3>1. 2 ^ ((b + 1) + e) = 2 ^ (b + 1) * q /\ 2 ^ (b + 1) = 2 * p
      <4> HIDE DEF e
      <4> QED  BY <2>1, TwoExpAdd, TwoExp
    <3>2. p \in Nat \ {0} /\ q \in Nat \ {0}
      BY <2>1, TwoExp
    <3> HIDE DEF e, p, q
    <3> QED  BY <2>1, <3>1, <3>2
  <2> HIDE DEF p, q
  <2>3. u \in Nat /\ r \in 0 .. p - 1 /\ y = (p * u) + r
    <3>1. u \in Nat
      BY <2>2, DivType
    <3> QED  BY <2>2, <3>1
  <2> HIDE DEF u, r
  <2> DEFINE v == (2 * (c * q)) + u
  <2>4. v \in Nat /\ i = (v * p) + r
    BY <2>2, <2>3
  <2>5. i \div p = v
    <3> HIDE DEF v, i
    <3> QED  BY <2>2, <2>3, <2>4, ModUnique
  <2>6. v % 2 = u % 2
    <3> DEFINE w == c * q
    <3>1. w \in Nat
      BY <2>2
    <3> HIDE DEF w
    <3>2. ((2 * w) + u) % 2 = u % 2
      BY <2>3, <3>1
    <3> QED  BY <3>2 DEF w
  <2> QED  BY <2>5, <2>6 DEF IndexBit, p, u
<1> DEFINE f == IndexBits(d, i)
           g == IndexBits(d, y)
<1>3. IsFiniteSet(0 .. d - 1) /\ \A b \in 0 .. d - 1 : f[b] = g[b]
  <2> HIDE DEF i
  <2> QED  BY <1>1, <1>2, BitsType
<1> HIDE DEF f, g
<1>4. Sum(f, 0 .. d - 1) = Sum(g, 0 .. d - 1)
  BY <1>3, SumEqual
<1> QED  BY <1>4 DEF Rev, f, g

\* The reversal of an even index, or of an odd one.
LEMMA RevDouble ==
  ASSUME NEW d \in Nat, NEW k \in Nat
  PROVE  Rev(d + 1, 2 * k) = Rev(d, k) /\ Rev(d + 1, (2 * k) + 1) = 2 ^ d + Rev(d, k)
<1>1. (2 * k) % 2 = 0 /\ (2 * k) \div 2 = k /\ ((2 * k) + 1) % 2 = 1 /\ ((2 * k) + 1) \div 2 = k
  OBVIOUS
<1>2. Rev(d, k) \in Nat /\ 2 ^ d \in Nat
  BY RevRange, TwoExp
<1>3. /\ Rev(d + 1, 2 * k) = (0 * 2 ^ d) + Rev(d, k)
      /\ Rev(d + 1, (2 * k) + 1) = (1 * 2 ^ d) + Rev(d, k)
  <2>1. 2 * k \in Nat /\ (2 * k) + 1 \in Nat
    OBVIOUS
  <2>2. /\ Rev(d + 1, 2 * k) = (((2 * k) % 2) * 2 ^ d) + Rev(d, (2 * k) \div 2)
        /\ Rev(d + 1, (2 * k) + 1) = ((((2 * k) + 1) % 2) * 2 ^ d) + Rev(d, ((2 * k) + 1) \div 2)
    BY <2>1, RevLow
  <2> QED  BY <1>1, <2>2, Zenon
<1> QED  BY <1>2, <1>3

\* Reversed twice, the bits are back.
LEMMA RevTwice == \A d \in Nat : \A i \in 0 .. 2 ^ d - 1 : Rev(d, Rev(d, i)) = i
<1> DEFINE T == {d \in Nat : \A i \in 0 .. 2 ^ d - 1 : Rev(d, Rev(d, i)) = i}
<1>1. 0 \in T
  <2>1. 2 ^ 0 = 1
    OBVIOUS
  <2> QED  BY <2>1, RevZero
<1>2. ASSUME NEW d \in Nat, d \in T PROVE d + 1 \in T
  <2> DEFINE q == 2 ^ d
  <2>1. q \in Nat \ {0} /\ 2 ^ (d + 1) = 2 * q
    BY TwoExp
  <2> SUFFICES ASSUME NEW i \in 0 .. 2 ^ (d + 1) - 1 PROVE Rev(d + 1, Rev(d + 1, i)) = i
    OBVIOUS
  <2> DEFINE c == i % 2
             k == i \div 2
             y == Rev(d, k)
             m == (c * q) + y
  <2>2. i \in Nat /\ k \in Nat /\ c \in {0, 1} /\ i = (k + k) + c
    <3>1. i \in Nat
      BY <2>1
    <3> QED  BY <3>1, Halves
  <2>3. k \in 0 .. q - 1
    BY <2>1, <2>2
  <2>4. y \in 0 .. q - 1 /\ y \in Nat
    BY <2>2, RevRange
  <2>5. Rev(d, y) = k
    BY <1>2, <2>3
  <2>6. Rev(d + 1, i) = m
    BY <2>2, RevLow
  <2> HIDE DEF T, c, k, y
  <2>7. m \in Nat /\ c \in Nat
    BY <2>1, <2>2, <2>4
  <2>8. Rev(d + 1, m) = (2 * Rev(d, m)) + IndexBit(m, d)
    <3> HIDE DEF m
    <3> QED  BY <2>7, RevHigh
  <2>9. Rev(d, m) = Rev(d, y)
    BY <2>4, <2>7, RevMod
  <2>10. IndexBit(m, d) = c
    <3>1. m \div q = c
      <4> HIDE DEF q
      <4> QED  BY <2>1, <2>4, <2>7, ModUnique
    <3> HIDE DEF m
    <3> QED  BY <2>2, <3>1 DEF IndexBit
  <2> HIDE DEF m
  <2> QED  BY <2>2, <2>5, <2>6, <2>8, <2>9, <2>10
<1> HIDE DEF T
<1>3. \A d \in Nat : d \in T
  BY <1>1, <1>2, Induction
<1> QED  BY <1>3 DEF T

--------------------------------------------------------------------------------
\* The transforms.
Terms(y, g, n, k) == [j \in 0 .. n - 1 |-> Mul(y[j], Pow(g, j * k))]

\* The terms of a transform.
LEMMA TermsType ==
  ASSUME NEW g \in Int, NEW n \in Nat, NEW k \in Nat, NEW y, \A j \in 0 .. n - 1 : y[j] \in Int
  PROVE  /\ IsFiniteSet(0 .. n - 1) /\ DOMAIN Terms(y, g, n, k) = 0 .. n - 1
         /\ \A j \in 0 .. n - 1 : /\ Terms(y, g, n, k)[j] = Mul(y[j], Pow(g, j * k))
                                  /\ Terms(y, g, n, k)[j] \in Field /\ Terms(y, g, n, k)[j] \in Int
                                  /\ Pow(g, j * k) \in Field /\ Pow(g, j * k) \in Int
<1>1. ASSUME NEW j \in 0 .. n - 1
      PROVE  /\ Pow(g, j * k) \in Field /\ Pow(g, j * k) \in Int
             /\ Mul(y[j], Pow(g, j * k)) \in Field /\ Mul(y[j], Pow(g, j * k)) \in Int
  <2>1. j * k \in Nat
    OBVIOUS
  <2>2. Pow(g, j * k) \in Field /\ Pow(g, j * k) \in Int
    BY <2>1, PowFacts
  <2> QED  BY <2>2, MulType
<1>2. IsFiniteSet(0 .. n - 1)
  BY FS_Interval
<1>3. /\ DOMAIN Terms(y, g, n, k) = 0 .. n - 1
      /\ \A j \in 0 .. n - 1 : Terms(y, g, n, k)[j] = Mul(y[j], Pow(g, j * k))
  BY DEF Terms
<1> QED  BY <1>1, <1>2, <1>3, Zenon

\* The definitions of the transforms, with powers of the root for the table.
LEMMA TransformsAre ==
  ASSUME NEW d \in Nat, d <= logRoots, NEW y \in [0 .. 2 ^ d - 1 -> Field]
  PROVE  /\ DFT(y) = [k \in 0 .. 2 ^ d - 1 |-> Total(Terms(y, Gen(d), 2 ^ d, k))]
         /\ InverseDFT(y) = [k \in 0 .. 2 ^ d - 1 |->
              Mul(Inv(2 ^ d), Total(Terms(y, Pow(Gen(d), 2 ^ d - 1), 2 ^ d, k)))]
<1> DEFINE n == 2 ^ d
           b == Pow(Gen(d), n - 1)
<1>1. n \in Nat \ {0}
  BY TwoExp
<1>2. Cardinality(DOMAIN y) = n
  <2>1. DOMAIN y = 0 .. n - 1
    OBVIOUS
  <2>2. Cardinality(0 .. n - 1) = n
    <3> HIDE DEF n
    <3>1. 0 \in Int /\ n - 1 \in Int /\ ~ (0 > n - 1) /\ (n - 1) - 0 + 1 = n
      BY <1>1
    <3> QED  BY <3>1, FS_Interval
  <2> QED  BY <2>1, <2>2, Zenon
<1>3. Log2(n) = d
  BY Log2Power
<1>4. ASSUME NEW k \in 0 .. n - 1
      PROVE  /\ [j \in 0 .. n - 1 |-> Mul(y[j], root(d, (j * k) % n))] = Terms(y, Gen(d), n, k)
             /\ [j \in 0 .. n - 1 |-> Mul(y[j], root(d, (n - ((j * k) % n)) % n))] = Terms(y, b, n, k)
  <2>1. ASSUME NEW j \in 0 .. n - 1
        PROVE  /\ root(d, (j * k) % n) = Pow(Gen(d), j * k)
               /\ root(d, (n - ((j * k) % n)) % n) = Pow(b, j * k)
    <3>1. j * k \in Nat
      BY <1>1
    <3> QED  BY <3>1, RootPower
  <2> HIDE DEF n, b
  <2> QED  BY <2>1 DEF Terms
<1>5. DFT(y) = [k \in 0 .. n - 1 |-> Total([j \in 0 .. n - 1 |-> Mul(y[j], root(d, (j * k) % n))])]
  <2> HIDE DEF n
  <2> QED  BY <1>2, <1>3 DEF DFT
<1>6. InverseDFT(y) = [k \in 0 .. n - 1 |->
        Mul(Inv(n), Total([j \in 0 .. n - 1 |-> Mul(y[j], root(d, (n - ((j * k) % n)) % n))]))]
  <2> HIDE DEF n
  <2> QED  BY <1>2, <1>3 DEF InverseDFT
<1> HIDE DEF n, b
<1>7. DFT(y) = [k \in 0 .. n - 1 |-> Total(Terms(y, Gen(d), n, k))]
  BY <1>4, <1>5
<1>8. InverseDFT(y) = [k \in 0 .. n - 1 |-> Mul(Inv(n), Total(Terms(y, b, n, k)))]
  BY <1>4, <1>6
<1> QED  BY <1>7, <1>8 DEF n, b

\* The inverses of the powers of two.
LEMMA HalfPowers ==
  ASSUME NEW d \in Nat
  PROVE  /\ powTwoInv(d) \in Field /\ powTwoInv(d) \in Int
         /\ Mul(2 ^ d, powTwoInv(d)) = 1 /\ Inv(2 ^ d) = powTwoInv(d)
<1> DEFINE T == {k \in Nat : Cong(2 ^ k, Pow(2, k))}
<1>1. 0 \in T
  <2>1. 2 ^ 0 = 1
    OBVIOUS
  <2> QED  BY <2>1, PowFacts DEF Cong
<1>2. ASSUME NEW k \in Nat, k \in T PROVE k + 1 \in T
  <2>1. 2 ^ k \in Int /\ 2 ^ (k + 1) = 2 ^ k * 2
    BY TwoExp
  <2>2. Pow(2, k) \in Int /\ Pow(2, k + 1) = Mul(Pow(2, k), 2)
    BY PowFacts
  <2>3. Cong(2 ^ k * 2, Pow(2, k) * 2)
    BY <1>2, <2>1, <2>2, CongOps DEF Cong
  <2>4. Cong(Mul(Pow(2, k), 2), Pow(2, k) * 2)
    BY <2>2, MulFacts
  <2> QED  BY <2>1, <2>2, <2>3, <2>4 DEF Cong
<1>3. Cong(2 ^ d, Pow(2, d))
  <2> HIDE DEF T
  <2>1. \A k \in Nat : k \in T
    BY <1>1, <1>2, Induction
  <2> QED  BY <2>1 DEF T
<1> DEFINE h == Inv(2)
           v == Pow(h, d)
<1>4. h \in Int /\ Mul(2, h) = 1
  <2>1. 2 \in Field \ {0}
    BY FieldAssumption DEF Field
  <2> QED  BY <2>1, UnitInverse, FieldResidue
<1> HIDE DEF h
<1>5. v \in Field /\ v \in Int
  BY <1>4, PowFacts
<1>6. Mul(Pow(2, d), v) = 1
  <2>1. Pow(Mul(2, h), d) = Mul(Pow(2, d), Pow(h, d))
    BY <1>4, PowProduct
  <2> QED  BY <1>4, <2>1, PowOne
<1> HIDE DEF v
<1>7. Mul(2 ^ d, v) = 1
  <2>1. 2 ^ d \in Int /\ Pow(2, d) \in Int
    BY TwoExp, PowFacts
  <2>2. Cong(2 ^ d * v, Pow(2, d) * v)
    BY <1>3, <1>5, <2>1, CongOps DEF Cong
  <2> QED  BY <1>6, <2>2 DEF Mul, Cong
<1>8. Inv(2 ^ d) = v
  <2>1. 2 ^ d \in Int
    BY TwoExp
  <2> QED  BY <1>5, <1>7, <2>1, InvUnique
<1> QED  BY <1>5, <1>7, <1>8 DEF v, h, powTwoInv

\* A transform of field elements has field elements.
LEMMA TransformTypes ==
  ASSUME NEW d \in Nat, d <= logRoots, NEW y \in [0 .. 2 ^ d - 1 -> Field]
  PROVE  /\ DFT(y) \in [0 .. 2 ^ d - 1 -> Field]
         /\ InverseDFT(y) \in [0 .. 2 ^ d - 1 -> Field]
<1> DEFINE n == 2 ^ d
           b == Pow(Gen(d), n - 1)
<1>1. n \in Nat \ {0} /\ Gen(d) \in Int
  BY TwoExp, GenFacts
<1>2. b \in Int
  <2>1. n - 1 \in Nat
    BY <1>1
  <2> QED  BY <1>1, <2>1, PowFacts
<1>3. \A j \in 0 .. n - 1 : y[j] \in Int
  BY FieldResidue
<1>4. Inv(n) \in Int
  BY HalfPowers
<1>5. /\ DFT(y) = [k \in 0 .. n - 1 |-> Total(Terms(y, Gen(d), n, k))]
      /\ InverseDFT(y) = [k \in 0 .. n - 1 |-> Mul(Inv(n), Total(Terms(y, b, n, k)))]
  BY TransformsAre
<1> HIDE DEF n, b
<1>6. ASSUME NEW k \in 0 .. n - 1
      PROVE  /\ Total(Terms(y, Gen(d), n, k)) \in Field
             /\ Mul(Inv(n), Total(Terms(y, b, n, k))) \in Field
  <2>1. k \in Nat /\ n \in Nat
    BY <1>1
  <2>2. Total(Terms(y, Gen(d), n, k)) \in Field
    BY <1>1, <1>3, <2>1, TermsType, TotalIs
  <2>3. Total(Terms(y, b, n, k)) \in Int
    BY <1>2, <1>3, <2>1, TermsType, TotalIs
  <2> QED  BY <1>4, <2>2, <2>3, MulType
<1> QED  BY <1>5, <1>6 DEF n

\* even and odd are the even and the odd elements of z.
Splits(z, even, odd, m) ==
  /\ \A j \in 0 .. 2 * m - 1 : z[j] \in Int
  /\ \A j \in 0 .. m - 1 : even[j] = z[2 * j]
  /\ \A j \in 0 .. m - 1 : odd[j] = z[(2 * j) + 1]

\* A transform from the transforms of its even and its odd elements.
LEMMA Radix2 ==
  ASSUME NEW m \in Nat, NEW h \in Int, NEW g \in Int, g = Mul(h, h),
         NEW u \in Nat, NEW w \in Nat, Pow(g, u) = Pow(g, w),
         NEW z, NEW even, NEW odd, Splits(z, even, odd, m)
  PROVE  Total(Terms(z, h, 2 * m, w)) =
           (Total(Terms(even, g, m, u)) + (Pow(h, w) * Total(Terms(odd, g, m, u)))) % Q
<1> DEFINE F == Terms(z, h, 2 * m, w)
           f0 == Terms(even, g, m, u)
           f1 == Terms(odd, g, m, u)
           e0 == [j \in 0 .. m - 1 |-> F[2 * j]]
           e1 == [j \in 0 .. m - 1 |-> F[(2 * j) + 1]]
           k1 == [j \in 0 .. m - 1 |-> Pow(h, w) * f1[j]]
           c == Pow(h, w)
<1>0. /\ \A j \in 0 .. 2 * m - 1 : z[j] \in Int
      /\ \A j \in 0 .. m - 1 : even[j] = z[2 * j]
      /\ \A j \in 0 .. m - 1 : odd[j] = z[(2 * j) + 1]
  BY DEF Splits
<1>1. c \in Int /\ 2 * m \in Nat
  BY PowFacts
<1>2. \A j \in 0 .. m - 1 : j \in Nat /\ 2 * j \in 0 .. 2 * m - 1 /\ (2 * j) + 1 \in 0 .. 2 * m - 1
  OBVIOUS
<1>3. \A j \in 0 .. m - 1 : even[j] \in Int /\ odd[j] \in Int
  BY <1>0, <1>2
<1>4. /\ IsFiniteSet(0 .. 2 * m - 1) /\ DOMAIN F = 0 .. 2 * m - 1
      /\ \A j \in 0 .. 2 * m - 1 : F[j] = Mul(z[j], Pow(h, j * w)) /\ F[j] \in Int
  BY <1>0, <1>1, TermsType
<1>5. /\ IsFiniteSet(0 .. m - 1) /\ DOMAIN f0 = 0 .. m - 1 /\ DOMAIN f1 = 0 .. m - 1
      /\ \A j \in 0 .. m - 1 : /\ f0[j] = Mul(even[j], Pow(g, j * u)) /\ f0[j] \in Int
                               /\ f1[j] = Mul(odd[j], Pow(g, j * u)) /\ f1[j] \in Int
  <2>1. (\A j \in 0 .. m - 1 : even[j] \in Int) /\ (\A j \in 0 .. m - 1 : odd[j] \in Int)
    BY <1>3
  <2>2. /\ IsFiniteSet(0 .. m - 1) /\ DOMAIN f0 = 0 .. m - 1
        /\ \A j \in 0 .. m - 1 : f0[j] = Mul(even[j], Pow(g, j * u)) /\ f0[j] \in Int
    BY <2>1, TermsType
  <2>3. /\ DOMAIN f1 = 0 .. m - 1
        /\ \A j \in 0 .. m - 1 : f1[j] = Mul(odd[j], Pow(g, j * u)) /\ f1[j] \in Int
    BY <2>1, TermsType
  <2> QED  BY <2>2, <2>3
<1>6. ASSUME NEW j \in 0 .. m - 1
      PROVE  Pow(h, (2 * j) * w) = Pow(g, j * u) /\ Pow(g, j * u) \in Int /\ (2 * j) * w \in Nat
  <2>1. j \in Nat /\ j * w \in Nat /\ (2 * j) * w = 2 * (j * w) /\ (2 * j) * w \in Nat
        /\ j * u \in Nat /\ w * j = j * w /\ u * j = j * u
    OBVIOUS
  <2>2. Pow(h, 2) = g
    BY PowSquare
  <2>3. Pow(Pow(h, 2), j * w) = Pow(h, 2 * (j * w))
    BY <2>1, PowPow
  <2>4. Pow(Pow(g, w), j) = Pow(g, w * j) /\ Pow(Pow(g, u), j) = Pow(g, u * j)
    BY <2>1, PowPow
  <2>5. Pow(g, j * u) \in Int
    BY <2>1, PowFacts
  <2> QED  BY <2>1, <2>2, <2>3, <2>4, <2>5
<1> HIDE DEF F, f0, f1
<1>7. Sum(F, 0 .. 2 * m - 1) = Sum(e0, 0 .. m - 1) + Sum(e1, 0 .. m - 1)
  <2>1. AreHalves(F, e0, e1, m)
    BY <1>4 DEF AreHalves
  <2> HIDE DEF e0, e1, k1, c
  <2> QED  BY <2>1, SumHalves
<1>8. \A j \in 0 .. m - 1 : e0[j] = f0[j]
  BY <1>0, <1>2, <1>4, <1>5, <1>6
<1>9. ASSUME NEW j \in 0 .. m - 1
      PROVE  e1[j] \in Int /\ k1[j] = c * f1[j] /\ k1[j] \in Int /\ Cong(e1[j], k1[j])
  <2> DEFINE p == Pow(g, j * u)
             o == odd[j]
  <2>1. p \in Int /\ o \in Int /\ f1[j] = Mul(o, p) /\ f1[j] \in Int
    BY <1>3, <1>5, <1>6
  <2>2. e1[j] = Mul(o, Pow(h, ((2 * j) + 1) * w)) /\ e1[j] \in Int
    BY <1>0, <1>2, <1>4
  <2>3. ((2 * j) + 1) * w = (2 * j) * w + w
    OBVIOUS
  <2>4. Pow(h, ((2 * j) * w) + w) = Mul(p, c)
    <3>1. (2 * j) * w \in Nat
      OBVIOUS
    <3>2. Pow(h, ((2 * j) * w) + w) = Mul(Pow(h, (2 * j) * w), Pow(h, w))
      BY <3>1, PowFacts, ZenonT(60)
    <3> QED  BY <3>2, <1>6
  <2> HIDE DEF p, o, c
  <2>5. Cong(Mul(o, Mul(p, c)), c * Mul(o, p))
    BY <1>1, <2>1, FactorOut
  <2>6. k1[j] = c * f1[j] /\ k1[j] \in Int
    BY <1>1, <2>1 DEF c
  <2> HIDE DEF e1, k1
  <2> QED  BY <2>1, <2>2, <2>3, <2>4, <2>5, <2>6
<1>10. Sum(e0, 0 .. m - 1) = Sum(f0, 0 .. m - 1)
  <2> HIDE DEF e0
  <2> QED  BY <1>5, <1>8, SumEqual
<1>11. Cong(Sum(e1, 0 .. m - 1), Sum(k1, 0 .. m - 1))
  <2> HIDE DEF e1, k1
  <2> QED  BY <1>5, <1>9, SumCong
<1>12. Sum(k1, 0 .. m - 1) = c * Sum(f1, 0 .. m - 1)
  <2>1. \A j \in 0 .. m - 1 : f1[j] \in Int
    BY <1>5
  <2> HIDE DEF c
  <2> QED  BY <1>1, <1>5, <2>1, SumTimes DEF c
<1>13. /\ Total(F) = Sum(F, 0 .. 2 * m - 1) % Q
       /\ Cong(Total(f0), Sum(f0, 0 .. m - 1)) /\ Cong(Total(f1), Sum(f1, 0 .. m - 1))
       /\ Total(f0) \in Int /\ Total(f1) \in Int
       /\ Sum(f0, 0 .. m - 1) \in Int /\ Sum(f1, 0 .. m - 1) \in Int
  <2>1. \A j \in 0 .. m - 1 : f1[j] \in Int /\ f0[j] \in Int
    BY <1>5
  <2> QED  BY <1>4, <1>5, <2>1, TotalIs
<1>14. Sum(e1, 0 .. m - 1) \in Int
  <2> HIDE DEF e1
  <2> QED  BY <1>5, <1>9, SumType
<1> DEFINE s0 == Sum(f0, 0 .. m - 1)
           s1 == Sum(f1, 0 .. m - 1)
           t1 == Sum(e1, 0 .. m - 1)
<1>15. Cong(t1, c * s1) /\ Sum(F, 0 .. 2 * m - 1) = s0 + t1
  BY <1>7, <1>10, <1>11, <1>12
<1>16. s0 \in Int /\ s1 \in Int /\ t1 \in Int
  BY <1>13, <1>14
<1>17. Cong(Total(f0), s0) /\ Cong(Total(f1), s1)
  BY <1>13
<1> HIDE DEF s0, s1, t1, c
<1>18. Cong(c * Total(f1), c * s1)
  BY <1>1, <1>13, <1>16, <1>17, CongOps, SMTT(30) DEF Cong
<1>19. Cong(Total(f0) + (c * Total(f1)), s0 + t1)
  <2>1. Cong(c * Total(f1), t1)
    BY <1>15, <1>18 DEF Cong
  <2>2. c * Total(f1) \in Int
    BY <1>1, <1>13
  <2> QED  BY <1>13, <1>16, <1>17, <2>1, <2>2, CongOps
<1> QED  BY <1>13, <1>15, <1>19 DEF Cong, F, f0, f1, c

\* What the stages compute: after s of them, a block of 2^s elements holds the
\* transform of the elements of y whose indices end with the bits of the block.
Part(d, y, s, b)  == [j \in 0 .. 2 ^ s - 1 |-> y[(j * 2 ^ (d - s)) + Rev(d - s, b)]]
Stage(d, y, s, e) == Total(Terms(Part(d, y, s, e \div 2 ^ s), Gen(s), 2 ^ s, e % 2 ^ s))

\* A part of the input is in the input.
LEMMA PartType ==
  ASSUME NEW d \in Nat, NEW y \in [0 .. 2 ^ d - 1 -> Field], NEW s \in 0 .. d, NEW b \in Nat
  PROVE  \A j \in 0 .. 2 ^ s - 1 :
           /\ (j * 2 ^ (d - s)) + Rev(d - s, b) \in 0 .. 2 ^ d - 1
           /\ Part(d, y, s, b)[j] = y[(j * 2 ^ (d - s)) + Rev(d - s, b)]
           /\ Part(d, y, s, b)[j] \in Field /\ Part(d, y, s, b)[j] \in Int
<1> DEFINE m == 2 ^ s
           q == 2 ^ (d - s)
           n == 2 ^ d
<1> SUFFICES ASSUME NEW j \in 0 .. m - 1
             PROVE  /\ (j * q) + Rev(d - s, b) \in 0 .. n - 1
                    /\ Part(d, y, s, b)[j] = y[(j * q) + Rev(d - s, b)]
                    /\ Part(d, y, s, b)[j] \in Field /\ Part(d, y, s, b)[j] \in Int
  OBVIOUS
<1>1. s \in Nat /\ d - s \in Nat /\ s + (d - s) = d
  OBVIOUS
<1>2. m \in Nat \ {0} /\ q \in Nat \ {0} /\ n = m * q
  BY <1>1, TwoExp, TwoExpAdd
<1>3. Rev(d - s, b) \in 0 .. q - 1
  BY <1>1, RevRange
<1>4. Part(d, y, s, b)[j] = y[(j * q) + Rev(d - s, b)]
  BY DEF Part
<1> HIDE DEF m, q, n
<1>5. (j * q) + Rev(d - s, b) \in 0 .. n - 1
  <2>1. ((m - 1) - j) * q >= 0 /\ ((m - 1) - j) * q = (m * q - q) - j * q /\ j * q >= 0
    BY <1>2
  <2>2. m * q \in Int /\ j * q \in Int
    BY <1>2
  <2> QED  BY <1>2, <1>3, <2>1, <2>2
<1>6. y[(j * q) + Rev(d - s, b)] \in Field
  BY <1>5 DEF n
<1> QED  BY <1>4, <1>5, <1>6, FieldResidue

\* PartType, for every stage.
LEMMA PartElement ==
  ASSUME NEW d \in Nat, NEW y \in [0 .. 2 ^ d - 1 -> Field]
  PROVE  \A s \in 0 .. d : \A b \in Nat : \A j \in 0 .. 2 ^ s - 1 :
           /\ Part(d, y, s, b)[j] = y[(j * 2 ^ (d - s)) + Rev(d - s, b)]
           /\ Part(d, y, s, b)[j] \in Field /\ Part(d, y, s, b)[j] \in Int
<1> SUFFICES ASSUME NEW s \in 0 .. d, NEW b \in Nat
             PROVE  \A j \in 0 .. 2 ^ s - 1 :
           /\ Part(d, y, s, b)[j] = y[(j * 2 ^ (d - s)) + Rev(d - s, b)]
           /\ Part(d, y, s, b)[j] \in Field /\ Part(d, y, s, b)[j] \in Int
  OBVIOUS
<1> QED  BY PartType

\* Between two stages the array has field elements.
LEMMA StageType ==
  ASSUME NEW d \in Nat, d <= logRoots, NEW y \in [0 .. 2 ^ d - 1 -> Field], NEW s \in 0 .. d,
         NEW e \in Nat
  PROVE  Stage(d, y, s, e) \in Field /\ Stage(d, y, s, e) \in Int
<1> DEFINE b == e \div 2 ^ s
           k == e % 2 ^ s
           p == Part(d, y, s, b)
<1>1. s \in Nat /\ s <= logRoots /\ 2 ^ s \in Nat \ {0}
  BY TwoExp, LogRoots
<1>2. b \in Nat /\ k \in Nat
  BY <1>1, ModType, Zenon
<1>3. \A j \in 0 .. 2 ^ s - 1 : p[j] \in Int
  BY <1>2, PartType
<1>4. Gen(s) \in Int
  BY <1>1, GenFacts
<1> HIDE DEF b, k, p
<1>5. Total(Terms(p, Gen(s), 2 ^ s, k)) \in Field
  BY <1>1, <1>2, <1>3, <1>4, TermsType, TotalIs
<1> QED  BY <1>5, FieldResidue DEF Stage, p, b, k

\* The array begins as the input with its bits reversed.
LEMMA StageZero ==
  ASSUME NEW d \in Nat, d <= logRoots, NEW y \in [0 .. 2 ^ d - 1 -> Field],
         NEW e \in 0 .. 2 ^ d - 1
  PROVE  Stage(d, y, 0, e) = y[Rev(d, e)]
<1> DEFINE p == Part(d, y, 0, e)
           f == Terms(p, Gen(0), 1, 0)
<1>1. 2 ^ 0 = 1 /\ 0 \in 0 .. d /\ d - 0 = d /\ e \in Nat /\ e \div 1 = e /\ e % 1 = 0
      /\ 0 .. 1 - 1 = {0} /\ 0 \in 0 .. 1 - 1 /\ 0 * 0 = 0
  OBVIOUS
<1>2. Stage(d, y, 0, e) = Total(f)
  BY <1>1, Zenon DEF Stage
<1>3. p[0] = y[Rev(d, e)] /\ p[0] \in Field /\ p[0] \in Int
  <2>1. Rev(d, e) \in Nat
    BY <1>1, RevRange
  <2>2. 0 * 2 ^ d + Rev(d, e) = Rev(d, e)
    BY <2>1, TwoExp
  <2>3. 0 \in 0 .. 2 ^ 0 - 1
    BY <1>1
  <2>4. /\ p[0] = y[(0 * 2 ^ (d - 0)) + Rev(d - 0, e)] /\ p[0] \in Field /\ p[0] \in Int
    <3>1. e \in Nat /\ 0 \in 0 .. d
      BY <1>1
    <3> QED  BY <2>3, <3>1, PartElement, Zenon
  <2>5. p[0] = y[(0 * 2 ^ d) + Rev(d, e)]
    BY <1>1, <2>4, Zenon
  <2> QED  BY <2>2, <2>4, <2>5, Zenon
<1>4. Gen(0) \in Int
  BY GenFacts, LogRoots
<1> HIDE DEF p
<1>5. f[0] = Mul(p[0], Pow(Gen(0), 0)) /\ DOMAIN f = {0}
  BY <1>1 DEF Terms
<1>6. f[0] = p[0]
  BY <1>3, <1>4, <1>5, PowFacts, MulFacts
<1> HIDE DEF f
<1>7. Total(f) = Sum(f, {0}) % Q
  <2>1. IsFiniteSet({0})
    BY FS_Singleton
  <2> QED  BY <1>3, <1>5, <1>6, <2>1, TotalIs
<1>8. Sum(f, {0}) = p[0]
  <2>1. IsFiniteSet({}) /\ {} \cup {0} = {0} /\ 0 \notin {} /\ \A i \in {} \cup {0} : f[i] \in Int
    BY <1>3, <1>6, FS_EmptySet
  <2>2. Sum(f, {} \cup {0}) = Sum(f, {}) + f[0]
    BY <2>1, SumAdd
  <2>3. Sum(f, {}) = 0
    BY SumEmpty
  <2> QED  BY <1>3, <1>6, <2>1, <2>2, <2>3
<1> QED  BY <1>2, <1>3, <1>7, <1>8, FieldResidue

\* It ends as the transform.
LEMMA StageLast ==
  ASSUME NEW d \in Nat, d <= logRoots, NEW y \in [0 .. 2 ^ d - 1 -> Field],
         NEW e \in 0 .. 2 ^ d - 1
  PROVE  Stage(d, y, d, e) = DFT(y)[e]
<1> DEFINE n == 2 ^ d
           p == Part(d, y, d, 0)
<1>1. n \in Nat \ {0} /\ d - d = 0 /\ d \in 0 .. d /\ 2 ^ 0 = 1 /\ Rev(0, 0) = 0
  BY TwoExp, RevZero
<1>2. e \div n = 0 /\ e % n = e
  <2>1. e \in 0 .. n - 1
    OBVIOUS
  <2> HIDE DEF n
  <2>2. (0 * n) + e = e
    BY <1>1, <2>1
  <2> QED  BY <1>1, <2>1, <2>2, ModUnique
<1>3. \A j \in 0 .. n - 1 : p[j] = y[j]
  <2> SUFFICES ASSUME NEW j \in 0 .. n - 1 PROVE p[j] = y[j]
    OBVIOUS
  <2>1. p[j] = y[(j * 2 ^ (d - d)) + Rev(d - d, 0)]
    <3>1. 0 \in Nat /\ d \in 0 .. d
      OBVIOUS
    <3> QED  BY <3>1, PartElement, Zenon
  <2>2. (j * 1) + 0 = j
    BY <1>1
  <2> HIDE DEF p
  <2> QED  BY <1>1, <2>1, <2>2
<1>4. Terms(p, Gen(d), n, e) = Terms(y, Gen(d), n, e)
  <2> HIDE DEF p, n
  <2> QED  BY <1>3 DEF Terms
<1>5. Stage(d, y, d, e) = Total(Terms(p, Gen(d), n, e))
  BY <1>2, Zenon DEF Stage
<1>6. DFT(y)[e] = Total(Terms(y, Gen(d), n, e))
  BY TransformsAre
<1> QED  BY <1>4, <1>5, <1>6

\* The two indices of a butterfly in the blocks of the two stages.
InBlocks(m, k, i, e) ==
  /\ e \div m = 2 * k /\ e % m = i /\ (e + m) \div m = (2 * k) + 1 /\ (e + m) % m = i
  /\ e \div (2 * m) = k /\ e % (2 * m) = i /\ (e + m) \div (2 * m) = k /\ (e + m) % (2 * m) = i + m

\* Where the two elements of a butterfly are in their blocks.
LEMMA BlockIndex ==
  ASSUME NEW m \in Nat \ {0}, NEW k \in Nat, NEW i \in 0 .. m - 1
  PROVE  InBlocks(m, k, i, (k * (2 * m)) + i)
<1> DEFINE w == 2 * m
           l == 2 * k
           r == i + m
           e == (k * (2 * m)) + i
<1>1. /\ e = (l * m) + i /\ e + m = ((l + 1) * m) + i /\ e = (k * w) + i /\ e + m = (k * w) + r
      /\ l \in Int /\ l + 1 \in Int /\ m \in Nat /\ w \in Nat /\ k \in Int
      /\ i \in 0 .. w - 1 /\ r \in 0 .. w - 1
  OBVIOUS
<1> HIDE DEF e, w, l, r
<1>2. ((l * m) + i) % m = i /\ ((l * m) + i) \div m = l
  BY <1>1, ModUnique
<1>3. (((l + 1) * m) + i) % m = i /\ (((l + 1) * m) + i) \div m = l + 1
  <2> DEFINE l1 == l + 1
  <2>1. l1 \in Int
    BY <1>1
  <2> HIDE DEF l1
  <2>2. ((l1 * m) + i) % m = i /\ ((l1 * m) + i) \div m = l1
    BY <1>1, <2>1, ModUnique
  <2> QED  BY <2>2 DEF l1
<1>4. ((k * w) + i) % w = i /\ ((k * w) + i) \div w = k
  BY <1>1, ModUnique
<1>5. ((k * w) + r) % w = r /\ ((k * w) + r) \div w = k
  BY <1>1, ModUnique
<1>6. /\ e \div m = l /\ e % m = i /\ (e + m) \div m = l + 1 /\ (e + m) % m = i
      /\ e \div w = k /\ e % w = i /\ (e + m) \div w = k /\ (e + m) % w = r
  <2>1. e \div m = l /\ e % m = i
    BY <1>1, <1>2, Zenon
  <2>2. (e + m) \div m = l + 1 /\ (e + m) % m = i
    BY <1>1, <1>3, Zenon
  <2>3. e \div w = k /\ e % w = i
    BY <1>1, <1>4, Zenon
  <2>4. (e + m) \div w = k /\ (e + m) % w = r
    BY <1>1, <1>5, Zenon
  <2> QED  BY <2>1, <2>2, <2>3, <2>4
<1> QED  BY <1>6, Zenon DEF InBlocks, e, w, l, r

\* A butterfly.
LEMMA StageStep ==
  ASSUME NEW d \in Nat, d <= logRoots, NEW y \in [0 .. 2 ^ d - 1 -> Field],
         NEW s \in 0 .. d - 1, NEW k \in Nat, NEW i \in 0 .. 2 ^ s - 1, NEW e \in Nat,
         e = (k * (2 * 2 ^ s)) + i,
         NEW t, t = Mul(Pow(Gen(s + 1), i), Stage(d, y, s, e + 2 ^ s))
  PROVE  /\ Stage(d, y, s + 1, e) = Add(t, Stage(d, y, s, e))
         /\ Stage(d, y, s + 1, e + 2 ^ s) = Sub(Stage(d, y, s, e), t)
<1> DEFINE m == 2 ^ s
           D == (d - s) - 1
           q == 2 ^ D
           h == Gen(s + 1)
           g == Gen(s)
           z == Part(d, y, s + 1, k)
           even == Part(d, y, s, 2 * k)
           odd == Part(d, y, s, (2 * k) + 1)
           u0 == Total(Terms(even, g, m, i))
           u1 == Total(Terms(odd, g, m, i))
           c == Pow(h, i)
<1>1. s \in Nat /\ s + 1 \in 0 .. d /\ D \in Nat /\ d - s = D + 1 /\ d - (s + 1) = D /\ s \in 0 .. d
  OBVIOUS
<1>2. m \in Nat \ {0} /\ q \in Nat \ {0} /\ 2 ^ (s + 1) = 2 * m /\ 2 ^ (d - s) = 2 * q /\ i \in Nat
  <2>1. m \in Nat \ {0} /\ 2 ^ (s + 1) = 2 * m
    BY <1>1, TwoExp
  <2>2. q \in Nat \ {0} /\ 2 ^ (D + 1) = 2 * q
    <3> HIDE DEF D
    <3> QED  BY <1>1, TwoExp
  <2>3. 2 ^ (d - s) = 2 * q
    <3> HIDE DEF D
    <3> QED  BY <1>1, <2>2
  <2> QED  BY <2>1, <2>2, <2>3
<1>3. g \in Int /\ h \in Int /\ g = Mul(h, h) /\ Pow(g, m) = 1 /\ Pow(h, m) = Q - 1
  <2>1. /\ s + 1 \in Nat /\ s + 1 <= logRoots /\ s < logRoots /\ (s + 1) - 1 = s /\ s + 1 > 0
        /\ s <= logRoots
    BY <1>1, LogRoots
  <2>2. Pow(Gen(s + 1), 2 ^ ((s + 1) - 1)) = Q - 1
    BY <2>1, GenFacts
  <2> QED  BY <1>1, <2>1, <2>2, GenFacts
<1>4. \A j \in 0 .. 2 * m - 1 : z[j] \in Int
  BY <1>1, <1>2, PartType
<1>5. (\A j \in 0 .. m - 1 : even[j] = z[2 * j]) /\ (\A j \in 0 .. m - 1 : odd[j] = z[(2 * j) + 1])
  <2> SUFFICES ASSUME NEW j \in 0 .. m - 1 PROVE even[j] = z[2 * j] /\ odd[j] = z[(2 * j) + 1]
    OBVIOUS
  <2>1. 2 * j \in 0 .. 2 * m - 1 /\ (2 * j) + 1 \in 0 .. 2 * m - 1 /\ j \in Nat
    BY <1>2
  <2>2. Rev(d - s, 2 * k) = Rev(D, k) /\ Rev(d - s, (2 * k) + 1) = q + Rev(D, k) /\ Rev(D, k) \in Nat
    <3>1. /\ Rev(D + 1, 2 * k) = Rev(D, k)
          /\ Rev(D + 1, (2 * k) + 1) = 2 ^ D + Rev(D, k)
      <4> HIDE DEF D
      <4> QED  BY <1>1, RevDouble, Zenon
    <3>2. Rev(D, k) \in Nat
      <4> HIDE DEF D
      <4> QED  BY <1>1, RevRange, Zenon
    <3>3. d - s = D + 1
      OBVIOUS
    <3> QED  BY <3>1, <3>2, <3>3, Zenon
  <2>0. \A v \in 0 .. 2 * m - 1 : z[v] = y[(v * q) + Rev(D, k)]
    <3>1. \A v \in 0 .. 2 ^ (s + 1) - 1 : z[v] = y[(v * 2 ^ (d - (s + 1))) + Rev(d - (s + 1), k)]
      BY <1>1, PartType
    <3>2. d - (s + 1) = D
      BY <1>1
    <3>3. 2 ^ (s + 1) = 2 * m
      BY <1>2
    <3> HIDE DEF z, m, D
    <3> QED  BY <3>1, <3>2, <3>3, Zenon
  <2>3. z[2 * j] = y[((2 * j) * q) + Rev(D, k)]
    <3> HIDE DEF z, m, D, q
    <3> QED  BY <2>0, <2>1
  <2>4. z[(2 * j) + 1] = y[(((2 * j) + 1) * q) + Rev(D, k)]
    <3> HIDE DEF z, m, D, q
    <3> QED  BY <2>0, <2>1
  <2>5. even[j] = y[(j * (2 * q)) + Rev(D, k)]
    <3>1. 2 * k \in Nat
      OBVIOUS
    <3>2. even[j] = y[(j * 2 ^ (d - s)) + Rev(d - s, 2 * k)]
      BY <1>1, <3>1, PartType, ZenonT(60)
    <3> QED  BY <1>2, <2>2, <3>2
  <2>6. odd[j] = y[(j * (2 * q)) + (q + Rev(D, k))]
    <3>1. (2 * k) + 1 \in Nat
      OBVIOUS
    <3>2. odd[j] = y[(j * 2 ^ (d - s)) + Rev(d - s, (2 * k) + 1)]
      BY <1>1, <3>1, PartType, ZenonT(60)
    <3> QED  BY <1>2, <2>2, <3>2
  <2>7. (j * (2 * q)) + Rev(D, k) = ((2 * j) * q) + Rev(D, k)
    BY <1>2, <2>1, <2>2
  <2>8. (j * (2 * q)) + (q + Rev(D, k)) = (((2 * j) + 1) * q) + Rev(D, k)
    BY <1>2, <2>1, <2>2
  <2> HIDE DEF z, even, odd, q, D
  <2> QED  BY <2>3, <2>4, <2>5, <2>6, <2>7, <2>8
<1>6. /\ e \div m = 2 * k /\ e % m = i /\ (e + m) \div m = (2 * k) + 1 /\ (e + m) % m = i
      /\ e \div (2 * m) = k /\ e % (2 * m) = i /\ (e + m) \div (2 * m) = k /\ (e + m) % (2 * m) = i + m
  <2>1. m \in Nat \ {0} /\ i \in 0 .. m - 1 /\ e = (k * (2 * m)) + i
    BY <1>2
  <2> HIDE DEF m
  <2>2. InBlocks(m, k, i, (k * (2 * m)) + i)
    BY <2>1, BlockIndex, Zenon
  <2>3. InBlocks(m, k, i, e)
    BY <2>1, <2>2, Zenon
  <2> QED  BY <2>3, Zenon DEF InBlocks
<1>7. /\ Stage(d, y, s, e) = u0 /\ Stage(d, y, s, e + m) = u1
      /\ Stage(d, y, s + 1, e) = Total(Terms(z, h, 2 * m, i))
      /\ Stage(d, y, s + 1, e + m) = Total(Terms(z, h, 2 * m, i + m))
  BY <1>2, <1>6, Zenon DEF Stage
<1>8. u0 \in Field /\ u0 \in Int /\ u1 \in Field /\ u1 \in Int /\ c \in Int /\ t = Mul(c, u1)
  <2>1. e + m \in Nat /\ s \in 0 .. d
    BY <1>1, <1>2
  <2>2. u0 \in Field /\ u0 \in Int /\ u1 \in Field /\ u1 \in Int
    BY <1>7, <2>1, StageType
  <2>3. c \in Int
    BY <1>2, <1>3, PowFacts
  <2> QED  BY <1>7, <2>2, <2>3
<1> HIDE DEF m, g, h, z, even, odd, D, q
<1>9. Pow(g, i) = Pow(g, i + m) /\ Pow(h, i + m) = Mul(c, Q - 1)
  <2>1. Pow(g, i + m) = Mul(Pow(g, i), 1) /\ Pow(g, i) \in Field /\ Pow(g, i) \in Int
    BY <1>2, <1>3, PowFacts
  <2>2. Mul(Pow(g, i), 1) = Pow(g, i)
    BY <2>1, FieldResidue, MulOne
  <2>3. Pow(h, i + m) = Mul(c, Pow(h, m))
    BY <1>2, <1>3, PowFacts
  <2> QED  BY <1>3, <2>1, <2>2, <2>3
<1>0. Splits(z, even, odd, m)
  BY <1>4, <1>5, Zenon DEF Splits
<1>10. Total(Terms(z, h, 2 * m, i)) = (u0 + (c * u1)) % Q
  BY <1>0, <1>2, <1>3, Radix2
<1>11. Total(Terms(z, h, 2 * m, i + m)) = (u0 + (Pow(h, i + m) * u1)) % Q
  <2>1. i + m \in Nat
    BY <1>2
  <2> QED  BY <1>0, <1>2, <1>3, <1>9, <2>1, Radix2
<1> HIDE DEF u0, u1, c
<1>12. Cong(t, c * u1) /\ t \in Int /\ c * u1 \in Int
  BY <1>8, MulCong, MulType
<1>13. Add(t, u0) = (u0 + (c * u1)) % Q
  <2>1. Cong(t + u0, (c * u1) + u0)
    BY <1>8, <1>12, CongOps DEF Cong
  <2>2. (c * u1) + u0 = u0 + (c * u1)
    BY <1>8, <1>12
  <2> QED  BY <2>1, <2>2 DEF Add, Cong
<1>14. Sub(u0, t) = (u0 + (Mul(c, Q - 1) * u1)) % Q
  <2>1. Cong(u0 - t, u0 - (c * u1))
    BY <1>8, <1>12, CongOps DEF Cong
  <2>2. Q - 1 \in Int
    BY FieldAssumption
  <2>3. Cong(Mul(c, Q - 1), c * (Q - 1)) /\ Mul(c, Q - 1) \in Int /\ c * (Q - 1) \in Int
    <3> DEFINE v == Q - 1
    <3> HIDE DEF v
    <3>1. v \in Int
      BY <2>2 DEF v
    <3>2. Cong(Mul(c, v), c * v) /\ Mul(c, v) \in Int /\ c * v \in Int
      <4>1. Cong(Mul(c, v), c * v) /\ Mul(c, v) \in Int
        BY <1>8, <3>1, MulCong, MulType, Zenon
      <4> QED  BY <1>8, <3>1, <4>1
    <3> QED  BY <3>2 DEF v
  <2>4. Cong(Mul(c, Q - 1) * u1, (c * (Q - 1)) * u1)
    BY <1>8, <2>3, CongOps DEF Cong
  <2>5. Cong((c * (Q - 1)) * u1, 0 - (c * u1))
    <3>1. (c * (Q - 1)) * u1 = (0 - (c * u1)) + ((c * u1) * Q)
      BY <1>8, FieldAssumption
    <3>2. (c * (Q - 1)) * u1 \in Int /\ 0 - (c * u1) \in Int
      BY <1>8, <1>12, FieldAssumption
    <3> QED  BY <1>12, <3>1, <3>2, CongWitness
  <2>6. Cong(Mul(c, Q - 1) * u1, 0 - (c * u1))
    BY <2>4, <2>5 DEF Cong
  <2>7. Mul(c, Q - 1) * u1 \in Int /\ 0 - (c * u1) \in Int
    BY <1>8, <1>12, <2>3
  <2>8. Cong(u0 + (Mul(c, Q - 1) * u1), u0 + (0 - (c * u1)))
    BY <1>8, <2>6, <2>7, CongOps DEF Cong
  <2>9. u0 + (0 - (c * u1)) = u0 - (c * u1)
    BY <1>8, <1>12
  <2> QED  BY <2>1, <2>8, <2>9 DEF Sub, Cong
<1> QED  BY <1>7, <1>9, <1>10, <1>11, <1>13, <1>14 DEF m

\* The lower index of the butterfly i, in blocks of h.
Place(h, i) == ((i \div h) * 2 * h) + (i % h)

\* Where the butterflies of a stage are.
LEMMA StageBlocks ==
  ASSUME NEW d \in Nat, NEW p \in 1 .. d
  PROVE  \E q \in Nat \ {0} : /\ 2 ^ (p - 1) \in Nat \ {0} /\ 2 ^ d = (2 * 2 ^ (p - 1)) * q
                              /\ 2 ^ d \div 2 = 2 ^ (p - 1) * q
                              /\ 2 ^ p = 2 * 2 ^ (p - 1)
<1> DEFINE s == p - 1
           h == 2 ^ s
           q == 2 ^ (d - p)
<1>1. s \in Nat /\ p = s + 1 /\ d - p \in Nat /\ d = p + (d - p) /\ p \in Nat
  OBVIOUS
<1> HIDE DEF s
<1>2. h \in Nat \ {0} /\ q \in Nat \ {0} /\ 2 ^ p = 2 * h
  BY <1>1, TwoExp
<1>3. 2 ^ d = 2 ^ p * q
  BY <1>1, TwoExpAdd, Zenon
<1> HIDE DEF h, q
<1>4. 2 ^ d = (2 * h) * q
  BY <1>2, <1>3
<1>5. ((2 * h) * q) \div 2 = h * q
  <2> DEFINE v == h * q
  <2>1. v \in Nat /\ (2 * h) * q = 2 * v
    BY <1>2
  <2> HIDE DEF v
  <2>2. (2 * v) \div 2 = v
    BY <2>1
  <2> QED  BY <2>1, <2>2 DEF v
<1> QED  BY <1>2, <1>4, <1>5 DEF h, s

\* Butterfly i of a stage: its block, its place in it and its two elements.
LEMMA PlaceFacts ==
  ASSUME NEW d \in Nat, NEW p \in 1 .. d, NEW i \in 0 .. (2 ^ d \div 2) - 1
  PROVE  LET h == 2 ^ (p - 1) IN
         /\ h \in Nat \ {0} /\ i \in Nat
         /\ i \div h \in Nat /\ i % h \in 0 .. h - 1 /\ i = ((i \div h) * h) + (i % h)
         /\ Place(h, i) = ((i \div h) * (2 * h)) + (i % h)
         /\ Place(h, i) \in 0 .. 2 ^ d - 1 /\ Place(h, i) + h \in 0 .. 2 ^ d - 1
         /\ InBlocks(h, i \div h, i % h, Place(h, i))
<1> DEFINE h == 2 ^ (p - 1)
           k == i \div h
           r == i % h
<1>1. PICK q \in Nat \ {0} : h \in Nat \ {0} /\ 2 ^ d = (2 * h) * q /\ 2 ^ d \div 2 = h * q
  BY StageBlocks
<1>2. i \in 0 .. (h * q) - 1
  BY <1>1
<1> HIDE DEF h
<1>3. i \in Nat /\ i < h * q
  BY <1>1, <1>2
<1>4. k \in Nat /\ r \in 0 .. h - 1 /\ i = (h * k) + r
  BY <1>1, <1>3, ModType, Zenon
<1> HIDE DEF k, r
<1>5. i = (k * h) + r /\ Place(h, i) = (k * (2 * h)) + r
  BY <1>1, <1>4 DEF Place, k, r
<1>6. k <= q - 1
  <2>1. h * q \in Nat /\ r \in Nat /\ q \in Nat
    BY <1>1, <1>4
  <2>2. k < q
    BY <1>1, <1>3, <1>4, <2>1, QuotientBound
  <2> QED  BY <1>1, <1>4, <2>2
<1>7. (k * (2 * h)) + r \in 0 .. (2 * h) * q - 1 /\ ((k * (2 * h)) + r) + h \in 0 .. (2 * h) * q - 1
  <2>1. (2 * h) * ((q - 1) - k) >= 0 /\ k * (2 * h) >= 0 /\ k * (2 * h) \in Int /\ (2 * h) * q \in Int
    BY <1>1, <1>4, <1>6
  <2>2. (2 * h) * ((q - 1) - k) = ((2 * h) * q - 2 * h) - k * (2 * h)
    BY <1>1, <1>4
  <2> QED  BY <1>1, <1>4, <2>1, <2>2
<1>8. InBlocks(h, k, r, (k * (2 * h)) + r)
  BY <1>1, <1>4, BlockIndex, Zenon
<1> QED  BY <1>1, <1>3, <1>4, <1>5, <1>7, <1>8 DEF k, r, h

\* Every index is in a butterfly.
LEMMA PlaceInverse ==
  ASSUME NEW d \in Nat, NEW p \in 1 .. d, NEW e \in 0 .. 2 ^ d - 1
  PROVE  \E i \in 0 .. (2 ^ d \div 2) - 1 : LET h == 2 ^ (p - 1) IN e \in {Place(h, i), Place(h, i) + h}
<1> DEFINE h == 2 ^ (p - 1)
           w == 2 * h
           k == e \div w
           r == e % w
           c == IF r < h THEN r ELSE r - h
           i == (k * h) + c
<1>1. PICK q \in Nat \ {0} : h \in Nat \ {0} /\ 2 ^ d = (2 * h) * q /\ 2 ^ d \div 2 = h * q
  BY StageBlocks
<1>2. e \in 0 .. (w * q) - 1
  BY <1>1
<1> HIDE DEF h
<1>3. e \in Nat /\ e < w * q /\ w \in Nat \ {0}
  BY <1>1, <1>2
<1> HIDE DEF w
<1>4. k \in Nat /\ r \in 0 .. w - 1 /\ e = (w * k) + r
  BY <1>3, ModType, Zenon
<1> HIDE DEF k, r
<1>5. k <= q - 1
  <2>1. w * q \in Nat /\ r \in Nat /\ q \in Nat
    BY <1>1, <1>3, <1>4
  <2>2. k < q
    BY <1>1, <1>3, <1>4, <2>1, QuotientBound
  <2> QED  BY <1>1, <1>4, <2>2
<1>6. c \in 0 .. h - 1 /\ c \in Int
  BY <1>1, <1>4 DEF w
<1>7. i \in 0 .. (h * q) - 1
  <2>1. h * ((q - 1) - k) >= 0 /\ k * h >= 0 /\ k * h \in Int /\ h * q \in Int
    BY <1>1, <1>4, <1>5
  <2>2. h * ((q - 1) - k) = (h * q - h) - k * h
    BY <1>1, <1>4
  <2> HIDE DEF c
  <2> QED  BY <1>1, <1>6, <2>1, <2>2
<1>8. i % h = c /\ i \div h = k
  <2> HIDE DEF c
  <2> QED  BY <1>1, <1>4, <1>6, ModUnique, SMTT(30)
<1>9. Place(h, i) = (k * w) + c
  <2>1. Place(h, i) = (k * 2 * h) + c
    <3> HIDE DEF i, c
    <3> QED  BY <1>8, Zenon DEF Place
  <2>2. k * 2 * h = k * w
    BY <1>1, <1>4 DEF w
  <2> QED  BY <2>1, <2>2, Zenon
<1>10. e \in {Place(h, i), Place(h, i) + h}
  <2>1. k * w \in Int /\ w * k = k * w
    BY <1>3, <1>4
  <2> HIDE DEF i
  <2>2. CASE r < h
    BY <1>4, <1>9, <2>1, <2>2
  <2>3. CASE ~ (r < h)
    BY <1>1, <1>4, <1>9, <2>1, <2>3
  <2> QED  BY <2>2, <2>3
<1> HIDE DEF i
<1> QED  BY <1>1, <1>7, <1>10 DEF h

\* The inverse transform is the transform, scaled, with its indices negated.
LEMMA InverseIs ==
  ASSUME NEW d \in Nat, d <= logRoots, NEW y \in [0 .. 2 ^ d - 1 -> Field]
  PROVE  /\ InverseDFT(y)[0] = Mul(DFT(y)[0], powTwoInv(d))
         /\ \A k \in 1 .. 2 ^ d - 1 : InverseDFT(y)[k] = Mul(DFT(y)[2 ^ d - k], powTwoInv(d))
<1> DEFINE n == 2 ^ d
           g == Gen(d)
           b == Pow(g, n - 1)
           v == powTwoInv(d)
<1>1. n \in Nat \ {0} /\ g \in Int /\ Pow(g, n) = 1
  BY TwoExp, GenFacts
<1>2. v \in Int /\ Inv(n) = v
  BY HalfPowers
<1>3. /\ \A k \in 0 .. n - 1 : DFT(y)[k] = Total(Terms(y, g, n, k))
      /\ \A k \in 0 .. n - 1 : InverseDFT(y)[k] = Mul(Inv(n), Total(Terms(y, b, n, k)))
  BY TransformsAre
<1>4. \A k \in 0 .. n - 1 : DFT(y)[k] \in Int
  <2>1. \A k \in 0 .. n - 1 : DFT(y)[k] \in Field
    BY TransformTypes
  <2> QED  BY <2>1, FieldResidue
<1> HIDE DEF n, g, v
<1>5. \A m \in Nat : Pow(b, m) = Pow(g, (n - 1) * m)
  <2>1. n - 1 \in Nat
    BY <1>1
  <2> QED  BY <1>1, <2>1, PowPow
<1>6. \A i, j \in Nat : Pow(g, i + (n * j)) = Pow(g, i)
  <2> SUFFICES ASSUME NEW i \in Nat, NEW j \in Nat PROVE Pow(g, i + (n * j)) = Pow(g, i)
    OBVIOUS
  <2>1. n * j \in Nat
    BY <1>1
  <2>2. Pow(g, i + (n * j)) = Mul(Pow(g, i), Pow(g, n * j))
    BY <1>1, <2>1, PowFacts
  <2>3. Pow(g, n * j) = 1
    <3>1. Pow(Pow(g, n), j) = Pow(g, n * j)
      BY <1>1, PowPow
    <3> QED  BY <1>1, <3>1, PowOne
  <2>4. Pow(g, i) \in Field
    BY <1>1, PowFacts
  <2> QED  BY <2>2, <2>3, <2>4, MulOne
<1>7. ASSUME NEW k \in 0 .. n - 1, NEW l \in 0 .. n - 1, (k = 0 /\ l = 0) \/ (k # 0 /\ l = n - k)
      PROVE  InverseDFT(y)[k] = Mul(DFT(y)[l], v)
  <2>1. ASSUME NEW j \in 0 .. n - 1 PROVE Pow(b, j * k) = Pow(g, j * l)
    <3>1. j \in Nat /\ k \in Nat /\ l \in Nat
      BY <1>1
    <3>2. CASE k = 0 /\ l = 0
      <4>1. j * k = 0 /\ j * l = 0 /\ (n - 1) * 0 = 0 /\ 0 \in Nat
        BY <1>1, <3>1, <3>2
      <4> QED  BY <1>5, <4>1
    <3>3. CASE k # 0 /\ l = n - k
      <4> DEFINE c == k - 1
      <4>1. c \in Nat /\ k = c + 1
        BY <3>1, <3>3
      <4> HIDE DEF c
      <4>2. j * k \in Nat /\ j * l \in Nat /\ j * c \in Nat
        BY <3>1, <4>1
      <4>3. (n - 1) * (j * k) = (j * l) + (n * (j * c))
        <5> DEFINE u == j * c
                   z == n * j
        <5>1. j * k = u + j
          BY <3>1, <4>1
        <5>2. l = (n - 1) - c
          BY <1>1, <3>3, <4>1
        <5>3. j * ((n - 1) - c) = (z - j) - u /\ z \in Int /\ u \in Int
          BY <1>1, <3>1, <4>1
        <5>4. (n - 1) * (u + j) = ((n * u) + z) - (u + j) /\ n * u \in Int
          BY <1>1, <3>1, <4>1, <5>3
        <5> HIDE DEF u, z
        <5>5. j * l = (z - j) - u
          BY <5>2, <5>3
        <5>6. (n - 1) * (j * k) = ((n * u) + z) - (u + j)
          BY <5>1, <5>4
        <5>7. ((n * u) + z) - (u + j) = ((z - j) - u) + n * u
          BY <3>1, <5>3, <5>4
        <5>8. (n - 1) * (j * k) = (j * l) + n * u
          BY <5>5, <5>6, <5>7
        <5> QED  BY <5>8 DEF u
      <4> QED  BY <1>5, <1>6, <4>2, <4>3
    <3> QED  BY <1>7, <3>2, <3>3
  <2>2. Terms(y, b, n, k) = Terms(y, g, n, l)
    <3> HIDE DEF b
    <3> QED  BY <2>1 DEF Terms
  <2>3. InverseDFT(y)[k] = Mul(v, DFT(y)[l])
    BY <1>2, <1>3, <2>2
  <2>4. DFT(y)[l] \in Int
    BY <1>4
  <2>5. Mul(v, DFT(y)[l]) = Mul(DFT(y)[l], v)
    BY <1>2, <2>4, MulCommutes
  <2> QED  BY <2>3, <2>5, Zenon
<1>8. InverseDFT(y)[0] = Mul(DFT(y)[0], v)
  <2>1. 0 \in 0 .. n - 1 /\ ((0 = 0 /\ 0 = 0) \/ (0 # 0 /\ 0 = n - 0))
    BY <1>1
  <2> HIDE DEF b
  <2> QED  BY <1>7, <2>1, Zenon
<1>9. ASSUME NEW k \in 1 .. n - 1 PROVE InverseDFT(y)[k] = Mul(DFT(y)[n - k], v)
  <2>1. k \in 0 .. n - 1 /\ n - k \in 0 .. n - 1 /\ k # 0
    BY <1>1
  <2> QED  BY <1>7, <2>1
<1> QED  BY <1>8, <1>9 DEF n, v

--------------------------------------------------------------------------------
\* The roots of a domain are orthogonal: the sums of their powers are zero, but one.
Ones(n) == [j \in 0 .. n - 1 |-> 1]

\* A sum of ones is their number.
LEMMA OnesSum ==
  ASSUME NEW n \in Nat \ {0}, NEW g \in Int
  PROVE  Total(Terms(Ones(n), g, n, 0)) = n % Q
<1> DEFINE T == Terms(Ones(n), g, n, 0)
<1>1. \A j \in 0 .. n - 1 : Ones(n)[j] = 1 /\ Ones(n)[j] \in Int
  BY DEF Ones
<1>2. IsFiniteSet(0 .. n - 1) /\ DOMAIN T = 0 .. n - 1
  BY FS_Interval DEF Terms
<1>3. \A j \in 0 .. n - 1 : T[j] = 1
  <2> SUFFICES ASSUME NEW j \in 0 .. n - 1 PROVE T[j] = 1
    OBVIOUS
  <2>1. T[j] = Mul(1, Pow(g, j * 0))
    BY <1>1 DEF Terms
  <2>2. j * 0 = 0 /\ Pow(g, 0) = 1
    BY PowFacts
  <2>3. Mul(1, 1) = 1
    BY FieldAssumption DEF Mul
  <2> QED  BY <2>1, <2>2, <2>3
<1> HIDE DEF T
<1> DEFINE P == {k \in Nat : Sum(T, 0 .. k - 1) = k \/ k > n}
<1>4. 0 \in P
  <2>1. 0 .. 0 - 1 = {}
    OBVIOUS
  <2> QED  BY <2>1, SumEmpty
<1>5. ASSUME NEW k \in Nat, k \in P PROVE k + 1 \in P
  <2>1. CASE k + 1 > n
    BY <2>1
  <2>2. CASE k + 1 <= n
    <3>1. Sum(T, 0 .. k - 1) = k
      BY <1>5, <2>2
    <3>2. /\ IsFiniteSet(0 .. k - 1) /\ k \notin 0 .. k - 1
          /\ 0 .. (k + 1) - 1 = (0 .. k - 1) \cup {k} /\ k \in 0 .. n - 1
      BY <2>2, FS_Interval
    <3>3. \A i \in (0 .. k - 1) \cup {k} : T[i] \in Int
      BY <1>3, <3>2
    <3>4. Sum(T, (0 .. k - 1) \cup {k}) = Sum(T, 0 .. k - 1) + T[k]
      BY <3>2, <3>3, SumAdd
    <3>5. Sum(T, 0 .. (k + 1) - 1) = k + 1
      BY <1>3, <3>1, <3>2, <3>4
    <3> QED  BY <3>5
  <2> QED  BY <1>5, <2>1, <2>2
<1>6. n \in P
  <2> HIDE DEF P
  <2> QED  BY <1>4, <1>5, Induction
<1>7. Sum(T, 0 .. n - 1) = n
  BY <1>6
<1>8. \A j \in 0 .. n - 1 : T[j] \in Int
  BY <1>3
<1>9. Total(T) = Sum(T, 0 .. n - 1) % Q
  BY <1>2, <1>8, TotalIs
<1> QED  BY <1>7, <1>9 DEF T

\* The sums of the powers of a root of order n are periodic.
LEMMA TermsPeriod ==
  ASSUME NEW n \in Nat \ {0}, NEW g \in Int, Pow(g, n) = 1, NEW y, NEW e \in Nat
  PROVE  Terms(y, g, n, e) = Terms(y, g, n, e % n) /\ e % n \in 0 .. n - 1 /\ e % n \in Nat
<1> DEFINE r == e % n
           q == e \div n
<1>1. q \in Nat /\ r \in Nat /\ r \in 0 .. n - 1 /\ e = (n * q) + r
  BY ModType
<1> HIDE DEF q, r
<1>2. ASSUME NEW j \in 0 .. n - 1 PROVE Pow(g, j * e) = Pow(g, j * r)
  <2> DEFINE u == j * r
             t == j * q
  <2>1. u \in Nat /\ t \in Nat
    BY <1>1
  <2>2. j * e = u + (n * t)
    <3>1. j * ((n * q) + r) = (j * r) + (n * (j * q))
      BY <1>1
    <3> QED  BY <1>1, <3>1
  <2> HIDE DEF u, t
  <2>3. n * t \in Nat
    BY <2>1
  <2>4. Pow(g, u + (n * t)) = Mul(Pow(g, u), Pow(g, n * t))
    BY <2>1, <2>3, PowFacts
  <2>5. Pow(g, n * t) = 1
    <3>1. Pow(Pow(g, n), t) = Pow(g, n * t)
      BY <2>1, PowPow
    <3> QED  BY <2>1, <3>1, PowOne
  <2>6. Pow(g, u) \in Field
    BY <2>1, PowFacts
  <2>7. Pow(g, j * e) = Pow(g, u)
    BY <2>2, <2>4, <2>5, <2>6, MulOne
  <2> QED  BY <2>7 DEF u
<1>3. Terms(y, g, n, e) = Terms(y, g, n, r)
  BY <1>2 DEF Terms
<1> QED  BY <1>1, <1>3 DEF r

\* Before the last level, the sum is one over half as many roots, or it cancels.
LEMMA RootsOrthogonal ==
  \A d \in Nat : d <= logRoots =>
    \A e \in 1 .. 2 ^ d - 1 : Total(Terms(Ones(2 ^ d), Gen(d), 2 ^ d, e)) = 0
<1> DEFINE P == {d \in Nat : d <= logRoots =>
                   \A e \in 1 .. 2 ^ d - 1 : Total(Terms(Ones(2 ^ d), Gen(d), 2 ^ d, e)) = 0}
<1>1. 0 \in P
  <2>1. 2 ^ 0 = 1
    BY TwoExp
  <2>2. 1 .. 2 ^ 0 - 1 = {}
    BY <2>1
  <2> QED  BY <2>2
<1>2. ASSUME NEW d \in Nat, d \in P PROVE d + 1 \in P
  <2> SUFFICES ASSUME d + 1 <= logRoots, NEW e \in 1 .. 2 ^ (d + 1) - 1
               PROVE  Total(Terms(Ones(2 ^ (d + 1)), Gen(d + 1), 2 ^ (d + 1), e)) = 0
    OBVIOUS
  <2> DEFINE m == 2 ^ d
             h == Gen(d + 1)
             g == Gen(d)
             r == e % m
             T == Total(Terms(Ones(m), g, m, r))
             c == Pow(h, e)
  <2>1. m \in Nat \ {0} /\ 2 ^ (d + 1) = 2 * m
    BY TwoExp
  <2>2. d <= logRoots /\ d < logRoots /\ d + 1 \in Nat /\ d + 1 > 0 /\ (d + 1) - 1 = d
    BY LogRoots
  <2>3. h \in Int /\ g \in Int /\ g = Mul(h, h) /\ Pow(g, m) = 1 /\ Pow(h, m) = Q - 1
    BY <2>2, GenFacts
  <2>4. \A s \in 1 .. m - 1 : Total(Terms(Ones(m), g, m, s)) = 0
    BY <1>2, <2>2
  <2> HIDE DEF m, h, g
  <2>5. /\ e \in Nat /\ e > 0 /\ e < 2 * m
        /\ r \in Nat /\ r \in 0 .. m - 1 /\ Pow(g, e) = Pow(g, r)
    <3>1. e \in Nat /\ e > 0 /\ e < 2 * m
      BY <2>1
    <3>2. r \in Nat /\ r \in 0 .. m - 1
      BY <2>1, <3>1, ModType
    <3>3. Pow(g, e) = Pow(g, r)
      BY <2>1, <2>3, <3>1, PowPeriod
    <3> QED  BY <3>1, <3>2, <3>3
  <2>6. Splits(Ones(2 * m), Ones(m), Ones(m), m)
    <3>1. \A j \in 0 .. m - 1 : /\ 2 * j \in 0 .. 2 * m - 1 /\ (2 * j) + 1 \in 0 .. 2 * m - 1
      BY <2>1
    <3> QED  BY <3>1 DEF Splits, Ones
  <2> HIDE DEF r
  <2>7. Total(Terms(Ones(2 * m), h, 2 * m, e)) = (T + (c * T)) % Q
    BY <2>1, <2>3, <2>5, <2>6, Radix2
  <2>8. T \in Int /\ c \in Int
    <3>1. \A j \in 0 .. m - 1 : Ones(m)[j] \in Int
      BY DEF Ones
    <3>2. /\ IsFiniteSet(0 .. m - 1) /\ DOMAIN Terms(Ones(m), g, m, r) = 0 .. m - 1
          /\ \A j \in 0 .. m - 1 : Terms(Ones(m), g, m, r)[j] \in Int
      BY <2>1, <2>3, <2>5, <3>1, TermsType
    <3>3. T \in Int
      BY <3>2, TotalIs
    <3> QED  BY <2>3, <2>5, <3>3, PowFacts
  <2> HIDE DEF T, c
  <2>9. (T + (c * T)) % Q = 0
    <3>1. CASE r # 0
      <4>1. T = 0
        BY <2>4, <2>5, <3>1 DEF T
      <4>2. 0 + (c * 0) = 0 /\ 0 % Q = 0
        BY <2>8, FieldAssumption
      <4> QED  BY <4>1, <4>2
    <3>2. CASE r = 0
      <4>1. e = m
        <5>1. e = (m * (e \div m)) + r /\ e \div m \in Nat
          BY <2>1, <2>5, ModType DEF r
        <5>2. \A u \in Nat \ {0}, k \in Nat : u * k > 0 /\ u * k < 2 * u => u * k = u
          <6> SUFFICES ASSUME NEW u \in Nat \ {0}, NEW k \in Nat, u * k > 0, u * k < 2 * u
                       PROVE  u * k = u
            OBVIOUS
          <6>1. k # 0
            OBVIOUS
          <6>2. CASE k >= 2
            <7>1. k - 2 \in Nat
              BY <6>2
            <7>2. u * (k - 2) \in Nat /\ u * k = (2 * u) + (u * (k - 2))
              BY <7>1
            <7> QED  BY <7>2
          <6> QED  BY <6>1, <6>2
        <5>3. e = m * (e \div m)
          BY <2>1, <3>2, <5>1
        <5> QED  BY <2>1, <2>5, <5>1, <5>2, <5>3
      <4>2. c = Q - 1
        BY <2>3, <4>1 DEF c
      <4>3. T + ((Q - 1) * T) = (T * Q) + 0
        BY <2>8, FieldAssumption
      <4>4. ((T * Q) + 0) % Q = 0
        BY <2>8, FieldAssumption, ModUnique
      <4> QED  BY <4>2, <4>3, <4>4
    <3> QED  BY <3>1, <3>2
  <2> QED  BY <2>1, <2>7, <2>9 DEF h, m
<1>3. \A d \in Nat : d \in P
  <2> HIDE DEF P
  <2> QED  BY <1>1, <1>2, Induction
<1> QED  BY <1>3

\* The coefficients of an inverse transform, as a table, and their orthogonality.
Kernel(d, i, j) == Mul(powTwoInv(d), Pow(Pow(Gen(d), 2 ^ d - 1), j * i))

\* A kernel is symmetric, and a power of the root of its domain.
LEMMA KernelType ==
  ASSUME NEW d \in Nat, d <= logRoots, NEW i \in Nat, NEW j \in Nat
  PROVE  /\ Kernel(d, i, j) \in Field /\ Kernel(d, i, j) \in Int
         /\ Kernel(d, i, j) = Kernel(d, j, i)
         /\ Kernel(d, i, j) = Mul(powTwoInv(d), Pow(Gen(d), (2 ^ d - 1) * (j * i)))
<1>1. 2 ^ d - 1 \in Nat /\ j * i \in Nat /\ j * i = i * j
  BY TwoExp
<1>2. Gen(d) \in Int /\ powTwoInv(d) \in Int
  BY GenFacts, HalfPowers
<1>3. Pow(Gen(d), 2 ^ d - 1) \in Int
  BY <1>1, <1>2, PowFacts
<1>4. Pow(Pow(Gen(d), 2 ^ d - 1), j * i) \in Int
  BY <1>1, <1>3, PowFacts
<1>5. Pow(Pow(Gen(d), 2 ^ d - 1), j * i) = Pow(Gen(d), (2 ^ d - 1) * (j * i))
  BY <1>1, <1>2, PowPow
<1> QED  BY <1>1, <1>2, <1>4, <1>5, MulType DEF Kernel

\* Where the exponent of a kernel at another point is a multiple of the size.
LEMMA ShiftedIndex ==
  ASSUME NEW n \in Nat \ {0}, NEW i \in 0 .. n - 1, NEW m \in 0 .. n - 1
  PROVE  /\ m + ((n - 1) * i) \in Nat
         /\ i = m => (m + ((n - 1) * i)) % n = 0
         /\ i # m => (m + ((n - 1) * i)) % n # 0
<1> DEFINE e == m + ((n - 1) * i)
<1>1. e \in Nat /\ e = (i * n) + (m - i)
  <2>1. (n - 1) * i \in Nat /\ (n - 1) * i = (i * n) - i /\ i * n \in Nat
    OBVIOUS
  <2> QED  BY <2>1
<1> HIDE DEF e
<1>2. ASSUME i = m PROVE e % n = 0
  <2>1. e = (i * n) + 0
    BY <1>1, <1>2
  <2> QED  BY <2>1, Quotient
<1>3. ASSUME i < m PROVE e % n # 0
  <2>1. m - i \in 1 .. n - 1 /\ m - i \in 0 .. n - 1
    BY <1>3
  <2>2. e % n = m - i
    <3> DEFINE w == m - i
    <3>1. n \in Nat /\ i \in Int /\ e = (i * n) + w /\ w \in 0 .. n - 1
      BY <1>1, <2>1
    <3> HIDE DEF w
    <3>2. e % n = w
      BY <3>1, Quotient
    <3> QED  BY <3>2 DEF w
  <2> QED  BY <2>1, <2>2
<1>4. ASSUME i > m PROVE e % n # 0
  <2>1. (n + m) - i \in 1 .. n - 1 /\ (n + m) - i \in 0 .. n - 1 /\ i - 1 \in Int
    BY <1>4
  <2>2. e = ((i - 1) * n) + ((n + m) - i)
    <3>1. (i - 1) * n = (i * n) - n /\ i * n \in Int
      OBVIOUS
    <3> QED  BY <1>1, <3>1
  <2> HIDE DEF e
  <2>3. e % n = (n + m) - i
    <3> DEFINE w == (n + m) - i
               k == i - 1
    <3>1. n \in Nat /\ k \in Int /\ e = (k * n) + w /\ w \in 0 .. n - 1
      BY <2>1, <2>2
    <3> HIDE DEF w, k
    <3>2. e % n = w
      BY <3>1, Quotient
    <3> QED  BY <3>2 DEF w
  <2> QED  BY <2>1, <2>3
<1> QED  BY <1>1, <1>2, <1>3, <1>4 DEF e

\* A kernel against the powers of a root: one at the point of the root, zero at the others.
LEMMA KernelSum ==
  ASSUME NEW d \in Nat, d <= logRoots, NEW i \in 0 .. 2 ^ d - 1, NEW m \in 0 .. 2 ^ d - 1, NEW f,
         \A j \in 0 .. 2 ^ d - 1 :
           f[j] \in Int /\ Cong(f[j], Pow(Gen(d), j * m) * Kernel(d, i, j))
  PROVE  Cong(Sum(f, 0 .. 2 ^ d - 1), IF i = m THEN 1 ELSE 0)
<1> DEFINE n == 2 ^ d
           g == Gen(d)
           v == powTwoInv(d)
           e == m + ((n - 1) * i)
           T == Terms(Ones(n), g, n, e)
           h == [j \in 0 .. n - 1 |-> v * T[j]]
<1>1. n \in Nat \ {0} /\ g \in Int /\ Pow(g, n) = 1 /\ v \in Int /\ Mul(n, v) = 1
  BY TwoExp, GenFacts, HalfPowers
<1>2. /\ e \in Nat /\ (i = m => e % n = 0) /\ (i # m => e % n # 0)
  BY <1>1, ShiftedIndex
<1>3. ASSUME NEW j \in 0 .. n - 1
      PROVE  Kernel(d, i, j) \in Int /\ Kernel(d, i, j) = Mul(v, Pow(g, (n - 1) * (j * i)))
  BY KernelType
<1>4. \A s \in 1 .. n - 1 : Total(Terms(Ones(n), g, n, s)) = 0
  BY RootsOrthogonal
<1>5. \A j \in 0 .. n - 1 : f[j] \in Int /\ Cong(f[j], Pow(g, j * m) * Kernel(d, i, j))
  OBVIOUS
<1> HIDE DEF n, g, v, e
<1>6. \A j \in 0 .. n - 1 : Ones(n)[j] = 1 /\ Ones(n)[j] \in Int
  BY DEF Ones
<1>7. /\ IsFiniteSet(0 .. n - 1) /\ DOMAIN T = 0 .. n - 1
      /\ \A j \in 0 .. n - 1 : /\ T[j] = Mul(Ones(n)[j], Pow(g, j * e)) /\ T[j] \in Int
                               /\ Pow(g, j * e) \in Int /\ Pow(g, j * e) \in Field
  <2>1. \A j \in 0 .. n - 1 : Ones(n)[j] \in Int
    BY <1>6
  <2>2. n \in Nat /\ e \in Nat
    BY <1>1, <1>2
  <2>3. /\ IsFiniteSet(0 .. n - 1) /\ DOMAIN Terms(Ones(n), g, n, e) = 0 .. n - 1
        /\ \A j \in 0 .. n - 1 :
             /\ Terms(Ones(n), g, n, e)[j] = Mul(Ones(n)[j], Pow(g, j * e))
             /\ Terms(Ones(n), g, n, e)[j] \in Field /\ Terms(Ones(n), g, n, e)[j] \in Int
             /\ Pow(g, j * e) \in Field /\ Pow(g, j * e) \in Int
    BY <1>1, <2>1, <2>2, TermsType
  <2> QED  BY <2>3
<1> HIDE DEF T
<1>8. ASSUME NEW j \in 0 .. n - 1
      PROVE  h[j] = v * T[j] /\ h[j] \in Int /\ Cong(f[j], h[j])
  <2>1. T[j] = Pow(g, j * e)
    BY <1>6, <1>7, MulOne
  <2>2. j * m \in Nat /\ (n - 1) * (j * i) \in Nat /\ j * e = (j * m) + ((n - 1) * (j * i))
    <3>1. m \in Nat /\ i \in Nat /\ j \in Nat /\ n - 1 \in Nat
      BY <1>1
    <3>2. \A x, y, z, w \in Nat : /\ x * y \in Nat /\ z * (x * w) \in Nat
                                  /\ x * (y + (z * w)) = (x * y) + (z * (x * w))
      OBVIOUS
    <3> QED  BY <3>1, <3>2 DEF e
  <2> DEFINE p == Pow(g, j * m)
             q == Pow(g, (n - 1) * (j * i))
  <2>3. p \in Int /\ q \in Int /\ Pow(g, j * e) = Mul(p, q)
    <3> DEFINE s == j * m
               t == (n - 1) * (j * i)
    <3>1. s \in Nat /\ t \in Nat /\ j * e = s + t
      BY <2>2
    <3> HIDE DEF s, t
    <3>2. Pow(g, s) \in Int /\ Pow(g, t) \in Int /\ Pow(g, s + t) = Mul(Pow(g, s), Pow(g, t))
      BY <1>1, <3>1, PowFacts, ZenonT(60)
    <3> QED  BY <3>1, <3>2 DEF s, t
  <2>4. Kernel(d, i, j) = Mul(v, q) /\ f[j] \in Int /\ Cong(f[j], p * Kernel(d, i, j))
    BY <1>3, <1>5
  <2> HIDE DEF p, q
  <2>5. Mul(v, q) \in Int /\ Cong(Mul(v, q), v * q) /\ Mul(p, q) \in Int /\ Cong(Mul(p, q), p * q)
        /\ v * q \in Int /\ p * q \in Int
    BY <1>1, <2>3, MulType, MulCong
  <2>6. Cong(p * Mul(v, q), p * (v * q)) /\ Cong(v * Mul(p, q), v * (p * q))
    BY <1>1, <2>3, <2>5, CongTimes
  <2>7. p * (v * q) = v * (p * q)
    BY <1>1, <2>3
  <2>8. Cong(f[j], v * T[j]) /\ v * T[j] \in Int
    BY <1>1, <2>1, <2>3, <2>4, <2>5, <2>6, <2>7 DEF Cong
  <2> QED  BY <2>8
<1> HIDE DEF h
<1>9. Cong(Sum(f, 0 .. n - 1), Sum(h, 0 .. n - 1))
  BY <1>5, <1>7, <1>8, SumCong
<1>10. Sum(h, 0 .. n - 1) = v * Sum(T, 0 .. n - 1) /\ Sum(T, 0 .. n - 1) \in Int
  <2>1. \A j \in 0 .. n - 1 : T[j] \in Int
    BY <1>7
  <2>2. Sum([j \in 0 .. n - 1 |-> v * T[j]], 0 .. n - 1) = v * Sum(T, 0 .. n - 1)
    BY <1>1, <1>7, <2>1, SumTimes
  <2> QED  BY <1>7, <2>1, <2>2, SumType DEF h
<1>11. Total(T) \in Int /\ Cong(Total(T), Sum(T, 0 .. n - 1))
  BY <1>7, TotalIs
<1>12. Cong(v * Sum(T, 0 .. n - 1), v * Total(T))
  BY <1>1, <1>10, <1>11, CongTimes, ZenonT(60) DEF Cong
<1>13. T = Terms(Ones(n), g, n, e % n) /\ e % n \in 0 .. n - 1
  BY <1>1, <1>2, TermsPeriod DEF T
<1>14. CASE i = m
  <2>1. Total(T) = n % Q
    BY <1>1, <1>2, <1>13, <1>14, OnesSum
  <2>2. n \in Int /\ n % Q \in Int /\ Cong(n % Q, n)
    BY <1>1, ResidueType, CongResidue
  <2>3. Cong(v * (n % Q), v * n)
    BY <1>1, <2>2, CongTimes
  <2>4. v * n = n * v /\ (n * v) % Q = 1 /\ 1 % Q = 1
    BY <1>1, FieldAssumption DEF Mul
  <2>5. Cong(v * Total(T), 1)
    BY <2>1, <2>3, <2>4 DEF Cong
  <2> QED  BY <1>9, <1>10, <1>12, <1>14, <2>5 DEF Cong, n
<1>15. CASE i # m
  <2>1. e % n \in 1 .. n - 1
    BY <1>1, <1>2, <1>13, <1>15
  <2>2. Total(T) = 0
    BY <1>4, <1>13, <2>1
  <2>3. v * Total(T) = 0
    BY <1>1, <2>2
  <2> QED  BY <1>9, <1>10, <1>12, <1>15, <2>3 DEF Cong, n
<1> QED  BY <1>14, <1>15

\* An inverse transform, by the table.
LEMMA InverseByKernel ==
  ASSUME NEW d \in Nat, d <= logRoots, NEW y \in [0 .. 2 ^ d - 1 -> Field],
         NEW i \in 0 .. 2 ^ d - 1
  PROVE  /\ InverseDFT(y)[i] \in Field /\ InverseDFT(y)[i] \in Int
         /\ Cong(InverseDFT(y)[i],
                 Sum([j \in 0 .. 2 ^ d - 1 |-> y[j] * Kernel(d, i, j)], 0 .. 2 ^ d - 1))
<1> DEFINE n == 2 ^ d
           b == Pow(Gen(d), n - 1)
           v == powTwoInv(d)
           T == Terms(y, b, n, i)
           h == [j \in 0 .. n - 1 |-> v * T[j]]
           f == [j \in 0 .. n - 1 |-> y[j] * Kernel(d, i, j)]
<1>1. n \in Nat \ {0} /\ Gen(d) \in Int /\ v \in Int /\ Inv(n) = v
  BY TwoExp, GenFacts, HalfPowers
<1>2. b \in Int
  <2>1. n - 1 \in Nat
    BY <1>1
  <2> QED  BY <1>1, <2>1, PowFacts
<1>3. InverseDFT(y)[i] = Mul(v, Total(T))
  BY <1>1, TransformsAre
<1>4. InverseDFT(y)[i] \in Field
  BY TransformTypes
<1>5. \A j \in 0 .. n - 1 : y[j] \in Field /\ y[j] \in Int
  BY FieldResidue
<1>6. \A j \in 0 .. n - 1 : Kernel(d, i, j) = Mul(v, Pow(b, j * i)) /\ Kernel(d, i, j) \in Int
  <2> SUFFICES ASSUME NEW j \in 0 .. n - 1
               PROVE Kernel(d, i, j) = Mul(v, Pow(b, j * i)) /\ Kernel(d, i, j) \in Int
    OBVIOUS
  <2>1. Kernel(d, i, j) \in Int
    BY <1>1, KernelType
  <2> QED  BY <2>1 DEF Kernel
<1>7. i \in Nat /\ i \in 0 .. n - 1
  BY <1>1
<1> HIDE DEF n, b, v
<1>8. /\ IsFiniteSet(0 .. n - 1) /\ DOMAIN T = 0 .. n - 1
      /\ \A j \in 0 .. n - 1 : /\ T[j] = Mul(y[j], Pow(b, j * i)) /\ T[j] \in Int
                               /\ Pow(b, j * i) \in Int
  <2>1. \A j \in 0 .. n - 1 : y[j] \in Int
    BY <1>5
  <2>2. n \in Nat
    BY <1>1
  <2>3. /\ IsFiniteSet(0 .. n - 1) /\ DOMAIN Terms(y, b, n, i) = 0 .. n - 1
        /\ \A j \in 0 .. n - 1 :
             /\ Terms(y, b, n, i)[j] = Mul(y[j], Pow(b, j * i))
             /\ Terms(y, b, n, i)[j] \in Field /\ Terms(y, b, n, i)[j] \in Int
             /\ Pow(b, j * i) \in Field /\ Pow(b, j * i) \in Int
    BY <1>2, <1>7, <2>1, <2>2, TermsType
  <2> QED  BY <2>3
<1> HIDE DEF T
<1>9. ASSUME NEW j \in 0 .. n - 1
      PROVE  /\ h[j] = v * T[j] /\ h[j] \in Int
             /\ f[j] = y[j] * Kernel(d, i, j) /\ f[j] \in Int /\ Cong(h[j], f[j])
  <2> DEFINE q == Pow(b, j * i)
             u == y[j]
  <2>1. T[j] = Mul(u, q) /\ Kernel(d, i, j) = Mul(v, q) /\ u \in Int /\ q \in Int
    BY <1>5, <1>6, <1>8
  <2> HIDE DEF u, q
  <2>2. Mul(v, q) \in Int /\ Cong(Mul(v, q), v * q) /\ Mul(u, q) \in Int /\ Cong(Mul(u, q), u * q)
        /\ v * q \in Int /\ u * q \in Int
    <3>1. v \in Int /\ u \in Int /\ q \in Int
      BY <1>1, <2>1
    <3>2. v * q \in Int /\ u * q \in Int
      BY <3>1
    <3> QED  BY <3>1, <3>2, MulType, MulCong
  <2>3. Cong(v * Mul(u, q), v * (u * q)) /\ Cong(u * Mul(v, q), u * (v * q))
    BY <1>1, <2>1, <2>2, CongTimes
  <2>4. v * (u * q) = u * (v * q)
    BY <1>1, <2>1
  <2>5. Cong(v * T[j], u * Kernel(d, i, j)) /\ v * T[j] \in Int /\ u * Kernel(d, i, j) \in Int
    BY <1>1, <2>1, <2>2, <2>3, <2>4 DEF Cong
  <2> QED  BY <2>5 DEF u
<1> HIDE DEF h, f
<1>10. Cong(Sum(h, 0 .. n - 1), Sum(f, 0 .. n - 1))
  BY <1>8, <1>9, SumCong
<1>11. Sum(h, 0 .. n - 1) = v * Sum(T, 0 .. n - 1) /\ Sum(T, 0 .. n - 1) \in Int
  <2>1. \A j \in 0 .. n - 1 : T[j] \in Int
    BY <1>8
  <2>2. Sum([j \in 0 .. n - 1 |-> v * T[j]], 0 .. n - 1) = v * Sum(T, 0 .. n - 1)
    BY <1>1, <1>8, <2>1, SumTimes
  <2> QED  BY <1>8, <2>1, <2>2, SumType DEF h
<1>12. Total(T) \in Int /\ Cong(Total(T), Sum(T, 0 .. n - 1))
  BY <1>8, TotalIs
<1>13. Cong(Mul(v, Total(T)), v * Total(T)) /\ Cong(v * Total(T), v * Sum(T, 0 .. n - 1))
  BY <1>1, <1>11, <1>12, MulCong, CongTimes
<1>14. Cong(InverseDFT(y)[i], Sum(f, 0 .. n - 1))
  BY <1>3, <1>10, <1>11, <1>13 DEF Cong
<1> QED  BY <1>4, <1>14, FieldResidue DEF f, n

--------------------------------------------------------------------------------
\* The polynomial with the values y on the domain of 2^d, at x, and those with the value
\* one at point j and zero at the others.
Poly(d, y, x) == Total([i \in 0 .. 2 ^ d - 1 |-> Mul(InverseDFT(y)[i], Pow(x, i))])
Lag(d, j, x)  == Total([i \in 0 .. 2 ^ d - 1 |-> Mul(Kernel(d, i, j), Pow(x, i))])

\* A Lagrange polynomial, by its coefficients.
LEMMA LagIs ==
  ASSUME NEW d \in Nat, d <= logRoots, NEW j \in 0 .. 2 ^ d - 1, NEW x \in Int
  PROVE  /\ Lag(d, j, x) \in Field /\ Lag(d, j, x) \in Int
         /\ Cong(Lag(d, j, x),
                 Sum([i \in 0 .. 2 ^ d - 1 |-> Pow(x, i) * Kernel(d, i, j)], 0 .. 2 ^ d - 1))
<1> DEFINE D == 0 .. 2 ^ d - 1
           h == [i \in D |-> Mul(Kernel(d, i, j), Pow(x, i))]
           g == [i \in D |-> Pow(x, i) * Kernel(d, i, j)]
<1>1. IsFiniteSet(D) /\ DOMAIN h = D /\ D \subseteq Nat /\ j \in Nat
  BY TwoExp, FS_Interval
<1>2. ASSUME NEW i \in D PROVE h[i] \in Int /\ g[i] \in Int /\ Cong(h[i], g[i])
  <2>1. Kernel(d, i, j) \in Int /\ Pow(x, i) \in Int
    BY <1>1, KernelType, PowFacts
  <2>2. /\ Mul(Kernel(d, i, j), Pow(x, i)) \in Int
        /\ Cong(Mul(Kernel(d, i, j), Pow(x, i)), Kernel(d, i, j) * Pow(x, i))
    BY <2>1, MulType, MulCong
  <2>3. Kernel(d, i, j) * Pow(x, i) = Pow(x, i) * Kernel(d, i, j) /\ Pow(x, i) * Kernel(d, i, j) \in Int
    BY <2>1
  <2> QED  BY <2>2, <2>3
<1>3. Lag(d, j, x) = Total(h)
  BY DEF Lag
<1> HIDE DEF h, g, D
<1>4. Total(h) \in Field /\ Total(h) \in Int /\ Cong(Total(h), Sum(g, D))
  BY <1>1, <1>2, TotalOf
<1> QED  BY <1>3, <1>4 DEF g, D

\* An interpolation, by its coefficients.
LEMMA PolyIs ==
  ASSUME NEW d \in Nat, d <= logRoots, NEW y \in [0 .. 2 ^ d - 1 -> Field], NEW x \in Int
  PROVE  /\ Poly(d, y, x) \in Field /\ Poly(d, y, x) \in Int
         /\ Cong(Poly(d, y, x),
                 Sum([i \in 0 .. 2 ^ d - 1 |-> InverseDFT(y)[i] * Pow(x, i)], 0 .. 2 ^ d - 1))
<1> DEFINE D == 0 .. 2 ^ d - 1
           h == [i \in D |-> Mul(InverseDFT(y)[i], Pow(x, i))]
           g == [i \in D |-> InverseDFT(y)[i] * Pow(x, i)]
<1>1. IsFiniteSet(D) /\ DOMAIN h = D /\ D \subseteq Nat
  BY TwoExp, FS_Interval
<1>2. ASSUME NEW i \in D PROVE h[i] \in Int /\ g[i] \in Int /\ Cong(h[i], g[i])
  <2>1. InverseDFT(y)[i] \in Int /\ Pow(x, i) \in Int
    BY <1>1, InverseByKernel, PowFacts
  <2>2. /\ Mul(InverseDFT(y)[i], Pow(x, i)) \in Int
        /\ Cong(Mul(InverseDFT(y)[i], Pow(x, i)), InverseDFT(y)[i] * Pow(x, i))
    BY <2>1, MulType, MulCong
  <2>3. InverseDFT(y)[i] * Pow(x, i) \in Int
    BY <2>1
  <2> QED  BY <2>2, <2>3
<1>3. Poly(d, y, x) = Total(h)
  BY DEF Poly
<1> HIDE DEF h, g, D
<1>4. Total(h) \in Field /\ Total(h) \in Int /\ Cong(Total(h), Sum(g, D))
  BY <1>1, <1>2, TotalOf
<1> QED  BY <1>3, <1>4 DEF g, D

\* The polynomial is the sum of those, times its values.
LEMMA PolyByLagrange ==
  ASSUME NEW d \in Nat, d <= logRoots, NEW y \in [0 .. 2 ^ d - 1 -> Field], NEW x \in Int
  PROVE  Poly(d, y, x) = Total([j \in 0 .. 2 ^ d - 1 |-> Mul(y[j], Lag(d, j, x))])
<1> DEFINE D == 0 .. 2 ^ d - 1
           f == [i \in D |-> [j \in D |-> Kernel(d, i, j)]]
           u == [i \in D |-> InverseDFT(y)[i]]
           v == [i \in D |-> Pow(x, i)]
           c == [j \in D |-> y[j]]
           w == [j \in D |-> Lag(d, j, x)]
           a == [i \in D |-> Mul(InverseDFT(y)[i], Pow(x, i))]
           b == [j \in D |-> Mul(y[j], Lag(d, j, x))]
<1>1. IsFiniteSet(D) /\ D \subseteq Nat
  BY TwoExp, FS_Interval
<1>2. \A i, j \in D : f[i][j] = Kernel(d, i, j) /\ f[i][j] \in Int
  BY <1>1, KernelType
<1>3. \A i \in D : v[i] = Pow(x, i) /\ v[i] \in Int
  BY <1>1, PowFacts
<1>4. \A j \in D : c[j] = y[j] /\ c[j] \in Int
  BY FieldResidue
<1>5. RowSums(u, c, f, D, D)
  <2> SUFFICES ASSUME NEW i \in D
               PROVE  u[i] \in Int /\ Cong(u[i], Sum([j \in D |-> c[j] * f[i][j]], D))
    BY DEF RowSums
  <2>1. [j \in D |-> c[j] * f[i][j]] = [j \in D |-> y[j] * Kernel(d, i, j)]
    BY <1>2, <1>4
  <2>2. /\ InverseDFT(y)[i] \in Int
        /\ Cong(InverseDFT(y)[i], Sum([j \in D |-> y[j] * Kernel(d, i, j)], D))
    BY InverseByKernel
  <2>3. u[i] = InverseDFT(y)[i]
    OBVIOUS
  <2> HIDE DEF u, c, f
  <2> QED  BY <2>1, <2>2, <2>3, Zenon
<1>6. ColumnSums(w, v, f, D, D)
  <2> SUFFICES ASSUME NEW j \in D
               PROVE  w[j] \in Int /\ Cong(w[j], Sum([i \in D |-> v[i] * f[i][j]], D))
    BY DEF ColumnSums
  <2>1. [i \in D |-> v[i] * f[i][j]] = [i \in D |-> Pow(x, i) * Kernel(d, i, j)]
    BY <1>2, <1>3
  <2>2. Lag(d, j, x) \in Int /\ Cong(Lag(d, j, x), Sum([i \in D |-> Pow(x, i) * Kernel(d, i, j)], D))
    BY LagIs
  <2>3. w[j] = Lag(d, j, x)
    OBVIOUS
  <2> HIDE DEF v, w, f
  <2> QED  BY <2>1, <2>2, <2>3, Zenon
<1>7. \A i \in D : a[i] \in Int /\ Cong(a[i], v[i] * u[i])
  <2> SUFFICES ASSUME NEW i \in D PROVE a[i] \in Int /\ Cong(a[i], v[i] * u[i])
    OBVIOUS
  <2>1. u[i] = InverseDFT(y)[i] /\ u[i] \in Int /\ a[i] = Mul(u[i], v[i])
    BY InverseByKernel
  <2>2. v[i] * u[i] = u[i] * v[i]
    BY <1>3, <2>1
  <2> QED  BY <1>3, <2>1, <2>2, MulType, MulCong
<1>8. \A j \in D : b[j] \in Int /\ Cong(b[j], c[j] * w[j])
  <2> SUFFICES ASSUME NEW j \in D PROVE b[j] \in Int /\ Cong(b[j], c[j] * w[j])
    OBVIOUS
  <2>1. w[j] = Lag(d, j, x) /\ w[j] \in Int /\ b[j] = Mul(c[j], w[j])
    BY LagIs
  <2> QED  BY <1>4, <2>1, MulType, MulCong
<1>9. DOMAIN a = D /\ DOMAIN b = D /\ Poly(d, y, x) = Total(a)
  BY DEF Poly
<1> HIDE DEF f, u, v, c, w, a, b, D
<1>10. \A i \in D, j \in D : f[i][j] \in Int
  BY <1>2
<1>11. IsFiniteSet(D) /\ DOMAIN a = D /\ DOMAIN b = D /\ \A i \in D : v[i] \in Int
  BY <1>1, <1>3, <1>9
<1>13. \A j \in D : c[j] \in Int
  BY <1>4
<1>12. Total(a) = Total(b)
  BY <1>5, <1>6, <1>7, <1>8, <1>10, <1>11, <1>13, Exchange
<1> QED  BY <1>9, <1>12 DEF b, D

\* A power of x, from its values on the domain.
LEMMA Interpolation ==
  ASSUME NEW d \in Nat, d <= logRoots, NEW m \in 0 .. 2 ^ d - 1, NEW x \in Int
  PROVE  Total([j \in 0 .. 2 ^ d - 1 |-> Mul(Pow(Gen(d), j * m), Lag(d, j, x))]) = Pow(x, m)
<1> DEFINE D == 0 .. 2 ^ d - 1
           f == [j \in D |-> [i \in D |-> Kernel(d, i, j)]]
           u == [j \in D |-> Lag(d, j, x)]
           v == [j \in D |-> Pow(Gen(d), j * m)]
           c == [i \in D |-> Pow(x, i)]
           w == [i \in D |-> IF i = m THEN 1 ELSE 0]
           a == [j \in D |-> Mul(Pow(Gen(d), j * m), Lag(d, j, x))]
           b == [i \in D |-> IF i = m THEN Pow(x, m) ELSE 0]
<1>1. IsFiniteSet(D) /\ D \subseteq Nat /\ m \in D
  BY TwoExp, FS_Interval
<1>2. \A i, j \in D : f[j][i] = Kernel(d, i, j) /\ f[j][i] \in Int
  BY <1>1, KernelType
<1>3. \A i \in D : c[i] = Pow(x, i) /\ c[i] \in Int /\ c[i] \in Field
  BY <1>1, PowFacts
<1>4. \A j \in D : v[j] = Pow(Gen(d), j * m) /\ v[j] \in Int
  <2> SUFFICES ASSUME NEW j \in D PROVE Pow(Gen(d), j * m) \in Int
    OBVIOUS
  <2>1. j * m \in Nat
    BY <1>1
  <2> QED  BY <2>1, GenFacts, PowFacts
<1>5. RowSums(u, c, f, D, D)
  <2> SUFFICES ASSUME NEW j \in D
               PROVE  u[j] \in Int /\ Cong(u[j], Sum([i \in D |-> c[i] * f[j][i]], D))
    BY DEF RowSums
  <2>1. [i \in D |-> c[i] * f[j][i]] = [i \in D |-> Pow(x, i) * Kernel(d, i, j)]
    BY <1>2, <1>3
  <2>2. Lag(d, j, x) \in Int /\ Cong(Lag(d, j, x), Sum([i \in D |-> Pow(x, i) * Kernel(d, i, j)], D))
    BY LagIs
  <2>3. u[j] = Lag(d, j, x)
    OBVIOUS
  <2> HIDE DEF u, c, f
  <2> QED  BY <2>1, <2>2, <2>3, Zenon
<1>6. ColumnSums(w, v, f, D, D)
  <2> SUFFICES ASSUME NEW i \in D
               PROVE  w[i] \in Int /\ Cong(w[i], Sum([j \in D |-> v[j] * f[j][i]], D))
    BY DEF ColumnSums
  <2> DEFINE F == [j \in D |-> v[j] * f[j][i]]
  <2>1. \A j \in D : F[j] \in Int /\ Cong(F[j], Pow(Gen(d), j * m) * Kernel(d, i, j))
    BY <1>2, <1>4 DEF Cong
  <2> HIDE DEF F
  <2>2. Cong(Sum(F, D), IF i = m THEN 1 ELSE 0)
    BY <1>1, <2>1, KernelSum
  <2>3. w[i] = (IF i = m THEN 1 ELSE 0) /\ w[i] \in Int
    OBVIOUS
  <2>4. Cong(w[i], Sum(F, D))
    BY <2>2, <2>3 DEF Cong
  <2> QED  BY <2>3, <2>4 DEF F
<1>7. \A j \in D : a[j] \in Int /\ Cong(a[j], v[j] * u[j])
  <2> SUFFICES ASSUME NEW j \in D PROVE a[j] \in Int /\ Cong(a[j], v[j] * u[j])
    OBVIOUS
  <2>1. u[j] = Lag(d, j, x) /\ u[j] \in Int /\ a[j] = Mul(v[j], u[j])
    BY LagIs
  <2> QED  BY <1>4, <2>1, MulType, MulCong
<1>8. \A i \in D : b[i] \in Int /\ Cong(b[i], c[i] * w[i])
  <2> SUFFICES ASSUME NEW i \in D PROVE b[i] \in Int /\ Cong(b[i], c[i] * w[i])
    OBVIOUS
  <2>1. CASE i = m
    <3>1. b[i] = c[i] /\ w[i] = 1
      BY <1>3, <2>1
    <3>2. c[i] * w[i] = c[i]
      BY <1>3, <3>1
    <3> QED  BY <1>3, <3>1, <3>2 DEF Cong
  <2>2. CASE i # m
    <3>1. b[i] = 0 /\ w[i] = 0
      BY <2>2
    <3>2. c[i] * w[i] = 0
      BY <1>3, <3>1
    <3> QED  BY <3>1, <3>2 DEF Cong
  <2> QED  BY <2>1, <2>2
<1>9. DOMAIN a = D /\ DOMAIN b = D /\ b[m] = Pow(x, m) /\ \A i \in D : i # m => b[i] = 0
  BY <1>1
<1>10. Pow(x, m) \in Field /\ Pow(x, m) \in Int
  BY <1>1, PowFacts
<1> HIDE DEF f, u, v, c, w, a, b, D
<1>11. \A j \in D, i \in D : f[j][i] \in Int
  BY <1>2
<1>12. \A i \in D : c[i] \in Int
  BY <1>3
<1>17. IsFiniteSet(D) /\ DOMAIN a = D /\ DOMAIN b = D /\ \A j \in D : v[j] \in Int
  BY <1>1, <1>4, <1>9
<1>13. Total(a) = Total(b)
  BY <1>5, <1>6, <1>7, <1>8, <1>11, <1>12, <1>17, Exchange
<1>14. Sum(b, D) = Pow(x, m)
  BY <1>1, <1>9, <1>10, SumSingle
<1>15. Total(b) = Sum(b, D) % Q
  BY <1>1, <1>8, <1>9, TotalIs
<1>16. Total(b) = Pow(x, m)
  BY <1>10, <1>14, <1>15, FieldResidue
<1> QED  BY <1>13, <1>16 DEF a, D

\* A power of an element of the domain, on the domain.
LEMMA PowerOfRoot ==
  ASSUME NEW d \in Nat, d <= logRoots, NEW j \in Nat, NEW i \in Nat
  PROVE  /\ Pow(Gen(d), j) \in Int /\ j * i \in Nat /\ i * j \in Nat
         /\ Pow(Pow(Gen(d), j), i) = Pow(Gen(d), j * i) /\ Pow(Gen(d), j * i) \in Int
         /\ Pow(Pow(Gen(d), j), i) = Pow(Gen(d), i * j)
<1>1. j * i \in Nat /\ i * j = j * i
  OBVIOUS
<1>2. Gen(d) \in Int
  BY GenFacts
<1>3. \A k \in Nat : Pow(Gen(d), k) \in Int
  BY <1>2, PowFacts
<1>4. Pow(Pow(Gen(d), j), i) = Pow(Gen(d), j * i)
  BY <1>2, PowPow
<1>5. Pow(Gen(d), j) \in Int /\ Pow(Gen(d), j * i) \in Int
  BY <1>1, <1>3
<1> QED  BY <1>1, <1>4, <1>5

\* On the domain those polynomials are zero or one.
LEMMA LagAtRoot ==
  ASSUME NEW d \in Nat, d <= logRoots, NEW j \in 0 .. 2 ^ d - 1, NEW i \in 0 .. 2 ^ d - 1
  PROVE  Lag(d, j, Pow(Gen(d), i)) = IF i = j THEN 1 ELSE 0
<1> DEFINE D == 0 .. 2 ^ d - 1
           x == Pow(Gen(d), i)
           g == [k \in D |-> Pow(x, k) * Kernel(d, k, j)]
<1>1. i \in Nat /\ j \in Nat /\ D \subseteq Nat
  OBVIOUS
<1>2. x \in Int
  BY <1>1, PowerOfRoot
<1>3. Lag(d, j, x) \in Field /\ Lag(d, j, x) \in Int /\ Cong(Lag(d, j, x), Sum(g, D))
  BY <1>2, LagIs
<1>4. \A k \in D : g[k] \in Int /\ Cong(g[k], Pow(Gen(d), k * i) * Kernel(d, j, k))
  <2> SUFFICES ASSUME NEW k \in D
               PROVE  g[k] \in Int /\ Cong(g[k], Pow(Gen(d), k * i) * Kernel(d, j, k))
    OBVIOUS
  <2>1. k \in Nat
    BY <1>1
  <2>7. Pow(x, k) = Pow(Gen(d), k * i)
    BY <1>1, <2>1, PowerOfRoot
  <2>8. Pow(x, k) \in Int
    <3> HIDE DEF x
    <3> QED  BY <1>2, <2>1, PowFacts
  <2>2. Pow(x, k) = Pow(Gen(d), k * i) /\ Pow(x, k) \in Int
    BY <2>7, <2>8
  <2>3. Kernel(d, k, j) = Kernel(d, j, k) /\ Kernel(d, k, j) \in Int
    BY <1>1, <2>1, KernelType
  <2>4. g[k] = Pow(Gen(d), k * i) * Kernel(d, j, k)
    BY <2>2, <2>3
  <2>5. \A u, v \in Int : u * v \in Int
    OBVIOUS
  <2>6. g[k] \in Int
    BY <2>2, <2>3, <2>5
  <2> QED  BY <2>4, <2>6, Zenon DEF Cong
<1> HIDE DEF g, x
<1>5. Cong(Sum(g, D), IF j = i THEN 1 ELSE 0)
  BY <1>4, KernelSum
<1>6. (IF j = i THEN 1 ELSE 0) \in Field
  BY FieldAssumption DEF Field
<1>7. Cong(Lag(d, j, x), IF j = i THEN 1 ELSE 0)
  BY <1>3, <1>5 DEF Cong
<1>8. Lag(d, j, x) = IF j = i THEN 1 ELSE 0
  BY <1>3, <1>6, <1>7, FieldResidue, Zenon DEF Cong
<1> QED  BY <1>8 DEF x

\* The indicator of m over D.
At1(D, m) == [j \in D |-> IF j = m THEN 1 ELSE 0]

\* The polynomial with the value one at m is the one named for m.
LEMMA PolyOfDelta ==
  ASSUME NEW d \in Nat, d <= logRoots, NEW m \in 0 .. 2 ^ d - 1, NEW x \in Int
  PROVE  Poly(d, At1(0 .. 2 ^ d - 1, m), x) = Lag(d, m, x)
<1> DEFINE D == 0 .. 2 ^ d - 1
           y == At1(D, m)
           b == [j \in D |-> Mul(y[j], Lag(d, j, x))]
<1>1. IsFiniteSet(D) /\ m \in D
  BY TwoExp, FS_Interval
<1>2. y \in [D -> Field] /\ y[m] = 1 /\ \A j \in D : j # m => y[j] = 0
  BY FieldAssumption DEF At1, Field
<1>3. Poly(d, y, x) = Total(b)
  BY <1>2, PolyByLagrange
<1>4. \A j \in D : Lag(d, j, x) \in Field /\ Lag(d, j, x) \in Int
  BY LagIs
<1>5. DOMAIN b = D /\ b[m] = Lag(d, m, x)
  BY <1>1, <1>2, <1>4, MulOne
<1>6. \A j \in D : j # m => b[j] = 0
  <2> SUFFICES ASSUME NEW j \in D, j # m PROVE Mul(y[j], Lag(d, j, x)) = 0
    OBVIOUS
  <2>1. y[j] = 0 /\ Lag(d, j, x) \in Int
    BY <1>2, <1>4
  <2>2. 0 * Lag(d, j, x) = 0 /\ 0 % Q = 0
    BY <2>1, FieldResidue, FieldAssumption DEF Field
  <2> QED  BY <2>1, <2>2 DEF Mul
<1>7. \A j \in D : b[j] \in Int
  BY <1>4, <1>5, <1>6
<1> HIDE DEF b, y, D
<1>8. Sum(b, D) = Lag(d, m, x)
  BY <1>1, <1>5, <1>6, <1>7, SumSingle
<1>9. Total(b) = Sum(b, D) % Q
  BY <1>1, <1>5, <1>7, TotalIs
<1>10. Total(b) = Lag(d, m, x)
  BY <1>1, <1>4, <1>8, <1>9, FieldResidue
<1> QED  BY <1>3, <1>10 DEF y, D

\* A polynomial has its values on the domain.
LEMMA PolyAtRoot ==
  ASSUME NEW d \in Nat, d <= logRoots, NEW y \in [0 .. 2 ^ d - 1 -> Field], NEW i \in 0 .. 2 ^ d - 1
  PROVE  Poly(d, y, Pow(Gen(d), i)) = y[i]
<1> DEFINE D == 0 .. 2 ^ d - 1
           x == Pow(Gen(d), i)
           b == [j \in D |-> Mul(y[j], Lag(d, j, x))]
<1>1. IsFiniteSet(D) /\ i \in D /\ i \in Nat
  BY TwoExp, FS_Interval
<1>2. x \in Int
  BY <1>1, PowerOfRoot
<1>3. Poly(d, y, x) = Total(b)
  BY <1>2, PolyByLagrange
<1>4. \A j \in D : Lag(d, j, x) = IF i = j THEN 1 ELSE 0
  BY LagAtRoot
<1>5. \A j \in D : y[j] \in Field /\ y[j] \in Int
  BY FieldResidue
<1>6. DOMAIN b = D /\ b[i] = y[i]
  BY <1>1, <1>4, <1>5, MulOne
<1>7. \A j \in D : j # i => b[j] = 0
  <2> SUFFICES ASSUME NEW j \in D, j # i PROVE Mul(y[j], Lag(d, j, x)) = 0
    OBVIOUS
  <2>1. y[j] \in Int /\ Lag(d, j, x) = 0
    BY <1>4, <1>5
  <2>2. y[j] * 0 = 0 /\ 0 % Q = 0
    BY <2>1, FieldResidue, FieldAssumption DEF Field
  <2> QED  BY <2>1, <2>2 DEF Mul
<1>8. \A j \in D : b[j] \in Int
  BY <1>5, <1>6, <1>7
<1>10. y[i] \in Field
  BY <1>1, <1>5
<1>14. DOMAIN b = D
  OBVIOUS
<1> HIDE DEF b, D, x
<1>11. Sum(b, D) = y[i]
  BY <1>1, <1>6, <1>7, <1>8, SumSingle
<1>12. Total(b) = Sum(b, D) % Q
  BY <1>1, <1>14, <1>8, TotalIs
<1>13. Total(b) = y[i]
  BY <1>10, <1>11, <1>12, FieldResidue
<1> QED  BY <1>3, <1>13 DEF x

\* A combination t of the columns of M: their polynomials at x, and their values.
Combinable(d, W, t, M) ==
  /\ \A v \in W : t[v] \in Int
  /\ \A j \in 0 .. 2 ^ d - 1 : \A v \in W : M[j][v] \in Field
ColumnsAt(d, W, t, M, x) == [v \in W |-> t[v] * Poly(d, [j \in 0 .. 2 ^ d - 1 |-> M[j][v]], x)]
RowsOf(d, W, t, M) == [j \in 0 .. 2 ^ d - 1 |-> Total([v \in W |-> t[v] * M[j][v]])]

\* The combination of the polynomials of the columns is the polynomial of that of the rows.
LEMMA PolyOfRows ==
  ASSUME NEW d \in Nat, d <= logRoots, NEW x \in Int, NEW W, IsFiniteSet(W), NEW t,
         NEW M, Combinable(d, W, t, M)
  PROVE  Total(ColumnsAt(d, W, t, M, x)) = Poly(d, RowsOf(d, W, t, M), x)
<1>0. /\ \A v \in W : t[v] \in Int
      /\ \A j \in 0 .. 2 ^ d - 1 : \A v \in W : M[j][v] \in Field
  BY DEF Combinable
<1> DEFINE D == 0 .. 2 ^ d - 1
           column(v) == [j \in D |-> M[j][v]]
           f == [v \in W |-> column(v)]
           u == [v \in W |-> Poly(d, column(v), x)]
           c == [j \in D |-> Lag(d, j, x)]
           w == [j \in D |-> Total([v \in W |-> t[v] * M[j][v]])]
           a == [v \in W |-> t[v] * Poly(d, column(v), x)]
           b == [j \in D |-> Mul(w[j], Lag(d, j, x))]
<1>1. IsFiniteSet(D)
  BY TwoExp, FS_Interval
<1>2. \A v \in W : column(v) \in [D -> Field]
  BY <1>0
<1>3. \A v \in W, j \in D : f[v][j] = M[j][v] /\ f[v][j] \in Int /\ column(v)[j] = f[v][j]
  BY <1>0, FieldResidue
<1>4. \A j \in D : c[j] = Lag(d, j, x) /\ c[j] \in Int
  BY LagIs
<1>5. RowSums(u, c, f, W, D)
  <2> SUFFICES ASSUME NEW v \in W
               PROVE  u[v] \in Int /\ Cong(u[v], Sum([j \in D |-> c[j] * f[v][j]], D))
    BY DEF RowSums
  <2> DEFINE y == column(v)
             g == [j \in D |-> Mul(y[j], Lag(d, j, x))]
             h == [j \in D |-> c[j] * f[v][j]]
  <2>1. y \in [D -> Field] /\ u[v] = Poly(d, y, x)
    BY <1>2
  <2>2. u[v] = Total(g) /\ DOMAIN g = D
    <3> HIDE DEF y, u
    <3> QED  BY <2>1, PolyByLagrange
  <2>3. \A j \in D : g[j] \in Int /\ h[j] \in Int /\ Cong(g[j], h[j])
    <3> SUFFICES ASSUME NEW j \in D PROVE g[j] \in Int /\ h[j] \in Int /\ Cong(g[j], h[j])
      OBVIOUS
    <3>1. y[j] = f[v][j] /\ f[v][j] \in Int /\ c[j] \in Int /\ c[j] = Lag(d, j, x)
      BY <1>3, <1>4
    <3>2. g[j] = Mul(f[v][j], c[j]) /\ h[j] = c[j] * f[v][j]
      BY <3>1
    <3> HIDE DEF f, c, g, h
    <3>3. f[v][j] * c[j] = c[j] * f[v][j] /\ f[v][j] * c[j] \in Int
      BY <3>1
    <3>4. g[j] \in Int /\ Cong(g[j], f[v][j] * c[j])
      BY <3>1, <3>2, MulType, MulCong
    <3> QED  BY <3>2, <3>3, <3>4
  <2> HIDE DEF g, h, y, c, f, u
  <2>4. Total(g) \in Int /\ Cong(Total(g), Sum(h, D))
    BY <1>1, <2>2, <2>3, TotalOf
  <2> QED  BY <2>2, <2>4 DEF h
<1>6. \A j \in D : /\ w[j] \in Field /\ w[j] \in Int
                   /\ Cong(w[j], Sum([v \in W |-> t[v] * f[v][j]], W))
  <2> SUFFICES ASSUME NEW j \in D
               PROVE  /\ w[j] \in Field /\ w[j] \in Int
                      /\ Cong(w[j], Sum([v \in W |-> t[v] * f[v][j]], W))
    OBVIOUS
  <2> DEFINE h == [v \in W |-> t[v] * f[v][j]]
  <2>1. [v \in W |-> t[v] * M[j][v]] = h
    BY <1>3
  <2>2. w[j] = Total(h)
    BY <2>1
  <2>3. \A v \in W : h[v] \in Int
    <3> SUFFICES ASSUME NEW v \in W PROVE t[v] * f[v][j] \in Int
      OBVIOUS
    <3>1. t[v] \in Int /\ f[v][j] \in Int
      BY <1>0, <1>3
    <3> HIDE DEF f
    <3> QED  BY <3>1
  <2>4. DOMAIN h = W
    OBVIOUS
  <2> HIDE DEF h, w
  <2> QED  BY <2>2, <2>3, <2>4, TotalIs DEF h
<1>7. ColumnSums(w, t, f, W, D)
  BY <1>6 DEF ColumnSums
<1>8. \A v \in W : u[v] \in Int /\ a[v] = t[v] * u[v]
  <2> SUFFICES ASSUME NEW v \in W PROVE u[v] \in Int
    OBVIOUS
  <2>1. column(v) \in [D -> Field]
    BY <1>2
  <2> HIDE DEF column
  <2> QED  BY <2>1, PolyIs
<1>9. \A j \in D : b[j] = Mul(w[j], c[j])
  BY <1>4
<1>10. DOMAIN a = W /\ DOMAIN b = D /\ w \in [D -> Field]
  BY <1>6
<1>11. Poly(d, w, x) = Total(b)
  <2> HIDE DEF w
  <2> QED  BY <1>10, PolyByLagrange
<1> HIDE DEF f, u, c, w, a, b, D
<1>12. \A v \in W : a[v] \in Int /\ Cong(a[v], t[v] * u[v])
  <2> SUFFICES ASSUME NEW v \in W PROVE a[v] \in Int /\ Cong(a[v], t[v] * u[v])
    OBVIOUS
  <2>1. t[v] \in Int /\ u[v] \in Int
    BY <1>0, <1>8
  <2>2. t[v] * u[v] \in Int
    BY <2>1
  <2> QED  BY <1>8, <2>2 DEF Cong
<1>13. \A j \in D : b[j] \in Int /\ Cong(b[j], c[j] * w[j])
  <2> SUFFICES ASSUME NEW j \in D PROVE b[j] \in Int /\ Cong(b[j], c[j] * w[j])
    OBVIOUS
  <2>1. c[j] \in Int /\ w[j] \in Int
    BY <1>4, <1>6
  <2>2. b[j] \in Int /\ Cong(b[j], w[j] * c[j])
    BY <1>9, <2>1, MulType, MulCong
  <2>3. w[j] * c[j] = c[j] * w[j]
    BY <2>1
  <2> QED  BY <2>2, <2>3
<1>14. \A v \in W, j \in D : f[v][j] \in Int
  BY <1>3
<1>15. \A j \in D : c[j] \in Int
  BY <1>4
<1>16. DOMAIN a = W /\ DOMAIN b = D
  BY <1>10
<1>17. Total(a) = Total(b)
  <2>1. BothWays(W, D, f, u, t, c, w, a, b)
    BY <1>0, <1>1, <1>5, <1>7, <1>12, <1>13, <1>14, <1>15, <1>16, Zenon DEF BothWays
  <2> QED  BY <2>1, ExchangeTotals
<1>18. a = ColumnsAt(d, W, t, M, x) /\ w = RowsOf(d, W, t, M)
  BY DEF a, w, D, ColumnsAt, RowsOf
<1> QED  BY <1>11, <1>17, <1>18

\* The powers of x, times k, are interpolated from the powers on the larger domain, times g.
Carries(d, e, g, x, k) ==
  \A i \in 0 .. 2 ^ d - 1 :
    Total([j \in 0 .. 2 ^ e - 1 |-> Mul(Mul(Pow(Gen(e), j * i), g[j]), Lag(e, j, x))])
      = Mul(Pow(x, i), k)

\* What a domain of more points than the degree interpolates for every power of x, it
\* interpolates for a polynomial: g is the other factor, with the value k at x.
LEMMA Extend ==
  ASSUME NEW d \in Nat, NEW e \in Nat, e <= logRoots, d <= logRoots, NEW x \in Int, NEW k \in Int,
         NEW y \in [0 .. 2 ^ d - 1 -> Field],
         NEW g, \A j \in 0 .. 2 ^ e - 1 : g[j] \in Int,
         Carries(d, e, g, x, k)
  PROVE  Total([j \in 0 .. 2 ^ e - 1 |->
                  Mul(Mul(Poly(d, y, Pow(Gen(e), j)), g[j]), Lag(e, j, x))])
           = Mul(Poly(d, y, x), k)
<1> DEFINE J == 0 .. 2 ^ e - 1
           I == 0 .. 2 ^ d - 1
           P(j) == Poly(d, y, Pow(Gen(e), j))
           f == [j \in J |-> [i \in I |-> Mul(Pow(Gen(e), j * i), g[j])]]
           u == [j \in J |-> Mul(P(j), g[j])]
           v == [j \in J |-> Lag(e, j, x)]
           c == [i \in I |-> InverseDFT(y)[i]]
           w == [i \in I |-> Mul(Pow(x, i), k)]
           a == [j \in J |-> Mul(Mul(P(j), g[j]), Lag(e, j, x))]
           b == [i \in I |-> Mul(c[i], w[i])]
<1>1. IsFiniteSet(J) /\ IsFiniteSet(I) /\ J \subseteq Nat /\ I \subseteq Nat
  BY TwoExp, FS_Interval
<1>2. \A j \in J : v[j] = Lag(e, j, x) /\ v[j] \in Int
  BY LagIs
<1>3. \A i \in I : c[i] = InverseDFT(y)[i] /\ c[i] \in Int
  BY InverseByKernel
<1>4. \A j \in J, i \in I : /\ Pow(Gen(e), j * i) \in Int /\ Pow(Gen(e), j) \in Int
                            /\ Pow(Pow(Gen(e), j), i) = Pow(Gen(e), j * i)
  <2> SUFFICES ASSUME NEW j \in J, NEW i \in I
               PROVE  /\ Pow(Gen(e), j * i) \in Int /\ Pow(Gen(e), j) \in Int
                      /\ Pow(Pow(Gen(e), j), i) = Pow(Gen(e), j * i)
    OBVIOUS
  <2>1. j \in Nat /\ i \in Nat
    BY <1>1
  <2> HIDE DEF J, I, P, f, u, v, c, w, a, b
  <2> QED  BY <2>1, PowerOfRoot, ZenonT(60)
<1>5. \A j \in J, i \in I : f[j][i] = Mul(Pow(Gen(e), j * i), g[j]) /\ f[j][i] \in Int
  BY <1>4, MulType
<1>6. \A j \in J : P(j) \in Int /\ Cong(P(j), Sum([i \in I |-> c[i] * Pow(Gen(e), j * i)], I))
  <2> SUFFICES ASSUME NEW j \in J
               PROVE  P(j) \in Int /\ Cong(P(j), Sum([i \in I |-> c[i] * Pow(Gen(e), j * i)], I))
    OBVIOUS
  <2> DEFINE z == Pow(Gen(e), j)
  <2>1. z \in Int
    BY <1>1, PowerOfRoot
  <2>2. /\ Poly(d, y, z) \in Int
        /\ Cong(Poly(d, y, z), Sum([i \in I |-> InverseDFT(y)[i] * Pow(z, i)], I))
    <3> HIDE DEF z
    <3> QED  BY <2>1, PolyIs
  <2>3. [i \in I |-> InverseDFT(y)[i] * Pow(z, i)] = [i \in I |-> c[i] * Pow(Gen(e), j * i)]
    BY <1>4
  <2> QED  BY <2>2, <2>3
<1>7. \A j \in J : u[j] = Mul(P(j), g[j]) /\ u[j] \in Int
  BY <1>6, MulType
<1>8. \A i \in I : w[i] = Mul(Pow(x, i), k) /\ w[i] \in Int /\ Pow(x, i) \in Int
  BY <1>1, PowFacts, MulType
<1>9. \A j \in J : a[j] = Mul(u[j], v[j])
  OBVIOUS
<1>10. \A i \in I : b[i] = Mul(c[i], w[i])
  OBVIOUS
<1>11. DOMAIN a = J /\ DOMAIN b = I
  OBVIOUS
<1>12. \A i \in I : w[i] = Total([j \in J |-> Mul(f[j][i], v[j])])
  <2> SUFFICES ASSUME NEW i \in I PROVE w[i] = Total([j \in J |-> Mul(f[j][i], v[j])])
    OBVIOUS
  <2>1. Total([j \in J |-> Mul(Mul(Pow(Gen(e), j * i), g[j]), Lag(e, j, x))]) = Mul(Pow(x, i), k)
    BY DEF Carries
  <2>2. [j \in J |-> Mul(Mul(Pow(Gen(e), j * i), g[j]), Lag(e, j, x))]
          = [j \in J |-> Mul(f[j][i], v[j])]
    OBVIOUS
  <2> QED  BY <1>8, <2>1, <2>2
<1>13. Poly(d, y, x) = Total([i \in I |-> Mul(c[i], Pow(x, i))])
  BY DEF Poly
<1>14. \A j \in J : g[j] \in Int
  OBVIOUS
<1>15. a = [j \in 0 .. 2 ^ e - 1 |->
                  Mul(Mul(Poly(d, y, Pow(Gen(e), j)), g[j]), Lag(e, j, x))]
  OBVIOUS
<1> HIDE DEF f, u, v, c, w, a, b, J, I, P
<1>16. RowSums(u, c, f, J, I)
  <2> SUFFICES ASSUME NEW j \in J
               PROVE  u[j] \in Int /\ Cong(u[j], Sum([i \in I |-> c[i] * f[j][i]], I))
    BY DEF RowSums
  <2> DEFINE h == [i \in I |-> c[i] * Pow(Gen(e), j * i)]
             l == [i \in I |-> g[j] * h[i]]
             m == [i \in I |-> c[i] * f[j][i]]
  <2>1. g[j] \in Int /\ P(j) \in Int /\ Cong(P(j), Sum(h, I))
    BY <1>6, <1>14
  <2>2. \A i \in I : h[i] \in Int /\ l[i] \in Int /\ m[i] \in Int /\ Cong(l[i], m[i])
    <3> SUFFICES ASSUME NEW i \in I
                 PROVE  h[i] \in Int /\ l[i] \in Int /\ m[i] \in Int /\ Cong(l[i], m[i])
      OBVIOUS
    <3> DEFINE q == Pow(Gen(e), j * i)
    <3>1. c[i] \in Int /\ q \in Int /\ f[j][i] \in Int /\ f[j][i] = Mul(q, g[j])
      BY <1>3, <1>4, <1>5
    <3>2. h[i] = c[i] * q /\ l[i] = g[j] * (c[i] * q) /\ m[i] = c[i] * f[j][i]
      OBVIOUS
    <3> HIDE DEF q, h, l, m
    <3>3. Cong(f[j][i], q * g[j]) /\ q * g[j] \in Int
      <4>1. q * g[j] \in Int
        BY <2>1, <3>1
      <4> QED  BY <2>1, <3>1, <4>1, MulCong, Zenon
    <3>4. Cong(c[i] * f[j][i], c[i] * (q * g[j]))
      BY <3>1, <3>3, CongTimes
    <3>5. \A p, r, s \in Int : /\ p * (r * s) = s * (p * r)
                               /\ s * (p * r) \in Int /\ p * r \in Int
      OBVIOUS
    <3>6. c[i] * (q * g[j]) = g[j] * (c[i] * q) /\ g[j] * (c[i] * q) \in Int /\ c[i] * q \in Int
          /\ c[i] * f[j][i] \in Int
      BY <2>1, <3>1, <3>5, SMTT(30)
    <3> QED  BY <3>2, <3>4, <3>6, Zenon DEF Cong
  <2> HIDE DEF h, m
  <2>3. Sum(l, I) = g[j] * Sum(h, I) /\ Sum(h, I) \in Int
    BY <1>1, <2>1, <2>2, SumTimes, SumType
  <2> HIDE DEF l
  <2>4. Cong(Sum(l, I), Sum(m, I))
    BY <1>1, <2>2, SumCong
  <2>5. Cong(P(j) * g[j], Sum(h, I) * g[j]) /\ Sum(h, I) * g[j] = g[j] * Sum(h, I)
    BY <2>1, <2>3, CongTimes
  <2>6. u[j] \in Int /\ Cong(u[j], P(j) * g[j])
    BY <1>7, <2>1, MulCong
  <2>7. Cong(u[j], Sum(m, I))
    BY <2>3, <2>4, <2>5, <2>6, Zenon DEF Cong
  <2> QED  BY <2>6, <2>7 DEF m
<1>17. ColumnSums(w, v, f, J, I)
  <2> SUFFICES ASSUME NEW i \in I
               PROVE  w[i] \in Int /\ Cong(w[i], Sum([j \in J |-> v[j] * f[j][i]], J))
    BY DEF ColumnSums
  <2> DEFINE h == [j \in J |-> Mul(f[j][i], v[j])]
             m == [j \in J |-> v[j] * f[j][i]]
  <2>1. \A j \in J : h[j] \in Int /\ m[j] \in Int /\ Cong(h[j], m[j])
    <3> SUFFICES ASSUME NEW j \in J PROVE h[j] \in Int /\ m[j] \in Int /\ Cong(h[j], m[j])
      OBVIOUS
    <3>1. f[j][i] \in Int /\ v[j] \in Int
      BY <1>2, <1>5
    <3>2. f[j][i] * v[j] = v[j] * f[j][i] /\ v[j] * f[j][i] \in Int
      BY <3>1
    <3> QED  BY <3>1, <3>2, MulType, MulCong
  <2>2. w[i] = Total(h) /\ DOMAIN h = J
    BY <1>12
  <2> HIDE DEF h, m
  <2>3. Total(h) \in Int /\ Cong(Total(h), Sum(m, J))
    BY <1>1, <2>1, <2>2, TotalOf
  <2> QED  BY <2>2, <2>3 DEF m
<1>18. \A j \in J : a[j] \in Int /\ Cong(a[j], v[j] * u[j])
  <2> SUFFICES ASSUME NEW j \in J PROVE a[j] \in Int /\ Cong(a[j], v[j] * u[j])
    OBVIOUS
  <2>1. u[j] \in Int /\ v[j] \in Int
    BY <1>2, <1>7
  <2>2. a[j] \in Int /\ Cong(a[j], u[j] * v[j])
    BY <1>9, <2>1, MulType, MulCong
  <2>3. u[j] * v[j] = v[j] * u[j]
    BY <2>1
  <2> QED  BY <2>2, <2>3
<1>19. \A i \in I : b[i] \in Int /\ Cong(b[i], c[i] * w[i])
  BY <1>3, <1>8, <1>10, MulType, MulCong
<1>20. /\ \A j \in J, i \in I : f[j][i] \in Int
       /\ \A i \in I : c[i] \in Int
       /\ \A j \in J : v[j] \in Int
  BY <1>2, <1>3, <1>5
<1>21. Total(a) = Total(b)
  <2>1. BothWays(J, I, f, u, v, c, w, a, b)
    BY <1>1, <1>11, <1>16, <1>17, <1>18, <1>19, <1>20, Zenon DEF BothWays
  <2> QED  BY <2>1, ExchangeTotals
<1>22. Total(b) = Mul(Poly(d, y, x), k)
  <2> DEFINE h == [i \in I |-> Mul(c[i], Pow(x, i))]
  <2>1. \A i \in I : h[i] \in Int /\ b[i] \in Int /\ Cong(b[i], k * h[i])
    <3> SUFFICES ASSUME NEW i \in I PROVE h[i] \in Int /\ b[i] \in Int /\ Cong(b[i], k * h[i])
      OBVIOUS
    <3>1. c[i] \in Int /\ Pow(x, i) \in Int /\ b[i] = Mul(c[i], Mul(Pow(x, i), k))
      BY <1>3, <1>8, <1>10
    <3>2. h[i] = Mul(c[i], Pow(x, i)) /\ b[i] \in Int
      BY <1>19
    <3> HIDE DEF h
    <3>3. h[i] \in Int
      BY <3>1, <3>2, MulType
    <3>4. Cong(Mul(c[i], Mul(Pow(x, i), k)), k * Mul(c[i], Pow(x, i)))
      BY <3>1, FactorOut
    <3> QED  BY <3>1, <3>2, <3>3, <3>4
  <2>2. DOMAIN h = I /\ Poly(d, y, x) = Total(h)
    BY <1>13
  <2> HIDE DEF h
  <2>3. Total(b) = Mul(k, Total(h))
    <3>1. Multiples(I, h, b, k)
      BY <1>1, <1>11, <2>1, <2>2, Zenon DEF Multiples
    <3> QED  BY <3>1, TotalOfMultiples
  <2>4. Total(h) \in Int
    BY <1>1, <2>1, <2>2, TotalIs
  <2> QED  BY <2>2, <2>3, <2>4, MulCommutes
<1> QED  BY <1>15, <1>21, <1>22

\* Below the degree, the powers of x carry over to the domain of twice the size.
LEMMA PowersCarry ==
  ASSUME NEW d \in Nat, d + 1 <= logRoots, NEW m \in 0 .. 2 ^ d - 1, NEW x \in Int
  PROVE  /\ Carries(d, d + 1, [j \in 0 .. 2 ^ (d + 1) - 1 |-> Pow(Gen(d + 1), j * m)], x, Pow(x, m))
         /\ \A j \in 0 .. 2 ^ (d + 1) - 1 : Pow(Gen(d + 1), j * m) \in Int
<1> DEFINE e == d + 1
           J == 0 .. 2 ^ e - 1
           I == 0 .. 2 ^ d - 1
           h == Gen(e)
           g == [j \in J |-> Pow(h, j * m)]
<1>1. e \in Nat /\ e <= logRoots /\ J \subseteq Nat /\ I \subseteq Nat /\ m \in Nat /\ 2 ^ d \in Nat
      /\ 2 ^ e = 2 ^ d + 2 ^ d
  BY TwoExp
<1>2. h \in Int
  BY <1>1, GenFacts
<1>3. \A j \in J : Pow(h, j * m) \in Int
  <2> SUFFICES ASSUME NEW j \in J PROVE Pow(h, j * m) \in Int
    OBVIOUS
  <2>1. j * m \in Nat
    BY <1>1
  <2> QED  BY <1>2, <2>1, PowFacts
<1>4. ASSUME NEW i \in I
      PROVE  Total([j \in J |-> Mul(Mul(Pow(h, j * i), g[j]), Lag(e, j, x))]) = Mul(Pow(x, i), Pow(x, m))
  <2> DEFINE s == i + m
  <2>1. s \in 0 .. 2 ^ e - 1 /\ i \in Nat
    BY <1>1
  <2>2. Pow(x, s) = Mul(Pow(x, i), Pow(x, m))
    BY <1>1, <2>1, PowFacts
  <2>3. \A j \in J : Mul(Pow(h, j * i), g[j]) = Pow(h, j * s)
    <3> SUFFICES ASSUME NEW j \in J PROVE Mul(Pow(h, j * i), Pow(h, j * m)) = Pow(h, j * s)
      OBVIOUS
    <3>1. j * i \in Nat /\ j * m \in Nat /\ j * s = (j * i) + (j * m)
      BY <1>1, <2>1
    <3> QED  BY <1>2, <3>1, PowFacts
  <2> HIDE DEF s, g
  <2>4. Total([j \in J |-> Mul(Pow(h, j * s), Lag(e, j, x))]) = Pow(x, s)
    <3> HIDE DEF e
    <3> QED  BY <1>1, <2>1, Interpolation
  <2>5. [j \in J |-> Mul(Mul(Pow(h, j * i), g[j]), Lag(e, j, x))]
          = [j \in J |-> Mul(Pow(h, j * s), Lag(e, j, x))]
    BY <2>3
  <2> QED  BY <2>2, <2>4, <2>5
<1>5. Carries(d, e, g, x, Pow(x, m))
  BY <1>4 DEF Carries
<1> QED  BY <1>3, <1>5

\* So does a polynomial.
LEMMA PolyCarries ==
  ASSUME NEW d \in Nat, d + 1 <= logRoots, NEW z \in [0 .. 2 ^ d - 1 -> Field], NEW x \in Int
  PROVE  /\ Carries(d, d + 1, [j \in 0 .. 2 ^ (d + 1) - 1 |-> Poly(d, z, Pow(Gen(d + 1), j))],
                    x, Poly(d, z, x))
         /\ \A j \in 0 .. 2 ^ (d + 1) - 1 : /\ Poly(d, z, Pow(Gen(d + 1), j)) \in Field
                                            /\ Poly(d, z, Pow(Gen(d + 1), j)) \in Int
                                            /\ Pow(Gen(d + 1), j) \in Int
<1> DEFINE e == d + 1
           J == 0 .. 2 ^ e - 1
           I == 0 .. 2 ^ d - 1
           h == Gen(e)
           p == [j \in J |-> Poly(d, z, Pow(h, j))]
<1>1. e \in Nat /\ e <= logRoots /\ d <= logRoots /\ J \subseteq Nat /\ I \subseteq Nat
  <2>1. logRoots \in Nat
    BY LogRoots
  <2> QED  BY <2>1
<1>2. h \in Int
  BY <1>1, GenFacts
<1>3. \A j \in J : Pow(h, j) \in Int
  BY <1>1, <1>2, PowFacts
<1>4. \A j \in J : Poly(d, z, Pow(h, j)) \in Field /\ Poly(d, z, Pow(h, j)) \in Int
  <2> SUFFICES ASSUME NEW j \in J
               PROVE  Poly(d, z, Pow(h, j)) \in Field /\ Poly(d, z, Pow(h, j)) \in Int
    OBVIOUS
  <2> DEFINE w == Pow(h, j)
  <2>1. w \in Int
    BY <1>3
  <2> HIDE DEF w, h
  <2> QED  BY <1>1, <2>1, PolyIs DEF w
<1>5. ASSUME NEW m \in I
      PROVE  Total([j \in J |-> Mul(Mul(Pow(h, j * m), p[j]), Lag(e, j, x))]) = Mul(Pow(x, m), Poly(d, z, x))
  <2> DEFINE g == [j \in J |-> Pow(h, j * m)]
  <2>1. Carries(d, e, g, x, Pow(x, m)) /\ \A j \in J : g[j] \in Int
    BY <1>1, PowersCarry
  <2>2. Pow(x, m) \in Int
    BY <1>1, PowFacts
  <2>3. \A j \in J : Mul(p[j], g[j]) = Mul(Pow(h, j * m), p[j])
    BY <1>4, <2>1, MulCommutes
  <2>4. \A j \in J : p[j] = Poly(d, z, Pow(Gen(e), j))
    OBVIOUS
  <2> HIDE DEF g, p, e, h
  <2>5. Total([j \in J |-> Mul(Mul(Poly(d, z, Pow(Gen(e), j)), g[j]), Lag(e, j, x))])
          = Mul(Poly(d, z, x), Pow(x, m))
    BY <1>1, <2>1, <2>2, Extend
  <2>6. [j \in J |-> Mul(Mul(Poly(d, z, Pow(Gen(e), j)), g[j]), Lag(e, j, x))]
          = [j \in J |-> Mul(Mul(Pow(h, j * m), p[j]), Lag(e, j, x))]
    BY <2>3, <2>4
  <2>7. Poly(d, z, x) \in Int
    BY <1>1, PolyIs
  <2> QED  BY <2>2, <2>5, <2>6, <2>7, MulCommutes
<1>6. Carries(d, e, p, x, Poly(d, z, x))
  BY <1>5 DEF Carries
<1> QED  BY <1>3, <1>4, <1>6

\* The product of two polynomials, and a polynomial, from the domain of twice the size.
LEMMA PolyTimesPoly ==
  ASSUME NEW d \in Nat, d + 1 <= logRoots, NEW x \in Int,
         NEW y \in [0 .. 2 ^ d - 1 -> Field], NEW z \in [0 .. 2 ^ d - 1 -> Field]
  PROVE  Total([j \in 0 .. 2 ^ (d + 1) - 1 |->
                  Mul(Mul(Poly(d, y, Pow(Gen(d + 1), j)), Poly(d, z, Pow(Gen(d + 1), j))),
                      Lag(d + 1, j, x))])
           = Mul(Poly(d, y, x), Poly(d, z, x))
<1> DEFINE e == d + 1
           J == 0 .. 2 ^ e - 1
           g == [j \in J |-> Poly(d, z, Pow(Gen(e), j))]
<1>1. e \in Nat /\ e <= logRoots /\ d <= logRoots
  <2>1. logRoots \in Nat
    BY LogRoots
  <2> QED  BY <2>1
<1>2. Carries(d, e, g, x, Poly(d, z, x)) /\ \A j \in J : g[j] \in Int
  BY PolyCarries
<1>3. Poly(d, z, x) \in Int
  BY <1>1, PolyIs
<1>4. \A j \in J : g[j] = Poly(d, z, Pow(Gen(e), j))
  OBVIOUS
<1> HIDE DEF g, e
<1>5. Total([j \in J |-> Mul(Mul(Poly(d, y, Pow(Gen(e), j)), g[j]), Lag(e, j, x))])
        = Mul(Poly(d, y, x), Poly(d, z, x))
  <2> DEFINE k == Poly(d, z, x)
  <2>1. Carries(d, e, g, x, k) /\ k \in Int /\ \A j \in J : g[j] \in Int
    BY <1>2, <1>3
  <2> HIDE DEF k
  <2>2. Total([j \in J |-> Mul(Mul(Poly(d, y, Pow(Gen(e), j)), g[j]), Lag(e, j, x))])
          = Mul(Poly(d, y, x), k)
    BY <1>1, <2>1, Extend
  <2> QED  BY <2>2 DEF k
<1>6. [j \in J |-> Mul(Mul(Poly(d, y, Pow(Gen(e), j)), g[j]), Lag(e, j, x))]
        = [j \in J |-> Mul(Mul(Poly(d, y, Pow(Gen(e), j)), Poly(d, z, Pow(Gen(e), j))), Lag(e, j, x))]
  BY <1>4
<1> QED  BY <1>5, <1>6 DEF e

\* The polynomial through twice as many values of a polynomial is the polynomial.
LEMMA PolyAgain ==
  ASSUME NEW d \in Nat, d + 1 <= logRoots, NEW x \in Int, NEW y \in [0 .. 2 ^ d - 1 -> Field]
  PROVE  Total([j \in 0 .. 2 ^ (d + 1) - 1 |->
                  Mul(Poly(d, y, Pow(Gen(d + 1), j)), Lag(d + 1, j, x))])
           = Poly(d, y, x)
<1> DEFINE e == d + 1
           J == 0 .. 2 ^ e - 1
           g == [j \in J |-> Pow(Gen(e), j * 0)]
<1>1. e \in Nat /\ e <= logRoots /\ d <= logRoots /\ J \subseteq Nat /\ 0 \in 0 .. 2 ^ d - 1
  <2>1. logRoots \in Nat /\ 2 ^ d \in Nat \ {0}
    BY LogRoots, TwoExp
  <2> QED  BY <2>1
<1>2. Carries(d, e, g, x, Pow(x, 0)) /\ \A j \in J : g[j] \in Int
  BY <1>1, PowersCarry
<1>3. Pow(x, 0) = 1
  BY PowFacts
<1>4. \A j \in J : g[j] = 1
  <2> SUFFICES ASSUME NEW j \in J PROVE Pow(Gen(e), j * 0) = 1
    OBVIOUS
  <2>1. j * 0 = 0 /\ Gen(e) \in Int
    BY <1>1, GenFacts
  <2> QED  BY <2>1, PowFacts
<1>5. Poly(d, y, x) \in Field /\ Poly(d, y, x) \in Int
  BY <1>1, PolyIs
<1>6. \A j \in J : Poly(d, y, Pow(Gen(e), j)) \in Field
  BY PolyCarries
<1> HIDE DEF g, e
<1>7. Total([j \in J |-> Mul(Mul(Poly(d, y, Pow(Gen(e), j)), g[j]), Lag(e, j, x))])
        = Mul(Poly(d, y, x), 1)
  BY <1>1, <1>2, <1>3, Extend
<1>8. \A j \in J : Mul(Poly(d, y, Pow(Gen(e), j)), g[j]) = Poly(d, y, Pow(Gen(e), j))
  BY <1>4, <1>6, MulOne
<1>9. [j \in J |-> Mul(Mul(Poly(d, y, Pow(Gen(e), j)), g[j]), Lag(e, j, x))]
        = [j \in J |-> Mul(Poly(d, y, Pow(Gen(e), j)), Lag(e, j, x))]
  BY <1>8
<1> QED  BY <1>5, <1>7, <1>9, MulOne DEF e

\* The odd half of the domain of twice the size: the coefficients times the powers of its
\* generator, transformed, are the values there.
LEMMA OddValues ==
  ASSUME NEW d \in Nat, d + 1 <= logRoots, NEW y \in [0 .. 2 ^ d - 1 -> Field], NEW z,
         z = [i \in 0 .. 2 ^ d - 1 |-> Mul(InverseDFT(y)[i], root(d + 1, i))],
         NEW k \in 0 .. 2 ^ d - 1
  PROVE  /\ z \in [0 .. 2 ^ d - 1 -> Field]
         /\ DFT(z)[k] = Poly(d, y, Pow(Gen(d + 1), (2 * k) + 1))
<1> DEFINE e == d + 1
           D == 0 .. 2 ^ d - 1
           h == Gen(e)
           x == Pow(h, (2 * k) + 1)
           c == [i \in D |-> InverseDFT(y)[i]]
<1>1. /\ e \in Nat /\ e <= logRoots /\ d <= logRoots /\ d < logRoots /\ D \subseteq Nat
      /\ D \subseteq 0 .. 2 ^ e - 1 /\ k \in Nat /\ (2 * k) + 1 \in Nat
  <2>1. logRoots \in Nat /\ 2 ^ d \in Nat /\ 2 ^ e = 2 ^ d + 2 ^ d
    BY LogRoots, TwoExp
  <2> QED  BY <2>1
<1>2. h \in Int /\ Mul(h, h) = Gen(d) /\ Pow(h, 2) = Gen(d)
  <2>1. h \in Int
    BY <1>1, GenFacts
  <2>2. Mul(h, h) = Gen(d)
    BY <1>1, GenFacts
  <2> QED  BY <2>1, <2>2, PowSquare
<1>3. \A i \in D : c[i] \in Int /\ c[i] = InverseDFT(y)[i]
  BY <1>1, InverseByKernel
<1>4. \A i \in D : z[i] = Mul(c[i], Pow(h, i)) /\ z[i] \in Int /\ z[i] \in Field
                   /\ Pow(h, i) \in Int
  <2> SUFFICES ASSUME NEW i \in D
               PROVE  /\ z[i] = Mul(c[i], Pow(h, i)) /\ z[i] \in Int /\ z[i] \in Field
                      /\ Pow(h, i) \in Int
    OBVIOUS
  <2>1. i \in 0 .. 2 ^ e - 1 /\ i \in Nat
    BY <1>1
  <2>2. root(e, i) = Pow(h, i)
    <3> HIDE DEF e
    <3> QED  BY <1>1, <2>1, RootIs
  <2>3. Pow(h, i) \in Int
    BY <1>2, <2>1, PowFacts
  <2>4. z[i] = Mul(c[i], Pow(h, i))
    BY <2>2
  <2>5. Mul(c[i], Pow(h, i)) \in Field /\ Mul(c[i], Pow(h, i)) \in Int
    BY <1>3, <2>3, MulType
  <2> QED  BY <2>3, <2>4, <2>5
<1>5. z \in [D -> Field]
  BY <1>4
<1>6. \A i \in D : Mul(z[i], Pow(Gen(d), i * k)) = Mul(c[i], Pow(x, i))
  <2> SUFFICES ASSUME NEW i \in D PROVE Mul(z[i], Pow(Gen(d), i * k)) = Mul(c[i], Pow(x, i))
    OBVIOUS
  <2> DEFINE s == 2 * (i * k)
             t == ((2 * k) + 1) * i
  <2>1. /\ i \in Nat /\ i * k \in Nat /\ s \in Nat /\ t \in Nat /\ t = i + s
    BY <1>1
  <2>2. Pow(Gen(d), i * k) = Pow(h, s)
    <3>1. \A j \in Nat : Pow(Pow(h, 2), j) = Pow(h, 2 * j)
      BY <1>2, PowPow
    <3> QED  BY <1>2, <2>1, <3>1
  <2>3. Pow(x, i) = Pow(h, t)
    BY <1>1, <1>2, <2>1, PowPow
  <2> HIDE DEF s, t
  <2>4. Pow(h, t) = Mul(Pow(h, i), Pow(h, s)) /\ Pow(h, s) \in Int /\ Pow(h, i) \in Int
    BY <1>2, <2>1, PowFacts, ZenonT(60)
  <2>5. Mul(Mul(c[i], Pow(h, i)), Pow(h, s)) = Mul(c[i], Mul(Pow(h, i), Pow(h, s)))
    BY <1>3, <2>4, MulAssoc
  <2>6. z[i] = Mul(c[i], Pow(h, i))
    BY <1>4
  <2> HIDE DEF c, x, h
  <2> QED  BY <2>2, <2>3, <2>4, <2>5, <2>6
<1>7. DFT(z)[k] = Total(Terms(z, Gen(d), 2 ^ d, k))
  BY <1>1, <1>5, TransformsAre
<1>8. Terms(z, Gen(d), 2 ^ d, k) = [i \in D |-> Mul(z[i], Pow(Gen(d), i * k))]
  BY DEF Terms
<1>9. [i \in D |-> Mul(z[i], Pow(Gen(d), i * k))] = [i \in D |-> Mul(InverseDFT(y)[i], Pow(x, i))]
  <2> HIDE DEF x
  <2> QED  BY <1>3, <1>6
<1>10. Poly(d, y, x) = Total([i \in D |-> Mul(InverseDFT(y)[i], Pow(x, i))])
  BY DEF Poly
<1> HIDE DEF D
<1>11. DFT(z)[k] = Poly(d, y, x)
  BY <1>7, <1>8, <1>9, <1>10
<1> QED  BY <1>5, <1>11 DEF D

\* Where c is the product of a and b on the domain, the values of a * b - c on the odd half
\* of the domain of twice the size determine the difference everywhere: on the even half it
\* is zero.
OddProducts(d, a, b, c, x) ==
  [i \in 0 .. 2 ^ d - 1 |->
     Mul(Sub(Mul(Poly(d, a, Pow(Gen(d + 1), (2 * i) + 1)), Poly(d, b, Pow(Gen(d + 1), (2 * i) + 1))),
             Poly(d, c, Pow(Gen(d + 1), (2 * i) + 1))),
         Lag(d + 1, (2 * i) + 1, x))]

\* What the values at the odd points alone say of a product: those at the even points cancel.
LEMMA OddHalf ==
  ASSUME NEW d \in Nat, d + 1 <= logRoots, NEW x \in Int,
         NEW a \in [0 .. 2 ^ d - 1 -> Field], NEW b \in [0 .. 2 ^ d - 1 -> Field],
         NEW c \in [0 .. 2 ^ d - 1 -> Field],
         \A i \in 0 .. 2 ^ d - 1 : c[i] = Mul(a[i], b[i])
  PROVE  Total(OddProducts(d, a, b, c, x)) = Sub(Mul(Poly(d, a, x), Poly(d, b, x)), Poly(d, c, x))
<1> DEFINE e == d + 1
           n == 2 ^ d
           D == 0 .. n - 1
           J == 0 .. 2 * n - 1
           h == Gen(e)
           A(j) == Poly(d, a, Pow(h, j))
           B(j) == Poly(d, b, Pow(h, j))
           C(j) == Poly(d, c, Pow(h, j))
           L(j) == Lag(e, j, x)
           F == [j \in J |-> Mul(Mul(A(j), B(j)), L(j))]
           G == [j \in J |-> Mul(C(j), L(j))]
           H == [j \in J |-> Mul(Sub(Mul(A(j), B(j)), C(j)), L(j))]
           even == [i \in D |-> H[2 * i]]
           odd == OddProducts(d, a, b, c, x)
<1>1. /\ e \in Nat /\ e <= logRoots /\ d <= logRoots /\ d < logRoots /\ n \in Nat \ {0}
      /\ 2 ^ e = 2 * n
  <2>1. logRoots \in Nat /\ 2 ^ d \in Nat \ {0} /\ 2 ^ e = 2 ^ d + 2 ^ d
    BY LogRoots, TwoExp
  <2> QED  BY <2>1
<1>2. \A j \in J : A(j) \in Int /\ B(j) \in Int /\ C(j) \in Int /\ L(j) \in Int
  <2>1. \A j \in J : A(j) \in Int
    BY <1>1, PolyCarries
  <2>2. \A j \in J : B(j) \in Int
    BY <1>1, PolyCarries
  <2>3. \A j \in J : C(j) \in Int
    BY <1>1, PolyCarries
  <2>4. \A j \in J : L(j) \in Int
    BY <1>1, LagIs
  <2> QED  BY <2>1, <2>2, <2>3, <2>4
<1>3. Total(F) = Mul(Poly(d, a, x), Poly(d, b, x))
  BY <1>1, PolyTimesPoly, ZenonT(60)
<1>4. Total(G) = Poly(d, c, x)
  BY <1>1, PolyAgain
<1>5. \A i \in D : A(2 * i) = a[i] /\ B(2 * i) = b[i] /\ C(2 * i) = c[i]
  <2> SUFFICES ASSUME NEW i \in D PROVE A(2 * i) = a[i] /\ B(2 * i) = b[i] /\ C(2 * i) = c[i]
    OBVIOUS
  <2>1. h \in Int /\ Pow(h, 2) = Gen(d)
    <3>1. h \in Int /\ Mul(h, h) = Gen(d)
      BY <1>1, GenFacts
    <3> QED  BY <3>1, PowSquare
  <2>2. i \in Nat
    OBVIOUS
  <2>3. Pow(h, 2 * i) = Pow(Gen(d), i)
    <3>1. \A j \in Nat : Pow(Pow(h, 2), j) = Pow(h, 2 * j)
      BY <2>1, PowPow
    <3> QED  BY <2>1, <2>2, <3>1
  <2> QED  BY <1>1, <2>3, PolyAtRoot
<1>6. \A i \in D : 2 * i \in J /\ (2 * i) + 1 \in J
  BY <1>1
<1>7. \A i \in D : odd[i] = H[(2 * i) + 1]
  BY <1>6 DEF OddProducts
<1>8. DOMAIN odd = D /\ DOMAIN F = J /\ DOMAIN G = J /\ DOMAIN H = J
  BY DEF OddProducts
<1>9. \A i \in D : even[i] = Mul(Sub(Mul(A(2 * i), B(2 * i)), C(2 * i)), L(2 * i)) /\ L(2 * i) \in Int
  BY <1>2, <1>6
<1>10. \A j \in J : F[j] = Mul(Mul(A(j), B(j)), L(j)) /\ G[j] = Mul(C(j), L(j))
                    /\ H[j] = Mul(Sub(Mul(A(j), B(j)), C(j)), L(j))
  OBVIOUS
<1>11. \A i \in D : even[i] = H[2 * i]
  OBVIOUS
<1>15. DOMAIN even = D
  OBVIOUS
<1>16. \A i \in D : a[i] \in Int /\ b[i] \in Int /\ c[i] \in Field
  BY FieldResidue
<1>17. IsFiniteSet(J) /\ IsFiniteSet(D) /\ J = 0 .. 2 * n - 1 /\ D = 0 .. n - 1
  BY <1>1, FS_Interval
<1>18. \A i \in D : c[i] = Mul(a[i], b[i])
  OBVIOUS
<1> HIDE DEF A, B, C, L, F, G, H, even, odd, J, D, n, h
<1>12. \A j \in J : F[j] \in Int /\ G[j] \in Int /\ H[j] \in Int /\ Cong(H[j], F[j] - G[j])
  <2> SUFFICES ASSUME NEW j \in J
               PROVE  F[j] \in Int /\ G[j] \in Int /\ H[j] \in Int /\ Cong(H[j], F[j] - G[j])
    OBVIOUS
  <2> DEFINE p == Mul(A(j), B(j))
             q == C(j)
             l == L(j)
             s == Sub(p, q)
  <2>1. p \in Int /\ q \in Int /\ l \in Int
    BY <1>2, MulType
  <2>2. s \in Int /\ Cong(s, p - q) /\ p - q \in Int
    <3> HIDE DEF p, q
    <3>1. p - q \in Int
      BY <2>1
    <3> QED  BY <3>1, ResidueType, CongResidue DEF Sub
  <2>3. F[j] = Mul(p, l) /\ G[j] = Mul(q, l) /\ H[j] = Mul(s, l)
    BY <1>10
  <2> HIDE DEF p, q, l, s
  <2>4. /\ F[j] \in Int /\ G[j] \in Int /\ H[j] \in Int
        /\ Cong(F[j], p * l) /\ Cong(G[j], q * l) /\ Cong(H[j], s * l)
    BY <2>1, <2>2, <2>3, MulType, MulCong
  <2>5. Cong(s * l, (p - q) * l)
    BY <2>1, <2>2, CongTimes
  <2>6. p * l \in Int /\ q * l \in Int /\ (p - q) * l = (p * l) - (q * l)
    BY <2>1
  <2>7. Cong(F[j] - G[j], (p * l) - (q * l))
    BY <2>4, <2>6, CongSums
  <2> QED  BY <2>4, <2>5, <2>6, <2>7, Zenon DEF Cong
<1>13. Total(H) = Sub(Total(F), Total(G))
  <2>1. Differences(J, F, G, H)
    BY <1>8, <1>12, <1>17, Zenon DEF Differences
  <2> QED  BY <2>1, TotalOfDifferences
<1>14. \A i \in D : even[i] = 0
  <2> SUFFICES ASSUME NEW i \in D PROVE even[i] = 0
    OBVIOUS
  <2>1. c[i] \in Int /\ c[i] = Mul(a[i], b[i])
    BY <1>16, <1>18, FieldResidue
  <2>2. even[i] = Mul(Sub(c[i], c[i]), L(2 * i)) /\ L(2 * i) \in Int
    BY <1>5, <1>9, <2>1
  <2>3. c[i] - c[i] = 0 /\ 0 % Q = 0 /\ 0 * L(2 * i) = 0
    BY <2>1, <2>2, FieldResidue, FieldAssumption DEF Field
  <2> QED  BY <2>2, <2>3 DEF Sub, Mul
<1>19. Total(H) = Total(odd)
  <2>1. AreHalves(H, even, odd, n)
    BY <1>6, <1>7, <1>11, <1>12, <1>17 DEF AreHalves
  <2>2. Sum(H, J) = Sum(even, D) + Sum(odd, D)
    BY <1>1, <1>17, <2>1, SumHalves
  <2>3. Sum(even, D) = 0
    BY <1>14, <1>17, SumZero
  <2>4. \A i \in D : odd[i] \in Int
    BY <1>6, <1>7, <1>12
  <2>5. Total(odd) = Sum(odd, D) % Q /\ Sum(odd, D) \in Int
    BY <1>8, <1>17, <2>4, TotalIs
  <2>6. Total(H) = Sum(H, J) % Q
    BY <1>8, <1>12, <1>17, TotalIs
  <2> QED  BY <2>2, <2>3, <2>5, <2>6
<1> QED  BY <1>3, <1>4, <1>13, <1>19 DEF odd
================================================================================
