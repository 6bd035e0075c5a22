------------------------- MODULE CoefAccumulationProofs -------------------------
(***************************************************************************)
(* The inductive invariant of CoefAccumulation, and what follows from it   *)
(* for every number of workers, locks, coefficients and rows.              *)
(***************************************************************************)
EXTENDS CoefAccumulation, TLAPS

InCoefBody == {"exchange", "spin", "load", "store", "unlock"}
Holding    == {"load", "store", "unlock"}

\* A worker runs the body of the current loop, at an index of its range.
BodyOfPhase ==
  /\ phase = "zero" => todo \subseteq Rows
  /\ phase = "coefs" => todo \subseteq Coefs
  /\ phase = "product" => todo \subseteq Rows
  /\ phase = "done" => todo = {}
  /\ \A w \in Workers :
       /\ pc[w] = "zero" => phase = "zero" /\ item[w] \in Rows
       /\ pc[w] \in InCoefBody => phase = "coefs" /\ item[w] \in Coefs
       /\ pc[w] = "multiply" => phase = "product" /\ item[w] \in Rows

\* An index is claimed once.
ClaimedOnce ==
  /\ \A w \in Workers : pc[w] # "idle" => item[w] \notin todo
  /\ \A w, v \in Workers :
       w # v /\ pc[w] # "idle" /\ pc[v] # "idle" => item[w] # item[v]

\* A lock is held by at most one worker, and its word is 1 while it is held.
LockHeld ==
  /\ \A w \in Workers : pc[w] \in Holding => lockable[LockOf(item[w])] = 1
  /\ \A w, v \in Workers :
       w # v /\ pc[w] \in Holding /\ pc[v] \in Holding
         => LockOf(item[w]) # LockOf(item[v])

\* The row f.add read is still what the row holds when f.add writes it.
RowUnchanged ==
  \A w \in Workers : pc[w] = "store" => reg[w] = ab[CellOf(item[w])]

\* A row is zero as soon as it is neither waiting for its zeroing nor in it.
ZeroedRows ==
  phase = "zero" =>
    \A r \in Rows :
      r \in todo
      \/ (\E w \in Workers : pc[w] = "zero" /\ item[w] = r)
      \/ (ab[<<"a", r>>] = Zero /\ ab[<<"b", r>>] = Zero)

\* A row of a or b is the sum of the terms that have been added into it.
Partial(x) ==
  [i \in Coefs |-> IF CellOf(i) = x /\ i \notin Remaining THEN 1 ELSE 0]

PartialSums == phase # "zero" => \A x \in Cells : ab[x] = Partial(x)

\* A row of c is empty until it is multiplied, and the product after that.
Products ==
  \A r \in Rows :
    LET pending ==
          \/ phase \in {"zero", "coefs"}
          \/ phase = "product" /\
               (r \in todo \/ \E w \in Workers : pc[w] = "multiply" /\ item[w] = r)
    IN  c[r] = IF pending THEN << >> ELSE <<ab[<<"a", r>>], ab[<<"b", r>>]>>

IInv ==
  /\ TypeOK
  /\ BodyOfPhase
  /\ ClaimedOnce
  /\ LockHeld
  /\ RowUnchanged
  /\ ZeroedRows
  /\ PartialSums
  /\ Products

--------------------------------------------------------------------------------

LEMMA ZeroType == Zero \in Sums
BY DEF Zero, Sums

\* Adding a term keeps the other terms of a sum.
LEMMA AddTermType == \A x \in Sums, i \in Coefs : AddTerm(x, i) \in Sums
BY DEF AddTerm, Sums

LEMMA CellCases == \A x \in Cells : \E r \in Rows : x = <<"a", r>> \/ x = <<"b", r>>
BY DEF Cells

LEMMA CellOfType == \A i \in Coefs : CellOf(i) \in Cells
BY CoefsAssumption DEF CellOf, Cells

LEMMA LockOfType == \A i \in Coefs : LockOf(i) \in 0 .. NumLocks - 1
BY CoefsAssumption, LocksAssumption, CountsAssumption DEF LockOf, Rows

\* The program counters and the ranges of the three loops fit together.
LEMMA TypeInit == Init => TypeOK /\ BodyOfPhase
BY ZeroType, GarbageAssumption
   DEF Init, TypeOK, BodyOfPhase, PCs, InCoefBody

LEMMA ClaimPhase ==
  ASSUME TypeOK, BodyOfPhase, NEW w \in Workers, Claim(w)
  PROVE  /\ phase \in {"zero", "coefs", "product"}
         /\ FirstStep = IF phase = "zero" THEN "zero"
                        ELSE IF phase = "coefs" THEN "exchange" ELSE "multiply"
BY DEF TypeOK, BodyOfPhase, Claim, FirstStep

LEMMA TypeStep == TypeOK /\ BodyOfPhase /\ [Next]_vars => TypeOK' /\ BodyOfPhase'
<1> SUFFICES ASSUME TypeOK, BodyOfPhase, [Next]_vars PROVE TypeOK' /\ BodyOfPhase'
  OBVIOUS
<1> USE DEF TypeOK, BodyOfPhase, PCs, InCoefBody
<1>1. ASSUME NEW w \in Workers, Claim(w) PROVE TypeOK' /\ BodyOfPhase'
  <2>1. PICK i \in todo : item' = [item EXCEPT ![w] = i] /\ todo' = todo \ {i}
    BY <1>1 DEF Claim
  <2>2. i \in Nat
    BY <2>1 DEF Coefs, Rows
  <2>3. FirstStep \in PCs
    BY <1>1, ClaimPhase
  <2>4. TypeOK'
    BY <1>1, <2>1, <2>2, <2>3 DEF Claim
  <2>5. BodyOfPhase'
    BY <1>1, <2>1, ClaimPhase DEF Claim
  <2>6. QED
    BY <2>4, <2>5
<1>2. ASSUME NEW w \in Workers, ZeroRow(w) PROVE TypeOK' /\ BodyOfPhase'
  BY <1>2, ZeroType DEF ZeroRow, Cells
<1>3. ASSUME NEW w \in Workers, Exchange(w) PROVE TypeOK' /\ BodyOfPhase'
  BY <1>3 DEF Exchange
<1>4. ASSUME NEW w \in Workers, SpinExit(w) PROVE TypeOK' /\ BodyOfPhase'
  BY <1>4 DEF SpinExit
<1>5. ASSUME NEW w \in Workers, LoadRow(w) PROVE TypeOK' /\ BodyOfPhase'
  BY <1>5, CellOfType DEF LoadRow
<1>6. ASSUME NEW w \in Workers, StoreRow(w) PROVE TypeOK' /\ BodyOfPhase'
  BY <1>6, AddTermType DEF StoreRow
<1>7. ASSUME NEW w \in Workers, Unlock(w) PROVE TypeOK' /\ BodyOfPhase'
  BY <1>7 DEF Unlock
<1>8. ASSUME NEW w \in Workers, MultiplyRow(w) PROVE TypeOK' /\ BodyOfPhase'
  BY <1>8 DEF MultiplyRow, Cells
<1>9. CASE Join
  BY <1>9 DEF Join
<1>10. CASE UNCHANGED vars
  BY <1>10 DEF vars
<1>11. QED
  BY <1>1, <1>2, <1>3, <1>4, <1>5, <1>6, <1>7, <1>8, <1>9, <1>10
     DEF Next, Body, Terminated

\* An index is claimed once, in every loop.
LEMMA ClaimStep ==
  TypeOK /\ BodyOfPhase /\ ClaimedOnce /\ [Next]_vars => ClaimedOnce'
<1> SUFFICES ASSUME TypeOK, BodyOfPhase, ClaimedOnce, [Next]_vars PROVE ClaimedOnce'
  OBVIOUS
<1> USE DEF TypeOK, ClaimedOnce
<1>1. ASSUME NEW w \in Workers, Claim(w) PROVE ClaimedOnce'
  BY <1>1 DEF Claim
<1>2. ASSUME NEW w \in Workers, Body(w) PROVE ClaimedOnce'
  BY <1>2 DEF Body, ZeroRow, Exchange, SpinExit, LoadRow, StoreRow, Unlock, MultiplyRow
<1>3. CASE Join
  BY <1>3 DEF Join
<1>4. CASE UNCHANGED vars
  BY <1>4 DEF vars
<1>5. QED
  BY <1>1, <1>2, <1>3, <1>4 DEF Next, Terminated

\* The spinlock protocol: exchange(1) returning 0 makes the worker the only holder.
LEMMA LockStep ==
  TypeOK /\ BodyOfPhase /\ LockHeld /\ [Next]_vars => LockHeld'
<1> SUFFICES ASSUME TypeOK, BodyOfPhase, LockHeld, [Next]_vars PROVE LockHeld'
  OBVIOUS
<1> USE DEF TypeOK, LockHeld, Holding
<1>1. ASSUME NEW w \in Workers, Claim(w) PROVE LockHeld'
  BY <1>1, ClaimPhase, ZenonT(60) DEF Claim
<1>2. ASSUME NEW w \in Workers, Exchange(w) PROVE LockHeld'
  <2>1. LockOf(item[w]) \in 0 .. NumLocks - 1
    BY <1>2, LockOfType DEF Exchange, BodyOfPhase, InCoefBody
  <2>2. QED
    BY <1>2, <2>1 DEF Exchange, LockOf
<1>3. ASSUME NEW w \in Workers, Unlock(w) PROVE LockHeld'
  <2>1. LockOf(item[w]) \in 0 .. NumLocks - 1
    BY <1>3, LockOfType DEF Unlock, BodyOfPhase, InCoefBody
  <2>2. QED
    BY <1>3, <2>1 DEF Unlock, LockOf
<1>4. ASSUME NEW w \in Workers,
             ZeroRow(w) \/ SpinExit(w) \/ LoadRow(w) \/ StoreRow(w) \/ MultiplyRow(w)
      PROVE  LockHeld'
  <2>1. /\ item' = item /\ lockable' = lockable
        /\ \A v \in Workers : pc'[v] \in Holding => pc[v] \in Holding
    BY <1>4 DEF ZeroRow, SpinExit, LoadRow, StoreRow, MultiplyRow
  <2>2. QED
    BY <2>1 DEF LockOf
<1>5. CASE Join
  BY <1>5 DEF Join, LockOf
<1>6. CASE UNCHANGED vars
  BY <1>6 DEF vars, LockOf
<1>7. QED
  BY <1>1, <1>2, <1>3, <1>4, <1>5, <1>6 DEF Next, Body, Terminated

\* What f.add read does not change before it writes: every other writer of the
\* row would need the lock this worker holds.
LEMMA SameCellSameLock ==
  \A i, j \in Coefs : CellOf(i) = CellOf(j) => LockOf(i) = LockOf(j)
BY DEF CellOf, LockOf

LEMMA RowStep ==
  TypeOK /\ BodyOfPhase /\ LockHeld /\ RowUnchanged /\ [Next]_vars => RowUnchanged'
<1> SUFFICES ASSUME TypeOK, BodyOfPhase, LockHeld, RowUnchanged, [Next]_vars
             PROVE  RowUnchanged'
  OBVIOUS
<1> USE DEF TypeOK, RowUnchanged
<1>1. ASSUME NEW w \in Workers, Claim(w) PROVE RowUnchanged'
  BY <1>1, ClaimPhase DEF Claim
<1>2. ASSUME NEW w \in Workers, ZeroRow(w) PROVE RowUnchanged'
  BY <1>2 DEF ZeroRow, BodyOfPhase, InCoefBody
<1>3. ASSUME NEW w \in Workers, LoadRow(w) PROVE RowUnchanged'
  BY <1>3 DEF LoadRow
<1>4. ASSUME NEW w \in Workers, StoreRow(w) PROVE RowUnchanged'
  <2> SUFFICES ASSUME NEW v \in Workers, pc'[v] = "store"
               PROVE  reg'[v] = ab'[CellOf(item'[v])]
    OBVIOUS
  <2>1. v # w /\ pc[v] = "store" /\ item'[v] = item[v] /\ reg'[v] = reg[v]
    BY <1>4 DEF StoreRow
  <2>2. LockOf(item[w]) # LockOf(item[v])
    BY <1>4, <2>1 DEF StoreRow, LockHeld, Holding
  <2>3. CellOf(item[w]) # CellOf(item[v])
    BY <1>4, <2>1, <2>2, SameCellSameLock DEF StoreRow, BodyOfPhase, InCoefBody
  <2>4. CellOf(item[v]) \in Cells
    BY <2>1, CellOfType DEF BodyOfPhase, InCoefBody
  <2>5. QED
    BY <1>4, <2>1, <2>3, <2>4 DEF StoreRow
<1>5. ASSUME NEW w \in Workers,
             Exchange(w) \/ SpinExit(w) \/ Unlock(w) \/ MultiplyRow(w)
      PROVE  RowUnchanged'
  BY <1>5 DEF Exchange, SpinExit, Unlock, MultiplyRow
<1>6. CASE Join
  BY <1>6 DEF Join
<1>7. CASE UNCHANGED vars
  BY <1>7 DEF vars
<1>8. QED
  BY <1>1, <1>2, <1>3, <1>4, <1>5, <1>6, <1>7 DEF Next, Body, Terminated

\* Zeroing reaches every row before the coefficient loop starts.
LEMMA ZeroStep ==
  TypeOK /\ BodyOfPhase /\ ZeroedRows /\ [Next]_vars => ZeroedRows'
<1> SUFFICES ASSUME TypeOK, BodyOfPhase, ZeroedRows, [Next]_vars PROVE ZeroedRows'
  OBVIOUS
<1> USE DEF TypeOK, ZeroedRows
<1>1. ASSUME NEW w \in Workers, Claim(w) PROVE ZeroedRows'
  BY <1>1, ClaimPhase DEF Claim
<1>2. ASSUME NEW w \in Workers, ZeroRow(w) PROVE ZeroedRows'
  BY <1>2 DEF ZeroRow, Cells
<1>3. ASSUME NEW w \in Workers,
             \/ Exchange(w) \/ SpinExit(w) \/ LoadRow(w) \/ StoreRow(w)
             \/ Unlock(w) \/ MultiplyRow(w)
      PROVE  ZeroedRows'
  BY <1>3 DEF Exchange, SpinExit, LoadRow, StoreRow, Unlock, MultiplyRow,
              BodyOfPhase, InCoefBody
<1>4. CASE Join
  BY <1>4 DEF Join
<1>5. CASE UNCHANGED vars
  BY <1>5 DEF vars
<1>6. QED
  BY <1>1, <1>2, <1>3, <1>4, <1>5 DEF Next, Body, Terminated

\* Only StoreRow takes a coefficient out of the ones that remain to be added.
LEMMA RemainingSame ==
  ASSUME TypeOK, BodyOfPhase, NEW w \in Workers,
         \/ Claim(w) \/ ZeroRow(w) \/ Exchange(w) \/ SpinExit(w)
         \/ LoadRow(w) \/ Unlock(w) \/ MultiplyRow(w)
  PROVE  Remaining' = Remaining
<1> USE DEF TypeOK, BodyOfPhase, Remaining, InCoefBody
<1>1. CASE Claim(w)
  <2>1. PICK i \in todo : item' = [item EXCEPT ![w] = i] /\ todo' = todo \ {i}
    BY <1>1 DEF Claim
  <2>2. CASE phase = "coefs"
    BY <1>1, <2>1, <2>2, ClaimPhase DEF Claim
  <2>3. CASE phase # "coefs"
    BY <1>1, <2>3 DEF Claim
  <2>4. QED
    BY <2>2, <2>3
<1>2. CASE Exchange(w)
  BY <1>2 DEF Exchange
<1>3. CASE SpinExit(w)
  BY <1>3 DEF SpinExit
<1>4. CASE LoadRow(w)
  BY <1>4 DEF LoadRow
<1>5. CASE Unlock(w)
  BY <1>5 DEF Unlock
<1>6. CASE ZeroRow(w)
  BY <1>6 DEF ZeroRow
<1>7. CASE MultiplyRow(w)
  BY <1>7 DEF MultiplyRow
<1>8. QED
  BY <1>1, <1>2, <1>3, <1>4, <1>5, <1>6, <1>7

LEMMA RemainingStore ==
  ASSUME TypeOK, BodyOfPhase, ClaimedOnce, NEW w \in Workers, StoreRow(w)
  PROVE  /\ Remaining' = Remaining \ {item[w]}
         /\ item[w] \in Remaining
BY DEF TypeOK, BodyOfPhase, ClaimedOnce, Remaining, StoreRow, InCoefBody

\* Leaving the coefficient loop, nothing remains; entering it, everything does.
LEMMA RemainingJoin ==
  ASSUME TypeOK, BodyOfPhase, Join
  PROVE  Remaining' = Remaining
BY DEF TypeOK, BodyOfPhase, Remaining, Join

\* Every row is the sum of the terms added so far.
LEMMA SumStep ==
  TypeOK /\ BodyOfPhase /\ ClaimedOnce /\ RowUnchanged /\ ZeroedRows /\ PartialSums
    /\ [Next]_vars => PartialSums'
<1> SUFFICES ASSUME TypeOK, BodyOfPhase, ClaimedOnce, RowUnchanged, ZeroedRows,
                    PartialSums, [Next]_vars
             PROVE  PartialSums'
  OBVIOUS
<1>1. ASSUME NEW w \in Workers,
             \/ Claim(w) \/ Exchange(w) \/ SpinExit(w) \/ LoadRow(w)
             \/ Unlock(w) \/ MultiplyRow(w)
      PROVE  PartialSums'
  <2>1. Remaining' = Remaining
    BY <1>1, RemainingSame
  <2>2. ab' = ab /\ phase' = phase
    BY <1>1 DEF Claim, Exchange, SpinExit, LoadRow, Unlock, MultiplyRow
  <2>3. QED
    BY <2>1, <2>2 DEF PartialSums, Partial
<1>2. ASSUME NEW w \in Workers, ZeroRow(w) PROVE PartialSums'
  BY <1>2 DEF ZeroRow, BodyOfPhase, PartialSums
<1>3. ASSUME NEW w \in Workers, StoreRow(w) PROVE PartialSums'
  <2> DEFINE i == item[w]
  <2>1. /\ i \in Coefs /\ CellOf(i) \in Cells
        /\ phase = "coefs" /\ phase' = "coefs" /\ item' = item
    BY <1>3, CellOfType DEF StoreRow, BodyOfPhase, InCoefBody
  <2>2. Remaining' = Remaining \ {i} /\ i \in Remaining
    BY <1>3, RemainingStore
  <2>3. reg[w] = Partial(CellOf(i))
    BY <1>3, <2>1 DEF StoreRow, RowUnchanged, PartialSums
  <2>4. ab' = [ab EXCEPT ![CellOf(i)] = AddTerm(Partial(CellOf(i)), i)]
    BY <1>3, <2>3 DEF StoreRow
  <2>5. AddTerm(Partial(CellOf(i)), i) = Partial(CellOf(i))'
    <3>1. Partial(CellOf(i))[i] = 0
      BY <2>1, <2>2 DEF Partial
    <3>2. ASSUME NEW j \in Coefs
          PROVE  AddTerm(Partial(CellOf(i)), i)[j] = Partial(CellOf(i))'[j]
      BY <2>1, <2>2, <3>1 DEF AddTerm, Partial, CellOf
    <3>3. QED
      BY <3>2 DEF AddTerm, Partial
  <2>6. ASSUME NEW x \in Cells, x # CellOf(i) PROVE Partial(x)' = Partial(x)
    BY <2>2, <2>6 DEF Partial, CellOf
  <2>7. QED
    <3> SUFFICES ASSUME NEW x \in Cells PROVE ab'[x] = Partial(x)'
      BY DEF PartialSums
    <3>1. CASE x = CellOf(i)
      BY <2>1, <2>4, <2>5, <3>1 DEF TypeOK, CellOf
    <3>2. CASE x # CellOf(i)
      BY <2>1, <2>4, <2>6, <3>2 DEF PartialSums, TypeOK
    <3>3. QED
      BY <3>1, <3>2
<1>4. CASE Join
  <2>1. Remaining' = Remaining
    BY <1>4, RemainingJoin
  <2>2. CASE phase = "zero"
    <3>1. \A x \in Cells : ab'[x] = Zero
      BY <1>4, <2>2, CellCases DEF Join, ZeroedRows
    <3>2. Remaining = Coefs
      BY <2>2 DEF Remaining
    <3>3. \A x \in Cells : Partial(x)' = Zero
      BY <2>1, <3>2 DEF Partial, Zero
    <3>4. QED
      BY <3>1, <3>3 DEF PartialSums
  <2>3. CASE phase # "zero"
    BY <1>4, <2>1, <2>3 DEF Join, PartialSums, Partial
  <2>4. QED
    BY <2>2, <2>3
<1>5. CASE UNCHANGED vars
  BY <1>5 DEF vars, PartialSums, Partial, Remaining
<1>6. QED
  BY <1>1, <1>2, <1>3, <1>4, <1>5 DEF Next, Body, Terminated

\* A row of c is multiplied once, and from rows of a and b nobody writes any more.
LEMMA ProductStep ==
  TypeOK /\ BodyOfPhase /\ ClaimedOnce /\ Products /\ [Next]_vars => Products'
<1> SUFFICES ASSUME TypeOK, BodyOfPhase, ClaimedOnce, Products, [Next]_vars PROVE Products'
  OBVIOUS
<1> USE DEF TypeOK, BodyOfPhase, Products, InCoefBody
<1>1. ASSUME NEW w \in Workers, Claim(w) PROVE Products'
  <2>1. PICK i \in todo : item' = [item EXCEPT ![w] = i] /\ todo' = todo \ {i}
    BY <1>1 DEF Claim
  <2>2. QED
    BY <1>1, <2>1, ClaimPhase DEF Claim
<1>2. ASSUME NEW w \in Workers, ZeroRow(w) PROVE Products'
  BY <1>2 DEF ZeroRow
<1>3. ASSUME NEW w \in Workers, StoreRow(w) PROVE Products'
  BY <1>3 DEF StoreRow
<1>4. ASSUME NEW w \in Workers,
             Exchange(w) \/ SpinExit(w) \/ LoadRow(w) \/ Unlock(w)
      PROVE  Products'
  BY <1>4 DEF Exchange, SpinExit, LoadRow, Unlock
<1>5. ASSUME NEW w \in Workers, MultiplyRow(w) PROVE Products'
  <2>1. item[w] \in Rows /\ phase = "product"
    BY <1>5 DEF MultiplyRow
  <2>2. \A v \in Workers \ {w} : pc'[v] = pc[v]
    BY <1>5 DEF MultiplyRow
  <2>3. /\ c' = [c EXCEPT ![item[w]] = <<ab[<<"a", item[w]>>], ab[<<"b", item[w]>>]>>]
        /\ phase' = phase /\ todo' = todo /\ item' = item /\ ab' = ab /\ pc'[w] = "idle"
    BY <1>5 DEF MultiplyRow
  <2>4. item[w] \notin todo
    BY <1>5 DEF MultiplyRow, ClaimedOnce
  <2>5. \A v \in Workers \ {w} : pc[v] = "multiply" => item[v] # item[w]
    BY <1>5 DEF MultiplyRow, ClaimedOnce
  <2>6. ASSUME NEW r \in Rows, r # item[w]
        PROVE  (\E v \in Workers : pc'[v] = "multiply" /\ item'[v] = r)
               <=> (\E v \in Workers : pc[v] = "multiply" /\ item[v] = r)
    BY <2>2, <2>3, <2>6
  <2>7. ASSUME NEW r \in Rows, r # item[w] PROVE c'[r] = c[r]
    BY <2>3, <2>7
  <2>8. c'[item[w]] = <<ab[<<"a", item[w]>>], ab[<<"b", item[w]>>]>>
    BY <2>1, <2>3
  <2>9. ~ \E v \in Workers : pc'[v] = "multiply" /\ item'[v] = item[w]
    BY <2>2, <2>3, <2>5
  <2>10. QED
    <3> SUFFICES ASSUME NEW r \in Rows
                 PROVE  c'[r] = IF r \in todo \/ \E v \in Workers :
                                                  pc'[v] = "multiply" /\ item'[v] = r
                                  THEN << >> ELSE <<ab[<<"a", r>>], ab[<<"b", r>>]>>
      BY <2>1, <2>3
    <3>1. CASE r = item[w]
      BY <2>4, <2>8, <2>9, <3>1
    <3>2. CASE r # item[w]
      <4>1. c[r] = IF r \in todo \/ \E v \in Workers : pc[v] = "multiply" /\ item[v] = r
                     THEN << >> ELSE <<ab[<<"a", r>>], ab[<<"b", r>>]>>
        BY <2>1
      <4>2. /\ (\E v \in Workers : pc'[v] = "multiply" /\ item'[v] = r)
               <=> (\E v \in Workers : pc[v] = "multiply" /\ item[v] = r)
            /\ c'[r] = c[r]
        BY <2>6, <2>7, <3>2
      <4> HIDE DEF TypeOK, BodyOfPhase, Products
      <4>3. QED
        BY <4>1, <4>2
    <3>3. QED
      BY <3>1, <3>2
<1>6. CASE Join
  BY <1>6 DEF Join
<1>7. CASE UNCHANGED vars
  BY <1>7 DEF vars
<1>8. QED
  BY <1>1, <1>2, <1>3, <1>4, <1>5, <1>6, <1>7 DEF Next, Body, Terminated

LEMMA IInvInit == Init => IInv
<1> SUFFICES ASSUME Init PROVE IInv
  OBVIOUS
<1>1. TypeOK /\ BodyOfPhase
  BY TypeInit
<1>2. ClaimedOnce /\ LockHeld /\ RowUnchanged /\ ZeroedRows /\ PartialSums /\ Products
  BY DEF Init, ClaimedOnce, LockHeld, RowUnchanged, ZeroedRows, PartialSums, Products,
         Holding
<1>3. QED
  BY <1>1, <1>2 DEF IInv

LEMMA IInvStep == IInv /\ [Next]_vars => IInv'
BY TypeStep, ClaimStep, LockStep, RowStep, ZeroStep, SumStep, ProductStep DEF IInv

\* The inductive invariant holds of every execution.
THEOREM Invariance == Spec => []IInv
BY IInvInit, IInvStep, PTL DEF Spec

\* Type correctness of the three loops.
THEOREM TypeCorrect == Spec => []TypeOK
<1>1. IInv => TypeOK
  BY DEF IInv
<1>2. QED
  BY <1>1, Invariance, PTL

\* The spinlocks keep every pair of f.add calls on one row apart, however few
\* locks there are and however the zkey spreads its coefficients.
THEOREM RaceFreedom == Spec => []NoDataRace
<1>1. IInv => NoDataRace
  <2> SUFFICES ASSUME IInv, NEW w \in Workers, NEW v \in Workers, w # v,
                      NEW x \in Writes(w), x \in Reads(v) \cup Writes(v)
               PROVE  FALSE
    BY DEF NoDataRace
  <2> USE DEF IInv, TypeOK, BodyOfPhase, ClaimedOnce, InCoefBody
  <2>1. CASE pc[w] = "zero"
    BY <2>1 DEF Writes, Reads
  <2>2. CASE pc[w] \in {"load", "store"}
    <3>1. pc[v] \in {"load", "store"} /\ CellOf(item[w]) = CellOf(item[v])
      BY <2>2 DEF Writes, Reads
    <3>2. QED
      BY <2>2, <3>1, SameCellSameLock DEF LockHeld, Holding
  <2>3. CASE pc[w] = "multiply"
    <3>1. x = <<"c", item[w]>>
      BY <2>3 DEF Writes
    <3>2. pc[v] \in {"idle", "multiply"}
      BY <2>3 DEF PCs
    <3>3. CASE pc[v] = "multiply"
      BY <2>3, <3>1, <3>3 DEF Writes, Reads
    <3>4. CASE pc[v] = "idle"
      BY <3>4 DEF Writes, Reads
    <3>5. QED
      BY <3>2, <3>3, <3>4
  <2>4. QED
    BY <2>1, <2>2, <2>3 DEF Writes
<1>2. QED
  BY <1>1, Invariance, PTL

\* No term is lost or added twice: the rows end up as the zkey says.
THEOREM SumsComplete == Spec => []RowsComplete
<1>1. IInv => RowsComplete
  <2> SUFFICES ASSUME IInv PROVE RowsComplete
    OBVIOUS
  <2> USE DEF IInv, TypeOK, BodyOfPhase
  <2>1. ASSUME phase \in {"product", "done"}, NEW x \in Cells
        PROVE  ab[x] = Expected(x)
    BY <2>1 DEF PartialSums, Partial, Expected, Remaining
  <2>2. ASSUME phase = "done", NEW r \in Rows
        PROVE  c[r] = <<Expected(<<"a", r>>), Expected(<<"b", r>>)>>
    BY <2>1, <2>2 DEF Products, Cells
  <2>3. QED
    BY <2>1, <2>2 DEF RowsComplete
<1>2. QED
  BY <1>1, Invariance, PTL

--------------------------------------------------------------------------------
\* Every step of the locked loops is a step of CoefSum or leaves it unchanged.
LEMMA RefinementStep == IInv /\ [Next]_vars => [Abs!Next]_(Abs!vars)
<1> SUFFICES ASSUME IInv, [Next]_vars PROVE [Abs!Next]_(Abs!vars)
  OBVIOUS
<1> USE DEF IInv, Abs!vars
<1>1. ASSUME NEW w \in Workers,
             \/ Claim(w) \/ Exchange(w) \/ SpinExit(w) \/ LoadRow(w) \/ Unlock(w)
      PROVE  UNCHANGED Abs!vars
  <2>1. Remaining' = Remaining
    BY <1>1, RemainingSame
  <2>2. QED
    BY <1>1, <2>1 DEF Claim, Exchange, SpinExit, LoadRow, Unlock
<1>2. ASSUME NEW w \in Workers, ZeroRow(w) PROVE UNCHANGED Abs!vars
  <2>1. Remaining' = Remaining
    BY <1>2, RemainingSame
  <2>2. QED
    BY <1>2, <2>1 DEF ZeroRow, BodyOfPhase
<1>3. ASSUME NEW w \in Workers, StoreRow(w) PROVE Abs!Next
  <2> DEFINE i == item[w]
  <2>1. i \in Coefs /\ phase = "coefs" /\ phase' = "coefs"
    BY <1>3 DEF StoreRow, BodyOfPhase, InCoefBody
  <2>2. Remaining' = Remaining \ {i} /\ i \in Remaining
    BY <1>3, RemainingStore
  <2>3. ab' = [ab EXCEPT ![CellOf(i)] = AddTerm(@, i)] /\ c' = c
    BY <1>3 DEF StoreRow, RowUnchanged
  <2>4. Abs!Accumulate(i)
    BY <2>1, <2>2, <2>3
       DEF Abs!Accumulate, Abs!CellOf, Abs!AddTerm, CellOf, AddTerm
  <2>5. QED
    BY <2>1, <2>4 DEF Abs!Next, Abs!Coefs, Coefs
<1>4. ASSUME NEW w \in Workers, MultiplyRow(w) PROVE Abs!Next
  <2> DEFINE r == item[w]
  <2>1. r \in Rows /\ phase = "product" /\ phase' = "product" /\ Remaining = {}
    BY <1>4 DEF MultiplyRow, BodyOfPhase, Remaining
  <2>2. Remaining' = Remaining
    BY <1>4, RemainingSame
  <2>3. c[r] = << >>
    BY <1>4, <2>1 DEF MultiplyRow, Products
  <2>4. Abs!Multiply(r)
    BY <1>4, <2>1, <2>2, <2>3 DEF Abs!Multiply, MultiplyRow
  <2>5. QED
    BY <2>1, <2>4 DEF Abs!Next, Abs!Rows, Rows
<1>5. CASE Join
  <2>1. Remaining' = Remaining
    BY <1>5, RemainingJoin
  <2>2. CASE phase = "zero"
    <3>1. \A x \in Cells : ab'[x] = Zero
      BY <1>5, <2>2, CellCases DEF Join, ZeroedRows
    <3>2. ab' = [x \in Cells |-> Zero]
      BY <1>5, <3>1 DEF Join, TypeOK
    <3>3. QED
      BY <1>5, <2>1, <2>2, <3>2 DEF Join
  <2>3. CASE phase # "zero"
    BY <1>5, <2>1, <2>3 DEF Join
  <2>4. QED
    BY <2>2, <2>3
<1>6. CASE UNCHANGED vars
  BY <1>6 DEF vars, Remaining
<1>7. QED
  BY <1>1, <1>2, <1>3, <1>4, <1>5, <1>6 DEF Next, Body, Terminated

\* The spinlocked loops implement the indivisible additions of CoefSum.
THEOREM Refinement == Spec => RefinesCoefSum
<1>1. Init => Abs!Init
  BY DEF Init, Abs!Init, Remaining, Abs!Cells, Abs!Zero, Abs!Rows, Abs!Coefs,
         Cells, Zero, Rows, Coefs
<1>2. QED
  BY <1>1, RefinementStep, Invariance, PTL DEF RefinesCoefSum, Abs!Spec, Spec
================================================================================
