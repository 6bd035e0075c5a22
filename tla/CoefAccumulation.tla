---------------------------- MODULE CoefAccumulation ----------------------------
(***************************************************************************)
(* The part of Prover::prove (groth16.cpp) that builds the rows of the     *)
(* three polynomials: three tbb::parallel_for loops, one after the other.  *)
(*   "zero"     a[i] and b[i] are zeroed                                   *)
(*   "coefs"    each coefficient adds wtns[s] * coef into a row of a or b, *)
(*              under one of NUM_LOCKS spinlocks, chosen by the row        *)
(*   "product"  c[i] = a[i] * b[i]                                         *)
(* TBB splits an index range into sub-ranges and hands each to any worker; *)
(* here an idle worker claims any index that nobody claimed before, which  *)
(* allows every such partition.  A spinlock is the atomic word lockable_   *)
(* of spinlock.hpp, with its exchange, its relaxed spin and its store as   *)
(* separate steps; f.add reads its row in one step and writes it in        *)
(* another.  Field elements are the formal sums of CoefSum.                *)
(***************************************************************************)
EXTENDS ZkeyCoefs

CONSTANTS
  Workers,      \* the TBB worker threads
  NumLocks,     \* NUM_LOCKS
  Garbage       \* what new FrElement[domainSize] leaves in a row

ASSUME LocksAssumption == NumLocks \in Nat \ {0}

ASSUME GarbageAssumption == Garbage \in Sums

VARIABLES
  phase,      \* the parallel_for that is running, or "done"
  todo,       \* the indices of that loop that no worker has claimed
  pc,         \* where each worker is in the loop body
  item,       \* the index each worker is at
  lockable,   \* lockable_ of each spinlock
  reg,        \* the row as f.add read it
  ab,         \* a and b: a row of either is a cell <<"a", r>> or <<"b", r>>
  c           \* the pair of sums multiplied into each row, or << >>

vars == <<phase, todo, pc, item, lockable, reg, ab, c>>

\* Mutant of LockOf: the lock is chosen by the coefficient, not by its row.
LockOfItem(i) == i % NumLocks

LockOf(i) == RowOf[i] % NumLocks

Init ==
  /\ phase = "zero"
  /\ todo = Rows
  /\ pc = [w \in Workers |-> "idle"]
  /\ item = [w \in Workers |-> 0]
  /\ lockable = [l \in 0 .. NumLocks - 1 |-> 0]
  /\ reg = [w \in Workers |-> Zero]
  /\ ab = [x \in Cells |-> Garbage]
  /\ c = [r \in Rows |-> << >>]

\* The first step of each loop's body; the product wtns[s] * coef is local.
FirstStep == CASE phase = "zero"    -> "zero"
               [] phase = "coefs"   -> "exchange"
               [] phase = "product" -> "multiply"

\* Mutant of Claim: the index stays available to be claimed again.
ClaimKept(w) ==
  /\ pc[w] = "idle"
  /\ \E i \in todo : item' = [item EXCEPT ![w] = i]
  /\ pc' = [pc EXCEPT ![w] = FirstStep]
  /\ UNCHANGED <<phase, todo, lockable, reg, ab, c>>

Claim(w) ==
  /\ pc[w] = "idle"
  /\ \E i \in todo :
       /\ item' = [item EXCEPT ![w] = i]
       /\ todo' = todo \ {i}
  /\ pc' = [pc EXCEPT ![w] = FirstStep]
  /\ UNCHANGED <<phase, lockable, reg, ab, c>>

ZeroRow(w) ==
  /\ pc[w] = "zero"
  /\ ab' = [ab EXCEPT ![<<"a", item[w]>>] = Zero, ![<<"b", item[w]>>] = Zero]
  /\ pc' = [pc EXCEPT ![w] = "idle"]
  /\ UNCHANGED <<phase, todo, item, lockable, reg, c>>

\* Mutant of Exchange: a fetch_add in the place of the exchange.
FetchAdd(w) ==
  LET l == LockOf(item[w]) IN
  /\ pc[w] = "exchange"
  /\ lockable' = [lockable EXCEPT ![l] = @ + 1]
  /\ pc' = [pc EXCEPT ![w] = IF lockable[l] = 0 THEN "load" ELSE "spin"]
  /\ UNCHANGED <<phase, todo, item, reg, ab, c>>

\* spinlock::lock, outer loop: exchange(1).
Exchange(w) ==
  LET l == LockOf(item[w]) IN
  /\ pc[w] = "exchange"
  /\ lockable' = [lockable EXCEPT ![l] = 1]
  /\ pc' = [pc EXCEPT ![w] = IF lockable[l] = 0 THEN "load" ELSE "spin"]
  /\ UNCHANGED <<phase, todo, item, reg, ab, c>>

\* spinlock::lock, inner loop: it is left once a load returns 0.
SpinExit(w) ==
  /\ pc[w] = "spin"
  /\ lockable[LockOf(item[w])] = 0
  /\ pc' = [pc EXCEPT ![w] = "exchange"]
  /\ UNCHANGED <<phase, todo, item, lockable, reg, ab, c>>

LoadRow(w) ==
  /\ pc[w] = "load"
  /\ reg' = [reg EXCEPT ![w] = ab[CellOf(item[w])]]
  /\ pc' = [pc EXCEPT ![w] = "store"]
  /\ UNCHANGED <<phase, todo, item, lockable, ab, c>>

StoreRow(w) ==
  /\ pc[w] = "store"
  /\ ab' = [ab EXCEPT ![CellOf(item[w])] = AddTerm(reg[w], item[w])]
  /\ pc' = [pc EXCEPT ![w] = "unlock"]
  /\ UNCHANGED <<phase, todo, item, lockable, reg, c>>

\* spinlock::unlock, called by ~unique_lock.
Unlock(w) ==
  /\ pc[w] = "unlock"
  /\ lockable' = [lockable EXCEPT ![LockOf(item[w])] = 0]
  /\ pc' = [pc EXCEPT ![w] = "idle"]
  /\ UNCHANGED <<phase, todo, item, reg, ab, c>>

MultiplyRow(w) ==
  /\ pc[w] = "multiply"
  /\ c' = [c EXCEPT ![item[w]] = <<ab[<<"a", item[w]>>], ab[<<"b", item[w]>>]>>]
  /\ pc' = [pc EXCEPT ![w] = "idle"]
  /\ UNCHANGED <<phase, todo, item, lockable, reg, ab>>

\* parallel_for returns when every index has been processed; the next starts.
Join ==
  /\ todo = {}
  /\ \A w \in Workers : pc[w] = "idle"
  /\ \/ phase = "zero"    /\ phase' = "coefs"   /\ todo' = Coefs
     \/ phase = "coefs"   /\ phase' = "product" /\ todo' = Rows
     \/ phase = "product" /\ phase' = "done"    /\ todo' = {}
  /\ UNCHANGED <<pc, item, lockable, reg, ab, c>>

Terminated == phase = "done" /\ UNCHANGED vars

Body(w) ==
  \/ ZeroRow(w)
  \/ Exchange(w) \/ SpinExit(w) \/ LoadRow(w) \/ StoreRow(w) \/ Unlock(w)
  \/ MultiplyRow(w)

Next ==
  \/ \E w \in Workers : Claim(w) \/ Body(w)
  \/ Join
  \/ Terminated

Spec == Init /\ [][Next]_vars

\* The operating system stops no thread for ever in the middle of an item, and
\* the thread that called parallel_for takes items as long as there are any;
\* no other worker has to join in.
Fairness ==
  /\ WF_vars(\E w \in Workers : Claim(w))
  /\ WF_vars(Join)
  /\ \A w \in Workers : WF_vars(Body(w))

FairSpec == Spec /\ Fairness

--------------------------------------------------------------------------------
(***************************************************************************)
(* Properties                                                              *)
(***************************************************************************)

PCs == {"idle", "zero", "exchange", "spin", "load", "store", "unlock", "multiply"}

\* Type invariant.
TypeOK ==
  /\ phase \in {"zero", "coefs", "product", "done"}
  /\ todo \in SUBSET (Coefs \cup Rows)
  /\ pc \in [Workers -> PCs]
  /\ item \in [Workers -> Nat]
  /\ lockable \in [0 .. NumLocks - 1 -> {0, 1}]
  /\ reg \in [Workers -> Sums]
  /\ ab \in [Cells -> Sums]
  /\ c \in [Rows -> {<< >>} \cup (Sums \X Sums)]

\* The rows a worker's current statement may read and write, as <<array, row>>.
Writes(w) ==
  CASE pc[w] = "zero"              -> {<<"a", item[w]>>, <<"b", item[w]>>}
    [] pc[w] \in {"load", "store"} -> {CellOf(item[w])}
    [] pc[w] = "multiply"          -> {<<"c", item[w]>>}
    [] OTHER                       -> {}

Reads(w) ==
  CASE pc[w] \in {"load", "store"} -> {CellOf(item[w])}
    [] pc[w] = "multiply"          -> {<<"a", item[w]>>, <<"b", item[w]>>}
    [] OTHER                       -> {}

\* No two workers are in conflicting accesses of the same row at once, in any
\* of the three loops: the locks of the coefficient loop cover every f.add,
\* though a lock guards the rows of a and of b and of many residues.
NoDataRace ==
  \A w, v \in Workers :
    w # v => Writes(w) \cap (Reads(v) \cup Writes(v)) = {}

\* After the coefficient loop every row of a and b is the sum of exactly the
\* terms the zkey assigns to it: none lost to a racing f.add, none added
\* twice, nothing left of what the allocation held.  At the end every row of
\* c is the product of those.
Expected(x) == [i \in Coefs |-> IF CellOf(i) = x THEN 1 ELSE 0]

RowsComplete ==
  /\ phase \in {"product", "done"} => \A x \in Cells : ab[x] = Expected(x)
  /\ phase = "done" =>
       \A r \in Rows : c[r] = <<Expected(<<"a", r>>), Expected(<<"b", r>>)>>

\* The coefficients that have not been added yet.
Remaining ==
  CASE phase = "zero"  -> Coefs
    [] phase = "coefs" -> todo \cup
         {item[w] : w \in {v \in Workers : pc[v] \in {"exchange", "spin", "load", "store"}}}
    [] OTHER           -> {}

\* The locked, interleaved loops implement the indivisible additions.
Abs == INSTANCE CoefSum WITH
         ab <- IF phase = "zero" THEN [x \in Cells |-> Zero] ELSE ab,
         remaining <- Remaining

RefinesCoefSum == Abs!Spec

\* The loops come to an end: no worker spins for ever.
Termination == <>(phase = "done")
================================================================================
