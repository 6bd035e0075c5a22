----------------------------- MODULE MCFullProver -----------------------------
(***************************************************************************)
(* The circuit out = x * y, z = out * x: the wires are 1, out (public), x, *)
(* y and z.  Two constraints and a row for each public wire, as snarkjs    *)
(* adds them, fill a domain of four.  One key that is right, and each way a*)
(* file can be wrong, one at a time; an element takes one integer.  A key  *)
(* that is cut off can only lack data of its last section, here H: what    *)
(* comes before the header of another section is there.                    *)
(***************************************************************************)
EXTENDS FullProver, TLC

Row(v) == [w \in Wires |-> IF w = v THEN 1 ELSE 0]
NoRow  == [w \in Wires |-> 0]

MCQapA == (0 :> Row(2)) @@ (1 :> Row(1)) @@ (2 :> Row(0)) @@ (3 :> Row(1))
MCQapB == (0 :> Row(3)) @@ (1 :> Row(2)) @@ (2 :> NoRow) @@ (3 :> NoRow)
MCQapC == (0 :> Row(1)) @@ (1 :> Row(4)) @@ (2 :> NoRow) @@ (3 :> NoRow)
MCSetup == [tau |-> 3, alpha |-> 5, beta |-> 7, gamma |-> 11, delta |-> 6]

\* The points of the key, worked out; KeyOfCircuit compares them with its making.
Table(q) == [v \in 0 .. Len(q) - 1 |-> q[v + 1]]
MCPointsA == Table(<<12, 13, 10, 0, 0>>)
MCPointsB == Table(<<0, 0, 8, 10, 0>>)
MCPointsC == Table(<<14, 14, 7, 14, 7>>)
MCPointsH == Table(<<16, 2, 8, 7>>)
MCIC == Table(<<3, 3>>)

Witness(x, y) ==
  (0 :> 1) @@ (1 :> Mul(x, y)) @@ (2 :> x) @@ (3 :> y) @@ (4 :> Mul(Mul(x, y), x))
MCWitnesses == {Witness(3, 4), Witness(0, 16)}

\* The sections by their numbers, none of them empty: two headers, IC, coefficients,
\* A, B1, B2, C, H and contributions.
Sizes(second) ==
  LET sizes == <<1, second, 4, 9, 10, 10, 20, 6, 8, 4>>
  IN [k \in 1 .. 10 |-> [id |-> k, size |-> sizes[k]]]
Whole == start([sections |-> Sizes(25)], 10) + 4

Good == [exists |-> TRUE, size |-> Whole, type |-> "zkey", version |-> 1,
         protocol |-> 1, curve |-> "bn128", n8q |-> 1, n8r |-> 1,
         sections |-> Sizes(25)]

MCKeys == {Good,
  [Good EXCEPT !.exists = FALSE], [Good EXCEPT !.type = "wtns"],
  [Good EXCEPT !.version = 2], [Good EXCEPT !.protocol = 2],
  [Good EXCEPT !.curve = "bls12381"],
  [Good EXCEPT !.sections = Sizes(26)],
  [Good EXCEPT !.sections = SubSeq(@, 1, 8)],
  [Good EXCEPT !.sections = <<@[1]>> \o SubSeq(@, 3, 10)],
  [Good EXCEPT !.sections[5].size = 8],
  [Good EXCEPT !.sections = SubSeq(@, 1, 9), !.size = Whole - (U32 + U64 + 4) - 1]}
  \cup {[Good EXCEPT !.size = x] : x \in {0, 1, 2, 9, 20}}

WitnessFile(w) ==
  [exists |-> TRUE, size |-> 3 + 3 + 3 + 3 + 5, type |-> "wtns", version |-> 2,
   curve |-> "bn128", n8 |-> 1, data |-> w,
   sections |-> <<[id |-> 1, size |-> 3], [id |-> 2, size |-> 5]>>]
Some == WitnessFile(Witness(3, 4))

MCWitnessFiles == {WitnessFile(w) : w \in MCWitnesses} \cup
  {[Some EXCEPT !.exists = FALSE], [Some EXCEPT !.curve = "bls12381"],
   [Some EXCEPT !.sections[1].size = 4], [Some EXCEPT !.size = @ - 1],
   [Some EXCEPT !.sections = <<@[1]>>]}
================================================================================
