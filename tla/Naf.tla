----------------------------------- MODULE Naf ----------------------------------
(***************************************************************************)
(* buildNaf (naf.cpp) rewrites a scalar in the digits 0, 1 and -1, the last*)
(* stored as 2, byte after byte through a table that carries two bits over *)
(* from one byte to the next; nafMulByScalar (exp.hpp) walks the digits    *)
(* from the highest, doubling.                                             *)
(***************************************************************************)
EXTENDS PrimeField, Sequences, SequencesExt

CONSTANTS
  ByteBits,       \* bits of a byte of a scalar
  ScalarBytes     \* scalarSize

VARIABLES byte, state, naf

nafVars == <<byte, state, naf>>

ScalarBits == ScalarBytes * ByteBits
Bit(sc, b) == b < ScalarBits /\ (sc \div 2 ^ b) % 2 = 1

\* A row of NAFTable: the digit of a position, from its bit (last), the next bit
\* (cur) and the carry, with last and carry for the next position.
Digit(last, cur, carry) ==
  IF last THEN [res |-> IF cur = carry THEN 1 ELSE 2,
                last |-> FALSE, carry |-> cur \/ carry]
          ELSE [res |-> 0, last |-> cur # carry, carry |-> cur /\ carry]

\* NAFTable[st], for the bits of byte i: its digits and what is carried.
Row(sc, i) ==
  FoldLeft(LAMBDA s, j :
             LET d == Digit(s.last, Bit(sc, ByteBits * i + j), s.carry) IN
             [last |-> d.last, carry |-> d.carry, digits |-> Append(s.digits, d.res)],
           [last |-> state.last, carry |-> state.carry, digits |-> <<>>],
           [j \in 1 .. ByteBits |-> j])

NafIdle == byte = 0 /\ naf = <<>> /\ state = [last |-> FALSE, carry |-> FALSE]

NafStart(sc) == state' = [last |-> Bit(sc, 0), carry |-> FALSE] /\ UNCHANGED <<byte, naf>>

\* An iteration of buildNaf.  Beyond the scalar the bits are zero.
BuildByte(sc) ==
  /\ byte < ScalarBytes + 2
  /\ naf' = naf \o Row(sc, byte).digits
  /\ state' = [last |-> Row(sc, byte).last, carry |-> Row(sc, byte).carry]
  /\ byte' = byte + 1

\* nafMulByScalar: it looks at no digit from ScalarBits + 2 on.
nafMulByScalar(base) ==
  FoldRight(LAMBDA d, r :
              LET twice == Add(r, r) IN
              CASE d = 1 -> Add(twice, base) [] d = 2 -> Sub(twice, base) [] OTHER -> twice,
            SubSeq(naf, 1, ScalarBits + 2), 0)

--------------------------------------------------------------------------------
\* Type invariant: of two neighbouring digits one is zero, which bounds the
\* additions; across the bytes too, where only the two carried bits tell.
NafTypeOK ==
  /\ naf \in Seq({0, 1, 2}) /\ Len(naf) = ByteBits * byte
  /\ \A i \in 1 .. Len(naf) - 1 : naf[i] = 0 \/ naf[i + 1] = 0
================================================================================
