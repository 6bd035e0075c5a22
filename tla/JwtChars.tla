-------------------------------- MODULE JwtChars --------------------------------
(***************************************************************************)
(* Characters are ASCII codes, as in the circuit, and texts are sequences  *)
(* of them.  The service and the circuit count positions from 0; the       *)
(* circuit has arrays of a fixed length instead, padded with zeros.        *)
(***************************************************************************)
EXTENDS Integers, SequencesExt

CONSTANTS
  MAX_JWT_PAYLOAD_LEN,                     \* the lengths of the circuit's arrays,
  maxKVPairLen, maxNameLen, maxValueLen    \* which the service knows as max_lengths

ASSUME LengthsAssumption ==
  /\ {MAX_JWT_PAYLOAD_LEN, maxKVPairLen, maxNameLen, maxValueLen} \subseteq Nat
  /\ 1 < maxValueLen /\ maxValueLen <= maxKVPairLen
  /\ 0 < maxNameLen /\ maxNameLen <= maxKVPairLen
  /\ maxKVPairLen <= MAX_JWT_PAYLOAD_LEN

Chars     == 1 .. 127
Blanks    == 9 .. 13 \cup {32}
space     == 32
quote     == 34
comma     == 44
colon     == 58
backslash == 92
open      == 123
close     == 125
Digits    == 48 .. 57

charAt(s, i) == s[i + 1]
Slice(s, start, len) == SubSeq(s, start + 1, start + len)
Padded(s, len) == [i \in 0 .. len - 1 |-> IF i < Len(s) THEN charAt(s, i) ELSE 0]
Bit(b) == IF b THEN 1 ELSE 0
================================================================================
