-------------------------------- MODULE BinFile --------------------------------
(***************************************************************************)
(* The binary containers of binfile_utils.cpp and the headers that         *)
(* zkey_utils.hpp and wtns_utils.hpp read from them.  A file has a type, a *)
(* version and sections, each of which is a number, a size and data.  Sizes*)
(* and positions count 32-bit integers, the unit of the format; size is    *)
(* that of the whole file, whatever its sections claim.                    *)
(*                                                                         *)
(* Where the code throws, the operators below return the class of the      *)
(* exception, and "assert" where an assertion fails.                       *)
(***************************************************************************)
EXTENDS Integers, Sequences

U32 == 1
U64 == 2

\* Where the k-th section starts, and the header before it: after the type, the
\* version and the number of sections, and after the sections before it.
start(f, k) ==
  LET next[i \in 1 .. k] ==
        (IF i = 1 THEN 3 * U32 ELSE next[i - 1] + f.sections[i - 1].size) + U32 + U64
  IN next[k]

\* The constructor.  It checks that it can read the header of every section, but
\* not that the data of the section is in the file.
BinFile(f, type, maxVersion) ==
  IF f.size < U32 THEN "assert"
  ELSE IF f.type # type THEN "invalid_argument"
  ELSE IF f.size < 2 * U32 THEN "assert"
  ELSE IF f.version > maxVersion THEN "invalid_argument"
  ELSE IF f.size < 3 * U32 THEN "assert"
  ELSE IF \E k \in DOMAIN f.sections : start(f, k) > f.size THEN "assert"
  ELSE "ok"

\* Of the sections with a number, the first is meant.
has(f, id)   == \E k \in DOMAIN f.sections : f.sections[k].id = id
nth(f, id)   == CHOOSE k \in DOMAIN f.sections :
                  f.sections[k].id = id /\ \A j \in 1 .. k - 1 : f.sections[j].id # id
getSectionSize(f, id) == f.sections[nth(f, id)].size

\* startReadSection, reads of len in all, endReadSection.  The reads are checked
\* against the end of the file, and the end of the section only afterwards.
\* Mutant of Section: the size is not compared.
SectionUnchecked(f, id, len) ==
  IF ~has(f, id) THEN "range_error"
  ELSE IF start(f, nth(f, id)) + len > f.size THEN "assert"
  ELSE "ok"

Section(f, id, len) ==
  IF ~has(f, id) THEN "range_error"
  ELSE IF start(f, nth(f, id)) + len > f.size THEN "assert"
  ELSE IF getSectionSize(f, id) # len THEN "range_error"
  ELSE "ok"

\* getSectionData gives a pointer, and checks neither this nor that: the section is
\* as long as what will be read there, and the file is.
holds(f, id, len) ==
  has(f, id) /\ len <= getSectionSize(f, id) /\ start(f, nth(f, id)) + len <= f.size

\* ZKeyUtils::Header: the protocol is checked before section 1 ends.
ZKeyHeader(f) ==
  LET first  == Section(f, 1, U32)
      second == Section(f, 2, U32 + f.n8q + U32 + f.n8r + 3 * U32 + 18 * f.n8q)
  IN IF has(f, 1) /\ first # "assert" /\ f.protocol # 1 THEN "invalid_argument"
     ELSE IF first # "ok" THEN first
     ELSE IF second # "ok" THEN second
     ELSE IF has(f, 4) THEN "ok" ELSE "range_error"

\* WtnsUtils::Header.
WtnsHeader(f) == Section(f, 1, U32 + f.n8 + U32)
================================================================================
