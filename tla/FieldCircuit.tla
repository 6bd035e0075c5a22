------------------------------ MODULE FieldCircuit ------------------------------
(***************************************************************************)
(* The part of the circuit that checks one field of the payload of a JWT   *)
(* (keyless.circom and the templates it uses).  A template constrains its  *)
(* signals; where its checks may be skipped, some constraints remain that  *)
(* may not, here those of the selectors.  f is the record of the signals   *)
(* of a field.  A comparison of two polynomials at a challenge stands for  *)
(* their equality.                                                         *)
(***************************************************************************)
EXTENDS JwtChars

--------------------------------------------------------------------------------
\* Arrays.
IsIndex(len, i) == i \in 0 .. len - 1      \* SelectArrayValue(len)

min_num_bits(n) == CHOOSE k \in 1 .. n : 2 ^ (k - 1) <= n /\ n < 2 ^ k

\* ArraySelector(len): its constraints, and what it selects.
Selectable(len, start, end) ==
  IsIndex(len, start) /\ start < end /\ end < 2 ^ min_num_bits(len)
Selected(len, start, end) == {i \in 0 .. len - 1 : start <= i /\ i < end}

\* ArraySelectorComplex(len) selects the same, but a range from 0 on.
SelectableComplex(len, start, end) ==
  start # 0 /\ IsIndex(len, start - 1) /\ IsIndex(len, end)

\* IsSubstring: the selected part of str, shifted, is all of substr, and not all zeros.
IsSubstring(str, substr, substr_len, start) ==
  LET sel == Selected(Cardinality(DOMAIN str), start, start + substr_len) IN
  /\ \E i \in sel : str[i] # 0
  /\ \A i \in sel : str[i] = IF i - start \in DOMAIN substr THEN substr[i - start] ELSE 0
  /\ \A j \in DOMAIN substr : start + j \notin sel => substr[j] = 0

--------------------------------------------------------------------------------
\* Hints for the whole payload.

\* Whether a run of backslashes is odd that ends at i: it escapes what comes after it.
adjacent_backslash_parity(in) ==
  LET odd[i \in DOMAIN in] ==
        IF in[i] # backslash THEN 0 ELSE IF i = 0 THEN 1 ELSE 1 - odd[i - 1]
  IN odd

\* Whether the number of quotes up to i that are not escaped is odd.
quote_parity(in, escapes) ==
  LET quotes == [i \in DOMAIN in |-> Bit(in[i] = quote /\ (i = 0 \/ escapes[i - 1] = 0))]
      parity[i \in DOMAIN in] ==
        IF i = 0 THEN quotes[i]
        ELSE IF quotes[i] = 1 THEN 1 - parity[i - 1] ELSE parity[i - 1]
  IN parity

\* 1 strictly between such quotes.
Bodies(in, parity) ==
  [i \in DOMAIN in |-> Bit(i > 0 /\ parity[i - 1] = 1 /\ parity[i] = 1)]

\* Mutant of StringBodies: no quote counts that is after a backslash.
BodiesAfterAnyBackslash(in) ==
  Bodies(in, quote_parity(in, [i \in DOMAIN in |-> Bit(in[i] = backslash)]))

StringBodies(in) == Bodies(in, quote_parity(in, adjacent_backslash_parity(in)))

BracketsMap(arr) ==
  [i \in DOMAIN arr |-> Bit(arr[i] = open) - Bit(arr[i] = close)]

\* Brackets inside of strings do not count.
\* Mutant of UnquotedBracketsMap: they do.
AllBracketsMap(bodies, arr) == BracketsMap(arr)

UnquotedBracketsMap(bodies, arr) ==
  [i \in DOMAIN arr |-> (1 - bodies[i]) * BracketsMap(arr)[i]]

prelim_out1(arr) ==
  LET sum[i \in DOMAIN arr] == IF i = 0 THEN arr[i] ELSE sum[i - 1] + arr[i]
  IN sum

\* How many brackets are open, but for the outermost; an opening bracket does not
\* count itself.  (The first entry is not constrained; it is a bracket.)
BracketsDepthMap(arr) ==
  LET sum == prelim_out1(arr)
      running == [i \in DOMAIN arr |-> IF sum[i] < 1 THEN 0 ELSE sum[i] - 1]
  IN [i \in DOMAIN arr |->
        IF i > 0 /\ running[i] = running[i - 1] + 1 THEN running[i] - 1 ELSE running[i]]

Hints(payload) ==
  LET bodies == StringBodies(payload) IN
  [payload |-> payload, string_bodies |-> bodies,
   depth |-> BracketsDepthMap(UnquotedBracketsMap(bodies, payload))]

EnforceNotNested(start, len, depth) ==
  LET N == MAX_JWT_PAYLOAD_LEN IN
  /\ Selectable(N, start, start + len)
  /\ \A i \in Selected(N, start, start + len) : depth[i] = 0

--------------------------------------------------------------------------------
\* The field: []name[]':'[]value[](','|'}').
SharedConstraints(f) ==
  LET N == maxKVPairLen IN
  /\ \A i \in {f.name_len + 1, f.colon_index, f.field_len - 1} : IsIndex(N, i)
  /\ Selectable(N, 1, 1 + f.name_len)
  /\ Selectable(N, f.value_index, f.value_index + f.value_len)

SharedChecks(f) ==
  /\ f.name_len < f.colon_index
  /\ f.colon_index < f.value_index
  /\ f.field_len > f.name_len + f.value_len
  /\ f.field[0] = quote
  /\ IsSubstring(f.field, f.name, f.name_len, 1)
  /\ f.field[f.name_len + 1] = quote
  /\ f.field[f.colon_index] = colon
  /\ IsSubstring(f.field, f.value, f.value_len, f.value_index)
  /\ f.field[f.field_len - 1] \in {comma, close}

IsWhitespace(ch) == ch \in Blanks

\* Whitespace around the colon and after the value, which takes q quotes.
Gaps(f, q) ==
  {<<f.name_len + 2, f.colon_index>>, <<f.colon_index + 1, f.value_index - q>>,
   <<f.value_index + f.value_len + q, f.field_len - 1>>}

GapConstraints(f, q) == \A g \in Gaps(f, q) : SelectableComplex(maxKVPairLen, g[1], g[2])

GapChecks(f, q) ==
  \A g \in Gaps(f, q) : \A i \in Selected(maxKVPairLen, g[1], g[2]) : IsWhitespace(f.field[i])

NameAt(f)  == Selected(maxKVPairLen, 1, f.name_len + 1)
ValueAt(f) == Selected(maxKVPairLen, f.value_index, f.value_index + f.value_len)

\* Only the name and the value are in string bodies; they do not overlap, or their
\* selectors would sum to 2.
QuotedChecks(f) ==
  /\ f.field[f.value_index - 1] = quote
  /\ f.field[f.value_index + f.value_len] = quote
  /\ GapChecks(f, 1)
  /\ \A i \in 0 .. maxKVPairLen - 1 :
       f.string_bodies[i] = Bit(i \in NameAt(f) \cup ValueAt(f))
  /\ NameAt(f) \cap ValueAt(f) = {}

ParseJWTFieldWithQuotedValue(f) ==
  /\ SharedConstraints(f) /\ GapConstraints(f, 1)
  /\ IsIndex(maxKVPairLen, f.value_index - 1)
  /\ IsIndex(maxKVPairLen, f.value_index + f.value_len)
  /\ f.skip_checks \/ (SharedChecks(f) /\ QuotedChecks(f))

ParseJWTFieldWithUnquotedValue(f) ==
  /\ SharedConstraints(f) /\ GapConstraints(f, 0)
  /\ SharedChecks(f) /\ GapChecks(f, 0)
  /\ \A i \in ValueAt(f) : f.field[i] \notin {comma, close, quote}

\* The number has fewer digits than there is room for.
AsciiDigitsToScalar(digits, len) ==
  /\ len \in 1 .. maxValueLen - 1
  /\ \A i \in 0 .. len - 1 : digits[i] \in Digits

InPayload(hints, f) ==
  /\ Selectable(MAX_JWT_PAYLOAD_LEN, f.index, f.index + f.field_len)
  /\ IsSubstring(hints.payload, f.field, f.field_len, f.index)

NameIs(f, name) ==
  \A i \in 0 .. Len(name) - 1 : f.name[i] = charAt(name, i)

--------------------------------------------------------------------------------
\* What keyless.circom asks of the user id, whose name is hashed as it is given.
QuotedField(hints, f) ==
  /\ InPayload(hints, f)
  /\ IsSubstring(hints.string_bodies, f.string_bodies, f.field_len, f.index)
  /\ EnforceNotNested(f.index, f.field_len, hints.depth)
  /\ ParseJWTFieldWithQuotedValue(f)

\* Of iss and of aud.
NamedField(hints, f, name) ==
  QuotedField(hints, f) /\ (f.skip_checks \/ NameIs(f, name))

\* Of nonce.  That it is the computed one is left out.
NonceField(hints, f, name) ==
  NamedField(hints, f, name) /\ AsciiDigitsToScalar(f.value, f.value_len)

\* And of iat.  The nesting that is looked at here is that of iss.
UnquotedField(hints, f, name) ==
  /\ InPayload(hints, f)
  /\ ParseJWTFieldWithUnquotedValue(f)
  /\ hints.string_bodies[f.index] = 0
  /\ NameIs(f, name)
  /\ AsciiDigitsToScalar(f.value, f.value_len)
================================================================================
