-------------------------------- MODULE JwtField --------------------------------
(***************************************************************************)
(* One field of a JWT on its way: an issuer writes the payload, the service*)
(* derives the signals of the field, or somebody else makes them up, and   *)
(* the circuit accepts them or not.  The issuer, who is not in the         *)
(* repository, writes a JSON object within the bounds whose values are     *)
(* strings, numbers (or true, false, null) and such objects; no arrays.    *)
(***************************************************************************)
EXTENDS FieldSignals, FieldCircuit

CONSTANTS
  key,                   \* the name of the field that is proved
  Names,                 \* names of members
  Strings, Numbers,      \* contents of string values, escapes included; numbers
  Spacings,              \* the spaces before and after the colon, and after the value
  MaxText                \* bound: the length of the payload, its brackets closed

VARIABLES
  text,      \* the payload, as far as it is written
  names,     \* the names in each object that is open, the innermost last
  members,   \* the members with a string or a number as their value
  signals    \* the signals of the field, from the service or accepted from anyone

vars == <<text, names, members, signals>>

\* A quote in a string is escaped, and no escape is left open at its end.
WellFormed(s) ==
  LET escapes == adjacent_backslash_parity(Padded(s, Len(s))) IN
  /\ s # <<>> => escapes[Len(s) - 1] = 0
  /\ \A i \in 0 .. Len(s) - 1 : charAt(s, i) = quote => i > 0 /\ escapes[i - 1] = 1

\* The issuer writes JSON.
ASSUME JsonAssumption ==
  /\ \A s \in Names \cup Strings : s \in Seq(Chars) /\ WellFormed(s)
  /\ \A s \in Numbers :
       /\ s \in Seq(Chars \ (Blanks \cup {quote, backslash, comma, colon, open, close}))
       /\ s # <<>>
  /\ \A s \in Spacings : DOMAIN s = 1 .. 3 /\ \A i \in 1 .. 3 : s[i] \in Seq(Blanks)

\* iss, nonce, iat, aud, and for the user id sub or email (training_wheels/mod.rs:72-86).
ASSUME KeyAssumption == key \in Seq(97 .. 122) /\ key # <<>>

\* The circuit has room for the payload.
ASSUME TextAssumption == MaxText \in 2 .. MAX_JWT_PAYLOAD_LEN

None == [by |-> "nobody"]

Init ==
  /\ text = <<open>> /\ names = << {} >> /\ members = {}
  /\ signals = None

--------------------------------------------------------------------------------
\* The issuer.
Begun == IF Last(text) = open THEN text ELSE Append(text, comma)

Named(name, spacing) ==
  Begun \o <<quote>> \o name \o <<quote>> \o spacing[1] \o <<colon>> \o spacing[2]

Write(written, open_names) ==
  /\ Len(written) + Len(open_names) <= MaxText
  /\ text' = written /\ names' = open_names

NewName(name) == names # <<>> /\ name \notin Last(names)

WithName(name) == Append(Front(names), Last(names) \cup {name})

Member(name, spacing, quoted, value) ==
  /\ NewName(name)
  /\ LET q == IF quoted THEN <<quote>> ELSE <<>> IN
     Write(Named(name, spacing) \o q \o value \o q \o spacing[3], WithName(name))
  /\ members' = members \cup
       {[index |-> Len(Begun), level |-> Len(names), name |-> name,
         quoted |-> quoted, value |-> value]}
  /\ UNCHANGED signals

OpenObject(name) ==
  /\ NewName(name)
  /\ Write(Append(Named(name, << <<>>, <<>>, <<>> >>), open), Append(WithName(name), {}))
  /\ UNCHANGED <<members, signals>>

CloseObject ==
  /\ names # <<>>
  /\ Write(Append(text, close), Front(names))
  /\ UNCHANGED <<members, signals>>

--------------------------------------------------------------------------------
\* What serde_json makes of the text of a string: a slice of it where there is no escape
\* (as many bytes), otherwise one character for each escape.
Hex(c) == IF c <= 57 THEN c - 48 ELSE IF c <= 70 THEN c - 55 ELSE c - 87

\* The escape at i: of a code, or b, f, n, r and t, or of the character itself.
Unescaped(s, i) ==
  CASE s[i] = 117 -> ((Hex(s[i + 1]) * 16 + Hex(s[i + 2])) * 16 + Hex(s[i + 3])) * 16 + Hex(s[i + 4])
    [] s[i] = 98 -> 8 [] s[i] = 102 -> 12 [] s[i] = 110 -> 10 [] s[i] = 114 -> 13 [] s[i] = 116 -> 9
    [] OTHER -> s[i]

Decoded(s) ==
  LET parity    == adjacent_backslash_parity(Padded(s, Len(s)))
      escaped   == {i \in 2 .. Len(s) : parity[i - 2] = 1}
      codes     == UNION {i + 1 .. i + 4 : i \in {j \in escaped : s[j] = 117}}
      begins    == (1 .. Len(s)) \ (escaped \cup codes)
      nth(j)    == CHOOSE i \in begins : Cardinality({k \in begins : k <= i}) = j
      char(i)   == IF s[i] = backslash THEN Unescaped(s, i + 1) ELSE s[i]
  IN IF backslash \notin Range(s) THEN s
     ELSE [j \in 1 .. Cardinality(begins) |-> char(nth(j))]

\* Which field it is that is proved; skip is aud, where its checks are skipped.
Modes == {"iss", "uid", "nonce", "iat", "aud", "skip"}

\* DecodedJWT::from_b64 has found the field once in the object itself, however its name is
\* written: a string, or a number without sign, point and exponent; the nonce is the decimals of the computed one.
Deserialized(mode, m) ==
  /\ {n \in members : n.level = 1 /\ Decoded(n.name) = key} = {m}
  /\ m.quoted = (mode # "iat")
  /\ mode = "iat" => Range(m.value) \subseteq Digits
  /\ mode = "nonce" => Range(Decoded(m.value)) \subseteq Digits

ValueUsed(mode, m) ==
  IF mode \in {"aud", "skip"} THEN private_aud_value(mode = "skip", Decoded(m.value))
  ELSE Value(text, Parse(text, key))

\* The service derives the signals of the field.
Derive(mode) ==
  /\ names = <<>> /\ signals = None
  /\ \E m \in members :
       LET value == ValueUsed(mode, m) IN
       /\ Deserialized(mode, m)
       /\ Parses(text, key) /\ Fits(text, Parse(text, key), key, value)
       /\ signals' = [by |-> "service", mode |-> mode,
                      field |-> signals_for_field(text, key, value, mode = "skip")]
  /\ UNCHANGED <<text, names, members>>

Accepts(hints, mode, f) ==
  IF mode = "iat" THEN UnquotedField(hints, f, key)
  ELSE IF mode = "uid" THEN QuotedField(hints, f)
  ELSE IF mode = "nonce" THEN NonceField(hints, f, key)
  ELSE NamedField(hints, f, key)

Kind(mode) == IF mode = "iat" THEN "unquoted" ELSE "quoted"

\* Signals from anyone.  All arrays are checked to be parts of the payload and so are
\* given by positions in it; of these the circuit compares the characters that are
\* asked for here: of the key i, the colon c, the value v to e, the delimiter d.
Parts(hints, kind) ==
  LET at(chars) == {i \in 0 .. Len(text) - 1 : charAt(text, i) \in chars}
      next(chars) == {i + 1 : i \in at(chars)}
      bodies == [i \in 1 .. Len(text) |-> hints.string_bodies[i - 1]]
      starts == IF kind = "unquoted" THEN at(Digits) ELSE next({quote})
      ends   == IF kind = "unquoted" THEN next(Digits) ELSE at({quote})
      inOrder(i, c, v, e, d) ==
        /\ i < c /\ c < v /\ v < e /\ e <= d
        /\ d - i < maxKVPairLen /\ e - v <= maxValueLen
  IN {Signals(Slice(text, t[1], t[5] + 1 - t[1]), Slice(bodies, t[1], t[5] + 1 - t[1]), key,
              Slice(text, t[3], t[4] - t[3]), t[1], t[2] - t[1], t[3] - t[1], FALSE) :
        t \in {u \in Found(text, key) \X at({colon}) \X starts \X ends \X at({comma, close}) :
                 inOrder(u[1], u[2], u[3], u[4], u[5])}}

Prove(mode) ==
  /\ names = <<>> /\ signals = None
  /\ LET hints == Hints(Padded(text, MAX_JWT_PAYLOAD_LEN)) IN
     \E f \in {g \in Parts(hints, Kind(mode)) : Accepts(hints, mode, g)} :
       signals' = [by |-> "anyone", mode |-> mode, field |-> f]
  /\ UNCHANGED <<text, names, members>>

Done == names = <<>> /\ UNCHANGED vars

Next ==
  \/ \E name \in Names :
       \/ OpenObject(name)
       \/ \E spacing \in Spacings :
            \/ \E value \in Strings : Member(name, spacing, TRUE, value)
            \/ \E value \in Numbers : Member(name, spacing, FALSE, value)
  \/ CloseObject
  \/ \E mode \in Modes : Derive(mode)
  \/ \E mode \in Modes \ {"skip"} : Prove(mode)
  \/ Done

Spec == Init /\ [][Next]_vars

--------------------------------------------------------------------------------
\* Type invariant: the lengths that are claimed fit into the arrays.
TypeOK ==
  /\ Len(text) + Len(names) <= MaxText
  /\ \A m \in members : m.index < Len(text) /\ m.name \in Names
  /\ signals # None =>
       LET f == signals.field IN
       /\ f.index \in 0 .. Len(text) - 1
       /\ f.field_len \in 0 .. maxKVPairLen /\ f.value_len \in 0 .. maxValueLen
       /\ f.field \in [0 .. maxKVPairLen - 1 -> 0 .. 127]

\* A field that the circuit accepts is a member of the JWT with the right name, and
\* with this value, whoever made the signals: neither text inside a string nor, for a
\* quoted value, a member of a nested object passes for it.
AcceptedIsMember ==
  signals.by = "anyone" =>
    LET f == signals.field IN
    \E m \in members :
      /\ m.index = f.index /\ m.name = key
      /\ m.quoted = (signals.mode # "iat") /\ (m.quoted => m.level = 1)
      /\ f.value = Padded(m.value, maxValueLen) /\ f.value_len = Len(m.value)

\* The member the service has found, if it has found one of the JWT itself whose value
\* is plain: not empty, without a quote, not ending in a backslash (the parser leaves
\* escapes to the circuit), without any escape in aud and nonce, which are decoded, iat
\* and nonce of fewer digits than there is room for, and no white space but spaces.
Plain(f, mode) ==
  /\ \E m \in members :
       /\ m.index = f.index /\ m.level = 1 /\ m.quoted = (mode # "iat")
       /\ m.value # <<>> /\ quote \notin Range(m.value) /\ Last(m.value) # backslash
       /\ mode \in {"aud", "nonce"} => backslash \notin Range(m.value)
       /\ mode \in {"iat", "nonce"} => Len(m.value) < maxValueLen
  /\ \A i \in DOMAIN f.field : f.field[i] \notin Blanks \ {space}

Derived == signals.by = "service" /\ Plain(signals.field, signals.mode)

Accepted ==
  Accepts(Hints(Padded(text, MAX_JWT_PAYLOAD_LEN)), signals.mode, signals.field)

\* What the service derives from a plain member satisfies the circuit, whatever is
\* in the members around it, escaped quotes and backslashes included: the two find the
\* same positions and the same string bodies by different rules.
PlainAccepted == Derived /\ signals.mode # "skip" => Accepted

\* "If it is 1, all checks enforced by this template will be skipped, and it will
\* function as a no-op" (ParseJWTFieldWithQuotedValue.circom:21-23): the signals of a
\* plain member satisfy the circuit too if its checks are skipped.
SkipIsNoop == Derived /\ signals.mode = "skip" => Accepted
================================================================================
