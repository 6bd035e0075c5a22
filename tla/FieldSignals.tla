------------------------------ MODULE FieldSignals ------------------------------
(***************************************************************************)
(* What the service derives for one field of a JWT: the field parser       *)
(* (field_parser.rs), and from it the circuit's signals                    *)
(* (field_check_input.rs), padded to their maximal lengths.                *)
(***************************************************************************)
EXTENDS JwtChars

\* The first position from i on with one of these characters, or the end of s.
From(s, i, chars) ==
  Min({Len(s)} \cup {j \in i .. Len(s) - 1 : charAt(s, j) \in chars})

NotSpace == (0 .. 127) \ {space}

Found(s, name) ==
  LET quoted_name == <<quote>> \o name \o <<quote>> IN
  {i \in 0 .. Len(s) - Len(quoted_name) :
     Slice(s, i, Len(quoted_name)) = quoted_name}

\* The positions find_and_parse_field comes to, from the first occurrence of the key
\* on.  consume_string takes the first character before it looks for the quote.
Parse(s, name) ==
  LET index  == Min(Found(s, name))
      colonAt == From(s, index + Len(name) + 2, NotSpace)
      first  == From(s, colonAt + 1, NotSpace)
      quoted == first < Len(s) /\ charAt(s, first) = quote
      end    == IF quoted THEN From(s, first + 2, {quote})
                ELSE From(s, first, {space, comma, close})
  IN [index |-> index, colon |-> colonAt, value |-> first + Bit(quoted), end |-> end,
      delimiter |-> From(s, end + Bit(quoted), NotSpace)]

Parses(s, name) ==
  /\ Found(s, name) # {}
  /\ LET p == Parse(s, name) IN
       /\ p.delimiter < Len(s)
       /\ charAt(s, p.colon) = colon
       /\ charAt(s, p.delimiter) \in {comma, close}

WholeField(s, p) == Slice(s, p.index, p.delimiter + 1 - p.index)
Value(s, p)      == Slice(s, p.value, p.end - p.value)

\* pad_bytes refuses what is longer than its maximum.
\* Mutant of Fits: the values are not looked at.
ValueUnbounded(s, p, name, value) ==
  /\ Len(WholeField(s, p)) <= maxKVPairLen
  /\ Len(name) <= maxNameLen

Fits(s, p, name, value) ==
  /\ Len(WholeField(s, p)) <= maxKVPairLen
  /\ Len(name) <= maxNameLen
  /\ Len(value) <= maxValueLen

\* A quote is escaped if there is a backslash before it.
calc_string_bodies(s) ==
  LET unescaped(k) == s[k] = quote /\ s[k - 1] # backslash
      bodies[k \in 1 .. Len(s)] ==
        IF k = 1 THEN 0
        ELSE IF k = 2 THEN Bit(s[1] = quote)
        ELSE IF bodies[k - 2] = 0 /\ unescaped(k - 1) THEN 1
        ELSE IF bodies[k - 1] = 1 /\ unescaped(k) THEN 0
        ELSE bodies[k - 1]
  IN bodies

\* The signals of a field, for a value that is given as the one to be proved.
Signals(field, bodies, name, value, index, colon_index, value_index, skip) ==
  [index |-> index, field |-> Padded(field, maxKVPairLen), field_len |-> Len(field),
   string_bodies |-> Padded(bodies, maxKVPairLen),
   name |-> Padded(name, maxNameLen), name_len |-> Len(name),
   value |-> Padded(value, maxValueLen), value_len |-> Len(value),
   value_index |-> value_index, colon_index |-> colon_index, skip_checks |-> skip]

\* The value of aud is not the parser's, but that of the decoded payload; none if the
\* checks of aud are to be skipped.
private_aud_value(skip, aud) == IF skip THEN <<>> ELSE aud

\* signals_for_field, where value is the parser's, and aud_signals.
signals_for_field(s, name, value, skip) ==
  LET p     == Parse(s, name)
      whole == WholeField(s, p)
  IN Signals(whole, calc_string_bodies(whole), name, value,
             p.index, p.colon - p.index, p.value - p.index, skip)
================================================================================
