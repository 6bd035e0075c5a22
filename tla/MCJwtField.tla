------------------------------- MODULE MCJwtField -------------------------------
(***************************************************************************)
(* The key is k; members are named k, o, \"k or \u006b, which is k to a    *)
(* decoder.  Strings are empty, or hold what a careless reader takes for   *)
(* structure: a quote and a backslash (both escaped), a comma, a bracket,  *)
(* the key; or one more escape, or a number.                               *)
(***************************************************************************)
EXTENDS JwtField

k == <<107>>
o == <<111>>
escapedQuote     == <<backslash, quote>>
escapedBackslash == <<backslash, backslash>>
escapedK         == <<backslash, 117, 48, 48, 54, 98>>
newline          == <<backslash, 110>>

MCkey     == k
MCNames   == {k, o, escapedQuote \o k, escapedK}
MCStrings == {<<>>, k, escapedQuote, escapedBackslash, newline, <<comma>>, <<close>>, <<49>>}
MCNumbers == {<<49>>}
MCSpacings ==
  LET none == <<>> sp == <<space>> IN
  {<<none, none, none>>, <<sp, none, none>>, <<none, sp, none>>, <<none, none, sp>>,
   <<none, <<9>>, none>>}
================================================================================
