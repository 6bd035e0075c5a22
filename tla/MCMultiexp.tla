------------------------------- MODULE MCMultiexp -------------------------------
(***************************************************************************)
(* Scalars of ten bits in bytes of two, read in words of four; chunks of  *)
(* three bits, so four of them, of which the last has one bit, and the two *)
(* last are read from the last word.  None to three points, one of them    *)
(* the zero of the group; for a single point, all scalars.                 *)
(***************************************************************************)
EXTENDS Multiexp

MCCalls ==
  {[bases |-> <<>>, scalars |-> <<>>],
   [bases |-> <<3, 7>>, scalars |-> <<1023, 513>>],
   [bases |-> <<3, 0, 8>>, scalars |-> <<950, 91, 859>>],
   [bases |-> <<1, 2, 4>>, scalars |-> <<731, 731, 182>>]}
    \cup {[bases |-> <<5>>, scalars |-> <<sc>>] : sc \in 0 .. 1023}
================================================================================
