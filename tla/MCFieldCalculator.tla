--------------------------- MODULE MCFieldCalculator ---------------------------
(***************************************************************************)
(* Two words of five bits, shorts of three, and a prime of eight bits that *)
(* lies in its range as the scalar prime does (0.75 of 2^8).  The operands *)
(* are all the elements, in all their forms.                               *)
(***************************************************************************)
EXTENDS FieldCalculator

MCValues == Field
================================================================================
