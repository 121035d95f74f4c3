---------------------------- MODULE PrintfItems ----------------------------
(***************************************************************************)
(* What a message for printf() is made of: a character, a number in some   *)
(* width, base and signedness, or another directive, each with its         *)
(* spelling in the format and its arguments.                               *)
(***************************************************************************)
EXTENDS Sequences

Lit(ch) == [item |-> "char", spelling |-> <<ch>>, args |-> <<>>, text |-> <<ch>>]
Other(spelling, args, text) == [item |-> "other", spelling |-> spelling, args |-> args, text |-> text]
Num(spec, bits, base, sign, arg) ==
  [item |-> "number", spelling |-> <<"%">> \o spec, args |-> <<arg>>, bits |-> bits, base |-> base, sign |-> sign]
=============================================================================
