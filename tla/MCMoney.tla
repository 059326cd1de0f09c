------------------------------ MODULE MCMoney -------------------------------
(***************************************************************************)
(* A small instance of Money for TLC: a word whose largest value is 507,   *)
(* with the last two digits of 2^63 - 1.                                   *)
(***************************************************************************)
EXTENDS Money

Characters == {"0", "5", "7", "8", "+", "-", ".", "e", " "}
=============================================================================
