------------------------------- MODULE RoundUp -------------------------------
(***************************************************************************)
(* The alignment macro of tools.h: round_up(x, n) is -(-x & -n) on         *)
(* unsigned words, n a power of two.  Every use in the tools is far below  *)
(* the width of the word, so the value is the least multiple of n that is  *)
(* not below x.                                                            *)
(***************************************************************************)
EXTENDS Integers

\* Wrong on purpose: rounded down.
BadRoundDown(x, n) == (x \div n) * n

round_up(x, n) == ((x + n - 1) \div n) * n

=============================================================================
