------------------------------- MODULE MCEcdsa --------------------------------
(* Two curves of prime order over the field of 13 elements, the order of the *)
(* first one below some of its coordinates, that of the second above all;    *)
(* every hash, every m, keys on both sides of N, and in files every R and S  *)
(* up to just above N, twice N, and the largest.                             *)
EXTENDS Ecdsa

MCCurves == {[p |-> 13, a |-> 7, b |-> 7, N |-> 11, x |-> 2, y |-> 4],
             [p |-> 13, a |-> 2, b |-> 4, N |-> 17, x |-> 0, y |-> 2]}

MCKeys == {1, 7, 20}

MCGiven == 0..18 \cup {22, 34, 63}
=============================================================================
