--------------------------------- MODULE MCBn ---------------------------------
(* Loops: three buffers of three binary digits, every aliasing of d, a and   *)
(* b.  Calls: two digits of two bits, and every odd modulus that fits.       *)
EXTENDS Bn

CONSTANTS b1, b2, b3

MCModuli == {3, 5, 7, 9, 11, 13, 15}

\* Every entry of the table is the inverse of its odd number.
ASSUME InverseTable == \A k \in 0..127 : (R!inv256[k + 1] * (2 * k + 1)) % 256 = 1
=============================================================================
