-------------------------------- MODULE BigNum --------------------------------
(***************************************************************************)
(* The numbers of bn.c: n big-endian digits, and arithmetic modulo an odd  *)
(* N in Montgomery form, that is x * BASE ^ n in the place of x.           *)
(*                                                                         *)
(* The operators are the functions of bn.c on numbers of any length; that  *)
(* the two loops may store into an operand while they run is the subject   *)
(* of BnLoop.  A digit has BITS bits, 8 in the code; the table inv256 is   *)
(* the one of the code and serves shorter digits too.                      *)
(***************************************************************************)
EXTENDS Integers, Sequences

CONSTANT BITS

ASSUME BitsAssumption == BITS \in 1..8

BASE == 2 ^ BITS
Digits == Seq(0..(BASE - 1))

inv256 ==
  <<   1, 171, 205, 183,  57, 163, 197, 239, 241,  27,  61, 167,  41,  19,  53, 223,
     225, 139, 173, 151,  25, 131, 165, 207, 209, 251,  29, 135,   9, 243,  21, 191,
     193, 107, 141, 119, 249,  99, 133, 175, 177, 219, 253, 103, 233, 211, 245, 159,
     161,  75, 109,  87, 217,  67, 101, 143, 145, 187, 221,  71, 201, 179, 213, 127,
     129,  43,  77,  55, 185,  35,  69, 111, 113, 155, 189,  39, 169, 147, 181,  95,
      97,  11,  45,  23, 153,   3,  37,  79,  81, 123, 157,   7, 137, 115, 149,  63,
      65, 235,  13, 247, 121, 227,   5,  47,  49,  91, 125, 231, 105,  83, 117,  31,
      33, 203, 237, 215,  89, 195, 229,  15,  17,  59,  93, 199,  73,  51,  85, 255 >>

-----------------------------------------------------------------------------
bn_zero(n) == [i \in 1..n |-> 0]
Small(v, n) == [bn_zero(n) EXCEPT ![n] = v]

\* -1, 0 or 1: the first digit that differs decides.
bn_compare[a, b \in Digits] ==
    LET Differ == {i \in 1..Len(a) : a[i] # b[i]}
    IN  IF Differ = {} THEN 0
        ELSE IF \E i \in Differ : a[i] < b[i] /\ \A j \in Differ : i <= j THEN -1 ELSE 1

\* From the last column to the first: the sum of a column with what is carried
\* into it is split into a digit and what is carried on.
Ripple(sums, carry) ==
    LET turn[i \in 1..(Len(sums) + 1)] ==
          IF i = Len(sums) + 1 THEN [d |-> <<>>, c |-> carry]
          ELSE LET right == turn[i + 1]
                   dig   == sums[i] + right.c
               IN  [d |-> <<dig % BASE>> \o right.d, c |-> dig \div BASE]
    IN  turn[1]

bn_add_1(a, b) == Ripple([i \in 1..Len(a) |-> a[i] + b[i]], 0)

bn_sub_1(a, b) ==
    LET r == Ripple([i \in 1..Len(a) |-> a[i] + (BASE - 1) - b[i]], 1)
    IN  [r EXCEPT !.c = 1 - @]

bn_reduce[a, N \in Digits] == IF bn_compare[a, N] >= 0 THEN bn_sub_1(a, N).d ELSE a

\* What both bn_add and bn_mon_muladd_dig end with: a number that may have
\* overflowed, of which N is subtracted once for the overflow and once if it
\* is still not below N.
Settle[a \in Digits, over \in Nat, N \in Digits] == bn_reduce[IF over # 0 THEN bn_sub_1(a, N).d ELSE a, N]

bn_add[a, b, N \in Digits] == LET r == bn_add_1(a, b) IN Settle[r.d, r.c, N]

bn_sub[a, b, N \in Digits] ==
    LET r == bn_sub_1(a, b) IN IF r.c # 0 THEN bn_add_1(r.d, N).d ELSE r.d

\* (t + a * dig) / BASE modulo N: z times N clears the last digit, and all
\* others move to the right.
bn_mon_muladd_dig[t, a \in Digits, dig \in Nat, N \in Digits] ==
    LET n == Len(N)
        z == (-(t[n] + a[n] * dig) * inv256[N[n] \div 2 + 1]) % BASE
        r == Ripple([i \in 1..n |-> t[i] + a[i] * dig + N[i] * z], 0)
    IN  Settle[<<r.c % BASE>> \o SubSeq(r.d, 1, n - 1), r.c \div BASE, N]

bn_mon_mul[a, b, N \in Digits] ==
    LET n == Len(N)
        t[i \in 1..(n + 1)] == IF i = n + 1 THEN bn_zero(n)
                              ELSE bn_mon_muladd_dig[t[i + 1], a, b[i], N]
    IN  t[1]

\* Doubled as often as the number has bits.
bn_to_mon[a, N \in Digits] ==
    LET d[i \in 0..(BITS * Len(N))] ==
          IF i = 0 THEN a ELSE LET half == d[i - 1] IN bn_add[half, half, N]
    IN  d[BITS * Len(N)]

bn_from_mon[a, N \in Digits] == bn_mon_mul[a, Small(1, Len(N)), N]

\* Bit j of a number, the first one the highest.
Bit(e, j) ==
    (e[(j - 1) \div BITS + 1] \div 2 ^ (BITS - 1 - ((j - 1) % BITS))) % 2

bn_mon_exp[a, N, e \in Digits] ==
    LET d[j \in 0..(BITS * Len(e))] ==
          IF j = 0 THEN bn_to_mon[Small(1, Len(N)), N]
          ELSE LET root == d[j - 1]
                   t    == bn_mon_mul[root, root, N]
               IN  IF Bit(e, j) = 1 THEN bn_mon_mul[t, a, N] ELSE t
    IN  d[BITS * Len(e)]

\* Fermat: N is prime.
bn_mon_inv[a, N \in Digits] == bn_mon_exp[a, N, bn_sub_1(N, Small(2, Len(N))).d]

-----------------------------------------------------------------------------
\* The value of a number, and the number of a value.
Value(a) ==
    LET v[i \in 0..Len(a)] == IF i = 0 THEN 0 ELSE v[i - 1] * BASE + a[i]
    IN  v[Len(a)]

Number(v, n) == [i \in 1..n |-> (v \div BASE ^ (n - i)) % BASE]
=============================================================================
