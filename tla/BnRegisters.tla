----------------------------- MODULE BnRegisters ------------------------------
(***************************************************************************)
(* Any sequence of the calls that ec.c makes into bn.c, on two numbers x   *)
(* and y below an odd modulus N, shown to implement FieldArith.            *)
(***************************************************************************)
EXTENDS BigNum

CONSTANTS LEN,      \* the digits of a number: 20 and 21 in ec.c
          Moduli    \* values of N, odd and of LEN digits

VARIABLES N, x, y,
          op     \* the call made last

vars == <<N, x, y, op>>

Below(v) == {Number(u, LEN) : u \in 0..(v - 1)}

Init == /\ \E v \in Moduli : N = Number(v, LEN)
        /\ x \in Below(Value(N)) /\ y \in Below(Value(N))
        /\ op = "none"

Set(o, v) == op' = o /\ x' = v /\ UNCHANGED <<N, y>>

Add == Set("add", bn_add[x, y, N])
Double == Set("double", bn_add[x, x, N])
\* Wrong on purpose: a difference below zero stays there.
BadSubtract == Set("sub", bn_sub_1(x, y).d)

Subtract == Set("sub", bn_sub[x, y, N])
MonMul == Set("mul", bn_mon_mul[x, y, N])
MonSquare == Set("square", bn_mon_mul[x, x, N])
ToMon == Set("to_mon", bn_to_mon[x, N])
FromMon == Set("from_mon", bn_from_mon[x, N])

\* Of a point with an invertible coordinate: ec.c asks for no other inverse.
Prime == \A v \in 2..(Value(N) - 1) : Value(N) % v # 0

MonInv == Prime /\ y # bn_zero(LEN) /\ Set("inv", bn_mon_inv[y, N])

Copy == op' = "copy" /\ y' = x /\ UNCHANGED <<N, x>>

\* A number from outside, such as a hash, is reduced once, which is
\* enough for one below 2 * N: ec.c reduces 160 bits by an N of about 160.
Reduce == \E u \in 0..(BASE ^ LEN - 1) :
             u < 2 * Value(N) /\ Set("reduce", bn_reduce[Number(u, LEN), N])

Next == \/ Add \/ Double \/ Subtract \/ MonMul \/ MonSquare
        \/ ToMon \/ FromMon \/ MonInv \/ Copy \/ Reduce

Spec == Init /\ [][Next]_vars

-----------------------------------------------------------------------------
(* Properties *)

Field == INSTANCE FieldArith WITH N <- Value(N), R <- BASE ^ LEN, x <- Value(x), y <- Value(y)

\* Every call does what arithmetic modulo N says, on the values of the digits:
\* the single subtraction of N at the end of bn_add and bn_mon_muladd_dig is
\* enough, the table of inverses clears the last digit, and the results are
\* again below N, so that the calls can follow each other in any order.
ImplementsField == Field!Spec
=============================================================================
