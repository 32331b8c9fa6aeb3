------------------------------ MODULE FieldArith ------------------------------
(***************************************************************************)
(* What bn.c promises to ec.c: two registers of numbers modulo N, and on   *)
(* them the operations of the integers modulo N.  R is the Montgomery      *)
(* factor: a number stands for itself divided by R.                        *)
(***************************************************************************)
EXTENDS Integers

VARIABLES N, R, x, y, op

vars == <<N, R, x, y, op>>

Z == 0..(N - 1)
Mod(v) == v % N

Prime == \A v \in 2..(N - 1) : N % v # 0

Init == /\ N \in Nat /\ N > 2 /\ R \in Nat
        /\ x \in Z /\ y \in Z
        /\ op = "none"

\* The operation called o leaves in x a number with the property Result.
Set(o, Result(_)) == op' = o /\ x' \in Z /\ Result(x') /\ UNCHANGED <<N, R, y>>

Add       == Set("add", LAMBDA v : v = Mod(x + y))
Double    == Set("double", LAMBDA v : v = Mod(x + x))
Subtract  == Set("sub", LAMBDA v : v = Mod(x - y))
MonMul    == Set("mul", LAMBDA v : Mod(v * R) = Mod(x * y))
MonSquare == Set("square", LAMBDA v : Mod(v * R) = Mod(x * x))
ToMon     == Set("to_mon", LAMBDA v : v = Mod(x * R))
FromMon   == Set("from_mon", LAMBDA v : Mod(v * R) = x)
MonInv    == Prime /\ y # 0 /\ Set("inv", LAMBDA v : Mod(v * y) = Mod(R * R))
Load      == Set("reduce", LAMBDA v : TRUE)
Copy      == op' = "copy" /\ y' = x /\ UNCHANGED <<N, R, x>>

Next == \/ Add \/ Double \/ Subtract \/ MonMul \/ MonSquare
        \/ ToMon \/ FromMon \/ MonInv \/ Copy \/ Load

Spec == Init /\ [][Next]_vars
=============================================================================
