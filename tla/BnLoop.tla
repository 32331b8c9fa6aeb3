-------------------------------- MODULE BnLoop --------------------------------
(***************************************************************************)
(* The two loops that carry all of bn.c: bn_add_1() and bn_sub_1(), from   *)
(* the last digit of big-endian numbers to the first.                      *)
(*                                                                         *)
(* The callers pass the same buffer more than once (bn_add(d, d, d) in     *)
(* bn_to_mon, bn_sub_1(d, d, N) in bn_reduce), so the loops run on named   *)
(* buffers, and each turn stores a digit while others are still to be      *)
(* read.  The index is a u32: i-- from 0 wraps to a value that is not      *)
(* below n, here -1.                                                       *)
(*                                                                         *)
(* before, w, sa, sb and sd are history variables: the buffers at the      *)
(* call, the weight of the next digit, and the values of the digits done   *)
(* so far of a and b as they were at the call, and of d.                   *)
(***************************************************************************)
EXTENDS Integers, Sequences

CONSTANTS RADIX,   \* 256 in the code
          LEN,     \* the number of digits, n in the code
          Buffers  \* the names of the buffers

ASSUME RadixAssumption == RADIX \in Nat /\ RADIX > 1
ASSUME LenAssumption == LEN \in Nat

VARIABLES mem,        \* the digits of every buffer
          op, d, a, b,
          pc, i, c,
          before, w, sa, sb, sd

vars == <<mem, op, d, a, b, pc, i, c, before, w, sa, sb, sd>>

Digit == 0..(RADIX - 1)
Numbers == [1..LEN -> Digit]

-----------------------------------------------------------------------------
Init == /\ mem \in [Buffers -> Numbers]
        /\ op = "add" /\ d \in Buffers /\ a \in Buffers /\ b \in Buffers
        /\ pc = "idle" /\ i = -1 /\ c = 0
        /\ before = mem /\ w = 1 /\ sa = 0 /\ sb = 0 /\ sd = 0

Start(o, carry) ==
    /\ pc = "idle"
    /\ op' = o /\ c' = carry
    /\ d' \in Buffers /\ a' \in Buffers /\ b' \in Buffers
    /\ i' = LEN - 1
    /\ pc' = "loop"
    /\ before' = mem /\ w' = 1 /\ sa' = 0 /\ sb' = 0 /\ sd' = 0
    /\ mem' = mem

bn_add_1 == Start("add", 0)
bn_sub_1 == Start("sub", 1)

\* Wrong on purpose: the digits are stored from the first to the last.
BadTurnReversed(dig) ==
    /\ pc = "loop" /\ i \in 0..(LEN - 1)
    /\ mem' = [mem EXCEPT ![d] = [@ EXCEPT ![LEN - i] = dig % RADIX]]
    /\ c' = dig \div RADIX
    /\ i' = i - 1
    /\ w' = w * RADIX
    /\ sa' = sa + w * before[a][i + 1]
    /\ sb' = sb + w * before[b][i + 1]
    /\ sd' = sd + w * (dig % RADIX)
    /\ UNCHANGED <<op, d, a, b, pc, before>>

\* One turn: dig is computed, its low part stored and its high part kept.
Turn(dig) ==
    /\ pc = "loop" /\ i \in 0..(LEN - 1)
    /\ mem' = [mem EXCEPT ![d] = [@ EXCEPT ![i + 1] = dig % RADIX]]
    /\ c' = dig \div RADIX
    /\ i' = i - 1
    /\ w' = w * RADIX
    /\ sa' = sa + w * before[a][i + 1]
    /\ sb' = sb + w * before[b][i + 1]
    /\ sd' = sd + w * (dig % RADIX)
    /\ UNCHANGED <<op, d, a, b, pc, before>>

\* Wrong on purpose: the carry is forgotten.
BadAddDigit == op = "add" /\ Turn(mem[a][i + 1] + mem[b][i + 1])

AddDigit == op = "add" /\ Turn(mem[a][i + 1] + mem[b][i + 1] + c)
SubDigit == op = "sub" /\ Turn(mem[a][i + 1] + (RADIX - 1) - mem[b][i + 1] + c)

Return == /\ pc = "loop" /\ i = -1
          /\ pc' = "idle"
          /\ UNCHANGED <<mem, op, d, a, b, i, c, before, w, sa, sb, sd>>

Next == bn_add_1 \/ bn_sub_1 \/ AddDigit \/ SubDigit \/ Return

Spec == Init /\ [][Next]_vars

-----------------------------------------------------------------------------
(* Properties *)

TypeOK == /\ mem \in [Buffers -> Numbers] /\ before \in [Buffers -> Numbers]
          /\ op \in {"add", "sub"}
          /\ d \in Buffers /\ a \in Buffers /\ b \in Buffers
          /\ pc \in {"idle", "loop"}
          /\ i \in -1..(LEN - 1)
          /\ c \in {0, 1}
          /\ w \in Nat /\ sa \in Nat /\ sb \in Nat /\ sd \in Nat

\* Whichever of the three buffers are the same one: the digits that are still
\* to be read are those of the call, for they are all to the left of those
\* that were stored.  A carry never needs more than one bit.
UnreadIntact == \A x \in Buffers : \A j \in 1..(i + 1) : mem[x][j] = before[x][j]

\* The digits done so far and the carry are the sum, or the difference, of the
\* digits done so far of the operands of the call, for every radix, length
\* and choice of buffers: bn_add_1 returns the carry, bn_sub_1 the borrow.
SumSoFar ==
    /\ op = "add" => sd + c * w = sa + sb
    /\ op = "sub" => sd + c * w = (sa - sb) + w
=============================================================================
