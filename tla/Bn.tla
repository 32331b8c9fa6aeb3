---------------------------------- MODULE Bn ----------------------------------
(***************************************************************************)
(* bn.c at its two levels: the digit loops of BnLoop on buffers that may   *)
(* be the same, or the calls of BnRegisters on whole numbers.  What links  *)
(* the two is that a loop, when it returns, has done what the operator of  *)
(* BigNum does that the calls are made of.                                 *)
(***************************************************************************)
EXTENDS BnLoop

CONSTANTS BITS, N_LEN, Moduli,   \* of BnRegisters, N_LEN its LEN
          LOOP_BITS              \* the bits of a digit of the loops

VARIABLES level,        \* "loops" or "calls"
          N, x, y, call \* of BnRegisters, call its op

L == INSTANCE BigNum WITH BITS <- LOOP_BITS
R == INSTANCE BnRegisters WITH LEN <- N_LEN, op <- call

registers == <<N, x, y, call>>

ASSUME RadixIsBits == /\ BITS \in 1..8
                      /\ LOOP_BITS \in 1..8 /\ RADIX = 2 ^ LOOP_BITS
ASSUME ModuliAssumption ==
    \A v \in Moduli : v \in 3..(2 ^ (BITS * N_LEN) - 1) /\ v % 2 = 1

\* The level that is not looked at stands still.
IdleLoops == /\ mem = [buffer \in Buffers |-> [j \in 1..LEN |-> 0]]
             /\ op = "add" /\ d = (CHOOSE buffer \in Buffers : TRUE) /\ a = d /\ b = d
             /\ pc = "idle" /\ i = -1 /\ c = 0
             /\ before = mem /\ w = 1 /\ sa = 0 /\ sb = 0 /\ sd = 0
IdleRegisters == /\ N = R!Number(3, N_LEN) /\ x = R!bn_zero(N_LEN) /\ y = x
                 /\ call = "none"

InitBn == \/ level = "loops" /\ Init /\ IdleRegisters
          \/ level = "calls" /\ R!Init /\ IdleLoops

NextBn == /\ UNCHANGED level
          /\ \/ level = "loops" /\ Next /\ UNCHANGED registers
             \/ level = "calls" /\ R!Next /\ UNCHANGED vars

SpecBn == InitBn /\ [][NextBn]_<<vars, registers, level>>

-----------------------------------------------------------------------------
(* Properties *)

\* When one of the loops of bn.c returns, the buffer of its result and the
\* carry are what the operator of BigNum gives for the operands as they were
\* at the call, although the loop may have stored into them; every other
\* buffer is as it was.
LoopsAreBigNum ==
    /\ \A buffer \in Buffers \ {d} : mem[buffer] = before[buffer]
    /\ pc = "idle" /\ w # 1 =>
         /\ op = "add" => /\ mem[d] = L!bn_add_1(before[a], before[b]).d
                          /\ c = L!bn_add_1(before[a], before[b]).c
         /\ op = "sub" => /\ mem[d] = L!bn_sub_1(before[a], before[b]).d
                          /\ 1 - c = L!bn_sub_1(before[a], before[b]).c

\* The calls implement arithmetic modulo N: see BnRegisters.
ImplementsField == R!ImplementsField
=============================================================================
