------------------------------ MODULE SelfBytes ------------------------------
(***************************************************************************)
(* The bytes that travel from an ELF file through makeself into a SELF and *)
(* through unself back.  What a byte contains does not matter, only where  *)
(* it comes from:                                                          *)
(*   <<"elf", p>>             byte p of the ELF file                       *)
(*   <<"z", off, len, b, n>>  byte b of the n that zlib made of the len    *)
(*                            ELF bytes from off on                        *)
(*   <<"hdr">>                a byte of the SELF header                    *)
(*   <<"zero">>               a cleared byte, or a hole of a written file  *)
(*   <<"junk">>               memory that was never written by the program *)
(* zlib itself is outside of the repository: compress() returns some       *)
(* stream, inflate() gives back what was compressed or reports an error.   *)
(***************************************************************************)
EXTENDS Integers, Sequences

Elf(p) == <<"elf", p>>
Hdr    == <<"hdr">>
Zero   == <<"zero">>
Junk   == <<"junk">>

Bytes == {Hdr, Zero, Junk} \cup ({"elf"} \X Nat) \cup ({"z"} \X Nat \X Nat \X Nat \X Nat)

Deflated(off, len, b, n) == <<"z", off, len, b, n>>

\* A buffer, mapping or file is a sequence, its address a at index a + 1.
\* What a read at address a gives:
Peek(mem, a) == IF a \in 0..(Len(mem) - 1) THEN mem[a + 1] ELSE Junk

\* Write bytes at address at, extending mem with zeros up to there.
Write(mem, at, bytes) ==
    LET filled == mem \o [x \in 1..(at - Len(mem)) |-> Zero]
    IN  IF bytes = <<>> THEN mem
        ELSE SubSeq(filled, 1, at) \o bytes \o SubSeq(mem, at + Len(bytes) + 1, Len(mem))

\* inflate(Z_FINISH) over packed succeeds when it starts with a whole stream,
\* of which the output has out_len bytes or less.
IsStream(packed, out_len) ==
    /\ packed # <<>>
    /\ LET z == packed[1]
       IN  /\ z[1] = "z" /\ z[3] <= out_len /\ z[5] <= Len(packed)
           /\ \A b \in 1..z[5] : packed[b] = Deflated(z[2], z[3], b - 1, z[5])

\* What the out_len bytes of output are then.
Inflated(packed, out_len) ==
    [b \in 1..out_len |-> IF b <= packed[1][3] THEN Elf(packed[1][2] + b - 1) ELSE Junk]

=============================================================================
