------------------------------ MODULE MCUnself -------------------------------
(* Section tables that need not come from makeself: up to two arbitrary     *)
(* ones, and three on a coarser grid.  There is a stream for two bytes      *)
(* wherever a section may begin, so that some inflate and some do not;      *)
(* MCSelfRoundTrip checks what is written.  Sizes and offsets go beyond W,   *)
(* and there is room for the pieces of two compressed sections only.         *)
EXTENDS Unself

MCW == 8
MCSizes == [arch64 \in BOOLEAN |-> [ehdr |-> 1, phdr |-> 1, shdr |-> 1, stride |-> 1]]

Stream(at) == Deflated(at, 2, 0, 1)
MCBytes == <<Hdr, Hdr, Stream(0), Zero, Stream(2), Stream(1), Stream(4)>>

Phdr(Offs, Lengths) == [p_off : Offs, p_filesz : Lengths]
Sec(Offs) == [offset : Offs, size : {1}, compressed : BOOLEAN]

Files(n, Lengths, P, S) ==
    [header_len : {2}, filesize : Lengths, version_word : {MCW}, bytes : {MCBytes},
     arch64 : {TRUE}, shdr_offset : {6}, n_shdr : {1},
     phdr : [1..n -> P], sec : [1..n -> S]]

MCInputs == UNION {Files(n, {3, 6}, Phdr(0..4, 0..2), Sec({2, 4, 5})) : n \in {0, 1, 2}}
            \cup UNION {Files(n, {6, MCW, MCW + 3}, Phdr({0, 3}, {2}), Sec({2, 4, MCW + 4})) : n \in 0..2}
            \cup Files(3, {6}, Phdr({0, 2, 4}, {2}), Sec({2, 4, 6}))
=============================================================================
