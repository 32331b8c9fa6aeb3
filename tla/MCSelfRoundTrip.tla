--------------------------- MODULE MCSelfRoundTrip ---------------------------
(* ELF files of five bytes: up to two program headers of any kind, and three *)
(* on a coarser grid; empty, unaligned and overlapping segments included.     *)
EXTENDS SelfRoundTrip

MCSize == 5
MCW == 64
MCSizes == [arch64 \in BOOLEAN |->
    IF arch64 THEN [ehdr |-> 1, phdr |-> 2, shdr |-> 1, stride |-> 1]
    ELSE [ehdr |-> 2, phdr |-> 1, shdr |-> 1, stride |-> 2]]

Segments(Offs, Lengths) == {p \in [p_type : {0, 1}, p_off : Offs, p_filesz : Lengths] :
                            p.p_off + p.p_filesz <= MCSize}

MCElfs == {[arch64 |-> a, size |-> MCSize, phdr |-> t, shoff |-> 4, shsize |-> 1] :
             a \in BOOLEAN, t \in UNION {[1..m -> Segments(0..4, {0, 2, 3})] : m \in 0..2}
                   \cup [1..3 -> Segments({0, 2, 3}, {1, 2})]}
=============================================================================
