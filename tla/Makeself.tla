------------------------------ MODULE Makeself -------------------------------
(***************************************************************************)
(* makeself.c from the ELF file to the SELF file, apart from the contents  *)
(* of the header (SelfLayout) and the cryptography (SceFile): where        *)
(* compress_elf() and fill_phdr_map() put every segment, the buffer of     *)
(* main(), what write_elf() copies into it and what is written out.        *)
(*                                                                         *)
(* The buffer has header_size + elf_size bytes.  No copy is checked        *)
(* against that, so the model stops in "undefined" where the code would    *)
(* write outside of the buffer, or read phdr_map[-1].  What fwrite() reads *)
(* behind the buffer is junk.                                              *)
(***************************************************************************)
EXTENDS ElfFile, RoundUp, SelfBytes

VARIABLES elf,              \* the ELF file
          compression,      \* the option -c
          pc,
          i,                \* the loop index of the current function
          offset,           \* of compress_elf
          phdr_map,
          compressed_size, shdr_offset,
          self,             \* the buffer
          file              \* the output file

vars == <<elf, compression, pc, i, offset, phdr_map, compressed_size, shdr_offset, self, file>>

phnum == Len(elf.phdr)
PT_LOAD == 1

\* A segment of the SELF: of what part of the ELF file, and packed how.
MapEntry(off, size, z, p) ==
    [offset |-> off, size |-> size, compressed |-> z, p_off |-> p.p_off, p_filesz |-> p.p_filesz]

MapByte(m, b) == IF m.compressed THEN Deflated(m.p_off, m.p_filesz, b, m.size)
                 ELSE Elf(m.p_off + b)

-----------------------------------------------------------------------------
Init == /\ elf \in Elfs
        /\ compression \in BOOLEAN
        /\ pc = "map"
        /\ i = 0
        /\ offset = HeaderSize
        /\ phdr_map = <<>>
        /\ compressed_size = 0 /\ shdr_offset = 0
        /\ self = <<>> /\ file = <<>>

FillPhdrMap ==
    /\ pc = "map"
    /\ ~compression
    /\ phdr_map' = [n \in 1..phnum |->
                      MapEntry(elf.phdr[n].p_off + HeaderSize, elf.phdr[n].p_filesz,
                               FALSE, elf.phdr[n])]
    /\ compressed_size' = elf.size
    /\ shdr_offset' = elf.shoff + HeaderSize
    /\ pc' = "alloc"
    /\ UNCHANGED <<elf, compression, i, offset, self, file>>

\* One turn of compress_elf: entry m is placed at offset.
Place(m) ==
    /\ phdr_map' = Append(phdr_map, m)
    /\ offset' = round_up(offset + m.size, ALIGNMENT)
    /\ i' = i + 1
    /\ UNCHANGED <<elf, compression, pc, compressed_size, shdr_offset, self, file>>

Mapping == pc = "map" /\ compression /\ i < phnum

\* A segment that is not PT_LOAD, or one that zlib does not make smaller.
MapPlain ==
    /\ Mapping
    /\ Place(MapEntry(offset, elf.phdr[i + 1].p_filesz, FALSE, elf.phdr[i + 1]))

MapCompressed ==
    /\ Mapping
    /\ elf.phdr[i + 1].p_type = PT_LOAD
    /\ \E size_zlib \in 1..(elf.phdr[i + 1].p_filesz - 1) :
          Place(MapEntry(offset, size_zlib, TRUE, elf.phdr[i + 1]))

\* With no program header at all the code reads phdr_map[-1].
MapEnd ==
    /\ pc = "map" /\ compression /\ i >= phnum
    /\ IF phnum = 0
       THEN /\ pc' = "undefined"
            /\ UNCHANGED <<compressed_size, shdr_offset>>
       ELSE /\ shdr_offset' = phdr_map[i].offset + phdr_map[i].size
            /\ compressed_size' = shdr_offset' + elf.shsize
            /\ pc' = "alloc"
    /\ UNCHANGED <<elf, compression, i, offset, phdr_map, self, file>>

\* Wrong on purpose: a buffer of the size of the ELF file.
BadAlloc ==
    /\ pc = "alloc"
    /\ self' = [a \in 1..elf.size |-> IF a <= HeaderSize THEN Hdr ELSE Zero]
    /\ i' = 0
    /\ pc' = "write_elf"
    /\ UNCHANGED <<elf, compression, offset, phdr_map, compressed_size, shdr_offset, file>>

\* malloc, memset and build_hdr: the headers fill the first bytes.
Alloc ==
    /\ pc = "alloc"
    /\ self' = [a \in 1..(HeaderSize + elf.size) |-> IF a <= HeaderSize THEN Hdr ELSE Zero]
    /\ i' = 0
    /\ pc' = "write_elf"
    /\ UNCHANGED <<elf, compression, offset, phdr_map, compressed_size, shdr_offset, file>>

\* memcpy to self + at, undefined outside of the buffer
Memcpy(at, bytes) ==
    IF at + Len(bytes) <= Len(self)
    THEN self' = Write(self, at, bytes) /\ pc' = pc
    ELSE self' = self /\ pc' = "undefined"

WriteSegment ==
    /\ pc = "write_elf" /\ compression /\ i < phnum
    /\ LET m == phdr_map[i + 1]
       IN  Memcpy(m.offset, [b \in 1..m.size |-> MapByte(m, b - 1)])
    /\ i' = i + 1
    /\ UNCHANGED <<elf, compression, offset, phdr_map, compressed_size, shdr_offset, file>>

ElfPart(off, n) == [b \in 1..n |-> Elf(off + b - 1)]

\* Wrong on purpose: the table goes where it would be without compression.
BadWriteRest ==
    /\ pc = "write_elf"
    /\ i = IF compression THEN phnum ELSE 0
    /\ IF compression THEN Memcpy(HeaderSize + elf.shoff, ElfPart(elf.shoff, elf.shsize))
       ELSE Memcpy(HeaderSize, ElfPart(0, elf.size))
    /\ i' = phnum + 1
    /\ UNCHANGED <<elf, compression, offset, phdr_map, compressed_size, shdr_offset, file>>

\* The section header table behind the segments, or the ELF file as it is.
WriteRest ==
    /\ pc = "write_elf"
    /\ i = IF compression THEN phnum ELSE 0
    /\ IF compression THEN Memcpy(shdr_offset, ElfPart(elf.shoff, elf.shsize))
       ELSE Memcpy(HeaderSize, ElfPart(0, elf.size))
    /\ i' = phnum + 1
    /\ UNCHANGED <<elf, compression, offset, phdr_map, compressed_size, shdr_offset, file>>

\* fwrite of header_size + compressed_size bytes and of the padding.  With -c
\* compressed_size contains the header already, and fwrite reads behind self.
WriteFile ==
    /\ pc = "write_elf" /\ i > phnum
    /\ file' = [a \in 1..(HeaderSize + round_up(compressed_size, ALIGNMENT)) |->
                  IF a > HeaderSize + compressed_size THEN Zero ELSE Peek(self, a - 1)]
    /\ pc' = "done"
    /\ UNCHANGED <<elf, compression, i, offset, phdr_map, compressed_size, shdr_offset, self>>

Next == \/ FillPhdrMap \/ MapPlain \/ MapCompressed \/ MapEnd
        \/ Alloc \/ WriteSegment \/ WriteRest \/ WriteFile

Spec == Init /\ [][Next]_vars /\ WF_vars(Next)

-----------------------------------------------------------------------------
(* Properties *)

\* With -c the segments are laid out one behind the other, aligned, behind
\* the header, even where they overlap in the ELF file.
SegmentsApart ==
    compression =>
        \A m, n \in 1..Len(phdr_map) :
            /\ phdr_map[m].offset >= HeaderSize /\ phdr_map[m].offset % ALIGNMENT = 0
            /\ m < n => phdr_map[m].offset + phdr_map[m].size <= phdr_map[n].offset

\* The ELF files for which the buffer of header_size + elf_size bytes is
\* enough with -c: aligned segments that do not overlap, in front of the
\* section header table.
Tidy ==
    LET End(n) == elf.phdr[n].p_off + elf.phdr[n].p_filesz
    IN  /\ phnum > 0
        /\ \A n \in 1..phnum : /\ elf.phdr[n].p_off % ALIGNMENT = 0
                               /\ round_up(End(n), ALIGNMENT) <= elf.shoff
        /\ \A m, n \in 1..phnum :
             m # n => End(m) <= elf.phdr[n].p_off \/ End(n) <= elf.phdr[m].p_off

\* No write leaves the buffer without -c, nor with it for a tidy ELF file.
BufferSuffices == ~compression \/ Tidy => pc # "undefined"

\* What sceverify and unself will read: each segment is whole in the file at
\* the place its header gives, and so is the section header table.
AllStored ==
    pc = "done" =>
        /\ \A n \in 1..Len(phdr_map) :
             LET m == phdr_map[n]
             IN  \A b \in 0..(m.size - 1) :
                    /\ m.offset + b < Len(file)
                    /\ file[m.offset + b + 1] = MapByte(m, b)
        /\ \A b \in 0..(elf.shsize - 1) : Peek(file, shdr_offset + b) = Elf(elf.shoff + b)
=============================================================================
