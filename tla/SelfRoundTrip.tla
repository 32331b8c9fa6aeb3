---------------------------- MODULE SelfRoundTrip ----------------------------
(***************************************************************************)
(* makeself followed by unself: the SELF file that Makeself writes is the  *)
(* one that Unself reads.  The data is as unself sees it after decryption  *)
(* (SceFile is about that part).                                           *)
(***************************************************************************)
EXTENDS Makeself, Unself

both == <<vars, uvars>>

\* The SELF file of each of the ELF files is below 4 GiB.
ASSUME SizeAssumption == \A f \in Elfs : HeaderSize + round_up(f.size, ALIGNMENT) < W

\* The header fields that unself reads from the file.  Behind the last
\* section header is the version header, whose first word is 1.
SelfFile ==
    [header_len |-> HeaderSize, filesize |-> round_up(elf.size, ALIGNMENT),
     version_word |-> W, bytes |-> file,
     arch64 |-> elf.arch64, shdr_offset |-> shdr_offset,
     n_shdr |-> elf.shsize \div Sizes[elf.arch64].shdr,
     phdr |-> [n \in 1..Len(elf.phdr) |->
                 [p_off |-> elf.phdr[n].p_off, p_filesz |-> elf.phdr[n].p_filesz]],
     sec |-> [n \in 1..Len(phdr_map) |->
                 [offset |-> phdr_map[n].offset, size |-> phdr_map[n].size,
                  compressed |-> phdr_map[n].compressed]]]

NoFile == [header_len |-> 0, filesize |-> 0, version_word |-> 0, bytes |-> <<>>,
           arch64 |-> FALSE, shdr_offset |-> 0, n_shdr |-> 0, phdr |-> <<>>, sec |-> <<>>]

Start == /\ Init
         /\ in = NoFile /\ upc = "idle"
         /\ s = <<>> /\ ui = 0 /\ elf_offset = 0 /\ self_offset = 0
         /\ self_sections = <<>> /\ out = <<>>

Pack == Next /\ UNCHANGED uvars

Open == /\ pc = "done" /\ upc = "idle"
        /\ in' = SelfFile
        /\ upc' = "headers"
        /\ UNCHANGED <<vars, s, ui, elf_offset, self_offset, self_sections, out>>

Unpack == UNext /\ UNCHANGED vars

Step == Pack \/ Open \/ Unpack

RoundTrip == Start /\ [][Step]_both /\ WF_both(Step)

-----------------------------------------------------------------------------
(* Properties of both tools; those of makeself alone are in Makeself *)

OutByte(p) == Peek(out, p)

Loads == {n \in 1..Len(elf.phdr) : elf.phdr[n].p_type = PT_LOAD}
Begin(n) == elf.phdr[n].p_off
End(n) == elf.phdr[n].p_off + elf.phdr[n].p_filesz

\* The loadable segments come in file order and do not overlap.
LoadsAscend == \A m, n \in Loads : m < n => End(m) <= Begin(n)

\* Without compression the ELF file comes back whole, padded with zeros.
PlainRoundTrip ==
    upc = "done" /\ ~compression =>
        /\ Len(out) = round_up(elf.size, ALIGNMENT)
        /\ \A p \in 0..(Len(out) - 1) : OutByte(p) = IF p < elf.size THEN Elf(p) ELSE Zero

\* check_elf has put a new ELF header in front.
Repaired == upc = "done" /\ out # <<>> /\ out[1][1] = "ehdr"

\* Where the program headers end.
HeadersEnd == Sizes[elf.arch64].ehdr + Len(elf.phdr) * Sizes[elf.arch64].phdr

\* Segments that check_elf writes its headers over are lost.
Kept(n) == Repaired => Begin(n) >= HeadersEnd

\* A segment that zlib could not make smaller has no section of its own for
\* unself: it comes back only as the continuation of what is before it in the
\* file, at the start, or directly behind a compressed one.
Continues(n) ==
    \/ n = 1 /\ Begin(n) = 0
    \/ n > 1 /\ n - 1 \in Loads /\ phdr_map[n - 1].compressed /\ Begin(n) = End(n - 1)

\* With compression every segment that was compressed comes back, and so does
\* one that continues another; unself never finds a stream that it cannot
\* inflate, and has room for the pieces of all but a very long table.
SegmentsRecovered ==
    /\ upc \in {"overrun", "done", "failed"} /\ compression /\ LoadsAscend
    /\ Enough(Cardinality({n \in Loads : phdr_map[n].compressed}))
    =>  /\ upc = "done"
        /\ \A n \in Loads : (phdr_map[n].compressed \/ Continues(n)) /\ Kept(n) =>
               \A p \in Begin(n)..(End(n) - 1) : OutByte(p) = Elf(p)

\* Where the ELF header is not in a segment, check_elf makes a file that can be
\* read: the header says where the program headers, the section headers and
\* the strings are, and none of the three was written over by another one,
\* unless the file that was unpacked is shorter than the program headers.
RepairedReadable ==
    Repaired /\ round_up(elf.size, ALIGNMENT) >= HeadersEnd =>
        LET phdr == out[1][3]
            shdr == out[1][4]
        IN  /\ \A b \in 1..size.ehdr : OutByte(b - 1) = Ehdr(b, phdr, shdr)
            /\ \A b \in 1..(Len(elf.phdr) * size.phdr) : OutByte(phdr + b - 1) = PhdrByte(b)
            /\ \A b \in 1..(in.n_shdr * size.shdr) :
                 \E at \in 0..(Len(out) - 1) :
                    /\ OutByte(shdr + b - 1) = ShdrByte(Elf(elf.shoff + b - 1), at)
                    /\ \A c \in 1..Len(Shstrtab) : OutByte(at + c - 1) = Shstrtab[c]
=============================================================================
