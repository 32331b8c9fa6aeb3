------------------------------- MODULE Unself --------------------------------
(***************************************************************************)
(* unself.c after decryption: read_sections() rebuilds, from the section   *)
(* headers of a SELF, the list of the pieces of the ELF file, write_elf()  *)
(* writes them out, and check_elf() adds the headers and tables if what    *)
(* was written does not begin with an ELF header.                          *)
(*                                                                         *)
(* Only the compressed sections are listed by their headers; the gaps      *)
(* between them become uncompressed pieces that are copied as they are.    *)
(* The running positions self_offset and elf_offset are 32 bit words while *)
(* the headers hold 64 bit ones, that the loop compares them with: what is *)
(* assigned is taken modulo W, what is compared is not; in the code        *)
(* W = 2^32.  C counts s[] and self_sections[] from 0, the sequences here  *)
(* from 1.                                                                 *)
(*                                                                         *)
(* Both arrays have MAX_SECTIONS elements and no write to them is checked: *)
(* the model stops in "overrun" where the code writes behind one of them.  *)
(***************************************************************************)
EXTENDS Integers, Sequences, FiniteSets, Functions, SelfBytes

CONSTANTS W,        \* number of values of a u32
          MAX_SECTIONS,
          Inputs,   \* the SELF files to read
          Sizes     \* of the parts of an ELF file, for arch64 TRUE and FALSE

\* What check_elf writes: ehdr bytes of the ELF header, phdr of each program
\* header, shdr of each section header, for which it leaves stride bytes.  In
\* the code 0x48, 0x38, 0x40 and 0x40, or 0x34, 0x20, 0x28 and 0x40.
ASSUME SizesAssumption ==
    /\ Sizes \in [BOOLEAN -> [ehdr : Nat \ {0}, phdr : Nat, shdr : Nat \ {0}, stride : Nat]]
    /\ \A arch64 \in BOOLEAN : Sizes[arch64].shdr <= Sizes[arch64].stride

\* Whatever the 64 bit fields of the headers hold.
SelfFiles ==
    [header_len : Nat, filesize : Nat, version_word : Nat,
     phdr : Seq([p_off : Nat, p_filesz : Nat]),
     sec : Seq([offset : Nat, size : Nat, compressed : BOOLEAN]),
     arch64 : BOOLEAN, shdr_offset : Nat, n_shdr : Nat, bytes : Seq(Bytes)]

ASSUME WAssumption == W \in Nat /\ W > 0
ASSUME MaxAssumption == MAX_SECTIONS \in Nat /\ MAX_SECTIONS > 0
ASSUME InputsAssumption == \A f \in Inputs : f \in SelfFiles /\ Len(f.sec) = Len(f.phdr)

VARIABLES in,             \* the mapped SELF and its header fields
          upc,
          s,              \* compressed sections found by the headers
          ui,             \* next header, then next section, then next piece
          elf_offset, self_offset,
          self_sections,  \* the pieces
          out             \* the output file

uvars == <<in, upc, s, ui, elf_offset, self_offset, self_sections, out>>

\* in.phdr and in.sec are sequences over the program headers, in.version_word
\* is what is read where a header after the last one would be.
e_phnum == Len(in.phdr)

read_section(n) ==
    [idx |-> n, offset |-> in.sec[n].offset, size |-> in.sec[n].size,
     next |-> IF n = e_phnum THEN in.version_word ELSE in.sec[n + 1].offset]

Piece(off, size, z, usize, eoff) ==
    [offset |-> off, size |-> size, compressed |-> z,
     size_uncompressed |-> usize, elf_offset |-> eoff]

\* Wrong on purpose: no qsort.
BadSortedOrders(t) == {t}

\* The orders qsort may leave: sorted by offset, equal offsets in any order.
SortedOrders(t) ==
    {[n \in 1..Len(t) |-> t[f[n]]] :
        f \in {g \in Bijection(1..Len(t), 1..Len(t)) :
                 \A a, b \in 1..Len(t) : a < b => t[g[a]].offset <= t[g[b]].offset}}

-----------------------------------------------------------------------------
InitWith(input) ==
    /\ in = input
    /\ upc = "headers"
    /\ s = <<>> /\ ui = 0
    /\ elf_offset = 0 /\ self_offset = 0
    /\ self_sections = <<>>
    /\ out = <<>>

UInit == \E input \in Inputs : InitWith(input)

\* Every header is read into the first free element of s.
ReadHeader ==
    /\ upc = "headers"
    /\ ui < e_phnum /\ Len(s) < MAX_SECTIONS
    /\ s' = IF in.sec[ui + 1].compressed THEN Append(s, read_section(ui + 1)) ELSE s
    /\ ui' = ui + 1
    /\ UNCHANGED <<in, upc, elf_offset, self_offset, self_sections, out>>

\* Wrong on purpose: the data is taken to start with the file.
BadSort ==
    /\ upc = "headers"
    /\ ui >= e_phnum
    /\ s' \in SortedOrders(s)
    /\ self_offset' = 0
    /\ ui' = 0
    /\ upc' = "walk"
    /\ UNCHANGED <<in, elf_offset, self_sections, out>>

Sort ==
    /\ upc = "headers"
    /\ ui >= e_phnum
    /\ s' \in SortedOrders(s)
    /\ self_offset' = in.header_len % W
    /\ ui' = 0
    /\ upc' = "walk"
    /\ UNCHANGED <<in, elf_offset, self_sections, out>>

\* while (elf_offset < filesize), the three branches of its body

Walking == upc = "walk" /\ elf_offset < in.filesize /\ Len(self_sections) < MAX_SECTIONS

\* Every branch appends a piece and moves on.
Take(x, eoff, soff, next) ==
    /\ self_sections' = Append(self_sections, x)
    /\ elf_offset' = eoff
    /\ self_offset' = soff
    /\ ui' = next
    /\ UNCHANGED <<in, upc, s, out>>

Rest ==
    /\ Walking
    /\ ui = Len(s)
    /\ LET rest == (in.filesize - elf_offset) % W
       IN  Take(Piece(self_offset, rest, FALSE, rest, elf_offset),
                in.filesize % W, self_offset, ui)

\* The compressed section x of segment p, which starts at self_offset.
Whole(x, p) == Piece(x.offset, x.size % W, TRUE, p.p_filesz % W, p.p_off % W)

\* Wrong on purpose: elf_offset is left at the start of the segment.
BadTakeStays(x, p) ==
    Take(Whole(x, p), p.p_off % W, x.next % W, ui + 1)

TakeWhole(x, p) ==
    Take(Whole(x, p), (p.p_off + p.p_filesz) % W, x.next % W, ui + 1)

Compressed ==
    /\ Walking
    /\ ui < Len(s)
    /\ self_offset = s[ui + 1].offset
    /\ TakeWhole(s[ui + 1], in.phdr[s[ui + 1].idx])

\* Wrong on purpose: self_offset does not advance over the gap.
BadTakeGap(x, gap) ==
    Take(Piece(self_offset, gap, FALSE, gap, elf_offset),
         (elf_offset + gap) % W, self_offset, ui)

TakeGap(x, gap) ==
    Take(Piece(self_offset, gap, FALSE, gap, elf_offset),
         (elf_offset + gap) % W, x.offset % W, ui)

Gap ==
    /\ Walking
    /\ ui < Len(s)
    /\ self_offset # s[ui + 1].offset
    /\ TakeGap(s[ui + 1], (in.phdr[s[ui + 1].idx].p_off - elf_offset) % W)

\* The next header, or the next piece, has no place in its array.
Overrun ==
    /\ \/ upc = "headers" /\ ui < e_phnum /\ Len(s) >= MAX_SECTIONS
       \/ upc = "walk" /\ elf_offset < in.filesize /\ Len(self_sections) >= MAX_SECTIONS
    /\ upc' = "overrun"
    /\ UNCHANGED <<in, s, ui, elf_offset, self_offset, self_sections, out>>

\* Wrong on purpose: the walk is over only at exactly the size of the file.
BadWalkEnd ==
    /\ upc = "walk"
    /\ elf_offset = in.filesize
    /\ upc' = "write"
    /\ ui' = 0
    /\ UNCHANGED <<in, s, elf_offset, self_offset, self_sections, out>>

WalkEnd ==
    /\ upc = "walk"
    /\ elf_offset >= in.filesize
    /\ upc' = "write"
    /\ ui' = 0
    /\ UNCHANGED <<in, s, elf_offset, self_offset, self_sections, out>>

-----------------------------------------------------------------------------
\* write_elf: seek to the place of the piece, then write it.

piece == self_sections[ui + 1]
Content == [b \in 1..piece.size |-> Peek(in.bytes, piece.offset + b - 1)]
Unpacked == Inflated(Content, piece.size_uncompressed)

Writing == upc = "write" /\ ui < Len(self_sections)

WritePlain ==
    /\ Writing
    /\ ~piece.compressed
    /\ out' = Write(out, piece.elf_offset, Content)
    /\ ui' = ui + 1
    /\ UNCHANGED <<in, upc, s, elf_offset, self_offset, self_sections>>

\* Wrong on purpose: no seek before the write.
BadWriteUnpacked ==
    /\ Writing
    /\ piece.compressed
    /\ IsStream(Content, piece.size_uncompressed)
    /\ out' = Write(out, Len(out), Unpacked)
    /\ ui' = ui + 1
    /\ UNCHANGED <<in, upc, s, elf_offset, self_offset, self_sections>>

WriteUnpacked ==
    /\ Writing
    /\ piece.compressed
    /\ IsStream(Content, piece.size_uncompressed)
    /\ out' = Write(out, piece.elf_offset, Unpacked)
    /\ ui' = ui + 1
    /\ UNCHANGED <<in, upc, s, elf_offset, self_offset, self_sections>>

\* decompress() calls fail(), which exits.
InflateFails ==
    /\ Writing
    /\ piece.compressed
    /\ ~IsStream(Content, piece.size_uncompressed)
    /\ upc' = "failed"
    /\ UNCHANGED <<in, s, ui, elf_offset, self_offset, self_sections, out>>

WriteEnd ==
    /\ upc = "write"
    /\ ui >= Len(self_sections)
    /\ upc' = "check"
    /\ UNCHANGED <<in, s, ui, elf_offset, self_offset, self_sections, out>>

-----------------------------------------------------------------------------
\* check_elf: the ELF header stands for its first byte.  Of an empty file
\* nothing is read, and what was on the stack is compared.

KeepElf ==
    /\ upc = "check"
    /\ out = <<>> \/ out[1] = Elf(0)
    /\ upc' = "done"
    /\ UNCHANGED <<in, s, ui, elf_offset, self_offset, self_sections, out>>

n_phdr == e_phnum
size == Sizes[in.arch64]
Shstrtab == [b \in 1..11 |-> <<"shstrtab", b>>]

\* Bytes of the tables: the ELF header says where the two others are, and the
\* section headers, whose names remove_shnames takes away, where the new
\* table of strings is.
Ehdr(b, phdr_offset_new, shdr_offset_new) == <<"ehdr", b, phdr_offset_new, shdr_offset_new>>
PhdrByte(b) == <<"phdr", b>>
ShdrByte(byte, shstrtab_offset) == <<"shdr", byte, shstrtab_offset>>

\* Wrong on purpose: the names go where the section headers begin.
BadStrtabAt(shdr_offset_new) == shdr_offset_new

StrtabAt(shdr_offset_new) == shdr_offset_new + in.n_shdr * size.stride

\* The program headers behind the ELF header, over what is there, the
\* section headers behind the end of the file, then header and names.
RepairElf ==
    /\ upc = "check"
    /\ out = <<>> \/ out[1] # Elf(0)
    /\ LET shdr_offset_new == Len(out)
           shstrtab_offset == StrtabAt(shdr_offset_new)
           phdrs == Write(out, size.ehdr, [b \in 1..(n_phdr * size.phdr) |-> PhdrByte(b)])
           shdrs == Write(phdrs, shdr_offset_new,
                      [b \in 1..(in.n_shdr * size.shdr) |->
                         ShdrByte(Peek(in.bytes, in.shdr_offset + b - 1), shstrtab_offset)])
           ehdr  == Write(shdrs, 0, [b \in 1..size.ehdr |-> Ehdr(b, size.ehdr, shdr_offset_new)])
       IN  out' = Write(ehdr, shstrtab_offset, Shstrtab)
    /\ upc' = "done"
    /\ UNCHANGED <<in, s, ui, elf_offset, self_offset, self_sections>>

UNext == \/ ReadHeader \/ Sort
         \/ Rest \/ Compressed \/ Gap \/ Overrun \/ WalkEnd
         \/ WritePlain \/ WriteUnpacked \/ InflateFails \/ WriteEnd
         \/ KeepElf \/ RepairElf

USpec == UInit /\ [][UNext]_uvars /\ WF_uvars(UNext)

-----------------------------------------------------------------------------
(* Properties *)

SelfSec == [idx : Nat, offset : Nat, size : Nat, next : Nat]
Pieces == [offset : 0..(W - 1), size : 0..(W - 1), compressed : BOOLEAN,
           size_uncompressed : 0..(W - 1), elf_offset : 0..(W - 1)]

TypeOK == /\ in \in SelfFiles
          /\ upc \in {"headers", "walk", "overrun", "write", "check", "done", "failed"}
          /\ s \in Seq(SelfSec)
          /\ ui \in Nat
          /\ elf_offset \in 0..(W - 1) /\ self_offset \in 0..(W - 1)
          /\ self_sections \in Seq(Pieces)

\* What is compared with the running positions fits them.
Narrow == /\ in.filesize < W
          /\ \A n \in 1..e_phnum : in.sec[n].compressed => in.sec[n].offset < W

\* Where n sections are compressed, no more than 2 * n + 1 pieces are needed.
Enough(n) == 2 * n + 1 <= MAX_SECTIONS

\* Neither array is written behind its end in a file whose offsets fit 32 bits
\* and that has no more than 127 compressed sections, in whatever order and
\* place they lie.  A file of 4 GiB or more is never written: the walk goes on
\* until the array is full.
PiecesBounded ==
    /\ Narrow => Len(self_sections) <= 2 * Len(s) + 1
    /\ upc = "overrun" /\ Narrow => ~Enough(Len(s))
    /\ in.filesize >= W => upc \in {"headers", "walk", "overrun"}

PieceEnd(x) == (x.elf_offset + x.size_uncompressed) % W

\* Between two pieces there is neither hole nor overlap, unless both are
\* compressed: then each lies where its own program header says.
PiecesFollow ==
    \A n \in 1..(Len(self_sections) - 1) :
        \/ self_sections[n].compressed /\ self_sections[n + 1].compressed
        \/ self_sections[n + 1].elf_offset = PieceEnd(self_sections[n])

\* Compressed segments of a file below 4 GiB that lie in the SELF in the order
\* they have in the ELF file, and do not overlap there; the rest of the headers
\* is arbitrary.
WellPlaced ==
    LET Z == {n \in 1..e_phnum : in.sec[n].compressed}
        End(n) == in.phdr[n].p_off + in.phdr[n].p_filesz
    IN  /\ Narrow
        /\ \A n \in Z : in.phdr[n].p_filesz > 0 /\ End(n) <= in.filesize
        /\ \A m, n \in Z : m # n =>
             /\ in.sec[m].offset # in.sec[n].offset
             /\ in.sec[m].offset < in.sec[n].offset => End(m) <= in.phdr[n].p_off

\* Then no piece is written over an earlier one, and every compressed segment
\* has exactly one piece: none is lost, whatever follows it in the file.
EachSegmentOnce ==
    WellPlaced =>
        /\ \A m, n \in 1..Len(self_sections) : m < n =>
             self_sections[m].elf_offset + self_sections[m].size_uncompressed
                <= self_sections[n].elf_offset
        /\ upc = "write" =>
             \A n \in 1..e_phnum : in.sec[n].compressed =>
               Cardinality({x \in 1..Len(self_sections) :
                    /\ self_sections[x].compressed
                    /\ self_sections[x].offset = in.sec[n].offset
                    /\ self_sections[x].elf_offset = in.phdr[n].p_off
                    /\ self_sections[x].size_uncompressed = in.phdr[n].p_filesz}) = 1

Ended == Narrow /\ Enough(Cardinality({n \in 1..e_phnum : in.sec[n].compressed}))
            => upc \in {"done", "failed"}

\* The walk ends and the file is written, or zlib refuses it, wherever the
\* offsets fit 32 bits and the array is large enough.
Terminates == <>Ended
=============================================================================
