------------------------------- MODULE ElfFile -------------------------------
(***************************************************************************)
(* What makeself packs: the fields that parse_elf() takes from an ELF file.*)
(***************************************************************************)
EXTENDS Integers, Sequences

CONSTANTS ALIGNMENT,   \* 0x20 in the code
          HeaderSize,  \* the header_size that SelfLayout computes
          Elfs         \* the ELF files to pack

ASSUME AlignmentAssumption ==
    /\ ALIGNMENT \in Nat /\ ALIGNMENT > 0
    /\ HeaderSize \in Nat /\ HeaderSize % ALIGNMENT = 0

\* The fields of an ELF file: its class, its size, the program headers, and
\* where the section header table is and how long.  An empty file has no ELF
\* header to parse.
ElfFiles ==
    [arch64 : BOOLEAN, size : Nat \ {0}, phdr : Seq([p_type : {0, 1}, p_off : Nat, p_filesz : Nat]),
     shoff : Nat, shsize : Nat]

\* The tables of an ELF file lie inside of it.
ASSUME ElfsAssumption ==
    \A f \in Elfs :
        /\ f \in ElfFiles
        /\ f.shoff + f.shsize <= f.size
        /\ \A n \in 1..Len(f.phdr) : f.phdr[n].p_off + f.phdr[n].p_filesz <= f.size

=============================================================================
