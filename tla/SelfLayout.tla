----------------------------- MODULE SelfLayout ------------------------------
(***************************************************************************)
(* The header that makeself.c lays out in front of the ELF image.          *)
(*                                                                         *)
(* main() computes every offset from three fields of the ELF header;       *)
(* build_hdr() then copies eight pieces to those offsets,                  *)
(* calculate_hashes() overwrites slots of the key area inside the metadata *)
(* and sign_hdr() writes r and s behind the signed prefix.  No bounds      *)
(* are checked in the code: that the pieces do not overlap, that the       *)
(* signature lies outside of what it signs, and that all of it ends before *)
(* the data at header_size is only a consequence of the arithmetic.        *)
(*                                                                         *)
(* A piece of the header is the record [what, off, len].                   *)
(***************************************************************************)
EXTENDS Integers, RoundUp

CONSTANTS PhNums,      \* the values of e_phnum
          EhSizes,     \* the values of e_ehsize
          PhEntSizes   \* the values of e_phentsize

MAX_PHDR == 255
HDR_ALIGNMENT == 32
MAX_U16 == 65535

ASSUME LayoutAssumption ==
    /\ PhNums \subseteq 0..MAX_PHDR
    /\ EhSizes \subseteq 0..MAX_U16
    /\ PhEntSizes \subseteq 0..MAX_U16

VARIABLES call,     \* the next call of main()
          header,   \* the fields of the ELF header that matter here
          lay,      \* the globals set by main(), lines 549-557
          step,     \* the next memcpy of build_hdr, or section of calculate_hashes
          written   \* what has been written to self so far

layoutVars == <<call, header, lay, step, written>>

-----------------------------------------------------------------------------
Part(w, o, l) == [what |-> w, off |-> o, len |-> l]

EndOf(p) == p.off + p.len
Disjoint(p, q) == EndOf(p) <= q.off \/ EndOf(q) <= p.off
Inside(p, q) == q.off <= p.off /\ EndOf(p) <= EndOf(q)

NoLayout == [meta_header_size |-> 0, info |-> 0, elf |-> 0, phdr |-> 0, sec |-> 0,
             version |-> 0, ctrl |-> 0, meta |-> 0, header_size |-> 0]

LayoutOf(h) ==
    LET mhs     == 128 + h.e_phnum * 176 + 48
        elf     == 144
        phdr    == elf + h.e_ehsize
        sec     == round_up(phdr + h.e_phentsize * h.e_phnum, HDR_ALIGNMENT)
        version == round_up(sec + h.e_phnum * 32, HDR_ALIGNMENT)
        ctrl    == round_up(version + 16, HDR_ALIGNMENT)
        meta    == round_up(ctrl + 112, HDR_ALIGNMENT)
    IN  [meta_header_size |-> mhs, info |-> 112, elf |-> elf, phdr |-> phdr,
         sec |-> sec, version |-> version, ctrl |-> ctrl, meta |-> meta,
         header_size |-> round_up(meta + mhs, 128)]

\* The eight memcpy of build_hdr, in the order of the code.
Copies(h, l) ==
    << Part("sce", 0, 112),
       Part("info", l.info, 32),
       Part("version", l.version, 16),
       Part("ctrl", l.ctrl, 112),
       Part("sec", l.sec, h.e_phnum * 32),
       Part("phdr", l.phdr, h.e_phnum * h.e_phentsize),
       Part("meta", l.meta, l.meta_header_size),
       Part("elf", l.elf, h.e_ehsize) >>

-----------------------------------------------------------------------------
(* Inside the metadata: the section entries, then eight slots of 16 bytes   *)
(* for each section: two for the hash, four for the key of the hmac, one    *)
(* for the key and one for the iv.                                          *)

KeysAt(h, l) == l.meta + 128 + 48 * h.e_phnum

SectionEntry(h, l, n) == Part("entry", l.meta + 128 + 48 * n, 48)
\* Wrong on purpose: seven slots to a section.
BadHashSlot(h, l, n)     == Part("hash", KeysAt(h, l) + n * 7 * 16, 32)

HashSlot(h, l, n)     == Part("hash", KeysAt(h, l) + n * 8 * 16, 32)
HmacKeySlot(h, l, n)  == Part("hmac", KeysAt(h, l) + (n * 8 + 2) * 16, 64)
KeySlot(h, l, n)      == Part("key", KeysAt(h, l) + (n * 8 + 6) * 16, 16)
IvSlot(h, l, n)       == Part("iv", KeysAt(h, l) + (n * 8 + 7) * 16, 16)

\* Wrong on purpose: room for 40 bytes of r and s.
BadSigLen(l) == l.meta + l.meta_header_size - 40

\* The length that build_meta_hdr stores at meta + 0x60 and sign_hdr reads back.
SigLen(l) == l.meta + l.meta_header_size - 48

SigR(l) == Part("r", SigLen(l), 21)
SigS(l) == Part("s", SigLen(l) + 21, 21)

-----------------------------------------------------------------------------
LayoutInit ==
    /\ call = "layout"
    /\ header \in [e_phnum : PhNums, e_ehsize : EhSizes, e_phentsize : PhEntSizes]
    /\ lay = NoLayout
    /\ step = 0
    /\ written = {}

Layout == /\ call = "layout"
          /\ lay' = LayoutOf(header)
          /\ call' = "build_hdr"
          /\ step' = 1
          /\ UNCHANGED <<header, written>>

BuildHdr == /\ call = "build_hdr"
            /\ step <= 8
            /\ written' = written \cup {Copies(header, lay)[step]}
            /\ step' = step + 1
            /\ UNCHANGED <<call, header, lay>>

BuildHdrEnd == /\ call = "build_hdr"
               /\ step > 8
               /\ call' = "calculate_hashes"
               /\ step' = 0
               /\ UNCHANGED <<header, lay, written>>

CalculateHash == /\ call = "calculate_hashes"
                 /\ step < header.e_phnum
                 /\ written' = written \cup {HashSlot(header, lay, step)}
                 /\ step' = step + 1
                 /\ UNCHANGED <<call, header, lay>>

SignHdr == /\ call = "calculate_hashes"
           /\ step >= header.e_phnum
           /\ written' = written \cup {SigR(lay), SigS(lay)}
           /\ call' = "done"
           /\ UNCHANGED <<header, lay, step>>

LayoutNext == Layout \/ BuildHdr \/ BuildHdrEnd \/ CalculateHash \/ SignHdr

LayoutSpec == LayoutInit /\ [][LayoutNext]_layoutVars

-----------------------------------------------------------------------------
(* Properties *)

Layouts == [meta_header_size : Nat, info : Nat, elf : Nat, phdr : Nat, sec : Nat,
            version : Nat, ctrl : Nat, meta : Nat, header_size : Nat]

LayoutTypeOK ==
    /\ call \in {"layout", "build_hdr", "calculate_hashes", "done"}
    /\ header \in [e_phnum : PhNums, e_ehsize : EhSizes, e_phentsize : PhEntSizes]
    /\ lay \in Layouts
    /\ step \in Nat
    /\ \A p \in written : p.off \in Nat /\ p.len \in Nat

InMeta == {"hash", "r", "s"}

\* No memcpy of build_hdr overwrites a byte that another one has put there,
\* whatever the sizes in the ELF header.
PiecesApart ==
    \A p, q \in written :
        p.what \notin InMeta /\ q.what \notin InMeta /\ p # q => Disjoint(p, q)

\* Everything that is written ends before header_size, where the data starts.
HeaderFits == \A p \in written : EndOf(p) <= lay.header_size

\* A hash that calculate_hashes stores destroys nothing that is needed later:
\* no entry, no hmac key, no key and no iv of any section, and no other hash.
HashesSpareTheKeys ==
    \A p \in written : p.what = "hash" =>
        /\ Inside(p, Part("meta", lay.meta, lay.meta_header_size))
        /\ \A n \in 0..(header.e_phnum - 1) :
             /\ \A q \in {SectionEntry(header, lay, n), HmacKeySlot(header, lay, n),
                          KeySlot(header, lay, n), IvSlot(header, lay, n)} : Disjoint(p, q)
             /\ p # HashSlot(header, lay, n) => Disjoint(p, HashSlot(header, lay, n))

\* r and s are outside of the prefix that they sign, inside the metadata that
\* is encrypted with them, and all the rest of the header is in that prefix.
SignatureBehindSigned ==
    call = "done" =>
        /\ SigR(lay) \in written /\ SigS(lay) \in written
        /\ Disjoint(SigR(lay), SigS(lay))
        /\ \A p \in written :
             IF p.what \in {"r", "s"}
             THEN /\ p.off >= SigLen(lay)
                  /\ Inside(p, Part("meta", lay.meta, lay.meta_header_size))
             ELSE p.what = "meta" \/ EndOf(p) <= SigLen(lay)

\* unself.c reads the successor of section i at sec + 0x20 * (i + 1): for the
\* last one that is the version header, which must follow without a gap.
VersionFollowsSections ==
    call # "layout" => lay.version = lay.sec + 32 * header.e_phnum
=============================================================================
