------------------------------ MODULE SceCrypto ------------------------------
(***************************************************************************)
(* The encryption of SCE files in tools.c, symbolically.                   *)
(*                                                                         *)
(* A cell of memory has a value v and the set of key stream bytes that are *)
(* xored onto it.  aes128ctr() adds a key stream byte to the set or takes  *)
(* it away again, whoever runs it; the four blocks that aes256cbc_enc()    *)
(* makes are values that only the same key opens.  The iv is needed for    *)
(* the first of them alone: CBC chains the others to the block before.     *)
(* Header cells are blocks of 16 bytes, cells of the data are bytes, BLOCK *)
(* to an AES block.                                                        *)
(*                                                                         *)
(* A file is [hdr, data], sequences of cells; block or byte a is at index  *)
(* a + 1.  The layout of a header whose metadata starts at block m, for n  *)
(* sections, in blocks: 2..5 metadata key, zero, iv, zero; 6, 7 counts;    *)
(* from 8 on three for each section; then eight slots for each section;    *)
(* then the signature.                                                     *)
(***************************************************************************)
EXTENDS Integers, Sequences, FiniteSets

CONSTANT BLOCK   \* bytes of an AES block, 16 in the code

ASSUME BlockAssumption == BLOCK \in Nat /\ BLOCK > 0

Cell(value) == [v |-> value, pads |-> {}]

ZERO == <<"zero">>
GARBAGE == <<"garbage">>
NONE == -1    \* 0xffffffff as an index of a key, an iv or a hash

\* What is seen of a cell: its value only when no key stream is left on it.
Seen(c) == IF c.pads = {} THEN c.v ELSE GARBAGE

SymDiff(S, T) == (S \ T) \cup (T \ S)

CeilDiv(a, b) == (a + b - 1) \div b

\* aes128ctr in place over len cells from address at, width cells to a block.
\* The iv is <<nonce, count>>; it is advanced once for each block begun.
Pad(key, iv, x, width) ==
    [key |-> key, nonce |-> iv[1], count |-> iv[2] + x \div width, pos |-> x % width]

aes128ctr(key, iv, cells, at, len, width) ==
    [a \in 1..Len(cells) |->
        IF a - 1 \in at..(at + len - 1)
        THEN [cells[a] EXCEPT !.pads = SymDiff(@, {Pad(key, iv, a - 1 - at, width)})]
        ELSE cells[a]]

advanced(iv, len, width) == <<iv[1], iv[2] + CeilDiv(len, width)>>

\* aes256cbc_enc and aes256cbc over the four blocks of a sequence.  Another iv
\* spoils the first block; another key, or a block that is not as it was made,
\* leaves nothing to read (a bad block spoils the block behind it, too).
aes256cbc_enc(key, iv, four) == [j \in 1..4 |-> Cell(<<"cbc", key, iv, four, j>>)]

aes256cbc(key, iv, four) ==
    IF /\ \A j \in 1..4 : four[j].v[1] = "cbc"
       /\ four = aes256cbc_enc(key, four[1].v[3], four[1].v[4])
    THEN IF iv = four[1].v[3] THEN four[1].v[4]
         ELSE [four[1].v[4] EXCEPT ![1] = Cell(GARBAGE)]
    ELSE [j \in 1..4 |-> Cell(GARBAGE)]

-----------------------------------------------------------------------------
(* The fields of the metadata at block m *)

Blocks(cells, at, n) == SubSeq(cells, at + 1, at + n)
Overwrite(cells, at, new) ==
    [a \in 1..Len(cells) |-> IF a - 1 \in at..(at + Len(new) - 1) THEN new[a - at] ELSE cells[a]]

MetaKey(f, m) == Seen(f.hdr[m + 2 + 1])
MetaIv(f, m)  == <<Seen(f.hdr[m + 4 + 1]), 0>>

SigLenField(f, m) == Seen(f.hdr[m + 6 + 1])[2]
NHdr(f, m)        == Seen(f.hdr[m + 6 + 1])[3]

EntryAt(m, i) == m + 8 + 3 * i
Place(f, m, i) == Seen(f.hdr[EntryAt(m, i) + 1])       \* <<"place", offset, size>>
ShaId(f, m, i) == Seen(f.hdr[EntryAt(m, i) + 2])[2]    \* <<"sha", id>>
KeyIds(f, m, i) == Seen(f.hdr[EntryAt(m, i) + 3])      \* <<"keys", keyid, ivid>>

SlotsAt(m, n) == m + 8 + 3 * n
Slot(f, m, x) == Seen(f.hdr[SlotsAt(m, NHdr(f, m)) + x + 1])

-----------------------------------------------------------------------------
\* Wrong on purpose: the two blocks of counts are left out.
BadEncryptHeader(f, m, k) ==
    LET ctr == aes128ctr(MetaKey(f, m), MetaIv(f, m), f.hdr, m + 8, Len(f.hdr) - m - 8, 1)
    IN  [f EXCEPT !.hdr = Overwrite(ctr, m + 2, aes256cbc_enc(k.aes, k.iv, Blocks(ctr, m + 2, 4)))]

\* sce_encrypt_header: the key stream from block 6 to the end of the header,
\* and then the four blocks with the metadata key.
sce_encrypt_header(f, m, k) ==
    LET ctr == aes128ctr(MetaKey(f, m), MetaIv(f, m), f.hdr, m + 6, Len(f.hdr) - m - 6, 1)
    IN  [f EXCEPT !.hdr = Overwrite(ctr, m + 2, aes256cbc_enc(k.aes, k.iv, Blocks(ctr, m + 2, 4)))]

\* The first key of the list under which the two pads of zeros appear.  They are
\* the second and the fourth block: the iv has no part in them.
Opens(f, m, k) ==
    LET tmp == aes256cbc(k.aes, k.iv, Blocks(f.hdr, m + 2, 4))
    IN  Seen(tmp[2]) = ZERO /\ Seen(tmp[4]) = ZERO

Opening(f, m, klist) == {i \in 1..Len(klist) : Opens(f, m, klist[i])}

FirstOpening(f, m, klist) ==
    CHOOSE i \in Opening(f, m, klist) : \A j \in Opening(f, m, klist) : i <= j

\* sce_decrypt_header once the key is found: two calls of aes128ctr that
\* share the running iv, first two blocks and then the rest.
HeaderOpened(f, m, k) ==
    [f EXCEPT !.hdr = Overwrite(@, m + 2, aes256cbc(k.aes, k.iv, Blocks(@, m + 2, 4)))]

\* Wrong on purpose: the length of the second call is a block too short.
BadDecryptHeader(f, m, k) ==
    LET g     == HeaderOpened(f, m, k)
        iv    == MetaIv(g, m)
        first == aes128ctr(MetaKey(g, m), iv, g.hdr, m + 6, 2, 1)
        rest  == aes128ctr(MetaKey(g, m), advanced(iv, 2, 1), first,
                           m + 8, Len(g.hdr) - m - 9, 1)
    IN  [g EXCEPT !.hdr = rest]

sce_decrypt_header(f, m, k) ==
    LET g     == HeaderOpened(f, m, k)
        iv    == MetaIv(g, m)
        first == aes128ctr(MetaKey(g, m), iv, g.hdr, m + 6, 2, 1)
        rest  == aes128ctr(MetaKey(g, m), advanced(iv, 2, 1), first,
                           m + 8, Len(g.hdr) - m - 8, 1)
    IN  [g EXCEPT !.hdr = rest]

\* One turn of sce_decrypt_data, which is also sce_encrypt_data: the key
\* stream of section i over its bytes, from a fresh copy of its iv.
CryptSection(f, m, i) ==
    LET ids == KeyIds(f, m, i)
        at  == Place(f, m, i)[2] - BLOCK * Len(f.hdr)
    IN  IF ids[2] = NONE \/ ids[3] = NONE THEN f
        ELSE [f EXCEPT !.data = aes128ctr(Slot(f, m, ids[2]), <<Slot(f, m, ids[3]), 0>>,
                                          @, at, Place(f, m, i)[3], BLOCK)]

=============================================================================
