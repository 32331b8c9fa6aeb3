------------------------------- MODULE SceFile -------------------------------
(***************************************************************************)
(* An SCE file from its producer to its readers.                           *)
(*                                                                         *)
(* makeself and pkg build the plain file, put the hmac of every section    *)
(* into the metadata, sign the header, encrypt the data and at last the    *)
(* header.  sceverify, unself and unpkg undo that in the opposite order;   *)
(* sceverify then checks the signature and the hashes.  Between the two    *)
(* one cell of the file may be damaged, any one.  A reader follows what it *)
(* finds: an offset, a length or a count that is damaged, or decrypted     *)
(* with the wrong key, is a wild number, and may be any number.            *)
(*                                                                         *)
(* SHA-1, the hmac and ECDSA are ideal: a value is the hash of exactly     *)
(* what was hashed, a signature is made by one private key.                *)
(***************************************************************************)
EXTENDS SceCrypto

CONSTANTS Files,     \* what is to be packed: a set of records, see FileType
          KeyLists,  \* what keys_get may return: sequences of [aes, iv, pub]
          Signer,    \* the key that the producer uses, [aes, iv, pub]
          Wilds,     \* the sets of cells where a section with a wild offset
                     \* and a wild size may lie
          W          \* the numbers of a u32, 2^32 in the code

FileType == [meta : Nat, flags : {"retail", "devkit", "other_devkit"},
             sections : Seq([off : Nat, size : Nat, enc : BOOLEAN]),
             length : Nat, filesize : Nat]
Keys == [aes : STRING, iv : STRING, pub : STRING]

\* Sections lie in the data that is packed; the keys are read from files.  The
\* size of a section is a u64, but sha1_hmac takes a u32 and aes128ctr counts
\* with one: smaller sections are all that they do in full.
ASSUME FilesAssumption ==
    \A j \in Files :
        /\ j \in FileType
        /\ \A x \in 1..Len(j.sections) : /\ j.sections[x].off + j.sections[x].size <= j.length
                                         /\ j.sections[x].size < W
ASSUME KeysAssumption == Signer \in Keys /\ KeyLists \subseteq Seq(Keys)

VARIABLES job,      \* the file to be packed
          klist, reader,
          damaged, harm,   \* the cell that is damaged, and how
          pc, i,
          f,        \* the file, or the memory image of it
          keyid,    \* the index of sce_decrypt_header
          sig, res  \* what sceverify reports

vars == <<job, klist, reader, damaged, harm, pc, i, f, keyid, sig, res>>

n == Len(job.sections)
M == job.meta

-----------------------------------------------------------------------------
(* The plain file *)

Rand(name, x) == <<"rand", name, x>>
Plain(a) == <<"plain", a>>

SigAt == M + 8 + 11 * n
HdrLen == SigAt + 3 + 1       \* padded up to the next 0x80

SlotCell(x) == IF x % 8 \in {0, 1} THEN Cell(ZERO) ELSE Cell(Rand("slot", x))

\* Wrong on purpose: all sections name the first key and iv.
BadEntryCell(x) ==
    LET e  == job.sections[x \div 3 + 1]
        at == (x \div 3) * 8
    IN  CASE x % 3 = 0 -> Cell(<<"place", BLOCK * HdrLen + e.off, e.size>>)
          [] x % 3 = 1 -> Cell(<<"sha", at>>)
          [] x % 3 = 2 -> Cell(IF e.enc THEN <<"keys", 6, 7>>
                               ELSE <<"keys", NONE, NONE>>)

EntryCell(x) ==
    LET e  == job.sections[x \div 3 + 1]
        at == (x \div 3) * 8
    IN  CASE x % 3 = 0 -> Cell(<<"place", BLOCK * HdrLen + e.off, e.size>>)
          [] x % 3 = 1 -> Cell(<<"sha", at>>)
          [] x % 3 = 2 -> Cell(IF e.enc THEN <<"keys", at + 6, at + 7>>
                               ELSE <<"keys", NONE, NONE>>)

HeaderCell(a) ==
    CASE a < M + 2                  -> Cell(<<"head", a>>)
      [] a = M + 2                  -> Cell(Rand("key", 0))
      [] a = M + 4                  -> Cell(Rand("iv", 0))
      [] a \in {M + 3, M + 5}       -> Cell(ZERO)
      [] a = M + 6                  -> Cell(<<"counts", SigAt, n>>)
      [] a = M + 7                  -> Cell(<<"more_counts">>)
      [] a \in (M + 8)..(M + 7 + 3 * n)       -> EntryCell(a - M - 8)
      [] a \in (M + 8 + 3 * n)..(SigAt - 1)   -> SlotCell(a - M - 8 - 3 * n)
      [] a >= SigAt                 -> Cell(ZERO)

PlainFile == [hdr |-> [a \in 1..HdrLen |-> HeaderCell(a - 1)],
              data |-> [a \in 1..job.length |-> Cell(Plain(a))]]

\* Wrong on purpose: all of the data is hashed for every section.
BadContent(g, x) ==
    LET at == Place(g, M, x)[2] - BLOCK * Len(g.hdr)
    IN  [b \in 1..job.length |-> Seen(g.data[b])]

\* The bytes of section x as far as they are in the file.
Content(g, x) ==
    LET at == Place(g, M, x)[2] - BLOCK * Len(g.hdr)
    IN  [b \in 1..Place(g, M, x)[3] |-> Seen(g.data[at + b])]

sha1_hmac(g, x) ==
    LET id == ShaId(g, M, x)
    IN  <<"hmac", [b \in 1..4 |-> Slot(g, M, id + 1 + b)], Content(g, x)>>

HashBlocks(g, x) == <<Cell(sha1_hmac(g, x)), Cell(<<"hash_end", sha1_hmac(g, x)>>)>>

\* Wrong on purpose: the slots of the sections are not signed.
BadSigned(g, len) == [a \in 1..SlotsAt(M, n) |-> Seen(g.hdr[a])]

\* What is signed by a signature behind the first len blocks.
Signed(g, len) == [a \in 1..len |-> Seen(g.hdr[a])]

\* r and s are 42 octets: two blocks and the beginning of a third.
SignatureOf(pub, signed, b) == <<"signature", pub, signed, b>>
Signature(g) ==
    [b \in 1..3 |-> Cell(SignatureOf(Signer.pub, Signed(g, SigLenField(g, M)), b))]

-----------------------------------------------------------------------------
Init == /\ job \in Files
        /\ klist \in KeyLists
        /\ reader \in {"sceverify", "unself", "unpkg"}
        /\ damaged = NONE /\ harm = "none"
        /\ pc = "hash" /\ i = 0
        /\ f = PlainFile
        /\ keyid = NONE
        /\ sig = "none" /\ res = <<>>

CalculateHash ==
    /\ pc = "hash" /\ i < n
    /\ f' = [f EXCEPT !.hdr = Overwrite(@, SlotsAt(M, n) + 8 * i, HashBlocks(f, i))]
    /\ i' = i + 1
    /\ UNCHANGED <<job, klist, reader, damaged, harm, pc, keyid, sig, res>>

Sign ==
    /\ pc = "hash" /\ i >= n
    /\ f' = [f EXCEPT !.hdr = Overwrite(@, SigLenField(f, M), Signature(f))]
    /\ pc' = "encrypt" /\ i' = 0
    /\ UNCHANGED <<job, klist, reader, damaged, harm, keyid, sig, res>>

EncryptData ==
    /\ pc = "encrypt" /\ i < NHdr(f, M)
    /\ f' = CryptSection(f, M, i)
    /\ i' = i + 1
    /\ UNCHANGED <<job, klist, reader, damaged, harm, pc, keyid, sig, res>>

EncryptHeader ==
    /\ pc = "encrypt" /\ i >= NHdr(f, M)
    /\ f' = sce_encrypt_header(f, M, Signer)
    /\ pc' = "written" /\ i' = 0
    /\ UNCHANGED <<job, klist, reader, damaged, harm, keyid, sig, res>>

\* Blocks that are not used to their end: the last block of the signature and
\* the second block of a hash, 20 octets of 32.
TailBlocks == {SigAt + 3} \cup {SlotsAt(M, n) + 8 * x + 2 : x \in 0..(n - 1)}

\* One cell of the stored file goes bad: a byte of the data or a block of the
\* header, or of a block only octets that stand behind those in use.
Damage ==
    /\ pc = "written" /\ damaged = NONE
    /\ \E a \in 1..(HdrLen + job.length), how \in {"bad", "tail"} :
         /\ how = "tail" => a \in TailBlocks
         /\ damaged' = a /\ harm' = how
         /\ f' = IF a <= HdrLen THEN [f EXCEPT !.hdr[a].v = <<how, f.hdr[a].v>>]
                 ELSE [f EXCEPT !.data[a - HdrLen].v = <<how, @>>]
    /\ UNCHANGED <<job, klist, reader, pc, i, keyid, sig, res>>

-----------------------------------------------------------------------------
(* Wild numbers *)

\* The flags, offsets and lengths of the file are not what they were.
HeadLost == damaged \in 1..(M + 2)

Unreadable(a) == Seen(f.hdr[a])[1] \in {"bad", "tail", "garbage"}

\* The length of what is signed and the number of the sections, or the place,
\* the hash or the keys of section x, are not what they were.
CountsLost == Unreadable(M + 7)
EntryLost(x) == CountsLost \/ \E r \in 1..3 : Unreadable(EntryAt(M, x) + r)

\* A turn for another section.  With a wild count there may be any number of
\* turns; n is the bound of those that the model follows.
Turns == i < IF CountsLost THEN n ELSE NHdr(f, M)
NoTurns == ~CountsLost => i >= NHdr(f, M)

\* What was in the cells of S is no longer known.
Spoilt(cells, at, S) ==
    [a \in 1..Len(cells) |-> IF at + a \in S THEN [cells[a] EXCEPT !.v = GARBAGE] ELSE cells[a]]
Spoiled(g, S) == [hdr |-> Spoilt(g.hdr, 0, S), data |-> Spoilt(g.data, HdrLen, S)]

\* With a wild number the reader may stop, or leave the file, at any time.
Stray ==
    /\ \/ pc \in {"written", "decrypt_header", "decrypt_data", "verify"} /\ HeadLost
       \/ pc \in {"decrypt_data", "verify"} /\ \E x \in 0..(n - 1) : EntryLost(x)
       \/ pc \in {"decrypt_data", "verify"} /\ CountsLost
    /\ pc' = "lost"
    /\ UNCHANGED <<job, klist, reader, damaged, harm, i, f, keyid, sig, res>>

-----------------------------------------------------------------------------
\* unself copies the file of a development kit as it is, without decryption.
Skips == reader = "unself" /\ job.flags = "devkit"

\* sceverify stops at any file with the top bit set.
Refuses == reader = "sceverify" /\ job.flags \in {"devkit", "other_devkit"}

Open ==
    /\ pc = "written"
    /\ \/ pc' = IF Refuses THEN "refused" ELSE IF Skips THEN "extract" ELSE "decrypt_header"
       \/ HeadLost /\ pc' \in {"refused", "extract", "decrypt_header"}
    /\ UNCHANGED <<job, klist, reader, damaged, harm, i, f, keyid, sig, res>>

DecryptHeader ==
    /\ pc = "decrypt_header"
    /\ IF Opening(f, M, klist) = {}
       THEN pc' = "failed" /\ UNCHANGED <<f, keyid>>
       ELSE /\ keyid' = FirstOpening(f, M, klist)
            /\ LET g == sce_decrypt_header(f, M, klist[keyid'])
               IN  f' = g \/ (HeadLost /\ \E S \in Wilds : f' = Spoiled(g, S))
            /\ pc' = "decrypt_data"
    /\ UNCHANGED <<job, klist, reader, damaged, harm, i, sig, res>>

DecryptData ==
    /\ pc = "decrypt_data" /\ Turns
    /\ IF EntryLost(i) THEN \E S \in Wilds : f' = Spoiled(f, S)
       ELSE f' = CryptSection(f, M, i)
    /\ i' = i + 1
    /\ UNCHANGED <<job, klist, reader, damaged, harm, pc, keyid, sig, res>>

Decrypted ==
    /\ pc = "decrypt_data" /\ NoTurns
    /\ pc' = IF reader # "sceverify" THEN "extract"
             ELSE IF klist[keyid].pub = "none" THEN "failed" ELSE "verify"
    /\ i' = 0
    /\ UNCHANGED <<job, klist, reader, damaged, harm, f, keyid, sig, res>>

\* memcmp, and reading r and s, stop before the unused end of a block.
Alike(cell, v) == Seen(cell) \in {v, <<"tail", v>>}

\* A signature with the public key, of the len blocks before it.
GoodSignature(len, pub) ==
    /\ \A b \in 1..2 : Seen(f.hdr[len + b]) = SignatureOf(pub, Signed(f, len), b)
    /\ Alike(f.hdr[len + 3], SignatureOf(pub, Signed(f, len), 3))

\* A wild length leads anywhere; outside of the header there is no signature.
SigLens == IF CountsLost THEN 0..(HdrLen - 3) ELSE {SigLenField(f, M)}

VerifySignature ==
    /\ pc = "verify" /\ sig = "none"
    /\ \E len \in SigLens :
         sig' = IF GoodSignature(len, klist[keyid].pub) THEN "OK" ELSE "FAIL"
    /\ UNCHANGED <<job, klist, reader, damaged, harm, pc, i, f, keyid, res>>

GoodHash(x) ==
    LET at == SlotsAt(M, NHdr(f, M)) + ShaId(f, M, x)
    IN  /\ Seen(f.hdr[at + 1]) = sha1_hmac(f, x)
        /\ Alike(f.hdr[at + 2], <<"hash_end", sha1_hmac(f, x)>>)

\* Wrong on purpose: the bound forgets the header.
BadVerifyHash(x) ==
    LET end == Place(f, M, x)[2] + Place(f, M, x)[3]
    IN  IF ShaId(f, M, x) = NONE THEN "OK"
        ELSE IF end > job.filesize THEN "???"
        ELSE IF GoodHash(x) THEN "OK" ELSE "FAIL"

verify_hash(x) ==
    LET end == Place(f, M, x)[2] + Place(f, M, x)[3]
    IN  IF ShaId(f, M, x) = NONE THEN "OK"
        ELSE IF end > job.filesize + BLOCK * HdrLen THEN "???"
        ELSE IF GoodHash(x) THEN "OK" ELSE "FAIL"

VerifyHash ==
    /\ pc = "verify" /\ sig # "none" /\ Turns
    /\ IF HeadLost \/ EntryLost(i)
       THEN \E verdict \in {"OK", "FAIL", "???"} : res' = Append(res, verdict)
       ELSE res' = Append(res, verify_hash(i))
    /\ i' = i + 1
    /\ UNCHANGED <<job, klist, reader, damaged, harm, pc, f, keyid, sig>>

VerifyEnd ==
    /\ pc = "verify" /\ sig # "none" /\ NoTurns
    /\ pc' = "done"
    /\ UNCHANGED <<job, klist, reader, damaged, harm, i, f, keyid, sig, res>>

Next == \/ CalculateHash \/ Sign \/ EncryptData \/ EncryptHeader
        \/ Damage \/ Stray
        \/ Open \/ DecryptHeader \/ DecryptData \/ Decrypted
        \/ VerifySignature \/ VerifyHash \/ VerifyEnd

Spec == Init /\ [][Next]_vars

-----------------------------------------------------------------------------
(* Properties *)

Cells == f.hdr \o f.data

\* The key that has opened the header has the iv of the producer as well.
RightKey == keyid # NONE => klist[keyid].iv = Signer.iv

\* No byte of key stream is used for two bytes of the file: not by the header,
\* not by two sections, and not where sections overlap.
KeyStreamUsedOnce ==
    damaged = NONE /\ RightKey =>
        \A a, b \in 1..Len(Cells) : a # b => Cells[a].pads \cap Cells[b].pads = {}

InSection(x, a) == a \in (job.sections[x].off + 1)..(job.sections[x].off + job.sections[x].size)

\* Once written, nothing that is to be encrypted is left in the clear: the
\* metadata up to the end of the header, and every byte of an encrypted section.
NothingInClear ==
    pc = "written" =>
        /\ \A a \in (M + 3)..(M + 6) : f.hdr[a].v[1] \in {"cbc", "bad"}
        /\ \A a \in (M + 7)..HdrLen : f.hdr[a].pads # {}
        /\ \A x \in 1..n : job.sections[x].enc =>
             \A a \in 1..job.length : InSection(x, a) => f.data[a].pads # {}

\* A reader that decrypts an undamaged file has the plain file in memory: the
\* whole header (the two calls of the reader undo the one of the producer) and
\* all the data, where sections overlap too.
Restored ==
    /\ \/ pc = "extract" /\ ~Skips
       \/ pc \in {"verify", "done"}
    /\ damaged = NONE /\ RightKey
    => /\ \A a \in 1..HdrLen : f.hdr[a].pads = {}
       /\ \A a \in 1..(M + 8 + 3 * n) : f.hdr[a] = HeaderCell(a - 1)
       /\ f.data = PlainFile.data

EndOf(x) == job.sections[x].off + job.sections[x].size

\* What sceverify says of an undamaged file: every hash that it checks is right,
\* and so is the signature if the list holds the public key of the producer with
\* the key that opens the header.  If that key has another iv, the header opens
\* all the same and the signature is bad.
VerdictOnGoodFile ==
    pc = "done" /\ damaged = NONE =>
        /\ klist[keyid].aes = Signer.aes
        /\ ~RightKey => sig = "FAIL"
        /\ RightKey =>
             /\ sig = IF klist[keyid].pub = Signer.pub THEN "OK" ELSE "FAIL"
             /\ \A x \in 1..n : res[x] = IF EndOf(x) > job.filesize THEN "???" ELSE "OK"

\* A damaged cell does not pass: sceverify gives up, or the signature or a hash
\* is bad, unless it is header padding, or the unused end of the signature, or in
\* no section that is checked.
DamageNoticed ==
    pc = "done" /\ damaged # NONE /\ sig = "OK" /\ (\A x \in 1..Len(res) : res[x] # "FAIL") =>
        \/ damaged \in (SigAt + 4)..HdrLen
        \/ damaged = SigAt + 3 /\ harm = "tail"
        \/ /\ damaged > HdrLen
           /\ \A x \in 1..n : InSection(x, damaged - HdrLen) => EndOf(x) > job.filesize

\* A damaged byte of the data spoils the hashes of the sections it is in and
\* nothing else: neither the signature nor the rest of the key stream.
DamageStaysLocal ==
    pc = "done" /\ damaged > HdrLen /\ RightKey =>
        /\ sig = IF klist[keyid].pub = Signer.pub THEN "OK" ELSE "FAIL"
        /\ \A x \in 1..n : ~InSection(x, damaged - HdrLen) => res[x] # "FAIL"
        /\ \A a \in 1..job.length : a # damaged - HdrLen => f.data[a] = PlainFile.data[a]

\* "the hash will always fail for unaligned non-LOAD phdrs": what sceverify
\* prints under its verdicts, of a section that is not encrypted and does not
\* begin with an AES block.
UnalignedFails ==
    pc = "done" /\ damaged = NONE /\ RightKey =>
        \A x \in 1..n : /\ ~job.sections[x].enc /\ job.sections[x].off % BLOCK # 0
                        /\ job.sections[x].size > 0 /\ EndOf(x) <= job.filesize
                        => res[x] = "FAIL"
=============================================================================
