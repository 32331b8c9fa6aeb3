--------------------------------- MODULE Pup ---------------------------------
(***************************************************************************)
(* puppack.c and pupunpack.c: the files of a directory are packed behind a *)
(* header with a table of their places and a table of their hashes, the    *)
(* package may be damaged in one place, and is unpacked.                   *)
(*                                                                         *)
(* All is counted in words of eight octets.  The header has PUP_HDR words, *)
(* an entry of either table four, and so has the hash of the header, whose *)
(* last one is padding, and half of the one before.  Numbers in the file   *)
(* are words too.  W is the number of values of a u32: for the lengths, of *)
(* which sha1_hmac() takes no more than that, it stands for 2^29 words.    *)
(* What the tools print is kept in "said".                                 *)
(***************************************************************************)
EXTENDS Integers, FileSystem

CONSTANTS t_names,     \* the names and their numbers, in the order of the table
          W,
          PAGE,        \* words that can be read behind the end of the file
          Jobs         \* file systems, and whether the two tools have the key

VARIABLES fs, cwd, archive, pc, i,
          mem          \* the static variables of the tool that runs

vars == <<fs, cwd, archive, pc, i, mem>>

PUP_HDR == 6
PUP  == <<"pup">>
SRC  == <<"src">>
TO   == <<"to">>
JUNK  == <<"junk">>
MAGIC == <<"SCEUF">>
Num(v) == <<"number", v>>
ZERO   == Num(0)

\* What sha1_hmac() hashes of some words: its callers have a u64 for the length,
\* it takes a u32.
Hashed(words) == SubSeq(words, 1, Len(words) % W)

\* The words of the hash of some words: twenty octets, so that half of the
\* third word is padding.
Hmac(words) == [n \in 1..3 |-> <<"hmac", n, Hashed(words)>>]

\* Such a third word with another half in the padding; and what is compared of a
\* word of a hash.
Frayed(word) == <<"frayed", word>>
Bare(word)   == IF word[1] = "frayed" THEN word[2] ELSE word

\* The table of names: u32 numbers and names, none of them twice.
IsTable ==
    /\ t_names \in Seq(ToSet(t_names))
    /\ \A n \in DOMAIN t_names :
         /\ t_names[n].id \in 0..(W - 1)
         /\ \A m \in DOMAIN t_names : t_names[m].id = t_names[n].id
                                       \/ t_names[m].name = t_names[n].name => m = n

\* A word of a file: it may be a number, and is not a hash that the key makes.
IsWord(word) ==
    /\ word[1] \notin {"hmac", "junk", "frayed"}
    /\ word[1] = "number" => word[2] \in Nat /\ word = Num(word[2])

\* A job: files lie in directories, and neither the package nor a name of the
\* table is one.
IsJob(job) ==
    /\ IsFileSystem(job.fs)
    /\ job.pack_key \in BOOLEAN /\ job.unpack_key \in BOOLEAN
    /\ PUP \notin job.fs.dirs /\ \A t \in ToSet(t_names) : SRC \o <<t.name>> \notin job.fs.dirs
    /\ \A path \in DOMAIN job.fs.files :
         /\ path \in Seq(ToSet(path))
         /\ \A n \in 0..(Len(path) - 1) : SubSeq(path, 1, n) \in job.fs.dirs
         /\ \A word \in ToSet(job.fs.files[path]) : IsWord(word)

\* Wrong on purpose: the tables are not covered by the hash of the header.
BadCovered(n) == PUP_HDR

\* With n files, what the hash of the header covers, and where it ends.
Covered(n) == PUP_HDR + 8 * n

\* Wrong on purpose: the hash of the header is forgotten.
BadHdrSize(n) == Covered(n)

HdrSize(n) == PUP_HDR + 8 * n + 4

n_files == Len(mem.files)

\* The static variables at the start; "damaged" is no variable of the tools.
NoMem(job) == [job |-> job, files |-> <<>>, data_size |-> 0, hdr |-> <<>>, said |-> <<>>,
               damaged |-> 0]

Init == \E job \in Jobs :
          /\ fs = job.fs /\ mem = NoMem(job)
          /\ cwd = <<>> /\ archive = <<>> /\ pc = "pack" /\ i = 0

Stop(why) == pc' = why /\ UNCHANGED <<fs, cwd, archive, i, mem>>

-----------------------------------------------------------------------------
(* puppack *)

NoKey == pc = "pack" /\ ~mem.job.pack_key /\ Stop("failed")

\* The output is there, and empty, before the directory is looked for.
OpenPup ==
    /\ pc = "pack" /\ mem.job.pack_key
    /\ fs' = memcpy_to_file(fs, PUP, <<>>)
    /\ pc' = "chdir"
    /\ UNCHANGED <<cwd, archive, i, mem>>

NoDirectory == pc = "chdir" /\ SRC \notin fs.dirs /\ Stop("failed")

ChangeDirectory ==
    /\ pc = "chdir" /\ SRC \in fs.dirs
    /\ cwd' = SRC /\ pc' = "find" /\ i' = 0
    /\ UNCHANGED <<fs, archive, mem>>

\* find_files(): each name of the table in turn, and the file if there is one.
FindFile ==
    /\ pc = "find" /\ i < Len(t_names)
    /\ LET t    == t_names[i + 1]
           data == fs.files[cwd \o <<t.name>>]
           file == [id |-> t.id, data |-> data, len |-> Len(data), offset |-> 0]
       IN  mem' = IF cwd \o <<t.name>> \in DOMAIN fs.files
                  THEN [mem EXCEPT !.files = Append(@, file), !.data_size = @ + file.len]
                  ELSE mem
    /\ i' = i + 1
    /\ UNCHANGED <<fs, cwd, archive, pc>>

AllFound ==
    /\ pc = "find" /\ i = Len(t_names)
    /\ pc' = "place" /\ i' = 0
    /\ UNCHANGED <<fs, cwd, archive, mem>>

\* The files lie one behind the other, the first behind the header.
PlaceFile ==
    /\ pc = "place" /\ i < n_files
    /\ mem' = [mem EXCEPT !.files[i + 1].offset =
                 IF i = 0 THEN HdrSize(n_files) ELSE mem.files[i].offset + mem.files[i].len]
    /\ i' = i + 1
    /\ UNCHANGED <<fs, cwd, archive, pc>>

StartHeader ==
    /\ pc = "place" /\ i = n_files
    /\ mem' = [mem EXCEPT !.hdr =
                 <<MAGIC, Num(1), Num(1), Num(n_files), Num(HdrSize(n_files)), Num(mem.data_size)>>
                   \o [w \in 1..(8 * n_files + 4) |-> ZERO]]
    /\ pc' = "header" /\ i' = 0
    /\ UNCHANGED <<fs, cwd, archive>>

\* data is put at word p of h, counted from 0, behind the end if need be.
PutAt(h, p, data) ==
    LET end == IF data = <<>> THEN 0 ELSE p + Len(data)
    IN  [w \in 1..(IF end > Len(h) THEN end ELSE Len(h)) |->
           IF w \in (p + 1)..end THEN data[w - p] ELSE IF w <= Len(h) THEN h[w] ELSE ZERO]

\* calc_hmac() clears four words for a hash of three: in the table of hashes
\* the fourth is the number of the next entry, or begins the hash of the header.
CalcHmac(h, words, p) == PutAt(PutAt(h, p, <<ZERO, ZERO, ZERO, ZERO>>), p, Hmac(words))

Entry(h, n) ==
    LET f == mem.files[n + 1]
        slot == PUP_HDR + 4 * n_files + 4 * n
        row  == <<Num(f.id), Num(f.offset), Num(f.len), ZERO>>
    IN  CalcHmac(PutAt(PutAt(h, PUP_HDR + 4 * n, row), slot, <<Num(n)>>), f.data, slot + 1)

BuildEntry ==
    /\ pc = "header" /\ i < n_files
    /\ mem' = [mem EXCEPT !.hdr = Entry(@, i)]
    /\ i' = i + 1
    /\ UNCHANGED <<fs, cwd, archive, pc>>

\* The hash of the header ends build_header(); write_pup() begins with the header.
WriteHeader ==
    /\ pc = "header" /\ i = n_files
    /\ LET covered == SubSeq(mem.hdr, 1, Covered(n_files))
           hdr == CalcHmac(mem.hdr, covered, PUP_HDR + 8 * n_files)
       IN  mem' = [mem EXCEPT !.hdr = hdr] /\ fs' = memcpy_to_file(fs, PUP, hdr)
    /\ pc' = "write" /\ i' = 0
    /\ UNCHANGED <<cwd, archive>>

WriteData ==
    /\ pc = "write" /\ i < n_files
    /\ LET f == mem.files[i + 1]
       IN  fs' = memcpy_to_file(fs, PUP, PutAt(fs.files[PUP], f.offset, f.data))
    /\ i' = i + 1
    /\ UNCHANGED <<cwd, archive, pc, mem>>

\* The next tool is started where this one was.
PackEnd ==
    /\ pc = "write" /\ i = n_files
    /\ pc' = "damage" /\ i' = 0 /\ cwd' = <<>>
    /\ UNCHANGED <<fs, archive, mem>>

-----------------------------------------------------------------------------
\* One word of the package becomes another: a number is off by one or gets
\* another high half.
Other(word) == IF word[1] = "number" THEN {Num(word[2] + 1), Num(word[2] + W)} ELSE {JUNK}

\* Word n of the package becomes another; "at" is where it is damaged.
Hit(n, word, at) == /\ fs' = [fs EXCEPT !.files[PUP][n] = word]
                    /\ mem' = [mem EXCEPT !.damaged = at]

\* Damage to no more than the padding in the third word of a hash is damage to
\* the padding, which begins the word behind it.
Damage ==
    /\ pc = "damage" /\ mem.damaged = 0
    /\ \E n \in DOMAIN fs.files[PUP] :
         \/ \E word \in Other(fs.files[PUP][n]) : Hit(n, word, n)
         \/ /\ fs.files[PUP][n][1] = "hmac" /\ fs.files[PUP][n][2] = 3
            /\ Hit(n, Frayed(fs.files[PUP][n]), n + 1)
    /\ UNCHANGED <<cwd, archive, pc, i>>

-----------------------------------------------------------------------------
(* pupunpack *)

\* A number is read where the archive has something else: its octets make one
\* that is larger than any place in the file, in either half.
Number(word) == IF word[1] = "number" THEN word[2] ELSE W * W - 1

\* Word p of the mapped file, counted from 0; the rest of its last page is 0.
Peek(p) == IF p < Len(archive) THEN archive[p + 1] ELSE ZERO
Mapped(p, len) == len = 0 \/ p + len <= Len(archive) + PAGE
Words(p, len) == [w \in 1..len |-> Peek(p + w - 1)]

n_sections == Number(Peek(3))

OpenPackage ==
    /\ pc = "damage"
    /\ archive' = fs.files[PUP]
    /\ pc' = "mkdir"
    /\ UNCHANGED <<fs, cwd, i, mem>>

TargetExists == pc = "mkdir" /\ ~CanMkdir(fs, TO) /\ Stop("failed")

MakeTarget ==
    /\ pc = "mkdir" /\ CanMkdir(fs, TO)
    /\ fs' = mkdir(fs, TO) /\ cwd' = TO
    /\ pc' = "check"
    /\ UNCHANGED <<archive, i, mem>>

\* The twenty octets at p that check_hmac() compares.
HmacAt(p) == [w \in 1..3 |-> Bare(Words(p, 3)[w])]

Verdict(p, words) ==
    IF ~mem.job.unpack_key THEN "???"
    ELSE IF HmacAt(p) = Hmac(words) THEN "OK" ELSE "FAIL"

CheckHeader ==
    /\ pc = "check"
    /\ LET covered == Covered(n_sections)
           at == PUP_HDR + 8 * n_sections
       IN  IF mem.job.unpack_key => Mapped(at, 3)
           THEN /\ mem' = [mem EXCEPT !.said = <<Verdict(at, Words(0, covered))>>]
                /\ pc' = "section"
           ELSE pc' = "crashed" /\ UNCHANGED mem
    /\ UNCHANGED <<fs, cwd, archive, i>>

\* do_section(i): the entries of the table, and the hashes with number i.
Field(n)  == Number(Peek(PUP_HDR + 4 * i + n))
Known     == {t \in ToSet(t_names) : t.id = Field(0) % W}
HmacSlots == {PUP_HDR + 4 * n_sections + 4 * n : n \in 0..(n_sections - 1)}
Found_i   == {p \in HmacSlots : Peek(p) = Num(i)}

Unpacking == pc = "section" /\ i < n_sections

\* The table itself may reach behind what is mapped.
OffTable == Unpacking /\ ~Mapped(PUP_HDR, 8 * n_sections) /\ Stop("crashed")

UnknownEntry ==
    /\ Unpacking /\ Mapped(PUP_HDR, 8 * n_sections)
    /\ Known = {} \/ Found_i = {}
    /\ Stop("failed")

Section == Unpacking /\ Mapped(PUP_HDR, 8 * n_sections) /\ Known # {} /\ Found_i # {}

\* What is hashed is not all mapped.
HashOffFile ==
    /\ Section /\ mem.job.unpack_key /\ ~Mapped(Field(1), Field(2) % W)
    /\ Stop("crashed")

\* How much of a section fwrite() writes: all of it, if all of it is mapped.
Writable == IF Mapped(Field(1), Field(2)) THEN {Field(2)}
            ELSE {k \in 0..Field(2) : Mapped(Field(1), k)}

\* Whatever the verdict on it, the section is unpacked.  That a part could not
\* be written is not noticed, unless fwrite() itself reads what is not mapped.
UnpackSection ==
    /\ Section
    /\ mem.job.unpack_key => Mapped(Field(1), Field(2) % W)
    /\ LET name == (CHOOSE t \in Known : TRUE).name
           slot == CHOOSE p \in Found_i : \A q \in Found_i : p <= q
       IN  /\ \E k \in Writable : fs' = memcpy_to_file(fs, cwd \o <<name>>, Words(Field(1), k))
           /\ mem' = [mem EXCEPT !.said = Append(@, Verdict(slot + 1, Words(Field(1), Field(2))))]
    /\ \/ i' = i + 1 /\ UNCHANGED pc
       \/ ~Mapped(Field(1), Field(2)) /\ pc' = "crashed" /\ UNCHANGED i
    /\ UNCHANGED <<cwd, archive>>

UnpackEnd == pc = "section" /\ i >= n_sections /\ Stop("done")

Next == \/ NoKey \/ OpenPup \/ NoDirectory \/ ChangeDirectory
        \/ FindFile \/ AllFound \/ PlaceFile \/ StartHeader \/ BuildEntry
        \/ WriteHeader \/ WriteData \/ PackEnd
        \/ Damage
        \/ OpenPackage \/ TargetExists \/ MakeTarget \/ CheckHeader
        \/ OffTable \/ UnknownEntry \/ HashOffFile \/ UnpackSection \/ UnpackEnd

Spec == Init /\ [][Next]_vars

-----------------------------------------------------------------------------
(* Properties *)

\* An undamaged package is accepted, and every file that the table names comes
\* back as it was, and nothing else; all is said to be right, or unknown
\* where there is no key.
PupRestored ==
    mem.damaged = 0 /\ cwd = TO =>
        /\ pc \notin {"failed", "crashed"}
        /\ pc = "done" =>
             /\ Below(fs, TO) = [p \in {TO \o <<t.name>> : t \in {u \in ToSet(t_names) :
                                          SRC \o <<u.name>> \in DOMAIN fs.files}}
                                   |-> fs.files[SRC \o <<Last(p)>>]]
             /\ mem.said = [n \in 1..(n_files + 1) |->
                              IF mem.job.unpack_key THEN "OK" ELSE "???"]

\* What no hash covers, with the files fl: the padding at the end of the header,
\* and of a file of 4 GiB or more what is behind the length that sha1_hmac() takes.
Unhashed(fl, d) ==
    \/ d = HdrSize(Len(fl))
    \/ \E k \in 1..Len(fl) : d \in (fl[k].offset + (fl[k].len % W) + 1)..(fl[k].offset + fl[k].len)

\* Damage anywhere but in what no hash covers is reported or stops pupunpack.
\* Once the header is said to be right, every file has the length that was
\* packed, and what is said of it is so, as far as it is hashed.
PupVerdicts ==
    pc = "done" /\ mem.job.unpack_key =>
        /\ mem.damaged # 0 /\ ~Unhashed(mem.files, mem.damaged) => "FAIL" \in ToSet(mem.said)
        /\ mem.said[1] = "OK" => \A n \in 1..n_files :
             LET data == mem.files[n].data
                 name == (CHOOSE t \in ToSet(t_names) : t.id = mem.files[n].id).name
                 new  == fs.files[TO \o <<name>>]
             IN  /\ Len(new) = Len(data)
                 /\ mem.said[n + 1] = "OK" <=> Hashed(new) = Hashed(data)
=============================================================================
