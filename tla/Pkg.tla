--------------------------------- MODULE Pkg ---------------------------------
(***************************************************************************)
(* pkg.c and unpkg.c at the file system.  pkg truncates its output before  *)
(* it looks for its inputs, and may be stopped, or find the disk full, at  *)
(* any time; then unpkg unpacks what is there, which is an older or        *)
(* foreign package if pkg was not started at all.                          *)
(*                                                                         *)
(* Files are sequences of words of eight octets.  The encrypted header is  *)
(* one of them and opens with the right key; SceFile has what is in it.    *)
(***************************************************************************)
EXTENDS Integers, FiniteSetsExt, FileSystem, RoundUp

CONSTANTS INFO,        \* words of info0 and info1, 8 in the code
          ALIGN,       \* 0x100 octets in the code
          PAGE,        \* words that can be read behind the end of the file
          Jobs         \* what there is at the start, and what is called

VARIABLES fs, cwd, archive, pc, i,
          mem          \* the static variables of the tool that runs

vars == <<fs, cwd, archive, pc, i, mem>>

PKG == <<"pkg">>
SRC == <<"src">>
TO  == <<"to">>
Num(v) == <<"number", v>>
ZERO   == Num(0)
FILL   == Num(170)
Header(fields) == <<"header", fields>>

\* Of the tools, the parts of the package; "written" is whether PKG is, to its
\* end, the package that they make.
NoMem(job) == [job |-> job, parts |-> job.old, written |-> job.well_formed]

Init == \E job \in Jobs :
          /\ fs = job.fs /\ mem = NoMem(job)
          /\ cwd = <<>> /\ archive = <<>> /\ i = 0
          /\ pc \in {"pack", "closed"}

Stop(why) == pc' = why /\ UNCHANGED <<fs, cwd, archive, i, mem>>

-----------------------------------------------------------------------------
(* pkg *)

OpenPkg ==
    /\ pc = "pack"
    /\ fs' = memcpy_to_file(fs, PKG, <<>>)
    /\ mem' = [mem EXCEPT !.written = FALSE]
    /\ pc' = "get"
    /\ UNCHANGED <<cwd, archive, i>>

Inputs == {SRC \o <<name>> : name \in {"info0", "info1", "content"}}

\* chdir(), get_key(), get_file() and get_content(), each of which may fail.
GetFails ==
    /\ pc = "get"
    /\ ~mem.job.pack_key \/ ~(Inputs \subseteq DOMAIN fs.files)
    /\ Stop("closed")

\* fread() of INFO words does not notice that there are fewer.
get_file(name) ==
    LET f == fs.files[SRC \o <<name>>]
    IN  [w \in 1..INFO |-> IF w <= Len(f) THEN f[w] ELSE ZERO]

\* Word w of the n that zlib makes of data.
Deflated(data, n) == [w \in 1..n |-> <<"z", data, w, n>>]

\* get_content() and fix_info_hdr(): sizes at 0x18 and 0x20.
GetInputs ==
    /\ pc = "get" /\ mem.job.pack_key /\ Inputs \subseteq DOMAIN fs.files
    /\ LET content == fs.files[SRC \o <<"content">>]
       IN  \E n \in 1..(Len(content) + 1) :
             mem' = [mem EXCEPT !.parts =
                      [info0 |-> [get_file("info0") EXCEPT ![4] = Num(Len(content)), ![5] = Num(n)],
                       info1 |-> [get_file("info1") EXCEPT ![5] = Num(n)],
                       content |-> content, stream |-> Deflated(content, n)]]
    /\ pc' = "build"
    /\ UNCHANGED <<fs, cwd, archive, i>>

\* Wrong on purpose: the size of the package is that of the uncompressed data.
BadStreamSize(p) == Len(p.content)

StreamSize(p) == Len(p.stream)

\* build_pkg(): the package that holds the parts p.
Package(p) ==
    LET fields == [type |-> 3, n_sections |-> 3, info_size |-> INFO, compressed |-> TRUE,
                   size |-> Len(p.stream), dec_size |-> 2 * INFO + Len(p.content)]
        pkg == <<Header(fields)>> \o p.info0 \o p.info1 \o p.stream
        pkg_size == round_up(1 + 2 * INFO + StreamSize(p), ALIGN)
    IN  [w \in 1..pkg_size |-> IF w <= Len(pkg) THEN pkg[w] ELSE FILL]

\* The result of fwrite() is not looked at: on a full disk there is less.
WritePkg ==
    /\ pc = "build"
    /\ LET pkg == Package(mem.parts)
       IN  \E n \in IF mem.job.disk_full THEN 0..Len(pkg) ELSE {Len(pkg)} :
             /\ fs' = memcpy_to_file(fs, PKG, SubSeq(pkg, 1, n))
             /\ mem' = [mem EXCEPT !.written = n = Len(pkg)]
    /\ pc' = "closed"
    /\ UNCHANGED <<cwd, archive, i>>

Killed == pc \in {"get", "build"} /\ Stop("closed")

-----------------------------------------------------------------------------
(* unpkg; with -s it unpacks the content only, to a file *)

Peek(p) == IF p < Len(archive) THEN archive[p + 1] ELSE ZERO
Mapped(p, len) == len = 0 \/ p + len <= Len(archive) + PAGE
Words(p, len) == [w \in 1..len |-> Peek(p + w - 1)]

NoPkg == pc = "closed" /\ PKG \notin DOMAIN fs.files /\ Stop("failed")

\* mkdir() may fail if chdir() does not.
MapPkg ==
    /\ pc = "closed" /\ PKG \in DOMAIN fs.files
    /\ archive' = fs.files[PKG]
    /\ fs' = IF mem.job.only_content THEN fs ELSE mkdir(fs, TO)
    /\ IF mem.job.only_content THEN cwd' = <<>> /\ pc' = "decrypt"
       ELSE IF TO \in fs'.dirs THEN cwd' = TO /\ pc' = "decrypt"
       ELSE cwd' = <<>> /\ pc' = "failed"
    /\ UNCHANGED <<i, mem>>

\* Of an empty file nothing is mapped.
EmptyPkg == pc = "decrypt" /\ archive = <<>> /\ Stop("crashed")

hdr == archive[1][2]

\* The file is of another kind, no key opens it, or it has other sections.
DecryptFails ==
    /\ pc = "decrypt" /\ archive # <<>>
    /\ hdr.type # 3 \/ ~mem.job.unpack_key \/ hdr.n_sections # 3
    /\ Stop("failed")

Decrypt ==
    /\ pc = "decrypt" /\ archive # <<>>
    /\ hdr.type = 3 /\ mem.job.unpack_key /\ hdr.n_sections = 3
    /\ pc' = IF mem.job.only_content THEN "content" ELSE "info"
    /\ i' = 0
    /\ UNCHANGED <<fs, cwd, archive, mem>>

\* info0 and info1
WeirdInfo == pc = "info" /\ hdr.info_size # INFO /\ Stop("failed")

UnpackInfo ==
    /\ pc = "info" /\ hdr.info_size = INFO
    /\ LET at == 1 + i * INFO
           name == IF i = 0 THEN "info0" ELSE "info1"
       IN  IF Mapped(at, INFO)
           THEN /\ fs' = memcpy_to_file(fs, cwd \o <<name>>, Words(at, INFO))
                /\ i' = i + 1
                /\ pc' = IF i = 0 THEN "info" ELSE "content"
           ELSE pc' = "crashed" /\ UNCHANGED <<fs, i>>
    /\ UNCHANGED <<cwd, archive, mem>>

section == Words(1 + 2 * INFO, hdr.size)
SectionMapped == Mapped(1 + 2 * INFO, hdr.size)
size_real == hdr.dec_size - 2 * INFO

\* Is z a whole stream of zlib, of no more than room words?
IsStream(z, room) ==
    z # <<>> /\ z[1][1] = "z" /\ Len(z[1][2]) <= room
             /\ Len(z) >= z[1][4] /\ SubSeq(z, 1, z[1][4]) = Deflated(z[1][2], z[1][4])

ContentBehindEnd == pc = "content" /\ ~SectionMapped /\ Stop("crashed")

InflateFails ==
    /\ pc = "content" /\ SectionMapped
    /\ hdr.compressed /\ ~IsStream(section, size_real)
    /\ Stop("failed")

\* The buffer is filled with 0xaa before decompress().
UnpackContent ==
    /\ pc = "content" /\ SectionMapped
    /\ hdr.compressed => IsStream(section, size_real)
    /\ LET data == section[1][2]
           content == IF hdr.compressed
                      THEN [w \in 1..size_real |-> IF w <= Len(data) THEN data[w] ELSE FILL]
                      ELSE section
       IN  fs' = memcpy_to_file(fs, cwd \o <<"content">>, content)
    /\ pc' = "done"
    /\ UNCHANGED <<cwd, archive, i, mem>>

Next == \/ OpenPkg \/ GetFails \/ GetInputs \/ WritePkg \/ Killed
        \/ NoPkg \/ MapPkg \/ EmptyPkg \/ DecryptFails \/ Decrypt
        \/ WeirdInfo \/ UnpackInfo \/ ContentBehindEnd \/ InflateFails \/ UnpackContent

Spec == Init /\ [][Next]_vars

-----------------------------------------------------------------------------
(* Properties *)

\* A file that holds the parts p, and in its header the fields.
IsPackage(file, p, fields) ==
    /\ Len(file) >= 1 + 2 * INFO + Len(p.stream)
    /\ file[1] = Header(fields)
    /\ \A w \in 1..INFO : file[1 + w] = p.info0[w] /\ file[1 + INFO + w] = p.info1[w]
    /\ \A w \in 1..Len(p.stream) : file[1 + 2 * INFO + w] = p.stream[w]
    /\ fields.size = Len(p.stream) /\ fields.dec_size = 2 * INFO + Len(p.content)
    /\ IF fields.compressed THEN Len(p.stream) > 0 /\ p.stream = Deflated(p.content, Len(p.stream))
       ELSE p.stream = p.content

\* Fields that unpkg takes.
IsUsable(fields) == fields.type = 3 /\ fields.n_sections = 3 /\ fields.info_size = INFO

\* Parts are sequences, the infos of the size that unpkg knows.
ArePieces(p) ==
    /\ p.info0 = [w \in 1..INFO |-> p.info0[w]] /\ p.info1 = [w \in 1..INFO |-> p.info1[w]]
    /\ p.content \in Seq(ToSet(p.content)) /\ p.stream \in Seq(ToSet(p.stream))

\* A package that is there at the start holds what its job says, and may be one
\* that unpkg does not take.
IsJob(job) ==
    /\ IsFileSystem(job.fs)
    /\ {job.well_formed, job.pack_key, job.unpack_key, job.disk_full, job.only_content} \subseteq BOOLEAN
    /\ ArePieces(job.old)
    /\ PKG \in DOMAIN job.fs.files =>
          LET fields == job.fs.files[PKG][1][2]
          IN  /\ IsPackage(job.fs.files[PKG], job.old, fields)
              /\ job.well_formed => IsUsable(fields)

\* When unpkg ends without an error, everything it was asked for is there, it
\* comes from one package: the last that was written to its end.  A package that
\* was written to its end is unpacked, if there is a key and a place for it.
PackageWhole ==
    LET at == IF mem.job.only_content THEN <<>> ELSE TO
        names == IF mem.job.only_content THEN {"content"} ELSE {"info0", "info1", "content"}
    IN  /\ pc = "done" => \A name \in names : fs.files[at \o <<name>>] = mem.parts[name]
        /\ archive # <<>> /\ mem.written /\ mem.job.unpack_key /\ cwd = at => pc \notin {"failed", "crashed"}
=============================================================================
