-------------------------------- MODULE Ungpkg --------------------------------
(***************************************************************************)
(* ungpkg.c: a package is decrypted in place with a stream of octets, that *)
(* of a counter under SHA-1 or that of AES, and its entries are made       *)
(* directories and files.                                                  *)
(*                                                                         *)
(* The part of the package that is encrypted is the variable archive; an   *)
(* entry, a name and an octet of data are one cell of it each, and a cell  *)
(* is encrypted by one octet of the stream: <<"xor", cell, block, place>>. *)
(***************************************************************************)
EXTENDS Integers, FileSystem

CONSTANTS BLOCK,       \* octets of the stream for each counter, 16 in the code
          NAME_MAX,    \* octets of the buffer for a name, 256 in the code
          W,           \* values of a u32
          Packages     \* file systems and the packages that are unpacked there

VARIABLES fs, cwd, archive, pc,
          i,           \* octet, then entry
          mem          \* the job, the counter in the key, and size

vars == <<fs, cwd, archive, pc, i, mem>>

TO == <<"to">>
Xor(cell, block, place) ==
    IF cell[1] = "xor" /\ cell[3] = block /\ cell[4] = place THEN cell[2]
    ELSE <<"xor", cell, block, place>>
Entry(name, len, offset, size, flags) == <<"entry", name, len, offset, size, flags>>

Init == \E job \in Packages :
          /\ fs = job.fs /\ archive = job.data
          /\ cwd = <<>> /\ pc = "open" /\ i = 0
          /\ mem = [job |-> job, counter |-> 0, size |-> job.size]

OpenFails ==
    /\ pc = "open" /\ TO \in DOMAIN fs.files
    /\ pc' = "failed"
    /\ UNCHANGED <<fs, cwd, archive, i, mem>>

Open ==
    /\ pc = "open" /\ TO \notin DOMAIN fs.files
    /\ fs' = mkdir(fs, TO) /\ cwd' = TO
    /\ pc' = IF mem.job.retail THEN "retail" ELSE "debug"
    /\ UNCHANGED <<archive, i, mem>>

\* The package is of another type, or gpkg-key is not there.
RetailFails ==
    /\ pc = "retail"
    /\ mem.job.type # 1 \/ ~mem.job.key
    /\ pc' = "failed"
    /\ UNCHANGED <<fs, cwd, archive, i, mem>>

\* aes128ctr()
DecryptRetail ==
    /\ pc = "retail" /\ mem.job.type = 1 /\ mem.job.key /\ mem.size < W
    /\ archive' = [n \in 1..Len(archive) |->
                     IF n <= mem.size THEN Xor(archive[n], (n - 1) \div BLOCK, (n - 1) % BLOCK)
                     ELSE archive[n]]
    /\ pc' = "unpack"
    /\ UNCHANGED <<fs, cwd, i, mem>>

\* aes128ctr() counts the octets with a u32 up to a u64: with 4 GiB or more it
\* never gets there, and runs off what is mapped.
RetailRunsOff ==
    /\ pc = "retail" /\ mem.job.type = 1 /\ mem.job.key /\ mem.size >= W
    /\ pc' = "crashed"
    /\ UNCHANGED <<fs, cwd, archive, i, mem>>

\* Wrong on purpose: the counter goes on at the first octet too.
BadCounterNow == IF i % BLOCK = 0 THEN mem.counter + 1 ELSE mem.counter

\* decrypt_debug_pkg() with the counter for octet i.
CounterNow == IF i # 0 /\ i % BLOCK = 0 THEN mem.counter + 1 ELSE mem.counter

DecryptOctet ==
    /\ pc = "debug" /\ i < mem.size
    /\ mem' = [mem EXCEPT !.counter = CounterNow]
    /\ archive' = [archive EXCEPT ![i + 1] = Xor(@, CounterNow, i % BLOCK)]
    /\ i' = i + 1
    /\ UNCHANGED <<fs, cwd, pc>>

DecryptEnd ==
    /\ pc = "debug" /\ i >= mem.size
    /\ pc' = "unpack" /\ i' = 0
    /\ UNCHANGED <<fs, cwd, archive, mem>>

-----------------------------------------------------------------------------
(* unpack_pkg *)

tmp   == archive[i + 1]
flags == tmp[6]
path  == cwd \o archive[tmp[2] + 1][2]
Unpacking == pc = "unpack" /\ i < mem.job.n_files

\* The static size is that of the package no more.
NextEntry == mem' = [mem EXCEPT !.size = tmp[5]] /\ UNCHANGED <<cwd, archive>>

Refused ==
    /\ Unpacking
    /\ tmp[3] >= NAME_MAX \/ flags \notin {1, 3, 4}
    /\ pc' = "failed" /\ NextEntry /\ UNCHANGED <<fs, i>>

MakeDir ==
    /\ Unpacking /\ tmp[3] < NAME_MAX /\ flags = 4
    /\ fs' = mkdir(fs, path)
    /\ i' = i + 1
    /\ NextEntry /\ UNCHANGED pc

\* fopen() in a directory that is not there gives no file, and fwrite() ends it.
WriteFile ==
    /\ Unpacking /\ tmp[3] < NAME_MAX /\ flags \in {1, 3}
    /\ IF CanWrite(fs, path)
       THEN /\ fs' = memcpy_to_file(fs, path, SubSeq(archive, tmp[4] + 1, tmp[4] + tmp[5]))
            /\ i' = i + 1 /\ UNCHANGED pc
       ELSE pc' = "crashed" /\ UNCHANGED <<fs, i>>
    /\ NextEntry

Finish ==
    /\ pc = "unpack" /\ i >= mem.job.n_files
    /\ pc' = "done"
    /\ UNCHANGED <<fs, cwd, archive, i, mem>>

Next == \/ OpenFails \/ Open \/ RetailFails \/ DecryptRetail \/ RetailRunsOff
        \/ DecryptOctet \/ DecryptEnd \/ Refused \/ MakeDir \/ WriteFile \/ Finish

Spec == Init /\ [][Next]_vars

-----------------------------------------------------------------------------
(* Properties *)

\* What a package was encrypted from; of entry k of it the path, the octets and
\* the flags.
Plain(job)     == [n \in 1..Len(job.data) |-> job.data[n][2]]
PathOf(job, k) == Plain(job)[Plain(job)[k][2] + 1][2]
DataOf(job, k) == SubSeq(Plain(job), Plain(job)[k][4] + 1, Plain(job)[k][4] + Plain(job)[k][5])
DirsOf(job)    == {k \in 1..job.n_files : Plain(job)[k][6] = 4}
FilesOf(job)   == (1..job.n_files) \ DirsOf(job)

\* Every cell is encrypted with its own octet of the stream.
IsEncrypted(job) ==
    /\ Len(job.data) \in Nat /\ job.size = Len(job.data) /\ job.n_files \in 0..job.size
    /\ job.data = [n \in 1..job.size |->
                     <<"xor", job.data[n][2], (n - 1) \div BLOCK, (n - 1) % BLOCK>>]
    /\ \A n \in 1..job.size : job.data[n][2][1] # "xor"

\* The entries are those of the tree; of two with one path the last one counts.
HoldsTree(job) ==
    /\ \A k \in 1..job.n_files : PathOf(job, k) \in Seq(ToSet(PathOf(job, k))) \ {<<>>}
    /\ job.tree.dirs = {PathOf(job, k) : k \in DirsOf(job)}
    /\ DOMAIN job.tree.files = {PathOf(job, k) : k \in FilesOf(job)}
    /\ \A k \in FilesOf(job) :
         (\A l \in FilesOf(job) : l > k => PathOf(job, l) # PathOf(job, k))
             => job.tree.files[PathOf(job, k)] = DataOf(job, k)

\* Directories come before what they contain, and nothing of the other kind is
\* where a directory or file should be.
InOrder(job) ==
    /\ <<>> \in job.fs.dirs
    /\ \A k \in 1..job.n_files :
         Len(PathOf(job, k)) > 1 =>
             \E j \in DirsOf(job) : j < k /\ PathOf(job, j) = Front(PathOf(job, k))
    /\ \A k \in DirsOf(job), l \in FilesOf(job) : PathOf(job, k) # PathOf(job, l)
    /\ \A k \in DirsOf(job) : TO \o PathOf(job, k) \notin DOMAIN job.fs.files
    /\ \A k \in FilesOf(job) : TO \o PathOf(job, k) \notin job.fs.dirs

IsJob(job) ==
    /\ job.fs = [dirs |-> job.fs.dirs, files |-> job.fs.files]
    /\ IsEncrypted(job) /\ HoldsTree(job)
    /\ job.ordered => InOrder(job)

\* Every octet is decrypted with that of the stream that encrypted it, up to
\* a last block of any length, and when ungpkg ends without an error there are
\* the files the package was made of, besides what was there before.  It gets
\* there, and the directories are there too, when directories come before what
\* they contain and a retail package has less than 4 GiB.
GpkgRestored ==
    LET tree == mem.job.tree
        new  == {TO \o f : f \in DOMAIN tree.files}
        old  == Below(mem.job.fs, TO)
    IN  /\ pc = "unpack" => \A n \in 1..Len(archive) : archive[n][1] # "xor"
        /\ pc = "done" =>
             /\ Below(fs, TO) = [p \in new \cup DOMAIN old |->
                                   IF p \in new THEN tree.files[Tail(p)] ELSE old[p]]
             /\ mem.job.ordered => {TO \o d : d \in tree.dirs} \subseteq fs.dirs
        /\ pc = "crashed" => ~mem.job.ordered \/ (mem.job.retail /\ mem.job.size >= W)
=============================================================================
