------------------------------ MODULE NorUnpack ------------------------------
(***************************************************************************)
(* norunpack.c: do_toc() walks a table in a dump and calls itself for the  *)
(* tables in it, in a directory of their own, which it has to leave again. *)
(*                                                                         *)
(* The dump is counted in units of 0x10 octets: a table is one of them     *)
(* with the number of its entries, and three for each entry, with offset   *)
(* and size, and the name.  The stack of C is the variable mem.            *)
(***************************************************************************)
EXTENDS Integers, FileSystem

CONSTANTS Dumps        \* file systems and the dumps that are unpacked there

VARIABLES fs, cwd,
          archive,     \* the dump
          pc, i,       \* entries done of the table that is walked
          mem          \* the job, the table, and those that wait for it

vars == <<fs, cwd, archive, pc, i, mem>>

TO    == <<"to">>
MAGIC == <<"SCE">>
Table(n)           == <<"toc", n>>
Row(offset, size)  == <<"row", offset, size>>
Name(name)         == <<"name", name>>

Init == \E job \in Dumps :
          /\ fs = job.fs /\ archive = job.dump
          /\ cwd = <<>> /\ pc = "open" /\ i = 0
          /\ mem = [job |-> job, ptr |-> job.toc, callers |-> <<>>]

Peek(unit) == archive[unit + 1]
n_entries == Peek(mem.ptr)[2]
p         == mem.ptr + 1 + 3 * i
offset    == Peek(p)[2]
size      == Peek(p)[3]
name      == Peek(p + 1)[2]

\* new_dir(): mkdir() may fail if chdir() does not.
NewDir(path) == /\ fs' = mkdir(fs, path)
                /\ path \in fs'.dirs

CannotEnter(path) == /\ Exists(fs, path) /\ path \notin fs.dirs
                     /\ pc' = "failed"
                     /\ UNCHANGED <<fs, cwd, archive, i, mem>>

OpenDump ==
    /\ pc = "open"
    /\ NewDir(TO)
    /\ cwd' = TO /\ pc' = "toc"
    /\ UNCHANGED <<archive, i, mem>>

OpenFails == pc = "open" /\ CannotEnter(TO)

Walking == pc = "toc" /\ i < n_entries

ROS == {"ros0", "ros1"}

\* Call do_toc(toc) in the directory of this entry.
Call(toc) ==
    /\ NewDir(cwd \o <<name>>)
    /\ cwd' = cwd \o <<name>>
    /\ mem' = [mem EXCEPT !.ptr = toc,
                          !.callers = Append(@, [ptr |-> mem.ptr, i |-> i])]
    /\ i' = 0
    /\ UNCHANGED <<archive, pc>>

Loader == Walking /\ name = "asecure_loader" /\ Call(mem.ptr + offset)

\* In front of these tables is a header of 0x10 octets.
Ros == Walking /\ name \in ROS /\ Call(mem.ptr + offset + 1)

NoDir == /\ Walking /\ name \in ROS \cup {"asecure_loader"}
         /\ CannotEnter(cwd \o <<name>>)

\* A file with the magic number of an SCE file behind 0x10 other octets is
\* written without these.
Header(at) == IF at + 1 < Len(archive) /\ Peek(at + 1) = MAGIC THEN 1 ELSE 0

\* fopen() of a name that is a directory gives no file, and fwrite() ends it.
WriteFile ==
    /\ Walking /\ name \notin ROS \cup {"asecure_loader"}
    /\ LET at   == mem.ptr + offset
           skip == Header(at)
           data == [w \in 1..(size - skip) |-> Peek(at + skip + w - 1)]
           path == cwd \o <<name>>
       IN  IF CanWrite(fs, path)
           THEN fs' = memcpy_to_file(fs, path, data) /\ i' = i + 1 /\ UNCHANGED pc
           ELSE pc' = "crashed" /\ UNCHANGED <<fs, i>>
    /\ UNCHANGED <<cwd, archive, mem>>

\* Wrong on purpose: the directory is not left.
BadReturn ==
    /\ pc = "toc" /\ i >= n_entries /\ mem.callers # <<>>
    /\ mem' = [mem EXCEPT !.ptr = Last(mem.callers).ptr, !.callers = Front(@)]
    /\ i' = Last(mem.callers).i + 1
    /\ UNCHANGED <<fs, cwd, archive, pc>>

\* do_toc() returns to its caller, which goes to the parent directory.
Return ==
    /\ pc = "toc" /\ i >= n_entries /\ mem.callers # <<>>
    /\ mem' = [mem EXCEPT !.ptr = Last(mem.callers).ptr, !.callers = Front(@)]
    /\ i' = Last(mem.callers).i + 1
    /\ cwd' = Front(cwd)
    /\ UNCHANGED <<fs, archive, pc>>

Finish ==
    /\ pc = "toc" /\ i >= n_entries /\ mem.callers = <<>>
    /\ pc' = "done"
    /\ UNCHANGED <<fs, cwd, archive, i, mem>>

Next == \/ OpenDump \/ OpenFails
        \/ Loader \/ Ros \/ NoDir \/ WriteFile \/ Return \/ Finish

Spec == Init /\ [][Next]_vars

-----------------------------------------------------------------------------
(* Properties *)

\* What is at a unit of a dump; how many entries a table has, and of one of them
\* the name, where its table or file is, and the units of the file.
Unit(dump, n)            == dump[n + 1]
EntriesOf(dump, toc)     == Unit(dump, toc)[2]
NameOf(dump, toc, k)     == Unit(dump, toc + 3 * k + 2)[2]
IsTable(n)               == n \in ROS \cup {"asecure_loader"}
OffsetOf(dump, toc, k)   == Unit(dump, toc + 3 * k + 1)[2]
TableOf(dump, toc, k)    ==
    IF NameOf(dump, toc, k) \in ROS THEN toc + OffsetOf(dump, toc, k) + 1 ELSE toc + OffsetOf(dump, toc, k)
DataOf(dump, toc, k) ==
    LET at   == toc + OffsetOf(dump, toc, k)
        skip == IF at + 1 < Len(dump) /\ Unit(dump, at + 1) = MAGIC THEN 1 ELSE 0
    IN  [w \in 1..(Unit(dump, toc + 3 * k + 1)[3] - skip) |-> Unit(dump, at + skip + w - 1)]

\* The dump was made of a tree: tree.tocs has the place of each table by the path
\* of its directory, tree.files the files; there is nothing else in the tables.
IsDump(job) ==
    LET tocs  == job.tree.tocs
        files == job.tree.files
        Indices(q) == 0..(EntriesOf(job.dump, tocs[q]) - 1)
        PathOf(q, k) == q \o <<NameOf(job.dump, tocs[q], k)>>
    IN  /\ TO \in DOMAIN tocs /\ tocs[TO] = job.toc
        /\ \A q \in DOMAIN tocs :
             /\ q \in Seq(ToSet(q)) \ {<<>>} /\ q[1] = "to"
             /\ \A n \in 1..Len(q) : SubSeq(q, 1, n) \in DOMAIN tocs
             /\ tocs[q] \in Nat /\ EntriesOf(job.dump, tocs[q]) \in Nat
             /\ \A k \in Indices(q) :
                  IF IsTable(NameOf(job.dump, tocs[q], k))
                  THEN /\ PathOf(q, k) \in DOMAIN tocs
                       /\ tocs[PathOf(q, k)] = TableOf(job.dump, tocs[q], k)
                  ELSE /\ PathOf(q, k) \in DOMAIN files
                       /\ files[PathOf(q, k)] = DataOf(job.dump, tocs[q], k)
        /\ \A q \in DOMAIN tocs \ {TO} : \E k \in Indices(Front(q)) :
             q = PathOf(Front(q), k) /\ IsTable(NameOf(job.dump, tocs[Front(q)], k))
        /\ \A f \in DOMAIN files : \E q \in DOMAIN tocs : \E k \in Indices(q) :
             f = PathOf(q, k) /\ ~IsTable(NameOf(job.dump, tocs[q], k))

IsJob(job) == job.fs = [dirs |-> job.fs.dirs, files |-> job.fs.files] /\ IsDump(job)

\* The tree of tables and files that the dump was made of is the tree of
\* directories and files below the target, however deep and in whatever order
\* tables and files follow one another, and beside what was there already.
\* Every table leaves its directory, so that do_toc() ends where it began.
NorAsTree ==
    LET tree == mem.job.tree
        old  == Below(mem.job.fs, TO)
    IN  /\ pc = "toc" => Len(cwd) = 1 + Len(mem.callers)
        /\ pc = "done" =>
             /\ cwd = TO
             /\ DOMAIN tree.tocs \subseteq fs.dirs
             /\ Below(fs, TO) = [f \in DOMAIN tree.files \cup DOMAIN old |->
                                   IF f \in DOMAIN tree.files THEN tree.files[f] ELSE old[f]]
=============================================================================
