------------------------------ MODULE MCArchives ------------------------------
(* The directories of MCCosPkg, and for each of the other tools the file     *)
(* systems, packages and dumps that it meets.                                *)
EXTENDS MCCosPkg, Archives

\* The operators of the tools that the jobs are made of.
PkgOp  == INSTANCE Pkg WITH Jobs <- {}, ALIGN <- PKG_ALIGN
NorOp  == INSTANCE NorUnpack WITH Dumps <- {}
GpkgOp == INSTANCE Ungpkg WITH Packages <- {}

Data(name, k) == [w \in 1..k |-> <<"data", name, w>>]
FileTree(dirs, contents) == [dirs |-> {<<>>} \cup dirs, files |-> contents]
TO == <<"to">>
SRC == <<"src">>

-----------------------------------------------------------------------------
(* puppack: no, one or two of the three names, files of no to two words and  *)
(* of W words and more, another file, a target that exists, no directory and *)
(* no key.                                                                   *)

MCNames == <<[id |-> 2, name |-> "version.txt"], [id |-> 3, name |-> "dots.txt"],
             [id |-> 5, name |-> "vsh.tar"]>>

Sources == UNION {[S -> 0..2] : S \in SUBSET {"version.txt", "dots.txt", "other"}}
             \cup {("version.txt" :> 1) @@ ("dots.txt" :> 0) @@ ("vsh.tar" :> 1),
                   "version.txt" :> W + 2, ("version.txt" :> 1) @@ ("dots.txt" :> W)}

PupFiles(sizes) == [p \in {SRC \o <<name>> : name \in DOMAIN sizes} |->
                      Data(Last(p), sizes[Last(p)])]
PupJob(tree, pack, unpack) == [fs |-> tree, pack_key |-> pack, unpack_key |-> unpack]

MCPupJobs ==
    {PupJob(FileTree({SRC}, PupFiles(s)), TRUE, k) : s \in Sources, k \in BOOLEAN}
    \cup {PupJob(FileTree({SRC, TO}, PupFiles("dots.txt" :> 1)), k, TRUE) : k \in BOOLEAN}
    \cup {PupJob(FileTree({}, <<>>), TRUE, TRUE)}

-----------------------------------------------------------------------------
(* pkg: a package that is there before, of pkg's kind, without compression,  *)
(* or of another kind; new inputs, of which info0 may be short and content   *)
(* empty or missing; every kind of target.                                   *)

Word(version, name, k) == [w \in 1..k |-> <<"word", version, name, w>>]
Parts(plain) ==
    LET content == Word("old", "content", 2)
    IN  [info0 |-> Word("old", "info0", INFO), info1 |-> Word("old", "info1", INFO),
         content |-> content, stream |-> IF plain THEN content ELSE PkgOp!Deflated(content, 1)]
Fields(plain) ==
    [type |-> 3, n_sections |-> 3, info_size |-> INFO, compressed |-> ~plain,
     size |-> Len(Parts(plain).stream), dec_size |-> 2 * INFO + 2]
OldPkg(kind, fields) ==
    LET p == Parts(kind = "plain")
    IN  [kind |-> kind, file |-> <<PkgOp!Header(fields)>> \o p.info0 \o p.info1 \o p.stream]
OldPkgs ==
    {OldPkg("plain", Fields(TRUE)), OldPkg("z", Fields(FALSE)),
     OldPkg("odd", [Fields(FALSE) EXCEPT !.type = 1]),
     OldPkg("odd", [Fields(FALSE) EXCEPT !.n_sections = 2]),
     OldPkg("odd", [Fields(FALSE) EXCEPT !.info_size = INFO + 1])}

Inputs(sizes) == [p \in {SRC \o <<name>> : name \in DOMAIN sizes} |->
                    Word("new", Last(p), sizes[Last(p)])]
Sizes == {("info0" :> s) @@ ("info1" :> INFO) @@ ("content" :> c) : s \in {3, INFO}, c \in {0, 1, 3}}
           \cup {"info0" :> 2}
PkgTargets == {FileTree({SRC}, <<>>), FileTree({SRC, TO}, TO \o <<"content">> :> <<>>),
               FileTree({SRC}, TO :> <<>>)}
PkgJob(tree, kind, pack, unpack, full, only) ==
    [fs |-> tree, old |-> Parts(kind = "plain"), well_formed |-> kind # "odd",
     pack_key |-> pack, unpack_key |-> unpack, disk_full |-> full, only_content |-> only]

MCPkgJobs ==
    {PkgJob([t EXCEPT !.files = (PkgOp!PKG :> o.file) @@ Inputs(n) @@ @], o.kind, TRUE, unpack, full, only) :
       t \in PkgTargets, o \in OldPkgs, n \in Sizes, unpack \in BOOLEAN, full \in BOOLEAN, only \in BOOLEAN}
    \cup {PkgJob(FileTree({SRC}, Inputs(n)), "odd", FALSE, TRUE, FALSE, FALSE) : n \in Sizes}

-----------------------------------------------------------------------------
(* norunpack: tables in tables, up to three deep, with files in front of,    *)
(* between and behind them; every kind of target.                            *)

\* A table is a sequence of entries: a name, the units behind it, and what
\* should come of it: files, and directories with the place of their tables.
Leaf(n, sce, k) ==
    LET data == [w \in 1..k |-> IF sce /\ w = 2 THEN NorOp!MAGIC ELSE <<"data", n, w>>]
    IN  [name |-> n, units |-> data,
         tree |-> [tocs |-> <<>>, files |-> <<n>> :> IF sce THEN Tail(data) ELSE data]]

\* Where the units of each entry begin in a table.
Starts(rows) ==
    LET at[n \in 1..(Len(rows) + 1)] ==
            IF n = 1 THEN 1 + 3 * Len(rows) ELSE at[n - 1] + Len(rows[n - 1].units)
    IN  at

\* The units of a table, with what it refers to behind its rows.
Dump(rows) ==
    LET row(n) == <<NorOp!Row(Starts(rows)[n], Len(rows[n].units)),
                    NorOp!Name(rows[n].name), NorOp!Name(rows[n].name)>>
    IN  <<NorOp!Table(Len(rows))>> \o FlattenSeq([n \in 1..Len(rows) |-> row(n)])
          \o FlattenSeq([n \in 1..Len(rows) |-> rows[n].units])

\* The tree that should come of it, in a directory.
Moved(path, tree, by) ==
    [tocs |-> [q \in {path \o d : d \in DOMAIN tree.tocs} |-> by + tree.tocs[SubSeq(q, Len(path) + 1, Len(q))]],
     files |-> [q \in {path \o f : f \in DOMAIN tree.files} |-> tree.files[SubSeq(q, Len(path) + 1, Len(q))]]]
Both(t, u) == [tocs |-> t.tocs @@ u.tocs, files |-> t.files @@ u.files]
DumpTree(rows) ==
    FoldLeft(Both, [tocs |-> <<>> :> 0, files |-> <<>>],
             [n \in 1..Len(rows) |-> Moved(<<>>, rows[n].tree, Starts(rows)[n])])

\* A table in a table: all but the loader begin with a unit of their own.
Toc(n, rows) ==
    LET header == IF n = "asecure_loader" THEN <<>> ELSE <<<<"ros">>>>
    IN  [name |-> n, units |-> header \o Dump(rows),
         tree |-> Moved(<<n>>, DumpTree(rows), Len(header))]

Rows == LET leaf == {Leaf("a", FALSE, 2), Leaf("b", TRUE, 3), Leaf("c", FALSE, 0)}
            inner == {<<>>} \cup {<<x>> : x \in leaf} \cup {<<x, Leaf("d", FALSE, 1)>> : x \in leaf}
            deep == {<<Toc(n, r)>> : n \in {"ros0", "asecure_loader"}, r \in inner}
              \cup {<<Toc("ros1", r), Leaf("a", TRUE, 2)>> : r \in inner}
            some == inner \cup deep
        IN  {<<Toc("asecure_loader", r), Leaf("e", FALSE, 1), Toc("ros0", q), Leaf("a", FALSE, 1)>> : r \in some, q \in some}
            \cup {<<Leaf("e", FALSE, 1), Toc("ros1", r)>> : r \in some}

NorTargets == {FileTree({}, <<>>), FileTree({TO}, TO \o <<"old">> :> <<NorOp!MAGIC>>),
           FileTree({}, TO :> <<NorOp!MAGIC>>), FileTree({TO}, TO \o <<"ros0">> :> <<NorOp!MAGIC>>),
           FileTree({TO, TO \o <<"e">>}, <<>>)}

MCDumps == {[fs |-> t, toc |-> 2, tree |-> Moved(TO, DumpTree(r), 2), dump |-> <<<<"nor">>, <<"nor">>>> \o Dump(r)] :
              t \in NorTargets, r \in Rows}

-----------------------------------------------------------------------------
(* ungpkg: up to three entries, directories before and behind what is in     *)
(* them, a name that is too long, flags that are unknown; blocks that end    *)
(* inside of the package and at its end; packages of W cells and more.       *)

Encrypted(cells) == [n \in 1..Len(cells) |-> GpkgOp!Xor(cells[n], (n - 1) \div BLOCK, (n - 1) % BLOCK)]

\* What a package is made of: paths, octets of a file, none of a directory,
\* flags and the length of the name.
Item(pth, k, fl, len) == [path |-> pth, k |-> k, flags |-> fl, len |-> len]
Octets(e) == [w \in 1..e.k |-> <<"data", e.path, w>>]
Plain(items) ==
    LET n == Len(items)
        at[k \in 1..(n + 1)] == IF k = 1 THEN 2 * n ELSE at[k - 1] + items[k - 1].k
    IN  [k \in 1..n |-> GpkgOp!Entry(n + k - 1, items[k].len, at[k], items[k].k, items[k].flags)]
        \o [k \in 1..n |-> <<"name", items[k].path>>]
        \o FlattenSeq([k \in 1..n |-> Octets(items[k])])

GpkgFiles(items) == {x \in ToSet(items) : x.flags # 4}
Ordered(items) ==
    \A k \in 1..Len(items) : Len(items[k].path) > 1 =>
        \E j \in 1..(k - 1) : items[j].path = Front(items[k].path) /\ items[j].flags = 4
ItemTree(items) == [dirs |-> {x.path : x \in ToSet(items) \ GpkgFiles(items)},
                  files |-> [q \in {x.path : x \in GpkgFiles(items)} |->
                               Octets(CHOOSE x \in GpkgFiles(items) : x.path = q)]]

Some == {Item(<<"d">>, 0, 4, 1), Item(<<"d", "f">>, 2, 1, 3), Item(<<"d", "g">>, 0, 3, 3),
         Item(<<"e">>, 3, 3, 1), Item(<<"h">>, 1, 1, 4), Item(<<"k">>, 1, 2, 1),
         Item(<<"d", "s">>, 0, 4, 3), Item(<<"l">>, W - 5, 1, 1)}
ItemLists == UNION {{l \in [1..n -> Some] : \A a, b \in 1..n : a # b => l[a] # l[b]} : n \in 0..3}

GpkgTargets == {[dirs |-> {<<>>}, files |-> <<>>],
           [dirs |-> {<<>>, TO}, files |-> TO \o <<"e">> :> <<<<"old">>>>],
           [dirs |-> {<<>>}, files |-> TO :> <<>>]}
Kinds == {[retail |-> FALSE, type |-> 1, key |-> FALSE], [retail |-> TRUE, type |-> 1, key |-> TRUE],
          [retail |-> TRUE, type |-> 2, key |-> TRUE], [retail |-> TRUE, type |-> 1, key |-> FALSE]}

MCPackages ==
    {[fs |-> b, data |-> Encrypted(Plain(l)), size |-> Len(Plain(l)), n_files |-> Len(l),
      retail |-> k.retail, type |-> k.type, key |-> k.key, tree |-> ItemTree(l), ordered |-> Ordered(l)] :
       b \in GpkgTargets, l \in ItemLists, k \in Kinds}
=============================================================================
