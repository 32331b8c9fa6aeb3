------------------------------- MODULE MCCosPkg -------------------------------
(* Directories of at most three entries: names that are short, that fill     *)
(* the field, that differ only behind what is kept of them and that are too  *)
(* long, a directory, files of no, one and several octets.                   *)
EXTENDS CosPkg

Name(first, rest, len) == [first |-> first, rest |-> rest, len |-> len]
File(name, size)       == [name |-> name, size |-> size, regular |-> TRUE]

MCEntries ==
    {File(Name("a", 0, 1), 0), File(Name("a", 0, 1), 3),
     File(Name("b", 0, 2), 1), File(Name("c", 0, 2), 2),
     File(Name("long", 1, 3), 1), File(Name("long", 2, 3), 5),
     File(Name("long", 3, 4), 1),
     [name |-> Name("sub", 0, 2), size |-> 0, regular |-> FALSE]}
=============================================================================
