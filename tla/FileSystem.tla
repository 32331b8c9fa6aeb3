------------------------------ MODULE FileSystem ------------------------------
(***************************************************************************)
(* The directories and files that the unpacking tools work on, and what    *)
(* the calls they make do there.  A path is a sequence of names, a file a  *)
(* sequence of octets or words; a file system is the set of its            *)
(* directories and a function from paths to files.  The permissions allow  *)
(* everything.                                                             *)
(***************************************************************************)
EXTENDS Sequences, SequencesExt, FiniteSets, TLC

\* A file system: its files are sequences.
IsFileSystem(fs) ==
    /\ fs = [dirs |-> fs.dirs, files |-> fs.files]
    /\ \A path \in DOMAIN fs.files : fs.files[path] \in Seq(ToSet(fs.files[path]))

Exists(fs, path) == path \in fs.dirs \/ path \in DOMAIN fs.files

\* mkdir() refuses what exists and what has no parent.
CanMkdir(fs, path) == ~Exists(fs, path) /\ Front(path) \in fs.dirs

mkdir(fs, path) ==
    IF CanMkdir(fs, path) THEN [fs EXCEPT !.dirs = @ \cup {path}] ELSE fs

\* fopen() for writing
CanWrite(fs, path) == Front(path) \in fs.dirs /\ path \notin fs.dirs

memcpy_to_file(fs, path, data) ==
    [fs EXCEPT !.files = [p \in DOMAIN fs.files \cup {path} |->
                            IF p = path THEN data ELSE fs.files[p]]]

\* What lies below a directory.
Below(fs, path) ==
    [p \in {q \in DOMAIN fs.files : IsPrefix(path, q)} |-> fs.files[p]]
=============================================================================
