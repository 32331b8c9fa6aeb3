-------------------------------- MODULE CosPkg --------------------------------
(***************************************************************************)
(* cospkg packs the files of a directory, cosunpkg unpacks them again.     *)
(*                                                                         *)
(* A name is its first KEEP characters, a number for the rest, 0 where     *)
(* nothing is left, and its length; an octet of a file is that file's name *)
(* and the place in it.  The total size in the header is left out:         *)
(* cosunpkg reads it and does not use it.                                  *)
(***************************************************************************)
EXTENDS Integers, Sequences, SequencesExt, RoundUp

CONSTANTS KEEP,        \* characters copied of a name, 0x19 in the code
          NAME_LEN,    \* characters of the field, 0x20 in the code
          MAX_FILES,   \* 255 in the code
          ALIGN,       \* 0x20 in the code
          HDR, ENTRY,  \* sizes in the header, 0x10 and 0x30 in the code
          Entries,     \* what may be in a directory
          MaxDir       \* how many of them at most

ASSUME CosAssumption ==
    /\ KEEP \in Nat \ {0} /\ NAME_LEN \in Nat \ {0} /\ MAX_FILES \in Nat \ {0}
    /\ ALIGN \in Nat \ {0} /\ HDR \in Nat \ {0} /\ ENTRY \in Nat \ {0}
    /\ KEEP <= NAME_LEN /\ MaxDir \in Nat

Names == [first : STRING, rest : Nat, len : Nat]

ASSUME EntriesAssumption ==
    /\ IsFiniteSet(Entries)
    /\ Entries \subseteq [name : Names, size : Nat, regular : BOOLEAN]
    /\ \A e \in Entries : e.name.len <= KEEP <=> e.name.rest = 0
    /\ \A e \in Entries : e.name.first \notin {".", ".."}

VARIABLES dir,      \* the files of the directory
          listing,  \* what readdir() has still to return
          files,    \* the array of cospkg
          image,    \* the .pkg file: an octet for each place in it
          table,    \* the entries in its header
          pc, failure,
          i,        \* the file to be written or unpacked next
          out       \* what cosunpkg has written, name by name

pkg_file  == [file : Entries, name : Names, size : Nat, offset : Nat]
TableEntry == [offset : Nat, size : Nat, name : Names]

vars == <<dir, listing, files, image, table, pc, failure, i, out>>

Dot(name) == [name |-> [first |-> name, rest |-> 0, len |-> 1], size |-> 0, regular |-> FALSE]
DOTS == {Dot("."), Dot("..")}
ZERO == <<"zero">>
Octet(e, k) == <<"octet", e.name, k>>

-----------------------------------------------------------------------------
\* Directories have no two files of one name; readdir() has any order.
Directories == {d \in SUBSET Entries :
                  /\ Cardinality(d) <= MaxDir
                  /\ \A a, b \in d : a.name = b.name => a = b}

Init == /\ dir \in Directories
        /\ listing \in SetToSeqs(dir \cup DOTS)
        /\ files = <<>> /\ table = <<>> /\ out = <<>>
        /\ image = <<>>
        /\ pc = "get_files" /\ failure = "none" /\ i = 1

Fails(message) == /\ failure' = message /\ pc' = "failed"
                  /\ UNCHANGED <<dir, listing, files, image, table, i, out>>

\* strncpy() of KEEP characters.
Kept(name) == IF name.len <= KEEP THEN name
              ELSE [first |-> name.first, rest |-> 0, len |-> KEEP]

\* The first multiple of ALIGN behind the last file.
NextOffset == IF files = <<>> THEN 0
              ELSE round_up(Last(files).offset + Last(files).size, ALIGN)

\* Is the array full?
Full == Len(files) = MAX_FILES

\* The turns of the loop of get_files(), one for each way through it.
Reading == pc = "get_files" /\ listing # <<>>

FileOverflow == Reading /\ Full /\ Fails("file overflow")

SkipDots ==
    /\ Reading /\ ~Full /\ Head(listing) \in DOTS
    /\ listing' = Tail(listing)
    /\ UNCHANGED <<dir, files, image, table, pc, failure, i, out>>

TooLong(e) == e.name.len > NAME_LEN

RejectName == /\ Reading /\ ~Full /\ Head(listing) \notin DOTS
              /\ TooLong(Head(listing))
              /\ Fails("name too long")

RejectKind == /\ Reading /\ ~Full /\ Head(listing) \notin DOTS
              /\ ~TooLong(Head(listing)) /\ ~Head(listing).regular
              /\ Fails("not a file")

TakeFile ==
    /\ Reading /\ ~Full
    /\ LET e == Head(listing)
       IN  /\ e \notin DOTS /\ ~TooLong(e) /\ e.regular
           /\ files' = Append(files, [file |-> e, name |-> Kept(e.name),
                                      size |-> e.size, offset |-> NextOffset])
    /\ listing' = Tail(listing)
    /\ UNCHANGED <<dir, image, table, pc, failure, i, out>>

hdr_size == HDR + Len(files) * ENTRY

HeaderOctet(p) == <<"header", p>>

\* fseek() to from, and fwrite() of the octets of f; a gap in front of them is
\* filled with zeros.
Written(from, f) ==
    [p \in DOMAIN image \cup IF f.size = 0 THEN {} ELSE 0..(from + f.size - 1) |->
        IF p \in from..(from + f.size - 1) THEN Octet(f.file, p - from)
        ELSE IF p \in DOMAIN image THEN image[p] ELSE ZERO]

\* Wrong on purpose: offsets that are not those of the whole file.
BadOffsetOf(f) == f.offset

OffsetOf(f) == f.offset + hdr_size

\* Without a file build_hdr() reads files[0xffffffff].  If that ends it, it ends
\* here; if not, the sum that it makes is the total size in the header.
EmptyDirectory ==
    /\ pc = "get_files" /\ listing = <<>> /\ files = <<>>
    /\ pc' = "crashed"
    /\ UNCHANGED <<dir, listing, files, image, table, failure, i, out>>

\* build_hdr(), and the first fwrite() of write_pkg()
BuildHdr ==
    /\ pc = "get_files" /\ listing = <<>>
    /\ table' = [k \in 1..Len(files) |-> [offset |-> OffsetOf(files[k]),
                                          size |-> files[k].size, name |-> files[k].name]]
    /\ image' = [p \in 0..(hdr_size - 1) |-> HeaderOctet(p)]
    /\ pc' = "write_pkg"
    /\ UNCHANGED <<dir, listing, files, failure, i, out>>

WriteFile ==
    /\ pc = "write_pkg" /\ i <= Len(files)
    /\ image' = Written(files[i].offset + hdr_size, files[i])
    /\ i' = i + 1
    /\ UNCHANGED <<dir, listing, files, table, pc, failure, out>>

WriteEnd ==
    /\ pc = "write_pkg" /\ i > Len(files)
    /\ pc' = "packed" /\ i' = 1
    /\ UNCHANGED <<dir, listing, files, image, table, failure, out>>

-----------------------------------------------------------------------------
\* unpack_file() of cosunpkg: a file that is there already is overwritten.
UnpackFile ==
    /\ pc = "packed" /\ i <= Len(table)
    /\ LET t == table[i]
           data == [k \in 0..(t.size - 1) |-> image[t.offset + k]]
       IN  out' = [name \in DOMAIN out \cup {t.name} |->
                     IF name = t.name THEN data ELSE out[name]]
    /\ i' = i + 1
    /\ UNCHANGED <<dir, listing, files, image, table, pc, failure>>

UnpackEnd ==
    /\ pc = "packed" /\ i > Len(table)
    /\ pc' = "unpacked"
    /\ UNCHANGED <<dir, listing, files, image, table, failure, i, out>>

Next == \/ FileOverflow \/ SkipDots \/ RejectName \/ RejectKind \/ TakeFile
        \/ EmptyDirectory \/ BuildHdr \/ WriteFile \/ WriteEnd \/ UnpackFile \/ UnpackEnd

Spec == Init /\ [][Next]_vars

-----------------------------------------------------------------------------
(* Properties *)

TypeOK == /\ dir \subseteq Entries
          /\ listing \in Seq(Entries \cup DOTS)
          /\ files \in Seq(pkg_file)
          /\ table \in Seq(TableEntry)
          /\ pc \in {"get_files", "write_pkg", "packed", "unpacked", "failed", "crashed"}
          /\ i \in Nat \ {0}

\* get_files() never puts more entries into the array than there is room for, in
\* whatever order readdir() returns the directory.  In a finished package the files cover
\* neither each other nor the header.
Intact ==
    /\ Len(files) <= MAX_FILES
    /\ pc \in {"packed", "unpacked"} =>
        /\ \A p \in 0..(hdr_size - 1) : image[p] = HeaderOctet(p)
        /\ \A k \in 1..Len(files) : \A j \in 0..(files[k].size - 1) :
               image[files[k].offset + hdr_size + j] = Octet(files[k].file, j)

\* Every file comes back, octet by octet and under the name that was kept of
\* its own, unless another one of the same kept name replaces it.
Unpacked ==
    pc = "unpacked" =>
        /\ DOMAIN out = {Kept(e.name) : e \in dir}
        /\ \A name \in DOMAIN out : \E e \in dir :
               Kept(e.name) = name /\ out[name] = [k \in 0..(e.size - 1) |-> Octet(e, k)]

\* What the message "name too long" of cospkg.c:54 says by its limit, and the
\* 0x20 octets of a name in the format: a shorter name is stored as it is.
NamesKept == pc = "unpacked" => \A e \in dir : e.name \in DOMAIN out
=============================================================================
