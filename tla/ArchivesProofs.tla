---------------------------- MODULE ArchivesProofs ----------------------------
(***************************************************************************)
(* cospkg never overruns its array, the files of a package lie behind the  *)
(* header and apart from each other, and cosunpkg gives them back, for     *)
(* every directory, every order of readdir() and every value of the        *)
(* constants.  What unpkg makes of the file of pkg comes from one package, *)
(* wherever pkg was stopped and whatever was there before, ungpkg decrypts *)
(* and unpacks what its package was made of, norunpack leaves the tree     *)
(* that its dump was made of, and pupunpack gives back what puppack has    *)
(* packed and is right in what it says of a package that was damaged.      *)
(***************************************************************************)
EXTENDS PupProofs

\* A count of entries times the size of one is a natural number.
LEMMA ProductIsNat == \A m, n \in Nat : m * n \in Nat
OBVIOUS

\* File k is in the package as it is on the disk.
Stored(k) ==
    \A j \in 0..(files[k].size - 1) :
        /\ files[k].offset + hdr_size + j \in DOMAIN image
        /\ image[files[k].offset + hdr_size + j] = Octet(files[k].file, j)

HeaderStored == \A p \in 0..(hdr_size - 1) : p \in DOMAIN image /\ image[p] = HeaderOctet(p)

\* No file begins before all in front of it have ended.
Ordered == \A k, l \in 1..Len(files) :
               k < l => files[k].offset + files[k].size <= files[l].offset

\* The inductive invariant: what has been written so far stays there.
IInv == /\ TypeOK
        /\ Len(files) <= MAX_FILES
        /\ Ordered
        /\ pc = "get_files" => i = 1
        /\ pc \in {"write_pkg", "packed", "unpacked"} => HeaderStored
        /\ pc = "write_pkg" => \A k \in 1..Len(files) : k < i => Stored(k)
        /\ pc \in {"packed", "unpacked"} => \A k \in 1..Len(files) : Stored(k)

LEMMA HdrSizeIsNat == TypeOK => hdr_size \in Nat
BY CosAssumption, ProductIsNat DEF hdr_size, TypeOK

LEMMA InitIInv == Init => IInv
<1> SUFFICES ASSUME Init PROVE IInv
  OBVIOUS
<1>1. dir \subseteq Entries
  BY DEF Init, Directories
<1>2. IsFiniteSet(dir \cup DOTS)
  <2>1. IsFiniteSet(dir)
    BY <1>1, EntriesAssumption, FS_Subset
  <2>2. IsFiniteSet({Dot(".")}) /\ IsFiniteSet({Dot("..")})
    BY FS_Singleton
  <2>3. DOTS = {Dot(".")} \cup {Dot("..")}
    BY DEF DOTS
  <2>4. QED
    BY <2>1, <2>2, <2>3, FS_Union
<1>3. Cardinality(dir \cup DOTS) \in Nat
  BY <1>2, FS_CardinalityType
<1>4. listing \in [1..Cardinality(dir \cup DOTS) -> dir \cup DOTS]
  BY DEF Init, SetToSeqs
<1>5. listing \in Seq(Entries \cup DOTS)
  <2>1. listing \in [1..Cardinality(dir \cup DOTS) -> Entries \cup DOTS]
    BY <1>1, <1>4
  <2>2. QED
    BY <1>3, <2>1, FunctionIsSeq
<1>6. files = <<>> /\ table = <<>> /\ Len(files) = 0
  BY DEF Init
<1>7. TypeOK
  BY <1>1, <1>5, <1>6 DEF Init, TypeOK
<1>8. Ordered /\ Len(files) <= MAX_FILES
  BY <1>6, CosAssumption DEF Ordered
<1>9. QED
  BY <1>7, <1>8 DEF Init, IInv

LEMMA KeptIsName == ASSUME NEW n \in Names PROVE Kept(n) \in Names
BY CosAssumption DEF Kept, Names

LEMMA FileFacts ==
    ASSUME TypeOK
    PROVE  /\ Len(files) \in Nat
           /\ \A k \in 1..Len(files) : files[k] \in pkg_file
           /\ \A k \in 1..Len(files) : files[k].offset \in Nat /\ files[k].size \in Nat
<1>1. files \in Seq(pkg_file)
  BY DEF TypeOK
<1>2. \A f \in pkg_file : f.offset \in Nat /\ f.size \in Nat
  BY DEF pkg_file
<1>3. Len(files) \in Nat /\ \A k \in 1..Len(files) : files[k] \in pkg_file
  BY <1>1, ElementOf
<1>4. QED
  BY <1>2, <1>3

\* The place for the next file is behind all that there are.
LEMMA NextIsBehind ==
    ASSUME TypeOK, Ordered
    PROVE  /\ NextOffset \in Nat
           /\ \A k \in 1..Len(files) : files[k].offset + files[k].size <= NextOffset
<1>1. CASE files = <<>>
  BY <1>1 DEF NextOffset
<1>2. CASE files # <<>>
  <2> DEFINE n == Len(files)
             end == files[n].offset + files[n].size
  <2>1. n \in 1..n
    <3>1. n # 0
      BY <1>2 DEF TypeOK
    <3>2. QED
      BY <3>1, FileFacts
  <2>2. files[n].offset \in Nat /\ files[n].size \in Nat /\ end \in Nat
    BY <2>1, FileFacts
  <2>3. NextOffset = round_up(end, ALIGN)
    BY <1>2 DEF NextOffset, Last
  <2> HIDE DEF end
  <2>4. NextOffset \in Nat /\ NextOffset >= end
    BY <2>2, <2>3, RoundUpFacts, CosAssumption
  <2>5. ASSUME NEW k \in 1..n
        PROVE  files[k].offset + files[k].size <= NextOffset
    <3>1. files[k].offset \in Nat /\ files[k].size \in Nat
      BY <2>5, FileFacts
    <3>2. CASE k = n
      BY <2>4, <3>2 DEF end
    <3>3. CASE k < n
      <4>1. files[k].offset + files[k].size <= files[n].offset
        BY <2>1, <2>5, <3>3 DEF Ordered
      <4>2. QED
        BY <2>2, <2>4, <3>1, <4>1 DEF end
    <3>4. QED
      BY <2>1, <2>5, <3>2, <3>3
  <2>6. QED
    BY <2>4, <2>5
<1>3. QED
  BY <1>1, <1>2

LEMMA TailFacts ==
    ASSUME NEW S, NEW s \in Seq(S), s # <<>>
    PROVE  Head(s) \in S /\ Tail(s) \in Seq(S)
OBVIOUS

\* What fwrite() leaves alone, and what it changes.
LEMMA WrittenFacts ==
    ASSUME NEW from \in Nat, NEW f, f.size \in Nat
    PROVE  /\ \A p \in DOMAIN image : p < from =>
                  p \in DOMAIN Written(from, f) /\ Written(from, f)[p] = image[p]
           /\ \A j \in 0..(f.size - 1) :
                  /\ from + j \in DOMAIN Written(from, f)
                  /\ Written(from, f)[from + j] = Octet(f.file, j)
<1> DEFINE D == DOMAIN image \cup IF f.size = 0 THEN {} ELSE 0..(from + f.size - 1)
           cell(p) == IF p \in from..(from + f.size - 1) THEN Octet(f.file, p - from)
                      ELSE IF p \in DOMAIN image THEN image[p] ELSE ZERO
<1>1. Written(from, f) = [p \in D |-> cell(p)]
  BY DEF Written
<1>2. ASSUME NEW p \in DOMAIN image, p < from
      PROVE  p \in D /\ cell(p) = image[p]
  <2>1. p \notin from..(from + f.size - 1)
    BY <1>2
  <2>2. QED
    BY <2>1
<1>3. ASSUME NEW j \in 0..(f.size - 1)
      PROVE  from + j \in D /\ cell(from + j) = Octet(f.file, j)
  <2>1. from + j \in from..(from + f.size - 1) /\ f.size # 0 /\ (from + j) - from = j
    BY <1>3
  <2>2. from + j \in 0..(from + f.size - 1)
    BY <1>3
  <2>3. QED
    BY <2>1, <2>2
<1> HIDE DEF D, cell
<1>4. QED
  BY <1>1, <1>2, <1>3

\* A step that leaves the array and the package alone keeps what is stored.
LEMMA StoredKept ==
    ASSUME UNCHANGED <<files, image>>
    PROVE  /\ HeaderStored' <=> HeaderStored
           /\ Ordered' <=> Ordered
           /\ \A k : Stored(k)' <=> Stored(k)
BY DEF HeaderStored, Ordered, Stored, hdr_size

LEMMA FailsKeeps == ASSUME IInv, NEW message, Fails(message) PROVE IInv'
<1>1. TypeOK'
  BY DEF IInv, TypeOK, Fails
<1>2. UNCHANGED <<files, image>> /\ pc' = "failed"
  BY DEF Fails
<1>3. QED
  BY <1>1, <1>2, StoredKept DEF IInv

LEMMA TakeFileKeeps == ASSUME IInv, TakeFile PROVE IInv'
<1> DEFINE e == Head(listing)
           n == Len(files)
           f == [file |-> e, name |-> Kept(e.name), size |-> e.size, offset |-> NextOffset]
<1>1. e \in Entries /\ Tail(listing) \in Seq(Entries \cup DOTS)
  <2>1. e \in Entries \cup DOTS /\ Tail(listing) \in Seq(Entries \cup DOTS)
    BY TailFacts DEF IInv, TypeOK, TakeFile, Reading
  <2>2. QED
    BY <2>1 DEF TakeFile
<1>2. NextOffset \in Nat /\ \A k \in 1..n : files[k].offset + files[k].size <= NextOffset
  BY NextIsBehind DEF IInv
<1>3. e.name \in Names /\ e.size \in Nat
  BY <1>1, EntriesAssumption
<1>4. f \in pkg_file
  BY <1>1, <1>2, <1>3, KeptIsName DEF pkg_file
<1>5. f.offset = NextOffset
  OBVIOUS
<1>6. files' = Append(files, f) /\ listing' = Tail(listing) /\ pc' = pc /\ i' = i
      /\ pc = "get_files" /\ n # MAX_FILES /\ UNCHANGED <<dir, table>>
  BY DEF TakeFile, Reading, Full
<1> HIDE DEF e, f
<1>7. n \in Nat /\ files \in Seq(pkg_file)
  BY FileFacts DEF IInv, TypeOK
<1>8. /\ files' \in Seq(pkg_file) /\ Len(files') = n + 1 /\ files'[n + 1] = f
      /\ \A k \in 1..n : files'[k] = files[k]
  BY <1>4, <1>6, <1>7, AppendFacts
<1>9. TypeOK'
  BY <1>1, <1>6, <1>8 DEF IInv, TypeOK
<1>10. Ordered'
  <2> SUFFICES ASSUME NEW k \in 1..(n + 1), NEW l \in 1..(n + 1), k < l
               PROVE  files'[k].offset + files'[k].size <= files'[l].offset
    BY <1>8 DEF Ordered
  <2>1. k \in 1..n /\ files'[k] = files[k]
    BY <1>7, <1>8
  <2>2. CASE l = n + 1
    BY <1>2, <1>5, <1>8, <2>1, <2>2
  <2>3. CASE l \in 1..n
    BY <1>8, <2>1, <2>3 DEF IInv, Ordered
  <2>4. QED
    BY <1>7, <2>2, <2>3
<1>11. Len(files') <= MAX_FILES
  BY <1>6, <1>7, <1>8, CosAssumption DEF IInv
<1>12. QED
  BY <1>6, <1>9, <1>10, <1>11 DEF IInv

LEMMA BuildHdrKeeps == ASSUME IInv, BuildHdr PROVE IInv'
<1> DEFINE n == Len(files)
           t(k) == [offset |-> OffsetOf(files[k]), size |-> files[k].size, name |-> files[k].name]
<1>1. n \in Nat /\ hdr_size \in Nat
  BY FileFacts, HdrSizeIsNat DEF IInv
<1>2. \A k \in 1..n : t(k) \in TableEntry
  <2> SUFFICES ASSUME NEW k \in 1..n PROVE t(k) \in TableEntry
    OBVIOUS
  <2>1. files[k].offset \in Nat /\ files[k].size \in Nat /\ files[k].name \in Names
    BY FileFacts DEF IInv, pkg_file
  <2>2. OffsetOf(files[k]) \in Nat
    BY <1>1, <2>1 DEF OffsetOf
  <2>3. QED
    BY <2>1, <2>2 DEF TableEntry
<1>3. /\ table' = [k \in 1..n |-> t(k)] /\ pc' = "write_pkg" /\ pc = "get_files"
      /\ image' = [p \in 0..(hdr_size - 1) |-> HeaderOctet(p)]
      /\ UNCHANGED <<dir, listing, files, failure, i, out>>
  BY DEF BuildHdr
<1> HIDE DEF t
<1>4. table' \in Seq(TableEntry)
  <2>1. table' \in [1..n -> TableEntry]
    BY <1>2, <1>3
  <2>2. QED
    BY <1>1, <2>1, FunctionIsSeq
<1>5. TypeOK'
  BY <1>3, <1>4 DEF IInv, TypeOK
<1>6. HeaderStored' /\ Ordered'
  BY <1>3 DEF HeaderStored, hdr_size, HeaderOctet, IInv, Ordered
<1>7. i' = 1
  BY <1>3 DEF IInv
<1>8. \A k \in 1..Len(files') : ~(k < i')
  BY <1>7
<1>9. QED
  BY <1>3, <1>5, <1>6, <1>8 DEF IInv

LEMMA WriteFileKeeps == ASSUME IInv, WriteFile PROVE IInv'
<1> DEFINE n == Len(files)
           from == files[i].offset + hdr_size
           Grown == Written(from, files[i])
<1>1. n \in Nat /\ hdr_size \in Nat /\ i \in 1..n
  BY FileFacts, HdrSizeIsNat DEF IInv, TypeOK, WriteFile
<1>2. \A k \in 1..n : files[k].offset \in Nat /\ files[k].size \in Nat
  BY FileFacts DEF IInv
<1>3. from \in Nat /\ from >= hdr_size
  <2> DEFINE offset == files[i].offset
  <2>1. offset \in Nat
    BY <1>1, <1>2
  <2> HIDE DEF offset
  <2>2. offset + hdr_size \in Nat /\ offset + hdr_size >= hdr_size
    BY <1>1, <2>1
  <2>3. QED
    BY <2>2 DEF offset
<1>4. /\ \A p \in DOMAIN image : p < from => p \in DOMAIN Grown /\ Grown[p] = image[p]
      /\ \A j \in 0..(files[i].size - 1) :
             from + j \in DOMAIN Grown /\ Grown[from + j] = Octet(files[i].file, j)
  <2>1. files[i].size \in Nat
    BY <1>1, <1>2
  <2> HIDE DEF from
  <2>2. QED
    BY <1>3, <2>1, WrittenFacts
<1>5. image' = Grown /\ i' = i + 1 /\ UNCHANGED <<dir, listing, files, table, pc, failure, out>>
  BY DEF WriteFile
<1>6. pc = "write_pkg" /\ HeaderStored /\ \A k \in 1..n : k < i => Stored(k)
  BY DEF IInv, WriteFile
<1> HIDE DEF Grown
<1>7. TypeOK'
  BY <1>1, <1>5 DEF IInv, TypeOK
<1>8. hdr_size' = hdr_size /\ Ordered'
  BY <1>5 DEF hdr_size, IInv, Ordered
<1>9. HeaderStored'
  <2> SUFFICES ASSUME NEW p \in 0..(hdr_size - 1)
               PROVE  p \in DOMAIN Grown /\ Grown[p] = HeaderOctet(p)
    BY <1>5, <1>8 DEF HeaderStored, HeaderOctet
  <2>1. p \in DOMAIN image /\ image[p] = HeaderOctet(p)
    BY <1>6 DEF HeaderStored
  <2>2. p < from
    BY <1>1, <1>3
  <2>3. QED
    BY <1>4, <2>1, <2>2
<1>10. ASSUME NEW k \in 1..n, k < i + 1
       PROVE  Stored(k)'
  <2> SUFFICES ASSUME NEW j \in 0..(files[k].size - 1)
               PROVE  /\ files[k].offset + hdr_size + j \in DOMAIN Grown
                      /\ Grown[files[k].offset + hdr_size + j] = Octet(files[k].file, j)
    BY <1>5, <1>8 DEF Stored, Octet
  <2>1. CASE k = i
    BY <1>4, <2>1
  <2>2. CASE k < i
    <3> DEFINE p == files[k].offset + hdr_size + j
    <3>1. p \in DOMAIN image /\ image[p] = Octet(files[k].file, j)
      BY <1>6, <2>2 DEF Stored
    <3>2. files[k].offset + files[k].size <= files[i].offset
      BY <1>1, <1>10, <2>2 DEF IInv, Ordered
    <3>3. p < from
      <4> DEFINE start == files[k].offset
                 size == files[k].size
                 next == files[i].offset
      <4>1. start \in Nat /\ size \in Nat /\ next \in Nat /\ hdr_size \in Nat
        BY <1>1, <1>2
      <4>2. j \in Nat /\ j < size
        BY <4>1
      <4>3. start + size <= next
        BY <3>2
      <4> HIDE DEF start, size, next
      <4>4. start + hdr_size + j < next + hdr_size
        BY <4>1, <4>2, <4>3
      <4>5. QED
        BY <4>4 DEF start, next
    <3> HIDE DEF p
    <3>4. p \in DOMAIN Grown /\ Grown[p] = Octet(files[k].file, j)
      BY <1>4, <3>1, <3>3
    <3>5. QED
      BY <3>4 DEF p
  <2>3. QED
    BY <1>1, <1>10, <2>1, <2>2
<1>11. QED
  BY <1>5, <1>6, <1>7, <1>8, <1>9, <1>10 DEF IInv

\* The other steps leave the array and the package alone.
LEMMA RestKeeps ==
    ASSUME IInv, SkipDots \/ WriteEnd \/ UnpackFile \/ UnpackEnd \/ UNCHANGED vars
    PROVE  IInv'
<1>1. UNCHANGED <<files, image>>
  BY DEF SkipDots, WriteEnd, UnpackFile, UnpackEnd, vars
<1>2. TypeOK'
  <2>1. CASE SkipDots
    <3>1. listing' \in Seq(Entries \cup DOTS)
      BY <2>1, TailFacts DEF SkipDots, Reading, IInv, TypeOK
    <3>2. QED
      BY <2>1, <3>1 DEF SkipDots, IInv, TypeOK
  <2>2. CASE WriteEnd
    BY <2>2 DEF WriteEnd, IInv, TypeOK
  <2>3. CASE UnpackFile
    BY <2>3 DEF UnpackFile, IInv, TypeOK
  <2>4. CASE UnpackEnd
    BY <2>4 DEF UnpackEnd, IInv, TypeOK
  <2>5. CASE UNCHANGED vars
    BY <2>5 DEF vars, IInv, TypeOK
  <2>6. QED
    BY <2>1, <2>2, <2>3, <2>4, <2>5
<1>3. /\ pc' = "get_files" => i' = 1
      /\ pc' \in {"write_pkg", "packed", "unpacked"} =>
             pc \in {"write_pkg", "packed", "unpacked"}
      /\ pc' = "write_pkg" => pc = "write_pkg" /\ i' = i
  BY DEF SkipDots, WriteEnd, UnpackFile, UnpackEnd, vars, IInv, Reading
<1>4. ASSUME pc' \in {"packed", "unpacked"}, NEW k \in 1..Len(files) PROVE Stored(k)
  <2>1. CASE WriteEnd
    <3>1. k < i
      BY <2>1, FileFacts DEF WriteEnd, IInv, TypeOK
    <3>2. QED
      BY <2>1, <3>1 DEF WriteEnd, IInv
  <2>2. CASE ~WriteEnd
    <3>1. pc \in {"packed", "unpacked"}
      BY <1>4, <2>2 DEF SkipDots, UnpackFile, UnpackEnd, vars, Reading
    <3>2. QED
      BY <3>1 DEF IInv
  <2>3. QED
    BY <2>1, <2>2
<1>5. QED
  BY <1>1, <1>2, <1>3, <1>4, StoredKept DEF IInv

LEMMA EmptyKeeps == ASSUME IInv, EmptyDirectory PROVE IInv'
<1>1. /\ pc' = "crashed"
      /\ UNCHANGED <<dir, listing, files, image, table, failure, i, out>>
  BY DEF EmptyDirectory
<1>2. TypeOK'
  BY <1>1 DEF IInv, TypeOK
<1> QED BY <1>1, <1>2, StoredKept DEF IInv

LEMMA NextIInv == IInv /\ [Next]_vars => IInv'
<1> SUFFICES ASSUME IInv, [Next]_vars PROVE IInv'
  OBVIOUS
<1>1. CASE FileOverflow \/ RejectName \/ RejectKind
  BY <1>1, FailsKeeps DEF FileOverflow, RejectName, RejectKind
<1>2. CASE TakeFile
  BY <1>2, TakeFileKeeps
<1>3. CASE BuildHdr
  BY <1>3, BuildHdrKeeps
<1>4. CASE WriteFile
  BY <1>4, WriteFileKeeps
<1>5. CASE SkipDots \/ WriteEnd \/ UnpackFile \/ UnpackEnd \/ UNCHANGED vars
  BY <1>5, RestKeeps
<1>6. CASE EmptyDirectory
  BY <1>6, EmptyKeeps
<1>7. QED
  BY <1>1, <1>2, <1>3, <1>4, <1>5, <1>6 DEF Next

\* The invariant holds in every state of cospkg and cosunpkg.
THEOREM InvariantHolds == Spec => []IInv
<1>1. QED
  BY InitIInv, NextIInv, PTL DEF Spec

\* The types: cospkg.c:43-175 and cosunpkg.c keep every offset, size and name
\* in its range, whatever the directory holds.
THEOREM TypeCorrect == Spec => []TypeOK
<1>1. IInv => TypeOK
  BY DEF IInv
<1>2. QED
  BY <1>1, InvariantHolds, PTL

LEMMA IntactHolds == IInv => Intact
<1> SUFFICES ASSUME IInv PROVE Intact
  OBVIOUS
<1>1. Len(files) <= MAX_FILES
  BY DEF IInv
<1>2. pc \in {"packed", "unpacked"} =>
          HeaderStored /\ \A k \in 1..Len(files) : Stored(k)
  BY DEF IInv
<1> QED BY <1>1, <1>2 DEF Intact, HeaderStored, Stored

\* get_files() never writes behind its array, and write_pkg() puts no file over
\* another or over the header.
THEOREM FilesStayIntact == Spec => []Intact
BY IntactHolds, InvariantHolds, PTL

-----------------------------------------------------------------------------
(* What cosunpkg gives back *)

Contents(e) == [j \in 0..(e.size - 1) |-> Octet(e, j)]

\* Every file of the directory is in the array or still to be read.
AllTaken ==
    /\ \A k \in 1..Len(listing) : listing[k] \in dir \cup DOTS
    /\ \A k \in 1..Len(files) : files[k].file \in dir
    /\ \A e \in dir : \/ \E k \in 1..Len(listing) : listing[k] = e
                      \/ \E k \in 1..Len(files) : files[k].file = e

\* The array and the table have of a file what they should.
Described ==
    \A k \in 1..Len(files) : /\ files[k].name = Kept(files[k].file.name)
                             /\ files[k].size = files[k].file.size
Tabled ==
    /\ Len(table) = Len(files)
    /\ \A k \in 1..Len(files) : /\ table[k].offset = files[k].offset + hdr_size
                                /\ table[k].size = files[k].size
                                /\ table[k].name = files[k].name

\* The first n files are unpacked.
Out(n) ==
    /\ \A k \in 1..n : files[k].name \in DOMAIN out
    /\ \A name \in DOMAIN out : \E k \in 1..n :
           files[k].name = name /\ out[name] = Contents(files[k].file)

\* The inductive invariant of unpacking.
OutInv ==
    /\ AllTaken /\ Described
    /\ pc \in {"write_pkg", "packed", "unpacked"} => listing = <<>> /\ Tabled
    /\ pc \notin {"packed", "unpacked", "failed", "crashed"} => out = <<>>
    /\ pc = "packed" => i <= Len(files) + 1 /\ Out(i - 1)
    /\ pc = "unpacked" => Out(Len(files))

LEMMA InitOutInv == Init => OutInv
<1> SUFFICES ASSUME Init PROVE OutInv
  OBVIOUS
<1>1. files = <<>> /\ Len(files) = 0 /\ pc = "get_files" /\ out = <<>>
  BY DEF Init
<1>2. PICK S : S = dir \cup DOTS
  OBVIOUS
<1>3. IsFiniteSet(S)
  <2>1. IsFiniteSet(dir)
    BY EntriesAssumption, FS_Subset DEF Init, Directories
  <2>2. IsFiniteSet({Dot(".")}) /\ IsFiniteSet({Dot("..")})
    BY FS_Singleton
  <2>3. DOTS = {Dot(".")} \cup {Dot("..")}
    BY DEF DOTS
  <2> QED BY <1>2, <2>1, <2>2, <2>3, FS_Union
<1>4. PICK n \in Nat : n = Cardinality(S)
  BY <1>3, FS_CardinalityType
<1>5. listing \in [1..n -> S] /\ \A a, b \in 1..n : a # b => listing[a] # listing[b]
  BY <1>2, <1>4 DEF Init, SetToSeqs
<1>6. listing \in Surjection(1..n, S)
  <2>1. listing \in Injection(1..n, S)
    BY <1>5 DEF Injection, IsInjective
  <2>2. Cardinality(1..n) = n
    BY FS_Interval, <1>4
  <2> QED BY <1>3, <1>4, <2>1, <2>2, FS_Injection
<1>7. Len(listing) = n
  BY <1>5
<1>8. AllTaken
  <2>1. \A e \in S : \E k \in 1..n : listing[k] = e
    BY <1>6 DEF Surjection
  <2> QED BY <1>1, <1>2, <1>5, <1>7, <2>1 DEF AllTaken
<1> QED BY <1>1, <1>8 DEF OutInv, Described

\* What a turn of get_files() takes from the listing is its head.
LEMMA HeadAndTail ==
    ASSUME NEW S, NEW s \in Seq(S), s # <<>>
    PROVE  /\ Len(s) \in Nat \ {0} /\ Head(s) = s[1] /\ Len(Tail(s)) = Len(s) - 1
           /\ \A k \in 1..(Len(s) - 1) : Tail(s)[k] = s[k + 1]
           /\ \A k \in 2..Len(s) : k - 1 \in 1..(Len(s) - 1) /\ Tail(s)[k - 1] = s[k]
OBVIOUS

LEMMA TakeFileOut == ASSUME IInv, OutInv, TakeFile PROVE OutInv'
<1> DEFINE n == Len(files)
           m == Len(listing)
<1>1. PICK e : e = Head(listing)
  OBVIOUS
<1>2. PICK f : f = [file |-> e, name |-> Kept(e.name), size |-> e.size, offset |-> NextOffset]
  OBVIOUS
<1>3. /\ files' = Append(files, f) /\ listing' = Tail(listing)
      /\ pc = "get_files" /\ listing # <<>> /\ e \notin DOTS
      /\ UNCHANGED <<dir, image, table, pc, failure, i, out>>
  BY <1>1, <1>2 DEF TakeFile, Reading
<1>4. listing \in Seq(Entries \cup DOTS) /\ files \in Seq(pkg_file)
  BY DEF IInv, TypeOK
<1>5. /\ m \in Nat \ {0} /\ e = listing[1] /\ Len(listing') = m - 1
      /\ \A k \in 1..(m - 1) : listing'[k] = listing[k + 1]
      /\ \A k \in 2..m : k - 1 \in 1..(m - 1) /\ listing'[k - 1] = listing[k]
  BY <1>1, <1>3, <1>4, HeadAndTail
<1>6. e \in dir
  BY <1>3, <1>5 DEF OutInv, AllTaken
<1>7. f \in pkg_file
  <2>1. e \in Entries
    BY <1>6 DEF IInv, TypeOK
  <2>2. Kept(e.name) \in Names /\ e.size \in Nat
    BY <2>1, EntriesAssumption, KeptIsName
  <2> QED BY <1>2, <2>1, <2>2, NextIsBehind DEF IInv, pkg_file
<1>8. /\ n \in Nat /\ Len(files') = n + 1 /\ files'[n + 1] = f
      /\ \A k \in 1..n : files'[k] = files[k]
  BY <1>3, <1>4, <1>7, AppendFacts
<1>9. f.file = e /\ f.name = Kept(f.file.name) /\ f.size = f.file.size
  BY <1>2
<1>10. AllTaken'
  <2>1. \A k \in 1..Len(listing') : listing'[k] \in dir' \cup DOTS
    BY <1>3, <1>5 DEF OutInv, AllTaken
  <2>2. \A k \in 1..Len(files') : files'[k].file \in dir'
    BY <1>3, <1>6, <1>8, <1>9 DEF OutInv, AllTaken
  <2>3. ASSUME NEW x \in dir
        PROVE  \/ \E k \in 1..Len(listing') : listing'[k] = x
               \/ \E k \in 1..Len(files') : files'[k].file = x
    <3>1. CASE x = e
      BY <1>8, <1>9, <3>1
    <3>2. CASE x # e /\ \E k \in 1..m : listing[k] = x
      BY <1>5, <3>2
    <3>3. CASE \E k \in 1..n : files[k].file = x
      BY <1>8, <3>3
    <3> QED BY <3>1, <3>2, <3>3 DEF OutInv, AllTaken
  <2>4. DOTS' = DOTS
    BY DEF DOTS, Dot
  <2> QED BY <1>3, <2>1, <2>2, <2>3, <2>4 DEF AllTaken
<1>11. Described'
  BY <1>8, <1>9 DEF OutInv, Described, Kept
<1> QED BY <1>3, <1>10, <1>11 DEF OutInv

LEMMA SkipDotsOut == ASSUME IInv, OutInv, SkipDots PROVE OutInv'
<1> DEFINE m == Len(listing)
<1>1. /\ listing' = Tail(listing) /\ listing # <<>> /\ Head(listing) \in DOTS
      /\ pc = "get_files" /\ UNCHANGED <<dir, files, image, table, pc, failure, i, out>>
  BY DEF SkipDots, Reading
<1>2. /\ m \in Nat \ {0} /\ Head(listing) = listing[1] /\ Len(listing') = m - 1
      /\ \A k \in 1..(m - 1) : listing'[k] = listing[k + 1]
      /\ \A k \in 2..m : k - 1 \in 1..(m - 1) /\ listing'[k - 1] = listing[k]
  BY <1>1, HeadAndTail DEF IInv, TypeOK
<1>3. \A e \in dir : e \notin DOTS
  <2> SUFFICES ASSUME NEW e \in dir, e \in DOTS PROVE FALSE
    OBVIOUS
  <2>1. e.name.first \notin {".", ".."}
    BY EntriesAssumption DEF IInv, TypeOK
  <2>2. e = Dot(".") \/ e = Dot("..")
    BY DEF DOTS
  <2> QED BY <2>1, <2>2 DEF Dot
<1>4. AllTaken'
  <2>1. \A k \in 1..Len(listing') : listing'[k] \in dir' \cup DOTS
    BY <1>1, <1>2 DEF OutInv, AllTaken
  <2>2. ASSUME NEW x \in dir, NEW k \in 1..m, listing[k] = x
        PROVE  \E l \in 1..Len(listing') : listing'[l] = x
    BY <1>1, <1>2, <1>3, <2>2
  <2>3. DOTS' = DOTS
    BY DEF DOTS, Dot
  <2> QED BY <1>1, <2>1, <2>2, <2>3 DEF OutInv, AllTaken
<1> QED BY <1>1, <1>4 DEF OutInv, Described, Kept

LEMMA BuildHdrOut == ASSUME IInv, OutInv, BuildHdr PROVE OutInv'
<1>1. /\ table' = [k \in 1..Len(files) |-> [offset |-> OffsetOf(files[k]),
                                          size |-> files[k].size, name |-> files[k].name]]
      /\ pc' = "write_pkg" /\ pc = "get_files" /\ listing = <<>>
      /\ UNCHANGED <<dir, listing, files, failure, i, out>>
  BY DEF BuildHdr
<1>2. Len(files) \in Nat
  BY FileFacts DEF IInv
<1>3. Tabled'
  BY <1>1, <1>2 DEF Tabled, OffsetOf, hdr_size
<1>4. AllTaken' /\ Described'
  BY <1>1 DEF OutInv, AllTaken, Described, Kept, DOTS, Dot
<1> QED BY <1>1, <1>3, <1>4 DEF OutInv

\* Steps that leave what has been taken, described and put into the table.
LEMMA SameTables ==
    ASSUME OutInv, UNCHANGED <<dir, listing, files, table>>
    PROVE  AllTaken' /\ Described' /\ (Tabled => Tabled')
BY DEF OutInv, AllTaken, Described, Tabled, Kept, DOTS, Dot, hdr_size

LEMMA WriteOut == ASSUME IInv, OutInv, WriteFile \/ WriteEnd PROVE OutInv'
<1>1. UNCHANGED <<dir, listing, files, table, out>> /\ pc = "write_pkg"
  BY DEF WriteFile, WriteEnd
<1>2. AllTaken' /\ Described' /\ Tabled' /\ listing' = <<>> /\ out' = <<>>
  BY <1>1, SameTables DEF OutInv
<1>3. pc' = "packed" => i' = 1
  BY DEF WriteFile, WriteEnd
<1>4. pc' \in {"write_pkg", "packed"}
  BY DEF WriteFile, WriteEnd
<1>5. i' = 1 => i' <= Len(files') + 1 /\ Out(i - 1)'
  <2>1. Len(files') \in Nat
    BY <1>1, FileFacts DEF IInv
  <2> QED BY <1>2, <2>1 DEF Out
<1> QED BY <1>2, <1>3, <1>4, <1>5 DEF OutInv

LEMMA UnpackFileOut == ASSUME IInv, OutInv, UnpackFile PROVE OutInv'
<1>1. /\ pc = "packed" /\ pc' = pc /\ i' = i + 1
      /\ UNCHANGED <<dir, listing, files, image, table, pc, failure>>
  BY DEF UnpackFile
<1>2. Tabled /\ i \in 1..Len(files) /\ Stored(i) /\ Len(files) \in Nat /\ Out(i - 1)
  <2>1. Tabled /\ Len(files) \in Nat /\ i \in Nat \ {0} /\ Out(i - 1)
    BY <1>1, FileFacts DEF OutInv, IInv, TypeOK
  <2>2. i <= Len(files)
    BY <2>1 DEF UnpackFile, Tabled
  <2>3. i \in 1..Len(files)
    BY <2>1, <2>2
  <2> QED BY <1>1, <2>1, <2>3 DEF IInv
<1>3. PICK f : f = files[i]
  OBVIOUS
<1>4. PICK data : data = [k \in 0..(table[i].size - 1) |-> image[table[i].offset + k]]
  OBVIOUS
<1>5. data = Contents(f.file)
  <2>1. f.file.size = f.size /\ table[i].size = f.size /\ table[i].offset = f.offset + hdr_size
    BY <1>2, <1>3 DEF OutInv, Described, Tabled
  <2>2. \A k \in 0..(f.size - 1) : image[f.offset + hdr_size + k] = Octet(f.file, k)
    BY <1>2, <1>3 DEF Stored
  <2> QED BY <1>4, <2>1, <2>2 DEF Contents
<1>6. out' = [name \in DOMAIN out \cup {f.name} |-> IF name = f.name THEN data ELSE out[name]]
  BY <1>2, <1>3, <1>4 DEF UnpackFile, Tabled
<1>7. /\ DOMAIN out' = {f.name} \cup DOMAIN out /\ out'[f.name] = data
      /\ \A name \in DOMAIN out : name # f.name => out'[name] = out[name]
  BY <1>6
<1>n. PICK n \in Nat : n = i
  BY <1>2
<1>8. Out(n)'
  <2>1. \A k \in 1..i : files[k].name \in DOMAIN out'
    <3> SUFFICES ASSUME NEW k \in 1..i PROVE files[k].name \in DOMAIN out'
      OBVIOUS
    <3>1. k = i \/ k \in 1..(i - 1)
      BY <1>2
    <3> QED BY <1>2, <1>3, <1>7, <3>1 DEF Out
  <2>2. ASSUME NEW name \in DOMAIN out'
        PROVE  \E k \in 1..i : files[k].name = name /\ out'[name] = Contents(files[k].file)
    <3>1. CASE name = f.name
      BY <1>2, <1>3, <1>5, <1>7, <3>1
    <3>2. CASE name # f.name
      <4>1. PICK k \in 1..(i - 1) : files[k].name = name /\ out[name] = Contents(files[k].file)
        BY <1>2, <1>7, <3>2 DEF Out
      <4>2. k \in 1..i /\ out'[name] = out[name]
        BY <1>2, <1>7, <3>2
      <4> QED BY <4>1, <4>2
    <3> QED BY <3>1, <3>2
  <2>3. \A e : Contents(e)' = Contents(e)
    BY DEF Contents, Octet
  <2> QED BY <1>1, <1>n, <2>1, <2>2, <2>3 DEF Out
<1>9. i' - 1 = n /\ i' <= Len(files') + 1
  BY <1>1, <1>2, <1>n
<1>10. AllTaken' /\ Described' /\ Tabled' /\ listing' = <<>>
  BY <1>1, <1>2, SameTables DEF OutInv
<1> QED BY <1>1, <1>8, <1>9, <1>10 DEF OutInv

LEMMA UnpackEndOut == ASSUME IInv, OutInv, UnpackEnd PROVE OutInv'
<1>1. /\ pc = "packed" /\ pc' = "unpacked" /\ i > Len(table)
      /\ UNCHANGED <<dir, listing, files, image, table, failure, i, out>>
  BY DEF UnpackEnd
<1>2. AllTaken' /\ Described' /\ Tabled' /\ listing' = <<>>
  BY <1>1, SameTables DEF OutInv
<1>3. Out(i - 1) /\ i - 1 = Len(files)
  <2>1. Len(files) \in Nat /\ i \in Nat /\ Len(table) = Len(files) /\ i <= Len(files) + 1
    BY <1>1, FileFacts DEF OutInv, Tabled, IInv, TypeOK
  <2> QED BY <1>1, <2>1 DEF OutInv
<1>4. Out(Len(files))'
  BY <1>1, <1>3 DEF Out, Contents, Octet
<1> QED BY <1>1, <1>2, <1>4 DEF OutInv

LEMMA FailsOut == ASSUME OutInv, NEW message, Fails(message) PROVE OutInv'
<1>1. UNCHANGED <<dir, listing, files, table>> /\ pc' = "failed"
  BY DEF Fails
<1> QED BY <1>1, SameTables DEF OutInv

LEMMA StutterOut == ASSUME OutInv, UNCHANGED vars PROVE OutInv'
BY DEF vars, OutInv, AllTaken, Described, Tabled, Out, Contents, Octet, Kept, DOTS, Dot, hdr_size

\* The files that are unpacked are those of the directory.
LEMMA OutIsAll == IInv /\ OutInv => Unpacked
<1> SUFFICES ASSUME IInv, OutInv, pc = "unpacked" PROVE Unpacked
  BY DEF Unpacked
<1>1. Out(Len(files)) /\ listing = <<>> /\ AllTaken /\ Described /\ Len(files) \in Nat
  BY FileFacts DEF OutInv, IInv
<1>2. ASSUME NEW name \in DOMAIN out
      PROVE  \E e \in dir : Kept(e.name) = name
                            /\ out[name] = [k \in 0..(e.size - 1) |-> Octet(e, k)]
  <2>1. PICK k \in 1..Len(files) : files[k].name = name /\ out[name] = Contents(files[k].file)
    BY <1>1, <1>2 DEF Out
  <2> QED BY <1>1, <2>1 DEF AllTaken, Described, Contents
<1>3. ASSUME NEW e \in dir PROVE Kept(e.name) \in DOMAIN out
  <2>1. PICK k \in 1..Len(files) : files[k].file = e
    <3>1. Len(listing) = 0
      BY <1>1
    <3> QED BY <1>1, <3>1 DEF AllTaken
  <2> QED BY <1>1, <2>1 DEF Out, Described
<1>4. DOMAIN out = {Kept(e.name) : e \in dir}
  BY <1>2, <1>3
<1> QED BY <1>2, <1>4 DEF Unpacked

LEMMA NextOutInv == IInv /\ OutInv /\ [Next]_vars => OutInv'
<1> SUFFICES ASSUME IInv, OutInv, [Next]_vars PROVE OutInv'
  BY NextIInv
<1>1. CASE FileOverflow \/ RejectName \/ RejectKind
  BY <1>1, FailsOut DEF FileOverflow, RejectName, RejectKind
<1>2. CASE WriteFile \/ WriteEnd
  BY <1>2, WriteOut
<1>3. CASE EmptyDirectory
  <2>1. UNCHANGED <<dir, listing, files, table>> /\ pc' = "crashed"
    BY <1>3 DEF EmptyDirectory
  <2> QED BY <2>1, SameTables DEF OutInv
<1> QED BY <1>1, <1>2, <1>3, SkipDotsOut, TakeFileOut, BuildHdrOut, UnpackFileOut,
           UnpackEndOut, StutterOut DEF Next

\* cosunpkg gives back every file of the directory, octet by octet, under what
\* cospkg kept of its name: get_files(), write_pkg() and unpack_file().
THEOREM AllIsUnpacked == Spec => []Unpacked
<1>1. Init => IInv /\ OutInv
  BY InitIInv, InitOutInv
<1>2. IInv /\ OutInv /\ [Next]_vars => (IInv /\ OutInv)'
  BY NextIInv, NextOutInv
<1>3. IInv /\ OutInv => Unpacked
  BY OutIsAll
<1>4. QED
  BY <1>1, <1>2, <1>3, PTL DEF Spec

-----------------------------------------------------------------------------
(* pkg and unpkg *)

\* What there is of a package in a file: all that is in it is right, and if
\* anything is missing the content was compressed and pkg did not write it all.
PkgFile(f, fields) ==
    LET p == mem.parts
    IN  /\ Len(f) \in Nat \ {0} /\ f[1] = K!Header(fields)
        /\ \A w \in 1..INFO : 1 + w <= Len(f) => f[1 + w] = p.info0[w]
        /\ \A w \in 1..INFO : 1 + INFO + w <= Len(f) => f[1 + INFO + w] = p.info1[w]
        /\ \A w \in 1..Len(p.stream) : 1 + 2 * INFO + w <= Len(f) => f[1 + 2 * INFO + w] = p.stream[w]
        /\ fields.size = Len(p.stream) /\ fields.dec_size = 2 * INFO + Len(p.content)
        /\ IF fields.compressed THEN Len(p.stream) > 0 /\ p.stream = K!Deflated(p.content, Len(p.stream))
           ELSE p.stream = p.content
        /\ mem.written \/ ~fields.compressed => Len(f) >= 1 + 2 * INFO + Len(p.stream)
        /\ mem.written => K!IsUsable(fields)

MayBe(f) == f = <<>> \/ \E fields : PkgFile(f, fields)

\* The directory unpkg is asked to unpack to.
Target == IF mem.job.only_content THEN <<>> ELSE K!TO

Early == pc \in {"pack", "get", "build", "closed"}

KType ==
    /\ mem = [job |-> mem.job, parts |-> mem.parts, written |-> mem.written]
    /\ mem.job \in PkgJobs /\ K!ArePieces(mem.parts)
    /\ fs = [dirs |-> fs.dirs, files |-> fs.files]
    /\ pc \in {"pack", "get"} => K!IsFileSystem(fs)
    /\ pc \in {"pack", "get", "build", "closed", "decrypt", "info", "content", "done",
               "failed", "crashed"}

\* While pkg runs, and until the file is mapped; and from then on.
KFile ==
    /\ Early => archive = <<>> /\ cwd = <<>>
    /\ Early /\ K!PKG \in DOMAIN fs.files => MayBe(fs.files[K!PKG])
    /\ pc \in {"get", "build"} => fs.files[K!PKG] = <<>> /\ ~mem.written
    /\ pc = "build" => Len(mem.parts.stream) > 0
                       /\ mem.parts.stream = K!Deflated(mem.parts.content, Len(mem.parts.stream))
    /\ ~Early => MayBe(archive)

Unpacked_i(name, at) ==
    K!TO \o <<name>> \in DOMAIN fs.files /\ fs.files[K!TO \o <<name>>] = K!Words(at, INFO)

KUnpack ==
    /\ pc \in {"decrypt", "info", "content", "done"} => cwd = Target
    /\ pc \in {"info", "content", "done"} => archive # <<>>
    /\ pc = "info" => /\ ~mem.job.only_content /\ i \in {0, 1}
                      /\ i = 1 => Unpacked_i("info0", 1)
    /\ pc = "content" /\ ~mem.job.only_content =>
           Unpacked_i("info0", 1) /\ Unpacked_i("info1", 1 + INFO)

\* The inductive invariant of pkg and unpkg.
KInv == KType /\ KFile /\ KUnpack /\ K!PackageWhole

\* memcpy_to_file() adds or replaces one file.
LEMMA MemcpyFacts ==
    ASSUME NEW s, s = [dirs |-> s.dirs, files |-> s.files], NEW path, NEW data,
           NEW u, u = K!memcpy_to_file(s, path, data)
    PROVE  /\ u = [dirs |-> u.dirs, files |-> u.files] /\ u.dirs = s.dirs
           /\ DOMAIN u.files = DOMAIN s.files \cup {path} /\ u.files[path] = data
           /\ \A q \in DOMAIN s.files : q # path => u.files[q] = s.files[q]
BY DEF K!memcpy_to_file

\* The paths that unpkg writes to in a directory are as different as the names.
LEMMA PathsDiffer ==
    ASSUME NEW a, NEW b, K!TO \o <<a>> = K!TO \o <<b>>
    PROVE  a = b
<1>1. \A e : (<<"to">> \o <<e>>)[2] = e
  OBVIOUS
<1> QED BY <1>1 DEF K!TO

LEMMA InfoIsNat == INFO \in Nat /\ INFO >= 5 /\ PAGE \in Nat /\ 2 * INFO \in Nat /\ PKG_ALIGN \in Nat \ {0}
BY PkgAssumption

\* A whole package in a file is one that PkgFile describes.
LEMMA PackageIsPkgFile ==
    ASSUME NEW f, NEW fields, Len(f) \in Nat, K!IsPackage(f, mem.parts, fields),
           Len(mem.parts.stream) \in Nat, mem.written => K!IsUsable(fields)
    PROVE  PkgFile(f, fields)
<1>1. PICK m \in Nat : m = Len(mem.parts.stream)
  OBVIOUS
<1>2. Len(f) >= 1 + 2 * INFO + m /\ 2 * INFO \in Nat
  BY <1>1, InfoIsNat DEF K!IsPackage
<1>3. Len(f) \in Nat \ {0}
  BY <1>2
<1> QED BY <1>3 DEF K!IsPackage, PkgFile

LEMMA InitKInv == K!Init => KInv
<1> SUFFICES ASSUME K!Init PROVE KInv
  OBVIOUS
<1>1. PICK job \in PkgJobs :
        /\ fs = job.fs /\ mem = [job |-> job, parts |-> job.old, written |-> job.well_formed]
        /\ cwd = <<>> /\ archive = <<>> /\ pc \in {"pack", "closed"}
  BY DEF K!Init, K!NoMem
<1>2. K!IsJob(job)
  BY PkgAssumption
<1>3. mem.job = job /\ mem.parts = job.old /\ mem.written = job.well_formed
  BY <1>1
<1>4. KType
  BY <1>1, <1>2, <1>3 DEF KType, K!IsJob, K!IsFileSystem
<1>5. ASSUME K!PKG \in DOMAIN fs.files
      PROVE  MayBe(fs.files[K!PKG])
  <2>1. PICK f, fields : f = fs.files[K!PKG] /\ fields = f[1][2]
    OBVIOUS
  <2>2. K!IsPackage(f, mem.parts, fields) /\ (mem.written => K!IsUsable(fields))
    BY <1>1, <1>2, <1>3, <1>5, <2>1 DEF K!IsJob
  <2>3. f \in Seq(K!ToSet(f)) /\ mem.parts.stream \in Seq(K!ToSet(mem.parts.stream))
    <3>1. K!IsFileSystem(fs) /\ K!ArePieces(mem.parts)
      BY <1>1, <1>2, <1>3 DEF K!IsJob
    <3>2. f \in Seq(K!ToSet(f))
      BY <1>5, <2>1, <3>1 DEF K!IsFileSystem
    <3> QED BY <3>1, <3>2 DEF K!ArePieces
  <2>4. Len(f) \in Nat /\ Len(mem.parts.stream) \in Nat
    BY <2>3, ElementOf
  <2>5. PkgFile(f, fields)
    BY <2>2, <2>4, PackageIsPkgFile
  <2> QED BY <2>1, <2>5 DEF MayBe
<1>6. KFile
  BY <1>1, <1>5 DEF KFile, Early
<1>7. KUnpack /\ K!PackageWhole
  BY <1>1 DEF KUnpack, K!PackageWhole
<1> QED BY <1>4, <1>6, <1>7 DEF KInv

\* What a file may be does not depend on where the tools are.
LEMMA MayBeStays == ASSUME UNCHANGED mem, NEW f, MayBe(f) PROVE MayBe(f)'
<1>1. ASSUME NEW fields, PkgFile(f, fields) PROVE PkgFile(f, fields)'
  BY <1>1 DEF PkgFile, K!Header, K!Deflated, K!IsUsable
<1> QED BY <1>1 DEF MayBe

LEMMA PkgPcs == ASSUME KInv, K!Next PROVE pc \in {"pack", "get", "build", "closed", "decrypt", "info", "content"}
BY DEF K!Next, K!OpenPkg, K!GetFails, K!GetInputs, K!WritePkg, K!Killed, K!NoPkg, K!MapPkg,
       K!EmptyPkg, K!DecryptFails, K!Decrypt, K!WeirdInfo, K!UnpackInfo, K!ContentBehindEnd,
       K!InflateFails, K!UnpackContent

LEMMA KeepsKType ==
    ASSUME KType, UNCHANGED mem, fs' = [dirs |-> fs'.dirs, files |-> fs'.files],
           pc' \in {"build", "closed", "decrypt", "info", "content", "done", "failed", "crashed"}
    PROVE  KType'
BY DEF KType, K!ArePieces, K!ToSet

LEMMA OpenPkgKeeps == ASSUME KInv, K!OpenPkg PROVE KInv'
<1>1. /\ pc = "pack" /\ pc' = "get" /\ fs' = K!memcpy_to_file(fs, K!PKG, <<>>)
      /\ mem' = [mem EXCEPT !.written = FALSE] /\ UNCHANGED <<cwd, archive, i>>
  BY DEF K!OpenPkg
<1>2. fs = [dirs |-> fs.dirs, files |-> fs.files] /\ K!IsFileSystem(fs)
  BY <1>1 DEF KInv, KType
<1>3. /\ fs' = [dirs |-> fs'.dirs, files |-> fs'.files] /\ fs'.dirs = fs.dirs
      /\ DOMAIN fs'.files = DOMAIN fs.files \cup {K!PKG} /\ fs'.files[K!PKG] = <<>>
      /\ \A q \in DOMAIN fs.files : q # K!PKG => fs'.files[q] = fs.files[q]
  BY <1>1, <1>2, MemcpyFacts
<1>4. K!IsFileSystem(fs)'
  <2>1. <<>> \in Seq(K!ToSet(<<>>))
    OBVIOUS
  <2>2. ASSUME NEW path \in DOMAIN fs'.files
        PROVE  fs'.files[path] \in Seq(K!ToSet(fs'.files[path]))
    BY <1>2, <1>3, <2>1 DEF K!IsFileSystem
  <2> QED BY <1>3, <2>2 DEF K!IsFileSystem, K!ToSet
<1>5. /\ mem' = [job |-> mem'.job, parts |-> mem'.parts, written |-> mem'.written]
      /\ mem'.job = mem.job /\ mem'.parts = mem.parts /\ ~mem'.written
  BY <1>1 DEF KInv, KType
<1>6. KType'
  BY <1>1, <1>3, <1>4, <1>5 DEF KInv, KType, K!ArePieces, K!ToSet
<1>7. KFile'
  BY <1>1, <1>3, <1>5 DEF KInv, KFile, Early, MayBe, K!PKG
<1>8. KUnpack' /\ K!PackageWhole'
  BY <1>1 DEF KUnpack, K!PackageWhole
<1> QED BY <1>6, <1>7, <1>8 DEF KInv

\* The steps of pkg that only stop it.
LEMMA StopPkgKeeps == ASSUME KInv, K!GetFails \/ K!Killed PROVE KInv'
<1>1. pc \in {"get", "build"} /\ pc' = "closed" /\ UNCHANGED <<fs, cwd, archive, i, mem>>
  BY DEF K!GetFails, K!Killed, K!Stop
<1>2. KType'
  BY <1>1, KeepsKType DEF KInv, KType
<1>3. KFile'
  BY <1>1 DEF KInv, KFile, Early, MayBe, K!PKG
<1>4. KUnpack' /\ K!PackageWhole'
  BY <1>1 DEF KUnpack, K!PackageWhole
<1> QED BY <1>2, <1>3, <1>4 DEF KInv

\* A function on the first n numbers is a sequence of what it holds.
LEMMA IsOwnSeq ==
    ASSUME NEW n \in Nat, NEW f, f = [w \in 1..n |-> f[w]]
    PROVE  f \in Seq(K!ToSet(f)) /\ Len(f) = n
<1>1. DOMAIN f = 1..n /\ \A w \in 1..n : f[w] \in K!ToSet(f)
  BY DEF K!ToSet
<1>2. PICK S : S = K!ToSet(f)
  OBVIOUS
<1>3. f \in [1..n -> S]
  BY <1>1, <1>2
<1>4. f \in Seq(S) /\ Len(f) = n
  BY <1>3, FunctionIsSeq
<1> QED BY <1>2, <1>4

LEMMA GetInputsKeeps == ASSUME KInv, K!GetInputs PROVE KInv'
<1>1. PICK content : content = fs.files[K!SRC \o <<"content">>]
  OBVIOUS
<1>0. PICK n \in 1..(Len(content) + 1) :
        /\ pc = "get" /\ pc' = "build" /\ K!Inputs \subseteq DOMAIN fs.files
        /\ mem' = [mem EXCEPT !.parts =
                     [info0 |-> [K!get_file("info0") EXCEPT ![4] = K!Num(Len(content)), ![5] = K!Num(n)],
                      info1 |-> [K!get_file("info1") EXCEPT ![5] = K!Num(n)],
                      content |-> content, stream |-> K!Deflated(content, n)]]
        /\ UNCHANGED <<fs, cwd, archive, i>>
  BY <1>1 DEF K!GetInputs
<1>2. content \in Seq(K!ToSet(content)) /\ Len(content) \in Nat
  <2>1. K!IsFileSystem(fs) /\ K!SRC \o <<"content">> \in DOMAIN fs.files
    BY <1>0, <1>1 DEF KInv, KType, K!Inputs
  <2>2. content \in Seq(K!ToSet(content))
    BY <1>0, <1>1, <2>1 DEF K!IsFileSystem
  <2> QED BY <2>2, ElementOf
<1>3. n \in Nat /\ n > 0
  BY <1>0, <1>1, <1>2
<1>4. PICK info0, info1, stream :
        /\ info0 = [K!get_file("info0") EXCEPT ![4] = K!Num(Len(content)), ![5] = K!Num(n)]
        /\ info1 = [K!get_file("info1") EXCEPT ![5] = K!Num(n)]
        /\ stream = K!Deflated(content, n)
  OBVIOUS
<1>5. info0 = [w \in 1..INFO |-> info0[w]] /\ info1 = [w \in 1..INFO |-> info1[w]]
  BY <1>4 DEF K!get_file
<1>6. stream \in Seq(K!ToSet(stream)) /\ Len(stream) = n
  <2>1. stream = [w \in 1..n |-> stream[w]]
    BY <1>4 DEF K!Deflated
  <2> QED BY <1>3, <2>1, IsOwnSeq
<1>7. /\ mem' = [job |-> mem'.job, parts |-> mem'.parts, written |-> mem'.written]
      /\ mem'.job = mem.job /\ mem'.written = mem.written
      /\ mem'.parts = [info0 |-> info0, info1 |-> info1, content |-> content, stream |-> stream]
  BY <1>0, <1>1, <1>4 DEF KInv, KType
<1>8. /\ mem'.parts.info0 = info0 /\ mem'.parts.info1 = info1
      /\ mem'.parts.content = content /\ mem'.parts.stream = stream
  BY <1>7
<1>9. K!ArePieces(mem.parts)'
  BY <1>2, <1>5, <1>6, <1>8 DEF K!ArePieces, K!ToSet
<1>10. KType'
  BY <1>0, <1>1, <1>7, <1>9 DEF KInv, KType
<1>11. KFile'
  <2>1. mem'.parts.stream = K!Deflated(mem'.parts.content, Len(mem'.parts.stream))
    BY <1>4, <1>6, <1>8
  <2>2. Len(mem'.parts.stream) > 0
    BY <1>3, <1>6, <1>8
  <2> QED BY <1>0, <1>1, <1>7, <2>1, <2>2 DEF KInv, KFile, Early, MayBe, K!PKG, K!Deflated
<1>12. KUnpack' /\ K!PackageWhole'
  BY <1>0, <1>1 DEF KUnpack, K!PackageWhole
<1> QED BY <1>0, <1>10, <1>11, <1>12 DEF KInv

\* build_pkg() lays out the parts as unpkg looks for them.
LEMMA PackageIsWhole ==
    ASSUME NEW p, K!ArePieces(p), Len(p.stream) > 0, p.stream = K!Deflated(p.content, Len(p.stream)),
           NEW pkg, pkg = K!Package(p)
    PROVE  /\ Len(pkg) \in Nat /\ pkg \in Seq(K!ToSet(pkg))
           /\ \E fields : /\ K!IsPackage(pkg, p, fields) /\ K!IsUsable(fields)
                          /\ fields.compressed = TRUE
<1> DEFINE fields == [type |-> 3, n_sections |-> 3, info_size |-> INFO, compressed |-> TRUE,
                      size |-> Len(p.stream), dec_size |-> 2 * INFO + Len(p.content)]
           head   == <<K!Header(fields)>>
           joined == head \o p.info0 \o p.info1 \o p.stream
           size   == K!round_up(1 + 2 * INFO + Len(p.stream), PKG_ALIGN)
<1>1. pkg = [w \in 1..size |-> IF w <= Len(joined) THEN joined[w] ELSE K!FILL]
  BY DEF K!Package, K!StreamSize
<1>3. PICK F : F = fields
  OBVIOUS
<1> HIDE DEF fields, head, joined, size
<1>2. PICK m \in Nat : m = Len(p.stream)
  <2>1. p.stream \in Seq(K!ToSet(p.stream))
    BY DEF K!ArePieces
  <2> QED BY <2>1, ElementOf
<1>4. PICK sum \in Nat : sum = 1 + 2 * INFO + m
  <2>1. m \in Nat /\ 2 * INFO \in Nat
    BY InfoIsNat
  <2> QED BY <2>1
<1>5. size \in Nat /\ size >= sum
  <2>1. size = round_up(sum, PKG_ALIGN)
    BY <1>2, <1>4 DEF round_up, K!round_up, size
  <2>2. PICK a \in Nat : a = PKG_ALIGN /\ a > 0
    BY InfoIsNat
  <2>3. round_up(sum, a) \in Nat /\ round_up(sum, a) >= sum
    BY <2>2, RoundUpFacts
  <2> QED BY <2>1, <2>2, <2>3
<1>6. PICK T : T = {K!Header(F)} \cup K!ToSet(p.info0) \cup K!ToSet(p.info1) \cup K!ToSet(p.stream)
  OBVIOUS
<1>7. /\ p.info0 \in Seq(K!ToSet(p.info0)) /\ Len(p.info0) = INFO
      /\ p.info1 \in Seq(K!ToSet(p.info1)) /\ Len(p.info1) = INFO
      /\ p.stream \in Seq(K!ToSet(p.stream))
  BY InfoIsNat, IsOwnSeq DEF K!ArePieces
<1>8. /\ p.info0 \in Seq(T) /\ p.info1 \in Seq(T) /\ p.stream \in Seq(T)
      /\ <<K!Header(F)>> \in Seq(T) /\ Len(<<K!Header(F)>>) = 1
      /\ <<K!Header(F)>>[1] = K!Header(F)
  <2>1. PICK h : h = K!Header(F)
    OBVIOUS
  <2>2. h \in T
    BY <1>6, <2>1
  <2>3. <<h>> \in Seq(T) /\ Len(<<h>>) = 1 /\ <<h>>[1] = h
    BY <2>2
  <2>4. K!ToSet(p.info0) \subseteq T /\ K!ToSet(p.info1) \subseteq T /\ K!ToSet(p.stream) \subseteq T
    BY <1>6
  <2>5. \A s, A : s \in Seq(A) /\ A \subseteq T => s \in Seq(T)
    OBVIOUS
  <2> QED BY <1>7, <2>1, <2>3, <2>4, <2>5
<1>9. PICK h : h = <<K!Header(F)>>
  OBVIOUS
<1>10. joined = h \o p.info0 \o p.info1 \o p.stream
  BY <1>3, <1>9 DEF joined, head, fields
<1>15. /\ joined \in Seq(T) /\ Len(joined) = sum /\ joined[1] = h[1]
       /\ \A w \in 1..INFO : joined[1 + w] = p.info0[w] /\ joined[1 + INFO + w] = p.info1[w]
       /\ \A w \in 1..m : joined[1 + 2 * INFO + w] = p.stream[w]
  <2>1. PICK I \in Nat, a \in Seq(T), b \in Seq(T), c \in Seq(T), g \in Seq(T) :
          I = INFO /\ a = p.info0 /\ b = p.info1 /\ c = p.stream /\ g = h
    BY <1>8, <1>9, InfoIsNat
  <2>2. Len(g) = 1 /\ Len(a) = I /\ Len(b) = I /\ Len(c) = m
    BY <1>2, <1>7, <1>8, <1>9, <2>1
  <2>3. PICK j : j = joined
    OBVIOUS
  <2>4. j = g \o a \o b \o c
    BY <1>10, <2>1, <2>3
  <2>5. PICK u \in Seq(T) : u = g \o a
    BY JoinedIsSeq
  <2>6. PICK v \in Seq(T) : v = u \o b
    BY JoinedIsSeq
  <2>7. j = v \o c
    BY <2>4, <2>5, <2>6
  <2>8. j \in Seq(T)
    BY <2>7, JoinedIsSeq
  <2>9. Len(u) = 1 + I
    BY <2>2, <2>5, JoinedLen
  <2>10. Len(v) = 1 + 2 * I
    <3>1. Len(v) = Len(u) + Len(b)
      BY <2>6, JoinedLen
    <3> QED BY <2>2, <2>9, <3>1
  <2>11. Len(j) = 1 + 2 * I + m
    <3>1. Len(j) = Len(v) + Len(c)
      BY <2>7, JoinedLen
    <3> QED BY <2>2, <2>10, <3>1
  <2>12. u[1] = g[1]
    <3>1. 1 \in 1..Len(g)
      BY <2>2
    <3> QED BY <2>5, <3>1, JoinedLeft
  <2>13. ASSUME NEW w \in 1..I PROVE u[1 + w] = a[w]
    <3>1. w \in 1..Len(a)
      BY <2>2
    <3>2. (g \o a)[Len(g) + w] = a[w]
      BY <3>1, JoinedRight
    <3> QED BY <2>2, <2>5, <3>2
  <2>14. ASSUME NEW w \in 1..(1 + I) PROVE v[w] = u[w]
    BY <2>6, <2>9, JoinedLeft
  <2>15. ASSUME NEW w \in 1..I PROVE v[1 + I + w] = b[w]
    <3>1. w \in 1..Len(b)
      BY <2>2
    <3>2. (u \o b)[Len(u) + w] = b[w]
      BY <3>1, JoinedRight
    <3> QED BY <2>6, <2>9, <3>2
  <2>16. ASSUME NEW w \in 1..(1 + 2 * I) PROVE j[w] = v[w]
    BY <2>7, <2>10, JoinedLeft
  <2>17. ASSUME NEW w \in 1..m PROVE j[1 + 2 * I + w] = c[w]
    <3>1. w \in 1..Len(c)
      BY <2>2
    <3>2. (v \o c)[Len(v) + w] = c[w]
      BY <3>1, JoinedRight
    <3> QED BY <2>7, <2>10, <3>2
  <2>18. j[1] = g[1]
    <3>1. 1 \in 1..(1 + I) /\ 1 \in 1..(1 + 2 * I)
      OBVIOUS
    <3> QED BY <2>12, <2>14, <2>16, <3>1
  <2>19. ASSUME NEW w \in 1..I
         PROVE  j[1 + w] = a[w] /\ j[1 + I + w] = b[w]
    <3>1. /\ 1 + w \in 1..(1 + I) /\ 1 + w \in 1..(1 + 2 * I)
          /\ 1 + I + w \in 1..(1 + 2 * I)
      OBVIOUS
    <3>2. j[1 + w] = a[w]
      BY <2>13, <2>14, <2>16, <3>1
    <3>3. j[1 + I + w] = b[w]
      BY <2>15, <2>16, <3>1
    <3> QED BY <3>2, <3>3
  <2> QED BY <1>4, <2>1, <2>3, <2>8, <2>11, <2>17, <2>18, <2>19
<1>16. pkg = [w \in 1..size |-> pkg[w]] /\ \A w \in 1..sum : pkg[w] = joined[w]
  BY <1>1, <1>5, <1>15
<1>17. pkg \in Seq(K!ToSet(pkg)) /\ Len(pkg) = size
  BY <1>5, <1>16, IsOwnSeq
<1>18. pkg[1] = K!Header(F)
  <2>1. 1 \in 1..sum
    BY <1>4, InfoIsNat
  <2> QED BY <1>8, <1>9, <1>15, <1>16, <2>1
<1>19. ASSUME NEW w \in 1..INFO
       PROVE  pkg[1 + w] = p.info0[w] /\ pkg[1 + INFO + w] = p.info1[w]
  <2>1. 1 + w \in 1..sum /\ 1 + INFO + w \in 1..sum
    BY <1>4, InfoIsNat
  <2> QED BY <1>15, <1>16, <2>1
<1>20. ASSUME NEW w \in 1..m
       PROVE  pkg[1 + 2 * INFO + w] = p.stream[w]
  <2>1. 1 + 2 * INFO + w \in 1..sum
    BY <1>4, InfoIsNat
  <2> QED BY <1>15, <1>16, <2>1
<1>21. /\ F.type = 3 /\ F.n_sections = 3 /\ F.info_size = INFO /\ F.compressed = TRUE
       /\ F.size = Len(p.stream) /\ F.dec_size = 2 * INFO + Len(p.content)
  BY <1>3 DEF fields
<1>22. K!IsPackage(pkg, p, F) /\ K!IsUsable(F)
  BY <1>2, <1>4, <1>5, <1>17, <1>18, <1>19, <1>20, <1>21 DEF K!IsPackage, K!IsUsable
<1> QED BY <1>5, <1>17, <1>21, <1>22

LEMMA WritePkgKeeps == ASSUME KInv, K!WritePkg PROVE KInv'
<1>1. PICK pkg : pkg = K!Package(mem.parts)
  OBVIOUS
<1>2. PICK n \in IF mem.job.disk_full THEN 0..Len(pkg) ELSE {Len(pkg)} :
        /\ pc = "build" /\ pc' = "closed"
        /\ fs' = K!memcpy_to_file(fs, K!PKG, SubSeq(pkg, 1, n))
        /\ mem' = [mem EXCEPT !.written = (n = Len(pkg))]
        /\ UNCHANGED <<cwd, archive, i>>
  BY <1>1 DEF K!WritePkg
<1>3. PICK p : p = mem.parts
  OBVIOUS
<1>4. K!ArePieces(p) /\ Len(p.stream) > 0 /\ p.stream = K!Deflated(p.content, Len(p.stream))
  BY <1>2, <1>3 DEF KInv, KType, KFile
<1>5. /\ Len(pkg) \in Nat /\ pkg \in Seq(K!ToSet(pkg))
      /\ \E fields : /\ K!IsPackage(pkg, p, fields) /\ K!IsUsable(fields)
                     /\ fields.compressed = TRUE
  BY <1>1, <1>3, <1>4, PackageIsWhole
<1>6. PICK fields : /\ K!IsPackage(pkg, p, fields) /\ K!IsUsable(fields)
                    /\ fields.compressed = TRUE
  BY <1>5
<1>7. PICK m \in Nat, len \in Nat : m = Len(p.stream) /\ len = Len(pkg)
  <2>1. p.stream \in Seq(K!ToSet(p.stream))
    BY <1>4 DEF K!ArePieces
  <2> QED BY <1>5, <2>1, ElementOf
<1>8. n \in 0..len
  BY <1>2, <1>7
<1>9. PICK f : f = SubSeq(pkg, 1, n)
  OBVIOUS
<1>10. Len(f) = n /\ \A w \in 1..n : f[w] = pkg[w]
  BY <1>5, <1>7, <1>8, <1>9
<1>11. /\ mem' = [job |-> mem'.job, parts |-> mem'.parts, written |-> mem'.written]
       /\ mem'.job = mem.job /\ mem'.parts = p /\ mem'.written = (n = len)
  BY <1>2, <1>3, <1>7 DEF KInv, KType
<1>12. ASSUME n > 0 PROVE PkgFile(f, fields)'
  <2>1. Len(f) \in Nat \ {0} /\ f[1] = K!Header(fields)
    BY <1>6, <1>8, <1>10, <1>12 DEF K!IsPackage
  <2>2. /\ \A w \in 1..INFO : 1 + w <= Len(f) => f[1 + w] = p.info0[w]
        /\ \A w \in 1..INFO : 1 + INFO + w <= Len(f) => f[1 + INFO + w] = p.info1[w]
        /\ \A w \in 1..m : 1 + 2 * INFO + w <= Len(f) => f[1 + 2 * INFO + w] = p.stream[w]
    <3>1. /\ \A w \in 1..INFO : pkg[1 + w] = p.info0[w] /\ pkg[1 + INFO + w] = p.info1[w]
          /\ \A w \in 1..m : pkg[1 + 2 * INFO + w] = p.stream[w]
      BY <1>6, <1>7 DEF K!IsPackage
    <3>2. PICK k \in Nat : k = INFO
      BY InfoIsNat
    <3>3. \A w \in 1..k : 1 + w <= n => 1 + w \in 1..n
      BY <1>8, <3>2
    <3>4. \A w \in 1..k : 1 + k + w <= n => 1 + k + w \in 1..n
      BY <1>8, <3>2
    <3>5. \A w \in 1..m : 1 + 2 * k + w <= n => 1 + 2 * k + w \in 1..n
      BY <1>8, <3>2
    <3> QED BY <1>10, <3>1, <3>2, <3>3, <3>4, <3>5
  <2>3. n = len => Len(f) >= 1 + 2 * INFO + m
    BY <1>6, <1>7, <1>10 DEF K!IsPackage
  <2>4. /\ fields.size = Len(p.stream) /\ fields.dec_size = 2 * INFO + Len(p.content)
        /\ Len(p.stream) > 0 /\ p.stream = K!Deflated(p.content, Len(p.stream))
    BY <1>4, <1>6 DEF K!IsPackage
  <2>5. /\ \A w \in 1..INFO : 1 + w <= Len(f) => f[1 + w] = p.info0[w]
        /\ \A w \in 1..INFO : 1 + INFO + w <= Len(f) => f[1 + INFO + w] = p.info1[w]
        /\ \A w \in 1..Len(p.stream) : 1 + 2 * INFO + w <= Len(f) => f[1 + 2 * INFO + w] = p.stream[w]
        /\ n = len => Len(f) >= 1 + 2 * INFO + Len(p.stream)
    BY <1>7, <2>2, <2>3
  <2>6. fields.compressed /\ K!IsUsable(fields)
    BY <1>6
  <2>7. mem'.parts = p /\ (mem'.written => n = len)
    BY <1>11
  <2> QED BY <2>1, <2>4, <2>5, <2>6, <2>7 DEF PkgFile, K!IsUsable, K!Header, K!Deflated
<1>13. MayBe(f)'
  <2>1. CASE n = 0
    <3>1. f = <<>>
      BY <1>9, <2>1
    <3> QED BY <3>1 DEF MayBe
  <2>2. CASE n > 0
    BY <1>12, <2>2 DEF MayBe
  <2> QED BY <1>8, <2>1, <2>2
<1>14. /\ fs' = [dirs |-> fs'.dirs, files |-> fs'.files]
       /\ K!PKG \in DOMAIN fs'.files /\ fs'.files[K!PKG] = f
  <2>1. fs = [dirs |-> fs.dirs, files |-> fs.files] /\ fs' = K!memcpy_to_file(fs, K!PKG, f)
    BY <1>2, <1>9 DEF KInv, KType
  <2> QED BY <2>1, MemcpyFacts
<1>15. KType'
  BY <1>2, <1>3, <1>4, <1>11, <1>14 DEF KInv, KType, K!ArePieces, K!ToSet
<1>16. KFile'
  <2>1. PICK g : g = fs'.files[K!PKG]
    OBVIOUS
  <2>2. MayBe(fs.files[K!PKG])'
    BY <1>13, <1>14
  <2> QED BY <1>2, <2>2 DEF KInv, KFile, Early, K!PKG
<1>17. KUnpack' /\ K!PackageWhole'
  BY <1>2 DEF KUnpack, K!PackageWhole
<1> QED BY <1>15, <1>16, <1>17 DEF KInv

-----------------------------------------------------------------------------
(* unpkg *)

\* The header of the file is the one that it was made with.
LEMMA HeaderIsOwn ==
    ASSUME KInv, ~Early, archive # <<>>
    PROVE  PkgFile(archive, K!hdr)
<1>1. PICK fields : PkgFile(archive, fields)
  BY DEF KInv, KFile, MayBe
<1>2. archive[1] = <<"header", fields>>
  BY <1>1 DEF PkgFile, K!Header
<1>3. K!hdr = fields
  BY <1>2 DEF K!hdr
<1> QED BY <1>1, <1>3

\* What was written to its end is all there.
LEMMA WrittenIsAll ==
    ASSUME KInv, ~Early, archive # <<>>, mem.written
    PROVE  K!IsUsable(K!hdr) /\ Len(archive) >= 1 + 2 * INFO + Len(mem.parts.stream)
<1>1. PICK F : F = K!hdr
  OBVIOUS
<1>2. PkgFile(archive, F)
  BY <1>1, HeaderIsOwn
<1> QED BY <1>1, <1>2 DEF PkgFile

\* A word that is in the file is read as it is there.
LEMMA PeekFacts ==
    ASSUME NEW at \in Nat, NEW n \in Nat, at + n <= Len(archive), Len(archive) \in Nat, NEW w \in 1..n
    PROVE  K!Peek(at + w - 1) = archive[at + w]
<1>1. PICK p \in Int : p = at + w - 1
  OBVIOUS
<1>2. p < Len(archive) /\ p + 1 = at + w
  BY <1>1
<1>3. K!Peek(p) = archive[p + 1]
  BY <1>2 DEF K!Peek
<1> QED BY <1>1, <1>2, <1>3

\* In a file that goes on behind them, the infos are what pkg was given.
LEMMA InfosAreThere ==
    ASSUME KInv, ~Early, archive # <<>>, Len(archive) >= 1 + 2 * INFO
    PROVE  K!Words(1, INFO) = mem.parts.info0 /\ K!Words(1 + INFO, INFO) = mem.parts.info1
<1>1. PICK F : PkgFile(archive, F)
  BY HeaderIsOwn
<1>2. PICK len \in Nat : len = Len(archive)
  BY <1>1 DEF PkgFile
<1>3. PICK n \in Nat : n = INFO
  BY InfoIsNat
<1>4. PICK a, b : a = mem.parts.info0 /\ b = mem.parts.info1
  OBVIOUS
<1>5. a = [w \in 1..n |-> a[w]] /\ b = [w \in 1..n |-> b[w]]
  BY <1>3, <1>4 DEF KInv, KType, K!ArePieces
<1>6. len >= 1 + 2 * n
  BY <1>2, <1>3
<1>7. /\ \A w \in 1..n : 1 + w <= len => archive[1 + w] = a[w]
      /\ \A w \in 1..n : 1 + n + w <= len => archive[1 + n + w] = b[w]
  BY <1>1, <1>2, <1>3, <1>4 DEF PkgFile
<1>8. \A w \in 1..n : archive[1 + w] = a[w]
  BY <1>6, <1>7
<1>9. \A w \in 1..n : archive[(1 + n) + w] = b[w]
  <2>1. ASSUME NEW w \in 1..n
        PROVE  1 + n + w <= len
    BY <1>6
  <2> QED BY <1>7, <2>1
<1>10. K!Words(1, n) = a
  <2>1. 1 \in Nat /\ 1 + n <= Len(archive) /\ Len(archive) \in Nat
    BY <1>2, <1>6
  <2>2. ASSUME NEW w \in 1..n
        PROVE  K!Peek(1 + w - 1) = a[w]
    <3>1. K!Peek(1 + w - 1) = archive[1 + w]
      BY <2>1, PeekFacts
    <3> QED BY <1>8, <3>1
  <2> QED BY <1>5, <2>2 DEF K!Words
<1>11. K!Words(1 + n, n) = b
  <2>1. 1 + n \in Nat /\ (1 + n) + n <= Len(archive) /\ Len(archive) \in Nat
    BY <1>2, <1>6
  <2>2. ASSUME NEW w \in 1..n
        PROVE  K!Peek(1 + n + w - 1) = b[w]
    <3>1. K!Peek(1 + n + w - 1) = archive[(1 + n) + w]
      BY <2>1, PeekFacts
    <3> QED BY <1>9, <3>1
  <2> QED BY <1>5, <2>2 DEF K!Words
<1> QED BY <1>3, <1>4, <1>10, <1>11

\* In a file that is not cut short, the last section is the stream.
LEMMA SectionIsThere ==
    ASSUME KInv, ~Early, archive # <<>>,
           Len(archive) >= 1 + 2 * INFO + Len(mem.parts.stream)
    PROVE  K!section = mem.parts.stream /\ K!SectionMapped
<1>1. PICK F : F = K!hdr
  OBVIOUS
<1>2. PkgFile(archive, F)
  BY <1>1, HeaderIsOwn
<1>3. PICK len \in Nat : len = Len(archive)
  BY <1>2 DEF PkgFile
<1>4. PICK f : f = mem.parts.stream
  OBVIOUS
<1>5. f \in Seq(K!ToSet(f))
  BY <1>4 DEF KInv, KType, K!ArePieces
<1>6. PICK m \in Nat : m = Len(f) /\ f = [w \in 1..m |-> f[w]]
  BY <1>5
<1>7. PICK at \in Nat : at = 1 + 2 * INFO
  BY InfoIsNat
<1>8. F.size = m /\ at + m <= len
  BY <1>2, <1>3, <1>4, <1>6, <1>7 DEF PkgFile
<1>9. \A w \in 1..m : archive[at + w] = f[w]
  <2>1. \A w \in 1..m : 1 + 2 * INFO + w <= len => archive[1 + 2 * INFO + w] = f[w]
    BY <1>2, <1>3, <1>4, <1>6 DEF PkgFile
  <2>2. \A w \in 1..m : at + w <= len
    BY <1>8
  <2> QED BY <1>7, <2>1, <2>2
<1>10. K!Words(at, m) = f
  <2>1. at + m <= Len(archive) /\ Len(archive) \in Nat
    BY <1>3, <1>8
  <2>2. ASSUME NEW w \in 1..m
        PROVE  K!Peek(at + w - 1) = f[w]
    <3>1. K!Peek(at + w - 1) = archive[at + w]
      BY <2>1, PeekFacts
    <3> QED BY <1>9, <3>1
  <2> QED BY <1>6, <2>2 DEF K!Words
<1>11. K!Mapped(at, m)
  BY <1>3, <1>8, InfoIsNat DEF K!Mapped
<1> QED BY <1>1, <1>4, <1>7, <1>8, <1>10, <1>11 DEF K!section, K!SectionMapped

\* unpkg stops when there is no reason not to.
LEMMA StopKeeps ==
    ASSUME KInv, NEW why \in {"failed", "crashed"}, K!Stop(why), ~Early \/ pc = "closed",
           archive # <<>> => ~(mem.written /\ mem.job.unpack_key /\ cwd = Target)
    PROVE  KInv'
<1>1. pc' = why /\ UNCHANGED <<fs, cwd, archive, i, mem>>
  BY DEF K!Stop
<1>2. KType'
  <2>1. fs' = [dirs |-> fs'.dirs, files |-> fs'.files]
    BY <1>1 DEF KInv, KType
  <2> QED BY <1>1, <2>1, KeepsKType DEF KInv
<1>3. MayBe(archive)'
  <2>1. MayBe(archive)
    BY DEF KInv, KFile, MayBe, Early
  <2>2. PICK f : f = archive
    OBVIOUS
  <2>3. MayBe(f)'
    BY <1>1, <2>1, <2>2, MayBeStays
  <2> QED BY <1>1, <2>2, <2>3
<1>4. KFile'
  BY <1>1, <1>3 DEF KFile, Early
<1>5. KUnpack'
  BY <1>1 DEF KUnpack
<1>6. K!PackageWhole'
  BY <1>1 DEF K!PackageWhole, Target
<1> QED BY <1>2, <1>4, <1>5, <1>6 DEF KInv

LEMMA NoPkgKeeps == ASSUME KInv, K!NoPkg PROVE KInv'
<1>1. pc = "closed" /\ K!Stop("failed")
  BY DEF K!NoPkg
<1>2. archive = <<>>
  BY <1>1 DEF KInv, KFile, Early
<1> QED BY <1>1, <1>2, StopKeeps

LEMMA EmptyPkgKeeps == ASSUME KInv, K!EmptyPkg PROVE KInv'
<1>1. pc = "decrypt" /\ archive = <<>> /\ K!Stop("crashed")
  BY DEF K!EmptyPkg
<1> QED BY <1>1, StopKeeps DEF Early

LEMMA DecryptFailsKeeps == ASSUME KInv, K!DecryptFails PROVE KInv'
<1>1. /\ pc = "decrypt" /\ archive # <<>> /\ K!Stop("failed")
      /\ K!hdr.type # 3 \/ ~mem.job.unpack_key \/ K!hdr.n_sections # 3
  BY DEF K!DecryptFails
<1>2. ~Early
  BY <1>1 DEF Early
<1>3. mem.written => K!IsUsable(K!hdr)
  BY <1>1, <1>2, WrittenIsAll
<1>4. ~(mem.written /\ mem.job.unpack_key)
  BY <1>1, <1>3 DEF K!IsUsable
<1> QED BY <1>1, <1>2, <1>4, StopKeeps

LEMMA WeirdInfoKeeps == ASSUME KInv, K!WeirdInfo PROVE KInv'
<1>1. pc = "info" /\ archive # <<>> /\ K!hdr.info_size # INFO /\ K!Stop("failed")
  BY DEF K!WeirdInfo, KInv, KUnpack
<1>2. ~Early
  BY <1>1 DEF Early
<1>3. ~mem.written
  BY <1>1, <1>2, WrittenIsAll DEF K!IsUsable
<1> QED BY <1>1, <1>2, <1>3, StopKeeps

LEMMA ContentBehindEndKeeps == ASSUME KInv, K!ContentBehindEnd PROVE KInv'
<1>1. pc = "content" /\ archive # <<>> /\ ~K!SectionMapped /\ K!Stop("crashed")
  BY DEF K!ContentBehindEnd, KInv, KUnpack
<1>2. ~Early
  BY <1>1 DEF Early
<1>3. ~mem.written
  BY <1>1, <1>2, WrittenIsAll, SectionIsThere
<1> QED BY <1>1, <1>2, <1>3, StopKeeps

\* What Deflated makes is a whole stream.
LEMMA DeflatedIsStream ==
    ASSUME NEW data, NEW n \in Nat, n > 0, NEW z, z = K!Deflated(data, n), NEW room, Len(data) <= room
    PROVE  K!IsStream(z, room)
<1>1. z = [w \in 1..n |-> <<"z", data, w, n>>]
  BY DEF K!Deflated
<1>2. Len(z) = n /\ z # <<>> /\ z[1] = <<"z", data, 1, n>>
  <2>1. Len(z) = n
    BY <1>1
  <2>2. z[1] = <<"z", data, 1, n>>
    BY <1>1
  <2>3. z # <<>>
    BY <2>1
  <2> QED BY <2>1, <2>2, <2>3
<1>3. SubSeq(z, 1, n) = z
  BY <1>1, <1>2
<1>4. z[1][1] = "z" /\ z[1][2] = data /\ z[1][4] = n
  BY <1>2
<1> QED BY <1>2, <1>3, <1>4 DEF K!IsStream

LEMMA InflateFailsKeeps == ASSUME KInv, K!InflateFails PROVE KInv'
<1>1. /\ pc = "content" /\ archive # <<>> /\ K!hdr.compressed /\ K!Stop("failed")
      /\ ~K!IsStream(K!section, K!size_real)
  BY DEF K!InflateFails, KInv, KUnpack
<1>2. ~Early
  BY <1>1 DEF Early
<1>3. ASSUME mem.written PROVE FALSE
  <2>1. K!section = mem.parts.stream
    BY <1>1, <1>2, <1>3, WrittenIsAll, SectionIsThere
  <2>2. PICK F : F = K!hdr
    OBVIOUS
  <2>3. PkgFile(archive, F)
    BY <1>1, <1>2, <2>2, HeaderIsOwn
  <2>4. PICK data, n, z : data = mem.parts.content /\ z = mem.parts.stream /\ n = Len(z)
    OBVIOUS
  <2>5. n > 0 /\ z = K!Deflated(data, n) /\ F.dec_size = 2 * INFO + Len(data)
    BY <1>1, <2>2, <2>3, <2>4 DEF PkgFile
  <2>6. n \in Nat /\ Len(data) \in Nat
    <3>1. data \in Seq(K!ToSet(data)) /\ z \in Seq(K!ToSet(z))
      BY <2>4 DEF KInv, KType, K!ArePieces
    <3> QED BY <2>4, <3>1, ElementOf
  <2>7. PICK room \in Int : room = K!size_real /\ Len(data) <= room
    BY <2>2, <2>5, <2>6, InfoIsNat DEF K!size_real
  <2>8. K!IsStream(z, room)
    BY <2>5, <2>6, <2>7, DeflatedIsStream
  <2> QED BY <1>1, <2>1, <2>4, <2>7, <2>8
<1> QED BY <1>1, <1>2, <1>3, StopKeeps

LEMMA MapPkgKeeps == ASSUME KInv, K!MapPkg PROVE KInv'
<1>1. /\ pc = "closed" /\ K!PKG \in DOMAIN fs.files /\ archive' = fs.files[K!PKG]
      /\ fs' = IF mem.job.only_content THEN fs ELSE K!mkdir(fs, K!TO)
      /\ UNCHANGED <<i, mem>>
  BY DEF K!MapPkg
<1>2. \/ pc' = "decrypt" /\ cwd' = Target
      \/ pc' = "failed" /\ cwd' = <<>> /\ ~mem.job.only_content
  BY DEF K!MapPkg, Target
<1>3. fs' = [dirs |-> fs'.dirs, files |-> fs'.files]
  <2>1. fs = [dirs |-> fs.dirs, files |-> fs.files]
    BY DEF KInv, KType
  <2>2. K!mkdir(fs, K!TO) = fs \/ K!mkdir(fs, K!TO) = [fs EXCEPT !.dirs = @ \cup {K!TO}]
    BY DEF K!mkdir
  <2> QED BY <1>1, <2>1, <2>2
<1>4. KType'
  BY <1>1, <1>2, <1>3, KeepsKType DEF KInv
<1>5. MayBe(archive)'
  <2>1. PICK f : f = fs.files[K!PKG]
    OBVIOUS
  <2>2. MayBe(f)
    BY <1>1, <2>1 DEF KInv, KFile, Early
  <2>3. MayBe(f)'
    BY <1>1, <2>2, MayBeStays
  <2> QED BY <1>1, <2>1, <2>3
<1>6. KFile'
  BY <1>2, <1>5 DEF KFile, Early
<1>7. Target' = Target
  BY <1>1 DEF Target
<1>8. KUnpack'
  BY <1>2, <1>7 DEF KUnpack
<1>9. K!PackageWhole'
  BY <1>1, <1>2 DEF K!PackageWhole, K!TO
<1> QED BY <1>4, <1>6, <1>8, <1>9 DEF KInv

LEMMA DecryptKeeps == ASSUME KInv, K!Decrypt PROVE KInv'
<1>1. /\ pc = "decrypt" /\ archive # <<>> /\ i' = 0 /\ UNCHANGED <<fs, cwd, archive, mem>>
      /\ pc' = IF mem.job.only_content THEN "content" ELSE "info"
  BY DEF K!Decrypt
<1>2. KType'
  <2>1. fs' = [dirs |-> fs'.dirs, files |-> fs'.files]
    BY <1>1 DEF KInv, KType
  <2> QED BY <1>1, <2>1, KeepsKType DEF KInv
<1>3. MayBe(archive)'
  <2>1. PICK f : f = archive
    OBVIOUS
  <2>2. MayBe(f)'
    BY <1>1, <2>1, MayBeStays DEF KInv, KFile, Early
  <2> QED BY <1>1, <2>1, <2>2
<1>4. KFile'
  BY <1>1, <1>3 DEF KFile, Early
<1>5. KUnpack' /\ K!PackageWhole'
  BY <1>1 DEF KInv, KUnpack, Target, K!PackageWhole
<1> QED BY <1>2, <1>4, <1>5 DEF KInv

\* The words of the file do not change.
LEMMA WordsStay == ASSUME UNCHANGED archive, NEW at, NEW n PROVE K!Words(at, n)' = K!Words(at, n)
BY DEF K!Words, K!Peek

LEMMA UnpackInfoKeeps == ASSUME KInv, K!UnpackInfo PROVE KInv'
<1>1. /\ pc = "info" /\ archive # <<>> /\ cwd = K!TO /\ i \in {0, 1} /\ ~mem.job.only_content
      /\ i = 1 => Unpacked_i("info0", 1)
  BY DEF K!UnpackInfo, KInv, KUnpack, Target
<1>2. ~Early
  BY <1>1 DEF Early
<1>3. PICK at, name : at = 1 + i * INFO /\ name = IF i = 0 THEN "info0" ELSE "info1"
  OBVIOUS
<1>4. UNCHANGED <<cwd, archive, mem>>
  BY DEF K!UnpackInfo
<1>5. MayBe(archive)'
  <2>1. PICK f : f = archive
    OBVIOUS
  <2>2. MayBe(f)'
    BY <1>2, <1>4, <2>1, MayBeStays DEF KInv, KFile
  <2> QED BY <1>4, <2>1, <2>2
<1>6. CASE ~K!Mapped(at, INFO)
  <2>1. pc' = "crashed" /\ UNCHANGED <<fs, i>>
    BY <1>3, <1>6 DEF K!UnpackInfo
  <2>2. K!Stop("crashed")
    BY <1>4, <2>1 DEF K!Stop
  <2>3. ~mem.written
    <3>1. SUFFICES ASSUME mem.written PROVE FALSE
      OBVIOUS
    <3>2. PICK F : PkgFile(archive, F)
      BY <1>1, <1>2, HeaderIsOwn
    <3>3. PICK len \in Nat : len = Len(archive)
      BY <3>2 DEF PkgFile
    <3>4. PICK m \in Nat : m = Len(mem.parts.stream)
      <4>1. mem.parts.stream \in Seq(K!ToSet(mem.parts.stream))
        BY DEF KInv, KType, K!ArePieces
      <4> QED BY <4>1, ElementOf
    <3>5. PICK n \in Nat : n = INFO
      BY InfoIsNat
    <3>6. len >= 1 + 2 * n + m
      BY <1>1, <1>2, <3>1, <3>3, <3>4, <3>5, WrittenIsAll
    <3>7. at = 1 \/ at = 1 + n
      BY <1>1, <1>3, <3>5
    <3>8. at + n <= len
      BY <3>6, <3>7
    <3>9. at + n <= len + PAGE
      BY <3>7, <3>8, InfoIsNat
    <3> QED BY <1>6, <3>3, <3>5, <3>9 DEF K!Mapped
  <2> QED BY <1>1, <1>2, <2>2, <2>3, StopKeeps
<1>7. CASE K!Mapped(at, INFO)
  <2>1. /\ fs' = K!memcpy_to_file(fs, cwd \o <<name>>, K!Words(at, INFO))
        /\ i' = i + 1 /\ pc' = IF i = 0 THEN "info" ELSE "content"
    BY <1>3, <1>7 DEF K!UnpackInfo
  <2>2. PICK path, data : path = K!TO \o <<name>> /\ data = K!Words(at, INFO)
    OBVIOUS
  <2>3. /\ fs' = [dirs |-> fs'.dirs, files |-> fs'.files]
        /\ path \in DOMAIN fs'.files /\ fs'.files[path] = data
        /\ \A q \in DOMAIN fs.files : q # path => q \in DOMAIN fs'.files /\ fs'.files[q] = fs.files[q]
    <3>1. fs = [dirs |-> fs.dirs, files |-> fs.files] /\ fs' = K!memcpy_to_file(fs, path, data)
      BY <1>1, <2>1, <2>2 DEF KInv, KType
    <3>2. /\ fs' = [dirs |-> fs'.dirs, files |-> fs'.files]
          /\ DOMAIN fs'.files = DOMAIN fs.files \cup {path} /\ fs'.files[path] = data
          /\ \A q \in DOMAIN fs.files : q # path => fs'.files[q] = fs.files[q]
      BY <3>1, MemcpyFacts
    <3> QED BY <3>2
  <2>4. KType'
    BY <1>4, <2>1, <2>3, KeepsKType DEF KInv
  <2>5. KFile'
    BY <1>5, <2>1 DEF KFile, Early
  <2>6. KUnpack'
    <3>1. K!Words(1, INFO)' = K!Words(1, INFO) /\ K!Words(1 + INFO, INFO)' = K!Words(1 + INFO, INFO)
      BY <1>4, WordsStay
    <3>2. CASE i = 0
      <4>1. name = "info0" /\ at = 1 /\ i' = 1 /\ pc' = "info"
        BY <1>3, <2>1, <3>2, InfoIsNat
      <4>2. Unpacked_i("info0", 1)'
        BY <2>2, <2>3, <3>1, <4>1 DEF Unpacked_i, K!TO
      <4> QED BY <1>1, <1>4, <4>1, <4>2 DEF KUnpack, Target
    <3>3. CASE i = 1
      <4>1. name = "info1" /\ at = 1 + INFO /\ pc' = "content"
        BY <1>3, <2>1, <3>3, InfoIsNat
      <4>2. Unpacked_i("info1", 1 + INFO)'
        BY <2>2, <2>3, <3>1, <4>1 DEF Unpacked_i, K!TO
      <4>3. Unpacked_i("info0", 1)'
        <5>1. PICK q : q = K!TO \o <<"info0">>
          OBVIOUS
        <5>2. q # path
          BY <2>2, <4>1, <5>1, PathsDiffer
        <5>3. q \in DOMAIN fs.files /\ fs.files[q] = K!Words(1, INFO)
          BY <1>1, <3>3, <5>1 DEF Unpacked_i
        <5>4. q \in DOMAIN fs'.files /\ fs'.files[q] = K!Words(1, INFO)
          BY <2>3, <5>2, <5>3
        <5> QED BY <3>1, <5>1, <5>4 DEF Unpacked_i, K!TO
      <4> QED BY <1>1, <1>4, <4>1, <4>2, <4>3 DEF KUnpack, Target
    <3> QED BY <1>1, <3>2, <3>3
  <2>7. K!PackageWhole'
    BY <2>1 DEF K!PackageWhole
  <2> QED BY <2>4, <2>5, <2>6, <2>7 DEF KInv
<1> QED BY <1>6, <1>7

\* A section that begins like a stream begins with the stream that was packed:
\* behind the end of the file there are only zeros.
LEMMA StreamIsThere ==
    ASSUME KInv, ~Early, archive # <<>>, K!hdr.compressed, K!IsStream(K!section, K!size_real)
    PROVE  Len(archive) >= 1 + 2 * INFO /\ K!section[1][2] = mem.parts.content
<1>1. PICK F : F = K!hdr
  OBVIOUS
<1>2. PkgFile(archive, F)
  BY <1>1, HeaderIsOwn
<1>3. PICK len \in Nat : len = Len(archive)
  BY <1>2 DEF PkgFile
<1>4. PICK at \in Nat : at = 1 + 2 * INFO
  BY InfoIsNat
<1>5. PICK f, data : f = mem.parts.stream /\ data = mem.parts.content
  OBVIOUS
<1>6. PICK m \in Nat : m = Len(f) /\ m > 0
  <2>1. f \in Seq(K!ToSet(f))
    BY <1>5 DEF KInv, KType, K!ArePieces
  <2>2. Len(f) > 0
    BY <1>1, <1>2, <1>5 DEF PkgFile
  <2> QED BY <2>1, <2>2, ElementOf
<1>7. f[1] = <<"z", data, 1, m>>
  <2>1. f = K!Deflated(data, m)
    BY <1>1, <1>2, <1>5, <1>6 DEF PkgFile
  <2> QED BY <1>6, <2>1 DEF K!Deflated
<1>8. K!section[1] = K!Peek(at)
  <2>1. K!section = [w \in 1..m |-> K!Peek(at + w - 1)]
    BY <1>1, <1>2, <1>4, <1>5, <1>6 DEF K!section, K!Words, PkgFile
  <2>2. at + 1 - 1 = at
    OBVIOUS
  <2> QED BY <1>6, <2>1, <2>2
<1>9. K!section[1][1] = "z"
  BY DEF K!IsStream
<1>10. at < len
  <2>1. SUFFICES ASSUME ~(at < len) PROVE FALSE
    OBVIOUS
  <2>2. K!Peek(at) = <<"number", 0>>
    BY <1>3, <2>1 DEF K!Peek, K!ZERO, K!Num
  <2>3. <<"number", 0>>[1] = "number"
    OBVIOUS
  <2> QED BY <1>8, <1>9, <2>2, <2>3
<1>11. K!Peek(at) = archive[at + 1]
  BY <1>3, <1>10 DEF K!Peek
<1>12. archive[at + 1] = f[1]
  <2>1. \A w \in 1..m : 1 + 2 * INFO + w <= len => archive[1 + 2 * INFO + w] = f[w]
    BY <1>2, <1>3, <1>5, <1>6 DEF PkgFile
  <2>2. \A w \in 1..m : at + w <= len => archive[at + w] = f[w]
    BY <1>4, <2>1
  <2>3. 1 \in 1..m /\ at + 1 <= len
    BY <1>6, <1>10
  <2> QED BY <2>2, <2>3
<1>13. f[1][2] = data
  BY <1>7
<1>14. len >= at
  BY <1>10
<1> QED BY <1>3, <1>4, <1>5, <1>8, <1>11, <1>12, <1>13, <1>14

\* What unpkg unpacks is what was packed.
LEMMA ContentIsRight ==
    ASSUME KInv, ~Early, archive # <<>>, K!hdr.compressed => K!IsStream(K!section, K!size_real),
           NEW content,
           content = IF K!hdr.compressed
                     THEN [w \in 1..K!size_real |->
                             IF w <= Len(K!section[1][2]) THEN K!section[1][2][w] ELSE K!FILL]
                     ELSE K!section
    PROVE  content = mem.parts.content /\ Len(archive) >= 1 + 2 * INFO
<1>1. PICK F : F = K!hdr
  OBVIOUS
<1>2. PkgFile(archive, F)
  BY <1>1, HeaderIsOwn
<1>3. PICK data : data = mem.parts.content
  OBVIOUS
<1>4. data \in Seq(K!ToSet(data))
  BY <1>3 DEF KInv, KType, K!ArePieces
<1>5. PICK n \in Nat : n = Len(data) /\ data = [w \in 1..n |-> data[w]]
  BY <1>4
<1>6. CASE F.compressed
  <2>1. Len(archive) >= 1 + 2 * INFO /\ K!section[1][2] = data
    BY <1>1, <1>3, <1>6, StreamIsThere
  <2>2. K!size_real = n
    <3>1. F.dec_size = 2 * INFO + n
      BY <1>2, <1>3, <1>5 DEF PkgFile
    <3> QED BY <1>1, <3>1, InfoIsNat DEF K!size_real
  <2>3. content = [w \in 1..n |-> IF w <= n THEN data[w] ELSE K!FILL]
    BY <1>1, <1>5, <1>6, <2>1, <2>2
  <2>4. content = data
    <3>1. ASSUME NEW w \in 1..n PROVE (IF w <= n THEN data[w] ELSE K!FILL) = data[w]
      OBVIOUS
    <3>2. content = [w \in 1..n |-> data[w]]
      BY <2>3, <3>1
    <3> QED BY <1>5, <3>2, Zenon
  <2> QED BY <1>3, <2>1, <2>4
<1>7. CASE ~F.compressed
  <2>1. Len(archive) >= 1 + 2 * INFO + Len(mem.parts.stream) /\ mem.parts.stream = data
    BY <1>2, <1>3, <1>7 DEF PkgFile
  <2>2. content = K!section
    BY <1>1, <1>7
  <2>3. K!section = mem.parts.stream
    BY <2>1, SectionIsThere
  <2>4. PICK len \in Nat : len = Len(archive)
    BY <1>2 DEF PkgFile
  <2>5. len >= 1 + 2 * INFO
    BY <1>5, <2>1, <2>4, InfoIsNat
  <2> QED BY <1>3, <2>1, <2>2, <2>3, <2>4, <2>5
<1> QED BY <1>6, <1>7

LEMMA UnpackContentKeeps == ASSUME KInv, K!UnpackContent PROVE KInv'
<1>1. /\ pc = "content" /\ archive # <<>> /\ cwd = Target
      /\ ~mem.job.only_content => Unpacked_i("info0", 1) /\ Unpacked_i("info1", 1 + INFO)
  BY DEF K!UnpackContent, KInv, KUnpack
<1>2. ~Early
  BY <1>1 DEF Early
<1>3. /\ pc' = "done" /\ UNCHANGED <<cwd, archive, i, mem>>
      /\ K!hdr.compressed => K!IsStream(K!section, K!size_real)
  BY DEF K!UnpackContent
<1>4. PICK content :
        content = IF K!hdr.compressed
                  THEN [w \in 1..K!size_real |->
                          IF w <= Len(K!section[1][2]) THEN K!section[1][2][w] ELSE K!FILL]
                  ELSE K!section
  OBVIOUS
<1>5. content = mem.parts.content /\ Len(archive) >= 1 + 2 * INFO
  BY <1>1, <1>2, <1>3, <1>4, ContentIsRight
<1>6. fs' = K!memcpy_to_file(fs, cwd \o <<"content">>, content)
  BY <1>4 DEF K!UnpackContent
<1>7. PICK path : path = cwd \o <<"content">>
  OBVIOUS
<1>8. /\ fs' = [dirs |-> fs'.dirs, files |-> fs'.files]
      /\ fs'.files[path] = content
      /\ \A q \in DOMAIN fs.files : q # path => fs'.files[q] = fs.files[q]
  <2>1. fs = [dirs |-> fs.dirs, files |-> fs.files] /\ fs' = K!memcpy_to_file(fs, path, content)
    BY <1>6, <1>7 DEF KInv, KType
  <2> QED BY <2>1, MemcpyFacts
<1>9. KType'
  BY <1>3, <1>8, KeepsKType DEF KInv
<1>10. MayBe(archive)'
  <2>1. PICK f : f = archive
    OBVIOUS
  <2>2. MayBe(f)'
    BY <1>2, <1>3, <2>1, MayBeStays DEF KInv, KFile
  <2> QED BY <1>3, <2>1, <2>2
<1>11. KFile' /\ KUnpack'
  BY <1>1, <1>3, <1>10 DEF KFile, KUnpack, Early, Target
<1>12. K!PackageWhole'
  <2>1. CASE mem.job.only_content
    <3>1. path = <<>> \o <<"content">>
      BY <1>1, <1>7, <2>1 DEF Target
    <3> QED BY <1>3, <1>5, <1>8, <2>1, <3>1 DEF K!PackageWhole
  <2>2. CASE ~mem.job.only_content
    <3>1. path = K!TO \o <<"content">>
      BY <1>1, <1>7, <2>2 DEF Target
    <3>2. ASSUME NEW name \in {"info0", "info1"}
          PROVE  fs'.files[K!TO \o <<name>>] = mem.parts[name]
      <4>1. PICK q : q = K!TO \o <<name>>
        OBVIOUS
      <4>2. q # path
        BY <3>1, <4>1, PathsDiffer
      <4>3. q \in DOMAIN fs.files /\ fs.files[q] = mem.parts[name]
        <5>1. K!Words(1, INFO) = mem.parts.info0 /\ K!Words(1 + INFO, INFO) = mem.parts.info1
          BY <1>1, <1>2, <1>5, InfosAreThere
        <5>2. CASE name = "info0"
          BY <1>1, <2>2, <4>1, <5>1, <5>2 DEF Unpacked_i
        <5>3. CASE name = "info1"
          BY <1>1, <2>2, <4>1, <5>1, <5>3 DEF Unpacked_i
        <5> QED BY <5>2, <5>3
      <4> QED BY <1>8, <4>1, <4>2, <4>3
    <3>3. fs'.files[K!TO \o <<"content">>] = mem.parts["content"]
      BY <1>5, <1>8, <3>1
    <3>4. \A name \in {"info0", "info1", "content"} : fs'.files[K!TO \o <<name>>] = mem.parts[name]
      BY <3>2, <3>3
    <3> QED BY <1>3, <2>2, <3>4 DEF K!PackageWhole, K!TO
  <2> QED BY <2>1, <2>2
<1> QED BY <1>9, <1>11, <1>12 DEF KInv

\* No step of pkg or unpkg breaks the invariant.
LEMMA NextKeepsKInv == KInv /\ K!Next => KInv'
BY OpenPkgKeeps, StopPkgKeeps, GetInputsKeeps, WritePkgKeeps, NoPkgKeeps, MapPkgKeeps,
   EmptyPkgKeeps, DecryptFailsKeeps, DecryptKeeps, WeirdInfoKeeps, UnpackInfoKeeps,
   ContentBehindEndKeeps, InflateFailsKeeps, UnpackContentKeeps DEF K!Next

LEMMA StutterKeepsKInv == KInv /\ UNCHANGED toolVars /\ UNCHANGED <<pc, i>> => KInv'
<1> SUFFICES ASSUME KInv, UNCHANGED <<fs, cwd, archive, mem, pc, i>> PROVE KInv'
  BY DEF toolVars
<1>1. KType'
  <2>1. KType
    BY DEF KInv
  <2> QED BY <2>1 DEF KType, K!ArePieces, K!IsFileSystem, K!ToSet
<1>2. KFile'
  <2>1. ASSUME NEW f, MayBe(f) PROVE MayBe(f)'
    BY <2>1, MayBeStays
  <2>2. PICK f, g : f = archive /\ g = fs.files[K!PKG]
    OBVIOUS
  <2>3. (~Early => MayBe(f)') /\ (Early /\ K!PKG \in DOMAIN fs.files => MayBe(g)')
    BY <2>1, <2>2 DEF KInv, KFile
  <2>4. (~Early => MayBe(archive)') /\ (Early /\ K!PKG \in DOMAIN fs.files => MayBe(fs.files[K!PKG])')
    BY <2>2, <2>3
  <2> QED BY <2>4 DEF KInv, KFile, Early, K!PKG, K!Deflated
<1>3. KUnpack'
  BY DEF KInv, KUnpack, Unpacked_i, Target, K!TO, K!Words, K!Peek
<1>4. K!PackageWhole'
  BY DEF KInv, K!PackageWhole, K!TO
<1> QED BY <1>1, <1>2, <1>3, <1>4 DEF KInv
-----------------------------------------------------------------------------
(* ungpkg *)

At(job, k) == U!TO \o U!PathOf(job, k)

\* The files there are when n entries are unpacked: what was there before and
\* no entry has replaced, and of each path the last entry.
FilesSoFar(job, n) ==
    /\ DOMAIN job.fs.files \subseteq DOMAIN fs.files
    /\ \A k \in 1..n : k \in U!FilesOf(job) => At(job, k) \in DOMAIN fs.files
    /\ \A q \in DOMAIN fs.files :
         \/ /\ q \in DOMAIN job.fs.files /\ fs.files[q] = job.fs.files[q]
            /\ \A k \in 1..n : k \in U!FilesOf(job) => At(job, k) # q
         \/ \E k \in 1..n :
              /\ k \in U!FilesOf(job) /\ q = At(job, k) /\ fs.files[q] = U!DataOf(job, k)
              /\ \A l \in 1..n : l \in U!FilesOf(job) /\ l > k => At(job, l) # q

DirsSoFar(job, n) ==
    /\ fs.dirs \subseteq job.fs.dirs \cup {U!TO} \cup {At(job, k) : k \in U!DirsOf(job)}
    /\ job.ordered =>
         U!TO \in fs.dirs /\ \A k \in 1..n : k \in U!DirsOf(job) => At(job, k) \in fs.dirs

FsSoFar(job, n) ==
    fs = [dirs |-> fs.dirs, files |-> fs.files] /\ FilesSoFar(job, n) /\ DirsSoFar(job, n)

\* The first n octets are decrypted.
Decrypted(job, n) ==
    archive = [m \in 1..job.size |-> IF m <= n THEN U!Plain(job)[m] ELSE job.data[m]]

\* The inductive invariant of ungpkg.
UInv ==
    /\ mem = [job |-> mem.job, counter |-> mem.counter, size |-> mem.size]
    /\ mem.job \in Packages
    /\ pc \in {"open", "retail", "debug", "unpack", "done", "failed", "crashed"}
    /\ pc = "open" => fs = mem.job.fs
    /\ pc \in {"open", "retail"} => archive = mem.job.data /\ i = 0 /\ mem.counter = 0
    /\ pc \in {"open", "retail", "debug"} => mem.size = mem.job.size
    /\ pc \in {"retail", "debug", "unpack"} => cwd = U!TO
    /\ pc \in {"retail", "debug"} => FsSoFar(mem.job, 0)
    /\ pc = "debug" => /\ i \in 0..mem.job.size /\ Decrypted(mem.job, i)
                       /\ mem.counter = IF i = 0 THEN 0 ELSE (i - 1) \div BLOCK
    /\ pc = "unpack" => /\ archive = U!Plain(mem.job) /\ i \in 0..mem.job.n_files
                        /\ FsSoFar(mem.job, i)
    /\ pc = "done" => FsSoFar(mem.job, mem.job.n_files)
    /\ pc = "crashed" => ~mem.job.ordered \/ (mem.job.retail /\ mem.job.size >= W)
    /\ pc = "retail" => mem.job.retail

LEMMA InitUInv == U!Init => UInv
<1> SUFFICES ASSUME U!Init PROVE UInv
  OBVIOUS
<1>1. PICK job \in Packages :
        /\ fs = job.fs /\ archive = job.data /\ pc = "open" /\ i = 0
        /\ mem = [job |-> job, counter |-> 0, size |-> job.size]
  BY DEF U!Init
<1> QED BY <1>1 DEF UInv

\* Quotients by the size of a block.
LEMMA QuotientIs ==
    ASSUME NEW B \in Nat, B > 0, NEW q \in Int, NEW r \in 0..(B - 1)
    PROVE  (B * q + r) \div B = q
OBVIOUS

\* The counter that is raised at each new block is the number of the block.
LEMMA CounterIsBlock ==
    ASSUME NEW B \in Nat, B > 0, NEW n \in Nat, n > 0
    PROVE  n \div B = IF n % B = 0 THEN ((n - 1) \div B) + 1 ELSE (n - 1) \div B
<1>1. PICK q \in Int : n = B * q + (n % B)
  BY ModQuotient
<1>2. PICK r \in 0..(B - 1) : r = n % B
  BY ModRange
<1>3. n = B * q + r
  BY <1>1, <1>2
<1>4. n \div B = q
  BY <1>3, QuotientIs
<1>5. CASE r = 0
  <2>1. q - 1 \in Int /\ B - 1 \in 0..(B - 1)
    OBVIOUS
  <2>2. B * (q - 1) = B * q - B /\ B * q \in Int
    OBVIOUS
  <2>3. n - 1 = B * (q - 1) + (B - 1)
    BY <1>3, <1>5, <2>2
  <2>4. (n - 1) \div B = q - 1
    BY <2>1, <2>3, QuotientIs
  <2> QED BY <1>2, <1>4, <1>5, <2>4
<1>6. CASE r > 0
  <2>1. r - 1 \in 0..(B - 1) /\ B * q \in Int
    BY <1>6
  <2>2. n - 1 = B * q + (r - 1)
    BY <1>3, <2>1
  <2>3. (n - 1) \div B = q
    BY <2>1, <2>2, QuotientIs
  <2> QED BY <1>2, <1>4, <1>6, <2>3
<1> QED BY <1>5, <1>6

\* Opening a cell with the octet that it was encrypted with.
LEMMA XorOpens == \A c, b, p : U!Xor(<<"xor", c, b, p>>, b, p) = c
BY DEF U!Xor

\* What is known of a package.
LEMMA JobFacts ==
    ASSUME NEW job \in Packages
    PROVE  /\ U!IsJob(job) /\ BLOCK \in Nat /\ BLOCK > 0
           /\ job.size \in Nat /\ job.n_files \in 0..job.size /\ Len(job.data) = job.size
           /\ U!Plain(job) = [n \in 1..job.size |-> U!Plain(job)[n]]
           /\ \A n \in 1..job.size :
                /\ job.data[n] = <<"xor", U!Plain(job)[n], (n - 1) \div BLOCK, (n - 1) % BLOCK>>
                /\ U!Plain(job)[n][1] # "xor"
<1>1. U!IsJob(job) /\ BLOCK \in Nat /\ BLOCK > 0
  BY GpkgAssumption
<1>2. U!IsEncrypted(job)
  BY <1>1 DEF U!IsJob
<1>3. job.size \in Nat /\ job.n_files \in 0..job.size /\ Len(job.data) = job.size
  BY <1>2 DEF U!IsEncrypted
<1>4. PICK p : p = U!Plain(job)
  OBVIOUS
<1>5. p = [n \in 1..job.size |-> job.data[n][2]]
  BY <1>3, <1>4 DEF U!Plain
<1>6. p = [n \in 1..job.size |-> p[n]] /\ \A n \in 1..job.size : p[n] = job.data[n][2]
  BY <1>5
<1>7. ASSUME NEW n \in 1..job.size
      PROVE  /\ job.data[n] = <<"xor", p[n], (n - 1) \div BLOCK, (n - 1) % BLOCK>>
             /\ p[n][1] # "xor"
  <2>1. job.data[n] = <<"xor", job.data[n][2], (n - 1) \div BLOCK, (n - 1) % BLOCK>>
    BY <1>2 DEF U!IsEncrypted
  <2>2. job.data[n][2][1] # "xor"
    BY <1>2 DEF U!IsEncrypted
  <2> QED BY <1>6, <2>1, <2>2
<1> QED BY <1>1, <1>3, <1>4, <1>6, <1>7

\* What the invariant says of the files does not depend on the rest.
LEMMA SoFarStays ==
    ASSUME UNCHANGED fs, NEW job, NEW n, FsSoFar(job, n)
    PROVE  FsSoFar(job, n)'
BY DEF FsSoFar, FilesSoFar, DirsSoFar, At, U!TO, U!PathOf, U!FilesOf, U!DirsOf, U!DataOf, U!Plain

LEMMA OpenKeeps == ASSUME UInv, U!Open PROVE UInv'
<1>1. /\ pc = "open" /\ U!TO \notin DOMAIN fs.files
      /\ fs' = U!mkdir(fs, U!TO) /\ cwd' = U!TO /\ pc' \in {"retail", "debug"}
      /\ (pc' = "retail" => mem.job.retail)
      /\ UNCHANGED <<archive, i, mem>>
  BY DEF U!Open
<1>2. PICK job \in Packages : job = mem.job
  BY DEF UInv
<1>3. /\ fs = job.fs /\ archive = job.data /\ i = 0 /\ mem.counter = 0 /\ mem.size = job.size
  BY <1>1, <1>2 DEF UInv
<1>4. fs = [dirs |-> fs.dirs, files |-> fs.files] /\ (job.ordered => U!InOrder(job))
  BY <1>3, JobFacts DEF U!IsJob
<1>5. fs' = fs \/ fs' = [fs EXCEPT !.dirs = @ \cup {U!TO}]
  BY <1>1 DEF U!mkdir
<1>6. /\ fs' = [dirs |-> fs'.dirs, files |-> fs'.files] /\ fs'.files = fs.files
      /\ fs'.dirs \subseteq fs.dirs \cup {U!TO}
  BY <1>4, <1>5
<1>7. job.ordered => U!TO \in fs'.dirs
  <2>1. SUFFICES ASSUME job.ordered PROVE U!TO \in fs'.dirs
    OBVIOUS
  <2>2. <<>> \in fs.dirs
    BY <1>3, <1>4, <2>1 DEF U!InOrder
  <2>3. U!Front(U!TO) = <<>>
    BY DEF U!Front, U!TO
  <2>4. CASE U!TO \in fs.dirs
    BY <1>4, <1>5, <2>4
  <2>5. CASE U!TO \notin fs.dirs
    <3>1. U!CanMkdir(fs, U!TO)
      BY <1>1, <2>2, <2>3, <2>5 DEF U!CanMkdir, U!Exists
    <3>2. fs' = [fs EXCEPT !.dirs = @ \cup {U!TO}]
      BY <1>1, <3>1 DEF U!mkdir
    <3> QED BY <1>4, <3>2
  <2> QED BY <2>4, <2>5
<1>8. FilesSoFar(job, 0)'
  BY <1>3, <1>6 DEF FilesSoFar
<1>9. DirsSoFar(job, 0)'
  BY <1>3, <1>6, <1>7 DEF DirsSoFar, U!TO
<1>10. FsSoFar(job, 0)'
  BY <1>6, <1>8, <1>9 DEF FsSoFar
<1>11. Decrypted(job, 0)'
  <2>1. job.data = [m \in 1..job.size |-> job.data[m]]
    BY JobFacts DEF U!IsJob, U!IsEncrypted
  <2>2. archive' = [m \in 1..job.size |-> IF m <= 0 THEN U!Plain(job)[m] ELSE job.data[m]]
    BY <1>1, <1>3, <2>1
  <2> QED BY <2>2 DEF Decrypted, U!Plain
<1>12. job.size \in Nat /\ mem'.job = job
  BY <1>1, <1>2, JobFacts
<1> QED BY <1>1, <1>2, <1>3, <1>10, <1>11, <1>12 DEF UInv

LEMMA GpkgFailsKeeps == ASSUME UInv, U!OpenFails \/ U!RetailFails PROVE UInv'
BY DEF UInv, U!OpenFails, U!RetailFails

LEMMA RetailRunsOffKeeps == ASSUME UInv, U!RetailRunsOff PROVE UInv'
BY DEF UInv, U!RetailRunsOff

LEMMA DecryptRetailKeeps == ASSUME UInv, U!DecryptRetail PROVE UInv'
<1>1. /\ pc = "retail" /\ pc' = "unpack" /\ UNCHANGED <<fs, cwd, i, mem>>
      /\ archive' = [n \in 1..Len(archive) |->
                       IF n <= mem.size
                       THEN U!Xor(archive[n], (n - 1) \div BLOCK, (n - 1) % BLOCK)
                       ELSE archive[n]]
  BY DEF U!DecryptRetail
<1>2. PICK job \in Packages : job = mem.job
  BY DEF UInv
<1>3. /\ archive = job.data /\ i = 0 /\ mem.size = job.size /\ cwd = U!TO /\ FsSoFar(job, 0)
  BY <1>1, <1>2 DEF UInv
<1>4. job.size \in Nat /\ job.n_files \in 0..job.size /\ Len(job.data) = job.size
  BY JobFacts
<1>5. ASSUME NEW n \in 1..job.size
      PROVE  U!Xor(archive[n], (n - 1) \div BLOCK, (n - 1) % BLOCK) = U!Plain(job)[n]
  <2>1. archive[n] = <<"xor", U!Plain(job)[n], (n - 1) \div BLOCK, (n - 1) % BLOCK>>
    BY <1>3, JobFacts
  <2> QED BY <2>1, XorOpens
<1>6. archive' = U!Plain(job)
  <2>1. PICK p : p = U!Plain(job)
    OBVIOUS
  <2>2. archive' = [n \in 1..job.size |-> p[n]]
    BY <1>1, <1>3, <1>4, <1>5, <2>1
  <2>3. p = [n \in 1..job.size |-> p[n]]
    BY <2>1, JobFacts
  <2> QED BY <2>1, <2>2, <2>3
<1>7. FsSoFar(job, 0)' /\ U!Plain(job)' = U!Plain(job)
  BY <1>1, <1>3, SoFarStays DEF U!Plain
<1> QED BY <1>1, <1>2, <1>3, <1>4, <1>6, <1>7 DEF UInv, U!TO

LEMMA DecryptOctetKeeps == ASSUME UInv, U!DecryptOctet PROVE UInv'
<1>1. /\ pc = "debug" /\ i < mem.size /\ i' = i + 1 /\ UNCHANGED <<fs, cwd, pc>>
      /\ mem' = [mem EXCEPT !.counter = U!CounterNow]
      /\ archive' = [archive EXCEPT ![i + 1] = U!Xor(@, U!CounterNow, i % BLOCK)]
  BY DEF U!DecryptOctet
<1>2. PICK job \in Packages : job = mem.job
  BY DEF UInv
<1>3. /\ i \in 0..job.size /\ Decrypted(job, i) /\ mem.size = job.size /\ cwd = U!TO
      /\ mem.counter = IF i = 0 THEN 0 ELSE (i - 1) \div BLOCK
      /\ FsSoFar(job, 0)
  BY <1>1, <1>2 DEF UInv
<1>4. job.size \in Nat /\ BLOCK \in Nat /\ BLOCK > 0
  BY JobFacts
<1>5. PICK k \in Nat : k = i /\ k < job.size
  BY <1>1, <1>3, <1>4
<1>6. U!CounterNow = k \div BLOCK
  <2>1. CASE k = 0
    <3>1. 0 \div BLOCK = 0
      <4>1. BLOCK * 0 + 0 = 0 /\ 0 \in 0..(BLOCK - 1)
        BY <1>4
      <4> QED BY <1>4, <4>1, QuotientIs
    <3> QED BY <1>3, <1>5, <2>1, <3>1 DEF U!CounterNow
  <2>2. CASE k > 0
    <3>1. k \div BLOCK = IF k % BLOCK = 0 THEN ((k - 1) \div BLOCK) + 1 ELSE (k - 1) \div BLOCK
      BY <1>4, <2>2, CounterIsBlock
    <3> QED BY <1>3, <1>5, <2>2, <3>1 DEF U!CounterNow
  <2> QED BY <1>5, <2>1, <2>2
<1>7. PICK p, d : p = U!Plain(job) /\ d = job.data
  OBVIOUS
<1>8. archive = [m \in 1..job.size |-> IF m <= k THEN p[m] ELSE d[m]]
  BY <1>3, <1>5, <1>7 DEF Decrypted
<1>9. k + 1 \in 1..job.size /\ k + 1 - 1 = k
  BY <1>4, <1>5
<1>10. archive[k + 1] = d[k + 1]
  BY <1>8, <1>9
<1>11. d[k + 1] = <<"xor", p[k + 1], k \div BLOCK, k % BLOCK>>
  <2>1. PICK n \in 1..job.size : n = k + 1
    BY <1>9
  <2>2. job.data[n] = <<"xor", U!Plain(job)[n], (n - 1) \div BLOCK, (n - 1) % BLOCK>>
    BY JobFacts
  <2>3. n - 1 = k
    BY <1>9, <2>1
  <2> QED BY <1>7, <2>1, <2>2, <2>3
<1>12. U!Xor(archive[k + 1], k \div BLOCK, k % BLOCK) = p[k + 1]
  BY <1>10, <1>11, XorOpens
<1>13. archive' = [m \in 1..job.size |-> IF m <= k + 1 THEN p[m] ELSE d[m]]
  <2>1. PICK x : x = p[k + 1]
    OBVIOUS
  <2>2. archive' = [archive EXCEPT ![k + 1] = x]
    BY <1>1, <1>5, <1>6, <1>12, <2>1
  <2>3. ASSUME NEW m \in 1..job.size
        PROVE  (IF m = k + 1 THEN x ELSE archive[m]) = (IF m <= k + 1 THEN p[m] ELSE d[m])
    BY <1>5, <1>8, <2>1
  <2>4. archive' = [m \in 1..job.size |-> IF m = k + 1 THEN x ELSE archive[m]]
    BY <1>8, <2>2
  <2> QED BY <2>3, <2>4
<1>14. Decrypted(job, k + 1)'
  BY <1>7, <1>13 DEF Decrypted, U!Plain
<1>15. /\ mem' = [job |-> mem'.job, counter |-> mem'.counter, size |-> mem'.size]
       /\ mem'.job = job /\ mem'.size = mem.size /\ mem'.counter = k \div BLOCK
  BY <1>1, <1>2, <1>6 DEF UInv
<1>16. FsSoFar(job, 0)'
  BY <1>1, <1>3, SoFarStays
<1>17. i' = k + 1 /\ i' \in 0..job.size /\ mem'.counter = IF i' = 0 THEN 0 ELSE (i' - 1) \div BLOCK
  BY <1>1, <1>4, <1>5, <1>9, <1>15
<1> QED BY <1>1, <1>3, <1>14, <1>15, <1>16, <1>17 DEF UInv, U!TO

LEMMA DecryptEndKeeps == ASSUME UInv, U!DecryptEnd PROVE UInv'
<1>1. pc = "debug" /\ i >= mem.size /\ pc' = "unpack" /\ i' = 0 /\ UNCHANGED <<fs, cwd, archive, mem>>
  BY DEF U!DecryptEnd
<1>2. PICK job \in Packages : job = mem.job
  BY DEF UInv
<1>3. /\ i \in 0..job.size /\ Decrypted(job, i) /\ mem.size = job.size /\ cwd = U!TO
      /\ FsSoFar(job, 0)
  BY <1>1, <1>2 DEF UInv
<1>4. job.size \in Nat /\ job.n_files \in 0..job.size
  BY JobFacts
<1>5. PICK p : p = U!Plain(job)
  OBVIOUS
<1>6. archive = [m \in 1..job.size |-> p[m]]
  <2>1. i = job.size
    BY <1>1, <1>3, <1>4
  <2>2. archive = [m \in 1..job.size |-> IF m <= job.size THEN p[m] ELSE job.data[m]]
    BY <1>3, <1>5, <2>1 DEF Decrypted
  <2> QED BY <1>4, <2>2
<1>7. p = [m \in 1..job.size |-> p[m]]
  BY <1>5, JobFacts
<1>8. archive' = U!Plain(job)'
  BY <1>1, <1>5, <1>6, <1>7 DEF U!Plain
<1>9. FsSoFar(job, 0)'
  BY <1>1, <1>3, SoFarStays
<1> QED BY <1>1, <1>2, <1>3, <1>4, <1>8, <1>9 DEF UInv, U!TO

\* The path of a name, or of names, in the target.
LEMMA TargetPaths ==
    ASSUME NEW S, NEW p \in Seq(S), p # <<>>
    PROVE  /\ U!TO \o p # U!TO /\ Tail(U!TO \o p) = p
           /\ U!Front(U!TO \o p) = IF Len(p) = 1 THEN U!TO ELSE U!TO \o U!Front(p)
           /\ U!IsPrefix(U!TO, U!TO \o p)
<1>1. PICK T : T = S \cup {"to"}
  OBVIOUS
<1>2. PICK q \in Seq(T) : q = p
  BY <1>1
<1>3. PICK r : r = <<"to">> \o q
  OBVIOUS
<1>4. Len(q) \in Nat /\ Len(q) > 0
  BY <1>2
<1>5. r \in Seq(T) /\ Len(r) = 1 + Len(q) /\ r[1] = "to" /\ \A k \in 1..Len(q) : r[1 + k] = q[k]
  <2>1. r \in Seq(T)
    BY <1>1, <1>3
  <2>2. Len(r) = 1 + Len(q)
    BY <1>3
  <2>3. r[1] = "to"
    BY <1>3
  <2>4. \A k \in 1..Len(q) : r[1 + k] = q[k]
    BY <1>3
  <2> QED BY <2>1, <2>2, <2>3, <2>4
<1>6. r # <<"to">>
  BY <1>4, <1>5
<1>7. Tail(r) = q
  BY <1>4, <1>5
<1>8. U!Front(r) = IF Len(q) = 1 THEN <<"to">> ELSE <<"to">> \o U!Front(q)
  <2>1. U!Front(r) = SubSeq(r, 1, Len(q)) /\ U!Front(q) = SubSeq(q, 1, Len(q) - 1)
    BY <1>4, <1>5 DEF U!Front
  <2>2. U!Front(r) = <<"to">> \o U!Front(q)
    <3>1. PICK n \in Nat : n = Len(q) /\ n >= 1
      BY <1>4
    <3>2. PICK u, s, v : u = SubSeq(r, 1, n) /\ s = SubSeq(q, 1, n - 1) /\ v = <<"to">> \o s
      BY <3>1
    <3>3. u \in Seq(T) /\ Len(u) = n /\ \A k \in 1..n : u[k] = r[k]
      <4>1. u \in Seq(T)
        BY <1>5, <3>1, <3>2
      <4>2. Len(u) = n
        BY <1>5, <3>1, <3>2
      <4>3. \A k \in 1..n : u[k] = r[k]
        BY <1>5, <3>1, <3>2
      <4> QED BY <4>1, <4>2, <4>3
    <3>4. s \in Seq(T) /\ Len(s) = n - 1 /\ \A k \in 1..(n - 1) : s[k] = q[k]
      <4>0. s \in Seq(T)
        BY <3>1, <3>2
      <4>1. Len(s) = n - 1
        BY <3>1, <3>2
      <4>2. \A k \in 1..(n - 1) : s[k] = q[k]
        BY <3>1, <3>2
      <4> QED BY <4>0, <4>1, <4>2
    <3>5. v \in Seq(T) /\ Len(v) = n /\ v[1] = "to" /\ \A k \in 1..(n - 1) : v[1 + k] = s[k]
      <4>1. v \in Seq(T)
        BY <1>1, <3>2, <3>4
      <4>2. Len(v) = n
        BY <3>1, <3>2, <3>4
      <4>3. v[1] = "to"
        BY <3>2
      <4>4. \A k \in 1..(n - 1) : v[1 + k] = s[k]
        BY <3>1, <3>2, <3>4
      <4> QED BY <4>1, <4>2, <4>3, <4>4
    <3>6. ASSUME NEW k \in 1..n
          PROVE  u[k] = v[k]
      <4>1. CASE k = 1
        BY <1>5, <3>3, <3>5, <4>1
      <4>2. CASE k > 1
        <5>1. PICK j \in 1..(n - 1) : k = 1 + j
          BY <3>1, <4>2
        <5>2. u[k] = r[1 + j] /\ r[1 + j] = q[j]
          BY <1>5, <3>1, <3>3, <5>1
        <5>3. v[k] = s[j] /\ s[j] = q[j]
          BY <3>4, <3>5, <5>1
        <5> QED BY <5>2, <5>3
      <4> QED BY <4>1, <4>2
    <3>7. u = [k \in 1..n |-> u[k]] /\ v = [k \in 1..n |-> v[k]]
      BY <3>3, <3>5
    <3>8. u = v
      BY <3>6, <3>7
    <3> QED BY <2>1, <3>1, <3>2, <3>8
  <2>3. CASE Len(q) = 1
    <3>1. U!Front(q) = <<>>
      BY <2>1, <2>3
    <3>2. <<"to">> \o <<>> = <<"to">>
      OBVIOUS
    <3> QED BY <2>2, <2>3, <3>1, <3>2
  <2> QED BY <2>2, <2>3
<1>9. U!IsPrefix(<<"to">>, r)
  BY <1>4, <1>5 DEF U!IsPrefix
<1> QED BY <1>2, <1>3, <1>6, <1>7, <1>8, <1>9 DEF U!TO

\* Where the entries of a package go.
LEMMA EntryPaths ==
    ASSUME NEW job \in Packages, NEW k \in 1..job.n_files
    PROVE  /\ At(job, k) # U!TO /\ Tail(At(job, k)) = U!PathOf(job, k)
           /\ U!IsPrefix(U!TO, At(job, k))
           /\ Len(U!PathOf(job, k)) \in Nat /\ Len(U!PathOf(job, k)) > 0
           /\ U!Front(At(job, k)) = IF Len(U!PathOf(job, k)) = 1 THEN U!TO
                                    ELSE U!TO \o U!Front(U!PathOf(job, k))
<1>1. PICK p : p = U!PathOf(job, k)
  OBVIOUS
<1>2. p \in Seq(U!ToSet(p)) /\ p # <<>>
  <2>1. U!HoldsTree(job)
    BY JobFacts DEF U!IsJob
  <2> QED BY <1>1, <2>1 DEF U!HoldsTree
<1>3. PICK S : S = U!ToSet(p)
  OBVIOUS
<1>4. p \in Seq(S)
  BY <1>2, <1>3
<1>5. /\ U!TO \o p # U!TO /\ Tail(U!TO \o p) = p
      /\ U!Front(U!TO \o p) = IF Len(p) = 1 THEN U!TO ELSE U!TO \o U!Front(p)
      /\ U!IsPrefix(U!TO, U!TO \o p)
  BY <1>2, <1>4, TargetPaths
<1>6. Len(p) \in Nat /\ Len(p) > 0
  BY <1>2, <1>4
<1> QED BY <1>1, <1>5, <1>6 DEF At

\* Two entries go to one place only if they have one path.
LEMMA SamePlace ==
    ASSUME NEW job \in Packages, NEW k \in 1..job.n_files, NEW l \in 1..job.n_files,
           At(job, k) = At(job, l)
    PROVE  U!PathOf(job, k) = U!PathOf(job, l)
<1>1. Tail(At(job, k)) = U!PathOf(job, k) /\ Tail(At(job, l)) = U!PathOf(job, l)
  BY EntryPaths
<1> QED BY <1>1

\* What unpack_pkg() reads of the entry whose turn it is.
LEMMA EntryFacts ==
    ASSUME UInv, U!Unpacking
    PROVE  /\ pc = "unpack" /\ i \in Nat /\ i + 1 \in 1..mem.job.n_files /\ mem.job.n_files \in Nat
           /\ FsSoFar(mem.job, i) /\ archive = U!Plain(mem.job)
           /\ U!path = At(mem.job, i + 1)
           /\ U!flags = 4 <=> i + 1 \in U!DirsOf(mem.job)
           /\ SubSeq(archive, U!tmp[4] + 1, U!tmp[4] + U!tmp[5]) = U!DataOf(mem.job, i + 1)
<1>1. PICK job \in Packages : job = mem.job
  BY DEF UInv
<1>2. /\ pc = "unpack" /\ i < job.n_files /\ archive = U!Plain(job) /\ i \in 0..job.n_files
      /\ FsSoFar(job, i) /\ cwd = U!TO
  BY <1>1 DEF UInv, U!Unpacking
<1>3. job.n_files \in Nat
  BY JobFacts
<1>4. i \in Nat /\ i + 1 \in 1..job.n_files
  BY <1>2, <1>3
<1>5. U!path = At(job, i + 1)
  BY <1>2 DEF U!path, U!tmp, At, U!PathOf
<1>6. U!flags = 4 <=> i + 1 \in U!DirsOf(job)
  BY <1>2, <1>4 DEF U!flags, U!tmp, U!DirsOf
<1>7. SubSeq(archive, U!tmp[4] + 1, U!tmp[4] + U!tmp[5]) = U!DataOf(job, i + 1)
  BY <1>2 DEF U!tmp, U!DataOf
<1> QED BY <1>1, <1>2, <1>3, <1>4, <1>5, <1>6, <1>7

\* In a package in order, the directory of an entry is there.
LEMMA ParentIsThere ==
    ASSUME NEW job \in Packages, job.ordered, NEW n \in Nat, n + 1 \in 1..job.n_files, DirsSoFar(job, n)
    PROVE  U!Front(At(job, n + 1)) \in fs.dirs
<1>1. PICK k \in 1..job.n_files : k = n + 1
  OBVIOUS
<1>2. U!InOrder(job) /\ job.n_files \in Nat
  <2>1. U!IsJob(job) /\ job.size \in Nat /\ job.n_files \in 0..job.size
    BY JobFacts
  <2>2. U!InOrder(job)
    BY <2>1 DEF U!IsJob
  <2>3. job.n_files \in Nat
    BY <2>1
  <2> QED BY <2>2, <2>3
<1>3. CASE Len(U!PathOf(job, k)) = 1
  BY <1>1, <1>3, EntryPaths DEF DirsSoFar
<1>4. CASE Len(U!PathOf(job, k)) # 1
  <2>1. Len(U!PathOf(job, k)) > 1
    <3>1. PICK m \in Nat : m = Len(U!PathOf(job, k)) /\ m > 0
      BY EntryPaths
    <3> QED BY <1>4, <3>1
  <2>2. PICK j \in U!DirsOf(job) : j < k /\ U!PathOf(job, j) = U!Front(U!PathOf(job, k))
    BY <1>2, <2>1 DEF U!InOrder
  <2>3. j \in 1..n
    BY <1>1, <1>2, <2>2 DEF U!DirsOf
  <2>4. At(job, j) \in fs.dirs
    BY <2>2, <2>3 DEF DirsSoFar
  <2>5. U!Front(At(job, k)) = At(job, j)
    BY <1>4, <2>2, EntryPaths DEF At
  <2> QED BY <1>1, <2>4, <2>5
<1> QED BY <1>3, <1>4

LEMMA RefusedKeeps == ASSUME UInv, U!Refused PROVE UInv'
<1>1. pc' = "failed" /\ mem' = [mem EXCEPT !.size = U!tmp[5]]
  BY DEF U!Refused, U!NextEntry
<1> QED BY <1>1 DEF UInv

LEMMA FinishKeeps == ASSUME UInv, U!Finish PROVE UInv'
<1>1. pc = "unpack" /\ i >= mem.job.n_files /\ pc' = "done" /\ UNCHANGED <<fs, cwd, archive, i, mem>>
  BY DEF U!Finish
<1>2. PICK job \in Packages : job = mem.job
  BY DEF UInv
<1>3. i \in 0..job.n_files /\ FsSoFar(job, i) /\ job.n_files \in Nat
  BY <1>1, <1>2, JobFacts DEF UInv
<1>4. PICK n \in Nat : n = job.n_files
  BY <1>3
<1>5. FsSoFar(job, n)
  BY <1>1, <1>2, <1>3, <1>4
<1>6. FsSoFar(job, n)'
  BY <1>1, <1>5, SoFarStays
<1> QED BY <1>1, <1>2, <1>4, <1>6 DEF UInv

\* What is known of the files depends on them alone.
LEMMA FilesStay ==
    ASSUME fs'.files = fs.files, NEW job, NEW n, FilesSoFar(job, n)
    PROVE  FilesSoFar(job, n)'
<1>1. U!FilesOf(job)' = U!FilesOf(job)
  BY DEF U!FilesOf, U!DirsOf, U!Plain
<1>2. \A k : At(job, k)' = At(job, k)
  BY DEF At, U!TO, U!PathOf, U!Plain
<1>3. \A k : U!DataOf(job, k)' = U!DataOf(job, k)
  BY DEF U!DataOf, U!Plain
<1> QED BY <1>1, <1>2, <1>3 DEF FilesSoFar

LEMMA MakeDirKeeps == ASSUME UInv, U!MakeDir PROVE UInv'
<1>1. /\ U!Unpacking /\ U!flags = 4 /\ fs' = U!mkdir(fs, U!path) /\ i' = i + 1
      /\ mem' = [mem EXCEPT !.size = U!tmp[5]] /\ UNCHANGED <<cwd, archive, pc>>
  BY DEF U!MakeDir, U!NextEntry
<1>2. PICK job \in Packages : job = mem.job
  BY DEF UInv
<1>3. PICK n \in Nat : n = i
  BY <1>1, EntryFacts
<1>4. PICK k \in 1..job.n_files : k = n + 1
  BY <1>1, <1>2, <1>3, EntryFacts
<1>5. /\ pc = "unpack" /\ FsSoFar(job, n) /\ archive = U!Plain(job) /\ U!path = At(job, k)
      /\ k \in U!DirsOf(job) /\ job.n_files \in Nat
  BY <1>1, <1>2, <1>3, <1>4, EntryFacts
<1>6. PICK q : q = At(job, k)
  OBVIOUS
<1>7. fs = [dirs |-> fs.dirs, files |-> fs.files] /\ FilesSoFar(job, n) /\ DirsSoFar(job, n)
  BY <1>5 DEF FsSoFar
<1>8. fs' = fs \/ fs' = [fs EXCEPT !.dirs = @ \cup {q}]
  BY <1>1, <1>5, <1>6 DEF U!mkdir
<1>9. /\ fs' = [dirs |-> fs'.dirs, files |-> fs'.files] /\ fs'.files = fs.files
      /\ fs'.dirs \subseteq fs.dirs \cup {q} /\ fs.dirs \subseteq fs'.dirs
  BY <1>7, <1>8
<1>10. \A l \in 1..k : l \in 1..n \/ l = k
  BY <1>4
<1>11. 1..n \subseteq 1..k /\ k \notin U!FilesOf(job)
  BY <1>4, <1>5 DEF U!FilesOf
<1>12. job.ordered => q \in fs'.dirs
  <2>1. SUFFICES ASSUME job.ordered, q \notin fs.dirs PROVE q \in fs'.dirs
    BY <1>9
  <2>2. U!Front(q) \in fs.dirs
    BY <1>4, <1>6, <1>7, <2>1, ParentIsThere
  <2>3. U!InOrder(job)
    BY <2>1, JobFacts DEF U!IsJob
  <2>4. q \notin DOMAIN fs.files
    <3>1. SUFFICES ASSUME q \in DOMAIN fs.files PROVE FALSE
      OBVIOUS
    <3>2. q \notin DOMAIN job.fs.files
      BY <1>5, <1>6, <2>3 DEF U!InOrder, At
    <3>3. PICK l \in 1..n : l \in U!FilesOf(job) /\ q = At(job, l)
      BY <1>7, <3>1, <3>2 DEF FilesSoFar
    <3>4. U!PathOf(job, k) = U!PathOf(job, l)
      <4>1. l \in 1..job.n_files
        BY <3>3 DEF U!FilesOf
      <4> QED BY <1>6, <3>3, <4>1, SamePlace
    <3> QED BY <1>5, <2>3, <3>3, <3>4 DEF U!InOrder
  <2>5. U!CanMkdir(fs, q)
    BY <2>1, <2>2, <2>4 DEF U!CanMkdir, U!Exists
  <2>6. fs' = [fs EXCEPT !.dirs = @ \cup {q}]
    BY <1>1, <1>5, <1>6, <2>5 DEF U!mkdir
  <2> QED BY <1>7, <2>6
<1>13. FilesSoFar(job, k)'
  <2>1. FilesSoFar(job, k)
    <3>1. \A l \in 1..k : l \in U!FilesOf(job) => l \in 1..n
      BY <1>10, <1>11
    <3> QED BY <1>7, <1>11, <3>1 DEF FilesSoFar
  <2> QED BY <1>9, <2>1, FilesStay
<1>14. DirsSoFar(job, k)'
  <2>1. fs'.dirs \subseteq job.fs.dirs \cup {U!TO} \cup {At(job, l) : l \in U!DirsOf(job)}
    BY <1>5, <1>6, <1>7, <1>9 DEF DirsSoFar
  <2>2. job.ordered => /\ U!TO \in fs'.dirs
                       /\ \A l \in 1..k : l \in U!DirsOf(job) => At(job, l) \in fs'.dirs
    BY <1>6, <1>7, <1>9, <1>10, <1>12 DEF DirsSoFar
  <2> QED BY <2>1, <2>2 DEF DirsSoFar, At, U!TO, U!PathOf, U!DirsOf, U!Plain
<1>15. FsSoFar(job, k)'
  BY <1>9, <1>13, <1>14 DEF FsSoFar
<1>16. i' = k /\ mem'.job = job /\ mem' = [job |-> mem'.job, counter |-> mem'.counter, size |-> mem'.size]
  BY <1>1, <1>2, <1>3, <1>4 DEF UInv
<1>17. archive' = U!Plain(job)' /\ cwd' = U!TO' /\ k \in 0..job.n_files
  BY <1>1, <1>5 DEF UInv, U!Plain, U!TO
<1> QED BY <1>1, <1>5, <1>15, <1>16, <1>17 DEF UInv

\* What a file written adds to the files.
LEMMA FileSoFar ==
    ASSUME NEW job, NEW n \in Nat, NEW k, k = n + 1, k \in U!FilesOf(job),
           fs = [dirs |-> fs.dirs, files |-> fs.files],
           FilesSoFar(job, n),
           fs' = U!memcpy_to_file(fs, At(job, k), U!DataOf(job, k))
    PROVE  /\ fs' = [dirs |-> fs'.dirs, files |-> fs'.files] /\ fs'.dirs = fs.dirs
           /\ FilesSoFar(job, k)'
<1>1. PICK p, d : p = At(job, k) /\ d = U!DataOf(job, k)
  OBVIOUS
<1>2. PICK g : g = fs'.files
  OBVIOUS
<1>3. PICK f : f = fs.files
  OBVIOUS
<1>4. fs' = [fs EXCEPT !.files = [q \in DOMAIN f \cup {p} |-> IF q = p THEN d ELSE f[q]]]
  BY <1>1, <1>3 DEF U!memcpy_to_file
<1>5. /\ fs' = [dirs |-> fs'.dirs, files |-> fs'.files] /\ fs'.dirs = fs.dirs
      /\ g = [q \in DOMAIN f \cup {p} |-> IF q = p THEN d ELSE f[q]]
  BY <1>2, <1>4
<1>6. /\ DOMAIN g = DOMAIN f \cup {p} /\ g[p] = d
      /\ \A q \in DOMAIN f : q # p => g[q] = f[q]
  BY <1>5
<1>7. /\ DOMAIN job.fs.files \subseteq DOMAIN f
      /\ \A l \in 1..n : l \in U!FilesOf(job) => At(job, l) \in DOMAIN f
      /\ \A q \in DOMAIN f :
           \/ /\ q \in DOMAIN job.fs.files /\ f[q] = job.fs.files[q]
              /\ \A l \in 1..n : l \in U!FilesOf(job) => At(job, l) # q
           \/ \E l \in 1..n :
                /\ l \in U!FilesOf(job) /\ q = At(job, l) /\ f[q] = U!DataOf(job, l)
                /\ \A m \in 1..n : m \in U!FilesOf(job) /\ m > l => At(job, m) # q
  BY <1>3 DEF FilesSoFar
<1>8. \A l \in 1..k : l \in 1..n \/ l = k
  OBVIOUS
<1>9. 1..n \subseteq 1..k /\ k \in 1..k /\ \A m \in 1..k : ~(m > k)
  OBVIOUS
<1>10. \A l \in 1..k : l \in U!FilesOf(job) => At(job, l) \in DOMAIN g
  BY <1>1, <1>6, <1>7, <1>8
<1>11. ASSUME NEW q \in DOMAIN g
       PROVE  \/ /\ q \in DOMAIN job.fs.files /\ g[q] = job.fs.files[q]
                 /\ \A l \in 1..k : l \in U!FilesOf(job) => At(job, l) # q
              \/ \E l \in 1..k :
                   /\ l \in U!FilesOf(job) /\ q = At(job, l) /\ g[q] = U!DataOf(job, l)
                   /\ \A m \in 1..k : m \in U!FilesOf(job) /\ m > l => At(job, m) # q
  <2>1. CASE q = p
    BY <1>1, <1>6, <1>9, <2>1
  <2>2. CASE q # p
    <3>1. q \in DOMAIN f /\ g[q] = f[q] /\ At(job, k) # q
      BY <1>1, <1>6, <2>2
    <3>2. CASE /\ q \in DOMAIN job.fs.files /\ f[q] = job.fs.files[q]
               /\ \A l \in 1..n : l \in U!FilesOf(job) => At(job, l) # q
      <4>1. \A l \in 1..k : l \in U!FilesOf(job) => At(job, l) # q
        BY <1>8, <3>1, <3>2
      <4> QED BY <3>1, <3>2, <4>1
    <3>3. CASE \E l \in 1..n :
                 /\ l \in U!FilesOf(job) /\ q = At(job, l) /\ f[q] = U!DataOf(job, l)
                 /\ \A m \in 1..n : m \in U!FilesOf(job) /\ m > l => At(job, m) # q
      <4>1. PICK l \in 1..n :
              /\ l \in U!FilesOf(job) /\ q = At(job, l) /\ f[q] = U!DataOf(job, l)
              /\ \A m \in 1..n : m \in U!FilesOf(job) /\ m > l => At(job, m) # q
        BY <3>3
      <4>2. \A m \in 1..k : m \in U!FilesOf(job) /\ m > l => At(job, m) # q
        BY <1>8, <3>1, <4>1
      <4>3. l \in 1..k
        BY <1>9
      <4> QED BY <3>1, <4>1, <4>2, <4>3
    <3> QED BY <1>7, <3>1, <3>2, <3>3
  <2> QED BY <2>1, <2>2
<1>12. DOMAIN job.fs.files \subseteq DOMAIN g
  BY <1>6, <1>7
<1>13. U!FilesOf(job)' = U!FilesOf(job)
  BY DEF U!FilesOf, U!DirsOf, U!Plain
<1>14. \A l : At(job, l)' = At(job, l)
  BY DEF At, U!TO, U!PathOf, U!Plain
<1>15. \A l : U!DataOf(job, l)' = U!DataOf(job, l)
  BY DEF U!DataOf, U!Plain
<1>16. FilesSoFar(job, k)'
  BY <1>2, <1>10, <1>11, <1>12, <1>13, <1>14, <1>15 DEF FilesSoFar
<1> QED BY <1>5, <1>16

LEMMA WriteEntryKeeps == ASSUME UInv, U!WriteFile PROVE UInv'
<1>1. /\ U!Unpacking /\ U!flags # 4
      /\ mem' = [mem EXCEPT !.size = U!tmp[5]] /\ UNCHANGED <<cwd, archive>>
      /\ \/ /\ U!CanWrite(fs, U!path) /\ i' = i + 1 /\ pc' = pc
            /\ fs' = U!memcpy_to_file(fs, U!path, SubSeq(archive, U!tmp[4] + 1, U!tmp[4] + U!tmp[5]))
         \/ ~U!CanWrite(fs, U!path) /\ pc' = "crashed"
  BY DEF U!WriteFile, U!NextEntry
<1>2. PICK job \in Packages : job = mem.job
  BY DEF UInv
<1>3. PICK n \in Nat : n = i
  BY <1>1, EntryFacts
<1>4. PICK k \in 1..job.n_files : k = n + 1
  BY <1>1, <1>2, <1>3, EntryFacts
<1>5. /\ pc = "unpack" /\ FsSoFar(job, n) /\ archive = U!Plain(job) /\ U!path = At(job, k)
      /\ k \notin U!DirsOf(job) /\ job.n_files \in Nat
      /\ SubSeq(archive, U!tmp[4] + 1, U!tmp[4] + U!tmp[5]) = U!DataOf(job, k)
  BY <1>1, <1>2, <1>3, <1>4, EntryFacts
<1>6. fs = [dirs |-> fs.dirs, files |-> fs.files] /\ FilesSoFar(job, n) /\ DirsSoFar(job, n)
  BY <1>5 DEF FsSoFar
<1>7. k \in U!FilesOf(job)
  BY <1>5 DEF U!FilesOf
<1>8. mem'.job = job /\ mem' = [job |-> mem'.job, counter |-> mem'.counter, size |-> mem'.size]
  BY <1>1, <1>2 DEF UInv
<1>9. CASE U!CanWrite(fs, U!path)
  <2>1. /\ fs' = U!memcpy_to_file(fs, At(job, k), U!DataOf(job, k))
        /\ i' = k /\ pc' = "unpack"
    BY <1>1, <1>3, <1>4, <1>5, <1>9
  <2>2. /\ fs' = [dirs |-> fs'.dirs, files |-> fs'.files] /\ fs'.dirs = fs.dirs
        /\ FilesSoFar(job, k)'
    BY <1>4, <1>6, <1>7, <2>1, FileSoFar
  <2>3. DirsSoFar(job, k)'
    <3>1. \A l \in 1..k : l \in U!DirsOf(job) => l \in 1..n
      <4>1. \A l \in 1..k : l \in 1..n \/ l = k
        BY <1>4
      <4> QED BY <1>5, <4>1
    <3>2. fs'.dirs \subseteq job.fs.dirs \cup {U!TO} \cup {At(job, l) : l \in U!DirsOf(job)}
      BY <1>6, <2>2 DEF DirsSoFar
    <3>3. job.ordered => /\ U!TO \in fs'.dirs
                         /\ \A l \in 1..k : l \in U!DirsOf(job) => At(job, l) \in fs'.dirs
      BY <1>6, <2>2, <3>1 DEF DirsSoFar
    <3> QED BY <3>2, <3>3 DEF DirsSoFar, At, U!TO, U!PathOf, U!DirsOf, U!Plain
  <2>4. FsSoFar(job, k)'
    BY <2>2, <2>3 DEF FsSoFar
  <2>5. archive' = U!Plain(job)' /\ cwd' = U!TO' /\ k \in 0..job.n_files
    BY <1>1, <1>5 DEF UInv, U!Plain, U!TO
  <2> QED BY <1>8, <2>1, <2>4, <2>5 DEF UInv
<1>10. CASE ~U!CanWrite(fs, U!path)
  <2>1. pc' = "crashed"
    BY <1>1, <1>10
  <2>2. ~job.ordered
    <3>1. SUFFICES ASSUME job.ordered PROVE FALSE
      OBVIOUS
    <3>2. U!InOrder(job)
      BY <3>1, JobFacts DEF U!IsJob
    <3>3. U!Front(At(job, k)) \in fs.dirs
      BY <1>4, <1>6, <3>1, ParentIsThere
    <3>4. At(job, k) \in fs.dirs
      BY <1>5, <1>10, <3>3 DEF U!CanWrite
    <3>5. At(job, k) \notin job.fs.dirs
      BY <1>7, <3>2 DEF U!InOrder, At
    <3>6. At(job, k) # U!TO
      BY EntryPaths
    <3>7. PICK l \in U!DirsOf(job) : At(job, k) = At(job, l)
      BY <1>6, <3>4, <3>5, <3>6 DEF DirsSoFar
    <3>8. U!PathOf(job, k) = U!PathOf(job, l)
      <4>1. l \in 1..job.n_files
        BY <3>7 DEF U!DirsOf
      <4> QED BY <3>7, <4>1, SamePlace
    <3> QED BY <1>7, <3>2, <3>7, <3>8 DEF U!InOrder
  <2> QED BY <1>8, <2>1, <2>2 DEF UInv
<1> QED BY <1>9, <1>10

LEMMA NextKeepsUInv == ASSUME UInv, U!Next PROVE UInv'
BY OpenKeeps, GpkgFailsKeeps, DecryptRetailKeeps, RetailRunsOffKeeps, DecryptOctetKeeps, DecryptEndKeeps, RefusedKeeps,
   MakeDirKeeps, WriteEntryKeeps, FinishKeeps DEF U!Next

LEMMA StutterKeepsUInv == ASSUME UInv, UNCHANGED U!vars PROVE UInv'
<1>1. UNCHANGED <<fs, cwd, archive, pc, i, mem>>
  BY DEF U!vars
<1>2. \A job, n : FsSoFar(job, n) => FsSoFar(job, n)'
  BY <1>1, SoFarStays
<1>3. \A job, n : Decrypted(job, n) => Decrypted(job, n)'
  BY <1>1 DEF Decrypted, U!Plain
<1>4. \A job : U!Plain(job)' = U!Plain(job)
  BY DEF U!Plain
<1> QED BY <1>1, <1>2, <1>3, <1>4 DEF UInv, U!TO

\* What is below the target when all entries are unpacked.
LEMMA TargetFiles ==
    ASSUME UInv, pc = "done"
    PROVE  LET tree == mem.job.tree
               new  == {U!TO \o f : f \in DOMAIN tree.files}
               old  == U!Below(mem.job.fs, U!TO)
           IN  U!Below(fs, U!TO) = [p \in new \cup DOMAIN old |->
                                      IF p \in new THEN tree.files[Tail(p)] ELSE old[p]]
<1> DEFINE tree == mem.job.tree
           new  == {U!TO \o f : f \in DOMAIN tree.files}
           old  == U!Below(mem.job.fs, U!TO)
<1>1. PICK job \in Packages : job = mem.job
  BY DEF UInv
<1>2. FsSoFar(job, job.n_files)
  BY <1>1 DEF UInv
<1>3. tree = job.tree
  BY <1>1
<1>4. PICK n \in Nat : n = job.n_files
  <2>1. job.size \in Nat /\ job.n_files \in 0..job.size
    BY JobFacts
  <2> QED BY <2>1
<1>5. PICK f, o : f = fs.files /\ o = job.fs.files
  OBVIOUS
<1>6. /\ DOMAIN o \subseteq DOMAIN f
      /\ \A k \in 1..n : k \in U!FilesOf(job) => At(job, k) \in DOMAIN f
      /\ \A q \in DOMAIN f :
           \/ /\ q \in DOMAIN o /\ f[q] = o[q]
              /\ \A k \in 1..n : k \in U!FilesOf(job) => At(job, k) # q
           \/ \E k \in 1..n :
                /\ k \in U!FilesOf(job) /\ q = At(job, k) /\ f[q] = U!DataOf(job, k)
                /\ \A l \in 1..n : l \in U!FilesOf(job) /\ l > k => At(job, l) # q
  BY <1>2, <1>4, <1>5 DEF FsSoFar, FilesSoFar
<1>7. U!FilesOf(job) \subseteq 1..n
  BY <1>4 DEF U!FilesOf
<1>8. U!HoldsTree(job)
  BY JobFacts DEF U!IsJob
<1>9. DOMAIN tree.files = {U!PathOf(job, k) : k \in U!FilesOf(job)}
  BY <1>3, <1>8 DEF U!HoldsTree
<1>10. ASSUME NEW k \in U!FilesOf(job),
             \A l \in U!FilesOf(job) : l > k => U!PathOf(job, l) # U!PathOf(job, k)
      PROVE  tree.files[U!PathOf(job, k)] = U!DataOf(job, k)
  BY <1>3, <1>8, <1>10 DEF U!HoldsTree
<1>11. \A q : q \in new <=> \E k \in U!FilesOf(job) : q = At(job, k)
  BY <1>9 DEF At
<1>12. \A k \in U!FilesOf(job) :
        Tail(At(job, k)) = U!PathOf(job, k) /\ U!IsPrefix(U!TO, At(job, k))
  BY <1>4, <1>7, EntryPaths
<1>13. old = [q \in {q \in DOMAIN o : U!IsPrefix(U!TO, q)} |-> o[q]]
  BY <1>1, <1>5 DEF U!Below
<1> HIDE DEF tree, new, old
<1>14. PICK D : D = {q \in DOMAIN f : U!IsPrefix(U!TO, q)}
  OBVIOUS
<1>15. ASSUME NEW q
       PROVE  q \in D <=> q \in new \cup DOMAIN old
  <2>1. ASSUME q \in D PROVE q \in new \cup DOMAIN old
    <3>1. q \in DOMAIN f /\ U!IsPrefix(U!TO, q)
      BY <1>14, <2>1
    <3>2. CASE q \in DOMAIN o
      BY <1>13, <3>1, <3>2
    <3>3. CASE q \notin DOMAIN o
      BY <1>6, <1>11, <3>1, <3>3
    <3> QED BY <3>2, <3>3
  <2>2. ASSUME q \in new PROVE q \in D
    BY <1>6, <1>7, <1>11, <1>12, <1>14, <2>2
  <2>3. ASSUME q \in DOMAIN old PROVE q \in D
    BY <1>6, <1>13, <1>14, <2>3
  <2> QED BY <2>1, <2>2, <2>3
<1>16. ASSUME NEW q \in D
       PROVE  f[q] = IF q \in new THEN tree.files[Tail(q)] ELSE old[q]
  <2>1. q \in DOMAIN f /\ U!IsPrefix(U!TO, q)
    BY <1>14
  <2>2. CASE q \in new
    <3>1. PICK k \in U!FilesOf(job) :
            /\ q = At(job, k) /\ f[q] = U!DataOf(job, k)
            /\ \A l \in 1..n : l \in U!FilesOf(job) /\ l > k => At(job, l) # q
      BY <1>6, <1>7, <1>11, <2>1, <2>2
    <3>2. ASSUME NEW l \in U!FilesOf(job), l > k
          PROVE  U!PathOf(job, l) # U!PathOf(job, k)
      BY <1>7, <3>1, <3>2 DEF At
    <3>3. tree.files[U!PathOf(job, k)] = U!DataOf(job, k)
      BY <1>10, <3>2
    <3> QED BY <1>12, <2>2, <3>1, <3>3
  <2>3. CASE q \notin new
    <3>1. q \in DOMAIN o /\ f[q] = o[q]
      BY <1>6, <1>11, <2>1, <2>3
    <3>2. old[q] = o[q]
      BY <1>13, <2>1, <3>1
    <3> QED BY <2>3, <3>1, <3>2
  <2> QED BY <2>2, <2>3
<1>17. U!Below(fs, U!TO) = [q \in D |-> f[q]]
  BY <1>5, <1>14 DEF U!Below
<1>18. [q \in D |-> f[q]] = [q \in D |-> IF q \in new THEN tree.files[Tail(q)] ELSE old[q]]
  BY <1>16, Zenon
<1>19. D = new \cup DOMAIN old
  BY <1>15
<1>20. U!Below(fs, U!TO) = [p \in new \cup DOMAIN old |->
                             IF p \in new THEN tree.files[Tail(p)] ELSE old[p]]
  BY <1>17, <1>18, <1>19, Zenon
<1> QED BY <1>20 DEF tree, new, old

LEMMA UInvRestored == ASSUME UInv PROVE U!GpkgRestored
<1>1. PICK job \in Packages : job = mem.job
  BY DEF UInv
<1>2. pc = "unpack" => \A n \in 1..Len(archive) : archive[n][1] # "xor"
  <2>1. SUFFICES ASSUME pc = "unpack" PROVE \A n \in 1..Len(archive) : archive[n][1] # "xor"
    OBVIOUS
  <2>2. PICK p : p = U!Plain(job)
    OBVIOUS
  <2>3. archive = p /\ job.size \in Nat
    BY <1>1, <2>1, <2>2, JobFacts DEF UInv
  <2>4. p = [n \in 1..job.size |-> p[n]] /\ \A n \in 1..job.size : p[n][1] # "xor"
    BY <2>2, JobFacts
  <2>5. Len(archive) = job.size
    BY <2>3, <2>4
  <2> QED BY <2>3, <2>4, <2>5
<1>3. ASSUME pc = "done"
      PROVE  FsSoFar(job, job.n_files)
  BY <1>1, <1>3 DEF UInv
<1>4. pc = "done" /\ mem.job.ordered => {U!TO \o d : d \in mem.job.tree.dirs} \subseteq fs.dirs
  <2>1. SUFFICES ASSUME pc = "done", mem.job.ordered, NEW d \in mem.job.tree.dirs
                 PROVE  U!TO \o d \in fs.dirs
    OBVIOUS
  <2>2. U!HoldsTree(job)
    BY JobFacts DEF U!IsJob
  <2>3. PICK k \in U!DirsOf(job) : d = U!PathOf(job, k)
    BY <1>1, <2>1, <2>2 DEF U!HoldsTree
  <2>4. k \in 1..job.n_files
    BY <2>3 DEF U!DirsOf
  <2> QED BY <1>1, <1>3, <2>1, <2>3, <2>4 DEF FsSoFar, DirsSoFar, At
<1>5. pc = "crashed" => ~mem.job.ordered \/ (mem.job.retail /\ mem.job.size >= W)
  BY DEF UInv
<1> QED BY <1>1, <1>2, <1>4, <1>5, TargetFiles DEF U!GpkgRestored

-----------------------------------------------------------------------------
(* norunpack *)

EntriesAt(job, q) == 0..(N!EntriesOf(job.dump, job.tree.tocs[q]) - 1)
NameAt(job, q, k) == N!NameOf(job.dump, job.tree.tocs[q], k)
PathAt(job, q, k) == q \o <<NameAt(job, q, k)>>

FileThere(job, f) == f \in DOMAIN fs.files /\ fs.files[f] = job.tree.files[f]

\* The directory of a table is there and all its files are; the same of all
\* tables in it; an entry of a table is done.
TableThere(job, q) ==
    /\ q \in fs.dirs
    /\ \A k \in EntriesAt(job, q) : ~N!IsTable(NameAt(job, q, k)) => FileThere(job, PathAt(job, q, k))
AllThere(job, q) == \A d \in DOMAIN job.tree.tocs : N!IsPrefix(q, d) => TableThere(job, d)
EntryThere(job, q, k) ==
    IF N!IsTable(NameAt(job, q, k)) THEN AllThere(job, PathAt(job, q, k))
    ELSE FileThere(job, PathAt(job, q, k))

\* The tables that do_toc() is in, from the first to the one it walks: their
\* paths, and how many of their entries are done.
Dir(m)  == SubSeq(cwd, 1, m)
Ptr(m)  == IF m = Len(mem.callers) + 1 THEN mem.ptr ELSE mem.callers[m].ptr
Done(m) == IF m = Len(mem.callers) + 1 THEN i ELSE mem.callers[m].i

\* Each waits for the table in it that comes next.
Stack(job) ==
    /\ mem.callers \in Seq([ptr : Nat, i : Nat]) /\ i \in Nat
    /\ cwd \in DOMAIN job.tree.tocs /\ Len(cwd) = Len(mem.callers) + 1
    /\ \A m \in 1..(Len(mem.callers) + 1) :
         /\ Dir(m) \in fs.dirs /\ Ptr(m) = job.tree.tocs[Dir(m)]
         /\ m <= Len(mem.callers) =>
              /\ Done(m) \in EntriesAt(job, Dir(m)) /\ N!IsTable(NameAt(job, Dir(m), Done(m)))
              /\ Dir(m + 1) = PathAt(job, Dir(m), Done(m))
         /\ \A k \in EntriesAt(job, Dir(m)) : k < Done(m) => EntryThere(job, Dir(m), k)

\* Nothing else has changed.
OnlyTree(job) ==
    /\ fs = [dirs |-> fs.dirs, files |-> fs.files]
    /\ DOMAIN job.fs.files \subseteq DOMAIN fs.files
    /\ \A f \in DOMAIN fs.files :
         \/ f \in DOMAIN job.fs.files /\ fs.files[f] = job.fs.files[f]
         \/ f \in DOMAIN job.tree.files /\ fs.files[f] = job.tree.files[f]

\* The inductive invariant of norunpack.
NInv ==
    /\ mem = [job |-> mem.job, ptr |-> mem.ptr, callers |-> mem.callers]
    /\ mem.job \in Dumps /\ archive = mem.job.dump
    /\ pc \in {"open", "toc", "failed", "crashed", "done"}
    /\ pc = "open" => /\ fs = mem.job.fs /\ i = 0
                      /\ mem.ptr = mem.job.toc /\ mem.callers = <<>>
    /\ pc = "toc" => OnlyTree(mem.job) /\ Stack(mem.job)
    /\ pc = "done" => OnlyTree(mem.job) /\ AllThere(mem.job, N!TO) /\ cwd = N!TO

LEMMA InitNInv == N!Init => NInv
<1> SUFFICES ASSUME N!Init PROVE NInv
  OBVIOUS
<1>1. PICK job \in Dumps :
        /\ fs = job.fs /\ archive = job.dump /\ pc = "open" /\ i = 0
        /\ mem = [job |-> job, ptr |-> job.toc, callers |-> <<>>]
  BY DEF N!Init
<1> QED BY <1>1 DEF NInv

\* What is known of a dump.
LEMMA DumpFacts ==
    ASSUME NEW job \in Dumps
    PROVE  /\ job.fs = [dirs |-> job.fs.dirs, files |-> job.fs.files]
           /\ N!TO \in DOMAIN job.tree.tocs /\ job.tree.tocs[N!TO] = job.toc
           /\ \A q \in DOMAIN job.tree.tocs :
                /\ q \in Seq(N!ToSet(q)) /\ q # <<>> /\ q[1] = "to"
                /\ \A m \in 1..Len(q) : SubSeq(q, 1, m) \in DOMAIN job.tree.tocs
                /\ job.tree.tocs[q] \in Nat /\ N!EntriesOf(job.dump, job.tree.tocs[q]) \in Nat
<1>1. N!IsJob(job)
  BY NorAssumption
<1>2. job.fs = [dirs |-> job.fs.dirs, files |-> job.fs.files] /\ N!IsDump(job)
  BY <1>1 DEF N!IsJob
<1>3. N!TO \in DOMAIN job.tree.tocs /\ job.tree.tocs[N!TO] = job.toc
  BY <1>2 DEF N!IsDump
<1>4. ASSUME NEW q \in DOMAIN job.tree.tocs
      PROVE  /\ q \in Seq(N!ToSet(q)) /\ q # <<>> /\ q[1] = "to"
             /\ \A m \in 1..Len(q) : SubSeq(q, 1, m) \in DOMAIN job.tree.tocs
             /\ job.tree.tocs[q] \in Nat /\ N!EntriesOf(job.dump, job.tree.tocs[q]) \in Nat
  BY <1>2 DEF N!IsDump
<1> QED BY <1>2, <1>3, <1>4

LEMMA EntryOfDump ==
    ASSUME NEW job \in Dumps, NEW q \in DOMAIN job.tree.tocs, NEW k \in EntriesAt(job, q)
    PROVE  IF N!IsTable(NameAt(job, q, k))
           THEN /\ PathAt(job, q, k) \in DOMAIN job.tree.tocs
                /\ job.tree.tocs[PathAt(job, q, k)] = N!TableOf(job.dump, job.tree.tocs[q], k)
           ELSE /\ PathAt(job, q, k) \in DOMAIN job.tree.files
                /\ job.tree.files[PathAt(job, q, k)] = N!DataOf(job.dump, job.tree.tocs[q], k)
<1>1. N!IsDump(job)
  BY NorAssumption DEF N!IsJob
<1> QED BY <1>1 DEF N!IsDump, EntriesAt, NameAt, PathAt

LEMMA EntryOfTable ==
    ASSUME NEW job \in Dumps, NEW q \in DOMAIN job.tree.tocs, q # N!TO
    PROVE  \E k \in EntriesAt(job, N!Front(q)) :
             q = PathAt(job, N!Front(q), k) /\ N!IsTable(NameAt(job, N!Front(q), k))
<1>1. N!IsDump(job)
  BY NorAssumption DEF N!IsJob
<1> QED BY <1>1 DEF N!IsDump, EntriesAt, NameAt, PathAt

LEMMA EntryOfFile ==
    ASSUME NEW job \in Dumps, NEW f \in DOMAIN job.tree.files
    PROVE  \E q \in DOMAIN job.tree.tocs : \E k \in EntriesAt(job, q) :
             f = PathAt(job, q, k) /\ ~N!IsTable(NameAt(job, q, k))
<1>1. N!IsDump(job)
  BY NorAssumption DEF N!IsJob
<1> QED BY <1>1 DEF N!IsDump, EntriesAt, NameAt, PathAt

-----------------------------------------------------------------------------
(* Paths in the dump *)

\* The path of an entry.
LEMMA ChildPath ==
    ASSUME NEW S, NEW q \in Seq(S), NEW x
    PROVE  /\ q \o <<x>> # <<>> /\ Len(q \o <<x>>) = Len(q) + 1
           /\ SubSeq(q \o <<x>>, 1, Len(q) + 1) = q \o <<x>>
           /\ N!Front(q \o <<x>>) = q
           /\ \A m \in 1..Len(q) : SubSeq(q \o <<x>>, 1, m) = SubSeq(q, 1, m)
<1>1. PICK T : T = S \cup {x}
  OBVIOUS
<1>2. PICK r \in Seq(T), y \in Seq(T) : r = q /\ y = <<x>>
  <2>1. q \in Seq(T)
    BY <1>1
  <2>2. x \in T
    BY <1>1
  <2>3. <<x>> \in Seq(T)
    BY <2>2
  <2> QED BY <2>1, <2>3
<1>3. PICK c \in Seq(T) : c = r \o y
  <2>1. r \o y \in Seq(T)
    BY JoinedIsSeq
  <2> QED BY <2>1
<1>4. PICK n \in Nat : n = Len(r)
  OBVIOUS
<1>5. Len(c) = n + 1
  BY <1>2, <1>3, <1>4
<1>6. \A k \in 1..n : c[k] = r[k]
  BY <1>2, <1>3, <1>4
<1>7. ASSUME NEW m \in 0..n
      PROVE  SubSeq(c, 1, m) = SubSeq(r, 1, m)
  <2>1. Len(SubSeq(c, 1, m)) = m /\ SubSeq(c, 1, m) \in Seq(T)
    BY <1>4, <1>5
  <2>2. Len(SubSeq(r, 1, m)) = m /\ SubSeq(r, 1, m) \in Seq(T)
    BY <1>4
  <2>3. \A k \in 1..m : SubSeq(c, 1, m)[k] = c[k]
    BY <1>4, <1>5
  <2>4. \A k \in 1..m : SubSeq(r, 1, m)[k] = r[k]
    BY <1>4
  <2>5. PICK u, v : u = SubSeq(c, 1, m) /\ v = SubSeq(r, 1, m)
    OBVIOUS
  <2>6. u = [k \in 1..m |-> u[k]] /\ v = [k \in 1..m |-> v[k]]
    BY <2>1, <2>2, <2>5
  <2>7. \A k \in 1..m : u[k] = v[k]
    BY <1>4, <1>6, <2>3, <2>4, <2>5
  <2> QED BY <2>5, <2>6, <2>7
<1>8. SubSeq(r, 1, n) = r
  BY <1>4
<1>9. SubSeq(c, 1, n + 1) = c
  BY <1>5
<1>10. N!Front(c) = r
  <2>1. n + 1 - 1 = n /\ n \in 0..n
    BY <1>4
  <2>2. N!Front(c) = SubSeq(c, 1, n)
    BY <1>5, <2>1 DEF N!Front
  <2> QED BY <1>7, <1>8, <2>1, <2>2
<1>11. c # <<>>
  BY <1>4, <1>5
<1> QED BY <1>2, <1>3, <1>4, <1>5, <1>7, <1>9, <1>10, <1>11

\* The start of a start.
LEMMA StartOfStart ==
    ASSUME NEW S, NEW q \in Seq(S), NEW m \in 1..Len(q), NEW k \in 0..m
    PROVE  SubSeq(SubSeq(q, 1, m), 1, k) = SubSeq(q, 1, k) /\ Len(SubSeq(q, 1, m)) = m
<1>1. PICK n \in Nat : n = Len(q)
  OBVIOUS
<1>2. PICK p : p = SubSeq(q, 1, m)
  OBVIOUS
<1>3. p \in Seq(S)
  BY <1>2
<1>4. Len(p) = m
  BY <1>1, <1>2
<1>5. \A j \in 1..m : p[j] = q[j]
  BY <1>1, <1>2
<1>6. PICK u, v : u = SubSeq(p, 1, k) /\ v = SubSeq(q, 1, k)
  OBVIOUS
<1>7. u \in Seq(S) /\ Len(u) = k
  BY <1>1, <1>3, <1>4, <1>6
<1>8. v \in Seq(S) /\ Len(v) = k
  BY <1>1, <1>6
<1>9. \A j \in 1..k : u[j] = p[j]
  BY <1>1, <1>3, <1>4, <1>6
<1>10. \A j \in 1..k : v[j] = q[j]
  BY <1>1, <1>6
<1>11. \A j \in 1..k : u[j] = v[j]
  BY <1>1, <1>5, <1>9, <1>10
<1>12. u = [j \in 1..k |-> u[j]] /\ v = [j \in 1..k |-> v[j]]
  BY <1>7, <1>8
<1>13. u = v
  BY <1>11, <1>12
<1> QED BY <1>2, <1>4, <1>6, <1>13

\* A table that was walked to its end is there with all the tables in it.
LEMMA WalkedIsThere ==
    ASSUME NEW job \in Dumps, NEW q \in DOMAIN job.tree.tocs, q \in fs.dirs,
           \A k \in EntriesAt(job, q) : EntryThere(job, q, k)
    PROVE  AllThere(job, q)
<1> SUFFICES ASSUME NEW d \in DOMAIN job.tree.tocs, N!IsPrefix(q, d)
             PROVE  TableThere(job, d)
  BY DEF AllThere
<1>1. CASE d = q
  BY <1>1 DEF TableThere, EntryThere
<1>2. CASE d # q
  <2>1. PICK S : d \in Seq(S)
    BY DumpFacts
  <2>2. PICK T : q \in Seq(T)
    BY DumpFacts
  <2>3. PICK m \in Nat, n \in Nat : m = Len(q) /\ n = Len(d)
    BY <2>1, <2>2
  <2>4. m <= n /\ q = SubSeq(d, 1, m)
    <3>1. SubSeq(q, 1, m) = q
      BY <2>2, <2>3
    <3> QED BY <2>3, <3>1 DEF N!IsPrefix
  <2>5. m + 1 \in 1..n
    <3>1. m # n
      <4>1. SubSeq(d, 1, n) = d
        BY <2>1, <2>3
      <4> QED BY <1>2, <2>4, <4>1
    <3> QED BY <2>3, <2>4, <3>1
  <2>6. PICK r : r = SubSeq(d, 1, m + 1)
    OBVIOUS
  <2>7. r \in DOMAIN job.tree.tocs
    BY <2>3, <2>5, <2>6, DumpFacts
  <2>8. Len(r) = m + 1 /\ SubSeq(r, 1, m) = q
    <3>1. m + 1 \in 1..Len(d) /\ m \in 0..(m + 1)
      BY <2>3, <2>5
    <3> QED BY <2>1, <2>4, <2>6, <3>1, StartOfStart
  <2>9. N!Front(r) = q
    BY <2>3, <2>8 DEF N!Front
  <2>10. r # N!TO
    <3>1. q # <<>>
      BY DumpFacts
    <3>2. m > 0
      BY <2>2, <2>3, <3>1
    <3>3. Len(<<"to">>) = 1
      OBVIOUS
    <3> QED BY <2>3, <2>8, <3>2, <3>3 DEF N!TO
  <2>11. PICK k \in EntriesAt(job, q) : r = PathAt(job, q, k) /\ N!IsTable(NameAt(job, q, k))
    BY <2>7, <2>9, <2>10, EntryOfTable
  <2>12. AllThere(job, r)
    BY <2>11 DEF EntryThere
  <2>13. N!IsPrefix(r, d)
    <3>1. Len(r) <= Len(d)
      BY <2>3, <2>5, <2>8
    <3>2. SubSeq(r, 1, Len(r)) = SubSeq(d, 1, Len(r))
      <4>1. r \in Seq(S)
        <5>1. m + 1 <= Len(d) /\ m + 1 \in Nat
          BY <2>3, <2>5
        <5> QED BY <2>1, <2>6, <5>1
      <4> QED BY <2>6, <2>8, <4>1
    <3> QED BY <3>1, <3>2 DEF N!IsPrefix
  <2> QED BY <2>12, <2>13 DEF AllThere
<1> QED BY <1>1, <1>2

-----------------------------------------------------------------------------
(* The steps of do_toc *)

\* What is there stays there while directories and files of the tree are added.
LEMMA ThereStays ==
    ASSUME NEW job, fs.dirs \subseteq fs'.dirs, \A f : FileThere(job, f) => FileThere(job, f)'
    PROVE  /\ \A q : TableThere(job, q) => TableThere(job, q)'
           /\ \A q : AllThere(job, q) => AllThere(job, q)'
           /\ \A q, k : EntryThere(job, q, k) => EntryThere(job, q, k)'
<1>1. \A q : EntriesAt(job, q)' = EntriesAt(job, q)
  BY DEF EntriesAt, N!EntriesOf, N!Unit
<1>2. \A q, k : /\ PathAt(job, q, k)' = PathAt(job, q, k)
                /\ N!IsTable(NameAt(job, q, k))' = N!IsTable(NameAt(job, q, k))
  BY DEF PathAt, NameAt, N!NameOf, N!Unit, N!IsTable, N!ROS
<1>3. \A q, d : N!IsPrefix(q, d)' = N!IsPrefix(q, d)
  BY DEF N!IsPrefix
<1>4. \A q : TableThere(job, q) => TableThere(job, q)'
  BY <1>1, <1>2 DEF TableThere
<1>5. \A q : AllThere(job, q) => AllThere(job, q)'
  BY <1>3, <1>4 DEF AllThere
<1>6. \A q, k : EntryThere(job, q, k) => EntryThere(job, q, k)'
  BY <1>2, <1>5 DEF EntryThere
<1> QED BY <1>4, <1>5, <1>6

LEMMA FileThereSame ==
    ASSUME NEW job, fs'.files = fs.files
    PROVE  \A f : FileThere(job, f) => FileThere(job, f)'
BY DEF FileThere

LEMMA OnlyTreeStays ==
    ASSUME NEW job, OnlyTree(job), fs'.files = fs.files,
           fs' = [dirs |-> fs'.dirs, files |-> fs'.files]
    PROVE  OnlyTree(job)'
BY DEF OnlyTree

\* new_dir() adds no file.
LEMMA NewDirAdds ==
    ASSUME fs = [dirs |-> fs.dirs, files |-> fs.files], NEW path, N!NewDir(path)
    PROVE  /\ fs' = [dirs |-> fs'.dirs, files |-> fs'.files]
           /\ fs'.files = fs.files /\ fs.dirs \subseteq fs'.dirs /\ path \in fs'.dirs
<1>1. (fs' = fs \/ fs' = [fs EXCEPT !.dirs = @ \cup {path}]) /\ path \in fs'.dirs
  BY DEF N!NewDir, N!mkdir
<1> QED BY <1>1

LEMMA OpenDumpKeeps == ASSUME NInv, N!OpenDump PROVE NInv'
<1>1. /\ pc = "open" /\ N!NewDir(N!TO) /\ cwd' = N!TO /\ pc' = "toc"
      /\ UNCHANGED <<archive, i, mem>>
  BY DEF N!OpenDump
<1>2. PICK job \in Dumps : job = mem.job
  BY DEF NInv
<1>3. /\ fs = job.fs /\ i = 0 /\ mem.ptr = job.toc /\ mem.callers = <<>>
  BY <1>1, <1>2 DEF NInv
<1>4. fs = [dirs |-> fs.dirs, files |-> fs.files]
  BY <1>3, DumpFacts
<1>5. /\ fs' = [dirs |-> fs'.dirs, files |-> fs'.files]
      /\ fs'.files = fs.files /\ fs.dirs \subseteq fs'.dirs /\ N!TO \in fs'.dirs
  BY <1>1, <1>4, NewDirAdds
<1>6. OnlyTree(job)'
  BY <1>3, <1>5 DEF OnlyTree
<1>7. N!TO \in DOMAIN job.tree.tocs /\ job.tree.tocs[N!TO] = job.toc
  BY DumpFacts
<1>8. Len(<<"to">>) = 1 /\ SubSeq(<<"to">>, 1, 1) = <<"to">>
  <2>0. PICK T : "to" \in T
    OBVIOUS
  <2>a. <<"to">> \in Seq(T)
    BY <2>0
  <2>1. PICK r \in Seq(T) : r = <<"to">>
    BY <2>a
  <2>2. Len(r) = 1
    BY <2>1
  <2>3. SubSeq(r, 1, 1) = r
    BY <2>2
  <2> QED BY <2>1, <2>2, <2>3
<1>9. Len(<<>>) = 0 /\ <<>> \in Seq([ptr : Nat, i : Nat])
  OBVIOUS
<1>10. mem' = mem /\ i' = 0 /\ mem'.callers = <<>> /\ mem'.ptr = job.toc /\ Len(mem'.callers) = 0
  BY <1>1, <1>3, <1>9
<1>11. cwd' = N!TO /\ Len(cwd') = 1 /\ SubSeq(cwd', 1, 1) = N!TO
  BY <1>1, <1>8 DEF N!TO
<1>12. Stack(job)'
  <2>1. /\ mem'.callers \in Seq([ptr : Nat, i : Nat]) /\ i' \in Nat
        /\ cwd' \in DOMAIN job.tree.tocs /\ Len(cwd') = Len(mem'.callers) + 1
    BY <1>7, <1>9, <1>10, <1>11
  <2>2. \A m \in 1..(Len(mem'.callers) + 1) : m = 1
    BY <1>10
  <2>3. Dir(1)' = N!TO /\ Ptr(1)' = job.toc /\ Done(1)' = 0
    BY <1>10, <1>11 DEF Dir, Ptr, Done
  <2>4. \A k \in EntriesAt(job, Dir(1))' : ~(k < 0)
    BY DEF EntriesAt
  <2> QED BY <1>5, <1>7, <1>10, <2>1, <2>2, <2>3, <2>4 DEF Stack
<1> QED BY <1>1, <1>2, <1>6, <1>12 DEF NInv

LEMMA NorFailsKeeps == ASSUME NInv, N!OpenFails \/ N!NoDir PROVE NInv'
BY DEF NInv, N!OpenFails, N!NoDir, N!CannotEnter

\* What do_toc() reads of the entry whose turn it is.
LEMMA WalkingFacts ==
    ASSUME NInv, N!Walking
    PROVE  /\ pc = "toc" /\ OnlyTree(mem.job) /\ Stack(mem.job) /\ archive = mem.job.dump
           /\ mem.ptr = mem.job.tree.tocs[cwd] /\ mem.ptr \in Nat
           /\ cwd \in DOMAIN mem.job.tree.tocs /\ cwd \in fs.dirs
           /\ i \in EntriesAt(mem.job, cwd) /\ N!name = NameAt(mem.job, cwd, i)
           /\ N!offset = N!OffsetOf(mem.job.dump, mem.ptr, i)
<1>1. PICK job \in Dumps : job = mem.job
  BY DEF NInv
<1>2. /\ pc = "toc" /\ i < N!n_entries /\ archive = job.dump
      /\ OnlyTree(job) /\ Stack(job)
  BY <1>1 DEF NInv, N!Walking
<1>3. PICK n \in Nat : n = Len(mem.callers) + 1
  BY <1>2 DEF Stack
<1>4. /\ Dir(n) \in fs.dirs /\ Ptr(n) = job.tree.tocs[Dir(n)]
      /\ cwd \in DOMAIN job.tree.tocs /\ Len(cwd) = n /\ i \in Nat
  <2>1. n \in 1..(Len(mem.callers) + 1)
    BY <1>2, <1>3 DEF Stack
  <2> QED BY <1>2, <1>3, <2>1 DEF Stack
<1>5. Dir(n) = cwd
  <2>1. PICK S : cwd \in Seq(S)
    BY <1>4, DumpFacts
  <2> QED BY <1>4, <2>1 DEF Dir
<1>6. Ptr(n) = mem.ptr
  BY <1>3 DEF Ptr
<1>7. mem.ptr = job.tree.tocs[cwd] /\ cwd \in fs.dirs
  BY <1>4, <1>5, <1>6
<1>8. mem.ptr \in Nat /\ N!EntriesOf(job.dump, mem.ptr) \in Nat
  BY <1>4, <1>7, DumpFacts
<1>9. N!n_entries = N!EntriesOf(job.dump, mem.ptr)
  BY <1>2 DEF N!n_entries, N!Peek, N!EntriesOf, N!Unit
<1>10. i \in EntriesAt(job, cwd)
  BY <1>2, <1>4, <1>7, <1>8, <1>9 DEF EntriesAt
<1>11. PICK t \in Nat, k \in Nat : t = mem.ptr /\ k = i
  BY <1>4, <1>8
<1>12. N!p = t + 3 * k + 1 /\ N!p + 1 = t + 3 * k + 2
  BY <1>11 DEF N!p
<1>13. N!name = N!NameOf(job.dump, mem.ptr, i)
  BY <1>2, <1>11, <1>12 DEF N!name, N!NameOf, N!Peek, N!Unit
<1>14. N!offset = N!OffsetOf(job.dump, mem.ptr, i)
  BY <1>2, <1>11, <1>12 DEF N!offset, N!OffsetOf, N!Peek, N!Unit
<1> QED BY <1>1, <1>2, <1>4, <1>7, <1>8, <1>10, <1>13, <1>14 DEF NameAt

LEMMA CallKeeps ==
    ASSUME NInv, N!Walking, N!IsTable(N!name), NEW toc, N!Call(toc),
           toc = N!TableOf(mem.job.dump, mem.ptr, i)
    PROVE  NInv'
<1>1. PICK job \in Dumps : job = mem.job
  BY DEF NInv
<1>2. /\ N!NewDir(cwd \o <<N!name>>) /\ cwd' = cwd \o <<N!name>>
      /\ mem' = [mem EXCEPT !.ptr = toc, !.callers = Append(@, [ptr |-> mem.ptr, i |-> i])]
      /\ i' = 0 /\ UNCHANGED <<archive, pc>>
  BY DEF N!Call
<1>3. /\ pc = "toc" /\ OnlyTree(job) /\ Stack(job) /\ archive = job.dump
      /\ mem.ptr = job.tree.tocs[cwd] /\ mem.ptr \in Nat
      /\ cwd \in DOMAIN job.tree.tocs /\ cwd \in fs.dirs
      /\ i \in EntriesAt(job, cwd) /\ N!name = NameAt(job, cwd, i)
  BY <1>1, WalkingFacts
<1>4. PICK q, k : q = cwd /\ k = i
  OBVIOUS
<1>5. PICK c : c = PathAt(job, q, k)
  OBVIOUS
<1>6. cwd \o <<N!name>> = c
  BY <1>3, <1>4, <1>5 DEF PathAt
<1>7. /\ c \in DOMAIN job.tree.tocs
      /\ job.tree.tocs[c] = N!TableOf(job.dump, job.tree.tocs[q], k)
  BY <1>3, <1>4, <1>5, EntryOfDump
<1>8. job.tree.tocs[c] = toc
  BY <1>1, <1>3, <1>4, <1>7
<1>9. fs = [dirs |-> fs.dirs, files |-> fs.files]
  BY <1>3 DEF OnlyTree
<1>10. /\ fs' = [dirs |-> fs'.dirs, files |-> fs'.files]
       /\ fs'.files = fs.files /\ fs.dirs \subseteq fs'.dirs /\ c \in fs'.dirs
  BY <1>2, <1>6, <1>9, NewDirAdds
<1>11. OnlyTree(job)'
  BY <1>3, <1>10, OnlyTreeStays
<1>12. \A d, e : EntryThere(job, d, e) => EntryThere(job, d, e)'
  BY <1>10, FileThereSame, ThereStays
<1>13. PICK cs \in Seq([ptr : Nat, i : Nat]) : cs = mem.callers
  BY <1>3 DEF Stack
<1>14. PICK n \in Nat : n = Len(cs)
  OBVIOUS
<1>15. Len(q) = n + 1 /\ k \in Nat
  BY <1>3, <1>4, <1>13, <1>14 DEF Stack
<1>16. PICK frame \in [ptr : Nat, i : Nat] : frame = [ptr |-> mem.ptr, i |-> i]
  BY <1>3, <1>4, <1>15
<1>17. PICK ds : ds = Append(cs, frame)
  OBVIOUS
<1>18. /\ ds \in Seq([ptr : Nat, i : Nat]) /\ Len(ds) = n + 1 /\ ds[n + 1] = frame
       /\ \A m \in 1..n : ds[m] = cs[m]
  <2>1. ds \in Seq([ptr : Nat, i : Nat])
    BY <1>17
  <2>2. Len(ds) = n + 1
    BY <1>14, <1>17
  <2>3. ds[n + 1] = frame
    BY <1>14, <1>17
  <2>4. \A m \in 1..n : ds[m] = cs[m]
    BY <1>14, <1>17
  <2> QED BY <2>1, <2>2, <2>3, <2>4
<1>19. /\ mem' = [job |-> job, ptr |-> toc, callers |-> ds]
  BY <1>1, <1>2, <1>13, <1>16, <1>17 DEF NInv
<1>20. /\ mem'.callers = ds /\ mem'.ptr = toc /\ mem'.job = job /\ cwd' = c /\ i' = 0
  <2>1. mem'.callers = ds /\ mem'.ptr = toc /\ mem'.job = job
    BY <1>19
  <2> QED BY <1>2, <1>6, <2>1
<1>21. /\ Len(c) = n + 2 /\ SubSeq(c, 1, n + 2) = c
       /\ \A m \in 1..(n + 1) : SubSeq(c, 1, m) = SubSeq(q, 1, m)
  <2>1. PICK S : q \in Seq(S)
    BY <1>3, <1>4, DumpFacts
  <2>2. PICK x : x = NameAt(job, q, k)
    OBVIOUS
  <2>3. c = q \o <<x>>
    BY <1>5, <2>2 DEF PathAt
  <2>4. Len(q) + 1 = n + 2
    BY <1>15
  <2>5. Len(q \o <<x>>) = Len(q) + 1
    BY <2>1, ChildPath
  <2>6. SubSeq(q \o <<x>>, 1, Len(q) + 1) = q \o <<x>>
    BY <2>1, ChildPath
  <2>7. \A m \in 1..Len(q) : SubSeq(q \o <<x>>, 1, m) = SubSeq(q, 1, m)
    BY <2>1, ChildPath
  <2> QED BY <1>15, <2>3, <2>4, <2>5, <2>6, <2>7
<1>22. Dir(n + 1) = q /\ Ptr(n + 1) = mem.ptr /\ Done(n + 1) = k
  <2>1. PICK S : q \in Seq(S)
    BY <1>3, <1>4, DumpFacts
  <2>2. SubSeq(q, 1, n + 1) = q
    BY <1>15, <2>1
  <2> QED BY <1>4, <1>13, <1>14, <2>2 DEF Dir, Ptr, Done
<1>23. /\ Dir(n + 2)' = c /\ Ptr(n + 2)' = toc /\ Done(n + 2)' = 0
  BY <1>18, <1>20, <1>21 DEF Dir, Ptr, Done
<1>24. ASSUME NEW m \in 1..(n + 1)
       PROVE  Dir(m)' = Dir(m) /\ Ptr(m)' = Ptr(m) /\ Done(m)' = Done(m)
  <2>1. Dir(m)' = Dir(m)
    BY <1>4, <1>20, <1>21 DEF Dir
  <2>2. CASE m = n + 1
    <3>1. m # Len(ds) + 1 /\ ds[m] = frame
      BY <1>18, <2>2
    <3> QED BY <1>4, <1>16, <1>20, <1>22, <2>1, <2>2, <3>1 DEF Ptr, Done
  <2>3. CASE m # n + 1
    <3>0. m \in 1..n
      BY <2>3
    <3>1. m # Len(ds) + 1
      BY <1>18, <3>0
    <3>2. m # Len(cs) + 1
      BY <1>14, <3>0
    <3>3. ds[m] = cs[m]
      BY <1>18, <3>0
    <3> QED BY <1>13, <1>20, <2>1, <3>1, <3>2, <3>3 DEF Ptr, Done
  <2> QED BY <2>2, <2>3
<1>25. ASSUME NEW m \in 1..(n + 1)
       PROVE  /\ Dir(m) \in fs.dirs /\ Ptr(m) = job.tree.tocs[Dir(m)]
              /\ m <= n => /\ Done(m) \in EntriesAt(job, Dir(m))
                           /\ N!IsTable(NameAt(job, Dir(m), Done(m)))
                           /\ Dir(m + 1) = PathAt(job, Dir(m), Done(m))
              /\ \A e \in EntriesAt(job, Dir(m)) : e < Done(m) => EntryThere(job, Dir(m), e)
  BY <1>3, <1>13, <1>14 DEF Stack
<1>26. ASSUME NEW m \in 1..(n + 1)
       PROVE  /\ Dir(m)' \in fs'.dirs /\ Ptr(m)' = job.tree.tocs[Dir(m)']
              /\ /\ Done(m)' \in EntriesAt(job, Dir(m)')
                 /\ N!IsTable(NameAt(job, Dir(m)', Done(m)'))
                 /\ Dir(m + 1)' = PathAt(job, Dir(m)', Done(m)')
              /\ \A e \in EntriesAt(job, Dir(m)') : e < Done(m)' => EntryThere(job, Dir(m), e)'
  <2>1. /\ Dir(m)' \in fs'.dirs /\ Ptr(m)' = job.tree.tocs[Dir(m)']
        /\ \A e \in EntriesAt(job, Dir(m)') : e < Done(m)' => EntryThere(job, Dir(m), e)'
    BY <1>10, <1>12, <1>24, <1>25
  <2>2. CASE m <= n
    <3>1. m + 1 \in 1..(n + 1)
      BY <2>2
    <3> QED BY <1>24, <1>25, <2>1, <2>2, <3>1
  <2>3. CASE ~(m <= n)
    <3>1. m = n + 1 /\ m + 1 = n + 2
      BY <2>3
    <3>2. Dir(m)' = q /\ Done(m)' = k
      BY <1>22, <1>24, <3>1
    <3>3. Dir(m + 1)' = c
      BY <1>23, <3>1
    <3>4. k \in EntriesAt(job, q) /\ N!IsTable(NameAt(job, q, k))
      BY <1>3, <1>4
    <3> QED BY <1>5, <2>1, <3>2, <3>3, <3>4
  <2> QED BY <2>2, <2>3
<1>27. Stack(job)'
  <2>1. /\ mem'.callers \in Seq([ptr : Nat, i : Nat]) /\ i' \in Nat
        /\ cwd' \in DOMAIN job.tree.tocs /\ Len(cwd') = Len(mem'.callers) + 1
    BY <1>7, <1>18, <1>20, <1>21
  <2>2. Len(mem'.callers) = n + 1 /\ Len(mem'.callers) + 1 = n + 2
    BY <1>18, <1>20
  <2>3. \A d : EntriesAt(job, d)' = EntriesAt(job, d)
    BY DEF EntriesAt, N!EntriesOf, N!Unit
  <2>4. \A d, e : /\ PathAt(job, d, e)' = PathAt(job, d, e) /\ NameAt(job, d, e)' = NameAt(job, d, e)
    BY DEF PathAt, NameAt, N!NameOf, N!Unit
  <2>5. \A x : N!IsTable(x)' = N!IsTable(x)
    BY DEF N!IsTable, N!ROS
  <2>6. ASSUME NEW m \in 1..(n + 2)
        PROVE  /\ Dir(m)' \in fs'.dirs /\ Ptr(m)' = job.tree.tocs[Dir(m)']
               /\ m <= n + 1 =>
                    /\ Done(m)' \in EntriesAt(job, Dir(m)')
                    /\ N!IsTable(NameAt(job, Dir(m)', Done(m)'))
                    /\ Dir(m + 1)' = PathAt(job, Dir(m)', Done(m)')
               /\ \A e \in EntriesAt(job, Dir(m)') : e < Done(m)' => EntryThere(job, Dir(m), e)'
    <3>1. CASE m = n + 2
      <4>1. \A e \in EntriesAt(job, Dir(m)') : ~(e < 0)
        BY DEF EntriesAt
      <4> QED BY <1>8, <1>10, <1>23, <3>1, <4>1
    <3>2. CASE m # n + 2
      <4>1. m \in 1..(n + 1)
        BY <3>2
      <4> QED BY <1>26, <4>1
    <3> QED BY <3>1, <3>2
  <2> QED BY <2>1, <2>2, <2>3, <2>4, <2>5, <2>6 DEF Stack
<1> QED BY <1>1, <1>2, <1>3, <1>11, <1>19, <1>20, <1>27 DEF NInv

LEMMA TableKeeps == ASSUME NInv, N!Loader \/ N!Ros PROVE NInv'
<1>1. N!Walking /\ N!IsTable(N!name)
  BY DEF N!Loader, N!Ros, N!IsTable
<1>2. N!name = NameAt(mem.job, cwd, i) /\ N!offset = N!OffsetOf(mem.job.dump, mem.ptr, i)
      /\ mem.ptr = mem.job.tree.tocs[cwd]
  BY <1>1, WalkingFacts
<1>3. N!name = N!NameOf(mem.job.dump, mem.ptr, i)
  BY <1>2 DEF NameAt
<1>4. CASE N!Loader
  <2>1. N!name = "asecure_loader" /\ N!Call(mem.ptr + N!offset)
    BY <1>4 DEF N!Loader
  <2>2. mem.ptr + N!offset = N!TableOf(mem.job.dump, mem.ptr, i)
    BY <1>2, <1>3, <2>1 DEF N!TableOf, N!ROS
  <2> QED BY <1>1, <2>1, <2>2, CallKeeps
<1>5. CASE N!Ros
  <2>1. N!name \in N!ROS /\ N!Call(mem.ptr + N!offset + 1)
    BY <1>5 DEF N!Ros
  <2>2. mem.ptr + N!offset + 1 = N!TableOf(mem.job.dump, mem.ptr, i)
    BY <1>2, <1>3, <2>1 DEF N!TableOf
  <2> QED BY <1>1, <2>1, <2>2, CallKeeps
<1> QED BY <1>4, <1>5

\* The file of an entry is written as the tree has it.
LEMMA FileData ==
    ASSUME NInv, N!Walking, ~N!IsTable(N!name)
    PROVE  LET at   == mem.ptr + N!offset
               skip == N!Header(at)
           IN  [w \in 1..(N!size - skip) |-> N!Peek(at + skip + w - 1)]
                   = N!DataOf(mem.job.dump, mem.ptr, i)
<1>1. /\ archive = mem.job.dump /\ mem.ptr \in Nat /\ i \in EntriesAt(mem.job, cwd)
      /\ N!offset = N!OffsetOf(mem.job.dump, mem.ptr, i)
  BY WalkingFacts
<1>2. PICK t \in Nat, k \in Int : t = mem.ptr /\ k = i
  BY <1>1 DEF EntriesAt
<1>3. N!p = t + 3 * k + 1
  BY <1>2 DEF N!p
<1>4. N!size = N!Unit(mem.job.dump, t + 3 * k + 1)[3]
  BY <1>1, <1>3 DEF N!size, N!Peek, N!Unit
<1>5. \A a : N!Peek(a) = N!Unit(mem.job.dump, a)
  BY <1>1 DEF N!Peek, N!Unit
<1>6. PICK at : at = mem.ptr + N!offset
  OBVIOUS
<1>7. N!Header(at) = IF at + 1 < Len(mem.job.dump) /\ N!Unit(mem.job.dump, at + 1) = N!MAGIC THEN 1 ELSE 0
  BY <1>1, <1>5 DEF N!Header
<1> DEFINE skip == N!Header(at)
<1>8. [w \in 1..(N!size - skip) |-> N!Peek(at + skip + w - 1)]
        = [w \in 1..(N!size - skip) |-> N!Unit(mem.job.dump, at + skip + w - 1)]
  BY <1>5, Zenon
<1> QED BY <1>1, <1>2, <1>4, <1>6, <1>7, <1>8 DEF N!DataOf

\* memcpy_to_file() of a file of the tree.
LEMMA FileAdds ==
    ASSUME NEW job, NEW f \in DOMAIN job.tree.files, NEW data, data = job.tree.files[f],
           OnlyTree(job), fs' = N!memcpy_to_file(fs, f, data)
    PROVE  /\ OnlyTree(job)' /\ fs'.dirs = fs.dirs /\ FileThere(job, f)'
           /\ \A g : FileThere(job, g) => FileThere(job, g)'
<1>1. fs = [dirs |-> fs.dirs, files |-> fs.files]
  BY DEF OnlyTree
<1>2. fs' = K!memcpy_to_file(fs, f, data)
  BY DEF K!memcpy_to_file, N!memcpy_to_file
<1>3. /\ fs' = [dirs |-> fs'.dirs, files |-> fs'.files] /\ fs'.dirs = fs.dirs
      /\ DOMAIN fs'.files = DOMAIN fs.files \cup {f} /\ fs'.files[f] = data
      /\ \A q \in DOMAIN fs.files : q # f => fs'.files[q] = fs.files[q]
  BY <1>1, <1>2, MemcpyFacts
<1>4. FileThere(job, f)'
  BY <1>3 DEF FileThere
<1>5. \A g : FileThere(job, g) => FileThere(job, g)'
  BY <1>3 DEF FileThere
<1>6. OnlyTree(job)'
  BY <1>3 DEF OnlyTree
<1> QED BY <1>3, <1>4, <1>5, <1>6

LEMMA NorFileKeeps == ASSUME NInv, N!WriteFile PROVE NInv'
<1>1. /\ N!Walking /\ ~N!IsTable(N!name) /\ UNCHANGED <<cwd, archive, mem>>
      /\ \/ pc' = "crashed"
         \/ /\ i' = i + 1 /\ pc' = pc
            /\ fs' = N!memcpy_to_file(fs, cwd \o <<N!name>>,
                       LET at   == mem.ptr + N!offset
                           skip == N!Header(at)
                       IN  [w \in 1..(N!size - skip) |-> N!Peek(at + skip + w - 1)])
  BY DEF N!WriteFile, N!IsTable
<1>2. PICK job \in Dumps : job = mem.job
  BY DEF NInv
<1>3. CASE pc' = "crashed"
  BY <1>1, <1>3 DEF NInv
<1>4. CASE pc' # "crashed"
  <2>1. /\ pc = "toc" /\ OnlyTree(job) /\ Stack(job)
        /\ mem.ptr = job.tree.tocs[cwd] /\ cwd \in DOMAIN job.tree.tocs
        /\ i \in EntriesAt(job, cwd) /\ N!name = NameAt(job, cwd, i)
    BY <1>1, <1>2, WalkingFacts
  <2>2. PICK data : data = N!DataOf(job.dump, mem.ptr, i)
    OBVIOUS
  <2>3. fs' = N!memcpy_to_file(fs, cwd \o <<N!name>>, data)
    BY <1>1, <1>2, <1>4, <2>2, FileData
  <2>4. PICK q, k : q = cwd /\ k = i
    OBVIOUS
  <2>5. PICK f : f = PathAt(job, q, k)
    OBVIOUS
  <2>6. cwd \o <<N!name>> = f
    BY <2>1, <2>4, <2>5 DEF PathAt
  <2>7. ~N!IsTable(NameAt(job, q, k)) /\ k \in EntriesAt(job, q) /\ q \in DOMAIN job.tree.tocs
    BY <1>1, <2>1, <2>4
  <2>8. f \in DOMAIN job.tree.files /\ data = job.tree.files[f]
    <3>1. f \in DOMAIN job.tree.files /\ job.tree.files[f] = N!DataOf(job.dump, job.tree.tocs[q], k)
      BY <2>5, <2>7, EntryOfDump
    <3> QED BY <2>1, <2>2, <2>4, <3>1
  <2>9. /\ OnlyTree(job)' /\ fs'.dirs = fs.dirs /\ FileThere(job, f)'
        /\ \A g : FileThere(job, g) => FileThere(job, g)'
    BY <2>1, <2>3, <2>6, <2>8, FileAdds
  <2>10. \A d, e : EntryThere(job, d, e) => EntryThere(job, d, e)'
    BY <2>9, ThereStays
  <2>11. EntryThere(job, q, k)'
    <3>1. /\ PathAt(job, q, k)' = PathAt(job, q, k)
          /\ N!IsTable(NameAt(job, q, k))' = N!IsTable(NameAt(job, q, k))
      BY DEF PathAt, NameAt, N!NameOf, N!Unit, N!IsTable, N!ROS
    <3> QED BY <2>5, <2>7, <2>9, <3>1 DEF EntryThere
  <2>12. PICK n \in Nat : n = Len(mem.callers)
    BY <2>1 DEF Stack
  <2>13. /\ mem.callers \in Seq([ptr : Nat, i : Nat]) /\ i \in Nat /\ Len(cwd) = n + 1
         /\ \A m \in 1..(n + 1) :
              /\ Dir(m) \in fs.dirs /\ Ptr(m) = job.tree.tocs[Dir(m)]
              /\ m <= n => /\ Done(m) \in EntriesAt(job, Dir(m))
                           /\ N!IsTable(NameAt(job, Dir(m), Done(m)))
                           /\ Dir(m + 1) = PathAt(job, Dir(m), Done(m))
              /\ \A e \in EntriesAt(job, Dir(m)) : e < Done(m) => EntryThere(job, Dir(m), e)
    BY <2>1, <2>12 DEF Stack
  <2>14. Dir(n + 1) = cwd
    <3>1. PICK S : cwd \in Seq(S)
      BY <2>1, DumpFacts
    <3> QED BY <2>13, <3>1 DEF Dir
  <2>15. pc' = "toc" /\ i' = k + 1 /\ k \in Nat /\ mem' = mem /\ cwd' = cwd /\ archive' = archive
    BY <1>1, <1>4, <2>1, <2>4, <2>13
  <2>16. ASSUME NEW m \in 1..(n + 1)
         PROVE  /\ Dir(m)' = Dir(m) /\ Ptr(m)' = Ptr(m)
                /\ m <= n => Done(m)' = Done(m)
                /\ m = n + 1 => Done(m) = k /\ Done(m)' = k + 1
    BY <2>4, <2>12, <2>15 DEF Dir, Ptr, Done
  <2>17. ASSUME NEW m \in 1..(n + 1), NEW e \in EntriesAt(job, Dir(m)), e < Done(m)'
         PROVE  EntryThere(job, Dir(m), e)'
    <3>1. PICK d : d = Dir(m)
      OBVIOUS
    <3>2. EntryThere(job, d, e)'
      <4>1. CASE e < Done(m)
        BY <2>10, <2>13, <3>1, <4>1
      <4>2. CASE ~(e < Done(m))
        <5>1. m = n + 1
          BY <2>16, <2>17, <4>2
        <5>2. d = q
          BY <2>4, <2>14, <3>1, <5>1
        <5>3. e \in Int
          BY DEF EntriesAt
        <5>4. e = k
          BY <2>15, <2>16, <2>17, <4>2, <5>1, <5>3
        <5> QED BY <2>11, <5>2, <5>4
      <4> QED BY <4>1, <4>2
    <3> QED BY <2>16, <3>1, <3>2
  <2>18. Stack(job)'
    <3>1. \A d : EntriesAt(job, d)' = EntriesAt(job, d)
      BY DEF EntriesAt, N!EntriesOf, N!Unit
    <3>2. \A d, e : /\ PathAt(job, d, e)' = PathAt(job, d, e) /\ NameAt(job, d, e)' = NameAt(job, d, e)
      BY DEF PathAt, NameAt, N!NameOf, N!Unit
    <3>3. \A x : N!IsTable(x)' = N!IsTable(x)
      BY DEF N!IsTable, N!ROS
    <3>4. ASSUME NEW m \in 1..(n + 1)
          PROVE  /\ Dir(m)' \in fs'.dirs /\ Ptr(m)' = job.tree.tocs[Dir(m)']
                 /\ m <= n => /\ Done(m)' \in EntriesAt(job, Dir(m)')
                              /\ N!IsTable(NameAt(job, Dir(m)', Done(m)'))
                              /\ Dir(m + 1)' = PathAt(job, Dir(m)', Done(m)')
                 /\ \A e \in EntriesAt(job, Dir(m)') : e < Done(m)' => EntryThere(job, Dir(m), e)'
      <4>1. m <= n => m + 1 \in 1..(n + 1)
        OBVIOUS
      <4> QED BY <2>9, <2>13, <2>16, <2>17, <4>1
    <3>5. /\ mem'.callers \in Seq([ptr : Nat, i : Nat]) /\ i' \in Nat
          /\ cwd' \in DOMAIN job.tree.tocs /\ Len(cwd') = Len(mem'.callers) + 1
          /\ Len(mem'.callers) = n
      BY <2>1, <2>12, <2>13, <2>15
    <3> QED BY <3>1, <3>2, <3>3, <3>4, <3>5 DEF Stack
  <2> QED BY <1>2, <2>9, <2>15, <2>18 DEF NInv
<1> QED BY <1>3, <1>4

LEMMA StartIsSeq ==
    ASSUME NEW S, NEW s \in Seq(S), NEW m \in 0..Len(s)
    PROVE  SubSeq(s, 1, m) \in Seq(S)
OBVIOUS

\* The table that was walked to its end.
LEMMA EndOfTable ==
    ASSUME NInv, pc = "toc", i >= N!n_entries
    PROVE  AllThere(mem.job, cwd)
<1>1. PICK job \in Dumps : job = mem.job
  BY DEF NInv
<1>2. Stack(job) /\ archive = job.dump
  BY <1>1 DEF NInv
<1>3. PICK n \in Nat : n = Len(mem.callers)
  BY <1>2 DEF Stack
<1>4. cwd \in DOMAIN job.tree.tocs /\ Len(cwd) = n + 1 /\ i \in Nat
  BY <1>2, <1>3 DEF Stack
<1>5. Dir(n + 1) = cwd
  <2>1. PICK S : cwd \in Seq(S)
    BY <1>4, DumpFacts
  <2> QED BY <1>4, <2>1 DEF Dir
<1>6. Ptr(n + 1) = mem.ptr /\ Done(n + 1) = i
  BY <1>3 DEF Ptr, Done
<1>7. n + 1 \in 1..(n + 1)
  OBVIOUS
<1>8. /\ cwd \in fs.dirs /\ mem.ptr = job.tree.tocs[cwd]
      /\ \A k \in EntriesAt(job, cwd) : k < i => EntryThere(job, cwd, k)
  BY <1>2, <1>3, <1>5, <1>6, <1>7 DEF Stack
<1>9. N!n_entries = N!EntriesOf(job.dump, mem.ptr)
  BY <1>2 DEF N!n_entries, N!Peek, N!EntriesOf, N!Unit
<1>10. N!EntriesOf(job.dump, mem.ptr) \in Nat
  BY <1>4, <1>8, DumpFacts
<1>11. \A k \in EntriesAt(job, cwd) : k < i
  BY <1>4, <1>8, <1>9, <1>10 DEF EntriesAt
<1> QED BY <1>1, <1>4, <1>8, <1>11, WalkedIsThere

LEMMA ReturnKeeps == ASSUME NInv, N!Return PROVE NInv'
<1>1. /\ pc = "toc" /\ i >= N!n_entries /\ mem.callers # <<>>
      /\ mem' = [mem EXCEPT !.ptr = N!Last(mem.callers).ptr, !.callers = N!Front(@)]
      /\ i' = N!Last(mem.callers).i + 1 /\ cwd' = N!Front(cwd)
      /\ UNCHANGED <<fs, archive, pc>>
  BY DEF N!Return
<1>2. PICK job \in Dumps : job = mem.job
  BY DEF NInv
<1>3. OnlyTree(job) /\ Stack(job)
  BY <1>1, <1>2 DEF NInv
<1>4. PICK cs \in Seq([ptr : Nat, i : Nat]) : cs = mem.callers
  BY <1>3 DEF Stack
<1>5. PICK n \in Nat : n = Len(cs)
  OBVIOUS
<1>6. n > 0
  BY <1>1, <1>4, <1>5
<1>7. PICK q : q = cwd
  OBVIOUS
<1>8. q \in DOMAIN job.tree.tocs /\ Len(q) = n + 1
  BY <1>3, <1>4, <1>5, <1>7 DEF Stack
<1>9. PICK S : q \in Seq(S)
  BY <1>8, DumpFacts
<1>10. PICK r : r = SubSeq(q, 1, n)
  OBVIOUS
<1>11. cwd' = r
  <2>1. n + 1 - 1 = n
    OBVIOUS
  <2> QED BY <1>1, <1>7, <1>8, <1>10, <2>1 DEF N!Front
<1>12. n \in 1..Len(q)
  BY <1>6, <1>8
<1>13. /\ r \in DOMAIN job.tree.tocs /\ Len(r) = n
       /\ \A m \in 1..n : SubSeq(r, 1, m) = SubSeq(q, 1, m)
  <2>1. r \in DOMAIN job.tree.tocs
    BY <1>8, <1>10, <1>12, DumpFacts
  <2>2. \A m \in 0..n : SubSeq(SubSeq(q, 1, n), 1, m) = SubSeq(q, 1, m) /\ Len(SubSeq(q, 1, n)) = n
    BY <1>9, <1>12, StartOfStart
  <2>3. n \in 0..n /\ 1..n \subseteq 0..n
    OBVIOUS
  <2> QED BY <1>10, <2>1, <2>2, <2>3
<1>14. PICK ds : ds = SubSeq(cs, 1, n - 1)
  OBVIOUS
<1>15. /\ ds \in Seq([ptr : Nat, i : Nat]) /\ Len(ds) = n - 1 /\ \A m \in 1..(n - 1) : ds[m] = cs[m]
  <2>1. ds \in Seq([ptr : Nat, i : Nat])
    <3>1. n - 1 \in 0..Len(cs)
      BY <1>5, <1>6
    <3> QED BY <1>14, <3>1, StartIsSeq
  <2>2. Len(ds) = n - 1
    BY <1>5, <1>6, <1>14
  <2>3. \A m \in 1..(n - 1) : ds[m] = cs[m]
    BY <1>5, <1>6, <1>14
  <2> QED BY <2>1, <2>2, <2>3
<1>16. N!Front(mem.callers) = ds /\ N!Last(mem.callers) = cs[n]
  BY <1>4, <1>5, <1>14 DEF N!Front, N!Last
<1>17. cs[n] \in [ptr : Nat, i : Nat]
  <2>1. n \in 1..Len(cs)
    BY <1>5, <1>6
  <2> QED BY <2>1, ElementOf
<1>18. mem' = [job |-> job, ptr |-> cs[n].ptr, callers |-> ds]
  BY <1>1, <1>2, <1>16 DEF NInv
<1>19. mem'.callers = ds /\ mem'.ptr = cs[n].ptr /\ mem'.job = job
  BY <1>18
<1>20. i' = cs[n].i + 1
  BY <1>1, <1>16
<1>21. ASSUME NEW m \in 1..(n + 1)
       PROVE  /\ Dir(m) \in fs.dirs /\ Ptr(m) = job.tree.tocs[Dir(m)]
              /\ m <= n => /\ Done(m) \in EntriesAt(job, Dir(m))
                           /\ N!IsTable(NameAt(job, Dir(m), Done(m)))
                           /\ Dir(m + 1) = PathAt(job, Dir(m), Done(m))
              /\ \A e \in EntriesAt(job, Dir(m)) : e < Done(m) => EntryThere(job, Dir(m), e)
  BY <1>3, <1>4, <1>5 DEF Stack
<1>22. ASSUME NEW m \in 1..n
       PROVE  Ptr(m) = cs[m].ptr /\ Done(m) = cs[m].i
  BY <1>4, <1>5 DEF Ptr, Done
<1>23. ASSUME NEW m \in 1..n
       PROVE  /\ Dir(m)' = Dir(m) /\ Ptr(m)' = Ptr(m)
              /\ m # n => Done(m)' = Done(m)
              /\ m = n => Done(m)' = Done(m) + 1
  <2>1. Dir(m)' = Dir(m)
    BY <1>7, <1>11, <1>13 DEF Dir
  <2>2. CASE m = n
    <3>1. m = Len(ds) + 1
      BY <1>15, <2>2
    <3> QED BY <1>19, <1>20, <1>22, <2>1, <2>2, <3>1 DEF Ptr, Done
  <2>3. CASE m # n
    <3>1. m \in 1..(n - 1)
      BY <2>3
    <3>2. m # Len(ds) + 1 /\ ds[m] = cs[m]
      BY <1>15, <3>1
    <3> QED BY <1>19, <1>22, <2>1, <2>3, <3>2 DEF Ptr, Done
  <2> QED BY <2>2, <2>3
<1>24. Dir(n + 1) = q
  BY <1>7, <1>8, <1>9 DEF Dir
<1>25. EntryThere(job, Dir(n), Done(n))
  <2>1. AllThere(job, q)
    BY <1>1, <1>2, <1>7, EndOfTable
  <2>2. n \in 1..(n + 1)
    BY <1>6
  <2> QED BY <1>21, <1>24, <2>1, <2>2 DEF EntryThere
<1>26. \A d, e : EntryThere(job, d, e) => EntryThere(job, d, e)'
  BY <1>1, FileThereSame, ThereStays
<1>27. ASSUME NEW m \in 1..n, NEW e \in EntriesAt(job, Dir(m)), e < Done(m)'
       PROVE  EntryThere(job, Dir(m), e)'
  <2>1. PICK d : d = Dir(m)
    OBVIOUS
  <2>2. EntryThere(job, d, e)
    <3>1. CASE e < Done(m)
      <4>1. m \in 1..(n + 1)
        OBVIOUS
      <4> QED BY <1>21, <2>1, <3>1, <4>1
    <3>2. CASE ~(e < Done(m))
      <4>1. m = n /\ Done(m)' = Done(m) + 1
        BY <1>23, <1>27, <3>2
      <4>2. e \in Int /\ Done(m) \in Nat
        BY <1>17, <1>22, <4>1 DEF EntriesAt
      <4>3. e = Done(m)
        BY <1>27, <3>2, <4>1, <4>2
      <4> QED BY <1>25, <2>1, <4>1, <4>3
    <3> QED BY <3>1, <3>2
  <2> QED BY <1>23, <1>26, <2>1, <2>2
<1>28. Stack(job)'
  <2>1. \A d : EntriesAt(job, d)' = EntriesAt(job, d)
    BY DEF EntriesAt, N!EntriesOf, N!Unit
  <2>2. \A d, e : /\ PathAt(job, d, e)' = PathAt(job, d, e) /\ NameAt(job, d, e)' = NameAt(job, d, e)
    BY DEF PathAt, NameAt, N!NameOf, N!Unit
  <2>3. \A x : N!IsTable(x)' = N!IsTable(x)
    BY DEF N!IsTable, N!ROS
  <2>4. ASSUME NEW m \in 1..n
        PROVE  /\ Dir(m)' \in fs'.dirs /\ Ptr(m)' = job.tree.tocs[Dir(m)']
               /\ m <= n - 1 =>
                    /\ Done(m)' \in EntriesAt(job, Dir(m)')
                    /\ N!IsTable(NameAt(job, Dir(m)', Done(m)'))
                    /\ Dir(m + 1)' = PathAt(job, Dir(m)', Done(m)')
               /\ \A e \in EntriesAt(job, Dir(m)') : e < Done(m)' => EntryThere(job, Dir(m), e)'
    <3>1. m \in 1..(n + 1)
      OBVIOUS
    <3>2. m <= n - 1 => m + 1 \in 1..n /\ m # n
      OBVIOUS
    <3> QED BY <1>1, <1>21, <1>23, <1>27, <3>1, <3>2
  <2>5. /\ mem'.callers \in Seq([ptr : Nat, i : Nat]) /\ i' \in Nat
        /\ cwd' \in DOMAIN job.tree.tocs /\ Len(cwd') = Len(mem'.callers) + 1
        /\ Len(mem'.callers) = n - 1 /\ Len(mem'.callers) + 1 = n
    BY <1>6, <1>11, <1>13, <1>15, <1>17, <1>19, <1>20
  <2> QED BY <2>1, <2>2, <2>3, <2>4, <2>5 DEF Stack
<1>29. OnlyTree(job)'
  BY <1>1, <1>3 DEF OnlyTree
<1> QED BY <1>1, <1>2, <1>18, <1>19, <1>28, <1>29 DEF NInv

LEMMA NorFinishKeeps == ASSUME NInv, N!Finish PROVE NInv'
<1>1. /\ pc = "toc" /\ i >= N!n_entries /\ mem.callers = <<>> /\ pc' = "done"
      /\ UNCHANGED <<fs, cwd, archive, i, mem>>
  BY DEF N!Finish
<1>2. PICK job \in Dumps : job = mem.job
  BY DEF NInv
<1>3. OnlyTree(job) /\ Stack(job)
  BY <1>1, <1>2 DEF NInv
<1>4. AllThere(job, cwd)
  BY <1>1, <1>2, EndOfTable
<1>5. cwd = N!TO
  <2>1. cwd \in DOMAIN job.tree.tocs /\ Len(cwd) = 1
    BY <1>1, <1>3 DEF Stack
  <2>2. PICK S : cwd \in Seq(S)
    BY <2>1, DumpFacts
  <2>3. cwd[1] = "to"
    BY <2>1, DumpFacts
  <2> QED BY <2>1, <2>2, <2>3 DEF N!TO
<1>6. OnlyTree(job)'
  BY <1>1, <1>3 DEF OnlyTree
<1>7. AllThere(job, N!TO)'
  <2>1. PICK t : t = N!TO
    OBVIOUS
  <2>2. AllThere(job, t)'
    BY <1>1, <1>4, <1>5, <2>1, FileThereSame, ThereStays
  <2> QED BY <2>1, <2>2 DEF N!TO
<1>8. cwd' = N!TO'
  BY <1>1, <1>5 DEF N!TO
<1> QED BY <1>1, <1>2, <1>6, <1>7, <1>8 DEF NInv

LEMMA NextKeepsNInv == ASSUME NInv, N!Next PROVE NInv'
BY OpenDumpKeeps, NorFailsKeeps, TableKeeps, NorFileKeeps, ReturnKeeps, NorFinishKeeps DEF N!Next

LEMMA StutterKeepsNInv == ASSUME NInv, UNCHANGED N!vars PROVE NInv'
<1>1. UNCHANGED <<fs, cwd, archive, pc, i, mem>>
  BY DEF N!vars
<1>2. \A job : OnlyTree(job) => OnlyTree(job)'
  BY <1>1 DEF OnlyTree
<1>3. \A q, job : AllThere(job, q) => AllThere(job, q)'
  BY <1>1, FileThereSame, ThereStays
<1>4. \A job : Stack(job) => Stack(job)'
  <2>1. \A job, d, e : EntryThere(job, d, e) => EntryThere(job, d, e)'
    BY <1>1, FileThereSame, ThereStays
  <2>2. \A job, d : EntriesAt(job, d)' = EntriesAt(job, d)
    BY DEF EntriesAt, N!EntriesOf, N!Unit
  <2>3. \A job, d, e : PathAt(job, d, e)' = PathAt(job, d, e) /\ NameAt(job, d, e)' = NameAt(job, d, e)
    BY DEF PathAt, NameAt, N!NameOf, N!Unit
  <2>4. \A x : N!IsTable(x)' = N!IsTable(x)
    BY DEF N!IsTable, N!ROS
  <2>5. \A m : Dir(m)' = Dir(m) /\ Ptr(m)' = Ptr(m) /\ Done(m)' = Done(m)
    BY <1>1 DEF Dir, Ptr, Done
  <2> QED BY <1>1, <2>1, <2>2, <2>3, <2>4, <2>5 DEF Stack
<1>5. N!TO' = N!TO
  BY DEF N!TO
<1> QED BY <1>1, <1>2, <1>3, <1>4, <1>5 DEF NInv

-----------------------------------------------------------------------------
(* The tree that norunpack leaves *)

LEMMA StartOfOne ==
    ASSUME NEW S, NEW q \in Seq(S), NEW x, Len(q) >= 1, q[1] = x
    PROVE  SubSeq(q, 1, 1) = <<x>>
<1>1. PICK n \in Nat : n = Len(q) /\ n >= 1
  OBVIOUS
<1>2. PICK u, v : u = SubSeq(q, 1, 1) /\ v = <<x>>
  OBVIOUS
<1>3. u \in Seq(S) /\ Len(u) = 1
  BY <1>1, <1>2
<1>4. u[1] = x
  BY <1>1, <1>2
<1>5. u = [j \in 1..1 |-> u[j]]
  BY <1>3
<1>6. v = [j \in 1..1 |-> v[j]] /\ v[1] = x
  BY <1>2
<1>7. u = v
  BY <1>4, <1>5, <1>6
<1> QED BY <1>2, <1>7

\* What is in the target's directory has a path that begins with it.
LEMMA InTarget ==
    ASSUME NEW job \in Dumps, NEW q \in DOMAIN job.tree.tocs, NEW x
    PROVE  N!IsPrefix(N!TO, q) /\ N!IsPrefix(N!TO, q \o <<x>>)
<1>1. PICK S : q \in Seq(S)
  BY DumpFacts
<1>2. q # <<>> /\ q[1] = "to"
  BY DumpFacts
<1>3. PICK n \in Nat : n = Len(q) /\ n >= 1
  BY <1>1, <1>2
<1>4. SubSeq(q, 1, 1) = <<"to">>
  BY <1>1, <1>2, <1>3, StartOfOne
<1>5. 1 \in 1..Len(q)
  BY <1>3
<1>6. SubSeq(q \o <<x>>, 1, 1) = <<"to">> /\ Len(q \o <<x>>) = n + 1
  BY <1>1, <1>3, <1>4, <1>5, ChildPath
<1>7. SubSeq(<<"to">>, 1, 1) = <<"to">> /\ Len(<<"to">>) = 1
  <2>1. Len(<<"to">>) = 1 /\ <<"to">>[1] = "to"
    OBVIOUS
  <2>2. <<"to">> \in Seq({"to"})
    OBVIOUS
  <2>3. PICK t \in Seq({"to"}) : t = <<"to">>
    BY <2>2
  <2>4. Len(t) >= 1 /\ t[1] = "to"
    BY <2>1, <2>3
  <2>5. SubSeq(t, 1, 1) = <<"to">>
    BY <2>4, StartOfOne
  <2> QED BY <2>1, <2>3, <2>5
<1>8. N!IsPrefix(N!TO, q)
  BY <1>3, <1>4, <1>7 DEF N!IsPrefix, N!TO
<1>9. N!IsPrefix(N!TO, q \o <<x>>)
  <2>1. PICK c : c = q \o <<x>>
    OBVIOUS
  <2>2. Len(c) >= 1 /\ SubSeq(c, 1, 1) = <<"to">>
    BY <1>3, <1>6, <2>1
  <2> QED BY <1>7, <2>1, <2>2 DEF N!IsPrefix, N!TO
<1> QED BY <1>8, <1>9

\* Every file of the tree is below the target, and there in the end.
LEMMA FileOfTree ==
    ASSUME NEW job \in Dumps, AllThere(job, N!TO), NEW f \in DOMAIN job.tree.files
    PROVE  N!IsPrefix(N!TO, f) /\ FileThere(job, f)
<1>1. PICK q \in DOMAIN job.tree.tocs : \E k \in EntriesAt(job, q) :
        f = PathAt(job, q, k) /\ ~N!IsTable(NameAt(job, q, k))
  BY EntryOfFile
<1>2. PICK k \in EntriesAt(job, q) : f = PathAt(job, q, k) /\ ~N!IsTable(NameAt(job, q, k))
  BY <1>1
<1>3. N!IsPrefix(N!TO, q) /\ N!IsPrefix(N!TO, f)
  BY <1>2, InTarget DEF PathAt
<1>4. TableThere(job, q)
  BY <1>3 DEF AllThere
<1> QED BY <1>2, <1>3, <1>4 DEF TableThere

LEMMA TreeFiles ==
    ASSUME NInv, pc = "done"
    PROVE  LET tree == mem.job.tree
               old  == N!Below(mem.job.fs, N!TO)
           IN  N!Below(fs, N!TO) = [f \in DOMAIN tree.files \cup DOMAIN old |->
                                      IF f \in DOMAIN tree.files THEN tree.files[f] ELSE old[f]]
<1> DEFINE tree == mem.job.tree
           old  == N!Below(mem.job.fs, N!TO)
<1>1. PICK job \in Dumps : job = mem.job
  BY DEF NInv
<1>2. OnlyTree(job) /\ AllThere(job, N!TO)
  BY <1>1 DEF NInv
<1>3. tree = job.tree
  BY <1>1
<1>4. PICK g, o, t : g = fs.files /\ o = job.fs.files /\ t = job.tree.files
  OBVIOUS
<1>5. /\ DOMAIN o \subseteq DOMAIN g
      /\ \A f \in DOMAIN g : \/ f \in DOMAIN o /\ g[f] = o[f]
                             \/ f \in DOMAIN t /\ g[f] = t[f]
  BY <1>2, <1>4 DEF OnlyTree
<1>6. \A f \in DOMAIN t : N!IsPrefix(N!TO, f) /\ f \in DOMAIN g /\ g[f] = t[f]
  BY <1>2, <1>4, FileOfTree DEF FileThere
<1>7. old = [f \in {f \in DOMAIN o : N!IsPrefix(N!TO, f)} |-> o[f]]
  BY <1>1, <1>4 DEF N!Below
<1>8. tree.files = t
  BY <1>3, <1>4
<1> HIDE DEF tree, old
<1>9. PICK D : D = {f \in DOMAIN g : N!IsPrefix(N!TO, f)}
  OBVIOUS
<1>10. ASSUME NEW f
       PROVE  f \in D <=> f \in DOMAIN t \cup DOMAIN old
  BY <1>5, <1>6, <1>7, <1>9
<1>11. ASSUME NEW f \in D
       PROVE  g[f] = IF f \in DOMAIN t THEN t[f] ELSE old[f]
  <2>1. f \in DOMAIN g /\ N!IsPrefix(N!TO, f)
    BY <1>9
  <2>2. CASE f \in DOMAIN t
    BY <1>6, <2>2
  <2>3. CASE f \notin DOMAIN t
    <3>1. f \in DOMAIN o /\ g[f] = o[f]
      BY <1>5, <2>1, <2>3
    <3>2. old[f] = o[f]
      BY <1>7, <2>1, <3>1
    <3> QED BY <2>3, <3>1, <3>2
  <2> QED BY <2>2, <2>3
<1>12. N!Below(fs, N!TO) = [f \in D |-> g[f]]
  BY <1>4, <1>9 DEF N!Below
<1>13. [f \in D |-> g[f]] = [f \in D |-> IF f \in DOMAIN t THEN t[f] ELSE old[f]]
  BY <1>11, Zenon
<1>14. D = DOMAIN t \cup DOMAIN old
  BY <1>10
<1>15. N!Below(fs, N!TO) = [f \in DOMAIN t \cup DOMAIN old |->
                              IF f \in DOMAIN t THEN t[f] ELSE old[f]]
  BY <1>12, <1>13, <1>14, Zenon
<1>16. N!Below(fs, N!TO) = [f \in DOMAIN tree.files \cup DOMAIN old |->
                              IF f \in DOMAIN tree.files THEN tree.files[f] ELSE old[f]]
  BY <1>8, <1>15, Zenon
<1> QED BY <1>16 DEF tree, old

LEMMA NInvAsTree == ASSUME NInv PROVE N!NorAsTree
<1>1. PICK job \in Dumps : job = mem.job
  BY DEF NInv
<1>2. pc = "toc" => Len(cwd) = 1 + Len(mem.callers)
  <2>1. SUFFICES ASSUME pc = "toc" PROVE Len(cwd) = 1 + Len(mem.callers)
    OBVIOUS
  <2>2. Len(cwd) = Len(mem.callers) + 1 /\ mem.callers \in Seq([ptr : Nat, i : Nat])
    BY <2>1 DEF NInv, Stack
  <2> QED BY <2>2
<1>3. pc = "done" => cwd = N!TO /\ DOMAIN mem.job.tree.tocs \subseteq fs.dirs
  <2>1. SUFFICES ASSUME pc = "done" PROVE cwd = N!TO /\ DOMAIN mem.job.tree.tocs \subseteq fs.dirs
    OBVIOUS
  <2>2. AllThere(job, N!TO) /\ cwd = N!TO
    BY <1>1, <2>1 DEF NInv
  <2>3. \A d \in DOMAIN job.tree.tocs : d \in fs.dirs
    BY <2>2, InTarget DEF AllThere, TableThere
  <2> QED BY <1>1, <2>2, <2>3
<1> QED BY <1>2, <1>3, TreeFiles DEF N!NorAsTree

-----------------------------------------------------------------------------
(* All the tools *)

\* No other tool uses the array of cospkg, or gets to where cospkg ends.
OtherInv == files = <<>> /\ pc \notin {"packed", "unpacked"}

\* The inductive invariant of the archives.
ArchInv == \/ tool = "cos" /\ IInv /\ OutInv
           \/ tool = "pkg" /\ OtherInv /\ KInv
           \/ tool = "gpkg" /\ OtherInv /\ UInv
           \/ tool = "nor" /\ OtherInv /\ NInv
           \/ tool = "pup" /\ OtherInv /\ PInv

LEMMA InitArchInv == InitArchives => ArchInv
<1> SUFFICES ASSUME InitArchives PROVE ArchInv
  OBVIOUS
<1>1. CASE tool = "cos" /\ Init /\ NoTool
  BY <1>1, InitIInv, InitOutInv DEF ArchInv
<1>2. CASE tool = "pup" /\ NoCos /\ P!Init
  BY <1>2, InitPInv DEF ArchInv, OtherInv, NoCos, P!Init
<1>3. CASE tool = "pkg" /\ NoCos /\ K!Init
  BY <1>3, InitKInv DEF ArchInv, OtherInv, NoCos, K!Init
<1>4. CASE tool = "nor" /\ NoCos /\ N!Init
  BY <1>4, InitNInv DEF ArchInv, OtherInv, NoCos, N!Init
<1>5. CASE tool = "gpkg" /\ NoCos /\ U!Init
  BY <1>5, InitUInv DEF ArchInv, OtherInv, NoCos, U!Init
<1> QED BY <1>1, <1>2, <1>3, <1>4, <1>5 DEF InitArchives

LEMMA OthersStayOut ==
    ASSUME pc \notin {"packed", "unpacked"}, P!Next \/ K!Next \/ N!Next \/ U!Next
    PROVE  pc' \notin {"packed", "unpacked"}
<1>1. CASE K!Next
  BY <1>1 DEF K!Next, K!OpenPkg, K!GetFails, K!GetInputs, K!WritePkg, K!Killed, K!NoPkg, K!MapPkg,
       K!EmptyPkg, K!DecryptFails, K!Decrypt, K!WeirdInfo, K!UnpackInfo, K!ContentBehindEnd,
       K!InflateFails, K!UnpackContent, K!Stop
<1>2. CASE N!Next
  BY <1>2 DEF N!Next, N!OpenDump, N!OpenFails, N!Loader, N!Ros, N!NoDir, N!WriteFile, N!Return, N!Finish,
       N!CannotEnter, N!Call
<1>3. CASE U!Next
  BY <1>3 DEF U!Next, U!OpenFails, U!Open, U!RetailFails, U!DecryptRetail, U!RetailRunsOff,
       U!DecryptOctet, U!DecryptEnd, U!Refused, U!MakeDir, U!WriteFile, U!Finish
<1>4. CASE P!Next
  BY <1>4 DEF P!Next, P!NoKey, P!OpenPup, P!NoDirectory, P!ChangeDirectory, P!FindFile, P!AllFound,
       P!PlaceFile, P!StartHeader, P!BuildEntry, P!WriteHeader, P!WriteData, P!PackEnd, P!Damage, P!OpenPackage,
       P!TargetExists, P!MakeTarget, P!CheckHeader, P!OffTable, P!UnknownEntry,
       P!HashOffFile, P!UnpackSection, P!UnpackEnd, P!Stop
<1> QED BY <1>1, <1>2, <1>3, <1>4

\* No step of any tool breaks the invariant.
LEMMA NextArchInv == ArchInv /\ [NextArchives]_<<vars, toolVars, tool>> => ArchInv'
<1> SUFFICES ASSUME ArchInv, [NextArchives]_<<vars, toolVars, tool>> PROVE ArchInv'
  OBVIOUS
<1>1. UNCHANGED tool
  BY DEF NextArchives
<1>2. CASE tool = "cos"
  <2>1. IInv /\ OutInv
    BY <1>2 DEF ArchInv
  <2>2. [Next]_vars
    BY <1>2 DEF NextArchives
  <2>3. IInv' /\ OutInv'
    BY <2>1, <2>2, NextIInv, NextOutInv
  <2> QED BY <1>1, <1>2, <2>3 DEF ArchInv
<1>3. CASE tool \in {"pup", "pkg", "nor", "gpkg"}
  <2>1. OtherInv
    BY <1>3 DEF ArchInv
  <2>2. UNCHANGED files /\ (UNCHANGED pc \/ P!Next \/ K!Next \/ N!Next \/ U!Next)
    BY <1>3 DEF NextArchives, vars
  <2>3. OtherInv'
    BY <2>1, <2>2, OthersStayOut DEF OtherInv
  <2>4. CASE tool = "pkg"
    <3>1. KInv
      BY <2>4 DEF ArchInv
    <3>2. K!Next \/ (UNCHANGED toolVars /\ UNCHANGED <<pc, i>>)
      BY <2>4 DEF NextArchives, vars
    <3>3. KInv'
      BY <3>1, <3>2, NextKeepsKInv, StutterKeepsKInv
    <3> QED BY <1>1, <2>3, <2>4, <3>3 DEF ArchInv
  <2>5. CASE tool = "gpkg"
    <3>1. UInv
      BY <2>5 DEF ArchInv
    <3>2. U!Next \/ UNCHANGED U!vars
      BY <2>5 DEF NextArchives, vars, toolVars, U!vars
    <3>3. UInv'
      BY <3>1, <3>2, NextKeepsUInv, StutterKeepsUInv
    <3> QED BY <1>1, <2>3, <2>5, <3>3 DEF ArchInv
  <2>6. CASE tool = "nor"
    <3>1. NInv
      BY <2>6 DEF ArchInv
    <3>2. N!Next \/ UNCHANGED N!vars
      BY <2>6 DEF NextArchives, vars, toolVars, N!vars
    <3>3. NInv'
      BY <3>1, <3>2, NextKeepsNInv, StutterKeepsNInv
    <3> QED BY <1>1, <2>3, <2>6, <3>3 DEF ArchInv
  <2>7. CASE tool = "pup"
    <3>1. PInv
      BY <2>7 DEF ArchInv
    <3>2. P!Next \/ UNCHANGED <<fs, cwd, archive, pc, i, mem>>
      BY <2>7 DEF NextArchives, vars, toolVars
    <3>3. PInv'
      BY <3>1, <3>2, NextKeepsPInv, StutterKeepsPInv
    <3> QED BY <1>1, <2>3, <2>7, <3>3 DEF ArchInv
  <2> QED BY <1>3, <2>4, <2>5, <2>6, <2>7
<1> QED BY <1>2, <1>3 DEF ArchInv

\* The same for all the tools of this module: the array and the files of cospkg
\* stay as they are whichever tool runs.
THEOREM ArchivesIntact == Archives => []Intact
<1>1. ArchInv => Intact
  BY IntactHolds, CosAssumption DEF ArchInv, OtherInv, Intact
<1> QED BY <1>1, InitArchInv, NextArchInv, PTL DEF Archives

\* What cosunpkg gives back is there, whichever tool runs.
THEOREM ArchivesUnpacked == Archives => []Unpacked
<1>1. ArchInv => Unpacked
  BY OutIsAll DEF ArchInv, OtherInv, Unpacked
<1> QED BY <1>1, InitArchInv, NextArchInv, PTL DEF Archives

\* When unpkg ends without an error all that it was asked for comes from one
\* package, the last that was written to its end, however often the disk was
\* full or pkg was stopped; and such a package is unpacked if there is a key:
\* main() and build_pkg() of pkg.c, unpack_info(), unpack_content() of unpkg.c.
THEOREM PackagesAreWhole == Archives => []PackageWhole
<1>1. ArchInv => PackageWhole
  BY DEF ArchInv, KInv, PackageWhole
<1> QED BY <1>1, InitArchInv, NextArchInv, PTL DEF Archives

\* ungpkg decrypts every octet with that of the stream that encrypted it, up to
\* a last block of any length, and makes the files of the package, the last
\* entry of each path, besides those that were there; when directories come
\* before what they contain it ends so and makes them too, but for a retail
\* package of 4 GiB or more: decrypt_debug_pkg(), decrypt_retail_pkg(),
\* unpack_pkg() of ungpkg.c, aes128ctr() of tools.c.
THEOREM GpkgIsRestored == Archives => []GpkgRestored
<1>1. ArchInv => GpkgRestored
  BY UInvRestored DEF ArchInv, GpkgRestored
<1> QED BY <1>1, InitArchInv, NextArchInv, PTL DEF Archives

\* norunpack leaves below its target the tree of tables and files that the dump
\* was made of, beside what was there before and in no other place, and ends in
\* the directory where it began, however deep tables are in tables: do_toc(),
\* new_dir() and main() of norunpack.c.
THEOREM NorIsAsTree == Archives => []NorAsTree
<1>1. ArchInv => NorAsTree
  BY NInvAsTree DEF ArchInv, NorAsTree
<1> QED BY <1>1, InitArchInv, NextArchInv, PTL DEF Archives

\* An undamaged package that puppack has made of any directory is accepted by
\* pupunpack, and below its target are the files that the table of names names,
\* as they were, and no other: find_files(), build_header() and write_pup() of
\* puppack.c, do_section() and do_pup() of pupunpack.c.
THEOREM PupIsRestored == Archives => []PupRestored
<1>1. ArchInv => PupRestored
  BY PInvRestored DEF ArchInv, PupRestored
<1> QED BY <1>1, InitArchInv, NextArchInv, PTL DEF Archives

\* With the key pupunpack does not end without a "FAIL" when a word was damaged
\* that a hash covers: any but the padding behind the hash of the header and, in
\* a file of 4 GiB or more, what is behind its length modulo 4 GiB.  When it says
\* that the header is right, every file has the length that it had, and it says
\* "OK" of just those that come out as they went in, so far as they are hashed:
\* check_hmac(), do_section() and do_pup() of pupunpack.c, sha1_hmac() of tools.c.
THEOREM PupVerdictsHold == Archives => []PupVerdicts
<1>1. ArchInv => PupVerdicts
  BY PInvVerdicts DEF ArchInv, PupVerdicts
<1> QED BY <1>1, InitArchInv, NextArchInv, PTL DEF Archives
=============================================================================
