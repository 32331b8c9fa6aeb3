------------------------------ MODULE PupProofs ------------------------------
(***************************************************************************)
(* pupunpack gives back what puppack has packed, and is right in what it   *)
(* says of a package that was damaged: for every table of names, every set *)
(* of files, and every word that may be damaged.  The invariant PInv says  *)
(* at each step what has been found, placed and written so far, and which  *)
(* of the hashes still are those of what they cover.                       *)
(***************************************************************************)
EXTENDS Archives, FiniteSetTheorems, Lemmas

(* puppack and pupunpack: what is known at each step *)

\* A sequence of L words.
IsArray(words, L) == words = [w \in 1..L |-> words[w]]

\* The place of a name of the table, before and after.
SourceOf(m) == P!SRC \o <<t_names[m].name>>
TargetOf(f) == P!TO \o <<(CHOOSE t \in P!ToSet(t_names) : t.id = f.id).name>>

Payloads(job) == {job.fs.files[p] : p \in DOMAIN job.fs.files}
PupFile(job) == [id : 0..(W - 1), data : Payloads(job), len : Nat, offset : Nat]

\* The files fl are those that exist of the first n names, none of them twice.
FoundSoFar(job, fl, n) ==
    /\ fl \in Seq(PupFile(job)) /\ Len(fl) <= n
    /\ \A k \in 1..Len(fl) :
         /\ fl[k].len = Len(fl[k].data)
         /\ \E m \in 1..n : /\ fl[k].id = t_names[m].id /\ SourceOf(m) \in DOMAIN job.fs.files
                            /\ fl[k].data = job.fs.files[SourceOf(m)]
    /\ \A m \in 1..n : SourceOf(m) \in DOMAIN job.fs.files => \E k \in 1..Len(fl) : fl[k].id = t_names[m].id
    /\ \A k, l \in 1..Len(fl) : fl[k].id = fl[l].id => k = l

\* Where the first n files end.
EndAt(fl, n) == IF n = 0 THEN P!HdrSize(Len(fl)) ELSE fl[n].offset + fl[n].len

\* The first n files have places, apart from each other, that leave no gap.
Placed(fl, n) ==
    /\ \A k \in 1..n :
         /\ fl[k].offset = EndAt(fl, k - 1)
         /\ fl[k].offset >= P!HdrSize(Len(fl)) /\ fl[k].offset + fl[k].len <= EndAt(fl, n)
    /\ \A k, l \in 1..n : k < l => fl[k].offset + fl[k].len <= fl[l].offset
    /\ \A w \in P!HdrSize(Len(fl))..(EndAt(fl, n) - 1) :
         \E k \in 1..n : fl[k].offset <= w /\ w < fl[k].offset + fl[k].len

\* A word that damage makes another one.
Sound(word) == /\ word # P!JUNK /\ word[1] # "frayed"
               /\ word[1] = "number" => word[2] \in Nat /\ word = P!Num(word[2])

\* The entries of file k in the two tables of a.
RowThere(fl, a, k) ==
    a[4 * k + 3] = P!Num(fl[k].id) /\ a[4 * k + 4] = P!Num(fl[k].offset) /\ a[4 * k + 5] = P!Num(fl[k].len)
HashThere(fl, a, k) ==
    /\ a[4 * Len(fl) + 4 * k + 3] = P!Num(k - 1)
    /\ \A w \in 1..3 : a[4 * Len(fl) + 4 * k + 3 + w] = P!Hmac(fl[k].data)[w]

\* The header with the entries of the first n files.
HeaderSoFar(fl, h, n) ==
    /\ IsArray(h, P!HdrSize(Len(fl)))
    /\ \A w \in 1..P!HdrSize(Len(fl)) : Sound(h[w])
    /\ h[4] = P!Num(Len(fl))
    /\ \A k \in 1..n : RowThere(fl, h, k) /\ HashThere(fl, h, k)

\* The header of a is whole.
HeaderThere(fl, a) ==
    /\ IsArray(a, EndAt(fl, Len(fl)))
    /\ a[4] = P!Num(Len(fl))
    /\ \A k \in 1..Len(fl) : RowThere(fl, a, k) /\ HashThere(fl, a, k)
    /\ \A w \in 1..3 :
         P!Bare(a[P!Covered(Len(fl)) + w]) = P!Hmac(SubSeq(a, 1, P!Covered(Len(fl))))[w]

\* File k is there, or what is hashed of it.
DataThere(fl, a, k)   == \A w \in 1..fl[k].len : a[fl[k].offset + w] = fl[k].data[w]
HashedThere(fl, a, k) == \A w \in 1..(fl[k].len % W) : a[fl[k].offset + w] = fl[k].data[w]

\* The package with the header and the first n files.
WrittenSoFar(fl, a, n) ==
    /\ IsArray(a, EndAt(fl, n))
    /\ \A w \in 1..EndAt(fl, n) : Sound(a[w]) /\ (w >= P!HdrSize(Len(fl)) => a[w][1] # "hmac")
    /\ a[4] = P!Num(Len(fl))
    /\ \A k \in 1..Len(fl) : RowThere(fl, a, k) /\ HashThere(fl, a, k)
    /\ \A w \in 1..3 : a[P!Covered(Len(fl)) + w] = P!Hmac(SubSeq(a, 1, P!Covered(Len(fl))))[w]
    /\ \A k \in 1..n : DataThere(fl, a, k)

\* Words of the mapped file a.
WordsOf(a, p, len) == [w \in 1..len |-> IF p + w - 1 < Len(a) THEN a[p + w - 1 + 1] ELSE P!ZERO]

\* The hash at p of a, without the padding.
HmacOf(a, p) == [w \in 1..3 |-> P!Bare(WordsOf(a, p, 3)[w])]

\* Its header does not have the hash that it should.
HeaderWrong(a) ==
    LET n == P!Number(IF 3 < Len(a) THEN a[3 + 1] ELSE P!ZERO)
    IN  n \in Nat /\ HmacOf(a, P!PUP_HDR + 8 * n) # P!Hmac(WordsOf(a, 0, P!Covered(n)))

\* The package is as it was written, or not in word d.
PackageIs(fl, a, d) ==
    \/ d = 0 /\ WrittenSoFar(fl, a, Len(fl))
    \/ d \in 1..(8 * Len(fl) + 9) /\ HeaderWrong(a)
    \/ /\ P!Unhashed(fl, d) \/ \E k \in 1..Len(fl) : ~HashedThere(fl, a, k)
       /\ d \in Nat /\ d > 8 * Len(fl) + 9 /\ HeaderThere(fl, a)

\* What is said of file k, and what is written.
SaidOf(job, fl, a, k) ==
    IF ~job.unpack_key THEN "???"
    ELSE IF P!Hashed(WordsOf(a, fl[k].offset, fl[k].len)) = P!Hashed(fl[k].data) THEN "OK" ELSE "FAIL"

\* The first n files are unpacked, to g.
UnpackedSoFar(job, fl, a, g, said, n) ==
    /\ said = [k \in 1..(n + 1) |-> IF k = 1 THEN IF job.unpack_key THEN "OK" ELSE "???"
                                    ELSE SaidOf(job, fl, a, k - 1)]
    /\ \A k \in 1..n : /\ TargetOf(fl[k]) \in DOMAIN g
                       /\ g[TargetOf(fl[k])] = WordsOf(a, fl[k].offset, fl[k].len)
    /\ \A q \in DOMAIN g : P!IsPrefix(P!TO, q) => \E k \in 1..n : q = TargetOf(fl[k])

\* The files that are packed stay as they were.
SourcesStay(job) ==
    \A m \in 1..Len(t_names) :
        /\ SourceOf(m) \in DOMAIN job.fs.files <=> SourceOf(m) \in DOMAIN fs.files
        /\ SourceOf(m) \in DOMAIN fs.files => fs.files[SourceOf(m)] = job.fs.files[SourceOf(m)]

\* The package is the only new file.
OnlyPackage(job) ==
    /\ fs = [dirs |-> fs.dirs, files |-> fs.files]
    /\ fs.dirs = job.fs.dirs
    /\ DOMAIN fs.files = DOMAIN job.fs.files \cup {P!PUP}

\* What has been unpacked while pc = "section", and in the end.
Unpacking(n) ==
    \/ /\ mem.damaged \in 1..(8 * Len(mem.files) + 9)
       /\ mem.said \in Seq({"OK", "FAIL", "???"})
       /\ mem.job.unpack_key => Len(mem.said) > 0 /\ mem.said[1] = "FAIL"
    \/ /\ mem.damaged \notin 1..(8 * Len(mem.files) + 9)
       /\ n \in 0..Len(mem.files)
       /\ UnpackedSoFar(mem.job, mem.files, archive, fs.files, mem.said, n)

PackInv ==
    /\ mem.damaged = 0
    /\ pc = "pack" => fs = mem.job.fs
    /\ pc \in {"pack", "chdir"} => mem.files = <<>> /\ cwd = <<>>
    /\ pc \in {"chdir", "find", "place", "header", "write"} => OnlyPackage(mem.job)
    /\ pc \in {"find", "place", "header", "write"} => cwd = P!SRC
    /\ pc = "find" => i \in 0..Len(t_names) /\ FoundSoFar(mem.job, mem.files, i)
    /\ pc \in {"place", "header", "write"} =>
         FoundSoFar(mem.job, mem.files, Len(t_names)) /\ i \in 0..Len(mem.files)
    /\ pc = "place" => Placed(mem.files, i)
    /\ pc \in {"header", "write"} => Placed(mem.files, Len(mem.files))
    /\ pc = "header" => HeaderSoFar(mem.files, mem.hdr, i)
    /\ pc = "write" => WrittenSoFar(mem.files, fs.files[P!PUP], i)

UnpackInv ==
    /\ FoundSoFar(mem.job, mem.files, Len(t_names)) /\ Placed(mem.files, Len(mem.files))
    /\ pc \in {"damage", "mkdir"} => OnlyPackage(mem.job) /\ cwd = <<>>
    /\ pc = "damage" => PackageIs(mem.files, fs.files[P!PUP], mem.damaged)
    /\ pc \in {"damage", "mkdir", "check"} => i = 0
    /\ pc \in {"mkdir", "check", "section", "done"} => PackageIs(mem.files, archive, mem.damaged)
    /\ pc \in {"check", "section", "done"} => cwd = P!TO
    /\ pc \in {"check", "section"} => fs = [dirs |-> fs.dirs, files |-> fs.files]
    /\ pc = "check" => \A q \in DOMAIN fs.files : ~P!IsPrefix(P!TO, q)
    /\ pc = "section" => Unpacking(i)
    /\ pc = "done" => Unpacking(Len(mem.files))

\* The inductive invariant of puppack and pupunpack.
PInv ==
    /\ mem = [job |-> mem.job, files |-> mem.files, data_size |-> mem.data_size, hdr |-> mem.hdr,
              said |-> mem.said, damaged |-> mem.damaged]
    /\ mem.job \in PupJobs /\ mem.data_size \in Nat
    /\ pc # "pack" => SourcesStay(mem.job)
    /\ pc \in {"pack", "chdir", "find", "place", "header", "write"} => PackInv
    /\ pc \in {"damage", "mkdir", "check", "section", "done"} => UnpackInv
    /\ pc \in {"failed", "crashed"} => cwd # P!TO \/ mem.damaged # 0
    /\ pc \in {"pack", "chdir", "find", "place", "header", "write", "damage", "mkdir", "check",
               "section", "done", "failed", "crashed"}

-----------------------------------------------------------------------------
(* Names, sizes and jobs *)

LEMMA NamesFacts ==
    /\ W \in Nat /\ W > 0 /\ PAGE \in Nat /\ Len(t_names) \in Nat
    /\ W > 8 * Len(t_names) + 6
    /\ \A m \in 1..Len(t_names) : t_names[m].id \in 0..(W - 1)
    /\ \A m, n \in 1..Len(t_names) :
         t_names[m].id = t_names[n].id \/ t_names[m].name = t_names[n].name => m = n
    /\ \A t : t \in P!ToSet(t_names) <=> \E m \in 1..Len(t_names) : t = t_names[m]
<1>0. W \in Nat /\ W > P!Covered(Len(t_names)) /\ PAGE \in Nat /\ P!IsTable
  BY PupAssumption
<1>2. t_names \in Seq(P!ToSet(t_names))
  BY <1>0 DEF P!IsTable
<1>3. Len(t_names) \in Nat /\ DOMAIN t_names = 1..Len(t_names)
  BY <1>2
<1>1. W \in Nat /\ W > 8 * Len(t_names) + 6 /\ W > 0 /\ PAGE \in Nat /\ P!IsTable
  BY <1>0, <1>3 DEF P!Covered, P!PUP_HDR
<1>4. \A m \in 1..Len(t_names) : t_names[m].id \in 0..(W - 1)
  BY <1>1, <1>3 DEF P!IsTable
<1>5. \A m, n \in 1..Len(t_names) :
        t_names[m].id = t_names[n].id \/ t_names[m].name = t_names[n].name => m = n
  BY <1>1, <1>3 DEF P!IsTable
<1>6. \A t : t \in P!ToSet(t_names) <=> \E m \in 1..Len(t_names) : t = t_names[m]
  BY <1>3 DEF P!ToSet
<1> QED BY <1>1, <1>3, <1>4, <1>5, <1>6

\* What is hashed of D words.
LEMMA HashedFacts ==
    ASSUME NEW D \in Nat, NEW y, IsArray(y, D)
    PROVE  /\ D % W \in Nat /\ D % W <= D
           /\ P!Hashed(y) = [w \in 1..(D % W) |-> y[w]]
           /\ D < W => P!Hashed(y) = y
<1>0. W \in Nat /\ W > 0
  BY NamesFacts
<1>1. PICK r \in 0..(W - 1) : r = D % W
  BY <1>0, ModRange
<1>2. D < W => r = D
  BY <1>0, <1>1, ModOfWord
<1>3. r <= D
  BY <1>0, <1>1, <1>2
<1>4. Len(y) = D
  BY DEF IsArray
<1>5. P!Hashed(y) = SubSeq(y, 1, r)
  BY <1>1, <1>4 DEF P!Hashed
<1>6. SubSeq(y, 1, r) = [w \in 1..r |-> y[w]]
  <2>1. PICK s : s = SubSeq(y, 1, r)
    OBVIOUS
  <2>2. s = [w \in 1..(1 + r - 1) |-> y[w + 1 - 1]]
    BY <2>1
  <2>3. 1 + r - 1 = r /\ \A w \in 1..r : w + 1 - 1 = w
    OBVIOUS
  <2> QED BY <2>1, <2>2, <2>3
<1>7. D < W => P!Hashed(y) = y
  BY <1>2, <1>5, <1>6 DEF IsArray
<1> QED BY <1>0, <1>1, <1>3, <1>5, <1>6, <1>7

LEMMA PupSizes == \A n \in Nat : P!HdrSize(n) = 8 * n + 10 /\ P!Covered(n) = 8 * n + 6
BY DEF P!HdrSize, P!Covered, P!PUP_HDR

\* The entry of the table with a number is the only one.
LEMMA EntryWithId ==
    ASSUME NEW m \in 1..Len(t_names)
    PROVE  /\ t_names[m] \in P!ToSet(t_names)
           /\ \A t \in P!ToSet(t_names) : t.id = t_names[m].id => t = t_names[m]
           /\ (CHOOSE t \in P!ToSet(t_names) : t.id = t_names[m].id) = t_names[m]
<1>1. t_names[m] \in P!ToSet(t_names)
  BY NamesFacts
<1>2. ASSUME NEW t \in P!ToSet(t_names), t.id = t_names[m].id
      PROVE  t = t_names[m]
  <2>1. PICK n \in 1..Len(t_names) : t = t_names[n]
    BY NamesFacts
  <2> QED BY <1>2, <2>1, NamesFacts
<1> QED BY <1>1, <1>2

\* A sequence of words has its length.
LEMMA ArrayFacts ==
    ASSUME NEW L \in Nat, NEW words, IsArray(words, L)
    PROVE  Len(words) = L /\ DOMAIN words = 1..L
BY DEF IsArray

\* What is known of a job.
LEMMA PupJobFacts ==
    ASSUME NEW job \in PupJobs
    PROVE  /\ P!IsJob(job) /\ job.unpack_key \in BOOLEAN
           /\ job.fs = [dirs |-> job.fs.dirs, files |-> job.fs.files]
           /\ \A data \in Payloads(job) :
                /\ IsArray(data, Len(data)) /\ Len(data) \in Nat
                /\ \A w \in 1..Len(data) : Sound(data[w]) /\ data[w][1] # "hmac"
<1>1. P!IsJob(job)
  BY PupAssumption
<1>2. job.unpack_key \in BOOLEAN /\ P!IsFileSystem(job.fs)
  BY <1>1 DEF P!IsJob
<1>3. ASSUME NEW data \in Payloads(job)
      PROVE  /\ IsArray(data, Len(data)) /\ Len(data) \in Nat
             /\ \A w \in 1..Len(data) : Sound(data[w]) /\ data[w][1] # "hmac"
  <2>1. PICK p \in DOMAIN job.fs.files : data = job.fs.files[p]
    BY DEF Payloads
  <2>2. data \in Seq(P!ToSet(data))
    BY <1>2, <2>1 DEF P!IsFileSystem
  <2>3. Len(data) \in Nat /\ IsArray(data, Len(data)) /\ DOMAIN data = 1..Len(data)
    BY <2>2 DEF IsArray
  <2>4. ASSUME NEW w \in 1..Len(data)
        PROVE  Sound(data[w]) /\ data[w][1] # "hmac"
    <3>1. data[w] \in P!ToSet(data)
      BY <2>3 DEF P!ToSet
    <3>2. P!IsWord(data[w])
      BY <1>1, <2>1, <3>1 DEF P!IsJob
    <3>3. PICK x : x = data[w]
      OBVIOUS
    <3>4. x[1] \notin {"hmac", "junk", "frayed"} /\ (x[1] = "number" => x[2] \in Nat /\ x = P!Num(x[2]))
      BY <3>2, <3>3 DEF P!IsWord
    <3>5. P!JUNK[1] = "junk"
      BY DEF P!JUNK
    <3>6. x # P!JUNK
      BY <3>4, <3>5
    <3>7. Sound(x)
      BY <3>4, <3>6 DEF Sound
    <3> QED BY <3>3, <3>4, <3>7
  <2> QED BY <2>3, <2>4
<1> QED BY <1>1, <1>2, <1>3 DEF P!IsFileSystem

\* What is known of the files that have been found.
LEMMA FoundFacts ==
    ASSUME NEW job \in PupJobs, NEW fl, NEW n, FoundSoFar(job, fl, n)
    PROVE  /\ Len(fl) \in Nat /\ fl \in Seq(PupFile(job)) /\ Len(fl) <= n
           /\ \A k \in 1..Len(fl) :
                /\ fl[k] \in PupFile(job) /\ fl[k].id \in 0..(W - 1)
                /\ fl[k].len \in Nat /\ fl[k].offset \in Nat /\ Len(fl[k].data) = fl[k].len
                /\ IsArray(fl[k].data, fl[k].len)
                /\ \A w \in 1..fl[k].len : Sound(fl[k].data[w]) /\ fl[k].data[w][1] # "hmac"
<1>1. fl \in Seq(PupFile(job)) /\ Len(fl) <= n
  BY DEF FoundSoFar
<1>2. Len(fl) \in Nat /\ \A k \in 1..Len(fl) : fl[k] \in PupFile(job)
  BY <1>1
<1>3. ASSUME NEW k \in 1..Len(fl)
      PROVE  /\ fl[k] \in PupFile(job) /\ fl[k].id \in 0..(W - 1)
             /\ fl[k].len \in Nat /\ fl[k].offset \in Nat /\ Len(fl[k].data) = fl[k].len
             /\ IsArray(fl[k].data, fl[k].len)
             /\ \A w \in 1..fl[k].len : Sound(fl[k].data[w]) /\ fl[k].data[w][1] # "hmac"
  <2>1. PICK f : f = fl[k]
    OBVIOUS
  <2>2. f \in PupFile(job)
    BY <1>2, <2>1
  <2>3. f.id \in 0..(W - 1) /\ f.data \in Payloads(job) /\ f.len \in Nat /\ f.offset \in Nat
    BY <2>2 DEF PupFile
  <2>4. f.len = Len(f.data)
    BY <2>1 DEF FoundSoFar
  <2>5. PICK data \in Payloads(job) : data = f.data
    BY <2>3
  <2>6. /\ IsArray(data, Len(data))
        /\ \A w \in 1..Len(data) : Sound(data[w]) /\ data[w][1] # "hmac"
    BY PupJobFacts
  <2> QED BY <2>1, <2>2, <2>3, <2>4, <2>5, <2>6
<1> QED BY <1>1, <1>2, <1>3

\* An operator that has no state in it.
LEMMA PupStays ==
    /\ \A job, fl, n : FoundSoFar(job, fl, n)' <=> FoundSoFar(job, fl, n)
    /\ \A fl, n : Placed(fl, n)' <=> Placed(fl, n)
    /\ \A fl, h, n : HeaderSoFar(fl, h, n)' <=> HeaderSoFar(fl, h, n)
    /\ \A fl, a, n : WrittenSoFar(fl, a, n)' <=> WrittenSoFar(fl, a, n)
    /\ \A fl, a, d : PackageIs(fl, a, d)' <=> PackageIs(fl, a, d)
    /\ P!PUP' = P!PUP /\ P!SRC' = P!SRC /\ P!TO' = P!TO
<1>1. ASSUME NEW job, NEW fl, NEW n
      PROVE  FoundSoFar(job, fl, n)' <=> FoundSoFar(job, fl, n)
  BY DEF FoundSoFar, PupFile, Payloads, SourceOf, P!SRC
<1>2. ASSUME NEW fl, NEW n
      PROVE  Placed(fl, n)' <=> Placed(fl, n)
  BY DEF Placed, EndAt, P!HdrSize, P!PUP_HDR
<1>3. ASSUME NEW fl, NEW h, NEW n
      PROVE  HeaderSoFar(fl, h, n)' <=> HeaderSoFar(fl, h, n)
  BY DEF HeaderSoFar, IsArray, Sound, RowThere, HashThere, P!HdrSize, P!PUP_HDR, P!Num, P!Hmac, P!Hashed,
         P!JUNK
<1>4. ASSUME NEW fl, NEW a, NEW n
      PROVE  WrittenSoFar(fl, a, n)' <=> WrittenSoFar(fl, a, n)
  BY DEF WrittenSoFar, IsArray, EndAt, Sound, RowThere, HashThere, DataThere, P!HdrSize, P!PUP_HDR, P!Num,
         P!Hmac, P!Hashed, P!JUNK, P!Covered
<1>5. ASSUME NEW fl, NEW a, NEW d
      PROVE  PackageIs(fl, a, d)' <=> PackageIs(fl, a, d)
  <2>1. HeaderThere(fl, a)' <=> HeaderThere(fl, a)
    BY DEF HeaderThere, IsArray, EndAt, RowThere, HashThere, P!HdrSize, P!PUP_HDR, P!Num, P!Hmac,
           P!Hashed, P!Bare, P!Covered
  <2>2. HeaderWrong(a)' <=> HeaderWrong(a)
    BY DEF HeaderWrong, HmacOf, WordsOf, P!Number, P!ZERO, P!Num, P!Hmac, P!Hashed, P!Bare, P!PUP_HDR,
           P!Covered
  <2>3. \A k : HashedThere(fl, a, k)' <=> HashedThere(fl, a, k)
    BY DEF HashedThere
  <2>4. WrittenSoFar(fl, a, Len(fl))' <=> WrittenSoFar(fl, a, Len(fl))
    BY <1>4
  <2>5. P!Unhashed(fl, d)' <=> P!Unhashed(fl, d)
    BY DEF P!Unhashed, P!HdrSize, P!PUP_HDR
  <2> QED BY <2>1, <2>2, <2>3, <2>4, <2>5 DEF PackageIs
<1>6. P!PUP' = P!PUP /\ P!SRC' = P!SRC /\ P!TO' = P!TO
  BY DEF P!PUP, P!SRC, P!TO
<1> QED BY <1>1, <1>2, <1>3, <1>4, <1>5, <1>6

-----------------------------------------------------------------------------
(* puppack: the files are found and placed *)

LEMMA InitPInv == P!Init => PInv
<1> SUFFICES ASSUME P!Init PROVE PInv
  OBVIOUS
<1>1. PICK job \in PupJobs :
        fs = job.fs /\ mem = P!NoMem(job) /\ cwd = <<>> /\ pc = "pack"
  BY DEF P!Init
<1>2. /\ mem.job = job /\ mem.files = <<>> /\ mem.data_size = 0 /\ mem.damaged = 0
      /\ mem = [job |-> mem.job, files |-> mem.files, data_size |-> mem.data_size,
                hdr |-> mem.hdr, said |-> mem.said, damaged |-> mem.damaged]
  BY <1>1 DEF P!NoMem
<1>3. PackInv
  BY <1>1, <1>2 DEF PackInv
<1> QED BY <1>1, <1>2, <1>3 DEF PInv

\* What memcpy_to_file() does.
LEMMA PutFileFacts ==
    ASSUME NEW f, f = [dirs |-> f.dirs, files |-> f.files], NEW path, NEW data,
           NEW g, g = P!memcpy_to_file(f, path, data)
    PROVE  /\ g = [dirs |-> g.dirs, files |-> g.files] /\ g.dirs = f.dirs
           /\ DOMAIN g.files = DOMAIN f.files \cup {path} /\ g.files[path] = data
           /\ \A q \in DOMAIN f.files : q # path => g.files[q] = f.files[q]
<1>1. g = [f EXCEPT !.files = [q \in DOMAIN f.files \cup {path} |->
                                 IF q = path THEN data ELSE f.files[q]]]
  BY DEF P!memcpy_to_file
<1>2. /\ g.files = [q \in DOMAIN f.files \cup {path} |-> IF q = path THEN data ELSE f.files[q]]
      /\ g.dirs = f.dirs /\ g = [dirs |-> g.dirs, files |-> g.files]
  BY <1>1
<1> QED BY <1>2

\* The paths of the package, the sources and the targets differ.
LEMMA PupPaths ==
    /\ P!TO # <<>> /\ P!TO # P!SRC
    /\ \A m : SourceOf(m) # P!PUP /\ \A f : SourceOf(m) # TargetOf(f)
    /\ \A f : TargetOf(f) # P!PUP
<1>1. P!TO = <<"to">> /\ P!SRC = <<"src">> /\ P!PUP = <<"pup">>
  BY DEF P!TO, P!SRC, P!PUP
<1>2. ASSUME NEW x
      PROVE  /\ (<<"src">> \o <<x>>)[1] = "src" /\ Len(<<"src">> \o <<x>>) = 2
             /\ (<<"to">> \o <<x>>)[1] = "to" /\ Len(<<"to">> \o <<x>>) = 2
  OBVIOUS
<1>3. P!TO # <<>> /\ P!TO # P!SRC
  BY <1>1
<1>4. ASSUME NEW m
      PROVE  SourceOf(m)[1] = "src" /\ Len(SourceOf(m)) = 2
  BY <1>1, <1>2 DEF SourceOf
<1>5. ASSUME NEW f
      PROVE  TargetOf(f)[1] = "to" /\ Len(TargetOf(f)) = 2
  BY <1>1, <1>2 DEF TargetOf
<1>6. Len(P!PUP) = 1
  BY <1>1
<1> QED BY <1>3, <1>4, <1>5, <1>6

\* Writing the package changes no source.
LEMMA PackageWritten ==
    ASSUME NEW job, NEW data, fs = [dirs |-> fs.dirs, files |-> fs.files],
           fs' = P!memcpy_to_file(fs, P!PUP, data)
    PROVE  /\ fs' = [dirs |-> fs'.dirs, files |-> fs'.files] /\ fs'.dirs = fs.dirs
           /\ DOMAIN fs'.files = DOMAIN fs.files \cup {P!PUP} /\ fs'.files[P!PUP] = data
           /\ SourcesStay(job) => SourcesStay(job)'
<1>1. PICK f, g : f = fs /\ g = fs'
  OBVIOUS
<1>2. f = [dirs |-> f.dirs, files |-> f.files] /\ g = P!memcpy_to_file(f, P!PUP, data)
  BY <1>1
<1>3. /\ g = [dirs |-> g.dirs, files |-> g.files] /\ g.dirs = f.dirs
      /\ DOMAIN g.files = DOMAIN f.files \cup {P!PUP} /\ g.files[P!PUP] = data
      /\ \A q \in DOMAIN f.files : q # P!PUP => g.files[q] = f.files[q]
  BY <1>2, PutFileFacts
<1>4. ASSUME SourcesStay(job), NEW m \in 1..Len(t_names)
      PROVE  /\ SourceOf(m) \in DOMAIN job.fs.files <=> SourceOf(m) \in DOMAIN g.files
             /\ SourceOf(m) \in DOMAIN g.files => g.files[SourceOf(m)] = job.fs.files[SourceOf(m)]
  <2>1. SourceOf(m) # P!PUP
    BY PupPaths
  <2>2. /\ SourceOf(m) \in DOMAIN job.fs.files <=> SourceOf(m) \in DOMAIN f.files
        /\ SourceOf(m) \in DOMAIN f.files => f.files[SourceOf(m)] = job.fs.files[SourceOf(m)]
    BY <1>1, <1>4 DEF SourcesStay
  <2> QED BY <1>3, <2>1, <2>2
<1>5. SourcesStay(job) => SourcesStay(job)'
  BY <1>1, <1>4 DEF SourcesStay, SourceOf, P!SRC
<1> QED BY <1>1, <1>3, <1>5

LEMMA NoKeyKeeps == ASSUME PInv, P!NoKey PROVE PInv'
<1>1. pc = "pack" /\ pc' = "failed" /\ UNCHANGED <<fs, cwd, archive, i, mem>>
  BY DEF P!NoKey, P!Stop
<1>2. cwd = <<>> /\ fs = mem.job.fs
  BY <1>1 DEF PInv, PackInv
<1>3. SourcesStay(mem.job)'
  BY <1>1, <1>2 DEF SourcesStay
<1>4. cwd' # P!TO'
  BY <1>1, <1>2 DEF P!TO
<1> QED BY <1>1, <1>3, <1>4 DEF PInv

LEMMA OpenPupKeeps == ASSUME PInv, P!OpenPup PROVE PInv'
<1>1. /\ pc = "pack" /\ pc' = "chdir" /\ UNCHANGED <<cwd, archive, i, mem>>
      /\ fs' = P!memcpy_to_file(fs, P!PUP, <<>>)
  BY DEF P!OpenPup
<1>2. PICK job \in PupJobs : job = mem.job
  BY DEF PInv
<1>3. cwd = <<>> /\ fs = job.fs /\ mem.files = <<>> /\ mem.damaged = 0
  BY <1>1, <1>2 DEF PInv, PackInv
<1>4. fs = [dirs |-> fs.dirs, files |-> fs.files]
  BY <1>3, PupJobFacts
<1>5. SourcesStay(job)
  BY <1>3 DEF SourcesStay
<1>6. /\ fs' = [dirs |-> fs'.dirs, files |-> fs'.files] /\ fs'.dirs = fs.dirs
      /\ DOMAIN fs'.files = DOMAIN fs.files \cup {P!PUP} /\ SourcesStay(job)'
  BY <1>1, <1>4, <1>5, PackageWritten
<1>7. OnlyPackage(job)'
  BY <1>3, <1>6 DEF OnlyPackage, P!PUP
<1>8. PackInv'
  BY <1>1, <1>2, <1>3, <1>7 DEF PackInv
<1> QED BY <1>1, <1>2, <1>6, <1>8 DEF PInv

\* Files and names do not depend on the rest.
LEMMA FilesStayThere ==
    ASSUME UNCHANGED fs, NEW job
    PROVE  (SourcesStay(job) => SourcesStay(job)') /\ (OnlyPackage(job) => OnlyPackage(job)')
BY DEF SourcesStay, OnlyPackage, SourceOf, P!SRC, P!PUP

LEMMA NoDirectoryKeeps == ASSUME PInv, P!NoDirectory PROVE PInv'
<1>1. pc = "chdir" /\ pc' = "failed" /\ UNCHANGED <<fs, cwd, archive, i, mem>>
  BY DEF P!NoDirectory, P!Stop
<1>2. PICK job \in PupJobs : job = mem.job
  BY DEF PInv
<1>3. cwd = <<>> /\ SourcesStay(job)
  BY <1>1, <1>2 DEF PInv, PackInv
<1>4. SourcesStay(job)'
  BY <1>1, <1>3, FilesStayThere
<1>5. cwd' # P!TO'
  BY <1>1, <1>3 DEF P!TO
<1> QED BY <1>1, <1>2, <1>4, <1>5 DEF PInv

LEMMA ChangeDirectoryKeeps == ASSUME PInv, P!ChangeDirectory PROVE PInv'
<1>1. /\ pc = "chdir" /\ pc' = "find" /\ cwd' = P!SRC /\ i' = 0 /\ UNCHANGED <<fs, archive, mem>>
  BY DEF P!ChangeDirectory
<1>2. PICK job \in PupJobs : job = mem.job
  BY DEF PInv
<1>3. mem.files = <<>> /\ mem.damaged = 0 /\ SourcesStay(job) /\ OnlyPackage(job)
  BY <1>1, <1>2 DEF PInv, PackInv
<1>4. SourcesStay(job)' /\ OnlyPackage(job)'
  BY <1>1, <1>3, FilesStayThere
<1>5. FoundSoFar(job, <<>>, 0)
  BY DEF FoundSoFar
<1>6. FoundSoFar(mem.job, mem.files, i)'
  BY <1>1, <1>2, <1>3, <1>5, PupStays
<1>7. cwd' = P!SRC' /\ i' \in 0..Len(t_names)
  BY <1>1, PupStays, NamesFacts
<1>8. PackInv'
  BY <1>1, <1>2, <1>3, <1>4, <1>6, <1>7 DEF PackInv
<1> QED BY <1>1, <1>2, <1>4, <1>8 DEF PInv

\* find_files() comes to the next name.
LEMMA FoundOneMore ==
    ASSUME NEW job \in PupJobs, NEW fl, NEW n \in Nat, n < Len(t_names), FoundSoFar(job, fl, n),
           SourceOf(n + 1) \in DOMAIN job.fs.files,
           NEW file, file = [id |-> t_names[n + 1].id, data |-> job.fs.files[SourceOf(n + 1)],
                             len |-> Len(job.fs.files[SourceOf(n + 1)]), offset |-> 0]
    PROVE  FoundSoFar(job, Append(fl, file), n + 1)
<1>1. PICK m \in 1..Len(t_names) : m = n + 1
  BY NamesFacts
<1>2. PICK data \in Payloads(job) : data = job.fs.files[SourceOf(m)]
  BY <1>1 DEF Payloads
<1>3. /\ file.id = t_names[m].id /\ file.data = data /\ file.len = Len(data)
      /\ file = [id |-> t_names[m].id, data |-> data, len |-> Len(data), offset |-> 0]
  BY <1>1, <1>2
<1>4. Len(data) \in Nat
  BY PupJobFacts
<1>5. file \in PupFile(job)
  <2>1. t_names[m].id \in 0..(W - 1)
    BY NamesFacts
  <2> QED BY <1>3, <1>4, <2>1 DEF PupFile
<1>6. Len(fl) \in Nat /\ fl \in Seq(PupFile(job))
  BY FoundFacts
<1>7. PICK g : g = Append(fl, file)
  OBVIOUS
<1>8. /\ g \in Seq(PupFile(job)) /\ Len(g) = Len(fl) + 1 /\ g[Len(fl) + 1] = file
      /\ \A k \in 1..Len(fl) : g[k] = fl[k]
  BY <1>5, <1>6, <1>7, AppendFacts
<1>16. Len(g) <= n + 1
  <2>1. Len(fl) <= n
    BY FoundFacts
  <2> QED BY <1>6, <1>8, <2>1
<1>9. \A k \in 1..Len(g) : k \in 1..Len(fl) \/ k = Len(fl) + 1
  BY <1>6, <1>8
<1>10. \A l \in 1..n : l \in 1..(n + 1) /\ l \in 1..Len(t_names) /\ l # m
  BY <1>1, NamesFacts
<1>11. ASSUME NEW k \in 1..Len(g)
       PROVE  /\ g[k].len = Len(g[k].data)
              /\ \E l \in 1..(n + 1) : /\ g[k].id = t_names[l].id /\ SourceOf(l) \in DOMAIN job.fs.files
                                       /\ g[k].data = job.fs.files[SourceOf(l)]
  <2>1. CASE k \in 1..Len(fl)
    <3>1. PICK l \in 1..n : /\ fl[k].id = t_names[l].id /\ SourceOf(l) \in DOMAIN job.fs.files
                            /\ fl[k].data = job.fs.files[SourceOf(l)]
      BY <2>1 DEF FoundSoFar
    <3>2. l \in 1..(n + 1) /\ g[k] = fl[k] /\ fl[k].len = Len(fl[k].data)
      BY <1>8, <1>10, <2>1 DEF FoundSoFar
    <3> QED BY <3>1, <3>2
  <2>2. CASE k = Len(fl) + 1
    BY <1>1, <1>2, <1>3, <1>8, <2>2
  <2> QED BY <1>9, <2>1, <2>2
<1>12. ASSUME NEW l \in 1..(n + 1), SourceOf(l) \in DOMAIN job.fs.files
       PROVE  \E k \in 1..Len(g) : g[k].id = t_names[l].id
  <2>1. CASE l \in 1..n
    <3>1. PICK k \in 1..Len(fl) : fl[k].id = t_names[l].id
      BY <1>12, <2>1 DEF FoundSoFar
    <3>2. k \in 1..Len(g) /\ g[k] = fl[k]
      BY <1>6, <1>8
    <3> QED BY <3>1, <3>2
  <2>2. CASE l = n + 1
    <3>1. Len(fl) + 1 \in 1..Len(g)
      BY <1>6, <1>8
    <3> QED BY <1>1, <1>3, <1>8, <2>2, <3>1
  <2> QED BY <2>1, <2>2
<1>13. ASSUME NEW k \in 1..Len(fl)
       PROVE  fl[k].id # t_names[m].id
  <2>1. PICK l \in 1..n : fl[k].id = t_names[l].id
    BY DEF FoundSoFar
  <2> QED BY <1>10, <2>1, NamesFacts
<1>14. ASSUME NEW k \in 1..Len(g), NEW l \in 1..Len(g), g[k].id = g[l].id
       PROVE  k = l
  <2>1. CASE k \in 1..Len(fl) /\ l \in 1..Len(fl)
    BY <1>8, <1>14, <2>1 DEF FoundSoFar
  <2>2. CASE k \in 1..Len(fl) /\ l = Len(fl) + 1
    BY <1>3, <1>8, <1>13, <1>14, <2>2
  <2>3. CASE k = Len(fl) + 1 /\ l \in 1..Len(fl)
    BY <1>3, <1>8, <1>13, <1>14, <2>3
  <2> QED BY <1>9, <2>1, <2>2, <2>3
<1>15. FoundSoFar(job, g, n + 1)
  BY <1>8, <1>16, <1>11, <1>12, <1>14 DEF FoundSoFar
<1> QED BY <1>7, <1>15

LEMMA FoundNoMore ==
    ASSUME NEW job \in PupJobs, NEW fl, NEW n \in Nat, FoundSoFar(job, fl, n),
           SourceOf(n + 1) \notin DOMAIN job.fs.files
    PROVE  FoundSoFar(job, fl, n + 1)
<1>1. \A l \in 1..(n + 1) : l \in 1..n \/ l = n + 1
  OBVIOUS
<1>2. \A l \in 1..n : l \in 1..(n + 1)
  OBVIOUS
<1>3. ASSUME NEW k \in 1..Len(fl)
      PROVE  /\ fl[k].len = Len(fl[k].data)
             /\ \E m \in 1..(n + 1) : /\ fl[k].id = t_names[m].id /\ SourceOf(m) \in DOMAIN job.fs.files
                                      /\ fl[k].data = job.fs.files[SourceOf(m)]
  BY <1>2 DEF FoundSoFar
<1>4. \A m \in 1..(n + 1) : SourceOf(m) \in DOMAIN job.fs.files => \E k \in 1..Len(fl) : fl[k].id = t_names[m].id
  BY <1>1 DEF FoundSoFar
<1>5. /\ fl \in Seq(PupFile(job)) /\ Len(fl) <= n + 1
      /\ \A k, l \in 1..Len(fl) : fl[k].id = fl[l].id => k = l
  <2>1. Len(fl) \in Nat /\ Len(fl) <= n
    BY FoundFacts
  <2> QED BY <2>1 DEF FoundSoFar
<1> QED BY <1>3, <1>4, <1>5 DEF FoundSoFar

LEMMA FindFileKeeps == ASSUME PInv, P!FindFile PROVE PInv'
<1> DEFINE t    == t_names[i + 1]
           data == fs.files[cwd \o <<t.name>>]
           file == [id |-> t.id, data |-> data, len |-> Len(data), offset |-> 0]
<1>1. /\ pc = "find" /\ i < Len(t_names) /\ i' = i + 1 /\ UNCHANGED <<fs, cwd, archive, pc>>
      /\ mem' = IF cwd \o <<t.name>> \in DOMAIN fs.files
                THEN [mem EXCEPT !.files = Append(@, file), !.data_size = @ + file.len]
                ELSE mem
  BY DEF P!FindFile
<1>2. PICK job \in PupJobs : job = mem.job
  BY DEF PInv
<1>3. /\ mem.damaged = 0 /\ SourcesStay(job) /\ OnlyPackage(job) /\ cwd = P!SRC
      /\ i \in 0..Len(t_names) /\ FoundSoFar(job, mem.files, i)
  BY <1>1, <1>2 DEF PInv, PackInv
<1>4. PICK n \in Nat : n = i /\ n < Len(t_names)
  BY <1>1, <1>3, NamesFacts
<1>5. PICK m \in 1..Len(t_names) : m = n + 1
  BY <1>4, NamesFacts
<1>6. PICK fl : fl = mem.files
  OBVIOUS
<1>7. cwd \o <<t.name>> = SourceOf(m)
  BY <1>3, <1>4, <1>5 DEF SourceOf
<1>8. /\ SourceOf(m) \in DOMAIN job.fs.files <=> SourceOf(m) \in DOMAIN fs.files
      /\ SourceOf(m) \in DOMAIN fs.files => fs.files[SourceOf(m)] = job.fs.files[SourceOf(m)]
  BY <1>3 DEF SourcesStay
<1>9. mem = [job |-> mem.job, files |-> mem.files, data_size |-> mem.data_size, hdr |-> mem.hdr,
             said |-> mem.said, damaged |-> mem.damaged] /\ mem.data_size \in Nat
  BY DEF PInv
<1>10. SourcesStay(job)' /\ OnlyPackage(job)'
  BY <1>1, <1>3, FilesStayThere
<1>11. /\ mem' = [job |-> mem'.job, files |-> mem'.files, data_size |-> mem'.data_size, hdr |-> mem'.hdr,
                  said |-> mem'.said, damaged |-> mem'.damaged]
       /\ mem'.job = job /\ mem'.data_size \in Nat /\ mem'.damaged = 0
       /\ FoundSoFar(job, mem'.files, m)
  <2>1. CASE SourceOf(m) \in DOMAIN fs.files
    <3>1. PICK d \in Payloads(job) : d = data
      BY <1>7, <1>8, <2>1 DEF Payloads
    <3>2. PICK f : f = file
      OBVIOUS
    <3>3. f = [id |-> t_names[n + 1].id, data |-> job.fs.files[SourceOf(n + 1)],
               len |-> Len(job.fs.files[SourceOf(n + 1)]), offset |-> 0]
      BY <1>4, <1>5, <1>7, <1>8, <2>1, <3>2
    <3>4. f.len \in Nat
      BY <3>1, <3>2, PupJobFacts
    <3>5. FoundSoFar(job, Append(fl, f), n + 1)
      <4>1. SourceOf(n + 1) \in DOMAIN job.fs.files /\ FoundSoFar(job, fl, n)
        BY <1>3, <1>4, <1>5, <1>6, <1>8, <2>1
      <4> QED BY <1>4, <3>3, <4>1, FoundOneMore
    <3> HIDE DEF file
    <3>6. mem' = [mem EXCEPT !.files = Append(@, f), !.data_size = @ + f.len]
      BY <1>1, <1>7, <2>1, <3>2
    <3>7. /\ mem' = [job |-> mem'.job, files |-> mem'.files, data_size |-> mem'.data_size, hdr |-> mem'.hdr,
                     said |-> mem'.said, damaged |-> mem'.damaged]
          /\ mem'.job = mem.job /\ mem'.data_size = mem.data_size + f.len /\ mem'.damaged = mem.damaged
          /\ mem'.files = Append(fl, f)
      BY <1>6, <1>9, <3>6
    <3> QED BY <1>2, <1>3, <1>5, <1>9, <3>4, <3>5, <3>7
  <2>2. CASE SourceOf(m) \notin DOMAIN fs.files
    <3>1. mem' = mem
      BY <1>1, <1>7, <2>2
    <3>2. FoundSoFar(job, fl, n + 1)
      <4>1. SourceOf(n + 1) \notin DOMAIN job.fs.files /\ FoundSoFar(job, fl, n)
        BY <1>3, <1>4, <1>5, <1>6, <1>8, <2>2
      <4> QED BY <4>1, FoundNoMore
    <3> QED BY <1>2, <1>3, <1>5, <1>6, <1>9, <3>1, <3>2
  <2> QED BY <2>1, <2>2
<1>12. FoundSoFar(mem.job, mem.files, i)' /\ i' \in 0..Len(t_names)
  BY <1>1, <1>4, <1>5, <1>11, PupStays, NamesFacts
<1>13. cwd' = P!SRC'
  BY <1>1, <1>3, PupStays
<1>14. PackInv'
  BY <1>1, <1>10, <1>11, <1>12, <1>13 DEF PackInv
<1> QED BY <1>1, <1>10, <1>11, <1>14 DEF PInv

LEMMA AllFoundKeeps == ASSUME PInv, P!AllFound PROVE PInv'
<1>1. /\ pc = "find" /\ i = Len(t_names) /\ pc' = "place" /\ i' = 0 /\ UNCHANGED <<fs, cwd, archive, mem>>
  BY DEF P!AllFound
<1>2. PICK job \in PupJobs : job = mem.job
  BY DEF PInv
<1>3. /\ mem.damaged = 0 /\ SourcesStay(job) /\ OnlyPackage(job) /\ cwd = P!SRC
      /\ FoundSoFar(job, mem.files, Len(t_names))
  BY <1>1, <1>2 DEF PInv, PackInv
<1>4. SourcesStay(job)' /\ OnlyPackage(job)'
  BY <1>1, <1>3, FilesStayThere
<1>5. PICK fl : fl = mem.files
  OBVIOUS
<1>6. Len(fl) \in Nat
  BY <1>3, <1>5, FoundFacts
<1>7. Placed(fl, 0)
  <2>1. P!HdrSize(Len(fl))..(EndAt(fl, 0) - 1) = {}
    BY <1>6, PupSizes DEF EndAt
  <2> QED BY <2>1 DEF Placed
<1>8. /\ FoundSoFar(mem.job, mem.files, Len(t_names))' /\ Placed(mem.files, i)'
      /\ i' \in 0..Len(mem'.files) /\ cwd' = P!SRC'
  BY <1>1, <1>2, <1>3, <1>5, <1>6, <1>7, PupStays
<1>9. PackInv'
  BY <1>1, <1>2, <1>3, <1>4, <1>8 DEF PackInv
<1> QED BY <1>1, <1>2, <1>4, <1>9 DEF PInv

\* A file that is given a place is still the file that was found.
LEMMA PlaceStillFound ==
    ASSUME NEW job \in PupJobs, NEW fl, NEW n, FoundSoFar(job, fl, n),
           NEW j \in 1..Len(fl), NEW o \in Nat, NEW g, g = [fl EXCEPT ![j].offset = o]
    PROVE  /\ FoundSoFar(job, g, n) /\ Len(g) = Len(fl) /\ g[j].offset = o
           /\ \A k \in 1..Len(fl) : g[k].len = fl[k].len /\ (k # j => g[k] = fl[k])
<1>1. Len(fl) \in Nat /\ fl \in Seq(PupFile(job)) /\ fl[j] \in PupFile(job)
  BY FoundFacts
<1>2. PICK f : f = fl[j]
  OBVIOUS
<1>3. PICK x : x = [f EXCEPT !.offset = o]
  OBVIOUS
<1>4. /\ x \in PupFile(job) /\ x.offset = o /\ x.id = f.id /\ x.data = f.data /\ x.len = f.len
  BY <1>1, <1>2, <1>3 DEF PupFile
<1>5. g = [fl EXCEPT ![j] = x]
  BY <1>2, <1>3
<1>6. g \in Seq(PupFile(job)) /\ Len(g) = Len(fl) /\ g[j] = x /\ \A k \in 1..Len(fl) : k # j => g[k] = fl[k]
  BY <1>1, <1>4, <1>5
<1>7. \A k \in 1..Len(fl) : g[k].id = fl[k].id /\ g[k].data = fl[k].data /\ g[k].len = fl[k].len
  BY <1>2, <1>4, <1>6
<1>8. FoundSoFar(job, g, n)
  <2>1. ASSUME NEW k \in 1..Len(g)
        PROVE  /\ g[k].len = Len(g[k].data)
               /\ \E l \in 1..n : /\ g[k].id = t_names[l].id /\ SourceOf(l) \in DOMAIN job.fs.files
                                  /\ g[k].data = job.fs.files[SourceOf(l)]
    <3>1. k \in 1..Len(fl)
      BY <1>6
    <3>2. PICK y : y = fl[k]
      OBVIOUS
    <3>3. g[k].id = y.id /\ g[k].data = y.data /\ g[k].len = y.len
      BY <1>7, <3>1, <3>2
    <3>4. y.len = Len(y.data)
      BY <3>1, <3>2 DEF FoundSoFar
    <3>5. PICK l \in 1..n : /\ y.id = t_names[l].id /\ SourceOf(l) \in DOMAIN job.fs.files
                            /\ y.data = job.fs.files[SourceOf(l)]
      BY <3>1, <3>2 DEF FoundSoFar
    <3> QED BY <3>3, <3>4, <3>5
  <2>2. ASSUME NEW l \in 1..n, SourceOf(l) \in DOMAIN job.fs.files
        PROVE  \E k \in 1..Len(g) : g[k].id = t_names[l].id
    <3>1. PICK k \in 1..Len(fl) : fl[k].id = t_names[l].id
      BY <2>2 DEF FoundSoFar
    <3> QED BY <1>6, <1>7, <3>1
  <2>3. \A k, l \in 1..Len(g) : g[k].id = g[l].id => k = l
    BY <1>6, <1>7 DEF FoundSoFar
  <2>4. Len(g) <= n
    BY <1>6, FoundFacts
  <2> QED BY <1>6, <2>1, <2>2, <2>3, <2>4 DEF FoundSoFar
<1> QED BY <1>4, <1>6, <1>7, <1>8

\* Where files end is a place behind the header.
LEMMA EndIsNat ==
    ASSUME NEW job \in PupJobs, NEW fl, NEW m, FoundSoFar(job, fl, m),
           NEW n \in 0..Len(fl), Placed(fl, n)
    PROVE  EndAt(fl, n) \in Nat /\ EndAt(fl, n) >= 8 * Len(fl) + 10
<1>1. Len(fl) \in Nat /\ \A k \in 1..Len(fl) : fl[k].len \in Nat /\ fl[k].offset \in Nat
  BY FoundFacts
<1>2. PICK total \in Nat : total = Len(fl)
  BY <1>1
<1>3. P!HdrSize(total) = 8 * total + 10
  BY PupSizes
<1>4. CASE n = 0
  BY <1>2, <1>3, <1>4 DEF EndAt
<1>5. CASE n # 0
  <2>1. n \in 1..n /\ n \in 1..total
    BY <1>2, <1>5
  <2>2. fl[n].offset >= P!HdrSize(total)
    BY <1>2, <2>1 DEF Placed
  <2>3. EndAt(fl, n) = fl[n].offset + fl[n].len
    BY <1>5 DEF EndAt
  <2> QED BY <1>1, <1>2, <1>3, <2>1, <2>2, <2>3
<1> QED BY <1>4, <1>5

\* The next file lies behind the others.
LEMMA PlacedOneMore ==
    ASSUME NEW job \in PupJobs, NEW fl, NEW m, FoundSoFar(job, fl, m),
           NEW n \in Nat, n < Len(fl), Placed(fl, n),
           NEW g, g = [fl EXCEPT ![n + 1].offset = EndAt(fl, n)]
    PROVE  Placed(g, n + 1)
<1>1. PICK total \in Nat : total = Len(fl)
  BY FoundFacts
<1>2. n + 1 \in 1..total /\ n \in 0..total
  BY <1>1
<1>3. PICK e \in Nat : e = EndAt(fl, n)
  BY <1>1, <1>2, EndIsNat
<1>4. e >= P!HdrSize(total)
  BY <1>1, <1>2, <1>3, EndIsNat, PupSizes
<1>5. /\ Len(g) = total /\ g[n + 1].offset = e
      /\ \A k \in 1..total : g[k].len = fl[k].len /\ (k # n + 1 => g[k] = fl[k])
  BY <1>1, <1>2, <1>3, PlaceStillFound
<1>6. \A k \in 1..total : fl[k].len \in Nat /\ fl[k].offset \in Nat
  BY <1>1, FoundFacts
<1>7. PICK l \in Nat : l = g[n + 1].len
  BY <1>2, <1>5, <1>6
<1>8. \A k \in 1..n : k \in 1..total /\ k # n + 1 /\ g[k] = fl[k]
  BY <1>1, <1>2, <1>5
<1>9. \A k \in 1..(n + 1) : k \in 1..n \/ k = n + 1
  OBVIOUS
<1>10. EndAt(g, n + 1) = e + l
  BY <1>5, <1>7 DEF EndAt
<1>11. EndAt(g, n) = e
  <2>1. CASE n = 0
    BY <1>1, <1>3, <1>5, <2>1 DEF EndAt
  <2>2. CASE n # 0
    <3>1. n \in 1..n
      BY <2>2
    <3> QED BY <1>3, <1>8, <2>2, <3>1 DEF EndAt
  <2> QED BY <2>1, <2>2
<1>12. ASSUME NEW k \in 1..n
       PROVE  EndAt(g, k - 1) = EndAt(fl, k - 1)
  <2>1. CASE k = 1
    BY <1>1, <1>5, <2>1 DEF EndAt
  <2>2. CASE k # 1
    <3>1. k - 1 \in 1..n /\ k - 1 # 0
      BY <2>2
    <3> QED BY <1>8, <3>1 DEF EndAt
  <2> QED BY <2>1, <2>2
<1>13. ASSUME NEW k \in 1..(n + 1)
       PROVE  /\ g[k].offset = EndAt(g, k - 1)
              /\ g[k].offset >= P!HdrSize(total) /\ g[k].offset + g[k].len <= EndAt(g, n + 1)
  <2>1. CASE k \in 1..n
    <3>1. fl[k].offset = EndAt(fl, k - 1) /\ fl[k].offset >= P!HdrSize(total) /\ fl[k].offset + fl[k].len <= e
      BY <1>1, <1>3, <2>1 DEF Placed
    <3>2. fl[k].offset + fl[k].len \in Nat
      BY <1>6, <1>8, <2>1
    <3>3. g[k].offset = fl[k].offset /\ g[k].len = fl[k].len
      BY <1>8, <2>1
    <3>4. PICK s \in Nat : s = fl[k].offset + fl[k].len
      BY <3>2
    <3>5. s <= e + l
      BY <3>1, <3>4
    <3>6. g[k].offset + g[k].len <= EndAt(g, n + 1)
      BY <1>10, <3>3, <3>4, <3>5
    <3>7. g[k].offset = EndAt(g, k - 1)
      BY <1>12, <2>1, <3>1, <3>3
    <3> QED BY <3>1, <3>3, <3>6, <3>7
  <2>2. CASE k = n + 1
    BY <1>4, <1>5, <1>7, <1>10, <1>11, <2>2
  <2> QED BY <1>9, <2>1, <2>2
<1>14. ASSUME NEW k \in 1..(n + 1), NEW j \in 1..(n + 1), k < j
       PROVE  g[k].offset + g[k].len <= g[j].offset
  <2>1. k \in 1..n
    BY <1>14
  <2>2. CASE j \in 1..n
    <3>1. fl[k].offset + fl[k].len <= fl[j].offset
      BY <1>14, <2>1, <2>2 DEF Placed
    <3> QED BY <1>8, <2>1, <2>2, <3>1
  <2>3. CASE j = n + 1
    <3>1. fl[k].offset + fl[k].len <= e
      BY <1>3, <2>1 DEF Placed
    <3> QED BY <1>5, <1>8, <2>1, <2>3, <3>1
  <2> QED BY <1>9, <2>2, <2>3
<1>15. ASSUME NEW w \in P!HdrSize(total)..(EndAt(g, n + 1) - 1)
       PROVE  \E k \in 1..(n + 1) : g[k].offset <= w /\ w < g[k].offset + g[k].len
  <2>1. w \in Int /\ w < e + l /\ w >= P!HdrSize(total)
    BY <1>3, <1>7, <1>10
  <2>2. CASE w < e
    <3>1. w \in P!HdrSize(Len(fl))..(EndAt(fl, n) - 1)
      BY <1>1, <1>3, <2>1, <2>2, PupSizes
    <3>2. PICK k \in 1..n : fl[k].offset <= w /\ w < fl[k].offset + fl[k].len
      BY <3>1 DEF Placed
    <3>3. k \in 1..(n + 1) /\ g[k] = fl[k]
      BY <1>8
    <3> QED BY <3>2, <3>3
  <2>3. CASE w >= e
    <3>1. n + 1 \in 1..(n + 1)
      OBVIOUS
    <3> QED BY <1>5, <1>7, <2>1, <2>3, <3>1
  <2> QED BY <1>3, <2>1, <2>2, <2>3
<1>16. Len(g) = total
  BY <1>5
<1> QED BY <1>13, <1>14, <1>15, <1>16 DEF Placed

LEMMA PlaceFileKeeps == ASSUME PInv, P!PlaceFile PROVE PInv'
<1>1. /\ pc = "place" /\ i < Len(mem.files) /\ i' = i + 1 /\ UNCHANGED <<fs, cwd, archive, pc>>
      /\ mem' = [mem EXCEPT !.files[i + 1].offset =
                   IF i = 0 THEN P!HdrSize(Len(mem.files)) ELSE mem.files[i].offset + mem.files[i].len]
  BY DEF P!PlaceFile, P!n_files
<1>2. PICK job \in PupJobs : job = mem.job
  BY DEF PInv
<1>3. PICK fl : fl = mem.files
  OBVIOUS
<1>4. /\ mem.damaged = 0 /\ SourcesStay(job) /\ OnlyPackage(job) /\ cwd = P!SRC
      /\ FoundSoFar(job, fl, Len(t_names)) /\ i \in 0..Len(fl) /\ Placed(fl, i)
  BY <1>1, <1>2, <1>3 DEF PInv, PackInv
<1>5. Len(fl) \in Nat
  BY <1>4, FoundFacts
<1>6. PICK n \in Nat : n = i /\ n < Len(fl) /\ n \in 0..Len(fl)
  BY <1>1, <1>3, <1>4, <1>5
<1>7. PICK e \in Nat : e = EndAt(fl, n)
  BY <1>4, <1>6, EndIsNat
<1>8. PICK g : g = [fl EXCEPT ![n + 1].offset = e]
  OBVIOUS
<1>9. mem' = [mem EXCEPT !.files = g]
  <2>1. e = IF i = 0 THEN P!HdrSize(Len(mem.files)) ELSE mem.files[i].offset + mem.files[i].len
    BY <1>3, <1>6, <1>7 DEF EndAt
  <2>2. mem' = [mem EXCEPT !.files[n + 1].offset = e]
    BY <1>1, <1>6, <2>1
  <2> QED BY <1>3, <1>8, <2>2
<1>10. /\ mem = [job |-> mem.job, files |-> mem.files, data_size |-> mem.data_size, hdr |-> mem.hdr,
                 said |-> mem.said, damaged |-> mem.damaged]
       /\ mem.data_size \in Nat
  BY DEF PInv
<1>11. /\ mem' = [job |-> mem'.job, files |-> mem'.files, data_size |-> mem'.data_size, hdr |-> mem'.hdr,
                  said |-> mem'.said, damaged |-> mem'.damaged]
       /\ mem'.job = job /\ mem'.data_size = mem.data_size /\ mem'.damaged = 0 /\ mem'.files = g
  BY <1>2, <1>4, <1>9, <1>10
<1>12. n + 1 \in 1..Len(fl)
  BY <1>5, <1>6
<1>13. FoundSoFar(job, g, Len(t_names)) /\ Len(g) = Len(fl)
  <2>1. PICK j \in 1..Len(fl) : j = n + 1
    BY <1>12
  <2>2. g = [fl EXCEPT ![j].offset = e]
    BY <1>8, <2>1
  <2>3. PICK x : x = Len(t_names)
    OBVIOUS
  <2>4. FoundSoFar(job, fl, x)
    BY <1>4, <2>3
  <2>5. job \in PupJobs /\ e \in Nat /\ j \in 1..Len(fl)
    BY <1>2, <1>7, <2>1
  <2>6. FoundSoFar(job, g, x)
    BY <2>2, <2>4, <2>5, PlaceStillFound
  <2>7. Len(g) = Len(fl)
    BY <2>2, <2>4, <2>5, PlaceStillFound
  <2> QED BY <2>3, <2>6, <2>7
<1>14. Placed(g, n + 1)
  BY <1>4, <1>6, <1>7, <1>8, PlacedOneMore
<1>15. /\ FoundSoFar(mem.job, mem.files, Len(t_names))' /\ Placed(mem.files, i)'
       /\ i' \in 0..Len(mem'.files) /\ cwd' = P!SRC'
  <2>1. FoundSoFar(mem.job, mem.files, Len(t_names))'
    BY <1>11, <1>13, PupStays
  <2>2. Placed(mem.files, i)'
    BY <1>1, <1>6, <1>11, <1>14, PupStays
  <2>3. i' \in 0..Len(mem'.files) /\ cwd' = P!SRC'
    BY <1>1, <1>4, <1>6, <1>11, <1>12, <1>13, PupStays
  <2> QED BY <2>1, <2>2, <2>3
<1>16. SourcesStay(job)' /\ OnlyPackage(job)'
  BY <1>1, <1>4, FilesStayThere
<1>17. PackInv'
  BY <1>1, <1>11, <1>15, <1>16 DEF PackInv
<1> QED BY <1>1, <1>10, <1>11, <1>16, <1>17 DEF PInv

\* What the tools put into a header can be damaged.
LEMMA SoundWords ==
    /\ \A v \in Nat : Sound(P!Num(v)) /\ P!Num(v)[1] = "number"
    /\ Sound(P!MAGIC) /\ Sound(P!ZERO) /\ P!ZERO[1] = "number"
    /\ \A x : \A w \in 1..3 :
         P!Hmac(x)[w] = <<"hmac", w, P!Hashed(x)>> /\ Sound(P!Hmac(x)[w]) /\ P!Hmac(x)[w][1] = "hmac"
<1>1. P!JUNK[1] = "junk"
  BY DEF P!JUNK
<1>2. ASSUME NEW v \in Nat
      PROVE  Sound(P!Num(v)) /\ P!Num(v)[1] = "number"
  <2>1. P!Num(v)[1] = "number" /\ P!Num(v)[2] = v
    BY DEF P!Num
  <2> QED BY <1>1, <2>1 DEF Sound
<1>3. Sound(P!MAGIC)
  <2>1. P!MAGIC[1] = "SCEUF"
    BY DEF P!MAGIC
  <2> QED BY <1>1, <2>1 DEF Sound
<1>4. Sound(P!ZERO) /\ P!ZERO[1] = "number"
  BY <1>2 DEF P!ZERO
<1>5. ASSUME NEW x, NEW w \in 1..3
      PROVE  /\ P!Hmac(x)[w] = <<"hmac", w, P!Hashed(x)>>
             /\ Sound(P!Hmac(x)[w]) /\ P!Hmac(x)[w][1] = "hmac"
  <2>1. P!Hmac(x)[w] = <<"hmac", w, P!Hashed(x)>>
    BY DEF P!Hmac
  <2>2. <<"hmac", w, P!Hashed(x)>>[1] = "hmac"
    OBVIOUS
  <2> QED BY <1>1, <2>1, <2>2 DEF Sound
<1> QED BY <1>2, <1>3, <1>4, <1>5

LEMMA StartHeaderKeeps == ASSUME PInv, P!StartHeader PROVE PInv'
<1> DEFINE total == Len(mem.files)
           row == <<P!MAGIC, P!Num(1), P!Num(1), P!Num(total), P!Num(P!HdrSize(total)), P!Num(mem.data_size)>>
           zero == [w \in 1..(8 * total + 4) |-> P!ZERO]
<1>1. /\ pc = "place" /\ i = total /\ pc' = "header" /\ i' = 0 /\ UNCHANGED <<fs, cwd, archive>>
      /\ mem' = [mem EXCEPT !.hdr = row \o zero]
  BY DEF P!StartHeader, P!n_files
<1>2. PICK job \in PupJobs : job = mem.job
  BY DEF PInv
<1>3. PICK fl : fl = mem.files
  OBVIOUS
<1>4. /\ mem.damaged = 0 /\ SourcesStay(job) /\ OnlyPackage(job) /\ cwd = P!SRC
      /\ FoundSoFar(job, fl, Len(t_names)) /\ i \in 0..Len(fl) /\ Placed(fl, i)
  BY <1>1, <1>2, <1>3 DEF PInv, PackInv
<1>5. PICK n \in Nat : n = total
  BY <1>3, <1>4, FoundFacts
<1>6. /\ mem = [job |-> mem.job, files |-> mem.files, data_size |-> mem.data_size, hdr |-> mem.hdr,
                 said |-> mem.said, damaged |-> mem.damaged]
       /\ mem.data_size \in Nat
  BY DEF PInv
<1>7. PICK s \in Nat : s = mem.data_size
  BY <1>6
<1>8. PICK h : h = row \o zero
  OBVIOUS
<1>9. P!HdrSize(n) = 8 * n + 10
  BY PupSizes
<1>10. /\ IsArray(h, 8 * n + 10) /\ h[4] = P!Num(n)
       /\ \A w \in 1..(8 * n + 10) :
            h[w] \in {P!MAGIC, P!ZERO, P!Num(1), P!Num(n), P!Num(8 * n + 10), P!Num(s)}
  <2>1. PICK m, one, num, hs, ds, z : /\ m = P!MAGIC /\ one = P!Num(1) /\ num = P!Num(n)
                                      /\ hs = P!Num(8 * n + 10) /\ ds = P!Num(s) /\ z = P!ZERO
    OBVIOUS
  <2>2. PICK T : T = {m, z, one, num, hs, ds}
    OBVIOUS
  <2>3. PICK r : r = <<m, one, one, num, hs, ds>>
    OBVIOUS
  <2>4. PICK o : o = [w \in 1..(8 * n + 4) |-> z]
    OBVIOUS
  <2>5. r \in Seq(T) /\ Len(r) = 6 /\ r[4] = num
    <3>1. Len(r) = 6 /\ r[4] = num /\ DOMAIN r = 1..6
      BY <2>3
    <3>2. r \in Seq(T)
      BY <2>2, <2>3
    <3> QED BY <3>1, <3>2
  <2>6. o \in Seq(T) /\ Len(o) = 8 * n + 4
    <3>1. 8 * n + 4 \in Nat /\ o \in [1..(8 * n + 4) -> T]
      BY <2>2, <2>4
    <3> QED BY <3>1, FunctionIsSeq
  <2>7. h = r \o o
    BY <1>5, <1>7, <1>8, <1>9, <2>1, <2>3, <2>4
  <2>8. r \o o \in Seq(T) /\ Len(r \o o) = Len(r) + Len(o)
    <3>1. r \in Seq(T) /\ o \in Seq(T)
      BY <2>5, <2>6
    <3> QED BY <3>1, JoinedIsSeq, JoinedLen
  <2>9. (r \o o)[4] = r[4]
    <3>1. r \in Seq(T) /\ o \in Seq(T) /\ 4 \in 1..Len(r)
      BY <2>5, <2>6
    <3> QED BY <3>1, JoinedLeft
  <2>10. h \in Seq(T) /\ Len(h) = 8 * n + 10 /\ h[4] = num
    BY <2>5, <2>6, <2>7, <2>8, <2>9
  <2>11. IsArray(h, 8 * n + 10) /\ \A w \in 1..(8 * n + 10) : h[w] \in T
    BY <2>10 DEF IsArray
  <2> QED BY <2>1, <2>2, <2>10, <2>11
<1>11. \A v \in Nat : Sound(P!Num(v))
  BY SoundWords
<1>12. Sound(P!MAGIC) /\ Sound(P!ZERO)
  BY SoundWords
<1>13. HeaderSoFar(fl, h, 0)
  <2>1. \A w \in 1..P!HdrSize(n) : Sound(h[w])
    BY <1>9, <1>10, <1>11, <1>12
  <2>2. IsArray(h, P!HdrSize(n)) /\ h[4] = P!Num(n)
    BY <1>9, <1>10
  <2>3. Len(fl) = n
    BY <1>3, <1>5
  <2> QED BY <2>1, <2>2, <2>3 DEF HeaderSoFar
<1> HIDE DEF row, zero, total
<1>14. /\ mem' = [job |-> mem'.job, files |-> mem'.files, data_size |-> mem'.data_size, hdr |-> mem'.hdr,
                  said |-> mem'.said, damaged |-> mem'.damaged]
       /\ mem'.job = job /\ mem'.data_size = mem.data_size /\ mem'.damaged = 0 /\ mem'.files = fl
       /\ mem'.hdr = h
  BY <1>1, <1>2, <1>3, <1>4, <1>6, <1>8
<1>15. /\ FoundSoFar(mem.job, mem.files, Len(t_names))' /\ Placed(mem.files, Len(mem.files))'
       /\ HeaderSoFar(mem.files, mem.hdr, i)' /\ i' \in 0..Len(mem'.files) /\ cwd' = P!SRC'
  <2>1. i = Len(fl) /\ 0 \in 0..Len(fl)
    BY <1>1, <1>3, <1>5 DEF total
  <2>2. FoundSoFar(mem.job, mem.files, Len(t_names))'
    BY <1>4, <1>14, PupStays
  <2>3. Placed(mem.files, Len(mem.files))'
    BY <1>4, <1>14, <2>1, PupStays
  <2>4. HeaderSoFar(mem.files, mem.hdr, i)'
    BY <1>1, <1>13, <1>14, PupStays
  <2>5. i' \in 0..Len(mem'.files) /\ cwd' = P!SRC'
    BY <1>1, <1>4, <1>14, <2>1, PupStays
  <2> QED BY <2>2, <2>3, <2>4, <2>5
<1>16. SourcesStay(job)' /\ OnlyPackage(job)'
  BY <1>1, <1>4, FilesStayThere
<1>17. PackInv'
  BY <1>1, <1>14, <1>15, <1>16 DEF PackInv
<1> QED BY <1>1, <1>6, <1>14, <1>16, <1>17 DEF PInv

\* What PutAt() changes and leaves, inside of what there is or behind it.
PutDone(L, h, p, D, data, r) ==
    /\ p + D <= L => IsArray(r, L)
    /\ p = L => IsArray(r, L + D)
    /\ \A w \in 1..D : r[p + w] = data[w]
    /\ \A w \in 1..L : w <= p \/ w > p + D => r[w] = h[w]

LEMMA PutAtFacts ==
    ASSUME NEW L \in Nat, NEW h, IsArray(h, L), NEW p \in Nat,
           NEW D \in Nat, NEW data, IsArray(data, D),
           NEW r, r = P!PutAt(h, p, data)
    PROVE  PutDone(L, h, p, D, data, r)
<1>1. Len(h) = L /\ Len(data) = D
  BY ArrayFacts
<1>2. D = 0 <=> data = <<>>
  <2>1. ASSUME D = 0 PROVE data = <<>>
    BY <2>1 DEF IsArray
  <2>2. ASSUME data = <<>> PROVE D = 0
    BY <1>1, <2>2
  <2> QED BY <2>1, <2>2
<1>3. PICK e \in Nat : e = IF data = <<>> THEN 0 ELSE p + D
  OBVIOUS
<1>4. PICK m \in Nat : m = IF e > L THEN e ELSE L
  OBVIOUS
<1>5. r = [w \in 1..m |-> IF w \in (p + 1)..e THEN data[w - p] ELSE IF w <= L THEN h[w] ELSE P!ZERO]
  BY <1>1, <1>3, <1>4 DEF P!PutAt
<1>6. IsArray(r, m)
  BY <1>5 DEF IsArray
<1>7. p + D <= L => m = L
  BY <1>2, <1>3, <1>4
<1>8. p = L => m = L + D
  BY <1>2, <1>3, <1>4
<1>9. ASSUME NEW w \in 1..D
      PROVE  r[p + w] = data[w]
  <2>1. PICK v \in Nat : v = p + w
    OBVIOUS
  <2>2. v \in (p + 1)..e /\ v \in 1..m /\ v - p = w
    BY <1>2, <1>3, <1>4, <2>1
  <2>3. r[v] = data[v - p]
    BY <1>5, <2>2
  <2> QED BY <2>1, <2>2, <2>3
<1>10. ASSUME NEW w \in 1..L, w <= p \/ w > p + D
       PROVE  r[w] = h[w]
  <2>1. w \in 1..m /\ w \notin (p + 1)..e /\ w <= L
    BY <1>3, <1>4, <1>10
  <2> QED BY <1>5, <2>1
<1> QED BY <1>6, <1>7, <1>8, <1>9, <1>10 DEF PutDone

\* calc_hmac() inside of a header.
HashDone(L, h, p, x, r) ==
    /\ IsArray(r, L)
    /\ \A w \in 1..3 : r[p + w] = P!Hmac(x)[w]
    /\ r[p + 4] = P!ZERO
    /\ \A w \in 1..L : w <= p \/ w > p + 4 => r[w] = h[w]

LEMMA CalcHmacFacts ==
    ASSUME NEW L \in Nat, NEW h, IsArray(h, L), NEW p \in Nat, p + 4 <= L,
           NEW x, NEW r, r = P!CalcHmac(h, x, p)
    PROVE  HashDone(L, h, p, x, r)
<1>1. PICK z : z = <<P!ZERO, P!ZERO, P!ZERO, P!ZERO>>
  OBVIOUS
<1>2. IsArray(z, 4) /\ z[4] = P!ZERO
  BY <1>1 DEF IsArray
<1>3. PICK g : g = P!PutAt(h, p, z)
  OBVIOUS
<1>4. PICK y : y = P!Hmac(x)
  OBVIOUS
<1>5. IsArray(y, 3)
  BY <1>4 DEF P!Hmac, IsArray
<1>6. r = P!PutAt(g, p, y)
  BY <1>1, <1>3, <1>4 DEF P!CalcHmac
<1>7. 4 \in Nat /\ 3 \in Nat /\ p + 3 <= L
  OBVIOUS
<1>8. /\ IsArray(g, L) /\ \A w \in 1..4 : g[p + w] = z[w]
      /\ \A w \in 1..L : w <= p \/ w > p + 4 => g[w] = h[w]
  <2>1. PutDone(L, h, p, 4, z, g)
    BY <1>2, <1>3, <1>7, PutAtFacts
  <2> QED BY <2>1 DEF PutDone
<1>9. /\ IsArray(r, L) /\ \A w \in 1..3 : r[p + w] = y[w]
      /\ \A w \in 1..L : w <= p \/ w > p + 3 => r[w] = g[w]
  <2>1. PutDone(L, g, p, 3, y, r)
    BY <1>5, <1>6, <1>7, <1>8, PutAtFacts
  <2> QED BY <1>7, <2>1 DEF PutDone
<1>10. r[p + 4] = P!ZERO
  <2>1. p + 4 \in 1..L /\ p + 4 > p + 3 /\ 4 \in 1..4
    OBVIOUS
  <2> QED BY <1>2, <1>8, <1>9, <2>1
<1>11. ASSUME NEW w \in 1..L, w <= p \/ w > p + 4
       PROVE  r[w] = h[w]
  <2>1. w <= p \/ w > p + 3
    BY <1>11
  <2> QED BY <1>8, <1>9, <1>11, <2>1
<1> QED BY <1>4, <1>9, <1>10, <1>11 DEF HashDone

\* What an entry puts into the header, and where.
EntryDone(total, n, h, f, r) ==
    /\ IsArray(r, 8 * total + 10)
    /\ r[4 * n + 7] = P!Num(f.id) /\ r[4 * n + 8] = P!Num(f.offset)
    /\ r[4 * n + 9] = P!Num(f.len) /\ r[4 * n + 10] = P!ZERO
    /\ r[4 * total + 4 * n + 7] = P!Num(n)
    /\ \A w \in 1..3 : r[4 * total + 4 * n + 7 + w] = P!Hmac(f.data)[w]
    /\ r[4 * total + 4 * n + 11] = P!ZERO
    /\ \A w \in 1..(8 * total + 10) :
         w < 4 * n + 7 \/ (w > 4 * n + 10 /\ w < 4 * total + 4 * n + 7)
           \/ w > 4 * total + 4 * n + 11 => r[w] = h[w]

LEMMA EntryWords ==
    ASSUME NEW total \in Nat, Len(mem.files) = total, NEW n \in Nat, n < total,
           NEW h, IsArray(h, 8 * total + 10),
           NEW f, f = mem.files[n + 1],
           NEW r, r = P!Entry(h, n)
    PROVE  EntryDone(total, n, h, f, r)
<1>1. PICK row : row = <<P!Num(f.id), P!Num(f.offset), P!Num(f.len), P!ZERO>>
  OBVIOUS
<1>2. /\ IsArray(row, 4)
      /\ row[1] = P!Num(f.id) /\ row[2] = P!Num(f.offset) /\ row[3] = P!Num(f.len) /\ row[4] = P!ZERO
  BY <1>1 DEF IsArray
<1>3. PICK L \in Nat : L = 8 * total + 10
  OBVIOUS
<1>4. PICK p \in Nat : p = 6 + 4 * n
  OBVIOUS
<1>5. PICK s \in Nat : s = 6 + 4 * total + 4 * n
  OBVIOUS
<1>6. PICK one : one = <<P!Num(n)>>
  OBVIOUS
<1>7. IsArray(one, 1) /\ one[1] = P!Num(n)
  BY <1>6 DEF IsArray
<1>8. PICK g : g = P!PutAt(h, p, row)
  OBVIOUS
<1>9. PICK t : t = P!PutAt(g, s, one)
  OBVIOUS
<1>10. r = P!CalcHmac(t, f.data, s + 1)
  BY <1>1, <1>4, <1>5, <1>6, <1>8, <1>9 DEF P!Entry, P!n_files, P!PUP_HDR
<1>11. p + 4 <= s /\ s + 5 <= L /\ s + 1 \in Nat /\ p + 4 <= L /\ s + 1 <= L
  <2>1. p + 4 <= s
    <3>1. s = p + 4 * total
      BY <1>4, <1>5
    <3>2. total >= 1
      OBVIOUS
    <3> QED BY <3>1, <3>2
  <2>2. s + 5 <= L
    <3>1. n + 1 <= total
      OBVIOUS
    <3> QED BY <1>3, <1>5, <3>1
  <2>3. s + 1 \in Nat
    OBVIOUS
  <2>4. p + 4 <= L /\ s + 1 <= L
    BY <2>1, <2>2
  <2> QED BY <2>1, <2>2, <2>3, <2>4
<1>12. IsArray(h, L)
  BY <1>3
<1>13. /\ IsArray(g, L) /\ \A w \in 1..4 : g[p + w] = row[w]
       /\ \A w \in 1..L : w <= p \/ w > p + 4 => g[w] = h[w]
  <2>1. PutDone(L, h, p, 4, row, g)
    BY <1>2, <1>3, <1>4, <1>8, <1>12, PutAtFacts
  <2> QED BY <1>11, <2>1 DEF PutDone
<1>14. /\ IsArray(t, L) /\ \A w \in 1..1 : t[s + w] = one[w]
       /\ \A w \in 1..L : w <= s \/ w > s + 1 => t[w] = g[w]
  <2>1. PutDone(L, g, s, 1, one, t)
    BY <1>3, <1>5, <1>7, <1>9, <1>13, PutAtFacts
  <2> QED BY <1>11, <2>1 DEF PutDone
<1>15. (s + 1) + 4 <= L
  BY <1>11
<1>16. /\ IsArray(r, L) /\ \A w \in 1..3 : r[(s + 1) + w] = P!Hmac(f.data)[w]
       /\ r[(s + 1) + 4] = P!ZERO
       /\ \A w \in 1..L : w <= s + 1 \/ w > (s + 1) + 4 => r[w] = t[w]
  <2>1. PICK x : x = f.data
    OBVIOUS
  <2>2. PICK q \in Nat : q = s + 1
    BY <1>11
  <2>3. r = P!CalcHmac(t, x, q) /\ q + 4 <= L
    BY <1>10, <1>15, <2>1, <2>2
  <2>4. HashDone(L, t, q, x, r)
    BY <1>3, <1>14, <2>2, <2>3, CalcHmacFacts
  <2>5. /\ IsArray(r, L) /\ \A w \in 1..3 : r[q + w] = P!Hmac(x)[w]
        /\ r[q + 4] = P!ZERO
        /\ \A w \in 1..L : w <= q \/ w > q + 4 => r[w] = t[w]
    BY <2>4 DEF HashDone
  <2> QED BY <2>1, <2>2, <2>5
<1>17. ASSUME NEW w \in 1..L, w <= s
       PROVE  r[w] = g[w]
  <2>1. w <= s + 1
    BY <1>5, <1>17
  <2> QED BY <1>14, <1>16, <1>17, <2>1
<1>18. ASSUME NEW w \in 1..4
       PROVE  r[p + w] = row[w]
  <2>1. p + w \in 1..L /\ p + w <= s
    BY <1>11
  <2> QED BY <1>13, <1>17, <2>1
<1>19. r[s + 1] = P!Num(n)
  <2>1. s + 1 \in 1..L /\ s + 1 <= s + 1 /\ 1 \in 1..1
    BY <1>11
  <2> QED BY <1>7, <1>14, <1>16, <2>1
<1>20. /\ p + 1 = 4 * n + 7 /\ p + 2 = 4 * n + 8 /\ p + 3 = 4 * n + 9 /\ p + 4 = 4 * n + 10
       /\ s + 1 = 4 * total + 4 * n + 7 /\ (s + 1) + 4 = 4 * total + 4 * n + 11
       /\ \A w \in 1..3 : (s + 1) + w = 4 * total + 4 * n + 7 + w
       /\ 1 \in 1..4 /\ 2 \in 1..4 /\ 3 \in 1..4 /\ 4 \in 1..4
  BY <1>4, <1>5
<1>21. ASSUME NEW w \in 1..L,
              w < 4 * n + 7 \/ (w > 4 * n + 10 /\ w < 4 * total + 4 * n + 7)
                \/ w > 4 * total + 4 * n + 11
       PROVE  r[w] = h[w]
  <2>1. CASE w > (s + 1) + 4
    <3>1. w > s + 1 /\ w > p + 4
      BY <1>11, <2>1
    <3> QED BY <1>13, <1>14, <1>16, <2>1, <3>1
  <2>2. CASE w <= s /\ (w <= p \/ w > p + 4)
    BY <1>13, <1>17, <2>2
  <2>3. w > (s + 1) + 4 \/ (w <= s /\ (w <= p \/ w > p + 4))
    BY <1>4, <1>5, <1>21
  <2> QED BY <2>1, <2>2, <2>3
<1>22. /\ r[4 * n + 7] = P!Num(f.id) /\ r[4 * n + 8] = P!Num(f.offset)
       /\ r[4 * n + 9] = P!Num(f.len) /\ r[4 * n + 10] = P!ZERO
  <2>1. r[p + 1] = row[1] /\ r[p + 2] = row[2] /\ r[p + 3] = row[3] /\ r[p + 4] = row[4]
    BY <1>18, <1>20
  <2> QED BY <1>2, <1>20, <2>1
<1>23. ASSUME NEW w \in 1..3
       PROVE  r[4 * total + 4 * n + 7 + w] = P!Hmac(f.data)[w]
  <2>1. r[(s + 1) + w] = P!Hmac(f.data)[w]
    BY <1>16
  <2>2. (s + 1) + w = 4 * total + 4 * n + 7 + w
    BY <1>20
  <2> QED BY <2>1, <2>2
<1>24. r[4 * total + 4 * n + 7] = P!Num(n) /\ r[4 * total + 4 * n + 11] = P!ZERO
  BY <1>16, <1>19, <1>20
<1> QED BY <1>3, <1>16, <1>21, <1>22, <1>23, <1>24 DEF EntryDone

\* The header with one more entry.
LEMMA EntryAdds ==
    ASSUME NEW job \in PupJobs, NEW fl, NEW m, FoundSoFar(job, fl, m),
           NEW total \in Nat, total = Len(fl), NEW n \in Nat, n < total,
           NEW h, HeaderSoFar(fl, h, n), NEW r, EntryDone(total, n, h, fl[n + 1], r)
    PROVE  HeaderSoFar(fl, r, n + 1)
<1>1. PICK f : f = fl[n + 1]
  OBVIOUS
<1>2. PICK L \in Nat : L = 8 * total + 10
  OBVIOUS
<1>3. P!HdrSize(total) = L
  BY <1>2, PupSizes
<1>4. /\ \A w \in 1..L : Sound(h[w]) /\ h[4] = P!Num(total)
      /\ \A k \in 1..n : RowThere(fl, h, k) /\ HashThere(fl, h, k)
  BY <1>3 DEF HeaderSoFar
<1>5. n + 1 \in 1..Len(fl) /\ n + 1 <= total
  OBVIOUS
<1>6. f.id \in Nat /\ f.len \in Nat /\ f.offset \in Nat
  BY <1>1, <1>5, FoundFacts, NamesFacts
<1>7. /\ IsArray(r, L)
      /\ r[4 * n + 7] = P!Num(f.id) /\ r[4 * n + 8] = P!Num(f.offset)
      /\ r[4 * n + 9] = P!Num(f.len) /\ r[4 * n + 10] = P!ZERO
      /\ r[4 * total + 4 * n + 7] = P!Num(n)
      /\ \A w \in 1..3 : r[4 * total + 4 * n + 7 + w] = P!Hmac(f.data)[w]
      /\ r[4 * total + 4 * n + 11] = P!ZERO
  BY <1>1, <1>2 DEF EntryDone
<1>8. ASSUME NEW w \in 1..L,
             w < 4 * n + 7 \/ (w > 4 * n + 10 /\ w < 4 * total + 4 * n + 7)
               \/ w > 4 * total + 4 * n + 11
      PROVE  r[w] = h[w]
  BY <1>2, <1>8 DEF EntryDone
<1>9. PICK p \in Nat : p = 4 * n
  OBVIOUS
<1>10. PICK s \in Nat : s = 4 * total + 4 * n
  OBVIOUS
<1>11. p + 4 <= 4 * total /\ 4 * total <= s /\ s + 14 <= L
  BY <1>2, <1>5, <1>9, <1>10
<1>12. ASSUME NEW w \in 1..L, w < p + 7 \/ (w > p + 10 /\ w < s + 7) \/ w > s + 11
       PROVE  r[w] = h[w]
  BY <1>8, <1>9, <1>10, <1>12
<1>13. /\ r[p + 7] = P!Num(f.id) /\ r[p + 8] = P!Num(f.offset)
       /\ r[p + 9] = P!Num(f.len) /\ r[p + 10] = P!ZERO
       /\ r[s + 7] = P!Num(n) /\ r[s + 8] = P!Hmac(f.data)[1] /\ r[s + 9] = P!Hmac(f.data)[2]
       /\ r[s + 10] = P!Hmac(f.data)[3] /\ r[s + 11] = P!ZERO
  <2>1. s + 7 + 1 = s + 8 /\ s + 7 + 2 = s + 9 /\ s + 7 + 3 = s + 10
    OBVIOUS
  <2>2. \A w \in 1..3 : r[s + 7 + w] = P!Hmac(f.data)[w]
    BY <1>7, <1>10
  <2>3. r[s + 8] = P!Hmac(f.data)[1] /\ r[s + 9] = P!Hmac(f.data)[2] /\ r[s + 10] = P!Hmac(f.data)[3]
    BY <2>1, <2>2
  <2> QED BY <1>7, <1>9, <1>10, <2>3
<1>14. ASSUME NEW w \in 1..L
       PROVE  Sound(r[w])
  <2>1. CASE w < p + 7 \/ (w > p + 10 /\ w < s + 7) \/ w > s + 11
    BY <1>4, <1>12, <2>1
  <2>2. CASE w \in {p + 7, p + 8, p + 9, p + 10}
    BY <1>6, <1>13, <2>2, SoundWords
  <2>3. CASE w \in {s + 7, s + 11}
    BY <1>13, <2>3, SoundWords
  <2>4. CASE w \in {s + 8, s + 9, s + 10}
    <3>1. 1 \in 1..3 /\ 2 \in 1..3 /\ 3 \in 1..3
      OBVIOUS
    <3> QED BY <1>13, <2>4, <3>1, SoundWords
  <2>5. w < p + 7 \/ w \in {p + 7, p + 8, p + 9, p + 10} \/ (w > p + 10 /\ w < s + 7)
          \/ w \in {s + 7, s + 11} \/ w \in {s + 8, s + 9, s + 10} \/ w > s + 11
    OBVIOUS
  <2> QED BY <2>1, <2>2, <2>3, <2>4, <2>5
<1>15. r[4] = P!Num(total)
  <2>1. 4 \in 1..L /\ 4 < p + 7
    BY <1>2
  <2> QED BY <1>4, <1>12, <2>1
<1>16. ASSUME NEW k \in 1..n
       PROVE  RowThere(fl, r, k) /\ HashThere(fl, r, k)
  <2>1. RowThere(fl, h, k) /\ HashThere(fl, h, k)
    BY <1>4
  <2>2. PICK q \in Nat : q = 4 * k
    OBVIOUS
  <2>3. PICK t \in Nat : t = 4 * total + 4 * k
    OBVIOUS
  <2>4. q <= p /\ q + 5 < p + 7 /\ q + 5 <= L /\ t <= s /\ t > 4 * total
    BY <1>2, <1>5, <1>9, <1>10, <2>2, <2>3
  <2>5. r[q + 3] = h[q + 3] /\ r[q + 4] = h[q + 4] /\ r[q + 5] = h[q + 5]
    <3>1. q + 3 \in 1..L /\ q + 4 \in 1..L /\ q + 5 \in 1..L
      BY <2>4
    <3> QED BY <1>12, <2>4, <3>1
  <2>6. ASSUME NEW w \in 0..3
        PROVE  r[t + 3 + w] = h[t + 3 + w]
    <3>1. PICK v \in Nat : v = t + 3 + w
      OBVIOUS
    <3>3. v \in 1..L /\ v < s + 7
      BY <1>11, <2>3, <2>4, <3>1
    <3>4. v >= 4 * total + 7
      BY <2>3, <2>4, <3>1
    <3>5. v > p + 10
      BY <1>11, <3>4
    <3>6. r[v] = h[v]
      BY <1>12, <3>3, <3>5
    <3> QED BY <3>1, <3>6
  <2>7. RowThere(fl, r, k)
    BY <2>1, <2>2, <2>5 DEF RowThere
  <2>8. HashThere(fl, r, k)
    <3>1. /\ h[t + 3] = P!Num(k - 1) /\ \A w \in 1..3 : h[t + 3 + w] = P!Hmac(fl[k].data)[w]
      BY <2>1, <2>3 DEF HashThere
    <3>2. r[t + 3] = h[t + 3]
      <4>1. 0 \in 0..3 /\ t + 3 + 0 = t + 3
        OBVIOUS
      <4> QED BY <2>6, <4>1
    <3>3. \A w \in 1..3 : r[t + 3 + w] = P!Hmac(fl[k].data)[w]
      <4>1. \A w \in 1..3 : w \in 0..3
        OBVIOUS
      <4> QED BY <2>6, <3>1, <4>1
    <3> QED BY <2>3, <3>1, <3>2, <3>3 DEF HashThere
  <2> QED BY <2>7, <2>8
<1>17. RowThere(fl, r, n + 1) /\ HashThere(fl, r, n + 1)
  <2>1. PICK k \in Nat : k = n + 1
    OBVIOUS
  <2>2. 4 * k + 3 = p + 7 /\ 4 * k + 4 = p + 8 /\ 4 * k + 5 = p + 9
    BY <1>9, <2>1
  <2>3. 4 * total + 4 * k + 3 = s + 7 /\ k - 1 = n
    BY <1>10, <2>1
  <2>4. f = fl[k]
    BY <1>1, <2>1
  <2>5. RowThere(fl, r, k)
    BY <1>13, <2>2, <2>4 DEF RowThere
  <2>6. \A w \in 1..3 : r[s + 7 + w] = P!Hmac(f.data)[w]
    BY <1>7, <1>10
  <2>7. HashThere(fl, r, k)
    BY <1>13, <2>3, <2>4, <2>6 DEF HashThere
  <2> QED BY <2>1, <2>5, <2>7
<1>18. \A k \in 1..(n + 1) : RowThere(fl, r, k) /\ HashThere(fl, r, k)
  <2>1. \A k \in 1..(n + 1) : k \in 1..n \/ k = n + 1
    OBVIOUS
  <2> QED BY <1>16, <1>17, <2>1
<1> QED BY <1>3, <1>7, <1>14, <1>15, <1>18 DEF HeaderSoFar

LEMMA BuildEntryKeeps == ASSUME PInv, P!BuildEntry PROVE PInv'
<1>1. /\ pc = "header" /\ i < Len(mem.files) /\ i' = i + 1 /\ UNCHANGED <<fs, cwd, archive, pc>>
      /\ mem' = [mem EXCEPT !.hdr = P!Entry(mem.hdr, i)]
  BY DEF P!BuildEntry, P!n_files
<1>2. PICK job \in PupJobs : job = mem.job
  BY DEF PInv
<1>3. PICK fl, h : fl = mem.files /\ h = mem.hdr
  OBVIOUS
<1>4. /\ mem.damaged = 0 /\ SourcesStay(job) /\ OnlyPackage(job) /\ cwd = P!SRC
      /\ FoundSoFar(job, fl, Len(t_names)) /\ i \in 0..Len(fl) /\ Placed(fl, Len(fl))
      /\ HeaderSoFar(fl, h, i)
  BY <1>1, <1>2, <1>3 DEF PInv, PackInv
<1>5. PICK total \in Nat : total = Len(fl)
  BY <1>2, <1>4, FoundFacts
<1>6. PICK n \in Nat : n = i /\ n < total
  BY <1>1, <1>3, <1>4, <1>5
<1>7. PICK r : r = P!Entry(h, n)
  OBVIOUS
<1>8. PICK f : f = fl[n + 1]
  OBVIOUS
<1>9. IsArray(h, 8 * total + 10)
  BY <1>4, <1>5, PupSizes DEF HeaderSoFar
<1>10. EntryDone(total, n, h, f, r)
  BY <1>3, <1>5, <1>6, <1>7, <1>8, <1>9, EntryWords
<1>11. PICK x : x = Len(t_names)
  OBVIOUS
<1>12. FoundSoFar(job, fl, x) /\ HeaderSoFar(fl, h, n)
  BY <1>4, <1>6, <1>11
<1>13. HeaderSoFar(fl, r, n + 1)
  BY <1>2, <1>5, <1>6, <1>8, <1>10, <1>12, EntryAdds
<1>14. /\ mem = [job |-> mem.job, files |-> mem.files, data_size |-> mem.data_size, hdr |-> mem.hdr,
                 said |-> mem.said, damaged |-> mem.damaged]
       /\ mem.data_size \in Nat
  BY DEF PInv
<1>15. mem' = [mem EXCEPT !.hdr = r]
  BY <1>1, <1>3, <1>6, <1>7
<1>16. /\ mem' = [job |-> mem'.job, files |-> mem'.files, data_size |-> mem'.data_size, hdr |-> mem'.hdr,
                  said |-> mem'.said, damaged |-> mem'.damaged]
       /\ mem'.job = job /\ mem'.data_size = mem.data_size /\ mem'.damaged = 0 /\ mem'.files = fl
       /\ mem'.hdr = r
  BY <1>2, <1>3, <1>4, <1>14, <1>15
<1>17. FoundSoFar(mem.job, mem.files, Len(t_names))' /\ Placed(mem.files, Len(mem.files))'
  BY <1>4, <1>16, PupStays
<1>18. HeaderSoFar(mem.files, mem.hdr, i)'
  BY <1>1, <1>6, <1>13, <1>16, PupStays
<1>19. i' \in 0..Len(mem'.files) /\ cwd' = P!SRC'
  BY <1>1, <1>4, <1>5, <1>6, <1>16, PupStays
<1>20. SourcesStay(job)' /\ OnlyPackage(job)'
  BY <1>1, <1>4, FilesStayThere
<1>21. PackInv'
  BY <1>1, <1>16, <1>17, <1>18, <1>19, <1>20 DEF PackInv
<1> QED BY <1>1, <1>14, <1>16, <1>20, <1>21 DEF PInv

\* The beginnings of two sequences with the same words.
LEMMA SameBeginning ==
    ASSUME NEW L \in Nat, NEW a, IsArray(a, L), NEW M \in Nat, NEW b, IsArray(b, M),
           NEW c \in Nat, c <= L, c <= M, \A w \in 1..c : a[w] = b[w]
    PROVE  SubSeq(a, 1, c) = SubSeq(b, 1, c)
<1>1. Len(a) = L /\ Len(b) = M
  BY ArrayFacts
<1>2. SubSeq(a, 1, c) = [w \in 1..c |-> a[w]]
  <2>1. PICK s : s = SubSeq(a, 1, c)
    OBVIOUS
  <2>2. s = [w \in 1..(1 + c - 1) |-> a[w + 1 - 1]]
    BY <2>1
  <2>3. 1 + c - 1 = c /\ \A w \in 1..c : w + 1 - 1 = w
    OBVIOUS
  <2> QED BY <2>1, <2>2, <2>3
<1>3. SubSeq(b, 1, c) = [w \in 1..c |-> b[w]]
  <2>1. PICK s : s = SubSeq(b, 1, c)
    OBVIOUS
  <2>2. s = [w \in 1..(1 + c - 1) |-> b[w + 1 - 1]]
    BY <2>1
  <2>3. 1 + c - 1 = c /\ \A w \in 1..c : w + 1 - 1 = w
    OBVIOUS
  <2> QED BY <2>1, <2>2, <2>3
<1>4. [w \in 1..c |-> a[w]] = [w \in 1..c |-> b[w]]
  OBVIOUS
<1> QED BY <1>2, <1>3, <1>4

\* The entries of the tables are as they were.
LEMMA SameEntries ==
    ASSUME NEW fl, NEW total \in Nat, total = Len(fl), NEW k \in 1..total, NEW a, NEW b,
           \A w \in 1..(8 * total + 6) : a[w] = b[w],
           RowThere(fl, a, k), HashThere(fl, a, k)
    PROVE  RowThere(fl, b, k) /\ HashThere(fl, b, k)
<1>1. PICK L \in Nat : L = 8 * total + 6
  OBVIOUS
<1>2. PICK q \in Nat : q = 4 * k
  OBVIOUS
<1>3. PICK t \in Nat : t = 4 * total + 4 * k
  OBVIOUS
<1>4. q + 5 <= L /\ t + 6 <= L
  BY <1>1, <1>2, <1>3
<1>5. \A w \in 1..L : a[w] = b[w]
  BY <1>1
<1>6. a[q + 3] = b[q + 3] /\ a[q + 4] = b[q + 4] /\ a[q + 5] = b[q + 5] /\ a[t + 3] = b[t + 3]
  <2>1. q + 3 \in 1..L /\ q + 4 \in 1..L /\ q + 5 \in 1..L /\ t + 3 \in 1..L
    BY <1>4
  <2> QED BY <1>5, <2>1
<1>7. ASSUME NEW w \in 1..3
      PROVE  a[t + 3 + w] = b[t + 3 + w]
  <2>1. PICK v \in Nat : v = t + 3 + w
    OBVIOUS
  <2>2. v \in 1..L
    BY <1>4, <2>1
  <2> QED BY <1>5, <2>1, <2>2
<1>8. RowThere(fl, b, k)
  BY <1>2, <1>6 DEF RowThere
<1>9. HashThere(fl, b, k)
  <2>1. a[t + 3] = P!Num(k - 1) /\ \A w \in 1..3 : a[t + 3 + w] = P!Hmac(fl[k].data)[w]
    BY <1>3 DEF HashThere
  <2>2. b[t + 3] = P!Num(k - 1) /\ \A w \in 1..3 : b[t + 3 + w] = P!Hmac(fl[k].data)[w]
    BY <1>6, <1>7, <2>1
  <2> QED BY <1>3, <2>2 DEF HashThere
<1> QED BY <1>8, <1>9

\* The header and its hash.
LEMMA HeaderIsWritten ==
    ASSUME NEW fl, NEW total \in Nat, total = Len(fl), NEW h, HeaderSoFar(fl, h, total),
           NEW x, x = SubSeq(h, 1, P!Covered(total)),
           NEW r, r = P!CalcHmac(h, x, P!PUP_HDR + 8 * total)
    PROVE  WrittenSoFar(fl, r, 0)
<1>1. PICK p \in Nat : p = 8 * total + 6
  OBVIOUS
<1>2. PICK L \in Nat : L = 8 * total + 10
  OBVIOUS
<1>3. P!HdrSize(total) = L /\ P!Covered(total) = p /\ EndAt(fl, 0) = L
  BY <1>1, <1>2, PupSizes DEF EndAt
<1>4. r = P!CalcHmac(h, x, p) /\ p + 4 <= L
  BY <1>1, <1>2 DEF P!PUP_HDR
<1>5. /\ IsArray(h, L) /\ (\A w \in 1..L : Sound(h[w])) /\ h[4] = P!Num(total)
      /\ \A k \in 1..total : RowThere(fl, h, k) /\ HashThere(fl, h, k)
  BY <1>3 DEF HeaderSoFar
<1>6. HashDone(L, h, p, x, r)
  BY <1>4, <1>5, CalcHmacFacts
<1>7. /\ IsArray(r, L) /\ (\A w \in 1..3 : r[p + w] = P!Hmac(x)[w]) /\ r[p + 4] = P!ZERO
      /\ \A w \in 1..L : w <= p \/ w > p + 4 => r[w] = h[w]
  BY <1>6 DEF HashDone
<1>8. \A w \in 1..p : h[w] = r[w]
  BY <1>4, <1>7
<1>9. ASSUME NEW w \in 1..L
      PROVE  Sound(r[w])
  <2>1. CASE w <= p
    BY <1>5, <1>7, <2>1
  <2>2. CASE w \in {p + 1, p + 2, p + 3}
    <3>1. PICK v \in 1..3 : w = p + v
      BY <2>2
    <3> QED BY <1>7, <3>1, SoundWords
  <2>3. CASE w = p + 4
    BY <1>7, <2>3, SoundWords
  <2>4. w <= p \/ w \in {p + 1, p + 2, p + 3} \/ w = p + 4
    BY <1>1, <1>2
  <2> QED BY <2>1, <2>2, <2>3, <2>4
<1>10. r[4] = P!Num(total)
  <2>1. 4 \in 1..p
    BY <1>1
  <2> QED BY <1>5, <1>8, <2>1
<1>11. \A k \in 1..total : RowThere(fl, r, k) /\ HashThere(fl, r, k)
  <2>1. ASSUME NEW k \in 1..total
        PROVE  RowThere(fl, r, k) /\ HashThere(fl, r, k)
    <3>1. RowThere(fl, h, k) /\ HashThere(fl, h, k)
      BY <1>5
    <3>2. \A w \in 1..(8 * total + 6) : h[w] = r[w]
      BY <1>1, <1>8
    <3> QED BY <3>1, <3>2, SameEntries
  <2> QED BY <2>1
<1>12. x = SubSeq(r, 1, p)
  <2>1. p <= L
    BY <1>4
  <2>2. SubSeq(h, 1, p) = SubSeq(r, 1, p)
    BY <1>5, <1>7, <1>8, <2>1, SameBeginning
  <2> QED BY <1>3, <2>2
<1>13. \A w \in 1..L : Sound(r[w]) /\ (w >= L => r[w][1] # "hmac")
  <2>1. r[L][1] # "hmac"
    BY <1>1, <1>2, <1>7, SoundWords
  <2>2. \A w \in 1..L : w >= L => w = L
    OBVIOUS
  <2> QED BY <1>9, <2>1, <2>2
<1>14. \A w \in 1..3 : r[p + w] = P!Hmac(SubSeq(r, 1, p))[w]
  BY <1>7, <1>12
<1> QED BY <1>3, <1>7, <1>10, <1>11, <1>13, <1>14 DEF WrittenSoFar

LEMMA WriteHeaderKeeps == ASSUME PInv, P!WriteHeader PROVE PInv'
<1>1. PICK job \in PupJobs : job = mem.job
  BY DEF PInv
<1>2. PICK fl, h : fl = mem.files /\ h = mem.hdr
  OBVIOUS
<1>3. pc = "header" /\ i = Len(fl)
  BY <1>2 DEF P!WriteHeader, P!n_files
<1>4. /\ mem.damaged = 0 /\ SourcesStay(job) /\ OnlyPackage(job) /\ cwd = P!SRC
      /\ FoundSoFar(job, fl, Len(t_names)) /\ Placed(fl, Len(fl)) /\ HeaderSoFar(fl, h, i)
  BY <1>1, <1>2, <1>3 DEF PInv, PackInv
<1>5. PICK total \in Nat : total = Len(fl)
  BY <1>1, <1>4, FoundFacts
<1>6. PICK x : x = SubSeq(h, 1, P!Covered(total))
  OBVIOUS
<1>7. PICK r : r = P!CalcHmac(h, x, P!PUP_HDR + 8 * total)
  OBVIOUS
<1>8. /\ pc' = "write" /\ i' = 0 /\ UNCHANGED <<cwd, archive>>
      /\ mem' = [mem EXCEPT !.hdr = r] /\ fs' = P!memcpy_to_file(fs, P!PUP, r)
  BY <1>2, <1>5, <1>6, <1>7 DEF P!WriteHeader, P!n_files
<1>9. WrittenSoFar(fl, r, 0)
  <2>1. HeaderSoFar(fl, h, total)
    BY <1>3, <1>4, <1>5
  <2> QED BY <1>5, <1>6, <1>7, <2>1, HeaderIsWritten
<1>10. fs = [dirs |-> fs.dirs, files |-> fs.files] /\ fs.dirs = job.fs.dirs
       /\ DOMAIN fs.files = DOMAIN job.fs.files \cup {P!PUP}
  BY <1>4 DEF OnlyPackage
<1>11. /\ fs' = [dirs |-> fs'.dirs, files |-> fs'.files] /\ fs'.dirs = fs.dirs
       /\ DOMAIN fs'.files = DOMAIN fs.files \cup {P!PUP} /\ fs'.files[P!PUP] = r
       /\ SourcesStay(job)'
  BY <1>4, <1>8, <1>10, PackageWritten
<1>12. OnlyPackage(job)'
  BY <1>10, <1>11 DEF OnlyPackage, P!PUP
<1>13. /\ mem = [job |-> mem.job, files |-> mem.files, data_size |-> mem.data_size, hdr |-> mem.hdr,
                 said |-> mem.said, damaged |-> mem.damaged]
       /\ mem.data_size \in Nat
  BY DEF PInv
<1>14. /\ mem' = [job |-> mem'.job, files |-> mem'.files, data_size |-> mem'.data_size, hdr |-> mem'.hdr,
                  said |-> mem'.said, damaged |-> mem'.damaged]
       /\ mem'.job = job /\ mem'.data_size = mem.data_size /\ mem'.damaged = 0 /\ mem'.files = fl
  BY <1>1, <1>2, <1>4, <1>8, <1>13
<1>15. FoundSoFar(mem.job, mem.files, Len(t_names))' /\ Placed(mem.files, Len(mem.files))'
  BY <1>4, <1>14, PupStays
<1>16. WrittenSoFar(mem.files, fs.files[P!PUP], i)'
  BY <1>8, <1>9, <1>11, <1>14, PupStays
<1>17. i' \in 0..Len(mem'.files) /\ cwd' = P!SRC'
  BY <1>4, <1>5, <1>8, <1>14, PupStays
<1>18. PackInv'
  BY <1>8, <1>11, <1>12, <1>14, <1>15, <1>16, <1>17 DEF PackInv
<1> QED BY <1>8, <1>11, <1>13, <1>14, <1>18 DEF PInv

\* One more file behind the others.
Extended(fl, a, n, r) == r = P!PutAt(a, fl[n + 1].offset, fl[n + 1].data)

LEMMA DataIsWritten ==
    ASSUME NEW job \in PupJobs, NEW fl, NEW m, FoundSoFar(job, fl, m),
           NEW total \in Nat, total = Len(fl), Placed(fl, total), NEW n \in Nat, n < total,
           NEW a, WrittenSoFar(fl, a, n),
           NEW r, Extended(fl, a, n, r)
    PROVE  WrittenSoFar(fl, r, n + 1)
<1>1. PICK k \in 1..total : k = n + 1
  OBVIOUS
<1>2. PICK o \in Nat, D \in Nat : o = fl[k].offset /\ D = fl[k].len
  BY <1>1, FoundFacts
<1>3. PICK data : data = fl[k].data
  OBVIOUS
<1>4. IsArray(data, D) /\ \A w \in 1..D : Sound(data[w]) /\ data[w][1] # "hmac"
  BY <1>1, <1>2, <1>3, FoundFacts
<1>5. o = EndAt(fl, n) /\ o >= P!HdrSize(total)
  <2>1. k - 1 = n
    BY <1>1
  <2> QED BY <1>2, <2>1 DEF Placed
<1>6. EndAt(fl, n + 1) = o + D
  BY <1>1, <1>2 DEF EndAt
<1>7. P!HdrSize(total) = 8 * total + 10 /\ P!Covered(total) = 8 * total + 6
  BY PupSizes
<1>8. /\ IsArray(a, o) /\ a[4] = P!Num(total)
      /\ (\A w \in 1..o : Sound(a[w]) /\ (w >= P!HdrSize(total) => a[w][1] # "hmac"))
      /\ (\A j \in 1..total : RowThere(fl, a, j) /\ HashThere(fl, a, j))
      /\ (\A w \in 1..3 : a[P!Covered(total) + w] = P!Hmac(SubSeq(a, 1, P!Covered(total)))[w])
      /\ \A j \in 1..n : DataThere(fl, a, j)
  BY <1>5 DEF WrittenSoFar
<1>9. PutDone(o, a, o, D, data, r)
  BY <1>1, <1>2, <1>3, <1>4, <1>8, PutAtFacts DEF Extended
<1>10. /\ IsArray(r, o + D) /\ (\A w \in 1..D : r[o + w] = data[w])
       /\ \A w \in 1..o : r[w] = a[w]
  BY <1>9 DEF PutDone
<1>11. ASSUME NEW w \in 1..(o + D)
       PROVE  Sound(r[w]) /\ (w >= P!HdrSize(total) => r[w][1] # "hmac")
  <2>1. CASE w <= o
    <3>1. w \in 1..o
      BY <2>1
    <3>2. Sound(a[w]) /\ (w >= P!HdrSize(total) => a[w][1] # "hmac")
      BY <1>8, <3>1
    <3>3. r[w] = a[w]
      BY <1>10, <3>1
    <3> QED BY <3>2, <3>3
  <2>2. CASE w > o
    <3>1. PICK v \in 1..D : v = w - o
      BY <2>2
    <3>2. w = o + v
      BY <3>1
    <3>3. Sound(data[v]) /\ data[v][1] # "hmac"
      BY <1>4
    <3>4. r[w] = data[v]
      BY <1>10, <3>2
    <3> QED BY <3>3, <3>4
  <2> QED BY <2>1, <2>2
<1>12. PICK c \in Nat : c = 8 * total + 6
  OBVIOUS
<1>13. c + 4 <= o /\ P!Covered(total) = c
  BY <1>5, <1>7, <1>12
<1>14. r[4] = P!Num(total)
  <2>1. 4 \in 1..o
    BY <1>12, <1>13
  <2> QED BY <1>8, <1>10, <2>1
<1>15. \A j \in 1..total : RowThere(fl, r, j) /\ HashThere(fl, r, j)
  <2>1. \A w \in 1..(8 * total + 6) : a[w] = r[w]
    BY <1>10, <1>12, <1>13
  <2>2. ASSUME NEW j \in 1..total
        PROVE  RowThere(fl, r, j) /\ HashThere(fl, r, j)
    <3>1. RowThere(fl, a, j) /\ HashThere(fl, a, j)
      BY <1>8
    <3> QED BY <2>1, <3>1, SameEntries
  <2> QED BY <2>2
<1>16. SubSeq(a, 1, c) = SubSeq(r, 1, c)
  <2>1. PICK e \in Nat : e = o + D
    OBVIOUS
  <2>2. c <= o /\ c <= e
    BY <1>13, <2>1
  <2>3. \A w \in 1..c : a[w] = r[w]
    BY <1>10, <2>2
  <2>4. IsArray(a, o) /\ IsArray(r, e)
    BY <1>8, <1>10, <2>1
  <2> QED BY <1>2, <1>12, <2>1, <2>2, <2>3, <2>4, SameBeginning
<1>17. ASSUME NEW w \in 1..3
       PROVE  r[c + w] = P!Hmac(SubSeq(r, 1, c))[w]
  <2>1. c + w \in 1..o
    BY <1>13
  <2> QED BY <1>8, <1>10, <1>13, <1>16, <2>1
<1>18. ASSUME NEW j \in 1..(n + 1)
       PROVE  DataThere(fl, r, j)
  <2>1. CASE j = n + 1
    BY <1>1, <1>2, <1>3, <1>10, <2>1 DEF DataThere
  <2>2. CASE j \in 1..n
    <3>1. j \in 1..total /\ j < k
      BY <1>1, <2>2
    <3>2. PICK oj \in Nat, lj \in Nat : oj = fl[j].offset /\ lj = fl[j].len
      BY <3>1, FoundFacts
    <3>3. oj + lj <= o
      BY <1>1, <1>2, <3>1, <3>2 DEF Placed
    <3>4. \A w \in 1..lj : a[oj + w] = fl[j].data[w]
      BY <1>8, <2>2, <3>2 DEF DataThere
    <3>5. \A w \in 1..lj : oj + w \in 1..o
      BY <3>3
    <3>6. \A w \in 1..lj : r[oj + w] = fl[j].data[w]
      BY <1>10, <3>4, <3>5
    <3> QED BY <3>2, <3>6 DEF DataThere
  <2> QED BY <2>1, <2>2
<1> QED BY <1>6, <1>10, <1>11, <1>13, <1>14, <1>15, <1>17, <1>18 DEF WrittenSoFar

LEMMA WriteDataKeeps == ASSUME PInv, P!WriteData PROVE PInv'
<1>1. PICK job \in PupJobs : job = mem.job
  BY DEF PInv
<1>2. PICK fl, a : fl = mem.files /\ a = fs.files[P!PUP]
  OBVIOUS
<1>3. /\ pc = "write" /\ i < Len(fl) /\ i' = i + 1 /\ UNCHANGED <<cwd, archive, pc, mem>>
      /\ fs' = P!memcpy_to_file(fs, P!PUP, P!PutAt(a, fl[i + 1].offset, fl[i + 1].data))
  BY <1>2 DEF P!WriteData, P!n_files
<1>4. /\ mem.damaged = 0 /\ SourcesStay(job) /\ OnlyPackage(job) /\ cwd = P!SRC
      /\ FoundSoFar(job, fl, Len(t_names)) /\ Placed(fl, Len(fl)) /\ WrittenSoFar(fl, a, i)
      /\ i \in 0..Len(fl)
  BY <1>1, <1>2, <1>3 DEF PInv, PackInv
<1>5. PICK total \in Nat : total = Len(fl)
  BY <1>1, <1>4, FoundFacts
<1>6. PICK n \in Nat : n = i /\ n < total
  BY <1>3, <1>4, <1>5
<1>7. PICK r : Extended(fl, a, n, r)
  BY DEF Extended
<1>8. PICK x : x = Len(t_names)
  OBVIOUS
<1>9. WrittenSoFar(fl, r, n + 1)
  <2>1. FoundSoFar(job, fl, x) /\ Placed(fl, total) /\ WrittenSoFar(fl, a, n)
    BY <1>4, <1>5, <1>6, <1>8
  <2> QED BY <1>1, <1>5, <1>6, <1>7, <2>1, DataIsWritten
<1>10. fs = [dirs |-> fs.dirs, files |-> fs.files] /\ fs.dirs = job.fs.dirs
       /\ DOMAIN fs.files = DOMAIN job.fs.files \cup {P!PUP}
  BY <1>4 DEF OnlyPackage
<1>11. /\ fs' = [dirs |-> fs'.dirs, files |-> fs'.files] /\ fs'.dirs = fs.dirs
       /\ DOMAIN fs'.files = DOMAIN fs.files \cup {P!PUP} /\ fs'.files[P!PUP] = r
       /\ SourcesStay(job)'
  <2>1. fs' = P!memcpy_to_file(fs, P!PUP, r)
    BY <1>3, <1>6, <1>7 DEF Extended
  <2> QED BY <1>4, <1>10, <2>1, PackageWritten
<1>12. OnlyPackage(job)'
  BY <1>10, <1>11 DEF OnlyPackage, P!PUP
<1>13. /\ mem' = [job |-> mem'.job, files |-> mem'.files, data_size |-> mem'.data_size, hdr |-> mem'.hdr,
                  said |-> mem'.said, damaged |-> mem'.damaged]
       /\ mem'.data_size \in Nat /\ mem' = mem
  BY <1>3 DEF PInv
<1>14. FoundSoFar(mem.job, mem.files, Len(t_names))' /\ Placed(mem.files, Len(mem.files))'
  BY <1>1, <1>2, <1>4, <1>13, PupStays
<1>15. WrittenSoFar(mem.files, fs.files[P!PUP], i)'
  BY <1>2, <1>3, <1>6, <1>9, <1>11, PupStays
<1>16. i' \in 0..Len(mem'.files) /\ cwd' = P!SRC'
  BY <1>2, <1>3, <1>4, <1>5, <1>6, PupStays
<1>17. PackInv'
  BY <1>1, <1>3, <1>4, <1>11, <1>12, <1>14, <1>15, <1>16 DEF PackInv
<1> QED BY <1>1, <1>3, <1>11, <1>13, <1>17 DEF PInv

LEMMA PackEndKeeps == ASSUME PInv, P!PackEnd PROVE PInv'
<1>1. PICK job \in PupJobs : job = mem.job
  BY DEF PInv
<1>2. PICK fl, a : fl = mem.files /\ a = fs.files[P!PUP]
  OBVIOUS
<1>3. /\ pc = "write" /\ i = Len(fl) /\ pc' = "damage" /\ i' = 0 /\ cwd' = <<>>
      /\ UNCHANGED <<fs, archive, mem>>
  BY <1>2 DEF P!PackEnd, P!n_files
<1>4. /\ mem.damaged = 0 /\ SourcesStay(job) /\ OnlyPackage(job)
      /\ FoundSoFar(job, fl, Len(t_names)) /\ Placed(fl, Len(fl)) /\ WrittenSoFar(fl, a, i)
  BY <1>1, <1>2, <1>3 DEF PInv, PackInv
<1>5. SourcesStay(job)' /\ OnlyPackage(job)'
  BY <1>3, <1>4, FilesStayThere
<1>6. PackageIs(fl, a, 0)
  BY <1>3, <1>4 DEF PackageIs
<1>7. FoundSoFar(mem.job, mem.files, Len(t_names))' /\ Placed(mem.files, Len(mem.files))'
  BY <1>1, <1>2, <1>3, <1>4, PupStays
<1>8. PackageIs(mem.files, fs.files[P!PUP], mem.damaged)'
  <2>1. fs'.files[P!PUP'] = a /\ mem'.files = fl /\ mem'.damaged = 0
    BY <1>2, <1>3, <1>4, PupStays
  <2> QED BY <1>6, <2>1, PupStays
<1>9. UnpackInv'
  BY <1>1, <1>3, <1>5, <1>7, <1>8 DEF UnpackInv
<1> QED BY <1>1, <1>3, <1>5, <1>9 DEF PInv

-----------------------------------------------------------------------------
(* One word is damaged *)

\* The other word is another one, and none that a hash has.
LEMMA OtherFacts ==
    ASSUME NEW y, Sound(y), NEW x \in P!Other(y)
    PROVE  /\ x # y /\ x[1] # "hmac" /\ x[1] # "frayed"
           /\ y[1] = "number" => y[2] \in Nat /\ y = P!Num(y[2]) /\ x \in {P!Num(y[2] + 1), P!Num(y[2] + W)}
<1>1. W \in Nat /\ W > 0
  BY NamesFacts
<1>2. CASE y[1] = "number"
  <2>1. y[2] \in Nat /\ y = P!Num(y[2])
    BY <1>2 DEF Sound
  <2>2. PICK v \in Nat : v = y[2]
    BY <2>1
  <2>3. PICK u \in {v + 1, v + W} : x = P!Num(u)
    BY <1>2, <2>2 DEF P!Other
  <2>4. u # v
    BY <1>1, <2>2, <2>3
  <2>5. x = <<"number", u>> /\ y = <<"number", v>>
    BY <2>1, <2>2, <2>3 DEF P!Num
  <2>6. x # y /\ x[1] # "hmac" /\ x[1] # "frayed"
    BY <2>4, <2>5
  <2>7. x \in {P!Num(y[2] + 1), P!Num(y[2] + W)}
    BY <1>2 DEF P!Other
  <2> QED BY <2>1, <2>6, <2>7
<1>3. CASE y[1] # "number"
  <2>1. x = P!JUNK
    BY <1>3 DEF P!Other
  <2>2. x[1] = "junk" /\ y # x
    BY <2>1 DEF P!JUNK, Sound
  <2> QED BY <1>3, <2>2
<1> QED BY <1>2, <1>3

\* What is compared of a word.
LEMMA BareFacts ==
    /\ \A x, w : w \in 1..3 => P!Bare(P!Hmac(x)[w]) = P!Hmac(x)[w]
    /\ \A y : y[1] # "frayed" => P!Bare(y) = y
    /\ \A y : P!Frayed(y)[1] = "frayed" /\ P!Bare(P!Frayed(y)) = y
<1>1. ASSUME NEW y, y[1] # "frayed"
      PROVE  P!Bare(y) = y
  BY <1>1 DEF P!Bare
<1>2. ASSUME NEW x, NEW w, w \in 1..3
      PROVE  P!Bare(P!Hmac(x)[w]) = P!Hmac(x)[w]
  <2>1. P!Hmac(x)[w][1] # "frayed"
    BY <1>2, SoundWords
  <2> QED BY <1>1, <2>1
<1>3. ASSUME NEW y
      PROVE  P!Frayed(y)[1] = "frayed" /\ P!Bare(P!Frayed(y)) = y
  <2>1. PICK x : x = P!Frayed(y)
    OBVIOUS
  <2>2. x[1] = "frayed" /\ x[2] = y
    BY <2>1 DEF P!Frayed
  <2>3. P!Bare(x) = y
    BY <2>2 DEF P!Bare
  <2> QED BY <2>1, <2>2, <2>3
<1> QED BY <1>1, <1>2, <1>3

\* The hash of the header is no longer the one that is stored.
LEMMA WrongHash ==
    ASSUME NEW b, NEW n \in Nat, NEW y,
           y = (IF 3 < Len(b) THEN b[3 + 1] ELSE P!ZERO), P!Number(y) = n, NEW w \in 1..3, NEW z,
           z = P!Bare(WordsOf(b, 8 * n + 6, 3)[w]), z # P!Hmac(WordsOf(b, 0, 8 * n + 6))[w]
    PROVE  HeaderWrong(b)
<1>1. P!PUP_HDR + 8 * n = 8 * n + 6 /\ P!Covered(n) = 8 * n + 6
  BY PupSizes DEF P!PUP_HDR
<1>2. HmacOf(b, 8 * n + 6) # P!Hmac(WordsOf(b, 0, 8 * n + 6))
  <2>1. HmacOf(b, 8 * n + 6)[w] = z
    BY DEF HmacOf
  <2> QED BY <2>1
<1>3. n \in Nat /\ HmacOf(b, P!PUP_HDR + 8 * n) # P!Hmac(WordsOf(b, 0, P!Covered(n)))
  BY <1>1, <1>2
<1> QED BY <1>3 DEF HeaderWrong

\* What is read, word by word.
ReadDone(L, b, p, len, words) ==
    \A w \in 1..len : words[w] = IF p + w <= L THEN b[p + w] ELSE P!ZERO

LEMMA WordRead ==
    ASSUME NEW L \in Nat, NEW b, IsArray(b, L), NEW p \in Nat, NEW len \in Nat
    PROVE  ReadDone(L, b, p, len, WordsOf(b, p, len))
<1>1. Len(b) = L
  BY ArrayFacts
<1>2. ASSUME NEW w \in 1..len
      PROVE  WordsOf(b, p, len)[w] = IF p + w <= L THEN b[p + w] ELSE P!ZERO
  <2>1. p + w - 1 < L <=> p + w <= L
    OBVIOUS
  <2>2. p + w - 1 + 1 = p + w
    OBVIOUS
  <2>3. WordsOf(b, p, len)[w] = IF p + w - 1 < Len(b) THEN b[p + w - 1 + 1] ELSE P!ZERO
    BY DEF WordsOf
  <2> QED BY <1>1, <2>1, <2>2, <2>3
<1> QED BY <1>2 DEF ReadDone

\* Word d of a becomes x: damage at "at", where the padding of a hash counts to
\* the word behind it.
DamagedAt(L, a, d, x, at, b) ==
    /\ d \in 1..L
    /\ \/ x \in P!Other(a[d]) /\ at = d
       \/ a[d][1] = "hmac" /\ a[d][2] = 3 /\ x = P!Frayed(a[d]) /\ at = d + 1
    /\ IsArray(b, L) /\ b[d] = x /\ \A w \in 1..L : w # d => b[w] = a[w]

\* The words of a package that is as it was written, with c words before the hash.
WordsAre(L, a, total, c) ==
    /\ c = 8 * total + 6 /\ c + 4 <= L /\ c < W
    /\ IsArray(a, L) /\ a[4] = P!Num(total) /\ \A w \in 1..L : Sound(a[w])
    /\ \A w \in 1..L : w >= c + 4 => a[w][1] # "hmac"
    /\ \A w \in 1..3 : a[c + w] = <<"hmac", w, SubSeq(a, 1, c)>>

LEMMA WordsAreSo ==
    ASSUME NEW fl, NEW total \in Nat, total = Len(fl), total <= Len(t_names),
           NEW L \in Nat, L = EndAt(fl, total), L >= 8 * total + 10, NEW a, WrittenSoFar(fl, a, total)
    PROVE  WordsAre(L, a, total, 8 * total + 6)
<1>1. P!HdrSize(total) = 8 * total + 10 /\ P!Covered(total) = 8 * total + 6
  BY PupSizes
<1>2. PICK c \in Nat : c = 8 * total + 6
  OBVIOUS
<1>3. c < W /\ c + 4 <= L
  BY <1>2, NamesFacts
<1>4. /\ IsArray(a, L) /\ a[4] = P!Num(total)
      /\ \A w \in 1..L : Sound(a[w]) /\ (w >= c + 4 => a[w][1] # "hmac")
      /\ \A w \in 1..3 : a[c + w] = P!Hmac(SubSeq(a, 1, c))[w]
  BY <1>1, <1>2 DEF WrittenSoFar
<1>5. PICK s : s = SubSeq(a, 1, c)
  OBVIOUS
<1>6. P!Hashed(s) = s
  <2>1. IsArray(s, c)
    BY <1>2, <1>5 DEF IsArray
  <2> QED BY <1>3, <2>1, HashedFacts
<1>7. \A w \in 1..3 : a[c + w] = <<"hmac", w, s>>
  BY <1>4, <1>5, <1>6, SoundWords
<1>8. WordsAre(L, a, total, c)
  BY <1>2, <1>3, <1>4, <1>5, <1>7 DEF WordsAre
<1> QED BY <1>2, <1>8

\* The number of files is damaged: what is taken for the hash is none.
LEMMA CountDamaged ==
    ASSUME NEW total \in Nat, NEW L \in Nat, NEW a, NEW c, WordsAre(L, a, total, c),
           NEW x \in P!Other(a[4]), NEW b, IsArray(b, L), b[4] = x,
           \A w \in 1..L : w # 4 => b[w] = a[w]
    PROVE  HeaderWrong(b)
<1>1. /\ c \in Nat /\ c = 8 * total + 6 /\ c + 4 <= L /\ a[4] = P!Num(total)
      /\ \A w \in 1..L : Sound(a[w]) /\ (w >= c + 4 => a[w][1] # "hmac")
  BY DEF WordsAre
<1>2. W \in Nat /\ W > 0
  BY NamesFacts
<1>3. PICK n \in {total + 1, total + W} : x = P!Num(n)
  <2>1. a[4][1] = "number" /\ a[4][2] = total
    BY <1>1 DEF P!Num
  <2> QED BY <1>1, <2>1, OtherFacts
<1>4. n \in Nat /\ n >= total + 1
  BY <1>2, <1>3
<1>5. P!Number(b[4]) = n
  BY <1>3 DEF P!Number, P!Num
<1>6. PICK p \in Nat : p = 8 * n + 6
  BY <1>4
<1>7. p + 1 > c + 4
  BY <1>1, <1>4, <1>6
<1>8. PICK v \in 1..3 : v = 1
  OBVIOUS
<1>9. PICK u, z : u = WordsOf(b, p, 3)[v] /\ z = P!Bare(u)
  OBVIOUS
<1>10. u = IF p + 1 <= L THEN b[p + 1] ELSE P!ZERO
  <2>1. ReadDone(L, b, p, 3, WordsOf(b, p, 3))
    BY WordRead
  <2> QED BY <1>8, <1>9, <2>1 DEF ReadDone
<1>11. u[1] # "hmac" /\ u[1] # "frayed"
  <2>1. CASE p + 1 <= L
    <3>1. p + 1 \in 1..L /\ p + 1 # 4 /\ p + 1 >= c + 4
      BY <1>1, <1>7, <2>1
    <3>2. u = a[p + 1]
      BY <1>10, <2>1, <3>1
    <3> QED BY <1>1, <3>1, <3>2 DEF Sound
  <2>2. CASE ~(p + 1 <= L)
    <3>1. u[1] = "number"
      BY <1>10, <2>2, SoundWords
    <3> QED BY <3>1
  <2> QED BY <2>1, <2>2
<1>12. z[1] # "hmac"
  BY <1>9, <1>11, BareFacts
<1>13. PICK y : y = P!Hmac(WordsOf(b, 0, p))
  OBVIOUS
<1>14. y[v][1] = "hmac"
  BY <1>13, SoundWords
<1>15. z # y[v]
  BY <1>12, <1>14
<1>16. P!Number(IF 3 < Len(b) THEN b[3 + 1] ELSE P!ZERO) = n
  <2>1. Len(b) = L /\ 3 < L
    BY <1>1, ArrayFacts
  <2> QED BY <1>5, <2>1
<1>17. z = P!Bare(WordsOf(b, 8 * n + 6, 3)[v]) /\ z # P!Hmac(WordsOf(b, 0, 8 * n + 6))[v]
  BY <1>6, <1>9, <1>13, <1>15
<1> QED BY <1>4, <1>16, <1>17, WrongHash

\* What the hash of the header covers is damaged.
LEMMA CoveredDamaged ==
    ASSUME NEW total \in Nat, NEW L \in Nat, NEW a, NEW c, WordsAre(L, a, total, c),
           NEW d \in 1..c, d # 4, NEW x, x # a[d], NEW b, IsArray(b, L), b[d] = x,
           \A w \in 1..L : w # d => b[w] = a[w]
    PROVE  HeaderWrong(b)
<1>1. /\ c \in Nat /\ c = 8 * total + 6 /\ c + 4 <= L /\ c < W /\ a[4] = P!Num(total)
      /\ a[c + 1] = <<"hmac", 1, SubSeq(a, 1, c)>>
  BY DEF WordsAre
<1>2. PICK y, s : y = WordsOf(b, 0, c) /\ s = SubSeq(a, 1, c)
  OBVIOUS
<1>3. y[d] = x
  <2>1. 0 + d <= L /\ 0 + d = d
    BY <1>1
  <2>2. ReadDone(L, b, 0, c, y)
    BY <1>1, <1>2, WordRead
  <2> QED BY <2>1, <2>2 DEF ReadDone
<1>4. s[d] = a[d]
  BY <1>1, <1>2
<1>5. s # y
  BY <1>3, <1>4
<1>6. PICK v \in 1..3 : v = 1
  OBVIOUS
<1>7. PICK u, z : u = WordsOf(b, c, 3)[v] /\ z = P!Bare(u)
  OBVIOUS
<1>8. u = b[c + 1]
  <2>1. ReadDone(L, b, c, 3, WordsOf(b, c, 3))
    BY <1>1, WordRead
  <2>2. c + v <= L /\ c + v = c + 1
    BY <1>1, <1>6
  <2> QED BY <1>6, <1>7, <2>1, <2>2 DEF ReadDone
<1>9. u = <<"hmac", 1, s>>
  <2>1. c + 1 \in 1..L /\ c + 1 # d
    BY <1>1
  <2> QED BY <1>1, <1>2, <1>8, <2>1
<1>10. z = u
  <2>1. u[1] = "hmac"
    BY <1>9
  <2>2. u[1] # "frayed"
    BY <2>1
  <2> QED BY <1>7, <2>2, BareFacts
<1>11. P!Hmac(y)[v] = <<"hmac", 1, y>>
  <2>1. IsArray(y, c)
    BY <1>2 DEF IsArray, WordsOf
  <2>2. P!Hashed(y) = y
    BY <1>1, <2>1, HashedFacts
  <2> QED BY <1>6, <2>2, SoundWords
<1>12. z # P!Hmac(y)[v]
  BY <1>5, <1>9, <1>10, <1>11
<1>13. P!Number(IF 3 < Len(b) THEN b[3 + 1] ELSE P!ZERO) = total
  <2>1. 4 \in 1..L /\ Len(b) = L /\ 3 < L
    BY <1>1, ArrayFacts
  <2>2. b[4] = P!Num(total)
    BY <1>1, <2>1
  <2>3. P!Number(P!Num(total)) = total
    BY DEF P!Number, P!Num
  <2> QED BY <2>1, <2>2, <2>3
<1>14. z = P!Bare(WordsOf(b, 8 * total + 6, 3)[v]) /\ z # P!Hmac(WordsOf(b, 0, 8 * total + 6))[v]
  BY <1>1, <1>2, <1>7, <1>12
<1> QED BY <1>13, <1>14, WrongHash

\* The hash of the header is damaged.
LEMMA HashDamaged ==
    ASSUME NEW total \in Nat, NEW L \in Nat, NEW a, NEW c, WordsAre(L, a, total, c),
           NEW w \in 1..3, NEW x, x[1] # "hmac", x[1] # "frayed", NEW b, IsArray(b, L), b[c + w] = x,
           \A v \in 1..L : v # c + w => b[v] = a[v]
    PROVE  HeaderWrong(b)
<1>1. c \in Nat /\ c = 8 * total + 6 /\ c + 4 <= L /\ a[4] = P!Num(total)
  BY DEF WordsAre
<1>2. PICK z : z = P!Bare(WordsOf(b, c, 3)[w])
  OBVIOUS
<1>3. z = x
  <2>1. ReadDone(L, b, c, 3, WordsOf(b, c, 3))
    BY <1>1, WordRead
  <2>2. c + w <= L
    BY <1>1
  <2>3. WordsOf(b, c, 3)[w] = x
    BY <2>1, <2>2 DEF ReadDone
  <2> QED BY <1>2, <2>3, BareFacts
<1>4. PICK y : y = P!Hmac(WordsOf(b, 0, c))
  OBVIOUS
<1>5. y[w][1] = "hmac"
  BY <1>4, SoundWords
<1>6. z # y[w]
  BY <1>3, <1>5
<1>7. P!Number(IF 3 < Len(b) THEN b[3 + 1] ELSE P!ZERO) = total
  <2>1. 4 \in 1..L /\ Len(b) = L /\ 3 < L /\ 4 # c + w
    BY <1>1, ArrayFacts
  <2>2. b[4] = P!Num(total)
    BY <1>1, <2>1
  <2>3. P!Number(P!Num(total)) = total
    BY DEF P!Number, P!Num
  <2> QED BY <2>1, <2>2, <2>3
<1>8. z = P!Bare(WordsOf(b, 8 * total + 6, 3)[w]) /\ z # P!Hmac(WordsOf(b, 0, 8 * total + 6))[w]
  BY <1>1, <1>2, <1>4, <1>6
<1> QED BY <1>7, <1>8, WrongHash

\* Damage at a word of the header, but for the padding at its end, is noticed.
LEMMA HeaderDamaged ==
    ASSUME NEW total \in Nat, NEW L \in Nat, NEW a, NEW c, WordsAre(L, a, total, c),
           NEW d, NEW x, NEW at, NEW b, DamagedAt(L, a, d, x, at, b), at <= 8 * total + 9
    PROVE  HeaderWrong(b)
<1>1. /\ d \in 1..L /\ IsArray(b, L) /\ b[d] = x
      /\ \A w \in 1..L : w # d => b[w] = a[w]
  BY DEF DamagedAt
<1>2. /\ c \in Nat /\ c = 8 * total + 6 /\ c + 4 <= L /\ a[4] = P!Num(total)
      /\ \A w \in 1..L : Sound(a[w])
      /\ \A w \in 1..3 : a[c + w] = <<"hmac", w, SubSeq(a, 1, c)>>
  BY DEF WordsAre
<1>3. ASSUME x \in P!Other(a[d]), at = d
      PROVE  HeaderWrong(b)
  <2>1. x # a[d] /\ x[1] # "hmac" /\ x[1] # "frayed"
    BY <1>1, <1>2, <1>3, OtherFacts
  <2>2. CASE d = 4
    BY <1>1, <1>3, <2>2, CountDamaged
  <2>3. CASE d # 4 /\ d <= c
    <3>1. d \in 1..c
      BY <1>1, <1>2, <2>3
    <3> QED BY <1>1, <2>1, <2>3, <3>1, CoveredDamaged
  <2>4. CASE d > c
    <3>1. PICK w \in 1..3 : d = c + w
      <4>1. c \in Nat /\ d \in Nat
        BY <1>1, <1>2
      <4>2. c = 8 * total + 6
        BY <1>2
      <4>3. d <= c + 3
        BY <1>3, <4>1, <4>2
      <4>4. d \in {c + 1, c + 2, c + 3}
        BY <2>4, <4>1, <4>3
      <4>5. 1 \in 1..3 /\ 2 \in 1..3 /\ 3 \in 1..3
        OBVIOUS
      <4> QED BY <4>4, <4>5
    <3> QED BY <1>1, <2>1, <3>1, HashDamaged
  <2> QED BY <1>1, <1>2, <2>2, <2>3, <2>4
<1>4. ASSUME a[d][1] = "hmac", a[d][2] = 3, x = P!Frayed(a[d]), at = d + 1
      PROVE  HeaderWrong(b)
  <2>1. x # a[d]
    <3>1. x[1] = "frayed"
      BY <1>4, BareFacts
    <3> QED BY <1>4, <3>1
  <2>2. d # 4
    <3>1. a[4][1] = "number"
      BY <1>2, SoundWords
    <3> QED BY <1>4, <3>1
  <2>3. d \notin {c + 1, c + 2}
    <3>1. a[c + 1][2] = 1 /\ a[c + 2][2] = 2
      BY <1>2
    <3> QED BY <1>4, <3>1
  <2>4. d \in 1..c
    BY <1>1, <1>2, <1>4, <2>3
  <2> QED BY <1>1, <2>1, <2>2, <2>4, CoveredDamaged
<1> QED BY <1>3, <1>4 DEF DamagedAt

\* With the words before the padding, and what counts in its last one, the header
\* is whole.
LEMMA HeaderStays ==
    ASSUME NEW fl, NEW total \in Nat, total = Len(fl), NEW L \in Nat, L = EndAt(fl, total),
           L >= 8 * total + 10, NEW a, WrittenSoFar(fl, a, total), NEW c \in Nat, c = 8 * total + 6,
           NEW b, IsArray(b, L), \A w \in 1..(c + 2) : b[w] = a[w], P!Bare(b[c + 3]) = a[c + 3]
    PROVE  HeaderThere(fl, b)
<1>1. P!HdrSize(total) = 8 * total + 10 /\ P!Covered(total) = c
  BY PupSizes
<1>2. /\ IsArray(a, L) /\ a[4] = P!Num(total)
      /\ \A w \in 1..3 : a[c + w] = P!Hmac(SubSeq(a, 1, c))[w]
      /\ \A k \in 1..total : RowThere(fl, a, k) /\ HashThere(fl, a, k)
  BY <1>1 DEF WrittenSoFar
<1>3. c + 4 <= L /\ c <= L
  OBVIOUS
<1>4. b[4] = P!Num(total)
  <2>1. 4 \in 1..(c + 2)
    OBVIOUS
  <2> QED BY <1>2, <2>1
<1>5. ASSUME NEW k \in 1..total
      PROVE  RowThere(fl, b, k) /\ HashThere(fl, b, k)
  <2>1. \A w \in 1..(8 * total + 6) : a[w] = b[w]
    OBVIOUS
  <2>2. RowThere(fl, a, k) /\ HashThere(fl, a, k)
    BY <1>2
  <2> QED BY <2>1, <2>2, SameEntries
<1>6. SubSeq(a, 1, c) = SubSeq(b, 1, c)
  <2>1. \A w \in 1..c : a[w] = b[w]
    OBVIOUS
  <2> QED BY <1>2, <1>3, <2>1, SameBeginning
<1>7. ASSUME NEW w \in 1..3
      PROVE  P!Bare(b[c + w]) = P!Hmac(SubSeq(b, 1, c))[w]
  <2>1. P!Bare(b[c + w]) = a[c + w]
    <3>1. CASE w = 3
      BY <3>1
    <3>2. CASE w # 3
      <4>1. c + w \in 1..(c + 2)
        BY <3>2
      <4>2. b[c + w] = P!Hmac(SubSeq(a, 1, c))[w]
        BY <1>2, <4>1
      <4>3. P!Bare(b[c + w]) = b[c + w]
        BY <4>2, BareFacts
      <4> QED BY <4>1, <4>3
    <3> QED BY <3>1, <3>2
  <2> QED BY <1>2, <1>6, <2>1
<1> QED BY <1>1, <1>4, <1>5, <1>7 DEF HeaderThere

\* What follows the hash is damaged: the padding, or a file.
LEMMA DataDamaged ==
    ASSUME NEW job \in PupJobs, NEW fl, NEW m, FoundSoFar(job, fl, m),
           NEW total \in Nat, total = Len(fl), Placed(fl, total), NEW L \in Nat, L = EndAt(fl, total),
           L >= 8 * total + 10, NEW a, WrittenSoFar(fl, a, total), NEW c, WordsAre(L, a, total, c),
           NEW d, NEW x, NEW at, NEW b, DamagedAt(L, a, d, x, at, b), at > 8 * total + 9
    PROVE  /\ P!Unhashed(fl, at) \/ \E k \in 1..total : ~HashedThere(fl, b, k)
           /\ HeaderThere(fl, b)
<1>1. /\ d \in 1..L /\ IsArray(b, L) /\ b[d] = x
      /\ \A w \in 1..L : w # d => b[w] = a[w]
  BY DEF DamagedAt
<1>2. /\ c \in Nat /\ c = 8 * total + 6 /\ c + 4 <= L /\ \A w \in 1..L : Sound(a[w])
      /\ \A w \in 1..L : w >= c + 4 => a[w][1] # "hmac"
      /\ \A w \in 1..3 : a[c + w] = <<"hmac", w, SubSeq(a, 1, c)>>
  BY DEF WordsAre
<1>3. P!HdrSize(total) = c + 4
  BY <1>2, PupSizes
<1>4. P!Bare(a[c + 3]) = a[c + 3]
  <2>1. a[c + 3][1] = "hmac"
    BY <1>2
  <2>2. a[c + 3][1] # "frayed"
    BY <2>1
  <2> QED BY <2>2, BareFacts
<1>5. ASSUME a[d][1] = "hmac", x = P!Frayed(a[d]), at = d + 1
      PROVE  /\ P!Unhashed(fl, at)
             /\ HeaderThere(fl, b)
  <2>1. d = c + 3
    <3>1. ~(d >= c + 4)
      BY <1>1, <1>2, <1>5
    <3>2. c \in Nat /\ d \in Nat
      BY <1>1, <1>2
    <3>3. c = 8 * total + 6
      BY <1>2
    <3>4. d + 1 > c + 3
      BY <1>5, <3>2, <3>3
    <3> QED BY <3>1, <3>2, <3>4
  <2>2. P!Unhashed(fl, at)
    BY <1>2, <1>3, <1>5, <2>1 DEF P!Unhashed
  <2>3. P!Bare(b[c + 3]) = a[c + 3]
    BY <1>1, <1>5, <2>1, BareFacts
  <2>4. \A w \in 1..(c + 2) : b[w] = a[w]
    BY <1>1, <1>2, <2>1
  <2> QED BY <1>1, <1>2, <2>2, <2>3, <2>4, HeaderStays
<1>6. ASSUME x \in P!Other(a[d]), at = d
      PROVE  /\ P!Unhashed(fl, at) \/ \E k \in 1..total : ~HashedThere(fl, b, k)
             /\ HeaderThere(fl, b)
  <2>1. d >= c + 4
    BY <1>1, <1>2, <1>6
  <2>2. \A w \in 1..(c + 3) : b[w] = a[w]
    BY <1>1, <1>2, <2>1
  <2>3. HeaderThere(fl, b)
    <3>2. c + 3 \in 1..(c + 3) /\ 1..(c + 2) \subseteq 1..(c + 3)
      <4>1. c \in Nat
        BY <1>2
      <4> QED BY <4>1
    <3>1. (\A w \in 1..(c + 2) : b[w] = a[w]) /\ P!Bare(b[c + 3]) = a[c + 3]
      <4>1. b[c + 3] = a[c + 3]
        BY <2>2, <3>2
      <4> QED BY <1>4, <2>2, <3>2, <4>1
    <3> QED BY <1>1, <1>2, <3>1, HeaderStays
  <2>4. ASSUME d # c + 4
        PROVE  P!Unhashed(fl, at) \/ \E k \in 1..total : ~HashedThere(fl, b, k)
    <3>1. PICK v \in Nat : v = d - 1
      BY <1>1
    <3>2. v \in P!HdrSize(total)..(L - 1)
      <4>1. c \in Nat /\ d \in Nat /\ d <= L
        BY <1>1, <1>2
      <4>2. v >= c + 4
        BY <2>1, <2>4, <3>1, <4>1
      <4>3. v <= L - 1
        BY <3>1, <4>1
      <4> QED BY <1>3, <4>1, <4>2, <4>3
    <3>3. PICK k \in 1..total : fl[k].offset <= v /\ v < fl[k].offset + fl[k].len
      BY <3>2 DEF Placed
    <3>4. PICK o \in Nat, D \in Nat : o = fl[k].offset /\ D = fl[k].len
      BY FoundFacts
    <3>5. PICK r \in Nat : r = D % W
      <4>1. D % W \in 0..(W - 1)
        BY NamesFacts, ModRange
      <4> QED BY <4>1
    <3>6. PICK w \in 1..D : d = o + w
      <4>1. o <= v /\ v < o + D
        BY <3>3, <3>4
      <4>2. d - o \in 1..D /\ d = o + (d - o)
        BY <1>1, <3>1, <4>1
      <4> QED BY <4>2
    <3>7. CASE w > r
      <4>1. d \in (o + r + 1)..(o + D)
        BY <3>6, <3>7
      <4> QED BY <1>6, <3>4, <3>5, <4>1 DEF P!Unhashed
    <3>8. CASE ~(w > r)
      <4>1. w \in 1..r
        BY <3>8
      <4>2. a[d] = fl[k].data[w]
        <5>1. DataThere(fl, a, k)
          BY DEF WrittenSoFar
        <5> QED BY <3>4, <3>6, <5>1 DEF DataThere
      <4>3. x # a[d]
        BY <1>1, <1>2, <1>6, OtherFacts
      <4>4. b[o + w] # fl[k].data[w]
        BY <1>1, <3>6, <4>2, <4>3
      <4>5. ~HashedThere(fl, b, k)
        BY <3>4, <3>5, <4>1, <4>4 DEF HashedThere
      <4> QED BY <4>5
    <3> QED BY <3>7, <3>8
  <2>5. ASSUME d = c + 4
        PROVE  P!Unhashed(fl, at)
    BY <1>3, <1>6, <2>5 DEF P!Unhashed
  <2> QED BY <2>3, <2>4, <2>5
<1> QED BY <1>5, <1>6 DEF DamagedAt

\* A file ends behind the header.
LEMMA EndBehind ==
    ASSUME NEW job \in PupJobs, NEW fl, NEW m, FoundSoFar(job, fl, m),
           NEW total \in Nat, total = Len(fl), Placed(fl, total)
    PROVE  EndAt(fl, total) \in Nat /\ EndAt(fl, total) >= 8 * total + 10
<1>1. P!HdrSize(total) = 8 * total + 10
  BY PupSizes
<1>2. CASE total = 0
  BY <1>1, <1>2 DEF EndAt
<1>3. CASE total # 0
  <2>1. PICK k \in 1..total : k = total
    BY <1>3
  <2>2. PICK o \in Nat, D \in Nat : o = fl[k].offset /\ D = fl[k].len
    BY FoundFacts
  <2>3. o >= P!HdrSize(total)
    BY <2>2 DEF Placed
  <2>4. EndAt(fl, total) = o + D
    BY <1>3, <2>1, <2>2 DEF EndAt
  <2> QED BY <1>1, <2>3, <2>4
<1> QED BY <1>2, <1>3

LEMMA DamageKeeps == ASSUME PInv, P!Damage PROVE PInv'
<1>1. PICK job \in PupJobs : job = mem.job
  BY DEF PInv
<1>2. PICK fl, a : fl = mem.files /\ a = fs.files[P!PUP]
  OBVIOUS
<1>3. pc = "damage" /\ mem.damaged = 0 /\ UNCHANGED <<cwd, archive, pc, i>>
  BY DEF P!Damage
<1>4. PICK d \in DOMAIN a : \E x, at :
        /\ fs' = [fs EXCEPT !.files[P!PUP][d] = x] /\ mem' = [mem EXCEPT !.damaged = at]
        /\ \/ x \in P!Other(a[d]) /\ at = d
           \/ a[d][1] = "hmac" /\ a[d][2] = 3 /\ x = P!Frayed(a[d]) /\ at = d + 1
  BY <1>2 DEF P!Damage, P!Hit
<1>5. PICK x, at :
        /\ fs' = [fs EXCEPT !.files[P!PUP][d] = x] /\ mem' = [mem EXCEPT !.damaged = at]
        /\ \/ x \in P!Other(a[d]) /\ at = d
           \/ a[d][1] = "hmac" /\ a[d][2] = 3 /\ x = P!Frayed(a[d]) /\ at = d + 1
  BY <1>4
<1>6. PICK b : b = [a EXCEPT ![d] = x]
  OBVIOUS
<1>7. PICK y : y = Len(t_names)
  OBVIOUS
<1>8. /\ SourcesStay(job) /\ OnlyPackage(job) /\ cwd = <<>> /\ i = 0
      /\ FoundSoFar(job, fl, y) /\ Placed(fl, Len(fl)) /\ PackageIs(fl, a, 0)
  BY <1>1, <1>2, <1>3, <1>7 DEF PInv, UnpackInv
<1>9. PICK total \in Nat : total = Len(fl)
  BY <1>8, FoundFacts
<1>10. FoundSoFar(job, fl, y) /\ Placed(fl, total) /\ WrittenSoFar(fl, a, total)
  <2>1. ~(0 > 8 * Len(fl) + 9) /\ 0 \notin 1..(8 * Len(fl) + 9)
    BY <1>9
  <2> QED BY <1>8, <1>9, <2>1 DEF PackageIs
<1>11. PICK L \in Nat : L = EndAt(fl, total) /\ L >= 8 * total + 10
  BY <1>9, <1>10, EndBehind
<1>12. IsArray(a, L) /\ Len(a) = L /\ d \in 1..L
  <2>1. IsArray(a, L)
    BY <1>10, <1>11 DEF WrittenSoFar
  <2> QED BY <1>4, <2>1, ArrayFacts
<1>13. IsArray(b, L) /\ b[d] = x /\ \A w \in 1..L : w # d => b[w] = a[w]
  <2>1. DOMAIN a = 1..L
    BY <1>12, ArrayFacts
  <2> QED BY <1>6, <1>12, <2>1 DEF IsArray
<1>24. DamagedAt(L, a, d, x, at, b)
  BY <1>5, <1>12, <1>13 DEF DamagedAt
<1>25. at \in Nat /\ at > 0
  BY <1>5, <1>12
<1>26. PICK c : WordsAre(L, a, total, c)
  <2>1. total <= Len(t_names)
    BY <1>7, <1>9, <1>10, FoundFacts
  <2> QED BY <1>9, <1>10, <1>11, <2>1, WordsAreSo
<1>14. PackageIs(fl, b, at)
  <2>1. CASE at <= 8 * total + 9
    <3>1. at \in 1..(8 * total + 9)
      BY <1>25, <2>1
    <3>2. HeaderWrong(b)
      BY <1>24, <1>26, <2>1, HeaderDamaged
    <3> QED BY <1>9, <3>1, <3>2 DEF PackageIs
  <2>2. CASE at > 8 * total + 9
    <3>1. /\ P!Unhashed(fl, at) \/ \E k \in 1..total : ~HashedThere(fl, b, k)
          /\ HeaderThere(fl, b)
      BY <1>1, <1>9, <1>10, <1>11, <1>24, <1>26, <2>2, DataDamaged
    <3> QED BY <1>9, <1>25, <2>2, <3>1 DEF PackageIs
  <2> QED BY <1>25, <2>1, <2>2
<1>15. fs = [dirs |-> fs.dirs, files |-> fs.files] /\ P!PUP \in DOMAIN fs.files /\ fs.dirs = job.fs.dirs
       /\ DOMAIN fs.files = DOMAIN job.fs.files \cup {P!PUP}
  BY <1>8 DEF OnlyPackage
<1>16. PICK f, g : f = fs /\ g = fs'
  OBVIOUS
<1>17. /\ g = [dirs |-> g.dirs, files |-> g.files] /\ g.dirs = f.dirs /\ DOMAIN g.files = DOMAIN f.files
       /\ g.files[P!PUP] = b /\ \A q \in DOMAIN f.files : q # P!PUP => g.files[q] = f.files[q]
  <2>1. g = [f EXCEPT !.files = [f.files EXCEPT ![P!PUP] = b]]
    BY <1>2, <1>5, <1>6, <1>16
  <2>2. f = [dirs |-> f.dirs, files |-> f.files] /\ P!PUP \in DOMAIN f.files
    BY <1>15, <1>16
  <2> QED BY <2>1, <2>2
<1>18. SourcesStay(job)'
  <2>1. ASSUME NEW m \in 1..Len(t_names)
        PROVE  /\ SourceOf(m) \in DOMAIN job.fs.files <=> SourceOf(m) \in DOMAIN g.files
               /\ SourceOf(m) \in DOMAIN g.files => g.files[SourceOf(m)] = job.fs.files[SourceOf(m)]
    <3>1. SourceOf(m) # P!PUP
      BY PupPaths
    <3>2. /\ SourceOf(m) \in DOMAIN job.fs.files <=> SourceOf(m) \in DOMAIN f.files
          /\ SourceOf(m) \in DOMAIN f.files => f.files[SourceOf(m)] = job.fs.files[SourceOf(m)]
      BY <1>8, <1>16 DEF SourcesStay
    <3> QED BY <1>17, <3>1, <3>2
  <2> QED BY <1>16, <2>1 DEF SourcesStay, SourceOf, P!SRC
<1>19. OnlyPackage(job)'
  BY <1>15, <1>16, <1>17 DEF OnlyPackage, P!PUP
<1>20. /\ mem' = [job |-> mem'.job, files |-> mem'.files, data_size |-> mem'.data_size, hdr |-> mem'.hdr,
                  said |-> mem'.said, damaged |-> mem'.damaged]
       /\ mem'.job = job /\ mem'.data_size \in Nat /\ mem'.damaged = at /\ mem'.files = fl
  BY <1>1, <1>2, <1>5 DEF PInv
<1>21. FoundSoFar(mem.job, mem.files, Len(t_names))' /\ Placed(mem.files, Len(mem.files))'
  BY <1>7, <1>8, <1>20, PupStays
<1>22. PackageIs(mem.files, fs.files[P!PUP], mem.damaged)'
  <2>1. fs'.files[P!PUP'] = b
    BY <1>16, <1>17, PupStays
  <2> QED BY <1>14, <1>20, <2>1, PupStays
<1>23. UnpackInv'
  BY <1>3, <1>8, <1>19, <1>20, <1>21, <1>22 DEF UnpackInv
<1> QED BY <1>1, <1>3, <1>18, <1>20, <1>23 DEF PInv

-----------------------------------------------------------------------------
(* pupunpack: the package is opened and its header checked *)

LEMMA OpenPackageKeeps == ASSUME PInv, P!OpenPackage PROVE PInv'
<1>1. PICK job \in PupJobs : job = mem.job
  BY DEF PInv
<1>2. PICK fl, a, d : fl = mem.files /\ a = fs.files[P!PUP] /\ d = mem.damaged
  OBVIOUS
<1>3. /\ pc = "damage" /\ pc' = "mkdir" /\ archive' = a /\ UNCHANGED <<fs, cwd, i, mem>>
  BY <1>2 DEF P!OpenPackage
<1>4. /\ SourcesStay(job) /\ OnlyPackage(job) /\ cwd = <<>> /\ i = 0
      /\ FoundSoFar(job, fl, Len(t_names)) /\ Placed(fl, Len(fl)) /\ PackageIs(fl, a, d)
  BY <1>1, <1>2, <1>3 DEF PInv, UnpackInv
<1>5. SourcesStay(job)' /\ OnlyPackage(job)'
  BY <1>3, <1>4, FilesStayThere
<1>6. FoundSoFar(mem.job, mem.files, Len(t_names))' /\ Placed(mem.files, Len(mem.files))'
  BY <1>1, <1>2, <1>3, <1>4, PupStays
<1>7. PackageIs(mem.files, archive, mem.damaged)'
  BY <1>2, <1>3, <1>4, PupStays
<1>8. UnpackInv'
  BY <1>1, <1>3, <1>4, <1>5, <1>6, <1>7 DEF UnpackInv
<1> QED BY <1>1, <1>3, <1>5, <1>8 DEF PInv

LEMMA TargetExistsKeeps == ASSUME PInv, P!TargetExists PROVE PInv'
<1>1. pc = "mkdir" /\ pc' = "failed" /\ UNCHANGED <<fs, cwd, archive, i, mem>>
  BY DEF P!TargetExists, P!Stop
<1>2. PICK job \in PupJobs : job = mem.job
  BY DEF PInv
<1>3. cwd = <<>> /\ SourcesStay(job)
  BY <1>1, <1>2 DEF PInv, UnpackInv
<1>4. SourcesStay(job)'
  BY <1>1, <1>3, FilesStayThere
<1>5. cwd' # P!TO'
  BY <1>1, <1>3 DEF P!TO
<1> QED BY <1>1, <1>2, <1>4, <1>5 DEF PInv

\* A sequence of one member is its own beginning.
LEMMA WholeOfOne == ASSUME NEW S, NEW s \in Seq(S), Len(s) = 1 PROVE SubSeq(s, 1, 1) = s
OBVIOUS

\* Nothing lies below a directory that does not exist.
LEMMA NothingBelow ==
    ASSUME NEW job \in PupJobs, P!TO \notin job.fs.dirs, P!TO \notin DOMAIN job.fs.files,
           NEW q \in DOMAIN job.fs.files \cup {P!PUP}
    PROVE  ~P!IsPrefix(P!TO, q)
<1>1. P!TO = <<"to">> /\ P!PUP = <<"pup">>
  BY DEF P!TO, P!PUP
<1>2. /\ Len(P!TO) = 1 /\ SubSeq(P!TO, 1, 1) = P!TO /\ SubSeq(P!PUP, 1, 1) = P!PUP
      /\ P!TO # P!PUP
  <2>1. ASSUME NEW x
        PROVE  Len(<<x>>) = 1 /\ SubSeq(<<x>>, 1, 1) = <<x>>
    <3>1. <<x>> \in Seq({x}) /\ Len(<<x>>) = 1
      OBVIOUS
    <3> QED BY <3>1, WholeOfOne
  <2>2. <<"to">> # <<"pup">>
    OBVIOUS
  <2> QED BY <1>1, <2>1, <2>2
<1>3. SUFFICES ASSUME 1 <= Len(q), SubSeq(q, 1, 1) = P!TO
               PROVE  FALSE
  BY <1>2 DEF P!IsPrefix
<1>4. CASE q = P!PUP
  BY <1>2, <1>3, <1>4
<1>5. CASE q \in DOMAIN job.fs.files
  <2>1. q \in Seq(P!ToSet(q)) /\ \A n \in 0..(Len(q) - 1) : SubSeq(q, 1, n) \in job.fs.dirs
    BY <1>5, PupJobFacts DEF P!IsJob
  <2>2. PICK l \in Nat : l = Len(q)
    BY <2>1
  <2>3. CASE l = 1
    <3>1. SubSeq(q, 1, 1) = q
      BY <2>1, <2>2, <2>3, WholeOfOne
    <3> QED BY <1>3, <1>5, <3>1
  <2>4. CASE l # 1
    <3>1. 1 <= l
      BY <1>3, <2>2
    <3>2. 1 \in 0..(l - 1)
      BY <2>4, <3>1
    <3>3. 1 \in 0..(Len(q) - 1)
      BY <2>2, <3>2
    <3> QED BY <1>3, <2>1, <3>3
  <2> QED BY <2>3, <2>4
<1> QED BY <1>4, <1>5

LEMMA MakeTargetKeeps == ASSUME PInv, P!MakeTarget PROVE PInv'
<1>1. PICK job \in PupJobs : job = mem.job
  BY DEF PInv
<1>2. PICK fl, a, d, f : fl = mem.files /\ a = archive /\ d = mem.damaged /\ f = fs
  OBVIOUS
<1>3. /\ pc = "mkdir" /\ pc' = "check" /\ cwd' = P!TO /\ UNCHANGED <<archive, i, mem>>
      /\ P!CanMkdir(f, P!TO) /\ fs' = P!mkdir(f, P!TO)
  BY <1>2 DEF P!MakeTarget
<1>4. fs' = [f EXCEPT !.dirs = @ \cup {P!TO}]
  BY <1>3 DEF P!mkdir
<1>5. P!TO \notin f.dirs /\ P!TO \notin DOMAIN f.files
  BY <1>3 DEF P!CanMkdir, P!Exists
<1>6. /\ SourcesStay(job) /\ OnlyPackage(job) /\ i = 0
      /\ FoundSoFar(job, fl, Len(t_names)) /\ Placed(fl, Len(fl)) /\ PackageIs(fl, a, d)
  BY <1>1, <1>2, <1>3 DEF PInv, UnpackInv
<1>7. /\ f = [dirs |-> f.dirs, files |-> f.files] /\ f.dirs = job.fs.dirs
      /\ DOMAIN f.files = DOMAIN job.fs.files \cup {P!PUP}
  BY <1>2, <1>6 DEF OnlyPackage
<1>8. fs'.files = fs.files
  BY <1>2, <1>4, <1>7
<1>9. SourcesStay(job)'
  BY <1>6, <1>8 DEF SourcesStay, SourceOf, P!SRC
<1>10. \A q \in DOMAIN fs.files : ~P!IsPrefix(P!TO, q)
  <2>1. ASSUME NEW q \in DOMAIN fs.files
        PROVE  ~P!IsPrefix(P!TO, q)
    <3>1. q \in DOMAIN job.fs.files \cup {P!PUP}
      BY <1>2, <1>7
    <3>2. P!TO \notin job.fs.dirs /\ P!TO \notin DOMAIN job.fs.files
      BY <1>5, <1>7
    <3> QED BY <3>1, <3>2, NothingBelow
  <2> QED BY <2>1
<1>11. (\A q \in DOMAIN fs.files : ~P!IsPrefix(P!TO, q))'
  BY <1>8, <1>10 DEF P!IsPrefix, P!TO
<1>12. FoundSoFar(mem.job, mem.files, Len(t_names))' /\ Placed(mem.files, Len(mem.files))'
  BY <1>1, <1>2, <1>3, <1>6, PupStays
<1>13. PackageIs(mem.files, archive, mem.damaged)'
  BY <1>2, <1>3, <1>6, PupStays
<1>14. cwd' = P!TO'
  BY <1>3, PupStays
<1>16. fs' = [dirs |-> fs'.dirs, files |-> fs'.files]
  BY <1>4, <1>7
<1>15. UnpackInv'
  BY <1>1, <1>3, <1>6, <1>11, <1>12, <1>13, <1>14, <1>16 DEF UnpackInv
<1> QED BY <1>1, <1>3, <1>9, <1>15 DEF PInv

\* What is known of the package, by what is damaged in it.
LEMMA SoundPackage ==
    ASSUME NEW fl, NEW total \in Nat, total = Len(fl), NEW a, NEW d, PackageIs(fl, a, d)
    PROVE  /\ d \in Nat
           /\ d \in 1..(8 * total + 9) => HeaderWrong(a)
           /\ d \notin 1..(8 * total + 9) =>
                /\ HeaderThere(fl, a)
                /\ d = 0 => \A k \in 1..total : DataThere(fl, a, k)
                /\ d # 0 /\ ~P!Unhashed(fl, d) => \E k \in 1..total : ~HashedThere(fl, a, k)
<1>1. CASE d = 0 /\ WrittenSoFar(fl, a, total)
  <2>1. HeaderThere(fl, a)
    <3>1. PICK c : c = P!Covered(Len(fl))
      OBVIOUS
    <3>2. /\ IsArray(a, EndAt(fl, total)) /\ a[4] = P!Num(Len(fl))
          /\ \A k \in 1..Len(fl) : RowThere(fl, a, k) /\ HashThere(fl, a, k)
          /\ \A w \in 1..3 : a[c + w] = P!Hmac(SubSeq(a, 1, c))[w]
      BY <1>1, <3>1 DEF WrittenSoFar
    <3>3. \A w \in 1..3 : P!Bare(a[c + w]) = P!Hmac(SubSeq(a, 1, c))[w]
      BY <3>2, BareFacts
    <3> QED BY <3>1, <3>2, <3>3 DEF HeaderThere
  <2>2. \A k \in 1..total : DataThere(fl, a, k)
    BY <1>1 DEF WrittenSoFar
  <2> QED BY <1>1, <2>1, <2>2
<1>2. CASE d \in 1..(8 * total + 9) /\ HeaderWrong(a)
  BY <1>2
<1>3. CASE /\ P!Unhashed(fl, d) \/ \E k \in 1..total : ~HashedThere(fl, a, k)
           /\ d \in Nat /\ d > 8 * total + 9 /\ HeaderThere(fl, a)
  BY <1>3
<1> QED BY <1>1, <1>2, <1>3 DEF PackageIs

\* A whole header has the hash that it should.
LEMMA HeaderRight ==
    ASSUME NEW job \in PupJobs, NEW fl, NEW m, FoundSoFar(job, fl, m),
           NEW total \in Nat, total = Len(fl), Placed(fl, total), NEW a, HeaderThere(fl, a)
    PROVE  /\ EndAt(fl, total) \in Nat /\ EndAt(fl, total) >= 8 * total + 10
           /\ IsArray(a, EndAt(fl, total)) /\ Len(a) = EndAt(fl, total) /\ a[4] = P!Num(total)
           /\ P!Number(IF 3 < Len(a) THEN a[3 + 1] ELSE P!ZERO) = total
           /\ HmacOf(a, P!PUP_HDR + 8 * total) = P!Hmac(WordsOf(a, 0, P!Covered(total)))
<1>1. PICK L \in Nat : L = EndAt(fl, total) /\ L >= 8 * total + 10
  BY EndBehind
<1>2. PICK c \in Nat : c = 8 * total + 6
  OBVIOUS
<1>3. P!Covered(total) = c /\ P!PUP_HDR + 8 * total = c
  BY <1>2, PupSizes DEF P!PUP_HDR
<1>4. /\ IsArray(a, L) /\ a[4] = P!Num(total)
      /\ \A w \in 1..3 : P!Bare(a[c + w]) = P!Hmac(SubSeq(a, 1, c))[w]
  BY <1>1, <1>3 DEF HeaderThere
<1>5. Len(a) = L
  BY <1>4, ArrayFacts
<1>6. P!Number(IF 3 < Len(a) THEN a[3 + 1] ELSE P!ZERO) = total
  <2>1. 3 < Len(a)
    BY <1>1, <1>5
  <2>2. P!Number(P!Num(total)) = total
    BY DEF P!Number, P!Num
  <2> QED BY <1>4, <2>1, <2>2
<1>7. WordsOf(a, 0, c) = SubSeq(a, 1, c)
  <2>1. PICK s, y : s = SubSeq(a, 1, c) /\ y = WordsOf(a, 0, c)
    OBVIOUS
  <2>2. s = [w \in 1..(1 + c - 1) |-> a[w + 1 - 1]]
    BY <2>1
  <2>3. 1 + c - 1 = c /\ \A w \in 1..c : w + 1 - 1 = w
    OBVIOUS
  <2>4. s = [w \in 1..c |-> a[w]]
    BY <2>2, <2>3
  <2>5. ReadDone(L, a, 0, c, y)
    BY <1>2, <1>4, <2>1, WordRead
  <2>6. \A w \in 1..c : 0 + w <= L /\ 0 + w = w
    BY <1>1, <1>2
  <2>7. \A w \in 1..c : y[w] = a[w]
    BY <2>5, <2>6 DEF ReadDone
  <2>8. y = [w \in 1..c |-> y[w]]
    BY <2>1 DEF WordsOf
  <2> QED BY <2>1, <2>4, <2>7, <2>8
<1>8. HmacOf(a, c) = P!Hmac(SubSeq(a, 1, c))
  <2>1. PICK s, y : s = P!Hmac(SubSeq(a, 1, c)) /\ y = WordsOf(a, c, 3)
    OBVIOUS
  <2>2. ReadDone(L, a, c, 3, y)
    BY <1>2, <1>4, <2>1, WordRead
  <2>3. \A w \in 1..3 : c + w <= L
    BY <1>1, <1>2
  <2>4. \A w \in 1..3 : P!Bare(y[w]) = s[w]
    BY <1>4, <2>1, <2>2, <2>3 DEF ReadDone
  <2>5. HmacOf(a, c) = [w \in 1..3 |-> P!Bare(y[w])]
    BY <2>1 DEF HmacOf
  <2>6. s = [w \in 1..3 |-> s[w]]
    BY <2>1 DEF P!Hmac
  <2> QED BY <2>1, <2>4, <2>5, <2>6
<1> QED BY <1>1, <1>3, <1>4, <1>5, <1>6, <1>7, <1>8

\* What is read of the mapped file.
LEMMA MappedFacts ==
    /\ \A p, len : P!Words(p, len) = WordsOf(archive, p, len)
    /\ \A p : P!HmacAt(p) = HmacOf(archive, p)
    /\ P!n_sections = P!Number(IF 3 < Len(archive) THEN archive[3 + 1] ELSE P!ZERO)
<1>1. \A p, len : P!Words(p, len) = WordsOf(archive, p, len)
  BY DEF P!Words, WordsOf, P!Peek
<1>2. \A p : P!HmacAt(p) = HmacOf(archive, p)
  BY <1>1 DEF P!HmacAt, HmacOf
<1> QED BY <1>1, <1>2 DEF P!n_sections, P!Peek

\* What has been unpacked, and what was said, do not depend on the state.
LEMMA UnpackedStays ==
    \A job, fl, a, g, said, n :
        UnpackedSoFar(job, fl, a, g, said, n)' <=> UnpackedSoFar(job, fl, a, g, said, n)
<1> SUFFICES ASSUME NEW job, NEW fl, NEW a, NEW g, NEW said, NEW n
             PROVE  UnpackedSoFar(job, fl, a, g, said, n)' <=> UnpackedSoFar(job, fl, a, g, said, n)
  OBVIOUS
<1>1. \A p, len : WordsOf(a, p, len)' = WordsOf(a, p, len)
  BY DEF WordsOf, P!ZERO, P!Num
<1>2. \A k : SaidOf(job, fl, a, k)' = SaidOf(job, fl, a, k)
  BY <1>1 DEF SaidOf, P!Hashed
<1>3. \A f : TargetOf(f)' = TargetOf(f)
  BY DEF TargetOf, P!TO, P!ToSet
<1>4. \A q : P!IsPrefix(P!TO, q)' = P!IsPrefix(P!TO, q)
  BY DEF P!IsPrefix, P!TO
<1> QED BY <1>1, <1>2, <1>3, <1>4 DEF UnpackedSoFar

\* A step from "check" or "section" that changes neither package nor sources.
LEMMA UnpackStep ==
    ASSUME PInv, NEW job \in PupJobs, job = mem.job, NEW fl, fl = mem.files, pc \in {"check", "section"},
           UNCHANGED <<cwd, archive>>, SourcesStay(job)', fs' = [dirs |-> fs'.dirs, files |-> fs'.files],
           mem' = [mem EXCEPT !.said = mem'.said],
           \/ pc' = "section" /\ Unpacking(i)'
           \/ pc' = "done" /\ Unpacking(Len(mem.files))'
           \/ pc' \in {"failed", "crashed"} /\ mem.damaged # 0
    PROVE  PInv'
<1>1. PICK a, d : a = archive /\ d = mem.damaged
  OBVIOUS
<1>2. /\ mem' = [job |-> mem'.job, files |-> mem'.files, data_size |-> mem'.data_size, hdr |-> mem'.hdr,
                 said |-> mem'.said, damaged |-> mem'.damaged]
      /\ mem'.job = job /\ mem'.data_size \in Nat /\ mem'.damaged = d /\ mem'.files = fl
  BY <1>1 DEF PInv
<1>3. /\ cwd = P!TO /\ FoundSoFar(job, fl, Len(t_names)) /\ Placed(fl, Len(fl)) /\ PackageIs(fl, a, d)
  BY <1>1 DEF PInv, UnpackInv
<1>4. cwd' = P!TO'
  BY <1>3, PupStays
<1>5. FoundSoFar(mem.job, mem.files, Len(t_names))' /\ Placed(mem.files, Len(mem.files))'
  BY <1>2, <1>3, PupStays
<1>6. PackageIs(mem.files, archive, mem.damaged)'
  BY <1>1, <1>2, <1>3, PupStays
<1>7. CASE pc' \in {"section", "done"}
  <2>1. UnpackInv'
    BY <1>4, <1>5, <1>6, <1>7 DEF UnpackInv
  <2> QED BY <1>2, <1>7, <2>1 DEF PInv
<1>8. CASE pc' \in {"failed", "crashed"} /\ mem.damaged # 0
  BY <1>1, <1>2, <1>8 DEF PInv
<1> QED BY <1>7, <1>8

LEMMA CheckHeaderKeeps == ASSUME PInv, P!CheckHeader PROVE PInv'
<1>1. PICK job \in PupJobs : job = mem.job
  BY DEF PInv
<1>2. PICK fl, a, d, g, x : fl = mem.files /\ a = archive /\ d = mem.damaged /\ g = fs.files /\ x = Len(t_names)
  OBVIOUS
<1>3. PICK n, at, y : n = P!n_sections /\ at = P!PUP_HDR + 8 * n /\ y = WordsOf(a, 0, P!Covered(n))
  OBVIOUS
<1>4. PICK v : v = IF ~job.unpack_key THEN "???"
                   ELSE IF HmacOf(a, at) = P!Hmac(y) THEN "OK" ELSE "FAIL"
  OBVIOUS
<1>5. pc = "check" /\ UNCHANGED <<fs, cwd, archive, i>>
  BY DEF P!CheckHeader
<1>6. IF job.unpack_key => P!Mapped(at, 3)
      THEN mem' = [mem EXCEPT !.said = <<v>>] /\ pc' = "section"
      ELSE pc' = "crashed" /\ mem' = mem
  <2>1. P!Verdict(at, P!Words(0, P!Covered(n))) = v
    BY <1>1, <1>2, <1>3, <1>4, MappedFacts DEF P!Verdict
  <2> QED BY <1>1, <1>3, <2>1 DEF P!CheckHeader
<1>7. /\ SourcesStay(job) /\ FoundSoFar(job, fl, x) /\ Placed(fl, Len(fl)) /\ PackageIs(fl, a, d)
      /\ i = 0 /\ fs = [dirs |-> fs.dirs, files |-> fs.files]
      /\ \A q \in DOMAIN fs.files : ~P!IsPrefix(P!TO, q)
  BY <1>1, <1>2, <1>5 DEF PInv, UnpackInv
<1>8. PICK total \in Nat : total = Len(fl)
  BY <1>7, FoundFacts
<1>9. FoundSoFar(job, fl, x) /\ Placed(fl, total)
  BY <1>7, <1>8
<1>10. mem = [job |-> mem.job, files |-> mem.files, data_size |-> mem.data_size, hdr |-> mem.hdr,
              said |-> mem.said, damaged |-> mem.damaged]
  BY DEF PInv
<1>11. /\ mem' = [mem EXCEPT !.said = mem'.said] /\ mem'.job = job /\ mem'.files = fl /\ mem'.damaged = d
       /\ pc' = "section" => mem'.said = <<v>>
  BY <1>1, <1>2, <1>6, <1>10
<1>12. SourcesStay(job)'
  BY <1>5, <1>7, FilesStayThere
<1>13. job.unpack_key \in BOOLEAN /\ PAGE \in Nat
  BY NamesFacts, PupJobFacts
<1>14. CASE d \in 1..(8 * total + 9)
  <2>1. HeaderWrong(a)
    BY <1>7, <1>8, <1>14, SoundPackage
  <2>2. job.unpack_key => v = "FAIL"
    <3>1. n = P!Number(IF 3 < Len(a) THEN a[3 + 1] ELSE P!ZERO)
      BY <1>2, <1>3, MappedFacts
    <3>2. HmacOf(a, at) # P!Hmac(y)
      BY <1>3, <2>1, <3>1 DEF HeaderWrong
    <3> QED BY <1>4, <3>2
  <2>3. v \in {"OK", "FAIL", "???"}
    BY <1>4
  <2>4. <<v>> \in Seq({"OK", "FAIL", "???"}) /\ Len(<<v>>) = 1 /\ <<v>>[1] = v
    BY <2>3
  <2>5. pc' = "section" => Unpacking(i)'
    <3>1. SUFFICES ASSUME pc' = "section" PROVE Unpacking(i)'
      OBVIOUS
    <3>2. mem'.said = <<v>>
      BY <1>11, <3>1
    <3>3. /\ mem'.said \in Seq({"OK", "FAIL", "???"})
          /\ mem'.job.unpack_key => Len(mem'.said) > 0 /\ mem'.said[1] = "FAIL"
      BY <1>11, <2>2, <2>4, <3>2
    <3>4. mem'.damaged \in 1..(8 * Len(mem'.files) + 9)
      BY <1>8, <1>11, <1>14
    <3> QED BY <3>3, <3>4 DEF Unpacking
  <2>6. d # 0
    BY <1>14
  <2> QED BY <1>1, <1>2, <1>5, <1>6, <1>7, <1>11, <1>12, <2>5, <2>6, UnpackStep
<1>15. CASE d \notin 1..(8 * total + 9)
  <2>1. HeaderThere(fl, a)
    BY <1>7, <1>8, <1>15, SoundPackage
  <2>2. /\ EndAt(fl, total) \in Nat /\ EndAt(fl, total) >= 8 * total + 10
        /\ Len(a) = EndAt(fl, total)
        /\ P!Number(IF 3 < Len(a) THEN a[3 + 1] ELSE P!ZERO) = total
        /\ HmacOf(a, P!PUP_HDR + 8 * total) = P!Hmac(WordsOf(a, 0, P!Covered(total)))
    BY <1>1, <1>8, <1>9, <2>1, HeaderRight
  <2>3. n = total
    BY <1>2, <1>3, <2>2, MappedFacts
  <2>4. at = 8 * total + 6
    BY <1>3, <2>3 DEF P!PUP_HDR
  <2>5. P!Mapped(at, 3)
    <3>1. at + 3 <= Len(archive) + PAGE
      BY <1>2, <1>13, <2>2, <2>4
    <3> QED BY <3>1 DEF P!Mapped
  <2>6. v = IF job.unpack_key THEN "OK" ELSE "???"
    <3>1. HmacOf(a, at) = P!Hmac(y)
      BY <1>3, <2>2, <2>3
    <3> QED BY <1>4, <3>1
  <2>7. pc' = "section" /\ mem'.said = <<v>>
    BY <1>6, <1>11, <2>5
  <2>8. <<v>> = [k \in 1..(0 + 1) |-> IF k = 1 THEN IF job.unpack_key THEN "OK" ELSE "???"
                                       ELSE SaidOf(job, fl, a, k - 1)]
    <3>1. <<v>> = [k \in 1..1 |-> v]
      OBVIOUS
    <3>2. 0 + 1 = 1 /\ \A k \in 1..1 : k = 1
      OBVIOUS
    <3> QED BY <2>6, <3>1, <3>2
  <2>9. UnpackedSoFar(job, fl, a, g, <<v>>, 0)
    <3>1. 1..0 = {}
      OBVIOUS
    <3> QED BY <1>2, <1>7, <2>8, <3>1 DEF UnpackedSoFar
  <2>10. UnpackedSoFar(mem.job, mem.files, archive, fs.files, mem.said, i)'
    BY <1>2, <1>5, <1>7, <1>11, <2>7, <2>9, UnpackedStays
  <2>11. i' \in 0..Len(mem'.files) /\ mem'.damaged \notin 1..(8 * Len(mem'.files) + 9)
    BY <1>5, <1>7, <1>8, <1>11, <1>15
  <2>12. Unpacking(i)'
    BY <2>10, <2>11 DEF Unpacking
  <2> QED BY <1>1, <1>2, <1>5, <1>7, <1>11, <1>12, <2>7, <2>12, UnpackStep
<1> QED BY <1>14, <1>15

-----------------------------------------------------------------------------
(* pupunpack: the sections are unpacked *)

\* What is known while sections are unpacked.
LEMMA SectionFacts ==
    ASSUME PInv, pc = "section", NEW job \in PupJobs, job = mem.job, NEW fl, fl = mem.files,
           NEW a, a = archive, NEW d, d = mem.damaged, NEW x, x = Len(t_names)
    PROVE  /\ SourcesStay(job) /\ FoundSoFar(job, fl, x) /\ Len(fl) \in Nat /\ Placed(fl, Len(fl))
           /\ PackageIs(fl, a, d) /\ cwd = P!TO /\ Unpacking(i)
           /\ fs = [dirs |-> fs.dirs, files |-> fs.files]
           /\ mem = [job |-> mem.job, files |-> mem.files, data_size |-> mem.data_size,
                     hdr |-> mem.hdr, said |-> mem.said, damaged |-> mem.damaged]
<1>1. /\ SourcesStay(job) /\ FoundSoFar(job, fl, x) /\ Placed(fl, Len(fl)) /\ PackageIs(fl, a, d)
      /\ cwd = P!TO /\ Unpacking(i) /\ fs = [dirs |-> fs.dirs, files |-> fs.files]
      /\ mem = [job |-> mem.job, files |-> mem.files, data_size |-> mem.data_size,
                hdr |-> mem.hdr, said |-> mem.said, damaged |-> mem.damaged]
  BY DEF PInv, UnpackInv
<1> QED BY <1>1, FoundFacts

\* With a whole header there are as many sections as files, and the tables are mapped.
LEMMA SectionsRight ==
    ASSUME PInv, pc = "section", NEW job \in PupJobs, job = mem.job, NEW fl, fl = mem.files,
           NEW total \in Nat, total = Len(fl), mem.damaged \notin 1..(8 * total + 9)
    PROVE  /\ HeaderThere(fl, archive) /\ P!n_sections = total
           /\ Len(archive) = EndAt(fl, total) /\ EndAt(fl, total) \in Nat
           /\ EndAt(fl, total) >= 8 * total + 10 /\ IsArray(archive, EndAt(fl, total))
           /\ P!Mapped(P!PUP_HDR, 8 * P!n_sections)
<1>1. PICK a, d, x : a = archive /\ d = mem.damaged /\ x = Len(t_names)
  OBVIOUS
<1>2. FoundSoFar(job, fl, x) /\ Placed(fl, total) /\ PackageIs(fl, a, d)
  BY <1>1, SectionFacts
<1>3. HeaderThere(fl, a)
  BY <1>1, <1>2, SoundPackage
<1>4. /\ EndAt(fl, total) \in Nat /\ EndAt(fl, total) >= 8 * total + 10
      /\ IsArray(a, EndAt(fl, total)) /\ Len(a) = EndAt(fl, total)
      /\ P!Number(IF 3 < Len(a) THEN a[3 + 1] ELSE P!ZERO) = total
  BY <1>2, <1>3, HeaderRight
<1>5. P!n_sections = total
  BY <1>1, <1>4, MappedFacts
<1>6. P!Mapped(P!PUP_HDR, 8 * total)
  <2>1. P!PUP_HDR + 8 * total <= Len(archive) + PAGE
    BY <1>1, <1>4, NamesFacts DEF P!PUP_HDR
  <2> QED BY <2>1 DEF P!Mapped
<1> QED BY <1>1, <1>3, <1>4, <1>5, <1>6

LEMMA OffTableKeeps == ASSUME PInv, P!OffTable PROVE PInv'
<1>1. PICK job \in PupJobs : job = mem.job
  BY DEF PInv
<1>2. PICK fl, a, d, x : fl = mem.files /\ a = archive /\ d = mem.damaged /\ x = Len(t_names)
  OBVIOUS
<1>3. /\ pc = "section" /\ ~P!Mapped(P!PUP_HDR, 8 * P!n_sections)
      /\ pc' = "crashed" /\ UNCHANGED <<fs, cwd, archive, i, mem>>
  BY DEF P!OffTable, P!Unpacking, P!Stop
<1>4. /\ SourcesStay(job) /\ Len(fl) \in Nat /\ fs = [dirs |-> fs.dirs, files |-> fs.files]
      /\ mem = [job |-> mem.job, files |-> mem.files, data_size |-> mem.data_size,
                hdr |-> mem.hdr, said |-> mem.said, damaged |-> mem.damaged]
  BY <1>1, <1>2, <1>3, SectionFacts
<1>5. mem.damaged \in 1..(8 * Len(fl) + 9)
  BY <1>1, <1>2, <1>3, <1>4, SectionsRight
<1>6. mem.damaged # 0
  BY <1>5
<1>7. SourcesStay(job)' /\ mem' = [mem EXCEPT !.said = mem'.said]
      /\ fs' = [dirs |-> fs'.dirs, files |-> fs'.files]
  BY <1>3, <1>4, FilesStayThere
<1> QED BY <1>1, <1>2, <1>3, <1>6, <1>7, UnpackStep

\* Two names, two targets, and no target is a source.
LEMMA TargetFacts ==
    /\ \A x, y : P!TO \o <<x>> = P!TO \o <<y>> => x = y
    /\ \A x : \A m : P!TO \o <<x>> # SourceOf(m)
    /\ \A x : P!IsPrefix(P!TO, P!TO \o <<x>>) /\ Len(P!TO \o <<x>>) = 2 /\ P!Last(P!TO \o <<x>>) = x
<1>1. P!TO = <<"to">> /\ P!SRC = <<"src">>
  BY DEF P!TO, P!SRC
<1>2. ASSUME NEW x
      PROVE  Len(<<"to">> \o <<x>>) = 2 /\ (<<"to">> \o <<x>>)[1] = "to" /\ (<<"to">> \o <<x>>)[2] = x
  OBVIOUS
<1>3. ASSUME NEW x
      PROVE  (<<"src">> \o <<x>>)[1] = "src"
  OBVIOUS
<1>4. \A x, y : P!TO \o <<x>> = P!TO \o <<y>> => x = y
  BY <1>1, <1>2
<1>5. ASSUME NEW x, NEW m
      PROVE  P!TO \o <<x>> # SourceOf(m)
  BY <1>1, <1>2, <1>3 DEF SourceOf
<1>6. ASSUME NEW x
      PROVE  P!IsPrefix(P!TO, P!TO \o <<x>>) /\ P!Last(P!TO \o <<x>>) = x
  <2>1. PICK S : S = {"to", x}
    OBVIOUS
  <2>2. <<"to">> \in Seq(S) /\ <<x>> \in Seq(S) /\ <<"to">> \o <<x>> \in Seq(S)
    BY <2>1
  <2>3. PICK s \in Seq(S), r \in Seq(S) : s = <<"to">> /\ r = <<"to">> \o <<x>>
    BY <2>2
  <2>4. Len(s) = 1 /\ Len(r) = 2 /\ r[1] = s[1] /\ r[2] = x
    BY <2>3
  <2>5. SubSeq(s, 1, 1) = SubSeq(r, 1, 1)
    BY <2>4
  <2>6. P!IsPrefix(s, r)
    BY <2>4, <2>5 DEF P!IsPrefix
  <2>7. P!Last(r) = x
    BY <2>4 DEF P!Last
  <2> QED BY <1>1, <2>3, <2>6, <2>7
<1> QED BY <1>1, <1>2, <1>4, <1>5, <1>6

\* Entry m of the table is that of the file f.
EntryIs(job, f, m) ==
    /\ f.id = t_names[m].id /\ SourceOf(m) \in DOMAIN job.fs.files /\ f.data = job.fs.files[SourceOf(m)]
    /\ TargetOf(f) = P!TO \o <<t_names[m].name>>

LEMMA FoundEntry ==
    ASSUME NEW job \in PupJobs, NEW fl, FoundSoFar(job, fl, Len(t_names)), NEW k \in 1..Len(fl)
    PROVE  \E m \in 1..Len(t_names) : EntryIs(job, fl[k], m)
<1>1. PICK m \in 1..Len(t_names) : /\ fl[k].id = t_names[m].id /\ SourceOf(m) \in DOMAIN job.fs.files
                                   /\ fl[k].data = job.fs.files[SourceOf(m)]
  BY DEF FoundSoFar
<1>2. (CHOOSE t \in P!ToSet(t_names) : t.id = fl[k].id) = t_names[m]
  BY <1>1, EntryWithId
<1>3. TargetOf(fl[k]) = P!TO \o <<t_names[m].name>>
  BY <1>2 DEF TargetOf
<1>4. EntryIs(job, fl[k], m)
  BY <1>1, <1>3 DEF EntryIs
<1> QED BY <1>4

\* Two files have two targets.
LEMMA TargetsDiffer ==
    ASSUME NEW job \in PupJobs, NEW fl, FoundSoFar(job, fl, Len(t_names)),
           NEW k \in 1..Len(fl), NEW l \in 1..Len(fl), k # l
    PROVE  TargetOf(fl[k]) # TargetOf(fl[l])
<1>0. \A j \in 1..Len(fl) : \E m \in 1..Len(t_names) :
        fl[j].id = t_names[m].id /\ TargetOf(fl[j]) = P!TO \o <<t_names[m].name>>
  <2>1. ASSUME NEW j \in 1..Len(fl)
        PROVE  \E m \in 1..Len(t_names) :
                 fl[j].id = t_names[m].id /\ TargetOf(fl[j]) = P!TO \o <<t_names[m].name>>
    <3>1. PICK m \in 1..Len(t_names) : EntryIs(job, fl[j], m)
      BY FoundEntry
    <3> QED BY <3>1 DEF EntryIs
  <2> QED BY <2>1
<1>1. PICK m \in 1..Len(t_names) :
        fl[k].id = t_names[m].id /\ TargetOf(fl[k]) = P!TO \o <<t_names[m].name>>
  BY <1>0
<1>2. PICK n \in 1..Len(t_names) :
        fl[l].id = t_names[n].id /\ TargetOf(fl[l]) = P!TO \o <<t_names[n].name>>
  BY <1>0
<1>3. fl[k].id # fl[l].id
  BY DEF FoundSoFar
<1>4. m # n
  BY <1>1, <1>2, <1>3
<1>5. t_names[m].name # t_names[n].name
  BY <1>4, NamesFacts
<1> QED BY <1>1, <1>2, <1>5, TargetFacts

\* The hash in the table that has number n.
HashAt(fl, total, a, n) ==
    /\ {p \in {P!PUP_HDR + 4 * total + 4 * l : l \in 0..(total - 1)} :
          (IF p < Len(a) THEN a[p + 1] ELSE P!ZERO) = P!Num(n)} = {P!PUP_HDR + 4 * total + 4 * n}
    /\ HmacOf(a, P!PUP_HDR + 4 * total + 4 * n + 1) = P!Hmac(fl[n + 1].data)

LEMMA HashIsFound ==
    ASSUME NEW fl, NEW total \in Nat, total = Len(fl), NEW L \in Nat, L >= 8 * total + 10,
           NEW a, IsArray(a, L), HeaderThere(fl, a), NEW n \in Nat, n < total
    PROVE  HashAt(fl, total, a, n)
<1>1. PICK q \in Nat : q = 4 * total
  OBVIOUS
<1>2. PICK k \in 1..total : k = n + 1
  OBVIOUS
<1>3. PICK slot \in Nat : slot = q + 4 * n + 6
  BY <1>1
<1>4. \A j \in 1..total : HashThere(fl, a, j)
  BY DEF HeaderThere
<1>5. Len(a) = L
  BY ArrayFacts
<1>6. \A l \in 0..(total - 1) : P!PUP_HDR + 4 * total + 4 * l = q + 4 * l + 6
  BY <1>1 DEF P!PUP_HDR
<1>7. ASSUME NEW l \in 0..(total - 1)
      PROVE  (IF q + 4 * l + 6 < Len(a) THEN a[q + 4 * l + 6 + 1] ELSE P!ZERO) = P!Num(l)
  <2>1. PICK j \in 1..total : j = l + 1
    OBVIOUS
  <2>2. PICK p \in Nat : p = q + 4 * l + 6
    BY <1>1
  <2>3. a[4 * total + 4 * j + 3] = P!Num(j - 1)
    BY <1>4 DEF HashThere
  <2>4. 4 * total + 4 * j + 3 = p + 1 /\ j - 1 = l
    BY <1>1, <2>1, <2>2
  <2>5. p < L
    BY <1>1, <2>2
  <2>6. a[p + 1] = P!Num(l)
    BY <2>3, <2>4
  <2>7. q + 4 * l + 6 = p
    BY <2>2
  <2> QED BY <1>5, <2>5, <2>6, <2>7
<1>8. \A l \in Nat : P!Num(l) = P!Num(n) => l = n
  BY DEF P!Num
<1>9. n \in 0..(total - 1) /\ P!PUP_HDR + 4 * total + 4 * n = slot
  BY <1>3, <1>6
<1>10. PICK T : T = {p \in {P!PUP_HDR + 4 * total + 4 * l : l \in 0..(total - 1)} :
                       (IF p < Len(a) THEN a[p + 1] ELSE P!ZERO) = P!Num(n)}
  OBVIOUS
<1>11. slot \in T
  <2>1. slot \in {P!PUP_HDR + 4 * total + 4 * l : l \in 0..(total - 1)}
    BY <1>9
  <2>2. (IF slot < Len(a) THEN a[slot + 1] ELSE P!ZERO) = P!Num(n)
    BY <1>3, <1>7, <1>9
  <2> QED BY <1>10, <2>1, <2>2
<1>12. ASSUME NEW p \in T
       PROVE  p = slot
  <2>1. PICK l \in 0..(total - 1) : p = P!PUP_HDR + 4 * total + 4 * l
    BY <1>10
  <2>2. p = q + 4 * l + 6
    BY <1>6, <2>1
  <2>3. P!Num(l) = P!Num(n)
    <3>1. (IF p < Len(a) THEN a[p + 1] ELSE P!ZERO) = P!Num(n)
      BY <1>10
    <3>2. (IF p < Len(a) THEN a[p + 1] ELSE P!ZERO) = P!Num(l)
      BY <1>7, <2>2
    <3> QED BY <3>1, <3>2
  <2>4. l = n
    BY <1>8, <2>3
  <2> QED BY <1>9, <2>1, <2>4
<1>13. T = {slot}
  BY <1>11, <1>12
<1>14. HmacOf(a, slot + 1) = P!Hmac(fl[k].data)
  <2>1. PICK p \in Nat : p = slot + 1
    BY <1>3
  <2>2. PICK y, s : y = WordsOf(a, p, 3) /\ s = P!Hmac(fl[k].data)
    OBVIOUS
  <2>3. ReadDone(L, a, p, 3, y)
    BY <2>1, <2>2, WordRead
  <2>4. \A w \in 1..3 : a[4 * total + 4 * k + 3 + w] = s[w]
    BY <1>2, <1>4, <2>2 DEF HashThere
  <2>5. ASSUME NEW w \in 1..3
        PROVE  P!Bare(y[w]) = s[w]
    <3>1. p + w = 4 * total + 4 * k + 3 + w
      BY <1>1, <1>2, <1>3, <2>1
    <3>2. p + w <= L
      BY <1>1, <1>3, <2>1
    <3>3. y[w] = a[p + w]
      BY <2>3, <3>2 DEF ReadDone
    <3>4. y[w] = s[w]
      BY <2>4, <3>1, <3>3
    <3> QED BY <2>2, <3>4, BareFacts
  <2>6. HmacOf(a, p) = [w \in 1..3 |-> P!Bare(y[w])] /\ s = [w \in 1..3 |-> s[w]]
    BY <2>2 DEF HmacOf, P!Hmac
  <2> QED BY <2>1, <2>2, <2>5, <2>6
<1> QED BY <1>2, <1>9, <1>10, <1>13, <1>14 DEF HashAt

\* The tables of a whole header lead to file i + 1.
SectionIs(fl, f) ==
    /\ P!Field(1) = f.offset /\ P!Field(2) = f.len
    /\ P!Known = {CHOOSE t \in P!ToSet(t_names) : t.id = f.id}
    /\ P!Found_i = {P!PUP_HDR + 4 * Len(fl) + 4 * i}
    /\ HmacOf(archive, P!PUP_HDR + 4 * Len(fl) + 4 * i + 1) = P!Hmac(f.data)
    /\ P!Mapped(f.offset, f.len) /\ P!Mapped(f.offset, f.len % W)

LEMMA SectionFound ==
    ASSUME PInv, pc = "section", i < P!n_sections, NEW job \in PupJobs, job = mem.job,
           NEW fl, fl = mem.files, NEW total \in Nat, total = Len(fl),
           mem.damaged \notin 1..(8 * total + 9)
    PROVE  i \in Nat /\ i < total /\ SectionIs(fl, fl[i + 1])
<1>1. PICK a, d, x : a = archive /\ d = mem.damaged /\ x = Len(t_names)
  OBVIOUS
<1>2. FoundSoFar(job, fl, x) /\ Placed(fl, total) /\ Unpacking(i)
  BY <1>1, SectionFacts
<1>3. /\ HeaderThere(fl, a) /\ P!n_sections = total
      /\ Len(a) = EndAt(fl, total) /\ EndAt(fl, total) \in Nat
      /\ EndAt(fl, total) >= 8 * total + 10 /\ IsArray(a, EndAt(fl, total))
  BY <1>1, SectionsRight
<1>4. PICK L \in Nat : L = EndAt(fl, total)
  BY <1>3
<1>5. PICK n \in Nat : n = i /\ n < total
  <2>1. i \in 0..total
    BY <1>2 DEF Unpacking
  <2> QED BY <1>3, <2>1
<1>6. PICK k \in 1..total : k = n + 1
  BY <1>5
<1>7. PICK f : f = fl[k]
  OBVIOUS
<1>8. PICK o \in Nat, D \in Nat, id \in 0..(W - 1) : o = f.offset /\ D = f.len /\ id = f.id
  BY <1>2, <1>7, FoundFacts
<1>9. \A j \in 1..total : RowThere(fl, a, j) /\ HashThere(fl, a, j)
  BY <1>3 DEF HeaderThere
<1>10. /\ a[4 * n + 7] = P!Num(id) /\ a[4 * n + 8] = P!Num(o) /\ a[4 * n + 9] = P!Num(D)
  <2>1. a[4 * k + 3] = P!Num(id) /\ a[4 * k + 4] = P!Num(o) /\ a[4 * k + 5] = P!Num(D)
    BY <1>7, <1>8, <1>9 DEF RowThere
  <2>2. 4 * k + 3 = 4 * n + 7 /\ 4 * k + 4 = 4 * n + 8 /\ 4 * k + 5 = 4 * n + 9
    BY <1>6
  <2> QED BY <2>1, <2>2
<1>11. \A v \in Nat : P!Number(P!Num(v)) = v
  BY DEF P!Number, P!Num
<1>12. \A p \in Nat : p < L => P!Peek(p) = a[p + 1]
  BY <1>1, <1>3, <1>4 DEF P!Peek
<1>13. P!Field(0) = id /\ P!Field(1) = o /\ P!Field(2) = D
  <2>1. 4 * n + 8 < L
    BY <1>3, <1>4, <1>5
  <2>2. PICK p \in Nat : p = 4 * n + 6
    OBVIOUS
  <2>3. P!Peek(p) = a[p + 1] /\ P!Peek(p + 1) = a[p + 1 + 1] /\ P!Peek(p + 2) = a[p + 2 + 1]
    BY <1>12, <2>1, <2>2
  <2>4. p + 1 = 4 * n + 7 /\ p + 1 + 1 = 4 * n + 8 /\ p + 2 + 1 = 4 * n + 9
    BY <2>2
  <2>5. P!Number(P!Peek(p)) = id /\ P!Number(P!Peek(p + 1)) = o /\ P!Number(P!Peek(p + 2)) = D
    <3>1. id \in Nat
      BY NamesFacts
    <3> QED BY <1>10, <1>11, <2>3, <2>4, <3>1
  <2>6. P!PUP_HDR + 4 * i + 0 = p /\ P!PUP_HDR + 4 * i + 1 = p + 1 /\ P!PUP_HDR + 4 * i + 2 = p + 2
    BY <1>5, <2>2 DEF P!PUP_HDR
  <2> QED BY <2>5, <2>6 DEF P!Field
<1>14. P!Known = {CHOOSE t \in P!ToSet(t_names) : t.id = id}
  <2>1. id % W = id
    <3>1. id \in Nat /\ id < W
      BY NamesFacts
    <3> QED BY <3>1, NamesFacts, ModOfWord
  <2>2. PICK m \in 1..Len(t_names) : t_names[m].id = id
    BY <1>1, <1>2, <1>7, <1>8 DEF FoundSoFar
  <2>3. /\ t_names[m] \in P!ToSet(t_names)
        /\ \A t \in P!ToSet(t_names) : t.id = id => t = t_names[m]
        /\ (CHOOSE t \in P!ToSet(t_names) : t.id = id) = t_names[m]
    BY <2>2, EntryWithId
  <2>4. P!Known = {t \in P!ToSet(t_names) : t.id = id}
    BY <1>13, <2>1 DEF P!Known
  <2>5. P!Known = {t_names[m]}
    BY <2>2, <2>3, <2>4
  <2> QED BY <2>3, <2>5
<1>15. HashAt(fl, total, a, n)
  BY <1>3, <1>4, <1>5, HashIsFound
<1>16. P!Found_i = {P!PUP_HDR + 4 * Len(fl) + 4 * i}
  <2>1. P!HmacSlots = {P!PUP_HDR + 4 * total + 4 * l : l \in 0..(total - 1)}
    BY <1>3 DEF P!HmacSlots
  <2> QED BY <1>1, <1>5, <1>15, <2>1 DEF HashAt, P!Found_i, P!Peek
<1>17. HmacOf(a, P!PUP_HDR + 4 * Len(fl) + 4 * i + 1) = P!Hmac(f.data)
  BY <1>5, <1>6, <1>7, <1>15 DEF HashAt
<1>20. P!Mapped(o, D) /\ P!Mapped(o, D % W)
  <2>3. PICK r \in Nat : r = D % W /\ r <= D
    <3>1. IsArray(f.data, D)
      BY <1>2, <1>7, <1>8, FoundFacts
    <3> QED BY <3>1, HashedFacts
  <2>1. o + D <= L
    BY <1>2, <1>4, <1>7, <1>8 DEF Placed
  <2>2. o + D <= Len(archive) + PAGE
    BY <1>1, <1>3, <1>4, <2>1, NamesFacts
  <2>4. o + r <= Len(archive) + PAGE
    BY <1>1, <1>3, <1>4, <2>1, <2>3, NamesFacts
  <2> QED BY <2>2, <2>3, <2>4 DEF P!Mapped
<1>21. SectionIs(fl, f)
  BY <1>1, <1>8, <1>13, <1>14, <1>16, <1>17, <1>20 DEF SectionIs
<1> QED BY <1>5, <1>6, <1>7, <1>21

LEMMA UnknownEntryKeeps == ASSUME PInv, P!UnknownEntry PROVE PInv'
<1>1. PICK job \in PupJobs : job = mem.job
  BY DEF PInv
<1>2. PICK fl, a, d, x : fl = mem.files /\ a = archive /\ d = mem.damaged /\ x = Len(t_names)
  OBVIOUS
<1>3. /\ pc = "section" /\ i < P!n_sections /\ (P!Known = {} \/ P!Found_i = {})
      /\ pc' = "failed" /\ UNCHANGED <<fs, cwd, archive, i, mem>>
  BY DEF P!UnknownEntry, P!Unpacking, P!Stop
<1>4. /\ SourcesStay(job) /\ Len(fl) \in Nat /\ fs = [dirs |-> fs.dirs, files |-> fs.files]
      /\ mem = [job |-> mem.job, files |-> mem.files, data_size |-> mem.data_size,
                hdr |-> mem.hdr, said |-> mem.said, damaged |-> mem.damaged]
  BY <1>1, <1>2, <1>3, SectionFacts
<1>5. mem.damaged \in 1..(8 * Len(fl) + 9)
  <2>1. SUFFICES ASSUME mem.damaged \notin 1..(8 * Len(fl) + 9) PROVE FALSE
    OBVIOUS
  <2>2. SectionIs(fl, fl[i + 1])
    BY <1>1, <1>2, <1>3, <1>4, <2>1, SectionFound
  <2> QED BY <1>3, <2>2 DEF SectionIs
<1>6. mem.damaged # 0
  BY <1>5
<1>7. SourcesStay(job)' /\ mem' = [mem EXCEPT !.said = mem'.said]
      /\ fs' = [dirs |-> fs'.dirs, files |-> fs'.files]
  BY <1>3, <1>4, FilesStayThere
<1> QED BY <1>1, <1>2, <1>3, <1>6, <1>7, UnpackStep

LEMMA HashOffFileKeeps == ASSUME PInv, P!HashOffFile PROVE PInv'
<1>1. PICK job \in PupJobs : job = mem.job
  BY DEF PInv
<1>2. PICK fl, a, d, x : fl = mem.files /\ a = archive /\ d = mem.damaged /\ x = Len(t_names)
  OBVIOUS
<1>3. /\ pc = "section" /\ i < P!n_sections /\ ~P!Mapped(P!Field(1), P!Field(2) % W)
      /\ pc' = "crashed" /\ UNCHANGED <<fs, cwd, archive, i, mem>>
  BY DEF P!HashOffFile, P!Section, P!Unpacking, P!Stop
<1>4. /\ SourcesStay(job) /\ Len(fl) \in Nat /\ fs = [dirs |-> fs.dirs, files |-> fs.files]
      /\ mem = [job |-> mem.job, files |-> mem.files, data_size |-> mem.data_size,
                hdr |-> mem.hdr, said |-> mem.said, damaged |-> mem.damaged]
  BY <1>1, <1>2, <1>3, SectionFacts
<1>5. mem.damaged \in 1..(8 * Len(fl) + 9)
  <2>1. SUFFICES ASSUME mem.damaged \notin 1..(8 * Len(fl) + 9) PROVE FALSE
    OBVIOUS
  <2>2. SectionIs(fl, fl[i + 1])
    BY <1>1, <1>2, <1>3, <1>4, <2>1, SectionFound
  <2> QED BY <1>3, <2>2 DEF SectionIs
<1>6. mem.damaged # 0
  BY <1>5
<1>7. SourcesStay(job)' /\ mem' = [mem EXCEPT !.said = mem'.said]
      /\ fs' = [dirs |-> fs'.dirs, files |-> fs'.files]
  BY <1>3, <1>4, FilesStayThere
<1> QED BY <1>1, <1>2, <1>3, <1>6, <1>7, UnpackStep

\* The files h are the files g with one written.
FilePut(g, h, path, data) ==
    /\ DOMAIN h = DOMAIN g \cup {path} /\ h[path] = data
    /\ \A q \in DOMAIN g : q # path => h[q] = g[q]

\* Writing below the target changes no source.
LEMMA SectionWritten ==
    ASSUME NEW job, NEW data, NEW x, fs = [dirs |-> fs.dirs, files |-> fs.files],
           fs' = P!memcpy_to_file(fs, P!TO \o <<x>>, data), SourcesStay(job)
    PROVE  /\ fs' = [dirs |-> fs'.dirs, files |-> fs'.files]
           /\ FilePut(fs.files, fs'.files, P!TO \o <<x>>, data)
           /\ SourcesStay(job)'
<1>1. PICK f, g, path : f = fs /\ g = fs' /\ path = P!TO \o <<x>>
  OBVIOUS
<1>2. f = [dirs |-> f.dirs, files |-> f.files] /\ g = P!memcpy_to_file(f, path, data)
  BY <1>1
<1>3. /\ g = [dirs |-> g.dirs, files |-> g.files]
      /\ DOMAIN g.files = DOMAIN f.files \cup {path} /\ g.files[path] = data
      /\ \A q \in DOMAIN f.files : q # path => g.files[q] = f.files[q]
  BY <1>2, PutFileFacts
<1>4. ASSUME NEW m \in 1..Len(t_names)
      PROVE  /\ SourceOf(m) \in DOMAIN job.fs.files <=> SourceOf(m) \in DOMAIN g.files
             /\ SourceOf(m) \in DOMAIN g.files => g.files[SourceOf(m)] = job.fs.files[SourceOf(m)]
  <2>1. SourceOf(m) # path
    BY <1>1, TargetFacts
  <2>2. /\ SourceOf(m) \in DOMAIN job.fs.files <=> SourceOf(m) \in DOMAIN f.files
        /\ SourceOf(m) \in DOMAIN f.files => f.files[SourceOf(m)] = job.fs.files[SourceOf(m)]
    BY <1>1 DEF SourcesStay
  <2> QED BY <1>3, <2>1, <2>2
<1>5. SourcesStay(job)'
  BY <1>1, <1>4 DEF SourcesStay, SourceOf, P!SRC
<1>6. FilePut(f.files, g.files, path, data)
  BY <1>3 DEF FilePut
<1> QED BY <1>1, <1>3, <1>5, <1>6

\* One more file is unpacked.
LEMMA UnpackedOneMore ==
    ASSUME NEW job \in PupJobs, NEW fl, FoundSoFar(job, fl, Len(t_names)), NEW n \in Nat, n < Len(fl),
           NEW a, NEW f, NEW said, UnpackedSoFar(job, fl, a, f, said, n),
           NEW path, path = TargetOf(fl[n + 1]), NEW g, DOMAIN g = DOMAIN f \cup {path},
           g[path] = WordsOf(a, fl[n + 1].offset, fl[n + 1].len),
           \A q \in DOMAIN f : q # path => g[q] = f[q],
           NEW v, v = SaidOf(job, fl, a, n + 1), NEW more, more = Append(said, v)
    PROVE  UnpackedSoFar(job, fl, a, g, more, n + 1)
<1>1. Len(fl) \in Nat
  BY FoundFacts
<1>2. more = [k \in 1..(n + 1 + 1) |-> IF k = 1 THEN IF job.unpack_key THEN "OK" ELSE "???"
                                       ELSE SaidOf(job, fl, a, k - 1)]
  <2>1. PICK L \in Nat : L = n + 1
    OBVIOUS
  <2>2. PICK u : u = [k \in 1..(L + 1) |-> IF k = 1 THEN IF job.unpack_key THEN "OK" ELSE "???"
                                         ELSE SaidOf(job, fl, a, k - 1)]
    OBVIOUS
  <2>3. said = [k \in 1..L |-> IF k = 1 THEN IF job.unpack_key THEN "OK" ELSE "???"
                               ELSE SaidOf(job, fl, a, k - 1)]
    BY <2>1 DEF UnpackedSoFar
  <2>4. said = [k \in 1..L |-> u[k]]
    <3>1. \A k \in 1..L : k \in 1..(L + 1)
      BY <2>1
    <3> QED BY <2>2, <2>3, <3>1
  <2>5. u[L + 1] = v
    <3>1. L + 1 \in 1..(L + 1) /\ L + 1 # 1 /\ L + 1 - 1 = n + 1
      BY <2>1
    <3> QED BY <2>2, <3>1
  <2>6. u = [k \in 1..(L + 1) |-> u[k]]
    BY <2>2
  <2>7. PICK S : S = {u[k] : k \in 1..(L + 1)}
    OBVIOUS
  <2>8. said \in Seq(S) /\ Len(said) = L
    <3>1. \A k \in 1..L : k \in 1..(L + 1)
      BY <2>1
    <3>2. said \in [1..L -> S]
      BY <2>4, <2>7, <3>1
    <3> QED BY <2>1, <3>2
  <2>9. more = [k \in 1..(L + 1) |-> IF k <= L THEN said[k] ELSE v]
    <3>1. v \in S
      BY <2>1, <2>5, <2>7
    <3>2. more \in Seq(S) /\ Len(more) = L + 1 /\ more[L + 1] = v /\ \A k \in 1..L : more[k] = said[k]
      BY <2>8, <3>1, AppendFacts
    <3>3. PICK N1 \in Nat : N1 = L + 1
      BY <2>1
    <3>4. DOMAIN more = 1..N1 /\ more = [k \in 1..N1 |-> more[k]]
      BY <3>2, <3>3
    <3>5. \A k \in 1..N1 : more[k] = IF k <= L THEN said[k] ELSE v
      <4>1. ASSUME NEW k \in 1..N1
            PROVE  more[k] = IF k <= L THEN said[k] ELSE v
        <5>1. CASE k <= L
          <6>1. k \in 1..L
            BY <2>1, <5>1
          <6> QED BY <3>2, <5>1, <6>1
        <5>2. CASE ~(k <= L)
          <6>1. k = L + 1
            BY <2>1, <3>3, <5>2
          <6> QED BY <3>2, <5>2, <6>1
        <5> QED BY <5>1, <5>2
      <4> QED BY <4>1
    <3> QED BY <3>3, <3>4, <3>5
  <2>10. \A k \in 1..(L + 1) : k <= L \/ k = L + 1
    BY <2>1
  <2>11. \A k \in 1..(L + 1) : (IF k <= L THEN said[k] ELSE v) = u[k]
    <3>1. \A k \in 1..(L + 1) : k <= L => k \in 1..L
      BY <2>1
    <3>2. \A k \in 1..L : said[k] = u[k]
      BY <2>4
    <3> QED BY <2>5, <2>10, <3>1, <3>2
  <2>12. more = u
    BY <2>6, <2>9, <2>11
  <2> QED BY <2>1, <2>2, <2>12
<1>3. ASSUME NEW k \in 1..(n + 1)
      PROVE  TargetOf(fl[k]) \in DOMAIN g /\ g[TargetOf(fl[k])] = WordsOf(a, fl[k].offset, fl[k].len)
  <2>1. CASE k = n + 1
    BY <2>1
  <2>2. CASE k # n + 1
    <3>1. k \in 1..n /\ k \in 1..Len(fl) /\ n + 1 \in 1..Len(fl)
      BY <1>1, <2>2
    <3>2. PICK j \in 1..Len(fl) : j = n + 1
      BY <3>1
    <3>3. TargetOf(fl[k]) # TargetOf(fl[j])
      BY <2>2, <3>1, <3>2, TargetsDiffer
    <3>4. TargetOf(fl[k]) # path
      BY <3>2, <3>3
    <3>5. TargetOf(fl[k]) \in DOMAIN f /\ f[TargetOf(fl[k])] = WordsOf(a, fl[k].offset, fl[k].len)
      BY <3>1 DEF UnpackedSoFar
    <3> QED BY <3>4, <3>5
  <2> QED BY <2>1, <2>2
<1>4. ASSUME NEW q \in DOMAIN g, P!IsPrefix(P!TO, q)
      PROVE  \E k \in 1..(n + 1) : q = TargetOf(fl[k])
  <2>1. CASE q = path
    <3>1. n + 1 \in 1..(n + 1)
      OBVIOUS
    <3> QED BY <2>1, <3>1
  <2>2. CASE q # path
    <3>1. PICK k \in 1..n : q = TargetOf(fl[k])
      BY <1>4, <2>2 DEF UnpackedSoFar
    <3>2. k \in 1..(n + 1)
      OBVIOUS
    <3> QED BY <3>1, <3>2
  <2> QED BY <2>1, <2>2
<1> QED BY <1>2, <1>3, <1>4 DEF UnpackedSoFar

\* What UnpackSection does, with what is read and written named.
SectionDone(job, a, nm, data, slot, v, k) ==
    /\ nm = (CHOOSE t \in P!Known : TRUE).name /\ data = WordsOf(a, P!Field(1), P!Field(2))
    /\ slot = CHOOSE p \in P!Found_i : \A q \in P!Found_i : p <= q
    /\ v = (IF ~job.unpack_key THEN "???"
            ELSE IF HmacOf(a, slot + 1) = P!Hmac(data) THEN "OK" ELSE "FAIL")
    /\ pc = "section" /\ i < P!n_sections /\ UNCHANGED <<cwd, archive>>
    /\ mem' = [mem EXCEPT !.said = Append(@, v)]
    /\ fs' = P!memcpy_to_file(fs, P!TO \o <<nm>>, WordsOf(a, P!Field(1), k))
    /\ P!Mapped(P!Field(1), P!Field(2)) => k = P!Field(2)
    /\ \/ i' = i + 1 /\ pc' = "section"
       \/ ~P!Mapped(P!Field(1), P!Field(2)) /\ pc' = "crashed" /\ i' = i

LEMMA SectionStep ==
    ASSUME PInv, P!UnpackSection, NEW job, job = mem.job, NEW a, a = archive
    PROVE  \E nm, data, slot, v, k : SectionDone(job, a, nm, data, slot, v, k)
<1>1. PICK nm, data, slot : /\ nm = (CHOOSE t \in P!Known : TRUE).name
                            /\ data = WordsOf(a, P!Field(1), P!Field(2))
                            /\ slot = CHOOSE p \in P!Found_i : \A q \in P!Found_i : p <= q
  OBVIOUS
<1>2. PICK v : v = (IF ~job.unpack_key THEN "???"
                    ELSE IF HmacOf(a, slot + 1) = P!Hmac(data) THEN "OK" ELSE "FAIL")
  OBVIOUS
<1>3. pc = "section" /\ i < P!n_sections /\ UNCHANGED <<cwd, archive>>
  BY DEF P!UnpackSection, P!Section, P!Unpacking
<1>4. cwd = P!TO
  BY <1>3 DEF PInv, UnpackInv
<1>5. data = P!Words(P!Field(1), P!Field(2)) /\ P!Verdict(slot + 1, data) = v
  BY <1>1, <1>2, MappedFacts DEF P!Verdict
<1>6. /\ \E k \in P!Writable : fs' = P!memcpy_to_file(fs, P!TO \o <<nm>>, P!Words(P!Field(1), k))
      /\ mem' = [mem EXCEPT !.said = Append(@, v)]
      /\ \/ i' = i + 1 /\ UNCHANGED pc
         \/ ~P!Mapped(P!Field(1), P!Field(2)) /\ pc' = "crashed" /\ UNCHANGED i
  BY <1>1, <1>4, <1>5 DEF P!UnpackSection
<1>7. PICK k \in P!Writable : fs' = P!memcpy_to_file(fs, P!TO \o <<nm>>, P!Words(P!Field(1), k))
  BY <1>6
<1>8. P!Mapped(P!Field(1), P!Field(2)) => k = P!Field(2)
  BY <1>7 DEF P!Writable
<1>9. fs' = P!memcpy_to_file(fs, P!TO \o <<nm>>, WordsOf(a, P!Field(1), k))
  BY <1>7, MappedFacts
<1>10. SectionDone(job, a, nm, data, slot, v, k)
  BY <1>1, <1>2, <1>3, <1>6, <1>8, <1>9 DEF SectionDone
<1> QED BY <1>10

LEMMA UnpackSectionKeeps == ASSUME PInv, P!UnpackSection PROVE PInv'
<1>1. PICK job \in PupJobs : job = mem.job
  BY DEF PInv
<1>2. PICK fl, a, d, x, said : /\ fl = mem.files /\ a = archive /\ d = mem.damaged
                               /\ x = Len(t_names) /\ said = mem.said
  OBVIOUS
<1>0. PICK nm, data, slot, v, kw : SectionDone(job, a, nm, data, slot, v, kw)
  BY <1>1, <1>2, SectionStep
<1>3. /\ nm = (CHOOSE t \in P!Known : TRUE).name /\ data = WordsOf(a, P!Field(1), P!Field(2))
      /\ slot = CHOOSE p \in P!Found_i : \A q \in P!Found_i : p <= q
      /\ v = (IF ~job.unpack_key THEN "???"
              ELSE IF HmacOf(a, slot + 1) = P!Hmac(data) THEN "OK" ELSE "FAIL")
      /\ pc = "section" /\ i < P!n_sections /\ UNCHANGED <<cwd, archive>>
      /\ mem' = [mem EXCEPT !.said = Append(@, v)]
      /\ fs' = P!memcpy_to_file(fs, P!TO \o <<nm>>, WordsOf(a, P!Field(1), kw))
      /\ P!Mapped(P!Field(1), P!Field(2)) => kw = P!Field(2)
      /\ \/ i' = i + 1 /\ pc' = "section"
         \/ ~P!Mapped(P!Field(1), P!Field(2)) /\ pc' = "crashed" /\ i' = i
  BY <1>0 DEF SectionDone
<1>4. /\ SourcesStay(job) /\ FoundSoFar(job, fl, x) /\ Len(fl) \in Nat /\ Placed(fl, Len(fl))
      /\ PackageIs(fl, a, d) /\ Unpacking(i) /\ fs = [dirs |-> fs.dirs, files |-> fs.files]
      /\ mem = [job |-> mem.job, files |-> mem.files, data_size |-> mem.data_size,
                hdr |-> mem.hdr, said |-> mem.said, damaged |-> mem.damaged]
  BY <1>1, <1>2, <1>3, SectionFacts
<1>5. PICK total \in Nat : total = Len(fl)
  BY <1>4
<1>6. SourcesStay(job)' /\ fs' = [dirs |-> fs'.dirs, files |-> fs'.files]
  <2>1. PICK y : fs' = P!memcpy_to_file(fs, P!TO \o <<nm>>, y)
    BY <1>3
  <2> QED BY <1>4, <2>1, SectionWritten
<1>7. mem' = [mem EXCEPT !.said = mem'.said] /\ mem'.job = job /\ mem'.files = fl /\ mem'.damaged = d
  <2>1. mem' = [mem EXCEPT !.said = Append(@, v)]
    BY <1>3
  <2>2. mem = [job |-> mem.job, files |-> mem.files, data_size |-> mem.data_size,
               hdr |-> mem.hdr, said |-> mem.said, damaged |-> mem.damaged]
    BY <1>4
  <2> QED BY <1>1, <1>2, <2>1, <2>2
<1>8. v \in {"OK", "FAIL", "???"}
  BY <1>3
<1>9. CASE d \in 1..(8 * total + 9)
  <2>1. said \in Seq({"OK", "FAIL", "???"}) /\ (job.unpack_key => Len(said) > 0 /\ said[1] = "FAIL")
    BY <1>1, <1>2, <1>5, <1>9, <1>4 DEF Unpacking
  <2>2. CASE pc' = "section"
    <3>1. PICK more : more = Append(said, v)
      OBVIOUS
    <3>2. mem'.said = more /\ pc' = "section"
      BY <1>2, <1>3, <1>4, <2>2, <3>1
    <3>3. more \in Seq({"OK", "FAIL", "???"}) /\ (job.unpack_key => Len(more) > 0 /\ more[1] = "FAIL")
      BY <1>8, <2>1, <3>1
    <3>4. mem'.damaged \in 1..(8 * Len(mem'.files) + 9)
      BY <1>5, <1>7, <1>9
    <3>5. Unpacking(i)'
      BY <1>7, <3>2, <3>3, <3>4 DEF Unpacking
    <3> QED BY <1>1, <1>2, <1>3, <1>6, <1>7, <3>2, <3>5, UnpackStep
  <2>3. CASE pc' = "crashed"
    <3>1. d # 0
      BY <1>9
    <3> QED BY <1>1, <1>2, <1>3, <1>6, <1>7, <2>3, <3>1, UnpackStep
  <2> QED BY <1>3, <2>2, <2>3
<1>10. CASE d \notin 1..(8 * total + 9)
  <2>1. i \in Nat /\ i < total /\ SectionIs(fl, fl[i + 1])
    BY <1>1, <1>2, <1>3, <1>5, <1>10, SectionFound
  <2>2. PICK n \in Nat : n = i /\ n < total
    BY <2>1
  <2>3. PICK k \in 1..total : k = n + 1
    BY <2>2
  <2>4. PICK f : f = fl[k]
    OBVIOUS
  <2>5. PICK o \in Nat, D \in Nat : o = f.offset /\ D = f.len
    BY <1>1, <1>4, <1>5, <2>4, FoundFacts
  <2>6. /\ P!Field(1) = o /\ P!Field(2) = D /\ P!Mapped(o, D)
        /\ P!Known = {CHOOSE t \in P!ToSet(t_names) : t.id = f.id}
        /\ P!Found_i = {P!PUP_HDR + 4 * Len(fl) + 4 * i}
        /\ HmacOf(a, P!PUP_HDR + 4 * Len(fl) + 4 * i + 1) = P!Hmac(f.data)
    <3>1. SectionIs(fl, f)
      BY <2>1, <2>2, <2>3, <2>4
    <3> QED BY <1>2, <2>5, <3>1 DEF SectionIs
  <2>7. P!TO \o <<nm>> = TargetOf(f)
    <3>1. (CHOOSE t \in P!Known : TRUE) = CHOOSE t \in P!ToSet(t_names) : t.id = f.id
      BY <2>6
    <3> QED BY <1>3, <3>1 DEF TargetOf
  <2>8. v = SaidOf(job, fl, a, k)
    <3>1. PICK s \in Nat : s = P!PUP_HDR + 4 * total + 4 * n
      BY <2>2 DEF P!PUP_HDR
    <3>2. P!Found_i = {s}
      BY <1>5, <2>2, <2>6, <3>1
    <3>3. slot = s
      BY <1>3, <3>2
    <3>4. HmacOf(a, slot + 1) = P!Hmac(f.data)
      BY <1>5, <2>2, <2>6, <3>1, <3>3
    <3>5. \A y, z : P!Hmac(y) = P!Hmac(z) <=> P!Hashed(y) = P!Hashed(z)
      <4>1. ASSUME NEW y, NEW z, P!Hmac(y) = P!Hmac(z)
            PROVE  P!Hashed(y) = P!Hashed(z)
        <5>1. /\ P!Hmac(y)[1] = <<"hmac", 1, P!Hashed(y)>>
              /\ P!Hmac(z)[1] = <<"hmac", 1, P!Hashed(z)>>
          BY SoundWords
        <5> QED BY <4>1, <5>1
      <4>2. ASSUME NEW y, NEW z, P!Hashed(y) = P!Hashed(z)
            PROVE  P!Hmac(y) = P!Hmac(z)
        BY <4>2 DEF P!Hmac
      <4> QED BY <4>1, <4>2
    <3>6. HmacOf(a, slot + 1) = P!Hmac(data) <=> P!Hashed(data) = P!Hashed(f.data)
      BY <3>4, <3>5
    <3>7. data = WordsOf(a, fl[k].offset, fl[k].len)
      BY <1>3, <2>4, <2>5, <2>6
    <3> QED BY <1>3, <2>4, <3>6, <3>7 DEF SaidOf
  <2>9. /\ mem' = [mem EXCEPT !.said = Append(@, v)] /\ i' = i + 1 /\ pc' = "section"
        /\ fs' = P!memcpy_to_file(fs, P!TO \o <<nm>>, data)
    <3>1. P!Mapped(P!Field(1), P!Field(2))
      BY <2>6
    <3> QED BY <1>3, <3>1
  <2>10. PICK more : more = Append(said, v)
    OBVIOUS
  <2>11. mem'.said = more
    BY <1>2, <1>4, <2>9, <2>10
  <2>12. PICK g, h, path : g = fs.files /\ h = fs'.files /\ path = TargetOf(f)
    OBVIOUS
  <2>13. /\ DOMAIN h = DOMAIN g \cup {path} /\ h[path] = WordsOf(a, o, D)
         /\ \A q \in DOMAIN g : q # path => h[q] = g[q]
    <3>1. FilePut(fs.files, fs'.files, P!TO \o <<nm>>, data)
      <4>1. fs' = P!memcpy_to_file(fs, P!TO \o <<nm>>, data)
        BY <2>9
      <4>2. fs = [dirs |-> fs.dirs, files |-> fs.files] /\ SourcesStay(job)
        BY <1>4
      <4> QED BY <4>1, <4>2, SectionWritten
    <3>2. FilePut(g, h, path, data)
      BY <2>7, <2>12, <3>1
    <3> QED BY <1>3, <2>6, <3>2 DEF FilePut
  <2>14. UnpackedSoFar(job, fl, a, g, said, n)
    BY <1>1, <1>2, <1>4, <1>5, <1>10, <2>2, <2>12 DEF Unpacking
  <2>15. UnpackedSoFar(job, fl, a, h, more, n + 1)
    <3>1. FoundSoFar(job, fl, Len(t_names)) /\ n < Len(fl)
      BY <1>2, <1>4, <1>5, <2>2
    <3>2. path = TargetOf(fl[n + 1]) /\ h[path] = WordsOf(a, fl[n + 1].offset, fl[n + 1].len)
      BY <2>3, <2>4, <2>5, <2>12, <2>13
    <3>3. v = SaidOf(job, fl, a, n + 1)
      BY <2>3, <2>8
    <3> QED BY <1>1, <2>10, <2>13, <2>14, <3>1, <3>2, <3>3, UnpackedOneMore
  <2>16. UnpackedSoFar(mem.job, mem.files, archive, fs.files, mem.said, i)'
    <3>1. /\ mem'.job = job /\ mem'.files = fl /\ archive' = a /\ fs'.files = h /\ mem'.said = more
          /\ i' = n + 1
      BY <1>2, <1>3, <1>7, <2>2, <2>9, <2>11, <2>12
    <3> QED BY <2>15, <3>1, UnpackedStays
  <2>17. i' \in 0..Len(mem'.files) /\ mem'.damaged \notin 1..(8 * Len(mem'.files) + 9)
    BY <1>5, <1>7, <1>10, <2>2, <2>9
  <2>18. Unpacking(i)'
    BY <2>16, <2>17 DEF Unpacking
  <2> QED BY <1>1, <1>2, <1>3, <1>6, <1>7, <2>9, <2>18, UnpackStep
<1> QED BY <1>9, <1>10

LEMMA UnpackEndKeeps == ASSUME PInv, P!UnpackEnd PROVE PInv'
<1>1. PICK job \in PupJobs : job = mem.job
  BY DEF PInv
<1>2. PICK fl, a, d, x : fl = mem.files /\ a = archive /\ d = mem.damaged /\ x = Len(t_names)
  OBVIOUS
<1>3. /\ pc = "section" /\ i >= P!n_sections /\ pc' = "done" /\ UNCHANGED <<fs, cwd, archive, i, mem>>
  BY DEF P!UnpackEnd, P!Stop
<1>4. /\ SourcesStay(job) /\ Len(fl) \in Nat /\ Unpacking(i)
      /\ fs = [dirs |-> fs.dirs, files |-> fs.files]
      /\ mem = [job |-> mem.job, files |-> mem.files, data_size |-> mem.data_size,
                hdr |-> mem.hdr, said |-> mem.said, damaged |-> mem.damaged]
  BY <1>1, <1>2, <1>3, SectionFacts
<1>5. SourcesStay(job)' /\ mem' = [mem EXCEPT !.said = mem'.said]
      /\ fs' = [dirs |-> fs'.dirs, files |-> fs'.files]
  BY <1>3, <1>4, FilesStayThere
<1>6. PICK total \in Nat : total = Len(fl)
  BY <1>4
<1>7. CASE d \in 1..(8 * total + 9)
  <2>1. Unpacking(Len(mem.files))'
    BY <1>2, <1>3, <1>4, <1>6, <1>7 DEF Unpacking
  <2> QED BY <1>1, <1>2, <1>3, <1>5, <2>1, UnpackStep
<1>8. CASE d \notin 1..(8 * total + 9)
  <2>1. P!n_sections = total
    BY <1>1, <1>2, <1>3, <1>6, <1>8, SectionsRight
  <2>2. i \in 0..total /\ UnpackedSoFar(job, fl, a, fs.files, mem.said, i)
    BY <1>1, <1>2, <1>4, <1>6, <1>8 DEF Unpacking
  <2>3. i = total
    BY <1>3, <2>1, <2>2
  <2>4. UnpackedSoFar(mem.job, mem.files, archive, fs.files, mem.said, Len(mem.files))'
    BY <1>1, <1>2, <1>3, <1>6, <2>2, <2>3, UnpackedStays
  <2>5. Len(mem'.files) \in 0..Len(mem'.files) /\ mem'.damaged \notin 1..(8 * Len(mem'.files) + 9)
    BY <1>2, <1>3, <1>6, <1>8
  <2>6. Unpacking(Len(mem.files))'
    BY <2>4, <2>5 DEF Unpacking
  <2> QED BY <1>1, <1>2, <1>3, <1>5, <2>6, UnpackStep
<1> QED BY <1>7, <1>8

-----------------------------------------------------------------------------
(* Every step, and what follows *)

LEMMA StutterKeepsPInv == ASSUME PInv, UNCHANGED <<fs, cwd, archive, pc, i, mem>> PROVE PInv'
<1>1. PICK job \in PupJobs : job = mem.job
  BY DEF PInv
<1>2. PICK fl, a, d, w, g, h, said, n, x :
        /\ fl = mem.files /\ a = archive /\ d = mem.damaged /\ w = fs.files[P!PUP] /\ g = fs.files
        /\ h = mem.hdr /\ said = mem.said /\ n = i /\ x = Len(t_names)
  OBVIOUS
<1>3. (SourcesStay(job) => SourcesStay(job)') /\ (OnlyPackage(job) => OnlyPackage(job)')
  BY FilesStayThere
<1>4. fs'.files[P!PUP'] = w /\ P!SRC' = P!SRC /\ P!TO' = P!TO
  BY <1>2, PupStays
<1>5. /\ \A m : FoundSoFar(mem.job, mem.files, m)' <=> FoundSoFar(job, fl, m)
      /\ \A m : Placed(mem.files, m)' <=> Placed(fl, m)
  BY <1>1, <1>2, PupStays
<1>6. /\ HeaderSoFar(mem.files, mem.hdr, i)' <=> HeaderSoFar(fl, h, n)
      /\ WrittenSoFar(mem.files, fs.files[P!PUP], i)' <=> WrittenSoFar(fl, w, n)
      /\ PackageIs(mem.files, fs.files[P!PUP], mem.damaged)' <=> PackageIs(fl, w, d)
      /\ PackageIs(mem.files, archive, mem.damaged)' <=> PackageIs(fl, a, d)
  BY <1>2, <1>4, PupStays
<1>7. \A m : Unpacking(m) => Unpacking(m)'
  BY UnpackedStays DEF Unpacking
<1>8. (\A q \in DOMAIN fs.files : ~P!IsPrefix(P!TO, q)) => (\A q \in DOMAIN fs.files : ~P!IsPrefix(P!TO, q))'
  BY DEF P!IsPrefix, P!TO
<1>9. PackInv => PackInv'
  BY <1>1, <1>2, <1>3, <1>4, <1>5, <1>6 DEF PackInv
<1>10. UnpackInv => UnpackInv'
  BY <1>1, <1>2, <1>3, <1>4, <1>5, <1>6, <1>7, <1>8 DEF UnpackInv
<1> QED BY <1>1, <1>3, <1>4, <1>9, <1>10 DEF PInv

LEMMA NextKeepsPInv == ASSUME PInv, P!Next PROVE PInv'
<1>1. CASE P!NoKey
  BY <1>1, NoKeyKeeps
<1>2. CASE P!OpenPup
  BY <1>2, OpenPupKeeps
<1>3. CASE P!NoDirectory
  BY <1>3, NoDirectoryKeeps
<1>4. CASE P!ChangeDirectory
  BY <1>4, ChangeDirectoryKeeps
<1>5. CASE P!FindFile
  BY <1>5, FindFileKeeps
<1>6. CASE P!AllFound
  BY <1>6, AllFoundKeeps
<1>7. CASE P!PlaceFile
  BY <1>7, PlaceFileKeeps
<1>8. CASE P!StartHeader
  BY <1>8, StartHeaderKeeps
<1>9. CASE P!BuildEntry
  BY <1>9, BuildEntryKeeps
<1>10. CASE P!WriteHeader
  BY <1>10, WriteHeaderKeeps
<1>11. CASE P!WriteData
  BY <1>11, WriteDataKeeps
<1>12. CASE P!PackEnd
  BY <1>12, PackEndKeeps
<1>13. CASE P!Damage
  BY <1>13, DamageKeeps
<1>14. CASE P!OpenPackage
  BY <1>14, OpenPackageKeeps
<1>15. CASE P!TargetExists
  BY <1>15, TargetExistsKeeps
<1>16. CASE P!MakeTarget
  BY <1>16, MakeTargetKeeps
<1>17. CASE P!CheckHeader
  BY <1>17, CheckHeaderKeeps
<1>18. CASE P!OffTable
  BY <1>18, OffTableKeeps
<1>19. CASE P!UnknownEntry
  BY <1>19, UnknownEntryKeeps
<1>20. CASE P!UnpackSection
  BY <1>20, UnpackSectionKeeps
<1>21. CASE P!UnpackEnd
  BY <1>21, UnpackEndKeeps
<1>22. CASE P!HashOffFile
  BY <1>22, HashOffFileKeeps
<1> QED BY <1>1, <1>2, <1>3, <1>4, <1>5, <1>6, <1>7, <1>8, <1>9, <1>10, <1>11, <1>12, <1>13, <1>14,
           <1>15, <1>16, <1>17, <1>18, <1>19, <1>20, <1>21, <1>22 DEF P!Next

\* A file is there if its words are read where it is.
LEMMA DataIsRead ==
    ASSUME NEW job \in PupJobs, NEW fl, NEW m, FoundSoFar(job, fl, m), NEW k \in 1..Len(fl),
           NEW L \in Nat, NEW a, IsArray(a, L), fl[k].offset + fl[k].len <= L
    PROVE  /\ DataThere(fl, a, k) <=> WordsOf(a, fl[k].offset, fl[k].len) = fl[k].data
           /\ HashedThere(fl, a, k) <=>
                P!Hashed(WordsOf(a, fl[k].offset, fl[k].len)) = P!Hashed(fl[k].data)
<1>1. PICK o \in Nat, D \in Nat : o = fl[k].offset /\ D = fl[k].len
  BY FoundFacts
<1>9. PICK data : data = fl[k].data
  OBVIOUS
<1>2. IsArray(data, D)
  BY <1>1, <1>9, FoundFacts
<1>3. PICK y : y = WordsOf(a, o, D)
  OBVIOUS
<1>4. ReadDone(L, a, o, D, y)
  BY <1>1, <1>3, WordRead
<1>5. \A w \in 1..D : y[w] = a[o + w]
  <2>1. \A w \in 1..D : o + w <= L
    BY <1>1
  <2> QED BY <1>4, <2>1 DEF ReadDone
<1>6. IsArray(y, D)
  BY <1>3 DEF IsArray, WordsOf
<1>7. y = data <=> \A w \in 1..D : y[w] = data[w]
  BY <1>2, <1>6 DEF IsArray
<1>8. DataThere(fl, a, k) <=> \A w \in 1..D : a[o + w] = data[w]
  BY <1>1, <1>9 DEF DataThere
<1>10. DataThere(fl, a, k) <=> y = data
  BY <1>5, <1>7, <1>8
<1>11. HashedThere(fl, a, k) <=> P!Hashed(y) = P!Hashed(data)
  <2>1. PICK r \in Nat : r = D % W /\ r <= D
    BY <1>2, HashedFacts
  <2>2. P!Hashed(y) = [w \in 1..r |-> y[w]] /\ P!Hashed(data) = [w \in 1..r |-> data[w]]
    BY <1>2, <1>6, <2>1, HashedFacts
  <2>3. \A w \in 1..r : w \in 1..D
    BY <2>1
  <2>4. P!Hashed(y) = P!Hashed(data) <=> \A w \in 1..r : y[w] = data[w]
    BY <2>2
  <2>5. HashedThere(fl, a, k) <=> \A w \in 1..r : a[o + w] = data[w]
    BY <1>1, <1>9, <2>1 DEF HashedThere
  <2> QED BY <1>5, <2>3, <2>4, <2>5
<1> QED BY <1>1, <1>3, <1>9, <1>10, <1>11

\* When all is unpacked from a package with a whole header, what is said is so.
LEMMA SaidIsSo ==
    ASSUME PInv, pc = "done", NEW job \in PupJobs, job = mem.job, NEW fl, fl = mem.files,
           NEW total \in Nat, total = Len(fl), mem.damaged \notin 1..(8 * total + 9)
    PROVE  /\ UnpackedSoFar(job, fl, archive, fs.files, mem.said, total)
           /\ \A k \in 1..total :
                /\ DataThere(fl, archive, k) <=> WordsOf(archive, fl[k].offset, fl[k].len) = fl[k].data
                /\ HashedThere(fl, archive, k) <=>
                     P!Hashed(WordsOf(archive, fl[k].offset, fl[k].len)) = P!Hashed(fl[k].data)
<1>1. PICK a, d, x : a = archive /\ d = mem.damaged /\ x = Len(t_names)
  OBVIOUS
<1>2. FoundSoFar(job, fl, x) /\ Placed(fl, total) /\ PackageIs(fl, a, d) /\ Unpacking(total)
  BY <1>1 DEF PInv, UnpackInv
<1>3. UnpackedSoFar(job, fl, a, fs.files, mem.said, total)
  BY <1>1, <1>2 DEF Unpacking
<1>4. HeaderThere(fl, a)
  BY <1>1, <1>2, SoundPackage
<1>5. EndAt(fl, total) \in Nat /\ IsArray(a, EndAt(fl, total))
  BY <1>2, <1>4, HeaderRight
<1>6. PICK L \in Nat : L = EndAt(fl, total)
  BY <1>5
<1>7. ASSUME NEW k \in 1..total
      PROVE  /\ DataThere(fl, a, k) <=> WordsOf(a, fl[k].offset, fl[k].len) = fl[k].data
             /\ HashedThere(fl, a, k) <=>
                  P!Hashed(WordsOf(a, fl[k].offset, fl[k].len)) = P!Hashed(fl[k].data)
  <2>1. fl[k].offset + fl[k].len <= L
    BY <1>2, <1>6 DEF Placed
  <2>2. IsArray(a, L)
    BY <1>5, <1>6
  <2> QED BY <1>2, <1>6, <2>1, <2>2, DataIsRead
<1> QED BY <1>1, <1>3, <1>7

LEMMA PInvVerdicts == PInv => P!PupVerdicts
<1> SUFFICES ASSUME PInv, pc = "done", mem.job.unpack_key
             PROVE  /\ mem.damaged # 0 /\ ~P!Unhashed(mem.files, mem.damaged) =>
                         "FAIL" \in P!ToSet(mem.said)
                    /\ mem.said[1] = "OK" => \A n \in 1..Len(mem.files) :
                         LET data == mem.files[n].data
                             name == (CHOOSE t \in P!ToSet(t_names) : t.id = mem.files[n].id).name
                             new  == fs.files[P!TO \o <<name>>]
                         IN  /\ Len(new) = Len(data)
                             /\ mem.said[n + 1] = "OK" <=> P!Hashed(new) = P!Hashed(data)
  BY DEF P!PupVerdicts, P!n_files
<1>1. PICK job \in PupJobs : job = mem.job
  BY DEF PInv
<1>2. PICK fl, d, said, x : fl = mem.files /\ d = mem.damaged /\ said = mem.said /\ x = Len(t_names)
  OBVIOUS
<1>3. FoundSoFar(job, fl, x) /\ PackageIs(fl, archive, d) /\ Unpacking(Len(fl))
  BY <1>1, <1>2 DEF PInv, UnpackInv
<1>4. PICK total \in Nat : total = Len(fl)
  BY <1>3, FoundFacts
<1>5. CASE d \in 1..(8 * total + 9)
  <2>1. said \in Seq({"OK", "FAIL", "???"}) /\ Len(said) > 0 /\ said[1] = "FAIL"
    BY <1>2, <1>3, <1>4, <1>5 DEF Unpacking
  <2>2. 1 \in DOMAIN said
    BY <2>1
  <2>3. "FAIL" \in P!ToSet(said)
    BY <2>1, <2>2 DEF P!ToSet
  <2> QED BY <1>2, <2>1, <2>3
<1>6. CASE d \notin 1..(8 * total + 9)
  <2>1. /\ UnpackedSoFar(job, fl, archive, fs.files, said, total)
        /\ \A k \in 1..total :
             HashedThere(fl, archive, k) <=>
               P!Hashed(WordsOf(archive, fl[k].offset, fl[k].len)) = P!Hashed(fl[k].data)
    BY <1>1, <1>2, <1>4, <1>6, SaidIsSo
  <2>2. DOMAIN said = 1..(total + 1) /\ \A k \in 1..total : said[k + 1] = SaidOf(job, fl, archive, k)
    <3>1. said = [k \in 1..(total + 1) |-> IF k = 1 THEN IF job.unpack_key THEN "OK" ELSE "???"
                                           ELSE SaidOf(job, fl, archive, k - 1)]
      BY <2>1 DEF UnpackedSoFar
    <3>2. \A k \in 1..total : k + 1 \in 1..(total + 1) /\ k + 1 # 1 /\ k + 1 - 1 = k
      OBVIOUS
    <3> QED BY <3>1, <3>2
  <2>3. \A k \in 1..total :
          said[k + 1] = IF P!Hashed(WordsOf(archive, fl[k].offset, fl[k].len)) = P!Hashed(fl[k].data)
                        THEN "OK" ELSE "FAIL"
    BY <1>1, <2>2 DEF SaidOf
  <2>4. ASSUME d # 0, ~P!Unhashed(fl, d)
        PROVE  "FAIL" \in P!ToSet(said)
    <3>1. PICK k \in 1..total : ~HashedThere(fl, archive, k)
      BY <1>3, <1>4, <1>6, <2>4, SoundPackage
    <3>2. said[k + 1] = "FAIL"
      BY <2>1, <2>3, <3>1
    <3>3. k + 1 \in DOMAIN said
      BY <2>2
    <3> QED BY <3>2, <3>3 DEF P!ToSet
  <2>5. ASSUME NEW k \in 1..total
        PROVE  /\ Len(fs.files[TargetOf(fl[k])]) = Len(fl[k].data)
               /\ said[k + 1] = "OK" <=> P!Hashed(fs.files[TargetOf(fl[k])]) = P!Hashed(fl[k].data)
    <3>1. PICK new : new = fs.files[TargetOf(fl[k])]
      OBVIOUS
    <3>2. new = WordsOf(archive, fl[k].offset, fl[k].len)
      BY <2>1, <3>1 DEF UnpackedSoFar
    <3>3. fl[k].len \in Nat /\ Len(fl[k].data) = fl[k].len
      BY <1>3, <1>4, FoundFacts
    <3>4. Len(new) = fl[k].len
      <4>1. PICK D \in Nat : D = fl[k].len
        BY <3>3
      <4>2. IsArray(new, D)
        BY <3>2, <4>1 DEF IsArray, WordsOf
      <4> QED BY <4>1, <4>2, ArrayFacts
    <3> QED BY <2>3, <3>1, <3>2, <3>3, <3>4
  <2>6. \A k \in 1..total :
          LET data == fl[k].data
              name == (CHOOSE t \in P!ToSet(t_names) : t.id = fl[k].id).name
              new  == fs.files[P!TO \o <<name>>]
          IN  /\ Len(new) = Len(data)
              /\ said[k + 1] = "OK" <=> P!Hashed(new) = P!Hashed(data)
    BY <2>5 DEF TargetOf
  <2> QED BY <1>2, <1>4, <2>4, <2>6
<1> QED BY <1>2, <1>5, <1>6

\* With no damage, what lies below the target is what was packed.
LEMMA BelowIsRestored ==
    ASSUME PInv, pc = "done", mem.damaged = 0
    PROVE  P!Below(fs, P!TO) = [p \in {P!TO \o <<t.name>> : t \in {u \in P!ToSet(t_names) :
                                          P!SRC \o <<u.name>> \in DOMAIN fs.files}}
                                   |-> fs.files[P!SRC \o <<P!Last(p)>>]]
<1>1. PICK job \in PupJobs : job = mem.job
  BY DEF PInv
<1>2. PICK fl, a, g, x : fl = mem.files /\ a = archive /\ g = fs.files /\ x = Len(t_names)
  OBVIOUS
<1>3. /\ SourcesStay(job) /\ FoundSoFar(job, fl, x) /\ PackageIs(fl, a, 0)
  BY <1>1, <1>2 DEF PInv, UnpackInv
<1>4. PICK total \in Nat : total = Len(fl)
  BY <1>3, FoundFacts
<1>5. mem.damaged \notin 1..(8 * total + 9)
  BY <1>4
<1>6. /\ UnpackedSoFar(job, fl, a, g, mem.said, total)
      /\ \A k \in 1..total : DataThere(fl, a, k) <=> WordsOf(a, fl[k].offset, fl[k].len) = fl[k].data
  BY <1>1, <1>2, <1>4, <1>5, SaidIsSo
<1>7. \A k \in 1..total : DataThere(fl, a, k)
  BY <1>3, <1>4, <1>5, SoundPackage
<1>8. \A k \in 1..total : TargetOf(fl[k]) \in DOMAIN g /\ g[TargetOf(fl[k])] = fl[k].data
  BY <1>6, <1>7 DEF UnpackedSoFar
<1>9. \A m \in 1..x : /\ SourceOf(m) \in DOMAIN job.fs.files <=> SourceOf(m) \in DOMAIN g
                      /\ SourceOf(m) \in DOMAIN g => g[SourceOf(m)] = job.fs.files[SourceOf(m)]
  BY <1>2, <1>3 DEF SourcesStay
<1>10. PICK B, T : /\ B = {q \in DOMAIN g : P!IsPrefix(P!TO, q)}
                   /\ T = {P!TO \o <<t.name>> : t \in {u \in P!ToSet(t_names) :
                                                  P!SRC \o <<u.name>> \in DOMAIN g}}
  OBVIOUS
<1>11. ASSUME NEW q \in B
       PROVE  q \in T /\ g[q] = g[P!SRC \o <<P!Last(q)>>]
  <2>1. PICK k \in 1..total : q = TargetOf(fl[k])
    BY <1>6, <1>10 DEF UnpackedSoFar
  <2>2. PICK m \in 1..x : /\ SourceOf(m) \in DOMAIN job.fs.files
                          /\ fl[k].data = job.fs.files[SourceOf(m)]
                          /\ TargetOf(fl[k]) = P!TO \o <<t_names[m].name>>
    <3>1. FoundSoFar(job, fl, Len(t_names)) /\ k \in 1..Len(fl)
      BY <1>2, <1>3, <1>4
    <3>2. \E m \in 1..Len(t_names) : EntryIs(job, fl[k], m)
      BY <1>1, <3>1, FoundEntry
    <3> QED BY <1>2, <3>2 DEF EntryIs
  <2>3. SourceOf(m) \in DOMAIN g /\ g[SourceOf(m)] = fl[k].data
    BY <1>9, <2>2
  <2>4. t_names[m] \in P!ToSet(t_names) /\ SourceOf(m) = P!SRC \o <<t_names[m].name>>
    BY <1>2, NamesFacts DEF SourceOf
  <2>5. q \in T
    BY <1>10, <2>1, <2>2, <2>3, <2>4
  <2>6. P!Last(q) = t_names[m].name
    BY <2>1, <2>2, TargetFacts
  <2> QED BY <1>8, <2>1, <2>3, <2>4, <2>5, <2>6
<1>12. ASSUME NEW q \in T
       PROVE  q \in B
  <2>1. PICK t \in P!ToSet(t_names) : q = P!TO \o <<t.name>> /\ P!SRC \o <<t.name>> \in DOMAIN g
    BY <1>10
  <2>2. PICK m \in 1..x : t = t_names[m]
    BY <1>2, <2>1, NamesFacts
  <2>3. SourceOf(m) \in DOMAIN job.fs.files
    BY <1>9, <2>1, <2>2 DEF SourceOf
  <2>4. PICK k \in 1..total : fl[k].id = t_names[m].id
    BY <1>3, <1>4, <2>3 DEF FoundSoFar
  <2>5. (CHOOSE u \in P!ToSet(t_names) : u.id = fl[k].id) = t_names[m]
    BY <1>2, <2>4, EntryWithId
  <2>6. TargetOf(fl[k]) = q
    BY <2>1, <2>2, <2>5 DEF TargetOf
  <2>7. P!IsPrefix(P!TO, q)
    BY <2>1, TargetFacts
  <2> QED BY <1>8, <1>10, <2>6, <2>7
<1>13. B = T
  BY <1>11, <1>12
<1>14. P!Below(fs, P!TO) = [q \in B |-> g[q]]
  BY <1>2, <1>10 DEF P!Below
<1>15. [q \in B |-> g[q]] = [q \in T |-> g[P!SRC \o <<P!Last(q)>>]]
  BY <1>11, <1>13
<1>16. P!Below(fs, P!TO) = [p \in T |-> fs.files[P!SRC \o <<P!Last(p)>>]]
  BY <1>2, <1>13, <1>14, <1>15
<1>17. T = {P!TO \o <<t.name>> : t \in {u \in P!ToSet(t_names) : P!SRC \o <<u.name>> \in DOMAIN fs.files}}
  BY <1>2, <1>10
<1> QED BY ONLY <1>16, <1>17

LEMMA PInvRestored == PInv => P!PupRestored
<1> SUFFICES ASSUME PInv, mem.damaged = 0, cwd = P!TO
             PROVE  /\ pc \notin {"failed", "crashed"}
                    /\ pc = "done" =>
                         /\ P!Below(fs, P!TO) = [p \in {P!TO \o <<t.name>> : t \in {u \in P!ToSet(t_names) :
                                                     P!SRC \o <<u.name>> \in DOMAIN fs.files}}
                                              |-> fs.files[P!SRC \o <<P!Last(p)>>]]
                         /\ mem.said = [n \in 1..(Len(mem.files) + 1) |->
                                          IF mem.job.unpack_key THEN "OK" ELSE "???"]
  BY DEF P!PupRestored, P!n_files
<1>1. pc \notin {"failed", "crashed"}
  BY DEF PInv
<1>2. ASSUME pc = "done"
      PROVE  mem.said = [n \in 1..(Len(mem.files) + 1) |-> IF mem.job.unpack_key THEN "OK" ELSE "???"]
  <2>1. PICK job \in PupJobs : job = mem.job
    BY DEF PInv
  <2>2. PICK fl, a, x : fl = mem.files /\ a = archive /\ x = Len(t_names)
    OBVIOUS
  <2>3. FoundSoFar(job, fl, x) /\ PackageIs(fl, a, 0)
    BY <1>2, <2>1, <2>2 DEF PInv, UnpackInv
  <2>4. PICK total \in Nat : total = Len(fl)
    BY <2>1, <2>3, FoundFacts
  <2>5. mem.damaged \notin 1..(8 * total + 9)
    BY <2>4
  <2>6. /\ UnpackedSoFar(job, fl, a, fs.files, mem.said, total)
        /\ \A k \in 1..total : DataThere(fl, a, k) <=> WordsOf(a, fl[k].offset, fl[k].len) = fl[k].data
    BY <1>2, <2>1, <2>2, <2>4, <2>5, SaidIsSo
  <2>7. \A k \in 1..total : DataThere(fl, a, k)
    BY <2>3, <2>4, <2>5, SoundPackage
  <2>8. mem.said = [k \in 1..(total + 1) |-> IF k = 1 THEN IF job.unpack_key THEN "OK" ELSE "???"
                                             ELSE SaidOf(job, fl, a, k - 1)]
    BY <2>6 DEF UnpackedSoFar
  <2>9. \A k \in 1..total : SaidOf(job, fl, a, k) = IF job.unpack_key THEN "OK" ELSE "???"
    BY <2>6, <2>7 DEF SaidOf
  <2>10. \A k \in 1..(total + 1) : k = 1 \/ k - 1 \in 1..total
    OBVIOUS
  <2> QED BY <2>1, <2>2, <2>4, <2>8, <2>9, <2>10
<1> QED BY <1>1, <1>2, BelowIsRestored
==============================================================================
