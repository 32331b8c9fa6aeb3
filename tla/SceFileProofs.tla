---------------------------- MODULE SceFileProofs -----------------------------
(***************************************************************************)
(* What makeself or pkg encrypts, unself, unpkg and sceverify get back, no *)
(* byte of key stream is used twice, and what sceverify says of a file is  *)
(* so, for every list of sections, every list of keys, every block size    *)
(* and any one cell of the file that is damaged.                           *)
(***************************************************************************)
EXTENDS SceFile, Lemmas, SequenceTheorems

Sec(x) == job.sections[x + 1]
Covers(x, a) == a \in (Sec(x).off + 1)..(Sec(x).off + Sec(x).size)

-----------------------------------------------------------------------------
(* What is in the file at each stage *)

\* The hmac of section x: its key is in four slots of the metadata.
Mac(x) == <<"hmac", [b \in 1..4 |-> Rand("slot", 8 * x + 1 + b)],
                    [b \in 1..Sec(x).size |-> Plain(Sec(x).off + b)]>>

SlotsStart == M + 8 + 3 * n

\* Slot y when h sections have been hashed.
SlotValue(h, y) ==
    IF y % 8 \notin {0, 1} \/ y \div 8 >= h THEN SlotCell(y).v
    ELSE IF y % 8 = 0 THEN Mac(y \div 8) ELSE <<"hash_end", Mac(y \div 8)>>

\* Block a of the header when h sections have been hashed.
Value(h, a) == IF a \in SlotsStart..(SigAt - 1) THEN SlotValue(h, a - SlotsStart)
               ELSE HeaderCell(a).v

ToBeSigned == [a \in 1..SigAt |-> Value(n, a - 1)]

\* Block a of the header when it is signed.
Final(a) == IF a \in SigAt..(SigAt + 2)
            THEN <<"signature", Signer.pub, ToBeSigned, a - SigAt + 1>>
            ELSE Value(n, a)

\* The cell at an index of the header, as it is in the file that was written.
Mark == IF harm = "tail" THEN "tail" ELSE "bad"
Stored(a) == IF damaged = a THEN <<Mark, Final(a - 1)>> ELSE Final(a - 1)

\* The four blocks with the key of the metadata, and their encrypted form.
Four == [j \in 1..4 |-> Cell(Final(M + 1 + j))]
Sealed(a) == <<"cbc", Signer.aes, Signer.iv, Four, a - M - 2>>
InFour(a) == a \in (M + 3)..(M + 6)

HeaderPad(a) == Pad(Rand("key", 0), <<Rand("iv", 0), 0>>, a - M - 7, 1)

\* The header while the sections are hashed, in the written file, and open.
HashedHeader(h) == [a \in 1..HdrLen |-> Cell(Value(h, a - 1))]
LockedCell(a) == IF InFour(a) THEN Cell(IF damaged = a THEN <<Mark, Sealed(a)>> ELSE Sealed(a))
                 ELSE [v |-> Stored(a), pads |-> IF a >= M + 7 THEN {HeaderPad(a)} ELSE {}]
LockedHeader == [a \in 1..HdrLen |-> LockedCell(a)]
OpenHeader == [a \in 1..HdrLen |-> Cell(Stored(a))]

DataValue(a) == IF damaged = HdrLen + a THEN <<"bad", Plain(a)>> ELSE Plain(a)

\* The byte of the key stream of section x for byte a of the data.
DataPad(x, a) ==
    Pad(Rand("slot", 8 * x + 6), <<Rand("slot", 8 * x + 7), 0>>, a - 1 - Sec(x).off, BLOCK)

\* Those of the encrypted sections from x to y - 1 that byte a is in.
DataPads(x, y, a) == {DataPad(z, a) : z \in {z \in x..(y - 1) : Sec(z).enc /\ Covers(z, a)}}

\* The data with any key stream on it.
IsCell(x) == x = [v |-> x.v, pads |-> x.pads]
Row(h, N) == h = [a \in 1..N |-> h[a]]
RowOfCells(h, N) == Row(h, N) /\ \A a \in 1..N : IsCell(h[a])
DataCells(d) == RowOfCells(d, job.length) /\ \A a \in 1..job.length : d[a].v = DataValue(a)

DataIs(d, x, y) == \A a \in 1..job.length : d[a].pads = DataPads(x, y, a)

\* A byte of key stream that only section x uses, and for byte a only, whether
\* its key is damaged or not.
OfSection(p, x, a) ==
    /\ p.key \in {Rand("slot", 8 * x + 6), <<"bad", Rand("slot", 8 * x + 6)>>,
                  <<"tail", Rand("slot", 8 * x + 6)>>}
    /\ BLOCK * p.count + p.pos = a - 1 - Sec(x).off

PadsOfSections(d) == \A a \in 1..job.length : \A p \in d[a].pads :
                         \E x \in 0..(n - 1) : Covers(x, a) /\ OfSection(p, x, a)

-----------------------------------------------------------------------------
(* The inductive invariant *)

\* A slot of the metadata is damaged.
BadSlot == damaged \in (SlotsStart + 1)..SigAt

Early == {"hash", "encrypt", "written", "decrypt_header"}

Locked == \/ pc \in {"written", "decrypt_header", "refused"}
          \/ pc = "extract" /\ Skips
          \/ pc = "failed" /\ keyid = NONE

Opened == \/ pc \in {"decrypt_data", "verify", "done"}
          \/ pc = "extract" /\ ~Skips
          \/ pc = "failed" /\ keyid # NONE

Phases == {"hash", "encrypt", "written", "decrypt_header", "decrypt_data", "verify",
           "done", "extract", "refused", "failed", "lost"}

\* The blocks of the header with numbers that readers follow: of the file, the
\* counts, and the entries of the sections.
HeadNumbers == 1..(M + 2)
MetaNumbers == {M + 7} \cup (M + 9)..(M + 8 + 3 * n)
Numbers == HeadNumbers \cup MetaNumbers

\* One cell is damaged, and not one of the metadata with a number.
DamageIn == damaged = NONE \/ damaged \in 1..(HdrLen + job.length)
DamageOK == DamageIn /\ damaged \notin MetaNumbers

\* The reader has begun and follows wild numbers.
Wrong == keyid # NONE /\ klist[keyid].iv # Signer.iv
Astray == pc \notin Early /\ (damaged \in Numbers \/ Wrong)

Fixed == /\ job \in Files /\ klist \in KeyLists
         /\ pc \in Phases
         /\ DamageIn
         /\ harm = "tail" => damaged \in TailBlocks
         /\ pc \in {"hash", "encrypt"} => damaged = NONE
         /\ pc \in {"written", "decrypt_header"} => i = 0
         /\ f = [hdr |-> f.hdr, data |-> f.data]
         /\ keyid # NONE => keyid \in 1..Len(klist) /\ klist[keyid].aes = Signer.aes
         /\ pc \in Early => keyid = NONE
         /\ pc \in {"decrypt_data", "verify", "done"} => keyid # NONE
         /\ sig \in {"none", "OK", "FAIL"}
         /\ pc \notin {"verify", "done", "lost"} => sig = "none"
         /\ sig = "none" => res = <<>>
         /\ pc = "done" => sig # "none"
         /\ pc = "lost" => Astray

Header == /\ pc = "hash"    => f.hdr = HashedHeader(i)
          /\ pc = "encrypt" => f.hdr = OpenHeader
          /\ Locked         => f.hdr = LockedHeader
          /\ Opened         => f.hdr = OpenHeader /\ ~InFour(damaged)

Data == DataCells(f.data) /\ PadsOfSections(f.data)

Streams == /\ pc = "hash"    => DataIs(f.data, 0, 0)
           /\ pc = "encrypt" => DataIs(f.data, 0, i)
           /\ Locked         => DataIs(f.data, 0, n)
           /\ Opened /\ ~BadSlot => DataIs(f.data, IF pc = "decrypt_data" THEN i ELSE n, n)

\* Neither what is signed nor the part in use of the signature is damaged.
SignatureSpared == damaged \notin 1..(SigAt + 2) /\ ~(damaged = SigAt + 3 /\ Mark = "bad")

\* What sceverify has found so far.
Verdict(x) == IF EndOf(x) > job.filesize THEN "???"
              ELSE IF InSection(x, damaged - HdrLen) THEN "FAIL" ELSE "OK"

Verdicts ==
    /\ i \in 0..n
    /\ Opened <=> keyid # NONE
    /\ pc \in {"decrypt_header", "decrypt_data"} /\ damaged \notin HeadNumbers => ~Skips
    /\ res \in Seq({"OK", "FAIL", "???"})
    /\ sig = "none" /\ pc = "verify" => i = 0
    /\ pc \in {"verify", "done"} /\ sig # "none" =>
         /\ Len(res) = i
         /\ sig = IF klist[keyid].pub = Signer.pub /\ SignatureSpared THEN "OK" ELSE "FAIL"
         /\ damaged \notin 1..HdrLen => \A x \in 1..i : res[x] = Verdict(x)
    /\ pc = "done" => i = n

\* A reader that is astray sees in the header what is stored there or nothing
\* that is known, with the wrong key nothing at all behind the key, and never a
\* signature that is right.
SeenOrLost(h) == /\ RowOfCells(h, HdrLen)
                 /\ \A a \in 1..HdrLen : Seen(h[a]) \in {Stored(a), GARBAGE}
AllLost(h) == \A a \in (M + 7)..HdrLen : Seen(h[a]) = GARBAGE

Wandering == /\ sig # "OK"
             /\ pc \in {"decrypt_data", "verify"} =>
                    SeenOrLost(f.hdr) /\ (Wrong => AllLost(f.hdr))

IInv == /\ Fixed
        /\ ~Astray => Header /\ Data /\ Streams /\ Verdicts
        /\ Astray => Wandering

-----------------------------------------------------------------------------
(* Numbers and fields *)

LEMMA SizeFacts ==
    ASSUME job \in Files
    PROVE  /\ n \in Nat /\ M \in Nat /\ SigAt = M + 8 + 11 * n /\ HdrLen = M + 12 + 11 * n
           /\ SlotsStart = M + 8 + 3 * n /\ job.length \in Nat
           /\ SigAt \in Nat /\ HdrLen \in Nat /\ SlotsStart \in Nat
<1>1. job \in FileType
  BY FilesAssumption
<1>2. job.meta \in Nat /\ job.length \in Nat
      /\ job.sections \in Seq([off : Nat, size : Nat, enc : BOOLEAN])
  BY <1>1 DEF FileType
<1>3. n \in Nat /\ M \in Nat
  BY <1>2 DEF n, M
<1>4. SigAt = M + 8 + 11 * n /\ HdrLen = M + 12 + 11 * n /\ SlotsStart = M + 8 + 3 * n
  BY <1>3 DEF SigAt, HdrLen, SlotsStart
<1>5. QED
  BY <1>2, <1>3, <1>4

LEMMA SectionFacts ==
    ASSUME job \in Files, NEW x \in 0..(n - 1)
    PROVE  /\ Sec(x).off \in Nat /\ Sec(x).size \in Nat /\ Sec(x).enc \in BOOLEAN
           /\ Sec(x).off + Sec(x).size <= job.length
<1>1. job \in FileType /\ \A y \in 1..Len(job.sections) :
          job.sections[y].off + job.sections[y].size <= job.length
  BY FilesAssumption
<1>2. job.sections \in Seq([off : Nat, size : Nat, enc : BOOLEAN])
  BY <1>1 DEF FileType
<1>3. x + 1 \in 1..Len(job.sections)
  BY SizeFacts DEF n
<1>4. job.sections[x + 1] \in [off : Nat, size : Nat, enc : BOOLEAN]
  BY <1>2, <1>3, ElementOf
<1>5. QED
  BY <1>1, <1>3, <1>4 DEF Sec

\* The blocks in front of the slots do not change while sections are hashed.
LEMMA EarlyValues ==
    ASSUME job \in Files, NEW h
    PROVE  /\ Value(h, M + 2) = Rand("key", 0) /\ Value(h, M + 3) = ZERO
           /\ Value(h, M + 4) = Rand("iv", 0) /\ Value(h, M + 5) = ZERO
           /\ Value(h, M + 6) = <<"counts", SigAt, n>>
           /\ Value(h, M + 7) = <<"more_counts">>
           /\ \A a \in 0..(M + 1) : Value(h, a) = <<"head", a>>
           /\ \A a \in SigAt..(HdrLen - 1) : Value(h, a) = ZERO
BY SizeFacts DEF Value, HeaderCell, Cell

LEMMA EntryValues ==
    ASSUME job \in Files, NEW h, NEW x \in 0..(n - 1)
    PROVE  /\ Value(h, M + 8 + 3 * x) = <<"place", BLOCK * HdrLen + Sec(x).off, Sec(x).size>>
           /\ Value(h, M + 9 + 3 * x) = <<"sha", 8 * x>>
           /\ Value(h, M + 10 + 3 * x) = IF Sec(x).enc THEN <<"keys", 8 * x + 6, 8 * x + 7>>
                                          ELSE <<"keys", NONE, NONE>>
<1>1. n \in Nat /\ M \in Nat /\ SlotsStart = M + 8 + 3 * n /\ SigAt = M + 8 + 11 * n
  BY SizeFacts
<1>2. ASSUME NEW r \in 0..2
      PROVE  /\ M + 8 + 3 * x + r \notin SlotsStart..(SigAt - 1)
             /\ HeaderCell(M + 8 + 3 * x + r) = EntryCell(3 * x + r)
             /\ (3 * x + r) \div 3 = x /\ (3 * x + r) % 3 = r
  <2> DEFINE a == M + 8 + 3 * x + r
  <2>1. a \in (M + 8)..(M + 7 + 3 * n) /\ a \in Int /\ a - M - 8 = 3 * x + r
    BY <1>1
  <2> HIDE DEF a
  <2>2. HeaderCell(a) = EntryCell(a - M - 8)
    BY <1>1, <2>1 DEF HeaderCell
  <2>3. (3 * x + r) \div 3 = x /\ (3 * x + r) % 3 = r
    BY <1>1
  <2>4. a \notin SlotsStart..(SigAt - 1)
    BY <1>1, <2>1
  <2>5. QED
    BY <2>1, <2>2, <2>3, <2>4 DEF a
<1>3. ASSUME NEW r \in 0..2
      PROVE  Value(h, M + 8 + 3 * x + r) = EntryCell(3 * x + r).v
  BY <1>2 DEF Value
<1>4. /\ EntryCell(3 * x + 0).v = <<"place", BLOCK * HdrLen + Sec(x).off, Sec(x).size>>
      /\ EntryCell(3 * x + 1).v = <<"sha", x * 8>>
      /\ EntryCell(3 * x + 2).v = IF Sec(x).enc THEN <<"keys", x * 8 + 6, x * 8 + 7>>
                                  ELSE <<"keys", NONE, NONE>>
  <2>1. ASSUME NEW y, y \div 3 = x, y % 3 = 0
        PROVE  EntryCell(y).v = <<"place", BLOCK * HdrLen + Sec(x).off, Sec(x).size>>
    BY <2>1 DEF EntryCell, Cell, Sec
  <2>2. ASSUME NEW y, y \div 3 = x, y % 3 = 1
        PROVE  EntryCell(y).v = <<"sha", x * 8>>
    BY <2>2 DEF EntryCell, Cell
  <2>3. ASSUME NEW y, y \div 3 = x, y % 3 = 2
        PROVE  EntryCell(y).v = IF Sec(x).enc THEN <<"keys", x * 8 + 6, x * 8 + 7>>
                                ELSE <<"keys", NONE, NONE>>
    BY <2>3 DEF EntryCell, Cell, Sec
  <2>4. QED
    BY <1>2, <2>1, <2>2, <2>3, 0 \in 0..2, 1 \in 0..2, 2 \in 0..2
<1>5. /\ M + 8 + 3 * x = M + 8 + 3 * x + 0 /\ M + 9 + 3 * x = M + 8 + 3 * x + 1
      /\ M + 10 + 3 * x = M + 8 + 3 * x + 2 /\ 8 * x = x * 8
  BY <1>1
<1>6. /\ Value(h, M + 8 + 3 * x + 0) = EntryCell(3 * x + 0).v
      /\ Value(h, M + 8 + 3 * x + 1) = EntryCell(3 * x + 1).v
      /\ Value(h, M + 8 + 3 * x + 2) = EntryCell(3 * x + 2).v
  BY <1>3
<1>7. QED
  BY <1>4, <1>5, <1>6, Zenon

\* Slot r of section x when h sections have been hashed.
SlotOf(h, x, r) == IF r \notin {0, 1} THEN Rand("slot", 8 * x + r)
                   ELSE IF x >= h THEN ZERO
                   ELSE IF r = 0 THEN Mac(x) ELSE <<"hash_end", Mac(x)>>

\* The eight slots of a section.
LEMMA SlotValues ==
    ASSUME job \in Files, NEW h \in 0..n, NEW x \in 0..(n - 1), NEW r \in 0..7
    PROVE  /\ SlotsStart + 8 * x + r \in SlotsStart..(SigAt - 1)
           /\ Value(h, SlotsStart + 8 * x + r) = SlotOf(h, x, r)
<1>1. n \in Nat /\ SlotsStart \in Nat /\ SigAt = SlotsStart + 8 * n
  BY SizeFacts
<1>2. (8 * x + r) \div 8 = x /\ (8 * x + r) % 8 = r
  BY <1>1
<1>3. /\ SlotsStart + 8 * x + r \in SlotsStart..(SigAt - 1)
      /\ (SlotsStart + 8 * x + r) - SlotsStart = 8 * x + r
  BY <1>1
<1>4. Value(h, SlotsStart + 8 * x + r) = SlotValue(h, 8 * x + r)
  BY <1>3 DEF Value
<1>5. SlotCell(8 * x + r).v = IF r \in {0, 1} THEN ZERO ELSE Rand("slot", 8 * x + r)
  BY <1>2 DEF SlotCell, Cell
<1>6. SlotValue(h, 8 * x + r) = SlotOf(h, x, r)
  BY <1>2, <1>5 DEF SlotValue, SlotOf
<1>7. QED
  BY <1>3, <1>4, <1>6

\* Every slot is one of the eight of a section.
LEMMA SlotOfSection ==
    ASSUME job \in Files, NEW a \in SlotsStart..(SigAt - 1)
    PROVE  \E x \in 0..(n - 1), r \in 0..7 : a = SlotsStart + 8 * x + r
<1>1. n \in Nat /\ SlotsStart \in Nat /\ SigAt = SlotsStart + 8 * n
  BY SizeFacts
<1> DEFINE y == a - SlotsStart
<1>2. y \in 0..(8 * n - 1)
  BY <1>1
<1> HIDE DEF y
<1>3. y = 8 * (y \div 8) + (y % 8) /\ y \div 8 \in 0..(n - 1) /\ y % 8 \in 0..7
  BY <1>1, <1>2
<1>4. a = SlotsStart + 8 * (y \div 8) + (y % 8)
  <2>1. a = SlotsStart + y
    BY <1>1 DEF y
  <2>2. QED
    BY <1>1, <1>2, <1>3, <2>1
<1>5. QED
  BY <1>3, <1>4

\* Hashing a section changes the first two of its slots and nothing else.
LEMMA ValueGrows ==
    ASSUME job \in Files, NEW h \in 0..(n - 1), NEW a \in 0..(HdrLen - 1)
    PROVE  /\ a = SlotsStart + 8 * h => Value(h + 1, a) = Mac(h)
           /\ a = SlotsStart + 8 * h + 1 => Value(h + 1, a) = <<"hash_end", Mac(h)>>
           /\ a \notin {SlotsStart + 8 * h, SlotsStart + 8 * h + 1} =>
                  Value(h + 1, a) = Value(h, a)
<1>1. n \in Nat /\ SlotsStart \in Nat /\ h + 1 \in 0..n /\ h \in 0..n
  BY SizeFacts
<1>2. CASE a \in SlotsStart..(SigAt - 1)
  <2>1. PICK x \in 0..(n - 1), r \in 0..7 : a = SlotsStart + 8 * x + r
    BY <1>2, SlotOfSection
  <2>2. Value(h + 1, a) = SlotOf(h + 1, x, r) /\ Value(h, a) = SlotOf(h, x, r)
    BY <1>1, <2>1, SlotValues
  <2>3. a = SlotsStart + 8 * h <=> r = 0 /\ x = h
    BY <1>1, <2>1
  <2>4. a = SlotsStart + 8 * h + 1 <=> r = 1 /\ x = h
    BY <1>1, <2>1
  <2>5. x >= h + 1 <=> x >= h /\ x # h
    BY <1>1
  <2>6. r = 0 => r # 1
    OBVIOUS
  <2>7. QED
    BY <2>2, <2>3, <2>4, <2>5, <2>6 DEF SlotOf
<1>3. CASE a \notin SlotsStart..(SigAt - 1)
  <2>1. Value(h + 1, a) = HeaderCell(a).v /\ Value(h, a) = HeaderCell(a).v
    BY <1>3 DEF Value
  <2>2. a # SlotsStart + 8 * h + 0 /\ a # SlotsStart + 8 * h + 1
    BY <1>1, <1>3, SlotValues, 0 \in 0..7, 1 \in 0..7
  <2>3. SlotsStart + 8 * h + 0 = SlotsStart + 8 * h
    BY <1>1
  <2>4. QED
    BY <2>1, <2>2, <2>3
<1>4. QED
  BY <1>2, <1>3

-----------------------------------------------------------------------------
(* The signed header *)

LEMMA FinalIsValue ==
    ASSUME job \in Files, NEW a \in 0..(HdrLen - 1), a \notin SigAt..(SigAt + 2)
    PROVE  Final(a) = Value(n, a)
BY DEF Final

\* What the readers take from the header.
LEMMA FinalFields ==
    ASSUME job \in Files
    PROVE  /\ Final(M + 2) = Rand("key", 0) /\ Final(M + 3) = ZERO
           /\ Final(M + 4) = Rand("iv", 0) /\ Final(M + 5) = ZERO
           /\ Final(M + 6) = <<"counts", SigAt, n>>
           /\ \A x \in 0..(n - 1) :
                /\ Final(M + 8 + 3 * x) = <<"place", BLOCK * HdrLen + Sec(x).off, Sec(x).size>>
                /\ Final(M + 9 + 3 * x) = <<"sha", 8 * x>>
                /\ Final(M + 10 + 3 * x) = IF Sec(x).enc THEN <<"keys", 8 * x + 6, 8 * x + 7>>
                                           ELSE <<"keys", NONE, NONE>>
                /\ \A r \in 0..7 : Final(SlotsStart + 8 * x + r) = SlotOf(n, x, r)
           /\ \A b \in 1..3 : Final(SigAt + b - 1) = <<"signature", Signer.pub, ToBeSigned, b>>
<1>1. /\ n \in Nat /\ M \in Nat /\ SigAt = M + 8 + 11 * n /\ HdrLen = M + 12 + 11 * n
      /\ SlotsStart = M + 8 + 3 * n
  BY SizeFacts
<1>2. /\ Final(M + 2) = Rand("key", 0) /\ Final(M + 3) = ZERO
      /\ Final(M + 4) = Rand("iv", 0) /\ Final(M + 5) = ZERO
      /\ Final(M + 6) = <<"counts", SigAt, n>>
  <2>1. \A c \in 2..6 : Final(M + c) = Value(n, M + c)
    BY <1>1, FinalIsValue
  <2>2. QED
    BY <2>1, EarlyValues, 2 \in 2..6, 3 \in 2..6, 4 \in 2..6, 5 \in 2..6, 6 \in 2..6
<1>3. ASSUME NEW x \in 0..(n - 1)
      PROVE  /\ Final(M + 8 + 3 * x) = <<"place", BLOCK * HdrLen + Sec(x).off, Sec(x).size>>
             /\ Final(M + 9 + 3 * x) = <<"sha", 8 * x>>
             /\ Final(M + 10 + 3 * x) = IF Sec(x).enc THEN <<"keys", 8 * x + 6, 8 * x + 7>>
                                        ELSE <<"keys", NONE, NONE>>
  <2>1. /\ Final(M + 8 + 3 * x) = Value(n, M + 8 + 3 * x)
        /\ Final(M + 9 + 3 * x) = Value(n, M + 9 + 3 * x)
        /\ Final(M + 10 + 3 * x) = Value(n, M + 10 + 3 * x)
    BY <1>1, FinalIsValue
  <2>2. QED
    BY <2>1, EntryValues, Zenon
<1>4. ASSUME NEW x \in 0..(n - 1), NEW r \in 0..7
      PROVE  Final(SlotsStart + 8 * x + r) = SlotOf(n, x, r)
  <2>1. SlotsStart + 8 * x + r \in SlotsStart..(SigAt - 1)
        /\ Value(n, SlotsStart + 8 * x + r) = SlotOf(n, x, r)
    BY <1>1, SlotValues
  <2> DEFINE a == SlotsStart + 8 * x + r
  <2> HIDE DEF a
  <2>2. a \in SlotsStart..(SigAt - 1)
    BY <2>1 DEF a
  <2>3. a \in 0..(HdrLen - 1) /\ a \notin SigAt..(SigAt + 2)
    BY <1>1, <2>2
  <2>4. Final(a) = Value(n, a)
    BY <2>3, FinalIsValue
  <2>5. QED
    BY <2>1, <2>4 DEF a
<1>5. ASSUME NEW b \in 1..3
      PROVE  Final(SigAt + b - 1) = <<"signature", Signer.pub, ToBeSigned, b>>
  <2>1. SigAt + b - 1 \in SigAt..(SigAt + 2) /\ (SigAt + b - 1) - SigAt + 1 = b
    BY <1>1
  <2>2. QED
    BY <2>1 DEF Final
<1>6. QED
  BY <1>2, <1>3, <1>4, <1>5, Zenon

\* Every block of the header is one of these.
LEMMA WhereInHeader ==
    ASSUME job \in Files, NEW a \in 0..(HdrLen - 1)
    PROVE  \/ a \in 0..(M + 1) \/ a \in {M + 2, M + 3, M + 4, M + 5, M + 6, M + 7}
           \/ \E x \in 0..(n - 1) : a \in {M + 8 + 3 * x, M + 9 + 3 * x, M + 10 + 3 * x}
           \/ \E x \in 0..(n - 1), r \in 0..7 : a = SlotsStart + 8 * x + r
           \/ a \in SigAt..(SigAt + 2)
           \/ a = SigAt + 3
<1>1. /\ n \in Nat /\ M \in Nat /\ SigAt = M + 8 + 11 * n /\ HdrLen = M + 12 + 11 * n
      /\ SlotsStart = M + 8 + 3 * n
  BY SizeFacts
<1>2. CASE a \in (M + 8)..(SlotsStart - 1)
  <2> DEFINE y == a - M - 8
  <2>1. y \in 0..(3 * n - 1) /\ a = M + 8 + y
    BY <1>1, <1>2
  <2> HIDE DEF y
  <2>2. y = 3 * (y \div 3) + (y % 3) /\ y \div 3 \in 0..(n - 1) /\ y % 3 \in 0..2
    BY <1>1, <2>1
  <2>3. a \in {M + 8 + 3 * (y \div 3), M + 9 + 3 * (y \div 3), M + 10 + 3 * (y \div 3)}
    BY <1>1, <2>1, <2>2
  <2>4. QED
    BY <2>2, <2>3
<1>3. CASE a \in SlotsStart..(SigAt - 1)
  BY <1>3, SlotOfSection
<1>4. CASE a \notin (M + 8)..(SigAt - 1)
  BY <1>1, <1>4
<1>5. QED
  BY <1>1, <1>2, <1>3, <1>4

\* What a damaged cell holds is nothing that is in a good file.
Marks == {"bad", "tail", "garbage"}

LEMMA NoValueIsBad ==
    ASSUME job \in Files, NEW a \in 0..(HdrLen - 1)
    PROVE  /\ Final(a)[1] \notin Marks
           /\ a \notin SigAt..(SigAt + 2) => Final(a)[1] # "signature"
<1>1. ASSUME a \notin SigAt..(SigAt + 2) PROVE Final(a) = Value(n, a)
  BY <1>1, FinalIsValue
<1>2. n \in Nat /\ n \in 0..n /\ SigAt \in Nat /\ M \in Nat /\ SlotsStart \in Nat
      /\ SigAt = SlotsStart + 8 * n /\ SlotsStart = M + 8 + 3 * n
  BY SizeFacts
<1>3. ASSUME NEW v, v[1] \in {"head", "rand", "zero", "counts", "more_counts", "place", "sha",
                             "keys", "hmac", "hash_end"}
      PROVE  v[1] \notin Marks /\ v[1] # "signature"
  BY <1>3 DEF Marks
<1> DEFINE Good(v) == v[1] \in {"head", "rand", "zero", "counts", "more_counts", "place", "sha",
                                "keys", "hmac", "hash_end"}
<1>4. CASE a \in 0..(M + 1) \/ a \in {M + 2, M + 3, M + 4, M + 5, M + 6, M + 7}
  <2>1. a \notin SigAt..(SigAt + 2)
    BY <1>2, <1>4
  <2>2. ASSUME a \in 0..(M + 1)
        PROVE  Good(Value(n, a))
    <3>1. Value(n, a) = <<"head", a>>
      BY <2>2, EarlyValues
    <3>2. QED
      BY <3>1
  <2>3. ASSUME a \in {M + 2, M + 3, M + 4, M + 5}
        PROVE  Good(Value(n, a))
    <3>1. Value(n, a) \in {Rand("key", 0), Rand("iv", 0), ZERO}
      BY <2>3, EarlyValues
    <3>2. QED
      BY <3>1 DEF Rand, ZERO
  <2>4. ASSUME a \in {M + 6, M + 7}
        PROVE  Good(Value(n, a))
    <3>1. Value(n, a) \in {<<"counts", SigAt, n>>, <<"more_counts">>}
      BY <2>4, EarlyValues
    <3>2. QED
      BY <3>1
  <2>5. Good(Value(n, a))
    BY <1>4, <2>2, <2>3, <2>4
  <2>6. QED
    BY <1>1, <1>3, <2>1, <2>5
<1>5. CASE \E x \in 0..(n - 1) : a \in {M + 8 + 3 * x, M + 9 + 3 * x, M + 10 + 3 * x}
  <2>1. PICK x \in 0..(n - 1) : a \in {M + 8 + 3 * x, M + 9 + 3 * x, M + 10 + 3 * x}
    BY <1>5
  <2>2. Good(Final(M + 8 + 3 * x)) /\ Good(Final(M + 9 + 3 * x))
    <3>1. /\ Final(M + 8 + 3 * x) = <<"place", BLOCK * HdrLen + Sec(x).off, Sec(x).size>>
          /\ Final(M + 9 + 3 * x) = <<"sha", 8 * x>>
      BY FinalFields
    <3>2. QED
      BY <3>1
  <2>3. Good(Final(M + 10 + 3 * x))
    <3>1. Final(M + 10 + 3 * x) = IF Sec(x).enc THEN <<"keys", 8 * x + 6, 8 * x + 7>>
                                  ELSE <<"keys", NONE, NONE>>
      BY FinalFields
    <3>2. Good(<<"keys", 8 * x + 6, 8 * x + 7>>) /\ Good(<<"keys", NONE, NONE>>)
      OBVIOUS
    <3> HIDE DEF Good
    <3>3. QED
      BY <3>1, <3>2, Zenon
  <2>4. Good(Final(a))
    BY <2>1, <2>2, <2>3
  <2>5. QED
    BY <1>3, <2>4
<1>6. CASE \E x \in 0..(n - 1), r \in 0..7 : a = SlotsStart + 8 * x + r
  <2>1. PICK x \in 0..(n - 1), r \in 0..7 : a = SlotsStart + 8 * x + r
    BY <1>6
  <2>2. Final(a) = SlotOf(n, x, r)
    BY <2>1, FinalFields
  <2>3. Good(SlotOf(n, x, r))
    BY DEF SlotOf, Rand, ZERO, Mac
  <2>4. QED
    BY <1>3, <2>2, <2>3
<1>7. CASE a \in SigAt..(SigAt + 2)
  BY <1>7 DEF Final, Marks
<1>8. CASE a = SigAt + 3
  <2>1. Value(n, a) = ZERO /\ a \notin SigAt..(SigAt + 2)
    BY <1>2, <1>8, EarlyValues, SizeFacts
  <2>2. Good(ZERO)
    BY DEF ZERO
  <2>3. QED
    BY <1>1, <1>3, <2>1, <2>2
<1>9. QED
  BY <1>4, <1>5, <1>6, <1>7, <1>8, WhereInHeader

LEMMA StoredIsFinal ==
    ASSUME job \in Files, NEW a \in 1..HdrLen
    PROVE  Stored(a) = Final(a - 1) <=> damaged # a
<1>1. a - 1 \in 0..(HdrLen - 1)
  BY SizeFacts
<1>2. Final(a - 1)[1] \notin Marks /\ <<Mark, Final(a - 1)>>[1] \in Marks
  BY <1>1, NoValueIsBad DEF Marks, Mark
<1>3. QED
  BY <1>2 DEF Stored

-----------------------------------------------------------------------------
(* Reading the header *)

LEMMA LenOf ==
    ASSUME NEW N \in Nat, NEW g, g = [a \in 1..N |-> g[a]]
    PROVE  Len(g) = N /\ g \in Seq({g[a] : a \in 1..N}) /\ DOMAIN g = 1..N
<1>1. g \in [1..N -> {g[a] : a \in 1..N}]
  OBVIOUS
<1>2. QED
  BY <1>1, FunctionIsSeq

\* What a reader takes from the header of g when v is seen in its cells.
ReadAs(g, v) ==
    /\ Len(g.hdr) = HdrLen /\ SigLenField(g, M) = SigAt /\ NHdr(g, M) = n
    /\ \A a \in 1..HdrLen : Seen(g.hdr[a]) = v[a]
    /\ \A x \in 0..(n - 1) :
         /\ Place(g, M, x) = <<"place", BLOCK * HdrLen + Sec(x).off, Sec(x).size>>
         /\ ShaId(g, M, x) = 8 * x
         /\ KeyIds(g, M, x) = IF Sec(x).enc THEN <<"keys", 8 * x + 6, 8 * x + 7>>
                              ELSE <<"keys", NONE, NONE>>
         /\ \A r \in 0..7 : /\ Slot(g, M, 8 * x + r) = v[SlotsStart + 8 * x + r + 1]
                            /\ SlotsStart + 8 * x + r + 1 \in (SlotsStart + 1)..SigAt

\* What is seen of the header in the written file, and while it is hashed.
StoredValues == [a \in 1..HdrLen |-> Stored(a)]
HashedValues(h) == [a \in 1..HdrLen |-> Value(h, a - 1)]

\* A header whose counts and entries are those of the producer is read so,
\* whatever else is in it.
LEMMA HeaderFields ==
    ASSUME job \in Files, NEW g, NEW v,
           g.hdr = [a \in 1..HdrLen |-> Cell(v[a])],
           \A a \in MetaNumbers : v[a] = Final(a - 1)
    PROVE  ReadAs(g, v)
<1>1. /\ n \in Nat /\ M \in Nat /\ SigAt = M + 8 + 11 * n /\ HdrLen = M + 12 + 11 * n
      /\ SlotsStart = M + 8 + 3 * n /\ HdrLen \in Nat
  BY SizeFacts
<1>2. Len(g.hdr) = HdrLen
  <2>1. \A a \in 1..HdrLen : g.hdr[a] = Cell(v[a])
    OBVIOUS
  <2>2. g.hdr = [a \in 1..HdrLen |-> g.hdr[a]]
    BY <2>1
  <2>3. QED
    BY <1>1, <2>2, LenOf
<1>3. \A a \in 1..HdrLen : Seen(g.hdr[a]) = v[a]
  BY DEF Seen, Cell
<1>4. SigLenField(g, M) = SigAt /\ NHdr(g, M) = n
  <2>1. M + 6 + 1 \in 1..HdrLen /\ M + 6 + 1 \in MetaNumbers
        /\ (M + 6 + 1) - 1 = M + 6
    BY <1>1 DEF MetaNumbers
  <2>2. Seen(g.hdr[M + 6 + 1]) = Final(M + 6)
    BY <1>3, <2>1
  <2>3. Final(M + 6) = <<"counts", SigAt, n>>
    BY FinalFields
  <2>4. QED
    BY <2>2, <2>3 DEF SigLenField, NHdr
<1>5. ASSUME NEW x \in 0..(n - 1)
      PROVE  /\ Place(g, M, x) = <<"place", BLOCK * HdrLen + Sec(x).off, Sec(x).size>>
             /\ ShaId(g, M, x) = 8 * x
             /\ KeyIds(g, M, x) = IF Sec(x).enc THEN <<"keys", 8 * x + 6, 8 * x + 7>>
                                  ELSE <<"keys", NONE, NONE>>
  <2>1. ASSUME NEW r \in 0..2
        PROVE  Seen(g.hdr[M + 8 + 3 * x + r + 1]) = Final(M + 8 + 3 * x + r)
    <3>1. /\ M + 8 + 3 * x + r + 1 \in 1..HdrLen
          /\ M + 8 + 3 * x + r + 1 \in MetaNumbers
          /\ (M + 8 + 3 * x + r + 1) - 1 = M + 8 + 3 * x + r
      BY <1>1 DEF MetaNumbers
    <3>2. QED
      BY <1>3, <3>1
  <2>2. /\ Seen(g.hdr[EntryAt(M, x) + 1]) = Final(M + 8 + 3 * x)
        /\ Seen(g.hdr[EntryAt(M, x) + 2]) = Final(M + 9 + 3 * x)
        /\ Seen(g.hdr[EntryAt(M, x) + 3]) = Final(M + 10 + 3 * x)
    <3>1. /\ EntryAt(M, x) + 1 = M + 8 + 3 * x + 0 + 1 /\ EntryAt(M, x) + 2 = M + 8 + 3 * x + 1 + 1
          /\ EntryAt(M, x) + 3 = M + 8 + 3 * x + 2 + 1
          /\ M + 8 + 3 * x + 0 = M + 8 + 3 * x /\ M + 8 + 3 * x + 1 = M + 9 + 3 * x
          /\ M + 8 + 3 * x + 2 = M + 10 + 3 * x
      BY <1>1 DEF EntryAt
    <3>2. QED
      BY <2>1, <3>1, 0 \in 0..2, 1 \in 0..2, 2 \in 0..2
  <2>3. ShaId(g, M, x) = 8 * x
    <3>1. Seen(g.hdr[EntryAt(M, x) + 2]) = <<"sha", 8 * x>>
      BY <2>2, FinalFields
    <3>2. QED
      BY <3>1 DEF ShaId
  <2>4. QED
    BY <2>2, <2>3, FinalFields, Zenon DEF Place, KeyIds
<1>6. ASSUME NEW x \in 0..(n - 1), NEW r \in 0..7
      PROVE  /\ Slot(g, M, 8 * x + r) = v[SlotsStart + 8 * x + r + 1]
             /\ SlotsStart + 8 * x + r + 1 \in (SlotsStart + 1)..SigAt
  <2>1. SlotsAt(M, n) + (8 * x + r) + 1 = SlotsStart + 8 * x + r + 1
    BY <1>1 DEF SlotsAt
  <2>2. /\ SlotsStart + 8 * x + r + 1 \in 1..HdrLen
        /\ SlotsStart + 8 * x + r + 1 \in (SlotsStart + 1)..SigAt
    BY <1>1
  <2>3. QED
    BY <1>3, <1>4, <2>1, <2>2 DEF Slot
<1>7. QED
  BY <1>2, <1>3, <1>4, <1>5, <1>6, Zenon DEF ReadAs

LEMMA OpenFields ==
    ASSUME job \in Files, DamageOK, NEW g, g.hdr = OpenHeader
    PROVE  /\ ReadAs(g, StoredValues)
           /\ Len(g.hdr) = HdrLen /\ SigLenField(g, M) = SigAt /\ NHdr(g, M) = n
           /\ \A a \in 1..HdrLen : Seen(g.hdr[a]) = Stored(a)
           /\ \A x \in 0..(n - 1) :
                /\ Place(g, M, x) = <<"place", BLOCK * HdrLen + Sec(x).off, Sec(x).size>>
                /\ ShaId(g, M, x) = 8 * x
                /\ KeyIds(g, M, x) = IF Sec(x).enc THEN <<"keys", 8 * x + 6, 8 * x + 7>>
                                     ELSE <<"keys", NONE, NONE>>
                /\ \A r \in 0..7 : /\ Slot(g, M, 8 * x + r) = Stored(SlotsStart + 8 * x + r + 1)
                                   /\ SlotsStart + 8 * x + r + 1 \in (SlotsStart + 1)..SigAt
<1>1. PICK v : v = StoredValues
  OBVIOUS
<1>2. /\ n \in Nat /\ M \in Nat /\ SigAt = M + 8 + 11 * n /\ HdrLen = M + 12 + 11 * n
      /\ SlotsStart = M + 8 + 3 * n
  BY SizeFacts
<1>3. g.hdr = [a \in 1..HdrLen |-> Cell(v[a])]
  BY <1>1 DEF OpenHeader, StoredValues
<1>4. ASSUME NEW a \in MetaNumbers
      PROVE  v[a] = Final(a - 1)
  <2>1. a \in 1..HdrLen
    BY <1>2 DEF MetaNumbers
  <2>2. damaged # a
    BY <1>2 DEF DamageOK
  <2>3. QED
    BY <1>1, <2>1, <2>2, StoredIsFinal DEF StoredValues
<1>5. \A a \in 1..HdrLen : v[a] = Stored(a)
  BY <1>1 DEF StoredValues
<1>6. (SlotsStart + 1)..SigAt \subseteq 1..HdrLen
  BY <1>2
<1>7. ReadAs(g, v)
  BY <1>3, <1>4, HeaderFields
<1>8. QED
  BY <1>1, <1>5, <1>6, <1>7, Zenon DEF ReadAs

\* The same while the sections are hashed.
LEMMA HashedFields ==
    ASSUME job \in Files, NEW h \in 0..n, NEW g, g.hdr = HashedHeader(h)
    PROVE  /\ ReadAs(g, HashedValues(h))
           /\ Len(g.hdr) = HdrLen /\ SigLenField(g, M) = SigAt /\ NHdr(g, M) = n
           /\ \A a \in 1..HdrLen : Seen(g.hdr[a]) = Value(h, a - 1)
           /\ \A x \in 0..(n - 1) :
                /\ Place(g, M, x) = <<"place", BLOCK * HdrLen + Sec(x).off, Sec(x).size>>
                /\ ShaId(g, M, x) = 8 * x
                /\ \A r \in 0..7 : Slot(g, M, 8 * x + r) = SlotOf(h, x, r)
<1>1. PICK v : v = HashedValues(h)
  OBVIOUS
<1>2. /\ n \in Nat /\ M \in Nat /\ SigAt = M + 8 + 11 * n /\ HdrLen = M + 12 + 11 * n
      /\ SlotsStart = M + 8 + 3 * n
  BY SizeFacts
<1>3. g.hdr = [a \in 1..HdrLen |-> Cell(v[a])]
  BY <1>1 DEF HashedHeader, HashedValues
<1>4. ASSUME NEW a \in MetaNumbers
      PROVE  v[a] = Final(a - 1)
  <2>1. /\ a \in 1..HdrLen /\ a - 1 \in 0..(HdrLen - 1) /\ a - 1 \notin SigAt..(SigAt + 2)
        /\ a - 1 \notin SlotsStart..(SigAt - 1)
    BY <1>2 DEF MetaNumbers
  <2>2. Final(a - 1) = Value(n, a - 1)
    BY <2>1, FinalIsValue
  <2>3. Value(n, a - 1) = Value(h, a - 1)
    BY <2>1 DEF Value
  <2>4. QED
    BY <1>1, <2>1, <2>2, <2>3 DEF HashedValues
<1>5. \A a \in 1..HdrLen : v[a] = Value(h, a - 1)
  BY <1>1 DEF HashedValues
<1>6. (SlotsStart + 1)..SigAt \subseteq 1..HdrLen
  BY <1>2
<1>7. ReadAs(g, v)
  BY <1>3, <1>4, HeaderFields
<1>8. ASSUME NEW x \in 0..(n - 1), NEW r \in 0..7
      PROVE  Slot(g, M, 8 * x + r) = SlotOf(h, x, r)
  <2>1. (SlotsStart + 8 * x + r + 1) - 1 = SlotsStart + 8 * x + r
    BY <1>2
  <2>2. Slot(g, M, 8 * x + r) = Value(h, (SlotsStart + 8 * x + r + 1) - 1)
    BY <1>5, <1>6, <1>7 DEF ReadAs
  <2>3. QED
    BY <2>1, <2>2, SlotValues
<1>9. QED
  BY <1>1, <1>5, <1>7, <1>8, Zenon DEF ReadAs

LEMMA SeenCell ==
    ASSUME NEW x
    PROVE  Seen(Cell(x)) = x
BY DEF Seen, Cell

\* The hmac that is computed when all of the data is plain.
LEMMA HmacIs ==
    ASSUME job \in Files, NEW g, NEW v, ReadAs(g, v), NEW x \in 0..(n - 1),
           \A a \in 1..job.length : g.data[a] = Cell(DataValue(a))
    PROVE  sha1_hmac(g, x) = <<"hmac", [b \in 1..4 |-> v[SlotsStart + 8 * x + 1 + b + 1]],
                               [b \in 1..Sec(x).size |-> DataValue(Sec(x).off + b)]>>
<1>1. /\ n \in Nat /\ SlotsStart \in Nat /\ HdrLen \in Nat /\ job.length \in Nat
      /\ Sec(x).off \in Nat /\ Sec(x).size \in Nat /\ Sec(x).off + Sec(x).size <= job.length
  BY SizeFacts, SectionFacts
<1>2. /\ Len(g.hdr) = HdrLen /\ ShaId(g, M, x) = 8 * x
      /\ Place(g, M, x) = <<"place", BLOCK * HdrLen + Sec(x).off, Sec(x).size>>
  BY DEF ReadAs
<1>3. ASSUME NEW b \in 1..4
      PROVE  Slot(g, M, 8 * x + 1 + b) = v[SlotsStart + 8 * x + 1 + b + 1]
  <2>1. 1 + b \in 0..7 /\ 8 * x + 1 + b = 8 * x + (1 + b)
        /\ SlotsStart + 8 * x + 1 + b + 1 = SlotsStart + 8 * x + (1 + b) + 1
    BY <1>1
  <2>2. Slot(g, M, 8 * x + (1 + b)) = v[SlotsStart + 8 * x + (1 + b) + 1]
    BY <2>1 DEF ReadAs
  <2>3. QED
    BY <2>1, <2>2
<1>4. Content(g, x) = [b \in 1..Sec(x).size |-> DataValue(Sec(x).off + b)]
  <2>1. PICK s : s = BLOCK * HdrLen
    OBVIOUS
  <2>2. s \in Int
    BY <1>1, <2>1, BlockAssumption
  <2>3. Place(g, M, x)[2] = s + Sec(x).off /\ Place(g, M, x)[3] = Sec(x).size
    BY <1>2, <2>1
  <2>4. Place(g, M, x)[2] - BLOCK * Len(g.hdr) = Sec(x).off
    <3>1. (s + Sec(x).off) - s = Sec(x).off
      BY <1>1, <2>2
    <3>2. BLOCK * Len(g.hdr) = s
      BY <1>2, <2>1
    <3>3. Place(g, M, x)[2] - BLOCK * Len(g.hdr) = (s + Sec(x).off) - s
      BY <2>3, <3>2, Zenon
    <3>4. QED
      BY <3>1, <3>3
  <2>5. \A b \in 1..Sec(x).size : Sec(x).off + b \in 1..job.length
    BY <1>1
  <2>6. \A b \in 1..Sec(x).size : Seen(g.data[Sec(x).off + b]) = DataValue(Sec(x).off + b)
    <3>1. \A a \in 1..job.length : Seen(g.data[a]) = DataValue(a)
      BY SeenCell
    <3>2. QED
      BY <2>5, <3>1
  <2>7. QED
    BY <2>3, <2>4, <2>6 DEF Content
<1>5. QED
  BY <1>2, <1>3, <1>4 DEF sha1_hmac

\* Hashing a section.
LEMMA HashStep ==
    ASSUME job \in Files, damaged = NONE, NEW h \in 0..(n - 1), NEW g,
           g.hdr = HashedHeader(h), \A a \in 1..job.length : g.data[a] = Cell(DataValue(a))
    PROVE  Overwrite(g.hdr, SlotsAt(M, n) + 8 * h, HashBlocks(g, h)) = HashedHeader(h + 1)
<1>1. /\ n \in Nat /\ M \in Nat /\ SigAt = M + 8 + 11 * n /\ HdrLen = M + 12 + 11 * n
      /\ SlotsStart = M + 8 + 3 * n /\ h \in 0..n /\ job.length \in Nat
  BY SizeFacts
<1>2. ReadAs(g, HashedValues(h)) /\ Len(g.hdr) = HdrLen
  BY <1>1, HashedFields
<1>3. sha1_hmac(g, h) = Mac(h)
  <2>1. ASSUME NEW b \in 1..4
        PROVE  HashedValues(h)[SlotsStart + 8 * h + 1 + b + 1] = Rand("slot", 8 * h + 1 + b)
    <3>1. /\ SlotsStart + 8 * h + 1 + b + 1 \in 1..HdrLen /\ 1 + b \in 0..7 /\ 1 + b \notin {0, 1}
          /\ (SlotsStart + 8 * h + 1 + b + 1) - 1 = SlotsStart + 8 * h + (1 + b)
          /\ 8 * h + (1 + b) = 8 * h + 1 + b
      BY <1>1
    <3>2. Value(h, SlotsStart + 8 * h + (1 + b)) = SlotOf(h, h, 1 + b)
      BY <1>1, <3>1, SlotValues
    <3>3. SlotOf(h, h, 1 + b) = Rand("slot", 8 * h + (1 + b))
      BY <3>1 DEF SlotOf
    <3>4. ASSUME NEW a \in 1..HdrLen PROVE HashedValues(h)[a] = Value(h, a - 1)
      BY DEF HashedValues
    <3>5. HashedValues(h)[SlotsStart + 8 * h + 1 + b + 1] =
          Value(h, (SlotsStart + 8 * h + 1 + b + 1) - 1)
      BY <3>1, <3>4, Zenon
    <3>6. QED
      BY <3>1, <3>2, <3>3, <3>5
  <2>2. ASSUME NEW a \in Nat
        PROVE  DataValue(a) = Plain(a)
    BY <1>1, HdrLen \in Nat DEF DataValue, NONE
  <2>3. \A b \in 1..Sec(h).size : Sec(h).off + b \in Nat
    BY SectionFacts
  <2>4. sha1_hmac(g, h) =
            <<"hmac", [b \in 1..4 |-> HashedValues(h)[SlotsStart + 8 * h + 1 + b + 1]],
              [b \in 1..Sec(h).size |-> DataValue(Sec(h).off + b)]>>
    BY <1>2, HmacIs
  <2>5. QED
    BY <2>1, <2>2, <2>3, <2>4 DEF Mac
<1>4. HashBlocks(g, h) = <<Cell(Mac(h)), Cell(<<"hash_end", Mac(h)>>)>>
  BY <1>3 DEF HashBlocks
<1>5. ASSUME NEW a \in 1..HdrLen
      PROVE  (IF a - 1 \in (SlotsStart + 8 * h)..(SlotsStart + 8 * h + 2 - 1)
              THEN HashBlocks(g, h)[a - (SlotsStart + 8 * h)] ELSE g.hdr[a])
             = Cell(Value(h + 1, a - 1))
  <2>1. a - 1 \in 0..(HdrLen - 1)
    BY <1>1
  <2>2. CASE a - 1 = SlotsStart + 8 * h
    <3>1. a - (SlotsStart + 8 * h) = 1
          /\ a - 1 \in (SlotsStart + 8 * h)..(SlotsStart + 8 * h + 2 - 1)
      BY <1>1, <2>2
    <3>2. Value(h + 1, a - 1) = Mac(h)
      BY <2>1, <2>2, ValueGrows
    <3>3. QED
      BY <1>4, <3>1, <3>2
  <2>3. CASE a - 1 = SlotsStart + 8 * h + 1
    <3>1. a - (SlotsStart + 8 * h) = 2
          /\ a - 1 \in (SlotsStart + 8 * h)..(SlotsStart + 8 * h + 2 - 1)
      BY <1>1, <2>3
    <3>2. Value(h + 1, a - 1) = <<"hash_end", Mac(h)>>
      BY <2>1, <2>3, ValueGrows
    <3>3. QED
      BY <1>4, <3>1, <3>2
  <2>4. CASE a - 1 \notin {SlotsStart + 8 * h, SlotsStart + 8 * h + 1}
    <3>1. a - 1 \notin (SlotsStart + 8 * h)..(SlotsStart + 8 * h + 2 - 1)
      BY <1>1, <2>4
    <3>2. Value(h + 1, a - 1) = Value(h, a - 1)
      BY <2>1, <2>4, ValueGrows
    <3>3. g.hdr[a] = Cell(Value(h, a - 1))
      BY DEF HashedHeader
    <3>4. QED
      BY <3>1, <3>2, <3>3
  <2>5. QED
    BY <2>2, <2>3, <2>4
<1>6. SlotsAt(M, n) = SlotsStart /\ Len(HashBlocks(g, h)) = 2
  BY <1>1, <1>4 DEF SlotsAt
<1>7. Overwrite(g.hdr, SlotsAt(M, n) + 8 * h, HashBlocks(g, h)) =
      [a \in 1..HdrLen |->
          IF a - 1 \in (SlotsStart + 8 * h)..(SlotsStart + 8 * h + 2 - 1)
          THEN HashBlocks(g, h)[a - (SlotsStart + 8 * h)] ELSE g.hdr[a]]
  BY <1>2, <1>6 DEF Overwrite
<1>8. QED
  BY <1>5, <1>7 DEF HashedHeader

\* Signing the header.
LEMMA SignStep ==
    ASSUME job \in Files, damaged = NONE, NEW g, g.hdr = HashedHeader(n)
    PROVE  Overwrite(g.hdr, SigLenField(g, M), Signature(g)) = OpenHeader
<1>1. /\ n \in Nat /\ M \in Nat /\ SigAt = M + 8 + 11 * n /\ HdrLen = M + 12 + 11 * n
      /\ n \in 0..n
  BY SizeFacts
<1>2. /\ Len(g.hdr) = HdrLen /\ SigLenField(g, M) = SigAt
      /\ \A a \in 1..HdrLen : Seen(g.hdr[a]) = Value(n, a - 1)
  BY <1>1, HashedFields
<1>3. Signed(g, SigLenField(g, M)) = ToBeSigned
  <2>1. 1..SigAt \subseteq 1..HdrLen
    BY <1>1
  <2>2. QED
    BY <1>2, <2>1 DEF Signed, ToBeSigned
<1>4. Signature(g) = [b \in 1..3 |-> Cell(<<"signature", Signer.pub, ToBeSigned, b>>)]
      /\ Len(Signature(g)) = 3
  <2>1. Signature(g) = [b \in 1..3 |-> Cell(<<"signature", Signer.pub, ToBeSigned, b>>)]
    BY <1>3 DEF Signature, SignatureOf
  <2>2. Signature(g) = [b \in 1..3 |-> Signature(g)[b]]
    BY <2>1
  <2>3. QED
    BY <2>1, <2>2, LenOf, 3 \in Nat
<1>5. ASSUME NEW a \in 1..HdrLen
      PROVE  (IF a - 1 \in SigAt..(SigAt + 3 - 1) THEN Signature(g)[a - SigAt] ELSE g.hdr[a])
             = Cell(Stored(a))
  <2>1. Stored(a) = Final(a - 1)
    BY <1>1, StoredIsFinal DEF NONE
  <2>2. CASE a - 1 \in SigAt..(SigAt + 3 - 1)
    <3>1. a - SigAt \in 1..3 /\ (a - 1) - SigAt + 1 = a - SigAt
          /\ a - 1 \in SigAt..(SigAt + 2)
      BY <1>1, <2>2
    <3>2. Signature(g)[a - SigAt] = Cell(<<"signature", Signer.pub, ToBeSigned, a - SigAt>>)
      BY <1>4, <3>1
    <3>3. Final(a - 1) = <<"signature", Signer.pub, ToBeSigned, a - SigAt>>
      BY <3>1 DEF Final
    <3>4. QED
      BY <2>1, <2>2, <3>2, <3>3
  <2>3. CASE a - 1 \notin SigAt..(SigAt + 3 - 1)
    <3>1. a - 1 \in 0..(HdrLen - 1) /\ a - 1 \notin SigAt..(SigAt + 2)
      BY <1>1, <2>3
    <3>2. Final(a - 1) = Value(n, a - 1)
      BY <3>1, FinalIsValue
    <3>3. g.hdr[a] = Cell(Value(n, a - 1))
      BY DEF HashedHeader
    <3>4. QED
      BY <2>1, <2>3, <3>2, <3>3
  <2>4. QED
    BY <2>2, <2>3
<1>6. Overwrite(g.hdr, SigLenField(g, M), Signature(g)) =
      [a \in 1..HdrLen |-> IF a - 1 \in SigAt..(SigAt + 3 - 1)
                           THEN Signature(g)[a - SigAt] ELSE g.hdr[a]]
  BY <1>2, <1>4 DEF Overwrite
<1>7. QED
  BY <1>5, <1>6 DEF OpenHeader

-----------------------------------------------------------------------------
(* The encryption of the header *)

LEMMA RowLen ==
    ASSUME NEW N \in Nat, NEW h, Row(h, N)
    PROVE  Len(h) = N
BY LenOf DEF Row

LEMMA BlocksOf ==
    ASSUME NEW N \in Nat, NEW h, Row(h, N), NEW at \in Nat, at + 4 <= N
    PROVE  Row(Blocks(h, at, 4), 4) /\ \A j \in 1..4 : Blocks(h, at, 4)[j] = h[at + j]
<1> DEFINE S == {h[a] : a \in 1..N}
           p == at + 1
           q == at + 4
<1>1. \A a \in p..q : h[a] \in S
  OBVIOUS
<1>2. p \in Int /\ q \in Int /\ p <= q /\ q - p + 1 = 4
  OBVIOUS
<1> HIDE DEF S
<1>3. /\ SubSeq(h, p, q) \in Seq(S) /\ Len(SubSeq(h, p, q)) = q - p + 1
      /\ \A j \in 1..(q - p + 1) : SubSeq(h, p, q)[j] = h[p + j - 1]
  <2> HIDE DEF p, q
  <2>1. QED
    BY <1>1, <1>2, SubSeqProperties
<1>4. PICK s : s = SubSeq(h, p, q)
  OBVIOUS
<1>5. s \in Seq(S) /\ Len(s) = 4 /\ \A j \in 1..4 : s[j] = h[p + j - 1]
  BY <1>2, <1>3, <1>4
<1>6. s = [j \in 1..4 |-> s[j]]
  BY <1>5
<1>7. \A j \in 1..4 : p + j - 1 = at + j
  OBVIOUS
<1>8. Blocks(h, at, 4) = s
  BY <1>4 DEF Blocks
<1>9. QED
  BY <1>5, <1>6, <1>7, <1>8 DEF Row

KeyBlock(a) == a - M - 2

\* The four blocks of the header that hold the key are replaced.
LEMMA OverwriteFour ==
    ASSUME job \in Files, NEW h, Row(h, HdrLen), NEW four, Row(four, 4),
           NEW o, o = Overwrite(h, M + 2, four)
    PROVE  /\ Row(o, HdrLen)
           /\ \A a \in 1..HdrLen : /\ InFour(a) => o[a] = four[KeyBlock(a)]
                                   /\ ~InFour(a) => o[a] = h[a]
<1>1. M \in Nat /\ HdrLen \in Nat
  BY SizeFacts
<1>2. Len(h) = HdrLen /\ Len(four) = 4
  BY <1>1, RowLen, 4 \in Nat
<1>3. \A a \in 1..HdrLen : /\ a - 1 \in (M + 2)..(M + 2 + 4 - 1) <=> InFour(a)
                           /\ a - (M + 2) = a - M - 2
  BY <1>1 DEF InFour
<1>4. o = [a \in 1..HdrLen |-> IF a - 1 \in (M + 2)..(M + 2 + 4 - 1)
                              THEN four[a - (M + 2)] ELSE h[a]]
  BY <1>2 DEF Overwrite
<1>5. QED
  BY <1>3, <1>4 DEF Row, KeyBlock

LEMMA CellIs ==
    ASSUME NEW x, NEW P
    PROVE  /\ IsCell(Cell(x)) /\ Cell(x).v = x /\ Cell(x).pads = {}
           /\ IsCell([v |-> x, pads |-> P])
           /\ [v |-> x, pads |-> P].v = x /\ [v |-> x, pads |-> P].pads = P
BY DEF IsCell, Cell

LEMMA XorCell ==
    ASSUME NEW c, IsCell(c), NEW P
    PROVE  [c EXCEPT !.pads = P] = [v |-> c.v, pads |-> P]
BY DEF IsCell

\* c is h with a key stream on len cells behind at.
Xored(c, h, N, key, iv, at, len, width) ==
    /\ RowOfCells(c, N)
    /\ \A a \in 1..N :
         /\ c[a].v = h[a].v
         /\ at < a /\ a <= at + len =>
                c[a].pads = SymDiff(h[a].pads, {Pad(key, iv, a - 1 - at, width)})
         /\ ~(at < a /\ a <= at + len) => c[a].pads = h[a].pads

LEMMA CtrIs ==
    ASSUME NEW N \in Nat, NEW h, RowOfCells(h, N),
           NEW key, NEW iv, NEW at \in Int, NEW len \in Int, NEW width,
           NEW c, c = aes128ctr(key, iv, h, at, len, width)
    PROVE  Xored(c, h, N, key, iv, at, len, width)
<1>1. Len(h) = N
  BY RowLen DEF RowOfCells
<1>2. \A a \in 1..N : a - 1 \in at..(at + len - 1) <=> at < a /\ a <= at + len
  OBVIOUS
<1>3. Row(c, N)
  BY <1>1 DEF aes128ctr, Row
<1>4. ASSUME NEW a \in 1..N
      PROVE  c[a] = [v |-> h[a].v,
                     pads |-> IF at < a /\ a <= at + len
                              THEN SymDiff(h[a].pads, {Pad(key, iv, a - 1 - at, width)})
                              ELSE h[a].pads]
  <2>1. PICK p : p = SymDiff(h[a].pads, {Pad(key, iv, a - 1 - at, width)})
    OBVIOUS
  <2>2. c[a] = IF at < a /\ a <= at + len THEN [h[a] EXCEPT !.pads = p] ELSE h[a]
    BY <1>1, <1>2, <2>1 DEF aes128ctr
  <2>3. IsCell(h[a])
    BY DEF RowOfCells
  <2>4. [h[a] EXCEPT !.pads = p] = [v |-> h[a].v, pads |-> p]
    BY <2>3, XorCell
  <2>5. h[a] = [v |-> h[a].v, pads |-> h[a].pads]
    BY <2>3 DEF IsCell
  <2>6. QED
    BY <2>1, <2>2, <2>4, <2>5
<1>5. ASSUME NEW a \in 1..N
      PROVE  /\ IsCell(c[a]) /\ c[a].v = h[a].v
             /\ c[a].pads = IF at < a /\ a <= at + len
                            THEN SymDiff(h[a].pads, {Pad(key, iv, a - 1 - at, width)})
                            ELSE h[a].pads
  <2>1. PICK P : P = IF at < a /\ a <= at + len
                     THEN SymDiff(h[a].pads, {Pad(key, iv, a - 1 - at, width)})
                     ELSE h[a].pads
    OBVIOUS
  <2>2. c[a] = [v |-> h[a].v, pads |-> P]
    BY <1>4, <2>1
  <2>3. QED
    BY <2>1, <2>2, CellIs
<1>6. QED
  BY <1>3, <1>5 DEF RowOfCells, Xored

\* Block x of a key stream that has come to block c.
LEMMA PadIs ==
    ASSUME NEW key, NEW nonce, NEW c \in Int, NEW x \in Int
    PROVE  Pad(key, <<nonce, c>>, x, 1) =
               [key |-> key, nonce |-> nonce, count |-> c + x, pos |-> 0]
<1>1. x \div 1 = x /\ x % 1 = 0
  OBVIOUS
<1>2. QED
  BY <1>1 DEF Pad

LEMMA HeaderPadIs ==
    ASSUME job \in Files, NEW a \in 1..HdrLen
    PROVE  HeaderPad(a) = [key |-> Rand("key", 0), nonce |-> Rand("iv", 0),
                           count |-> a - M - 7, pos |-> 0]
<1>1. a - M - 7 \in Int /\ 0 + (a - M - 7) = a - M - 7
  BY SizeFacts
<1>2. QED
  BY <1>1, PadIs, 0 \in Int DEF HeaderPad

\* The key of the metadata and its iv.
LEMMA MetaFields ==
    ASSUME job \in Files, NEW g, ~InFour(damaged),
           \A a \in (M + 3)..(M + 6) : g.hdr[a] = Cell(Stored(a))
    PROVE  MetaKey(g, M) = Rand("key", 0) /\ MetaIv(g, M) = <<Rand("iv", 0), 0>>
<1>1. /\ M + 2 + 1 \in (M + 3)..(M + 6) /\ M + 4 + 1 \in (M + 3)..(M + 6)
      /\ (M + 2 + 1) - 1 = M + 2 /\ (M + 4 + 1) - 1 = M + 4
      /\ M + 2 + 1 \in 1..HdrLen /\ M + 4 + 1 \in 1..HdrLen
  BY SizeFacts
<1>2. Stored(M + 2 + 1) = Final((M + 2 + 1) - 1) /\ Stored(M + 4 + 1) = Final((M + 4 + 1) - 1)
  BY <1>1, StoredIsFinal DEF InFour
<1>3. Stored(M + 2 + 1) = Rand("key", 0) /\ Stored(M + 4 + 1) = Rand("iv", 0)
  BY <1>1, <1>2, FinalFields
<1>4. Seen(g.hdr[M + 2 + 1]) = Rand("key", 0) /\ Seen(g.hdr[M + 4 + 1]) = Rand("iv", 0)
  BY <1>1, <1>3, SeenCell
<1>5. QED
  BY <1>4 DEF MetaKey, MetaIv

LEMMA EncryptHeaderStep ==
    ASSUME job \in Files, damaged = NONE, NEW g, NEW d, g = [hdr |-> OpenHeader, data |-> d]
    PROVE  sce_encrypt_header(g, M, Signer) = [hdr |-> LockedHeader, data |-> d]
<1>1. /\ n \in Nat /\ M \in Nat /\ SigAt = M + 8 + 11 * n /\ HdrLen = M + 12 + 11 * n
      /\ HdrLen \in Nat
  BY SizeFacts
<1>2. g.hdr = OpenHeader
  OBVIOUS
<1>3. Row(g.hdr, HdrLen) /\ Len(g.hdr) = HdrLen
      /\ \A a \in 1..HdrLen : g.hdr[a] = Cell(Stored(a))
  <2>1. Row(g.hdr, HdrLen) /\ \A a \in 1..HdrLen : g.hdr[a] = Cell(Stored(a))
    BY <1>2 DEF OpenHeader, Row
  <2>2. QED
    BY <1>1, <2>1, RowLen
<1>4. ~InFour(damaged)
  BY <1>1 DEF InFour, NONE
<1>5. \A a \in 1..HdrLen : Stored(a) = Final(a - 1)
  BY <1>1, StoredIsFinal DEF NONE
<1>6. MetaKey(g, M) = Rand("key", 0) /\ MetaIv(g, M) = <<Rand("iv", 0), 0>>
  <2>1. (M + 3)..(M + 6) \subseteq 1..HdrLen
    BY <1>1
  <2>2. QED
    BY <1>3, <1>4, <2>1, MetaFields
<1>7. PICK ctr : ctr = aes128ctr(MetaKey(g, M), MetaIv(g, M), g.hdr, M + 6,
                                 Len(g.hdr) - M - 6, 1)
  OBVIOUS
<1>8. /\ RowOfCells(ctr, HdrLen)
      /\ \A a \in 1..HdrLen :
           /\ ctr[a].v = g.hdr[a].v
           /\ a >= M + 7 => ctr[a].pads = SymDiff(g.hdr[a].pads, {HeaderPad(a)})
           /\ ~(a >= M + 7) => ctr[a].pads = g.hdr[a].pads
  <2>1. PICK at : at = M + 6
    OBVIOUS
  <2>2. PICK len : len = Len(g.hdr) - M - 6
    OBVIOUS
  <2>3. at \in Int /\ len \in Int
    BY <1>1, <1>3, <2>1, <2>2
  <2>4. RowOfCells(g.hdr, HdrLen)
    <3>1. ASSUME NEW a \in 1..HdrLen PROVE IsCell(g.hdr[a])
      <4>1. g.hdr[a] = Cell(Stored(a))
        BY <1>3
      <4>2. IsCell(Cell(Stored(a)))
        BY CellIs
      <4>3. QED
        BY <4>1, <4>2
    <3>2. QED
      BY <1>3, <3>1 DEF RowOfCells
  <2>5. PICK iv : iv = <<Rand("iv", 0), 0>>
    OBVIOUS
  <2>6. ctr = aes128ctr(Rand("key", 0), iv, g.hdr, at, len, 1)
    BY <1>6, <1>7, <2>1, <2>2, <2>5
  <2>7. Xored(ctr, g.hdr, HdrLen, Rand("key", 0), iv, at, len, 1)
    BY <1>1, <2>3, <2>4, <2>6, CtrIs
  <2>8. ASSUME NEW a \in 1..HdrLen
        PROVE  /\ at < a /\ a <= at + len <=> a >= M + 7
               /\ Pad(Rand("key", 0), iv, a - 1 - at, 1) = HeaderPad(a)
    <3>1. (at < a /\ a <= at + len <=> a >= M + 7) /\ a - 1 - at = a - M - 7
      BY <1>1, <1>3, <2>1, <2>2
    <3>2. QED
      BY <2>5, <3>1 DEF HeaderPad
  <2>9. QED
    BY <2>7, <2>8 DEF Xored
<1>9. ASSUME NEW a \in 1..HdrLen
      PROVE  ctr[a] = [v |-> Stored(a), pads |-> IF a >= M + 7 THEN {HeaderPad(a)} ELSE {}]
  <2>1. g.hdr[a].v = Stored(a) /\ g.hdr[a].pads = {}
    BY <1>3, CellIs
  <2>2. SymDiff({}, {HeaderPad(a)}) = {HeaderPad(a)}
    BY DEF SymDiff
  <2>3. ctr[a] = [v |-> ctr[a].v, pads |-> ctr[a].pads]
    BY <1>8 DEF RowOfCells, IsCell
  <2>4. QED
    BY <1>8, <2>1, <2>2, <2>3
<1>10. Blocks(ctr, M + 2, 4) = Four
  <2>1. Row(Blocks(ctr, M + 2, 4), 4)
        /\ \A j \in 1..4 : Blocks(ctr, M + 2, 4)[j] = ctr[M + 2 + j]
    <3>1. M + 2 \in Nat /\ M + 2 + 4 <= HdrLen
      BY <1>1
    <3>2. QED
      BY <1>1, <1>8, <3>1, BlocksOf DEF RowOfCells
  <2>2. ASSUME NEW j \in 1..4 PROVE ctr[M + 2 + j] = Cell(Final(M + 1 + j))
    <3>1. M + 2 + j \in 1..HdrLen /\ ~(M + 2 + j >= M + 7) /\ (M + 2 + j) - 1 = M + 1 + j
      BY <1>1
    <3>2. ctr[M + 2 + j] = [v |-> Stored(M + 2 + j), pads |-> {}]
      BY <1>9, <3>1
    <3>3. QED
      BY <1>5, <3>1, <3>2 DEF Cell
  <2>3. QED
    BY <2>1, <2>2 DEF Four, Row
<1>11. PICK sealed : sealed = aes256cbc_enc(Signer.aes, Signer.iv, Four)
  OBVIOUS
<1>12. Row(sealed, 4)
       /\ \A j \in 1..4 : sealed[j] = Cell(<<"cbc", Signer.aes, Signer.iv, Four, j>>)
  BY <1>11 DEF aes256cbc_enc, Row
<1>13. PICK o : o = Overwrite(ctr, M + 2, sealed)
  OBVIOUS
<1>14. /\ Row(o, HdrLen)
       /\ \A a \in 1..HdrLen : /\ InFour(a) => o[a] = sealed[KeyBlock(a)]
                               /\ ~InFour(a) => o[a] = ctr[a]
  <2>1. Row(ctr, HdrLen)
    BY <1>8 DEF RowOfCells
  <2>2. QED
    BY <1>12, <1>13, <2>1, OverwriteFour
<1>15. ASSUME NEW a \in 1..HdrLen
       PROVE  o[a] = LockedCell(a)
  <2>1. ASSUME InFour(a) PROVE o[a] = Cell(Sealed(a))
    <3>1. a - M - 2 \in 1..4
      BY <1>1, <2>1 DEF InFour
    <3>2. QED
      BY <1>12, <1>14, <2>1, <3>1 DEF Sealed, KeyBlock
  <2>2. damaged # a
    BY <1>1 DEF NONE
  <2>3. QED
    BY <1>9, <1>14, <2>1, <2>2 DEF LockedCell
<1>16. o = LockedHeader
  BY <1>14, <1>15 DEF LockedHeader, Row
<1>17. sce_encrypt_header(g, M, Signer) =
       [g EXCEPT !.hdr = Overwrite(ctr, M + 2, aes256cbc_enc(Signer.aes, Signer.iv,
                                                           Blocks(ctr, M + 2, 4)))]
  BY <1>7 DEF sce_encrypt_header
<1>18. QED
  BY <1>10, <1>11, <1>13, <1>16, <1>17

\* The four blocks of the key in the written file.
LEMMA LockedBlocks ==
    ASSUME job \in Files, NEW g, g.hdr = LockedHeader
    PROVE  /\ Row(g.hdr, HdrLen)
           /\ Row(Blocks(g.hdr, M + 2, 4), 4)
           /\ \A j \in 1..4 : Blocks(g.hdr, M + 2, 4)[j] =
                                  Cell(IF damaged = M + 2 + j
                                       THEN <<Mark, <<"cbc", Signer.aes, Signer.iv, Four, j>>>>
                                       ELSE <<"cbc", Signer.aes, Signer.iv, Four, j>>)
<1>1. M \in Nat /\ HdrLen \in Nat /\ M + 2 \in Nat /\ M + 2 + 4 <= HdrLen
  BY SizeFacts
<1>2. Row(g.hdr, HdrLen) /\ \A a \in 1..HdrLen : g.hdr[a] = LockedCell(a)
  BY DEF LockedHeader, Row
<1>3. Row(Blocks(g.hdr, M + 2, 4), 4)
      /\ \A j \in 1..4 : Blocks(g.hdr, M + 2, 4)[j] = g.hdr[M + 2 + j]
  BY <1>1, <1>2, BlocksOf
<1>4. ASSUME NEW j \in 1..4
      PROVE  g.hdr[M + 2 + j] = Cell(IF damaged = M + 2 + j
                                     THEN <<Mark, <<"cbc", Signer.aes, Signer.iv, Four, j>>>>
                                     ELSE <<"cbc", Signer.aes, Signer.iv, Four, j>>)
  <2> DEFINE a == M + 2 + j
  <2>1. a \in 1..HdrLen /\ InFour(a) /\ a - M - 2 = j
    BY <1>1 DEF InFour
  <2> HIDE DEF a
  <2>2. Sealed(a) = <<"cbc", Signer.aes, Signer.iv, Four, j>>
    BY <2>1 DEF Sealed
  <2>3. g.hdr[a] = Cell(IF damaged = a THEN <<Mark, Sealed(a)>> ELSE Sealed(a))
    BY <1>2, <2>1 DEF LockedCell
  <2>4. QED
    BY <2>2, <2>3 DEF a
<1>5. QED
  BY <1>2, <1>3, <1>4

LEMMA FourIs ==
    ASSUME job \in Files
    PROVE  /\ Row(Four, 4) /\ \A j \in 1..4 : Four[j] = Cell(Final(M + 1 + j))
           /\ Seen(Four[2]) = ZERO /\ Seen(Four[4]) = ZERO
<1>1. Row(Four, 4) /\ \A j \in 1..4 : Four[j] = Cell(Final(M + 1 + j))
  BY DEF Four, Row
<1>2. M + 1 + 2 = M + 3 /\ M + 1 + 4 = M + 5
  BY SizeFacts
<1>3. Final(M + 3) = ZERO /\ Final(M + 5) = ZERO
  BY FinalFields
<1>4. Four[2] = Cell(ZERO) /\ Four[4] = Cell(ZERO)
  BY <1>1, <1>2, <1>3, 2 \in 1..4, 4 \in 1..4
<1>5. QED
  BY <1>1, <1>4, SeenCell

\* What the four blocks open to: the key, unless it is another key that opens
\* them or one of them is damaged.  Another iv spoils the first of them.
FourOther == [Four EXCEPT ![1] = Cell(GARBAGE)]

LEMMA CbcOpens ==
    ASSUME job \in Files, NEW g, g.hdr = LockedHeader, NEW key, NEW iv
    PROVE  /\ key = Signer.aes /\ ~InFour(damaged) =>
                  aes256cbc(key, iv, Blocks(g.hdr, M + 2, 4)) =
                      IF iv = Signer.iv THEN Four ELSE FourOther
           /\ ~(key = Signer.aes /\ ~InFour(damaged)) =>
                  aes256cbc(key, iv, Blocks(g.hdr, M + 2, 4)) = [j \in 1..4 |-> Cell(GARBAGE)]
<1>1. PICK b : b = Blocks(g.hdr, M + 2, 4)
  OBVIOUS
<1>2. /\ Row(b, 4)
      /\ \A j \in 1..4 : b[j] = Cell(IF damaged = M + 2 + j
                                     THEN <<Mark, <<"cbc", Signer.aes, Signer.iv, Four, j>>>>
                                     ELSE <<"cbc", Signer.aes, Signer.iv, Four, j>>)
  BY <1>1, LockedBlocks
<1>3. M \in Nat
  BY SizeFacts
<1>4. CASE InFour(damaged)
  <2>1. PICK j \in 1..4 : damaged = M + 2 + j
    <3>1. damaged - (M + 2) \in 1..4 /\ damaged = M + 2 + (damaged - (M + 2))
      BY <1>3, <1>4 DEF InFour
    <3>2. QED
      BY <3>1
  <2>2. b[j].v = <<Mark, <<"cbc", Signer.aes, Signer.iv, Four, j>>>>
    BY <1>2, <2>1, CellIs
  <2>3. b[j].v[1] # "cbc"
    BY <2>2 DEF Mark
  <2>4. QED
    BY <1>1, <1>4, <2>3 DEF aes256cbc
<1>5. CASE ~InFour(damaged)
  <2>1. ASSUME NEW j \in 1..4 PROVE b[j] = Cell(<<"cbc", Signer.aes, Signer.iv, Four, j>>)
    <3>1. damaged # M + 2 + j
      BY <1>3, <1>5 DEF InFour
    <3>2. QED
      BY <1>2, <3>1
  <2>2. b = aes256cbc_enc(Signer.aes, Signer.iv, Four)
    BY <1>2, <2>1 DEF aes256cbc_enc, Row
  <2>3. \A j \in 1..4 : b[j].v = <<"cbc", Signer.aes, Signer.iv, Four, j>>
    BY <2>1, CellIs
  <2>4. b[1].v[4] = Four /\ b[1].v[3] = Signer.iv /\ b[1].v[2] = Signer.aes
    <3>1. b[1].v = <<"cbc", Signer.aes, Signer.iv, Four, 1>>
      BY <2>3, 1 \in 1..4
    <3>2. QED
      BY <3>1
  <2>5. \A j \in 1..4 : b[j].v[1] = "cbc"
    BY <2>3
  <2>6. CASE key = Signer.aes
    BY <1>1, <1>5, <2>2, <2>4, <2>5, <2>6 DEF aes256cbc, FourOther
  <2>7. CASE key # Signer.aes
    <3>1. aes256cbc_enc(key, Signer.iv, Four)[1] = Cell(<<"cbc", key, Signer.iv, Four, 1>>)
      BY DEF aes256cbc_enc
    <3>2. aes256cbc_enc(key, Signer.iv, Four)[1].v = <<"cbc", key, Signer.iv, Four, 1>>
      BY <3>1, CellIs
    <3>3. aes256cbc_enc(key, Signer.iv, Four)[1].v[2] = key
      BY <3>2
    <3>4. b # aes256cbc_enc(key, Signer.iv, Four)
      BY <2>4, <2>7, <3>3
    <3>5. QED
      BY <1>1, <2>4, <2>7, <3>4 DEF aes256cbc
  <2>8. QED
    BY <2>6, <2>7
<1>6. QED
  BY <1>4, <1>5

\* The two blocks of zeros are the second and the fourth: any iv shows them.
LEMMA OpensIff ==
    ASSUME job \in Files, NEW g, g.hdr = LockedHeader, NEW k
    PROVE  Opens(g, M, k) <=> k.aes = Signer.aes /\ ~InFour(damaged)
<1>1. CASE k.aes = Signer.aes /\ ~InFour(damaged)
  <2>1. FourOther[2] = Four[2] /\ FourOther[4] = Four[4]
    BY DEF FourOther, Four
  <2>2. QED
    BY <1>1, <2>1, CbcOpens, FourIs DEF Opens
<1>2. CASE ~(k.aes = Signer.aes /\ ~InFour(damaged))
  <2>1. PICK tmp : tmp = [j \in 1..4 |-> Cell(GARBAGE)]
    OBVIOUS
  <2>2. Seen(tmp[2]) = GARBAGE
    <3>1. tmp[2] = Cell(GARBAGE)
      BY <2>1
    <3>2. QED
      BY <3>1, SeenCell
  <2>3. GARBAGE # ZERO
    BY DEF GARBAGE, ZERO
  <2>4. aes256cbc(k.aes, k.iv, Blocks(g.hdr, M + 2, 4)) = tmp
    BY <1>2, <2>1, CbcOpens
  <2>5. QED
    BY <1>2, <2>2, <2>3, <2>4 DEF Opens
<1>3. QED
  BY <1>1, <1>2

\* The first key that opens the header is one that does.
LEMMA FirstOpeningOpens ==
    ASSUME NEW g, NEW ks, Len(ks) \in Nat, Opening(g, M, ks) # {}
    PROVE  /\ FirstOpening(g, M, ks) \in 1..Len(ks)
           /\ Opens(g, M, ks[FirstOpening(g, M, ks)])
<1>1. PICK S : S = Opening(g, M, ks)
  OBVIOUS
<1>2. S \subseteq Nat /\ S # {}
  BY <1>1 DEF Opening
<1>3. \E x \in S : \A y \in S : x <= y
  BY <1>2, Least
<1>4. FirstOpening(g, M, ks) \in S
  BY <1>1, <1>3 DEF FirstOpening
<1>5. QED
  BY <1>1, <1>4 DEF Opening

LEMMA DecryptHeaderStep ==
    ASSUME job \in Files, ~InFour(damaged), NEW g, NEW d, g = [hdr |-> LockedHeader, data |-> d],
           NEW k, k.aes = Signer.aes, k.iv = Signer.iv
    PROVE  sce_decrypt_header(g, M, k) = [hdr |-> OpenHeader, data |-> d]
<1>1. /\ n \in Nat /\ M \in Nat /\ SigAt = M + 8 + 11 * n /\ HdrLen = M + 12 + 11 * n
      /\ HdrLen \in Nat
  BY SizeFacts
<1>2. g.hdr = LockedHeader
  OBVIOUS
<1>3. PICK o : o = Overwrite(g.hdr, M + 2, Four)
  OBVIOUS
<1>4. PICK e : e = [hdr |-> o, data |-> d]
  OBVIOUS
<1>5. HeaderOpened(g, M, k) = e
  <2>1. aes256cbc(k.aes, k.iv, Blocks(g.hdr, M + 2, 4)) = Four
    BY <1>2, CbcOpens
  <2>2. QED
    BY <1>3, <1>4, <2>1 DEF HeaderOpened
<1>6. /\ Row(o, HdrLen)
      /\ \A a \in 1..HdrLen : /\ InFour(a) => o[a] = Four[KeyBlock(a)]
                              /\ ~InFour(a) => o[a] = g.hdr[a]
  <2>1. Row(g.hdr, HdrLen) /\ Row(Four, 4)
    BY <1>2, LockedBlocks, FourIs
  <2>2. QED
    BY <1>3, <2>1, OverwriteFour
<1>7. ASSUME NEW a \in 1..HdrLen
      PROVE  o[a] = [v |-> Stored(a), pads |-> IF a >= M + 7 THEN {HeaderPad(a)} ELSE {}]
  <2>1. CASE InFour(a)
    <3>1. KeyBlock(a) \in 1..4 /\ M + 1 + KeyBlock(a) = a - 1 /\ ~(a >= M + 7) /\ damaged # a
      BY <1>1, <2>1 DEF InFour, KeyBlock
    <3>2. Four[KeyBlock(a)] = Cell(Final(a - 1))
      BY <3>1, FourIs
    <3>3. Stored(a) = Final(a - 1)
      BY <3>1, StoredIsFinal
    <3>4. QED
      BY <1>6, <2>1, <3>1, <3>2, <3>3 DEF Cell
  <2>2. CASE ~InFour(a)
    <3>1. g.hdr[a] = LockedCell(a)
      BY <1>2 DEF LockedHeader
    <3>2. QED
      BY <1>6, <2>2, <3>1 DEF LockedCell
  <2>3. QED
    BY <2>1, <2>2
<1>8. ASSUME NEW a \in 1..HdrLen
      PROVE  /\ IsCell(o[a]) /\ o[a].v = Stored(a)
             /\ a >= M + 7 => o[a].pads = {HeaderPad(a)}
             /\ ~(a >= M + 7) => o[a].pads = {}
  <2>1. PICK P : P = IF a >= M + 7 THEN {HeaderPad(a)} ELSE {}
    OBVIOUS
  <2>2. o[a] = [v |-> Stored(a), pads |-> P]
    BY <1>7, <2>1
  <2>3. QED
    BY <2>1, <2>2, CellIs
<1>9. RowOfCells(o, HdrLen) /\ Len(o) = HdrLen
  BY <1>1, <1>6, <1>8, RowLen DEF RowOfCells
<1>10. MetaKey(e, M) = Rand("key", 0) /\ MetaIv(e, M) = <<Rand("iv", 0), 0>>
  <2>1. e.hdr = o
    BY <1>4
  <2>2. ASSUME NEW a \in (M + 3)..(M + 6) PROVE o[a] = Cell(Stored(a))
    <3>1. a \in 1..HdrLen /\ ~(a >= M + 7)
      BY <1>1
    <3>2. QED
      BY <1>7, <3>1 DEF Cell
  <2>3. QED
    BY <2>1, <2>2, MetaFields
<1>11. PICK iv : iv = <<Rand("iv", 0), 0>>
  OBVIOUS
<1>12. PICK iv2 : iv2 = <<Rand("iv", 0), 2>>
  OBVIOUS
<1>13. advanced(iv, 2, 1) = iv2
  <2>1. CeilDiv(2, 1) = 2 /\ 0 + 2 = 2
    BY DEF CeilDiv
  <2>2. iv[1] = Rand("iv", 0) /\ iv[2] = 0
    BY <1>11
  <2>3. QED
    BY <1>12, <2>1, <2>2 DEF advanced
<1>14. PICK first : first = aes128ctr(Rand("key", 0), iv, o, M + 6, 2, 1)
  OBVIOUS
<1>15. PICK rest : rest = aes128ctr(Rand("key", 0), iv2, first, M + 8, HdrLen - M - 8, 1)
  OBVIOUS
<1>16. /\ RowOfCells(first, HdrLen)
       /\ \A a \in 1..HdrLen :
            /\ first[a].v = o[a].v
            /\ a \in {M + 7, M + 8} => first[a].pads = SymDiff(o[a].pads, {HeaderPad(a)})
            /\ a \notin {M + 7, M + 8} => first[a].pads = o[a].pads
  <2>1. PICK at : at = M + 6
    OBVIOUS
  <2> DEFINE len == 2
  <2>2. at \in Int /\ len \in Int
    BY <1>1, <2>1
  <2>3. first = aes128ctr(Rand("key", 0), iv, o, at, len, 1)
    BY <1>14, <2>1
  <2> HIDE DEF len
  <2>4. Xored(first, o, HdrLen, Rand("key", 0), iv, at, len, 1)
    <3>1. HdrLen \in Nat /\ RowOfCells(o, HdrLen)
      BY <1>1, <1>9
    <3>2. QED
      BY <2>2, <2>3, <3>1, CtrIs
  <2>5. ASSUME NEW a \in 1..HdrLen
        PROVE  /\ at < a /\ a <= at + len <=> a \in {M + 7, M + 8}
               /\ Pad(Rand("key", 0), iv, a - 1 - at, 1) = HeaderPad(a)
    <3>1. (at < a /\ a <= at + len <=> a \in {M + 7, M + 8}) /\ a - 1 - at = a - M - 7
      BY <1>1, <2>1 DEF len
    <3>2. QED
      BY <1>11, <3>1 DEF HeaderPad
  <2>6. QED
    BY <2>4, <2>5 DEF Xored
<1>17. /\ RowOfCells(rest, HdrLen)
       /\ \A a \in 1..HdrLen :
            /\ rest[a].v = first[a].v
            /\ a >= M + 9 => rest[a].pads = SymDiff(first[a].pads, {HeaderPad(a)})
            /\ ~(a >= M + 9) => rest[a].pads = first[a].pads
  <2>1. PICK at : at = M + 8
    OBVIOUS
  <2>2. PICK len : len = HdrLen - M - 8
    OBVIOUS
  <2>3. at \in Int /\ len \in Int
    BY <1>1, <2>1, <2>2
  <2>4. rest = aes128ctr(Rand("key", 0), iv2, first, at, len, 1)
    BY <1>15, <2>1, <2>2
  <2>5. Xored(rest, first, HdrLen, Rand("key", 0), iv2, at, len, 1)
    BY <1>1, <1>16, <2>3, <2>4, CtrIs
  <2>6. ASSUME NEW a \in 1..HdrLen
        PROVE  /\ at < a /\ a <= at + len <=> a >= M + 9
               /\ Pad(Rand("key", 0), iv2, a - 1 - at, 1) = HeaderPad(a)
    <3>1. /\ at < a /\ a <= at + len <=> a >= M + 9
          /\ a - 1 - at \in Int /\ 2 + (a - 1 - at) = a - M - 7
      BY <1>1, <2>1, <2>2
    <3>2. Pad(Rand("key", 0), iv2, a - 1 - at, 1) =
          [key |-> Rand("key", 0), nonce |-> Rand("iv", 0), count |-> a - M - 7, pos |-> 0]
      BY <1>12, <3>1, PadIs, 2 \in Int
    <3>3. QED
      BY <3>1, <3>2, HeaderPadIs
  <2>7. QED
    BY <2>5, <2>6 DEF Xored
<1>18. ASSUME NEW a \in 1..HdrLen
       PROVE  rest[a] = Cell(Stored(a))
  <2>1. /\ a \in {M + 7, M + 8} => a >= M + 7 /\ ~(a >= M + 9)
        /\ a >= M + 9 => a >= M + 7 /\ a \notin {M + 7, M + 8}
        /\ a \notin {M + 7, M + 8} /\ ~(a >= M + 9) => ~(a >= M + 7)
    BY <1>1
  <2>2. SymDiff({HeaderPad(a)}, {HeaderPad(a)}) = {}
    BY DEF SymDiff
  <2>3. rest[a].pads = {}
    <3>1. CASE a \in {M + 7, M + 8}
      BY <1>8, <1>16, <1>17, <2>1, <2>2, <3>1
    <3>2. CASE a >= M + 9
      BY <1>8, <1>16, <1>17, <2>1, <2>2, <3>2
    <3>3. CASE a \notin {M + 7, M + 8} /\ ~(a >= M + 9)
      BY <1>8, <1>16, <1>17, <2>1, <3>3
    <3>4. QED
      BY <3>1, <3>2, <3>3
  <2>4. rest[a].v = Stored(a)
    BY <1>8, <1>16, <1>17
  <2>5. IsCell(rest[a])
    BY <1>17 DEF RowOfCells
  <2>6. QED
    BY <2>3, <2>4, <2>5 DEF IsCell, Cell
<1>19. rest = OpenHeader
  BY <1>17, <1>18 DEF OpenHeader, RowOfCells, Row
<1>20. sce_decrypt_header(g, M, k) = [e EXCEPT !.hdr = rest]
  <2>1. e.hdr = o
    BY <1>4
  <2>2. QED
    BY <1>5, <1>9, <1>10, <1>11, <1>13, <1>14, <1>15, <2>1 DEF sce_decrypt_header
<1>21. QED
  BY <1>4, <1>19, <1>20

\* With the wrong iv the key of the metadata is wrong, and what it encrypts is
\* not seen: the key stream of the producer stays on it.
LEMMA WrongKeyHeader ==
    ASSUME job \in Files, ~InFour(damaged), NEW g, NEW d, g = [hdr |-> LockedHeader, data |-> d],
           NEW k, k.aes = Signer.aes, k.iv # Signer.iv, NEW r, r = sce_decrypt_header(g, M, k)
    PROVE  /\ r = [hdr |-> r.hdr, data |-> d]
           /\ SeenOrLost(r.hdr) /\ AllLost(r.hdr)
<1>1. /\ n \in Nat /\ M \in Nat /\ HdrLen = M + 12 + 11 * n /\ HdrLen \in Nat
  BY SizeFacts
<1>2. g.hdr = LockedHeader
  OBVIOUS
<1>3. PICK o : o = Overwrite(g.hdr, M + 2, FourOther)
  OBVIOUS
<1>4. PICK e : e = [hdr |-> o, data |-> d]
  OBVIOUS
<1>5. HeaderOpened(g, M, k) = e /\ e.hdr = o
  <2>1. aes256cbc(k.aes, k.iv, Blocks(g.hdr, M + 2, 4)) = FourOther
    BY <1>2, CbcOpens
  <2>2. QED
    BY <1>3, <1>4, <2>1 DEF HeaderOpened
<1>6. Row(FourOther, 4) /\ FourOther[1] = Cell(GARBAGE)
      /\ \A j \in 2..4 : FourOther[j] = Cell(Final(M + 1 + j))
  BY DEF FourOther, Four, Row
<1>7. /\ Row(o, HdrLen)
      /\ \A a \in 1..HdrLen : /\ InFour(a) => o[a] = FourOther[KeyBlock(a)]
                              /\ ~InFour(a) => o[a] = g.hdr[a]
  <2>1. Row(g.hdr, HdrLen)
    BY <1>2, LockedBlocks
  <2>2. QED
    BY <1>3, <1>6, <2>1, OverwriteFour
<1>8. ASSUME NEW a \in 1..HdrLen
      PROVE  \E v \in {Stored(a), GARBAGE} :
                 o[a] = [v |-> v, pads |-> IF a >= M + 7 THEN {HeaderPad(a)} ELSE {}]
  <2>1. CASE InFour(a)
    <3>1. KeyBlock(a) \in 1..4 /\ M + 1 + KeyBlock(a) = a - 1 /\ ~(a >= M + 7) /\ damaged # a
      BY <1>1, <2>1 DEF InFour, KeyBlock
    <3>2. Stored(a) = Final(a - 1)
      BY <3>1, StoredIsFinal
    <3>3. CASE KeyBlock(a) = 1
      BY <1>6, <1>7, <2>1, <3>1, <3>3 DEF Cell
    <3>4. CASE KeyBlock(a) # 1
      <4>1. KeyBlock(a) \in 2..4
        BY <3>1, <3>4
      <4>2. FourOther[KeyBlock(a)] = Cell(Final(a - 1))
        BY <1>6, <3>1, <4>1
      <4>3. QED
        BY <1>7, <2>1, <3>1, <3>2, <4>2 DEF Cell
    <3>5. QED
      BY <3>3, <3>4
  <2>2. CASE ~InFour(a)
    <3>1. g.hdr[a] = LockedCell(a)
      BY <1>2 DEF LockedHeader
    <3>2. QED
      BY <1>7, <2>2, <3>1 DEF LockedCell
  <2>3. QED
    BY <2>1, <2>2
<1>9. ASSUME NEW a \in 1..HdrLen
      PROVE  /\ IsCell(o[a]) /\ o[a].v \in {Stored(a), GARBAGE}
             /\ a >= M + 7 => o[a].pads = {HeaderPad(a)}
             /\ ~(a >= M + 7) => o[a].pads = {}
  <2>1. PICK P : P = IF a >= M + 7 THEN {HeaderPad(a)} ELSE {}
    OBVIOUS
  <2>2. PICK v \in {Stored(a), GARBAGE} : o[a] = [v |-> v, pads |-> P]
    BY <1>8, <2>1
  <2>3. IsCell(o[a]) /\ o[a].v = v /\ o[a].pads = P
    BY <2>2, CellIs
  <2>4. QED
    BY <2>1, <2>3
<1>10. RowOfCells(o, HdrLen) /\ Len(o) = HdrLen
  BY <1>1, <1>7, <1>9, RowLen DEF RowOfCells
<1>11. MetaKey(e, M) = GARBAGE
  <2>1. M + 2 + 1 \in 1..HdrLen /\ InFour(M + 2 + 1) /\ KeyBlock(M + 2 + 1) = 1
    BY <1>1 DEF InFour, KeyBlock
  <2>2. o[M + 2 + 1] = Cell(GARBAGE)
    BY <1>6, <1>7, <2>1
  <2>3. QED
    BY <1>5, <2>2, SeenCell DEF MetaKey
<1>12. PICK iv, iv2 : iv = MetaIv(e, M) /\ iv2 = advanced(iv, 2, 1)
  OBVIOUS
<1>13. PICK at, at2, len2 : at = M + 6 /\ at2 = M + 8 /\ len2 = HdrLen - M - 8
  OBVIOUS
<1>14. at \in Int /\ at2 \in Int /\ len2 \in Int
  BY <1>1, <1>13
<1>15. PICK first : first = aes128ctr(GARBAGE, iv, o, at, 2, 1)
  OBVIOUS
<1>16. PICK rest : rest = aes128ctr(GARBAGE, iv2, first, at2, len2, 1)
  OBVIOUS
<1>17. Xored(first, o, HdrLen, GARBAGE, iv, at, 2, 1)
  BY <1>1, <1>10, <1>14, <1>15, CtrIs, 2 \in Int
<1>18. Xored(rest, first, HdrLen, GARBAGE, iv2, at2, len2, 1)
  <2>1. RowOfCells(first, HdrLen)
    BY <1>17 DEF Xored
  <2>2. QED
    BY <1>1, <1>14, <1>16, <2>1, CtrIs
<1>19. ASSUME NEW a \in 1..HdrLen, a >= M + 7, NEW v, NEW x
       PROVE  SymDiff({HeaderPad(a)}, {Pad(GARBAGE, v, x, 1)}) # {}
  <2>1. HeaderPad(a).key = Rand("key", 0) /\ Pad(GARBAGE, v, x, 1).key = GARBAGE
    BY DEF HeaderPad, Pad
  <2>2. Rand("key", 0) # GARBAGE
    BY DEF Rand, GARBAGE
  <2>3. QED
    BY <2>1, <2>2 DEF SymDiff
<1>20. ASSUME NEW a \in 1..HdrLen
       PROVE  /\ IsCell(rest[a]) /\ rest[a].v = o[a].v
              /\ a >= M + 7 => rest[a].pads # {}
              /\ ~(a >= M + 7) => rest[a].pads = {}
  <2>1. IsCell(rest[a]) /\ rest[a].v = first[a].v /\ first[a].v = o[a].v
    BY <1>17, <1>18 DEF Xored, RowOfCells
  <2>2. CASE ~(a >= M + 7)
    <3>1. ~(at < a) /\ ~(at2 < a)
      BY <1>1, <1>13, <2>2
    <3>2. QED
      BY <1>9, <1>17, <1>18, <2>1, <2>2, <3>1 DEF Xored
  <2>3. CASE a \in {M + 7, M + 8}
    <3>1. a >= M + 7 /\ at < a /\ a <= at + 2 /\ ~(at2 < a)
      BY <1>1, <1>13, <2>3
    <3>2. first[a].pads = SymDiff({HeaderPad(a)}, {Pad(GARBAGE, iv, a - 1 - at, 1)})
      BY <1>9, <1>17, <3>1 DEF Xored
    <3>3. rest[a].pads = first[a].pads
      BY <1>18, <3>1 DEF Xored
    <3>4. QED
      BY <1>19, <2>1, <3>1, <3>2, <3>3
  <2>4. CASE a >= M + 9
    <3>1. a >= M + 7 /\ ~(a <= at + 2) /\ at2 < a /\ a <= at2 + len2
      BY <1>1, <1>13, <2>4
    <3>2. first[a].pads = {HeaderPad(a)}
      BY <1>9, <1>17, <3>1 DEF Xored
    <3>3. rest[a].pads = SymDiff(first[a].pads, {Pad(GARBAGE, iv2, a - 1 - at2, 1)})
      BY <1>18, <3>1 DEF Xored
    <3>4. QED
      BY <1>19, <2>1, <3>1, <3>2, <3>3
  <2>5. QED
    BY <1>1, <2>2, <2>3, <2>4
<1>21. RowOfCells(rest, HdrLen)
  BY <1>18 DEF Xored
<1>22. ASSUME NEW a \in 1..HdrLen
       PROVE  /\ Seen(rest[a]) \in {Stored(a), GARBAGE}
              /\ a >= M + 7 => Seen(rest[a]) = GARBAGE
  BY <1>9, <1>20 DEF Seen
<1>23. sce_decrypt_header(g, M, k) = [e EXCEPT !.hdr = rest]
  BY <1>5, <1>10, <1>11, <1>12, <1>13, <1>15, <1>16 DEF sce_decrypt_header
<1>24. r = [hdr |-> rest, data |-> d]
  BY <1>4, <1>23
<1>25. r.hdr = rest /\ r = [hdr |-> r.hdr, data |-> d]
  BY <1>24
<1>26. SeenOrLost(rest)
  BY <1>21, <1>22 DEF SeenOrLost
<1>27. AllLost(rest)
  <2>1. \A a \in (M + 7)..HdrLen : a \in 1..HdrLen /\ a >= M + 7
    BY <1>1
  <2>2. QED
    BY <1>22, <2>1 DEF AllLost
<1>28. QED
  BY <1>25, <1>26, <1>27

\* In the open header everything is seen.
LEMMA OpenIsSeen ==
    ASSUME job \in Files
    PROVE  SeenOrLost(OpenHeader)
<1>1. ASSUME NEW a \in 1..HdrLen
      PROVE  OpenHeader[a] = Cell(Stored(a)) /\ IsCell(OpenHeader[a])
             /\ Seen(OpenHeader[a]) = Stored(a)
  <2>1. OpenHeader[a] = Cell(Stored(a))
    BY DEF OpenHeader
  <2>2. QED
    BY <2>1, CellIs, SeenCell
<1>2. Row(OpenHeader, HdrLen)
  BY DEF OpenHeader, Row
<1>3. QED
  BY <1>1, <1>2 DEF SeenOrLost, RowOfCells

-----------------------------------------------------------------------------
(* The encryption of the data *)

\* The byte of key stream that a reader takes for byte a of section x.
StreamPad(x, a) ==
    Pad(Stored(SlotsStart + 8 * x + 6 + 1), <<Stored(SlotsStart + 8 * x + 7 + 1), 0>>,
        a - 1 - Sec(x).off, BLOCK)

\* d with the key stream of section x on it, or without.
Crypted(c, d, x) ==
    \A a \in 1..job.length :
        /\ Sec(x).enc /\ Covers(x, a) => c[a].pads = SymDiff(d[a].pads, {StreamPad(x, a)})
        /\ ~(Sec(x).enc /\ Covers(x, a)) => c[a].pads = d[a].pads

LEMMA CryptStep ==
    ASSUME job \in Files, DamageOK, NEW g, NEW d, g = [hdr |-> OpenHeader, data |-> d],
           DataCells(d), NEW x \in 0..(n - 1)
    PROVE  \E c : /\ CryptSection(g, M, x) = [hdr |-> OpenHeader, data |-> c]
                  /\ DataCells(c) /\ Crypted(c, d, x)
<1>1. /\ n \in Nat /\ HdrLen \in Nat /\ job.length \in Nat /\ Sec(x).enc \in BOOLEAN
      /\ Sec(x).off \in Nat /\ Sec(x).size \in Nat /\ Sec(x).off + Sec(x).size <= job.length
  BY SizeFacts, SectionFacts
<1>2. g.hdr = OpenHeader /\ g.data = d
  OBVIOUS
<1>3. /\ Len(g.hdr) = HdrLen
      /\ Place(g, M, x) = <<"place", BLOCK * HdrLen + Sec(x).off, Sec(x).size>>
      /\ KeyIds(g, M, x) = IF Sec(x).enc THEN <<"keys", 8 * x + 6, 8 * x + 7>>
                           ELSE <<"keys", NONE, NONE>>
      /\ \A r \in 0..7 : Slot(g, M, 8 * x + r) = Stored(SlotsStart + 8 * x + r + 1)
  BY <1>2, OpenFields
<1>4. CASE ~Sec(x).enc
  <2>1. KeyIds(g, M, x) = <<"keys", NONE, NONE>>
    BY <1>3, <1>4
  <2>2. KeyIds(g, M, x)[2] = NONE
    BY <2>1
  <2>3. CryptSection(g, M, x) = g
    BY <2>2 DEF CryptSection
  <2>4. Crypted(d, d, x)
    BY <1>4 DEF Crypted
  <2>5. QED
    BY <2>3, <2>4
<1>5. CASE Sec(x).enc
  <2>1. KeyIds(g, M, x) = <<"keys", 8 * x + 6, 8 * x + 7>>
    BY <1>3, <1>5
  <2>2. KeyIds(g, M, x)[2] = 8 * x + 6 /\ KeyIds(g, M, x)[3] = 8 * x + 7
    BY <2>1
  <2>3. KeyIds(g, M, x)[2] # NONE /\ KeyIds(g, M, x)[3] # NONE
    BY <1>1, <2>2 DEF NONE
  <2>4. PICK s : s = BLOCK * HdrLen
    OBVIOUS
  <2>5. s \in Int
    BY <1>1, <2>4, BlockAssumption
  <2>6. Place(g, M, x)[2] = s + Sec(x).off /\ Place(g, M, x)[3] = Sec(x).size
    BY <1>3, <2>4
  <2>7. Place(g, M, x)[2] - BLOCK * Len(g.hdr) = Sec(x).off
    <3>1. (s + Sec(x).off) - s = Sec(x).off
      BY <1>1, <2>5
    <3>2. BLOCK * Len(g.hdr) = s
      BY <1>3, <2>4
    <3>3. Place(g, M, x)[2] - BLOCK * Len(g.hdr) = (s + Sec(x).off) - s
      BY <2>6, <3>2, Zenon
    <3>4. QED
      BY <3>1, <3>3
  <2>8. PICK key : key = Stored(SlotsStart + 8 * x + 6 + 1)
    OBVIOUS
  <2>9. PICK iv : iv = <<Stored(SlotsStart + 8 * x + 7 + 1), 0>>
    OBVIOUS
  <2>10. Slot(g, M, 8 * x + 6) = key /\ <<Slot(g, M, 8 * x + 7), 0>> = iv
    BY <1>3, <2>8, <2>9, 6 \in 0..7, 7 \in 0..7
  <2>11. PICK at : at = Sec(x).off
    OBVIOUS
  <2>12. PICK len : len = Sec(x).size
    OBVIOUS
  <2>13. PICK c : c = aes128ctr(key, iv, d, at, len, BLOCK)
    OBVIOUS
  <2>14. CryptSection(g, M, x) = [g EXCEPT !.data = c]
    <3>1. CryptSection(g, M, x) =
          [g EXCEPT !.data = aes128ctr(Slot(g, M, KeyIds(g, M, x)[2]),
                                       <<Slot(g, M, KeyIds(g, M, x)[3]), 0>>, g.data,
                                       Place(g, M, x)[2] - BLOCK * Len(g.hdr),
                                       Place(g, M, x)[3], BLOCK)]
      BY <2>3 DEF CryptSection
    <3>2. QED
      BY <1>2, <2>2, <2>6, <2>7, <2>10, <2>11, <2>12, <2>13, <3>1
  <2>15. Xored(c, d, job.length, key, iv, at, len, BLOCK)
    <3>1. at \in Int /\ len \in Int /\ job.length \in Nat /\ RowOfCells(d, job.length)
      BY <1>1, <2>11, <2>12 DEF DataCells
    <3>2. QED
      BY <2>13, <3>1, CtrIs
  <2>16. ASSUME NEW a \in 1..job.length
         PROVE  /\ at < a /\ a <= at + len <=> Covers(x, a)
                /\ Pad(key, iv, a - 1 - at, BLOCK) = StreamPad(x, a)
    <3>1. at < a /\ a <= at + len <=> Covers(x, a)
      BY <1>1, <2>11, <2>12 DEF Covers
    <3>2. QED
      BY <2>8, <2>9, <2>11, <3>1 DEF StreamPad
  <2>17. DataCells(c)
    BY <2>15 DEF DataCells, Xored
  <2>18. CryptSection(g, M, x) = [hdr |-> OpenHeader, data |-> c]
    BY <2>14
  <2>19. Crypted(c, d, x)
    BY <1>5, <2>15, <2>16 DEF Crypted, Xored
  <2>20. QED
    BY <2>17, <2>18, <2>19
<1>6. QED
  BY <1>1, <1>4, <1>5

\* With its own key and iv the reader takes the key stream of the producer.
LEMMA GoodStream ==
    ASSUME job \in Files, ~BadSlot, NEW x \in 0..(n - 1), NEW a
    PROVE  StreamPad(x, a) = DataPad(x, a)
<1>1. /\ n \in Nat /\ SlotsStart \in Nat /\ SigAt = SlotsStart + 8 * n /\ HdrLen = SigAt + 4
  BY SizeFacts
<1>2. ASSUME NEW r \in {6, 7}
      PROVE  Stored(SlotsStart + 8 * x + r + 1) = Rand("slot", 8 * x + r)
  <2> DEFINE b == SlotsStart + 8 * x + r + 1
  <2>1. b \in 1..HdrLen /\ b \in (SlotsStart + 1)..SigAt /\ b - 1 = SlotsStart + 8 * x + r
    BY <1>1
  <2> HIDE DEF b
  <2>2. Stored(b) = Final(SlotsStart + 8 * x + r)
    <3>1. damaged # b
      BY <2>1 DEF BadSlot
    <3>2. QED
      BY <2>1, <3>1, StoredIsFinal
  <2>3. r \in 0..7 /\ r \notin {0, 1}
    OBVIOUS
  <2>4. Final(SlotsStart + 8 * x + r) = SlotOf(n, x, r)
    BY <2>3, FinalFields
  <2>5. QED
    BY <2>2, <2>3, <2>4 DEF SlotOf, b
<1>3. Stored(SlotsStart + 8 * x + 6 + 1) = Rand("slot", 8 * x + 6)
      /\ Stored(SlotsStart + 8 * x + 7 + 1) = Rand("slot", 8 * x + 7)
  BY <1>2
<1>4. QED
  BY <1>3 DEF StreamPad, DataPad

\* Nobody else uses the byte of key stream that a section uses for a byte.
LEMMA StreamOfSection ==
    ASSUME job \in Files, NEW x \in 0..(n - 1), NEW a \in 1..job.length, Covers(x, a)
    PROVE  OfSection(StreamPad(x, a), x, a)
<1>1. /\ n \in Nat /\ SlotsStart \in Nat /\ SigAt = SlotsStart + 8 * n /\ HdrLen = SigAt + 4
      /\ Sec(x).off \in Nat
  BY SizeFacts, SectionFacts
<1> DEFINE b == SlotsStart + 8 * x + 6 + 1
           y == a - 1 - Sec(x).off
<1>2. b \in 1..HdrLen /\ b - 1 = SlotsStart + 8 * x + 6 /\ y \in Int
  BY <1>1
<1>3. Final(SlotsStart + 8 * x + 6) = Rand("slot", 8 * x + 6)
  <2>1. Final(SlotsStart + 8 * x + 6) = SlotOf(n, x, 6)
    BY FinalFields, 6 \in 0..7
  <2>2. QED
    BY <2>1 DEF SlotOf
<1> HIDE DEF b, y
<1>4. Stored(b) \in {Rand("slot", 8 * x + 6), <<"bad", Rand("slot", 8 * x + 6)>>,
                     <<"tail", Rand("slot", 8 * x + 6)>>}
  BY <1>2, <1>3 DEF Stored, Mark
<1>5. BLOCK * (y \div BLOCK) + (y % BLOCK) = y /\ y \div BLOCK \in Int
  BY <1>2, BlockAssumption, Z3
<1>6. PICK iv : iv = <<Stored(SlotsStart + 8 * x + 7 + 1), 0>>
  OBVIOUS
<1>7. StreamPad(x, a) = Pad(Stored(b), iv, y, BLOCK)
  BY <1>6 DEF StreamPad, b, y
<1>8. Pad(Stored(b), iv, y, BLOCK).key = Stored(b)
      /\ Pad(Stored(b), iv, y, BLOCK).count = iv[2] + y \div BLOCK
      /\ Pad(Stored(b), iv, y, BLOCK).pos = y % BLOCK
  BY DEF Pad
<1>9. iv[2] + y \div BLOCK = y \div BLOCK
  BY <1>5, <1>6
<1>10. BLOCK * StreamPad(x, a).count + StreamPad(x, a).pos = y
  BY <1>5, <1>7, <1>8, <1>9
<1>11. QED
  BY <1>4, <1>7, <1>8, <1>10 DEF OfSection, y

LEMMA OneSection ==
    ASSUME job \in Files, NEW p, NEW x \in 0..(n - 1), NEW y \in 0..(n - 1),
           NEW a \in 1..job.length, NEW b \in 1..job.length,
           OfSection(p, x, a), OfSection(p, y, b)
    PROVE  x = y /\ a = b
<1>1. n \in Nat /\ job.length \in Nat /\ Sec(x).off \in Nat /\ Sec(y).off \in Nat
  BY SizeFacts, SectionFacts
<1>2. x = y
  <2>1. PICK r, q : r = Rand("slot", 8 * x + 6) /\ q = Rand("slot", 8 * y + 6)
    OBVIOUS
  <2>2. r[1] = "rand" /\ q[1] = "rand"
    BY <2>1 DEF Rand
  <2>3. Rand("slot", 8 * x + 6) = Rand("slot", 8 * y + 6)
    <3>1. p.key \in {r, <<"bad", r>>, <<"tail", r>>} /\ p.key \in {q, <<"bad", q>>, <<"tail", q>>}
      BY <2>1 DEF OfSection
    <3>2. CASE p.key[1] = "rand"
      BY <2>1, <2>2, <3>1, <3>2
    <3>3. CASE p.key[1] # "rand"
      BY <2>1, <2>2, <3>1, <3>3
    <3>4. QED
      BY <3>2, <3>3
  <2>4. 8 * x + 6 = 8 * y + 6
    BY <2>3 DEF Rand
  <2>5. QED
    BY <1>1, <2>4
<1>3. a - 1 - Sec(x).off = b - 1 - Sec(x).off
  BY <1>2 DEF OfSection
<1>4. QED
  BY <1>1, <1>2, <1>3

\* The sections from x to y - 1, one more behind or one less in front.
LEMMA PadsStep ==
    ASSUME job \in Files, NEW x \in 0..n, NEW y \in 0..n, NEW a \in 1..job.length, x <= y
    PROVE  /\ y < n /\ Sec(y).enc /\ Covers(y, a) =>
                  SymDiff(DataPads(x, y, a), {DataPad(y, a)}) = DataPads(x, y + 1, a)
           /\ y < n /\ ~(Sec(y).enc /\ Covers(y, a)) => DataPads(x, y, a) = DataPads(x, y + 1, a)
           /\ x < y /\ Sec(x).enc /\ Covers(x, a) =>
                  SymDiff(DataPads(x, y, a), {DataPad(x, a)}) = DataPads(x + 1, y, a)
           /\ x < y /\ ~(Sec(x).enc /\ Covers(x, a)) => DataPads(x, y, a) = DataPads(x + 1, y, a)
<1>1. n \in Nat
  BY SizeFacts
<1>2. ASSUME NEW z \in 0..(n - 1), NEW w \in 0..(n - 1), Covers(z, a), Covers(w, a), z # w
      PROVE  DataPad(z, a) # DataPad(w, a)
  <2>1. DataPad(z, a).key = Rand("slot", 8 * z + 6) /\ DataPad(w, a).key = Rand("slot", 8 * w + 6)
    BY DEF DataPad, Pad
  <2>2. 8 * z + 6 # 8 * w + 6
    BY <1>1, <1>2
  <2>3. Rand("slot", 8 * z + 6) # Rand("slot", 8 * w + 6)
    BY <2>2 DEF Rand
  <2>4. QED
    BY <2>1, <2>3
<1>3. x..(y - 1) \subseteq 0..(n - 1)
  BY <1>1
<1>4. ASSUME y < n
      PROVE  /\ y \in 0..(n - 1) /\ y \notin x..(y - 1) /\ x..(y + 1 - 1) = x..(y - 1) \cup {y}
  BY <1>1, <1>4
<1>5. ASSUME x < y
      PROVE  /\ x \in 0..(n - 1) /\ x \notin (x + 1)..(y - 1) /\ x..(y - 1) = {x} \cup (x + 1)..(y - 1)
             /\ (x + 1)..(y - 1) \subseteq 0..(n - 1)
  BY <1>1, <1>5
<1>6. ASSUME y < n, Sec(y).enc, Covers(y, a)
      PROVE  SymDiff(DataPads(x, y, a), {DataPad(y, a)}) = DataPads(x, y + 1, a)
  <2>1. DataPad(y, a) \notin DataPads(x, y, a)
    BY <1>2, <1>3, <1>4, <1>6 DEF DataPads
  <2>2. DataPads(x, y + 1, a) = DataPads(x, y, a) \cup {DataPad(y, a)}
    BY <1>4, <1>6 DEF DataPads
  <2>3. QED
    BY <2>1, <2>2 DEF SymDiff
<1>7. ASSUME y < n, ~(Sec(y).enc /\ Covers(y, a))
      PROVE  DataPads(x, y, a) = DataPads(x, y + 1, a)
  BY <1>4, <1>7 DEF DataPads
<1>8. ASSUME x < y, Sec(x).enc, Covers(x, a)
      PROVE  SymDiff(DataPads(x, y, a), {DataPad(x, a)}) = DataPads(x + 1, y, a)
  <2>1. DataPad(x, a) \notin DataPads(x + 1, y, a)
    BY <1>2, <1>5, <1>8 DEF DataPads
  <2>2. DataPads(x, y, a) = DataPads(x + 1, y, a) \cup {DataPad(x, a)}
    BY <1>5, <1>8 DEF DataPads
  <2>3. QED
    BY <2>1, <2>2 DEF SymDiff
<1>9. ASSUME x < y, ~(Sec(x).enc /\ Covers(x, a))
      PROVE  DataPads(x, y, a) = DataPads(x + 1, y, a)
  BY <1>5, <1>9 DEF DataPads
<1>10. QED
  BY <1>6, <1>7, <1>8, <1>9

-----------------------------------------------------------------------------
(* What only the damage changes *)

LEMMA Frame ==
    ASSUME job' = job, damaged' = damaged, harm' = harm
    PROVE  /\ n' = n /\ M' = M /\ HdrLen' = HdrLen /\ SigAt' = SigAt
           /\ (DamageOK)' = DamageOK /\ (BadSlot)' = BadSlot /\ SlotsStart' = SlotsStart
           /\ OpenHeader' = OpenHeader /\ LockedHeader' = LockedHeader
           /\ \A h : HashedHeader(h)' = HashedHeader(h)
           /\ \A d : DataCells(d)' = DataCells(d)
           /\ \A d : PadsOfSections(d)' = PadsOfSections(d)
           /\ \A d, x, y : DataIs(d, x, y)' = DataIs(d, x, y)
           /\ \A x : Verdict(x)' = Verdict(x)
           /\ \A a : InFour(a)' = InFour(a)
           /\ InFour(damaged)' = InFour(damaged)
           /\ DamageIn' = DamageIn /\ SignatureSpared' = SignatureSpared
           /\ HeadNumbers' = HeadNumbers /\ Numbers' = Numbers /\ TailBlocks' = TailBlocks
           /\ \A a : Stored(a)' = Stored(a)
BY DEF n, M, HdrLen, SigAt, DamageOK, DamageIn, MetaNumbers, HeadNumbers, Numbers, TailBlocks,
       SlotsAt, BadSlot, Mark, SignatureSpared, OpenHeader, LockedHeader, HashedHeader, DataCells,
       PadsOfSections, DataIs, Verdict, InFour, Stored, LockedCell, Sealed, Four, HeaderPad, Final,
       ToBeSigned, Value, SlotValue, SlotsStart, Mac, Sec, SlotCell, HeaderCell, EntryCell,
       DataValue, DataPads, DataPad, OfSection, Covers, InSection, EndOf

-----------------------------------------------------------------------------
(* The plain file *)

LEMMA PlainHeader ==
    ASSUME job \in Files
    PROVE  PlainFile.hdr = HashedHeader(0)
<1>1. /\ n \in Nat /\ M \in Nat /\ SigAt = M + 8 + 11 * n /\ HdrLen = M + 12 + 11 * n
      /\ SlotsStart = M + 8 + 3 * n
  BY SizeFacts
<1>2. ASSUME NEW a \in 0..(HdrLen - 1)
      PROVE  HeaderCell(a) = Cell(HeaderCell(a).v)
  <2>1. CASE a < M + 8 \/ a >= SigAt
    <3>1. \E v : HeaderCell(a) = Cell(v)
      BY <1>1, <2>1 DEF HeaderCell
    <3>2. QED
      BY <3>1, CellIs
  <2>2. CASE a \in (M + 8)..(M + 7 + 3 * n)
    <3>1. HeaderCell(a) = EntryCell(a - M - 8)
      BY <1>1, <2>2 DEF HeaderCell
    <3>2. PICK y : y = a - M - 8
      OBVIOUS
    <3>3. y \in Int /\ y % 3 \in 0..2
      BY <1>1, <3>2
    <3>4. \E v : EntryCell(y) = Cell(v)
      <4>1. y % 3 = 0 \/ y % 3 = 1 \/ y % 3 = 2
        BY <3>3
      <4>2. CASE y % 3 = 0
        BY <4>2 DEF EntryCell
      <4>3. CASE y % 3 = 1
        BY <4>3 DEF EntryCell
      <4>4. CASE y % 3 = 2
        BY <4>4 DEF EntryCell
      <4>5. QED
        BY <4>1, <4>2, <4>3, <4>4
    <3>5. PICK v : HeaderCell(a) = Cell(v)
      BY <3>1, <3>2, <3>4
    <3>6. Cell(v).v = v
      BY CellIs
    <3>7. QED
      BY <3>5, <3>6
  <2>3. CASE a \in SlotsStart..(SigAt - 1)
    <3>1. HeaderCell(a) = SlotCell(a - M - 8 - 3 * n)
      BY <1>1, <2>3 DEF HeaderCell
    <3>2. \E v : SlotCell(a - M - 8 - 3 * n) = Cell(v)
      BY DEF SlotCell
    <3>3. QED
      BY <3>1, <3>2, CellIs
  <2>4. QED
    BY <1>1, <2>1, <2>2, <2>3
<1>3. ASSUME NEW a \in 0..(HdrLen - 1)
      PROVE  Value(0, a) = HeaderCell(a).v
  <2>1. CASE a \in SlotsStart..(SigAt - 1)
    <3>1. PICK y : y = a - SlotsStart
      OBVIOUS
    <3>2. y \in Nat /\ a - M - 8 - 3 * n = y /\ y \div 8 >= 0
      BY <1>1, <2>1, <3>1
    <3>3. SlotValue(0, y) = SlotCell(y).v
      BY <3>2 DEF SlotValue
    <3>4. HeaderCell(a) = SlotCell(a - M - 8 - 3 * n)
      BY <1>1, <2>1 DEF HeaderCell
    <3>5. QED
      BY <2>1, <3>1, <3>2, <3>3, <3>4 DEF Value
  <2>2. CASE a \notin SlotsStart..(SigAt - 1)
    BY <2>2 DEF Value
  <2>3. QED
    BY <2>1, <2>2
<1>4. ASSUME NEW a \in 1..HdrLen
      PROVE  HeaderCell(a - 1) = Cell(Value(0, a - 1))
  <2>1. a - 1 \in 0..(HdrLen - 1)
    BY <1>1
  <2>2. QED
    BY <1>2, <1>3, <2>1
<1>5. QED
  BY <1>4 DEF PlainFile, HashedHeader

LEMMA PlainDataIs ==
    ASSUME job \in Files, damaged = NONE
    PROVE  /\ PlainFile.data = [a \in 1..job.length |-> Cell(Plain(a))]
           /\ DataCells(PlainFile.data) /\ DataIs(PlainFile.data, 0, 0)
           /\ PadsOfSections(PlainFile.data)
<1>1. job.length \in Nat /\ HdrLen \in Nat
  BY SizeFacts
<1>2. PICK d : d = PlainFile.data
  OBVIOUS
<1>3. d = [a \in 1..job.length |-> Cell(Plain(a))]
  BY <1>2 DEF PlainFile
<1>4. ASSUME NEW a \in 1..job.length
      PROVE  /\ IsCell(d[a]) /\ d[a].v = DataValue(a) /\ d[a].pads = {}
             /\ DataPads(0, 0, a) = {}
  <2>1. damaged # HdrLen + a
    BY <1>1 DEF NONE
  <2>2. d[a] = Cell(Plain(a))
    BY <1>3
  <2>3. IsCell(d[a]) /\ d[a].v = Plain(a) /\ d[a].pads = {}
    <3>1. PICK v : v = Plain(a)
      OBVIOUS
    <3>2. IsCell(Cell(v)) /\ Cell(v).v = v /\ Cell(v).pads = {}
      BY CellIs
    <3>3. QED
      BY <2>2, <3>1, <3>2
  <2>4. 0..(0 - 1) = {}
    OBVIOUS
  <2>5. DataPads(0, 0, a) = {}
    BY <2>4 DEF DataPads
  <2>6. QED
    BY <2>1, <2>3, <2>5 DEF DataValue
<1>5. Row(d, job.length)
  BY <1>3 DEF Row
<1>6. DataCells(d)
  BY <1>4, <1>5 DEF DataCells, RowOfCells
<1>7. DataIs(d, 0, 0)
  BY <1>4 DEF DataIs
<1>8. PadsOfSections(d)
  BY <1>4 DEF PadsOfSections
<1>9. QED
  BY <1>2, <1>3, <1>6, <1>7, <1>8

LEMMA InitIInv ==
    ASSUME Init
    PROVE  IInv
<1>1. /\ job \in Files /\ klist \in KeyLists /\ damaged = NONE /\ harm = "none"
      /\ pc = "hash" /\ i = 0
      /\ f = PlainFile /\ keyid = NONE /\ sig = "none" /\ res = <<>>
  BY DEF Init
<1>2. ~Locked /\ ~Opened
  BY <1>1 DEF Locked, Opened
<1>3. Fixed
  <2>1. f = [hdr |-> f.hdr, data |-> f.data]
    BY <1>1 DEF PlainFile
  <2>2. QED
    BY <1>1, <2>1 DEF Fixed, Phases, DamageIn, Early
<1>4. Header
  BY <1>1, <1>2, PlainHeader DEF Header
<1>5. Data
  BY <1>1, PlainDataIs DEF Data
<1>6. Streams
  BY <1>1, <1>2, PlainDataIs DEF Streams
<1>7. Verdicts
  <2>1. 0 \in 0..n /\ <<>> \in Seq({"OK", "FAIL", "???"})
    BY <1>1, SizeFacts
  <2>2. QED
    BY <1>1, <1>2, <2>1 DEF Verdicts
<1>8. ~Astray
  BY <1>1 DEF Astray, Early
<1>9. QED
  BY <1>3, <1>4, <1>5, <1>6, <1>7, <1>8 DEF IInv

\* Before a reader has opened the header it is not astray.
LEMMA EarlyFacts ==
    ASSUME IInv, pc \in Early
    PROVE  /\ Fixed /\ Header /\ Data /\ Streams /\ Verdicts
           /\ keyid = NONE /\ sig = "none" /\ res = <<>> /\ i \in 0..n
           /\ job \in Files /\ f = [hdr |-> f.hdr, data |-> f.data]
<1>1. Fixed /\ Header /\ Data /\ Streams /\ Verdicts
  BY DEF IInv, Astray
<1>2. QED
  BY <1>1 DEF Fixed, Verdicts, Early

-----------------------------------------------------------------------------
(* The producer *)

\* Without key stream the data is what it was.
LEMMA PlainCells ==
    ASSUME job \in Files, NEW d, NEW x \in Int, DataCells(d), DataIs(d, x, x)
    PROVE  \A a \in 1..job.length : d[a] = Cell(DataValue(a))
<1>1. ASSUME NEW a \in 1..job.length
      PROVE  d[a] = Cell(DataValue(a))
  <2>1. x..(x - 1) = {}
    OBVIOUS
  <2>2. DataPads(x, x, a) = {}
    BY <2>1 DEF DataPads
  <2>3. d[a].pads = {} /\ d[a].v = DataValue(a) /\ IsCell(d[a])
    BY <2>2 DEF DataIs, DataCells, RowOfCells
  <2>4. QED
    BY <2>3 DEF IsCell, Cell
<1>2. QED
  BY <1>1

LEMMA HashIInv ==
    ASSUME IInv, CalculateHash
    PROVE  IInv'
<1>1. /\ pc = "hash" /\ i < n /\ i' = i + 1 /\ pc' = pc
      /\ f' = [f EXCEPT !.hdr = Overwrite(@, SlotsAt(M, n) + 8 * i, HashBlocks(f, i))]
      /\ job' = job /\ klist' = klist /\ reader' = reader /\ damaged' = damaged /\ harm' = harm
      /\ keyid' = keyid /\ sig' = sig /\ res' = res
  BY DEF CalculateHash
<1>2. /\ Fixed /\ Header /\ Data /\ Streams /\ Verdicts
      /\ keyid = NONE /\ sig = "none" /\ res = <<>> /\ i \in 0..n
      /\ f = [hdr |-> f.hdr, data |-> f.data]
  <2>1. pc \in Early
    BY <1>1 DEF Early
  <2>2. QED
    BY <2>1, EarlyFacts
<1>3. job \in Files /\ damaged = NONE /\ i \in 0..(n - 1) /\ n \in Nat /\ i + 1 \in 0..n
  <2>1. job \in Files /\ damaged = NONE
    BY <1>1, <1>2 DEF Fixed
  <2>2. n \in Nat
    BY <2>1, SizeFacts
  <2>3. i \in 0..n /\ i < n
    BY <1>1, <1>2
  <2>4. i \in 0..(n - 1) /\ i + 1 \in 0..n
    BY ONLY <2>2, <2>3
  <2>5. QED
    BY <2>1, <2>2, <2>4
<1>4. /\ n' = n /\ DamageIn' = DamageIn /\ TailBlocks' = TailBlocks
      /\ \A h : HashedHeader(h)' = HashedHeader(h)
      /\ \A d : DataCells(d)' = DataCells(d)
      /\ \A d : PadsOfSections(d)' = PadsOfSections(d)
      /\ \A d, x, y : DataIs(d, x, y)' = DataIs(d, x, y)
  BY <1>1, Frame
<1>5. ~Locked' /\ ~Opened' /\ ~Locked /\ ~Opened
  BY <1>1 DEF Locked, Opened
<1>6. f.hdr = HashedHeader(i) /\ DataIs(f.data, 0, 0) /\ DataCells(f.data)
  BY <1>1, <1>2 DEF Header, Data, Streams
<1>7. f' = [hdr |-> HashedHeader(i + 1), data |-> f.data]
  <2>1. \A a \in 1..job.length : f.data[a] = Cell(DataValue(a))
    BY <1>3, <1>6, PlainCells, 0 \in Int
  <2>2. Overwrite(f.hdr, SlotsAt(M, n) + 8 * i, HashBlocks(f, i)) = HashedHeader(i + 1)
    BY <1>3, <1>6, <2>1, HashStep
  <2>3. QED
    BY <1>1, <1>2, <2>2
<1>8. f'.hdr = HashedHeader(i + 1) /\ f'.data = f.data
  BY <1>7
<1>9. Fixed'
  BY <1>1, <1>2, <1>3, <1>4, <1>7 DEF Fixed, Early, Phases
<1>10. Header'
  BY <1>1, <1>4, <1>5, <1>8 DEF Header
<1>11. Data'
  BY <1>2, <1>4, <1>7, <1>8 DEF Data
<1>12. Streams'
  BY <1>1, <1>4, <1>5, <1>6, <1>8 DEF Streams
<1>13. Verdicts'
  BY <1>1, <1>2, <1>3, <1>4, <1>5 DEF Verdicts
<1>14. ~Astray'
  BY <1>1 DEF Astray, Early
<1>15. QED
  BY <1>9, <1>10, <1>11, <1>12, <1>13, <1>14 DEF IInv

LEMMA SignIInv ==
    ASSUME IInv, Sign
    PROVE  IInv'
<1>1. /\ pc = "hash" /\ i >= n /\ i' = 0 /\ pc' = "encrypt"
      /\ f' = [f EXCEPT !.hdr = Overwrite(@, SigLenField(f, M), Signature(f))]
      /\ job' = job /\ klist' = klist /\ reader' = reader /\ damaged' = damaged /\ harm' = harm
      /\ keyid' = keyid /\ sig' = sig /\ res' = res
  BY DEF Sign
<1>2. /\ Fixed /\ Header /\ Data /\ Streams /\ Verdicts
      /\ keyid = NONE /\ sig = "none" /\ res = <<>> /\ i \in 0..n
      /\ f = [hdr |-> f.hdr, data |-> f.data]
  <2>1. pc \in Early
    BY <1>1 DEF Early
  <2>2. QED
    BY <2>1, EarlyFacts
<1>3. job \in Files /\ damaged = NONE /\ i = n /\ n \in Nat /\ 0 \in 0..n
  BY <1>1, <1>2, SizeFacts DEF Fixed
<1>4. /\ n' = n /\ DamageIn' = DamageIn /\ TailBlocks' = TailBlocks /\ OpenHeader' = OpenHeader
      /\ \A d : DataCells(d)' = DataCells(d)
      /\ \A d : PadsOfSections(d)' = PadsOfSections(d)
      /\ \A d, x, y : DataIs(d, x, y)' = DataIs(d, x, y)
  BY <1>1, Frame
<1>5. ~Locked' /\ ~Opened' /\ ~Locked /\ ~Opened
  BY <1>1 DEF Locked, Opened
<1>6. f.hdr = HashedHeader(n) /\ DataIs(f.data, 0, 0)
  BY <1>1, <1>2, <1>3 DEF Header, Streams
<1>7. f' = [hdr |-> OpenHeader, data |-> f.data]
  <2>1. Overwrite(f.hdr, SigLenField(f, M), Signature(f)) = OpenHeader
    BY <1>3, <1>6, SignStep
  <2>2. QED
    BY <1>1, <1>2, <2>1
<1>8. f'.hdr = OpenHeader /\ f'.data = f.data
  BY <1>7
<1>9. Fixed'
  BY <1>1, <1>2, <1>3, <1>4, <1>7 DEF Fixed, Early, Phases
<1>10. Header'
  BY <1>1, <1>4, <1>5, <1>8 DEF Header
<1>11. Data'
  BY <1>2, <1>4, <1>7, <1>8 DEF Data
<1>12. Streams'
  BY <1>1, <1>4, <1>5, <1>6, <1>8 DEF Streams
<1>13. Verdicts'
  BY <1>1, <1>2, <1>3, <1>4, <1>5 DEF Verdicts
<1>14. ~Astray'
  BY <1>1 DEF Astray, Early
<1>15. QED
  BY <1>9, <1>10, <1>11, <1>12, <1>13, <1>14 DEF IInv

\* One section of the data is encrypted or decrypted.
LEMMA DataStep ==
    ASSUME job \in Files, DamageOK, NEW g, NEW d, g = [hdr |-> OpenHeader, data |-> d],
           DataCells(d), PadsOfSections(d), NEW x \in 0..(n - 1)
    PROVE  \E c : /\ CryptSection(g, M, x) = [hdr |-> OpenHeader, data |-> c]
                  /\ DataCells(c) /\ PadsOfSections(c)
                  /\ ~BadSlot /\ DataIs(d, 0, x) => DataIs(c, 0, x + 1)
                  /\ ~BadSlot /\ DataIs(d, x, n) => DataIs(c, x + 1, n)
<1>1. PICK c : /\ CryptSection(g, M, x) = [hdr |-> OpenHeader, data |-> c]
               /\ DataCells(c) /\ Crypted(c, d, x)
  BY CryptStep
<1>2. n \in Nat /\ x < n /\ x \in 0..n /\ 0 <= x /\ n \in 0..n /\ x <= n /\ 0 \in 0..n
  BY SizeFacts
<1>3. PadsOfSections(c)
  <2> SUFFICES ASSUME NEW a \in 1..job.length, NEW p \in c[a].pads
               PROVE  \E y \in 0..(n - 1) : Covers(y, a) /\ OfSection(p, y, a)
    BY DEF PadsOfSections
  <2>1. CASE p \in d[a].pads
    BY <2>1 DEF PadsOfSections
  <2>2. CASE p \notin d[a].pads
    <3>1. Sec(x).enc /\ Covers(x, a) /\ p = StreamPad(x, a)
      BY <1>1, <2>2 DEF Crypted, SymDiff
    <3>2. QED
      BY <3>1, StreamOfSection
  <2>3. QED
    BY <2>1, <2>2
<1>4. ASSUME ~BadSlot, DataIs(d, 0, x)
      PROVE  DataIs(c, 0, x + 1)
  <2> SUFFICES ASSUME NEW a \in 1..job.length
               PROVE  c[a].pads = DataPads(0, x + 1, a)
    BY DEF DataIs
  <2>1. d[a].pads = DataPads(0, x, a)
    BY <1>4 DEF DataIs
  <2>2. /\ Sec(x).enc /\ Covers(x, a) =>
               SymDiff(DataPads(0, x, a), {DataPad(x, a)}) = DataPads(0, x + 1, a)
        /\ ~(Sec(x).enc /\ Covers(x, a)) => DataPads(0, x, a) = DataPads(0, x + 1, a)
    BY <1>2, PadsStep
  <2>3. StreamPad(x, a) = DataPad(x, a)
    BY <1>4, GoodStream
  <2>4. QED
    BY <1>1, <2>1, <2>2, <2>3 DEF Crypted
<1>5. ASSUME ~BadSlot, DataIs(d, x, n)
      PROVE  DataIs(c, x + 1, n)
  <2> SUFFICES ASSUME NEW a \in 1..job.length
               PROVE  c[a].pads = DataPads(x + 1, n, a)
    BY DEF DataIs
  <2>1. d[a].pads = DataPads(x, n, a)
    BY <1>5 DEF DataIs
  <2>2. /\ Sec(x).enc /\ Covers(x, a) =>
               SymDiff(DataPads(x, n, a), {DataPad(x, a)}) = DataPads(x + 1, n, a)
        /\ ~(Sec(x).enc /\ Covers(x, a)) => DataPads(x, n, a) = DataPads(x + 1, n, a)
    BY <1>2, PadsStep
  <2>3. StreamPad(x, a) = DataPad(x, a)
    BY <1>5, GoodStream
  <2>4. QED
    BY <1>1, <2>1, <2>2, <2>3 DEF Crypted
<1>6. QED
  BY <1>1, <1>3, <1>4, <1>5

LEMMA EncryptDataIInv ==
    ASSUME IInv, EncryptData
    PROVE  IInv'
<1>1. /\ pc = "encrypt" /\ i < NHdr(f, M) /\ i' = i + 1 /\ pc' = pc
      /\ f' = CryptSection(f, M, i)
      /\ job' = job /\ klist' = klist /\ reader' = reader /\ damaged' = damaged /\ harm' = harm
      /\ keyid' = keyid /\ sig' = sig /\ res' = res
  BY DEF EncryptData
<1>2. /\ Fixed /\ Header /\ Data /\ Streams /\ Verdicts
      /\ keyid = NONE /\ sig = "none" /\ res = <<>> /\ i \in 0..n
      /\ f = [hdr |-> f.hdr, data |-> f.data]
  <2>1. pc \in Early
    BY <1>1 DEF Early
  <2>2. QED
    BY <2>1, EarlyFacts
<1>3. job \in Files /\ damaged = NONE /\ DamageOK /\ n \in Nat
  <2>1. job \in Files /\ damaged = NONE
    BY <1>1, <1>2 DEF Fixed
  <2>2. n \in Nat /\ M \in Nat
    BY <2>1, SizeFacts
  <2>3. DamageOK
    BY <2>1, <2>2 DEF DamageOK, DamageIn, MetaNumbers, NONE
  <2>4. QED
    BY <2>1, <2>2, <2>3
<1>4. /\ n' = n /\ DamageIn' = DamageIn /\ TailBlocks' = TailBlocks /\ OpenHeader' = OpenHeader
      /\ \A d : DataCells(d)' = DataCells(d)
      /\ \A d : PadsOfSections(d)' = PadsOfSections(d)
      /\ \A d, x, y : DataIs(d, x, y)' = DataIs(d, x, y)
  BY <1>1, Frame
<1>5. ~Locked' /\ ~Opened' /\ ~Locked /\ ~Opened
  BY <1>1 DEF Locked, Opened
<1>6. /\ f.hdr = OpenHeader /\ DataIs(f.data, 0, i) /\ DataCells(f.data) /\ PadsOfSections(f.data)
      /\ f = [hdr |-> OpenHeader, data |-> f.data]
  BY <1>1, <1>2 DEF Header, Data, Streams
<1>7. NHdr(f, M) = n
  BY <1>3, <1>6, OpenFields
<1>8. i \in 0..(n - 1) /\ i + 1 \in 0..n
  BY <1>1, <1>2, <1>3, <1>7
<1>9. ~BadSlot
  BY <1>3, SizeFacts DEF BadSlot, NONE
<1>10. PICK c : /\ f' = [hdr |-> OpenHeader, data |-> c]
                /\ DataCells(c) /\ PadsOfSections(c) /\ DataIs(c, 0, i + 1)
  <2>1. PICK g, d : g = f /\ d = f.data
    OBVIOUS
  <2>2. g = [hdr |-> OpenHeader, data |-> d]
    BY <1>6, <2>1
  <2>3. DataCells(d) /\ PadsOfSections(d) /\ DataIs(d, 0, i)
    BY <1>6, <2>1
  <2>4. \E c : /\ CryptSection(g, M, i) = [hdr |-> OpenHeader, data |-> c]
               /\ DataCells(c) /\ PadsOfSections(c)
               /\ ~BadSlot /\ DataIs(d, 0, i) => DataIs(c, 0, i + 1)
    BY <1>3, <1>8, <2>2, <2>3, DataStep
  <2>5. QED
    BY <1>1, <1>9, <2>1, <2>3, <2>4
<1>11. f'.hdr = OpenHeader /\ f'.data = c
  BY <1>10
<1>12. Fixed'
  BY <1>1, <1>2, <1>3, <1>4, <1>8, <1>10 DEF Fixed, Early, Phases
<1>13. Header'
  BY <1>1, <1>4, <1>5, <1>11 DEF Header
<1>14. Data'
  BY <1>4, <1>10, <1>11 DEF Data
<1>15. Streams'
  BY <1>1, <1>4, <1>5, <1>10, <1>11 DEF Streams
<1>16. Verdicts'
  BY <1>1, <1>2, <1>4, <1>5, <1>8 DEF Verdicts
<1>17. ~Astray'
  BY <1>1 DEF Astray, Early
<1>18. QED
  BY <1>12, <1>13, <1>14, <1>15, <1>16, <1>17 DEF IInv

LEMMA EncryptHeaderIInv ==
    ASSUME IInv, EncryptHeader
    PROVE  IInv'
<1>1. /\ pc = "encrypt" /\ i >= NHdr(f, M) /\ i' = 0 /\ pc' = "written"
      /\ f' = sce_encrypt_header(f, M, Signer)
      /\ job' = job /\ klist' = klist /\ reader' = reader /\ damaged' = damaged /\ harm' = harm
      /\ keyid' = keyid /\ sig' = sig /\ res' = res
  BY DEF EncryptHeader
<1>2. /\ Fixed /\ Header /\ Data /\ Streams /\ Verdicts
      /\ keyid = NONE /\ sig = "none" /\ res = <<>> /\ i \in 0..n
      /\ f = [hdr |-> f.hdr, data |-> f.data]
  <2>1. pc \in Early
    BY <1>1 DEF Early
  <2>2. QED
    BY <2>1, EarlyFacts
<1>3. job \in Files /\ damaged = NONE /\ DamageOK /\ n \in Nat /\ 0 \in 0..n
  <2>1. job \in Files /\ damaged = NONE
    BY <1>1, <1>2 DEF Fixed
  <2>2. n \in Nat /\ M \in Nat
    BY <2>1, SizeFacts
  <2>3. DamageOK
    BY <2>1, <2>2 DEF DamageOK, DamageIn, MetaNumbers, NONE
  <2>4. QED
    BY <2>1, <2>2, <2>3
<1>4. /\ n' = n /\ DamageIn' = DamageIn /\ TailBlocks' = TailBlocks /\ LockedHeader' = LockedHeader
      /\ \A d : DataCells(d)' = DataCells(d)
      /\ \A d : PadsOfSections(d)' = PadsOfSections(d)
      /\ \A d, x, y : DataIs(d, x, y)' = DataIs(d, x, y)
  BY <1>1, Frame
<1>5. Locked' /\ ~Opened' /\ ~Locked /\ ~Opened
  BY <1>1 DEF Locked, Opened
<1>6. /\ f.hdr = OpenHeader /\ DataIs(f.data, 0, i) /\ DataCells(f.data) /\ PadsOfSections(f.data)
      /\ f = [hdr |-> OpenHeader, data |-> f.data]
  BY <1>1, <1>2 DEF Header, Data, Streams
<1>7. NHdr(f, M) = n
  BY <1>3, <1>6, OpenFields
<1>8. i = n
  BY <1>1, <1>2, <1>3, <1>7
<1>9. f' = [hdr |-> LockedHeader, data |-> f.data]
  <2>1. PICK g, d : g = f /\ d = f.data
    OBVIOUS
  <2>2. g = [hdr |-> OpenHeader, data |-> d]
    BY <1>6, <2>1
  <2>3. sce_encrypt_header(g, M, Signer) = [hdr |-> LockedHeader, data |-> d]
    BY <1>3, <2>2, EncryptHeaderStep
  <2>4. QED
    BY <1>1, <2>1, <2>3
<1>10. f'.hdr = LockedHeader /\ f'.data = f.data
  BY <1>9
<1>11. Fixed'
  BY <1>1, <1>2, <1>3, <1>4, <1>9 DEF Fixed, Early, Phases
<1>12. Header'
  BY <1>1, <1>4, <1>5, <1>10 DEF Header
<1>13. Data'
  BY <1>4, <1>6, <1>9, <1>10 DEF Data
<1>14. Streams'
  BY <1>1, <1>4, <1>5, <1>6, <1>8, <1>10 DEF Streams
<1>15. Verdicts'
  BY <1>1, <1>2, <1>3, <1>4, <1>5 DEF Verdicts
<1>16. ~Astray'
  BY <1>1 DEF Astray, Early
<1>17. QED
  BY <1>11, <1>12, <1>13, <1>14, <1>15, <1>16 DEF IInv

-----------------------------------------------------------------------------
(* The damage *)

\* What the damage does not change.
LEMMA DamageFrame ==
    ASSUME job' = job
    PROVE  /\ n' = n /\ M' = M /\ HdrLen' = HdrLen /\ SigAt' = SigAt
           /\ TailBlocks' = TailBlocks
           /\ \A a : InFour(a)' = InFour(a)
           /\ \A a : Sealed(a)' = Sealed(a)
           /\ \A a : Final(a)' = Final(a)
           /\ \A a : HeaderPad(a)' = HeaderPad(a)
           /\ \A d : PadsOfSections(d)' = PadsOfSections(d)
           /\ \A d, x, y : DataIs(d, x, y)' = DataIs(d, x, y)
BY DEF n, M, HdrLen, SigAt, TailBlocks, SlotsAt, PadsOfSections, DataIs, InFour, Sealed, Four, HeaderPad, Final,
       ToBeSigned, Value, SlotValue, SlotsStart, Mac, Sec, SlotCell, HeaderCell, EntryCell,
       DataPads, DataPad, OfSection, Covers

\* A damaged block of the header.
LEMMA HeaderDamaged ==
    ASSUME job \in Files, damaged = NONE, job' = job, NEW b \in 1..HdrLen, damaged' = b,
           harm' \in {"bad", "tail"},
           NEW h, h = [LockedHeader EXCEPT ![b].v = <<harm', LockedHeader[b].v>>]
    PROVE  h = LockedHeader'
<1>1. HdrLen \in Nat /\ (\A a \in 1..HdrLen : damaged # a) /\ Mark' = harm'
  BY SizeFacts DEF NONE, Mark
<1>2. ASSUME NEW a \in 1..HdrLen
      PROVE  \E v, w, P : /\ LockedHeader[a] = [v |-> v, pads |-> P]
                          /\ LockedCell(a)' = [v |-> IF a = b THEN <<harm', v>> ELSE v, pads |-> P]
  <2>1. LockedHeader[a] = LockedCell(a) /\ damaged # a
    BY <1>1 DEF LockedHeader
  <2>2. CASE InFour(a)
    <3>1. LockedCell(a) = [v |-> Sealed(a), pads |-> {}]
      BY <2>1, <2>2 DEF LockedCell, Cell
    <3>2. LockedCell(a)' = [v |-> IF a = b THEN <<harm', Sealed(a)>> ELSE Sealed(a), pads |-> {}]
      BY <1>1, <2>2, DamageFrame DEF LockedCell, Cell
    <3>3. QED
      BY <2>1, <3>1, <3>2
  <2>3. CASE ~InFour(a)
    <3>1. PICK P : P = IF a >= M + 7 THEN {HeaderPad(a)} ELSE {}
      OBVIOUS
    <3>2. LockedCell(a) = [v |-> Final(a - 1), pads |-> P]
      BY <2>1, <2>3, <3>1 DEF LockedCell, Stored
    <3>3. LockedCell(a)' = [v |-> IF a = b THEN <<harm', Final(a - 1)>> ELSE Final(a - 1),
                            pads |-> P]
      BY <1>1, <2>3, <3>1, DamageFrame DEF LockedCell, Stored
    <3>4. QED
      BY <2>1, <3>2, <3>3
  <2>4. QED
    BY <2>2, <2>3
<1>3. ASSUME NEW a \in 1..HdrLen
      PROVE  h[a] = LockedCell(a)'
  <2>1. PICK v, P : /\ LockedHeader[a] = [v |-> v, pads |-> P]
                    /\ LockedCell(a)' = [v |-> IF a = b THEN <<harm', v>> ELSE v, pads |-> P]
    BY <1>2
  <2>2. LockedHeader[a].v = v
    BY <2>1
  <2>3. DOMAIN LockedHeader = 1..HdrLen
    BY DEF LockedHeader
  <2>4. CASE a = b
    <3>1. h[a] = [LockedHeader[a] EXCEPT !.v = <<harm', LockedHeader[a].v>>]
      BY <2>3, <2>4
    <3>2. h[a] = [v |-> <<harm', v>>, pads |-> P]
      BY <2>1, <2>2, <3>1
    <3>3. QED
      BY <2>1, <2>4, <3>2
  <2>5. CASE a # b
    BY <2>1, <2>3, <2>5
  <2>6. QED
    BY <2>4, <2>5
<1>4. h = [a \in 1..HdrLen |-> h[a]]
  BY DEF LockedHeader
<1>5. LockedHeader' = [a \in 1..HdrLen |-> LockedCell(a)']
  BY DamageFrame DEF LockedHeader
<1>6. QED
  BY <1>3, <1>4, <1>5

\* A damaged byte of the data.
LEMMA DataDamaged ==
    ASSUME job \in Files, damaged = NONE, job' = job,
           NEW b \in 1..job.length, damaged' = HdrLen + b,
           NEW d, DataCells(d), NEW x, DataIs(d, 0, x), PadsOfSections(d),
           NEW e, e = [d EXCEPT ![b].v = <<"bad", @>>]
    PROVE  /\ DataCells(e)' /\ DataIs(e, 0, x) /\ PadsOfSections(e)
<1>1. HdrLen \in Nat /\ job.length \in Nat
  BY SizeFacts
<1>2. ASSUME NEW a \in 1..job.length
      PROVE  /\ IsCell(e[a]) /\ e[a].pads = d[a].pads
             /\ e[a].v = IF a = b THEN <<"bad", Plain(a)>> ELSE Plain(a)
  <2>1. IsCell(d[a]) /\ d[a].v = DataValue(a) /\ DOMAIN d = 1..job.length
    BY DEF DataCells, RowOfCells, Row
  <2>2. damaged # HdrLen + a
    BY <1>1 DEF NONE
  <2>3. d[a].v = Plain(a)
    BY <2>1, <2>2 DEF DataValue
  <2>4. PICK P : P = d[a].pads
    OBVIOUS
  <2>5. d[a] = [v |-> Plain(a), pads |-> P]
    BY <2>1, <2>3, <2>4 DEF IsCell
  <2>6. CASE a = b
    <3>1. e[a] = [d[a] EXCEPT !.v = <<"bad", d[a].v>>]
      BY <2>1, <2>6
    <3>2. e[a] = [v |-> <<"bad", Plain(a)>>, pads |-> P]
      BY <2>3, <2>5, <3>1
    <3>3. QED
      BY <2>4, <2>6, <3>2, CellIs
  <2>7. CASE a # b
    <3>1. e[a] = [v |-> Plain(a), pads |-> P]
      BY <2>1, <2>5, <2>7
    <3>2. QED
      BY <2>4, <2>7, <3>1, CellIs
  <2>8. QED
    BY <2>6, <2>7
<1>3. Row(e, job.length)
  <2>1. d = [a \in 1..job.length |-> d[a]]
    BY DEF DataCells, RowOfCells, Row
  <2>2. QED
    BY <2>1 DEF Row
<1>4. ASSUME NEW a \in 1..job.length
      PROVE  DataValue(a)' = IF a = b THEN <<"bad", Plain(a)>> ELSE Plain(a)
  <2>1. HdrLen + b = HdrLen + a <=> a = b
    BY <1>1
  <2>2. QED
    BY <2>1, DamageFrame DEF DataValue
<1>5. DataCells(e)'
  BY <1>2, <1>3, <1>4 DEF DataCells, RowOfCells, Row
<1>6. DataIs(e, 0, x)
  BY <1>2 DEF DataIs
<1>7. PadsOfSections(e)
  BY <1>2 DEF PadsOfSections
<1>8. QED
  BY <1>5, <1>6, <1>7

LEMMA DamageIInv ==
    ASSUME IInv, Damage
    PROVE  IInv'
<1>1. /\ pc = "written" /\ damaged = NONE /\ pc' = pc /\ i' = i
      /\ job' = job /\ klist' = klist /\ reader' = reader
      /\ keyid' = keyid /\ sig' = sig /\ res' = res
  BY DEF Damage
<1>2. PICK a \in 1..(HdrLen + job.length), how \in {"bad", "tail"} :
          /\ how = "tail" => a \in TailBlocks
          /\ damaged' = a /\ harm' = how
          /\ f' = IF a <= HdrLen THEN [f EXCEPT !.hdr[a].v = <<how, f.hdr[a].v>>]
                  ELSE [f EXCEPT !.data[a - HdrLen].v = <<how, @>>]
  BY DEF Damage
<1>3. /\ Fixed /\ Header /\ Data /\ Streams /\ Verdicts
      /\ keyid = NONE /\ sig = "none" /\ res = <<>> /\ i \in 0..n
      /\ f = [hdr |-> f.hdr, data |-> f.data]
  <2>1. pc \in Early
    BY <1>1 DEF Early
  <2>2. QED
    BY <2>1, EarlyFacts
<1>4. /\ job \in Files /\ n \in Nat /\ M \in Nat /\ HdrLen \in Nat /\ job.length \in Nat
      /\ HdrLen = M + 12 + 11 * n /\ SigAt = M + 8 + 11 * n
  BY <1>3, SizeFacts DEF Fixed
<1>5. Locked /\ Locked' /\ ~Opened /\ ~Opened'
  BY <1>1 DEF Locked, Opened
<1>6. /\ f = [hdr |-> LockedHeader, data |-> f.data] /\ f.hdr = LockedHeader
      /\ DataCells(f.data) /\ DataIs(f.data, 0, n) /\ PadsOfSections(f.data)
  BY <1>3, <1>5 DEF Header, Data, Streams
<1>7. \E h, d : /\ f' = [hdr |-> h, data |-> d] /\ h = LockedHeader'
                /\ DataCells(d)' /\ DataIs(d, 0, n) /\ PadsOfSections(d)
  <2>1. CASE a <= HdrLen
    <3>1. PICK h : h = [LockedHeader EXCEPT ![a].v = <<how, LockedHeader[a].v>>]
      OBVIOUS
    <3>2. f' = [hdr |-> h, data |-> f.data]
      BY <1>2, <1>6, <2>1, <3>1
    <3>3. h = LockedHeader'
      <4>1. a \in 1..HdrLen /\ damaged' = a /\ harm' = how
        BY <1>2, <1>4, <2>1
      <4>2. h = [LockedHeader EXCEPT ![a].v = <<harm', LockedHeader[a].v>>]
        BY <3>1, <4>1
      <4>3. harm' \in {"bad", "tail"}
        BY <4>1
      <4>4. job \in Files /\ damaged = NONE /\ job' = job
        BY <1>1, <1>4
      <4>5. QED
        BY <4>1, <4>2, <4>3, <4>4, HeaderDamaged
    <3>4. ASSUME NEW b \in 1..job.length
          PROVE  DataValue(b)' = DataValue(b)
      <4>1. a # HdrLen + b /\ damaged # HdrLen + b
        BY <1>1, <1>4, <2>1 DEF NONE
      <4>2. QED
        BY <1>1, <1>2, <4>1, DamageFrame DEF DataValue
    <3>5. PICK d : d = f.data
      OBVIOUS
    <3>6. DataCells(d)'
      BY <1>1, <1>6, <3>4, <3>5 DEF DataCells, RowOfCells, Row
    <3>7. QED
      BY <1>6, <3>2, <3>3, <3>5, <3>6
  <2>2. CASE ~(a <= HdrLen)
    <3>0. how = "bad"
      <4>1. \A x \in 0..(n - 1) : SlotsAt(M, n) + 8 * x + 2 <= HdrLen
        BY <1>4 DEF SlotsAt
      <4>2. a \notin TailBlocks
        BY <1>4, <2>2, <4>1 DEF TailBlocks
      <4>3. QED
        BY <1>2, <4>2
    <3>1. PICK d, e : d = f.data /\ e = [d EXCEPT ![a - HdrLen].v = <<"bad", @>>]
      OBVIOUS
    <3>2. f' = [hdr |-> LockedHeader, data |-> e]
      BY <1>2, <1>6, <2>2, <3>0, <3>1
    <3>3. PICK b : b = a - HdrLen
      OBVIOUS
    <3>4. b \in 1..job.length /\ a = HdrLen + b
      BY <1>4, <2>2, <3>3
    <3>5. DataCells(e)' /\ DataIs(e, 0, n) /\ PadsOfSections(e)
      <4>1. DataCells(d) /\ DataIs(d, 0, n) /\ PadsOfSections(d)
        BY <1>6, <3>1
      <4>2. e = [d EXCEPT ![b].v = <<"bad", @>>] /\ damaged' = HdrLen + b
        BY <1>2, <3>1, <3>3, <3>4
      <4>3. QED
        BY <1>1, <1>4, <3>4, <4>1, <4>2, DataDamaged
    <3>6. LockedHeader' = LockedHeader
      <4>1. ASSUME NEW c \in 1..HdrLen
            PROVE  LockedCell(c)' = LockedCell(c)
        <5>1. damaged # c /\ a # c
          BY <1>1, <1>4, <2>2 DEF NONE
        <5>2. QED
          BY <1>1, <1>2, <5>1, DamageFrame DEF LockedCell, Stored
      <4>2. QED
        BY <1>1, <4>1, DamageFrame DEF LockedHeader
    <3>7. QED
      BY <3>2, <3>5, <3>6
  <2>3. QED
    BY <2>1, <2>2
<1>8. PICK h, d : /\ f' = [hdr |-> h, data |-> d] /\ h = LockedHeader'
                  /\ DataCells(d)' /\ DataIs(d, 0, n) /\ PadsOfSections(d)
  BY <1>7
<1>9. f'.hdr = LockedHeader' /\ f'.data = d
  BY <1>8
<1>10. DamageIn' /\ (harm' = "tail" => damaged' \in TailBlocks')
  BY <1>1, <1>2, DamageFrame DEF DamageIn
<1>11. Fixed'
  BY <1>1, <1>3, <1>4, <1>8, <1>10 DEF Fixed, Early, Phases
<1>12. Header'
  BY <1>1, <1>5, <1>9 DEF Header
<1>13. Data'
  BY <1>1, <1>8, <1>9, DamageFrame DEF Data
<1>14. Streams'
  BY <1>1, <1>5, <1>8, <1>9, DamageFrame DEF Streams
<1>15. Verdicts'
  BY <1>1, <1>3, <1>5, DamageFrame DEF Verdicts
<1>16. ~Astray'
  BY <1>1 DEF Astray, Early
<1>17. QED
  BY <1>11, <1>12, <1>13, <1>14, <1>15, <1>16 DEF IInv

-----------------------------------------------------------------------------
(* The readers *)

\* A reader that is not astray reads a header whose numbers are good.
LEMMA ReaderFacts ==
    ASSUME IInv, ~Astray, pc \notin Early
    PROVE  /\ Fixed /\ Header /\ Data /\ Streams /\ Verdicts
           /\ DamageOK /\ ~HeadLost /\ ~Wrong /\ job \in Files
           /\ f = [hdr |-> f.hdr, data |-> f.data]
BY DEF IInv, Astray, Fixed, DamageOK, Numbers, HeadNumbers, HeadLost

LEMMA Readable ==
    ASSUME job \in Files, DamageOK, f.hdr = OpenHeader
    PROVE  /\ ~CountsLost /\ (\A x \in 0..(n - 1) : ~EntryLost(x))
           /\ NHdr(f, M) = n /\ SigLenField(f, M) = SigAt
<1>1. n \in Nat /\ M \in Nat /\ HdrLen = M + 12 + 11 * n
  BY SizeFacts
<1>2. /\ NHdr(f, M) = n /\ SigLenField(f, M) = SigAt
      /\ \A a \in 1..HdrLen : Seen(f.hdr[a]) = Stored(a)
  BY OpenFields
<1>3. ASSUME NEW a \in MetaNumbers
      PROVE  ~Unreadable(a)
  <2>1. a \in 1..HdrLen /\ a - 1 \in 0..(HdrLen - 1)
    BY <1>1 DEF MetaNumbers
  <2>2. damaged # a
    BY DEF DamageOK
  <2>3. Seen(f.hdr[a]) = Final(a - 1)
    BY <1>2, <2>1, <2>2, StoredIsFinal
  <2>4. Final(a - 1)[1] \notin Marks
    BY <2>1, NoValueIsBad
  <2>5. QED
    BY <2>3, <2>4 DEF Unreadable, Marks
<1>4. ~CountsLost
  BY <1>3 DEF CountsLost, MetaNumbers
<1>5. ASSUME NEW x \in 0..(n - 1)
      PROVE  ~EntryLost(x)
  <2>1. \A r \in 1..3 : EntryAt(M, x) + r \in MetaNumbers
    BY <1>1 DEF EntryAt, MetaNumbers
  <2>2. QED
    BY <1>3, <1>4, <2>1 DEF EntryLost
<1>6. QED
  BY <1>2, <1>4, <1>5

\* Once the header is open a reader does not change its way.
LEMMA SameWay ==
    ASSUME job' = job, klist' = klist, damaged' = damaged, harm' = harm, keyid' = keyid
    PROVE  /\ pc \notin Early /\ pc' \notin Early => Astray' = Astray
           /\ Wrong' = Wrong /\ AllLost(f.hdr)' = AllLost(f'.hdr)
           /\ SeenOrLost(f.hdr)' = SeenOrLost(f'.hdr)
<1>1. HdrLen' = HdrLen /\ M' = M /\ Numbers' = Numbers /\ \A a : Stored(a)' = Stored(a)
  BY Frame
<1>2. Wrong' = Wrong
  BY DEF Wrong
<1>3. QED
  BY <1>1, <1>2 DEF Astray, AllLost, SeenOrLost, RowOfCells, Row, IsCell, Seen, Early

LEMMA WanderOn ==
    ASSUME IInv, Astray, job' = job, klist' = klist, damaged' = damaged, harm' = harm,
           keyid' = keyid, Fixed', pc' \notin Early, sig' # "OK",
           pc' \in {"decrypt_data", "verify"} =>
               SeenOrLost(f'.hdr) /\ (AllLost(f.hdr) => AllLost(f'.hdr)),
           pc' \in {"decrypt_data", "verify"} => pc \in {"decrypt_data", "verify"}
    PROVE  IInv'
<1>1. Astray' /\ Wrong' = Wrong /\ AllLost(f.hdr)' = AllLost(f'.hdr)
      /\ SeenOrLost(f.hdr)' = SeenOrLost(f'.hdr)
  BY SameWay DEF Astray
<1>2. Wandering
  BY DEF IInv
<1>3. Wandering'
  BY <1>1, <1>2 DEF Wandering
<1>4. QED
  BY <1>1, <1>3 DEF IInv

\* What becomes of the header of a reader that writes where it should not.
LEMMA SpoiltHeader ==
    ASSUME job \in Files, NEW g, SeenOrLost(g.hdr), NEW S, NEW e, e = Spoiled(g, S)
    PROVE  /\ e = [hdr |-> e.hdr, data |-> e.data]
           /\ SeenOrLost(e.hdr)
           /\ AllLost(g.hdr) => AllLost(e.hdr)
<1>1. PICK h, o, d : h = g.hdr /\ o = Spoilt(h, 0, S) /\ d = Spoilt(g.data, HdrLen, S)
  OBVIOUS
<1>2. e = [hdr |-> o, data |-> d]
  BY <1>1 DEF Spoiled
<1>3. e.hdr = o /\ e = [hdr |-> e.hdr, data |-> e.data]
  BY <1>2
<1>4. HdrLen \in Nat /\ M \in Nat
  BY SizeFacts
<1>5. RowOfCells(h, HdrLen) /\ Len(h) = HdrLen
  BY <1>1, <1>4, RowLen DEF SeenOrLost, RowOfCells
<1>6. o = [a \in 1..HdrLen |-> IF 0 + a \in S THEN [h[a] EXCEPT !.v = GARBAGE] ELSE h[a]]
  BY <1>1, <1>5 DEF Spoilt
<1>7. Row(o, HdrLen)
  BY <1>6 DEF Row
<1>8. ASSUME NEW a \in 1..HdrLen
      PROVE  IsCell(o[a]) /\ (o[a] = h[a] \/ Seen(o[a]) = GARBAGE)
  <2>1. IsCell(h[a]) /\ o[a] = IF 0 + a \in S THEN [h[a] EXCEPT !.v = GARBAGE] ELSE h[a]
    BY <1>5, <1>6 DEF RowOfCells
  <2>2. CASE 0 + a \in S
    <3>1. PICK v, P : v = h[a].v /\ P = h[a].pads
      OBVIOUS
    <3>2. h[a] = [v |-> v, pads |-> P]
      BY <2>1, <3>1 DEF IsCell
    <3>3. o[a] = [v |-> GARBAGE, pads |-> P]
      BY <2>1, <2>2, <3>2
    <3>4. IsCell(o[a]) /\ o[a].v = GARBAGE
      BY <3>3, CellIs
    <3>5. QED
      BY <3>4 DEF Seen
  <2>3. CASE 0 + a \notin S
    BY <2>1, <2>3
  <2>4. QED
    BY <2>2, <2>3
<1>9. SeenOrLost(o)
  BY <1>1, <1>7, <1>8 DEF SeenOrLost, RowOfCells
<1>10. AllLost(h) => AllLost(o)
  <2>1. \A a \in (M + 7)..HdrLen : a \in 1..HdrLen
    BY <1>4
  <2>2. QED
    BY <1>8, <2>1 DEF AllLost
<1>11. QED
  BY <1>1, <1>3, <1>9, <1>10

LEMMA OpenIInv ==
    ASSUME IInv, Open
    PROVE  IInv'
<1>1. /\ pc = "written" /\ i' = i /\ f' = f
      /\ job' = job /\ klist' = klist /\ reader' = reader /\ damaged' = damaged /\ harm' = harm
      /\ keyid' = keyid /\ sig' = sig /\ res' = res
  BY DEF Open
<1>2. /\ Fixed /\ Header /\ Data /\ Streams /\ Verdicts
      /\ keyid = NONE /\ sig = "none" /\ res = <<>> /\ i \in 0..n
      /\ job \in Files /\ f = [hdr |-> f.hdr, data |-> f.data]
  BY <1>1, EarlyFacts DEF Early
<1>3. /\ n' = n /\ LockedHeader' = LockedHeader /\ DamageIn' = DamageIn
      /\ TailBlocks' = TailBlocks /\ HeadNumbers' = HeadNumbers /\ Numbers' = Numbers
      /\ \A d : DataCells(d)' = DataCells(d)
      /\ \A d : PadsOfSections(d)' = PadsOfSections(d)
      /\ \A d, x, y : DataIs(d, x, y)' = DataIs(d, x, y)
      /\ Skips' = Skips
  BY <1>1, Frame DEF Skips
<1>4. /\ pc' \in {"refused", "extract", "decrypt_header"}
      /\ ~HeadLost => (pc' = "extract" => Skips) /\ (pc' = "decrypt_header" => ~Skips)
  BY DEF Open
<1>5. Fixed'
  BY <1>1, <1>2, <1>3, <1>4 DEF Fixed, Phases, Early
<1>6. CASE Astray'
  BY <1>1, <1>2, <1>4, <1>5, <1>6 DEF IInv, Wandering, Astray, Early
<1>7. CASE ~Astray'
  <2>1. pc' = "extract" => Skips
    BY <1>1, <1>3, <1>4, <1>7 DEF Astray, Early, Numbers, HeadNumbers, HeadLost
  <2>2. pc' = "decrypt_header" /\ damaged \notin HeadNumbers => ~Skips
    BY <1>4 DEF HeadNumbers, HeadLost
  <2>3. Locked /\ Locked' /\ ~Opened /\ ~Opened'
    BY <1>1, <1>3, <1>4, <2>1 DEF Locked, Opened
  <2>4. Header'
    BY <1>1, <1>2, <1>3, <1>4, <2>3 DEF Header
  <2>5. Data'
    BY <1>1, <1>2, <1>3 DEF Data
  <2>6. Streams'
    BY <1>1, <1>2, <1>3, <1>4, <2>3 DEF Streams
  <2>7. Verdicts'
    BY <1>1, <1>2, <1>3, <1>4, <2>2, <2>3 DEF Verdicts
  <2>8. QED
    BY <1>5, <1>7, <2>4, <2>5, <2>6, <2>7 DEF IInv
<1>8. QED
  BY <1>6, <1>7

LEMMA DecryptHeaderIInv ==
    ASSUME IInv, DecryptHeader
    PROVE  IInv'
<1>1. /\ pc = "decrypt_header" /\ i' = i
      /\ job' = job /\ klist' = klist /\ reader' = reader /\ damaged' = damaged /\ harm' = harm
      /\ sig' = sig /\ res' = res
  BY DEF DecryptHeader
<1>2. /\ Fixed /\ Header /\ Data /\ Streams /\ Verdicts
      /\ keyid = NONE /\ sig = "none" /\ res = <<>> /\ i \in 0..n
      /\ job \in Files /\ f = [hdr |-> f.hdr, data |-> f.data]
  BY <1>1, EarlyFacts DEF Early
<1>3. /\ n' = n /\ LockedHeader' = LockedHeader /\ DamageIn' = DamageIn
      /\ TailBlocks' = TailBlocks /\ HeadNumbers' = HeadNumbers /\ Numbers' = Numbers
      /\ OpenHeader' = OpenHeader /\ (BadSlot)' = BadSlot
      /\ InFour(damaged)' = InFour(damaged)
      /\ \A d : DataCells(d)' = DataCells(d)
      /\ \A d : PadsOfSections(d)' = PadsOfSections(d)
      /\ \A d, x, y : DataIs(d, x, y)' = DataIs(d, x, y)
      /\ Skips' = Skips
  BY <1>1, Frame DEF Skips
<1>4. Locked /\ ~Opened /\ (damaged \notin HeadNumbers => ~Skips) /\ i = 0
  BY <1>1, <1>2 DEF Locked, Opened, Fixed, Verdicts
<1>5. /\ f = [hdr |-> LockedHeader, data |-> f.data] /\ f.hdr = LockedHeader
      /\ DataCells(f.data) /\ DataIs(f.data, 0, n) /\ PadsOfSections(f.data)
  BY <1>2, <1>4 DEF Header, Data, Streams
<1>6. CASE Opening(f, M, klist) = {}
  <2>1. pc' = "failed" /\ f' = f /\ keyid' = keyid
    BY <1>6 DEF DecryptHeader
  <2>2. Locked' /\ ~Opened'
    BY <1>2, <2>1 DEF Locked, Opened
  <2>3. Fixed'
    BY <1>1, <1>2, <1>3, <2>1 DEF Fixed, Phases, Early
  <2>4. Header'
    BY <1>3, <1>5, <2>1, <2>2 DEF Header
  <2>5. Data'
    BY <1>2, <1>3, <2>1 DEF Data
  <2>6. Streams'
    BY <1>3, <1>5, <2>1, <2>2 DEF Streams
  <2>7. Verdicts'
    BY <1>1, <1>2, <1>3, <2>1, <2>2 DEF Verdicts
  <2>8. Wandering'
    BY <1>1, <1>2, <2>1 DEF Wandering
  <2>9. QED
    BY <2>3, <2>4, <2>5, <2>6, <2>7, <2>8 DEF IInv
<1>7. CASE Opening(f, M, klist) # {}
  <2>1. PICK k, g : k = klist[keyid'] /\ g = sce_decrypt_header(f, M, k)
    OBVIOUS
  <2>2. /\ pc' = "decrypt_data" /\ keyid' = FirstOpening(f, M, klist)
        /\ f' = g \/ (HeadLost /\ \E S \in Wilds : f' = Spoiled(g, S))
    BY <1>7, <2>1 DEF DecryptHeader
  <2>3. Len(klist) \in Nat
    <3>1. klist \in Seq(Keys)
      BY <1>2, KeysAssumption DEF Fixed
    <3>2. QED
      BY <3>1, ElementOf
  <2>4. keyid' \in 1..Len(klist) /\ Opens(f, M, k)
    BY <1>7, <2>1, <2>2, <2>3, FirstOpeningOpens
  <2>5. k.aes = Signer.aes /\ ~InFour(damaged) /\ keyid' # NONE
    BY <1>2, <1>5, <2>3, <2>4, OpensIff DEF NONE
  <2>6. f' = [hdr |-> f'.hdr, data |-> f'.data] => Fixed'
    BY <1>1, <1>2, <1>3, <1>4, <2>1, <2>2, <2>4, <2>5 DEF Fixed, Phases, Early
  <2>7. /\ SeenOrLost(f.hdr)' = SeenOrLost(f'.hdr) /\ AllLost(f.hdr)' = AllLost(f'.hdr)
    <3>1. HdrLen' = HdrLen /\ M' = M /\ \A a : Stored(a)' = Stored(a)
      BY <1>1, Frame
    <3>2. QED
      BY <3>1 DEF AllLost, SeenOrLost, RowOfCells, Row, IsCell, Seen
  <2>8. CASE k.iv = Signer.iv
    <3>1. g = [hdr |-> OpenHeader, data |-> f.data]
      <4>1. PICK e, d : e = f /\ d = f.data
        OBVIOUS
      <4>2. e = [hdr |-> LockedHeader, data |-> d]
        BY <1>5, <4>1
      <4>3. sce_decrypt_header(e, M, k) = [hdr |-> OpenHeader, data |-> d]
        BY <1>2, <2>5, <2>8, <4>2, DecryptHeaderStep
      <4>4. QED
        BY <2>1, <4>1, <4>3
    <3>2. ~Wrong'
      BY <1>1, <2>1, <2>8 DEF Wrong
    <3>3. CASE Astray'
      <4>1. SeenOrLost(g.hdr)
        <5>1. g.hdr = OpenHeader
          BY <3>1
        <5>2. QED
          BY <1>2, <5>1, OpenIsSeen
      <4>2. f' = [hdr |-> f'.hdr, data |-> f'.data] /\ SeenOrLost(f'.hdr)
        <5>1. CASE f' = g
          BY <3>1, <4>1, <5>1
        <5>2. CASE f' # g
          <6>1. PICK S : f' = Spoiled(g, S)
            BY <2>2, <5>2
          <6>2. QED
            BY <1>2, <4>1, <6>1, SpoiltHeader
        <5>3. QED
          BY <5>1, <5>2
      <4>3. Wandering'
        BY <1>1, <1>2, <2>7, <3>2, <4>2 DEF Wandering
      <4>4. QED
        BY <2>6, <3>3, <4>2, <4>3 DEF IInv
    <3>4. CASE ~Astray'
      <4>1. ~HeadLost
        BY <1>1, <1>3, <2>2, <3>4 DEF Astray, Early, Numbers, HeadNumbers, HeadLost
      <4>2. f' = [hdr |-> OpenHeader, data |-> f.data]
        BY <2>2, <3>1, <4>1
      <4>3. f'.hdr = OpenHeader /\ f'.data = f.data /\ f' = [hdr |-> f'.hdr, data |-> f'.data]
        BY <4>2
      <4>4. ~Locked' /\ Opened'
        BY <2>2 DEF Locked, Opened
      <4>5. Header'
        BY <1>3, <2>2, <2>5, <4>3, <4>4 DEF Header
      <4>6. Data'
        BY <1>3, <1>5, <4>3 DEF Data
      <4>7. Streams'
        BY <1>1, <1>3, <1>4, <1>5, <2>2, <4>3, <4>4 DEF Streams
      <4>8. Verdicts'
        BY <1>1, <1>2, <1>3, <1>4, <2>2, <2>5, <4>4 DEF Verdicts
      <4>9. QED
        BY <2>6, <3>4, <4>3, <4>5, <4>6, <4>7, <4>8 DEF IInv
    <3>5. QED
      BY <3>3, <3>4
  <2>9. CASE k.iv # Signer.iv
    <3>1. Wrong' /\ Astray'
      BY <1>1, <2>1, <2>2, <2>5, <2>9 DEF Wrong, Astray, Early
    <3>2. /\ g = [hdr |-> g.hdr, data |-> f.data]
          /\ SeenOrLost(g.hdr) /\ AllLost(g.hdr)
      <4>1. PICK e, d : e = f /\ d = f.data
        OBVIOUS
      <4>2. e = [hdr |-> LockedHeader, data |-> d]
        BY <1>5, <4>1
      <4>3. QED
        BY <1>2, <2>1, <2>5, <2>9, <4>1, <4>2, WrongKeyHeader
    <3>3. /\ f' = [hdr |-> f'.hdr, data |-> f'.data]
          /\ SeenOrLost(f'.hdr) /\ AllLost(f'.hdr)
      <4>1. CASE f' = g
        BY <3>2, <4>1
      <4>2. CASE f' # g
        <5>1. PICK S : f' = Spoiled(g, S)
          BY <2>2, <4>2
        <5>2. QED
          BY <1>2, <3>2, <5>1, SpoiltHeader
      <4>3. QED
        BY <4>1, <4>2
    <3>4. Wandering'
      BY <1>1, <1>2, <2>7, <3>3 DEF Wandering
    <3>5. QED
      BY <2>6, <3>1, <3>3, <3>4 DEF IInv
  <2>10. QED
    BY <2>8, <2>9
<1>8. QED
  BY <1>6, <1>7

\* Encrypting a section leaves the header alone.
LEMMA CryptKeepsHeader ==
    ASSUME NEW g, g = [hdr |-> g.hdr, data |-> g.data], NEW x, NEW e, e = CryptSection(g, M, x)
    PROVE  e = [hdr |-> e.hdr, data |-> e.data] /\ e.hdr = g.hdr
<1>1. \E c : e = g \/ e = [g EXCEPT !.data = c]
  BY DEF CryptSection
<1>2. PICK c : e = g \/ e = [g EXCEPT !.data = c]
  BY <1>1
<1>3. PICK h, d : h = g.hdr /\ d = g.data
  OBVIOUS
<1>4. g = [hdr |-> h, data |-> d]
  BY <1>3
<1>5. e = [hdr |-> h, data |-> d] \/ e = [hdr |-> h, data |-> c]
  BY <1>2, <1>4
<1>6. QED
  BY <1>3, <1>5

LEMMA DecryptDataIInv ==
    ASSUME IInv, DecryptData
    PROVE  IInv'
<1>1. /\ pc = "decrypt_data" /\ Turns /\ i' = i + 1 /\ pc' = pc
      /\ IF EntryLost(i) THEN \E S \in Wilds : f' = Spoiled(f, S)
         ELSE f' = CryptSection(f, M, i)
      /\ job' = job /\ klist' = klist /\ reader' = reader /\ damaged' = damaged /\ harm' = harm
      /\ keyid' = keyid /\ sig' = sig /\ res' = res
  BY DEF DecryptData
<1>2. /\ Fixed /\ job \in Files /\ f = [hdr |-> f.hdr, data |-> f.data] /\ sig = "none"
      /\ n \in Nat
  BY <1>1, SizeFacts DEF IInv, Fixed
<1>3. /\ n' = n /\ DamageIn' = DamageIn /\ TailBlocks' = TailBlocks
      /\ HeadNumbers' = HeadNumbers
      /\ OpenHeader' = OpenHeader /\ (BadSlot)' = BadSlot
      /\ InFour(damaged)' = InFour(damaged)
      /\ \A d : DataCells(d)' = DataCells(d)
      /\ \A d : PadsOfSections(d)' = PadsOfSections(d)
      /\ \A d, x, y : DataIs(d, x, y)' = DataIs(d, x, y)
      /\ Skips' = Skips
  BY <1>1, Frame DEF Skips
<1>4. f' = [hdr |-> f'.hdr, data |-> f'.data] => Fixed'
  BY <1>1, <1>2, <1>3 DEF Fixed, Phases, Early
<1>5. pc \notin Early /\ pc' \notin Early
  BY <1>1 DEF Early
<1>6. CASE Astray
  <2>1. SeenOrLost(f.hdr)
    BY <1>1, <1>6 DEF IInv, Wandering
  <2>2. /\ f' = [hdr |-> f'.hdr, data |-> f'.data]
        /\ SeenOrLost(f'.hdr) /\ (AllLost(f.hdr) => AllLost(f'.hdr))
    <3>1. CASE EntryLost(i)
      <4>1. PICK S : f' = Spoiled(f, S)
        BY <1>1, <3>1
      <4>2. QED
        BY <1>2, <2>1, <4>1, SpoiltHeader
    <3>2. CASE ~EntryLost(i)
      <4>1. f' = CryptSection(f, M, i)
        BY <1>1, <3>2
      <4>2. f' = [hdr |-> f'.hdr, data |-> f'.data] /\ f'.hdr = f.hdr
        BY <1>2, <4>1, CryptKeepsHeader
      <4>3. QED
        BY <2>1, <4>2
    <3>3. QED
      BY <3>1, <3>2
  <2>3. QED
    BY <1>1, <1>2, <1>4, <1>5, <1>6, <2>2, WanderOn
<1>7. CASE ~Astray
  <2>1. Header /\ Data /\ Streams /\ Verdicts /\ DamageOK /\ i \in 0..n
    BY <1>5, <1>7, ReaderFacts DEF Verdicts
  <2>2. ~Locked' /\ Opened' /\ ~Locked /\ Opened
    BY <1>1 DEF Locked, Opened
  <2>3. /\ f.hdr = OpenHeader /\ DataCells(f.data) /\ PadsOfSections(f.data)
        /\ f = [hdr |-> OpenHeader, data |-> f.data] /\ ~InFour(damaged)
        /\ ~BadSlot => DataIs(f.data, i, n)
    BY <1>1, <1>2, <2>1, <2>2 DEF Header, Data, Streams
  <2>4. NHdr(f, M) = n /\ ~CountsLost /\ \A x \in 0..(n - 1) : ~EntryLost(x)
    BY <1>2, <2>1, <2>3, Readable
  <2>5. i \in 0..(n - 1) /\ i + 1 \in 0..n
    BY <1>1, <1>2, <2>1, <2>4 DEF Turns
  <2>6. f' = CryptSection(f, M, i)
    BY <1>1, <2>4, <2>5
  <2>7. PICK c : /\ f' = [hdr |-> OpenHeader, data |-> c]
                 /\ DataCells(c) /\ PadsOfSections(c)
                 /\ ~BadSlot => DataIs(c, i + 1, n)
    <3>1. PICK g, d : g = f /\ d = f.data
      OBVIOUS
    <3>2. g = [hdr |-> OpenHeader, data |-> d]
      BY <2>3, <3>1
    <3>3. DataCells(d) /\ PadsOfSections(d) /\ (~BadSlot => DataIs(d, i, n))
      BY <2>3, <3>1
    <3>4. \E c : /\ CryptSection(g, M, i) = [hdr |-> OpenHeader, data |-> c]
                 /\ DataCells(c) /\ PadsOfSections(c)
                 /\ ~BadSlot /\ DataIs(d, i, n) => DataIs(c, i + 1, n)
      BY <1>2, <2>1, <2>5, <3>2, <3>3, DataStep
    <3>5. QED
      BY <2>6, <3>1, <3>3, <3>4
  <2>8. f'.hdr = OpenHeader /\ f'.data = c /\ f' = [hdr |-> f'.hdr, data |-> f'.data]
    BY <2>7
  <2>9. Header'
    BY <1>1, <1>3, <2>2, <2>3, <2>8 DEF Header
  <2>10. Data'
    BY <1>3, <2>7, <2>8 DEF Data
  <2>11. Streams'
    BY <1>1, <1>3, <2>2, <2>7, <2>8 DEF Streams
  <2>12. Verdicts'
    BY <1>1, <1>2, <1>3, <2>1, <2>2, <2>5 DEF Verdicts
  <2>13. ~Astray'
    BY <1>1, <1>5, <1>7, SameWay
  <2>14. QED
    BY <1>4, <2>8, <2>9, <2>10, <2>11, <2>12, <2>13 DEF IInv
<1>8. QED
  BY <1>6, <1>7

LEMMA DecryptedIInv ==
    ASSUME IInv, Decrypted
    PROVE  IInv'
<1>1. /\ pc = "decrypt_data" /\ NoTurns /\ i' = 0 /\ f' = f
      /\ pc' = IF reader # "sceverify" THEN "extract"
               ELSE IF klist[keyid].pub = "none" THEN "failed" ELSE "verify"
      /\ job' = job /\ klist' = klist /\ reader' = reader /\ damaged' = damaged /\ harm' = harm
      /\ keyid' = keyid /\ sig' = sig /\ res' = res
  BY DEF Decrypted
<1>2. /\ Fixed /\ job \in Files /\ n \in Nat /\ 0 \in 0..n /\ sig = "none" /\ res = <<>>
      /\ keyid # NONE
  BY <1>1, SizeFacts DEF IInv, Fixed
<1>3. /\ n' = n /\ DamageIn' = DamageIn /\ TailBlocks' = TailBlocks
      /\ HeadNumbers' = HeadNumbers
      /\ OpenHeader' = OpenHeader /\ (BadSlot)' = BadSlot
      /\ InFour(damaged)' = InFour(damaged)
      /\ \A d : DataCells(d)' = DataCells(d)
      /\ \A d : PadsOfSections(d)' = PadsOfSections(d)
      /\ \A d, x, y : DataIs(d, x, y)' = DataIs(d, x, y)
      /\ Skips' = Skips
  BY <1>1, Frame DEF Skips
<1>4. pc' \in {"extract", "failed", "verify"} /\ pc \notin Early /\ pc' \notin Early
  BY <1>1 DEF Early
<1>5. Fixed'
  BY <1>1, <1>2, <1>3, <1>4 DEF Fixed, Phases, Early
<1>6. CASE Astray
  <2>1. SeenOrLost(f.hdr)
    BY <1>1, <1>6 DEF IInv, Wandering
  <2>2. QED
    BY <1>1, <1>2, <1>4, <1>5, <1>6, <2>1, WanderOn
<1>7. CASE ~Astray
  <2>1. /\ Header /\ Data /\ Streams /\ Verdicts /\ DamageOK /\ i \in 0..n
        /\ damaged \notin HeadNumbers
    BY <1>4, <1>7, ReaderFacts DEF Verdicts, HeadLost, HeadNumbers
  <2>2. Opened /\ ~Locked /\ ~Skips
    BY <1>1, <2>1 DEF Locked, Opened, Verdicts
  <2>3. f.hdr = OpenHeader /\ ~InFour(damaged) /\ (~BadSlot => DataIs(f.data, i, n))
    BY <1>1, <2>1, <2>2 DEF Header, Streams
  <2>4. NHdr(f, M) = n /\ ~CountsLost
    BY <1>2, <2>1, <2>3, Readable
  <2>5. i = n
    BY <1>1, <1>2, <2>1, <2>4 DEF NoTurns
  <2>6. Opened' /\ ~Locked'
    BY <1>1, <1>2, <1>3, <1>4, <2>2 DEF Locked, Opened
  <2>7. Header'
    BY <1>1, <1>3, <1>4, <2>3, <2>6 DEF Header
  <2>8. Data'
    BY <1>1, <1>3, <2>1 DEF Data
  <2>9. Streams'
    BY <1>1, <1>3, <1>4, <2>3, <2>5, <2>6 DEF Streams
  <2>10. Verdicts'
    BY <1>1, <1>2, <1>3, <1>4, <2>1, <2>6 DEF Verdicts
  <2>11. ~Astray'
    BY <1>1, <1>4, <1>7, SameWay
  <2>12. QED
    BY <1>5, <2>7, <2>8, <2>9, <2>10, <2>11 DEF IInv
<1>8. QED
  BY <1>6, <1>7

-----------------------------------------------------------------------------
(* sceverify *)

\* The signature is right if the key is and nothing that is signed, and no
\* octet of the signature that is in use, is damaged.
LEMMA SignatureIff ==
    ASSUME job \in Files, NEW pub, NEW s, s = [a \in 1..SigAt |-> Stored(a)]
    PROVE  (/\ \A b \in 1..2 : Stored(SigAt + b) = SignatureOf(pub, s, b)
            /\ Stored(SigAt + 3) \in {SignatureOf(pub, s, 3), <<"tail", SignatureOf(pub, s, 3)>>})
           <=> pub = Signer.pub /\ SignatureSpared
<1> DEFINE Right == /\ \A b \in 1..2 : Stored(SigAt + b) = SignatureOf(pub, s, b)
                    /\ Stored(SigAt + 3) \in {SignatureOf(pub, s, 3),
                                              <<"tail", SignatureOf(pub, s, 3)>>}
<1>1. SigAt \in Nat /\ HdrLen = SigAt + 4 /\ n \in Nat /\ n \in 0..n
  <2>1. /\ n \in Nat /\ M \in Nat /\ SigAt = M + 8 + 11 * n /\ HdrLen = M + 12 + 11 * n
        /\ SigAt \in Nat
    BY SizeFacts
  <2>2. QED
    BY ONLY <2>1
<1>2. \A b \in 1..3 : SigAt + b \in 1..HdrLen /\ (SigAt + b) - 1 = SigAt + b - 1
  BY <1>1
<1>3. \A b \in 1..3 : Final((SigAt + b) - 1) = SignatureOf(Signer.pub, ToBeSigned, b)
  BY <1>2, FinalFields DEF SignatureOf
<1>4. ASSUME NEW a \in 1..SigAt
      PROVE  a \in 1..HdrLen /\ ToBeSigned[a] = Final(a - 1)
  <2>1. a \in 1..HdrLen /\ a - 1 \in 0..(HdrLen - 1) /\ a - 1 \notin SigAt..(SigAt + 2)
    BY <1>1
  <2>2. Final(a - 1) = Value(n, a - 1)
    BY <2>1, FinalIsValue
  <2>3. QED
    BY <2>1, <2>2 DEF ToBeSigned
<1>5. ASSUME damaged \notin 1..SigAt
      PROVE  s = ToBeSigned
  <2>1. \A a \in 1..SigAt : Stored(a) = ToBeSigned[a]
    <3>1. \A a \in 1..SigAt : damaged # a
      BY <1>1, <1>5
    <3>2. QED
      BY <1>4, <3>1, StoredIsFinal
  <2>2. QED
    BY <2>1 DEF ToBeSigned
<1>6. ASSUME NEW b \in 1..3, damaged # SigAt + b
      PROVE  Stored(SigAt + b) = SignatureOf(Signer.pub, ToBeSigned, b)
  BY <1>2, <1>3, <1>6, StoredIsFinal
<1>7. ASSUME NEW b \in 1..3, damaged = SigAt + b
      PROVE  Stored(SigAt + b) = <<Mark, SignatureOf(Signer.pub, ToBeSigned, b)>>
  BY <1>2, <1>3, <1>7 DEF Stored
<1>8. ASSUME NEW b \in 1..3, damaged \notin 1..SigAt, damaged # SigAt + b,
             Stored(SigAt + b) = SignatureOf(pub, s, b)
      PROVE  pub = Signer.pub
  <2>1. SignatureOf(pub, s, b) = SignatureOf(Signer.pub, ToBeSigned, b)
    BY <1>6, <1>8
  <2>2. QED
    BY <2>1 DEF SignatureOf
<1>9. SignatureOf(pub, s, 3)[1] = "signature" /\ \A b \in 1..2 : SignatureOf(pub, s, b)[1] = "signature"
  BY DEF SignatureOf
<1>10. Mark \in {"bad", "tail"} /\ (Mark = "bad" <=> Mark # "tail")
  BY DEF Mark
<1>11. CASE damaged \notin 1..(SigAt + 3)
  <2>1. damaged \notin 1..SigAt /\ damaged \notin 1..(SigAt + 2) /\ \A b \in 1..3 : damaged # SigAt + b
    BY <1>1, <1>11
  <2>2. SignatureSpared
    BY <2>1 DEF SignatureSpared
  <2>3. Right => pub = Signer.pub
    BY <1>8, <2>1, 1 \in 1..3, 1 \in 1..2
  <2>4. ASSUME pub = Signer.pub
        PROVE  Right
    <3>1. s = ToBeSigned
      BY <1>5, <2>1
    <3>2. ASSUME NEW b \in 1..3
          PROVE  Stored(SigAt + b) = SignatureOf(pub, s, b)
      <4>1. Stored(SigAt + b) = SignatureOf(Signer.pub, ToBeSigned, b)
        BY <1>6, <2>1
      <4>2. QED
        BY <2>4, <3>1, <4>1
    <3>3. QED
      BY <3>2, 3 \in 1..3, \A b \in 1..2 : b \in 1..3
  <2>5. QED
    BY <2>2, <2>3, <2>4
<1>12. CASE damaged \in (SigAt + 1)..(SigAt + 2)
  <2>1. PICK b \in 1..2 : damaged = SigAt + b
    <3>1. damaged - SigAt \in 1..2 /\ damaged = SigAt + (damaged - SigAt)
      BY <1>1, <1>12
    <3>2. QED
      BY <3>1
  <2>2. Stored(SigAt + b)[1] = Mark
    BY <1>7, <2>1
  <2>3. Stored(SigAt + b) # SignatureOf(pub, s, b)
    BY <1>9, <1>10, <2>2
  <2>4. damaged \in 1..(SigAt + 2)
    BY <1>1, <1>12
  <2>5. QED
    BY <2>3, <2>4 DEF SignatureSpared
<1>13. CASE damaged = SigAt + 3
  <2>1. /\ damaged \notin 1..SigAt /\ damaged \notin 1..(SigAt + 2) /\ damaged # SigAt + 1
        /\ damaged # SigAt + 2
    BY <1>1, <1>13
  <2>2. SignatureSpared <=> Mark = "tail"
    BY <1>10, <1>13, <2>1 DEF SignatureSpared
  <2>3. Stored(SigAt + 3) = <<Mark, SignatureOf(Signer.pub, ToBeSigned, 3)>>
    BY <1>7, <1>13
  <2>4. Right => pub = Signer.pub
    BY <1>8, <2>1, 1 \in 1..3, 1 \in 1..2
  <2>5. Right => Mark = "tail"
    <3>1. ASSUME Mark = "bad" PROVE Stored(SigAt + 3)[1] = "bad"
      BY <2>3, <3>1
    <3>2. <<"tail", SignatureOf(pub, s, 3)>>[1] = "tail"
      OBVIOUS
    <3>3. QED
      BY <1>9, <1>10, <3>1, <3>2
  <2>6. ASSUME pub = Signer.pub, Mark = "tail" PROVE Right
    <3>1. s = ToBeSigned
      BY <1>5, <2>1
    <3>2. \A b \in 1..2 : Stored(SigAt + b) = SignatureOf(Signer.pub, ToBeSigned, b)
      BY <1>6, <2>1
    <3>3. QED
      BY <2>3, <2>6, <3>1, <3>2
  <2>7. QED
    BY <2>2, <2>4, <2>5, <2>6
<1>14. CASE damaged \in 1..SigAt
  <2>1. s[damaged] # ToBeSigned[damaged]
    BY <1>4, <1>14, StoredIsFinal
  <2>2. damaged # SigAt + 1 /\ damaged \in 1..(SigAt + 2)
    BY <1>1, <1>14
  <2>3. Stored(SigAt + 1) = SignatureOf(Signer.pub, ToBeSigned, 1)
    BY <1>6, <2>2, 1 \in 1..3
  <2>4. s # ToBeSigned
    BY <2>1
  <2>5. SignatureOf(Signer.pub, ToBeSigned, 1) # SignatureOf(pub, s, 1)
    BY ONLY <2>4 DEF SignatureOf
  <2>6. Stored(SigAt + 1) # SignatureOf(pub, s, 1)
    BY ONLY <2>3, <2>5
  <2>7. QED
    BY <2>2, <2>6, 1 \in 1..2 DEF SignatureSpared
<1>15. QED
  <2>1. damaged \in 1..(SigAt + 3) =>
            damaged \in 1..SigAt \/ damaged \in (SigAt + 1)..(SigAt + 2) \/ damaged = SigAt + 3
    BY <1>1
  <2>2. QED
    BY <1>11, <1>12, <1>13, <1>14, <2>1

\* A reader that is astray finds no signature that is right: the only one there
\* is begins behind the block SigAt, and of what it signs something is lost.
LEMMA NoSignatureAstray ==
    ASSUME job \in Files, DamageIn, damaged \in Numbers \/ Wrong, SeenOrLost(f.hdr),
           Wrong => AllLost(f.hdr), NEW len \in SigLens, NEW pub
    PROVE  ~GoodSignature(len, pub)
<1> SUFFICES ASSUME GoodSignature(len, pub) PROVE FALSE
  OBVIOUS
<1>1. /\ n \in Nat /\ M \in Nat /\ SigAt = M + 8 + 11 * n /\ HdrLen = M + 12 + 11 * n
      /\ SigAt \in Nat /\ HdrLen = SigAt + 4
  BY SizeFacts
<1>2. PICK s : s = Signed(f, len)
  OBVIOUS
<1>3. Seen(f.hdr[len + 1]) = SignatureOf(pub, s, 1)
  BY <1>2, 1 \in 1..2 DEF GoodSignature
<1>4. SignatureOf(pub, s, 1)[1] = "signature" /\ GARBAGE[1] = "garbage"
  BY DEF SignatureOf, GARBAGE
<1>5. len \in 0..(HdrLen - 3)
  <2>1. CASE CountsLost
    BY <2>1 DEF SigLens
  <2>2. CASE ~CountsLost
    <3>1. M + 7 \in 1..HdrLen /\ (M + 7) - 1 = M + 6 /\ M + 6 + 1 = M + 7
      BY <1>1
    <3>2. Seen(f.hdr[M + 7])[1] \notin {"bad", "tail", "garbage"}
      BY <2>2 DEF CountsLost, Unreadable
    <3>3. Seen(f.hdr[M + 7]) = Stored(M + 7)
      BY <1>4, <3>1, <3>2 DEF SeenOrLost
    <3>4. damaged # M + 7
      <4>1. ASSUME damaged = M + 7 PROVE Stored(M + 7)[1] = Mark
        BY <4>1 DEF Stored
      <4>2. QED
        BY <3>2, <3>3, <4>1 DEF Mark
    <3>5. Stored(M + 7) = <<"counts", SigAt, n>>
      BY <3>1, <3>4, StoredIsFinal, FinalFields
    <3>6. SigLenField(f, M) = SigAt
      BY <3>1, <3>3, <3>5 DEF SigLenField
    <3>7. QED
      BY <1>1, <2>2, <3>6 DEF SigLens
  <2>3. QED
    BY <2>1, <2>2
<1>6. len + 1 \in 1..HdrLen /\ (len + 1) - 1 = len /\ len \in 0..(HdrLen - 1)
  BY <1>1, <1>5
<1>7. Stored(len + 1) = SignatureOf(pub, s, 1) /\ Seen(f.hdr[len + 1]) # GARBAGE
  BY <1>3, <1>4, <1>6 DEF SeenOrLost
<1>8. damaged # len + 1
  <2>1. ASSUME damaged = len + 1 PROVE Stored(len + 1)[1] = Mark
    BY <2>1 DEF Stored
  <2>2. QED
    BY <1>4, <1>7, <2>1 DEF Mark
<1>9. Final(len) = SignatureOf(pub, s, 1)
  BY <1>6, <1>7, <1>8, StoredIsFinal
<1>10. len \in SigAt..(SigAt + 2)
  BY <1>4, <1>6, <1>9, NoValueIsBad
<1>11. len = SigAt /\ s = ToBeSigned
  <2>1. SignatureOf(Signer.pub, ToBeSigned, len - SigAt + 1) = SignatureOf(pub, s, 1)
    BY <1>9, <1>10 DEF Final, SignatureOf
  <2>2. len - SigAt + 1 = 1 /\ s = ToBeSigned
    BY <2>1 DEF SignatureOf
  <2>3. QED
    BY <1>1, <1>10, <2>2
<1>12. ~Wrong
  <2>1. len + 1 \in (M + 7)..HdrLen
    BY <1>1, <1>6, <1>11
  <2>2. QED
    BY <1>7, <2>1 DEF AllLost
<1>13. damaged \in 1..SigAt
  BY <1>1, <1>12 DEF Numbers, HeadNumbers, MetaNumbers
<1>14. s[damaged] = Seen(f.hdr[damaged]) /\ s[damaged] = Final(damaged - 1)
  <2>1. s[damaged] = Seen(f.hdr[damaged])
    BY <1>2, <1>11, <1>13 DEF Signed
  <2>2. damaged \in 1..HdrLen /\ damaged - 1 \in 0..(HdrLen - 1)
        /\ damaged - 1 \notin SigAt..(SigAt + 2)
    BY <1>1, <1>13
  <2>3. ToBeSigned[damaged] = Value(n, damaged - 1)
    BY <1>13 DEF ToBeSigned
  <2>4. Final(damaged - 1) = Value(n, damaged - 1)
    BY <2>2, FinalIsValue
  <2>5. QED
    BY <1>11, <2>1, <2>3, <2>4
<1>15. damaged \in 1..HdrLen /\ damaged - 1 \in 0..(HdrLen - 1)
  BY <1>1, <1>13
<1>16. Seen(f.hdr[damaged]) \in {<<Mark, Final(damaged - 1)>>, GARBAGE}
  BY <1>15 DEF SeenOrLost, Stored
<1>17. Seen(f.hdr[damaged])[1] \in Marks
  BY <1>16 DEF GARBAGE, Mark, Marks
<1>18. QED
  BY <1>14, <1>15, <1>17, NoValueIsBad

LEMMA VerifySignatureIInv ==
    ASSUME IInv, VerifySignature
    PROVE  IInv'
<1>1. /\ pc = "verify" /\ sig = "none" /\ i' = i /\ f' = f /\ pc' = pc
      /\ job' = job /\ klist' = klist /\ reader' = reader /\ damaged' = damaged /\ harm' = harm
      /\ keyid' = keyid /\ res' = res
  BY DEF VerifySignature
<1>2. PICK len \in SigLens :
          sig' = IF GoodSignature(len, klist[keyid].pub) THEN "OK" ELSE "FAIL"
  BY DEF VerifySignature
<1>3. /\ Fixed /\ job \in Files /\ DamageIn /\ res = <<>> /\ keyid # NONE
      /\ SigAt \in Nat /\ HdrLen = SigAt + 4
  <2>1. Fixed
    BY DEF IInv
  <2>2. QED
    BY <1>1, <2>1, SizeFacts DEF Fixed
<1>4. /\ n' = n /\ DamageIn' = DamageIn /\ TailBlocks' = TailBlocks
      /\ HeadNumbers' = HeadNumbers /\ SignatureSpared' = SignatureSpared
      /\ HdrLen' = HdrLen
      /\ OpenHeader' = OpenHeader /\ (BadSlot)' = BadSlot
      /\ InFour(damaged)' = InFour(damaged)
      /\ \A d : DataCells(d)' = DataCells(d)
      /\ \A d : PadsOfSections(d)' = PadsOfSections(d)
      /\ \A d, x, y : DataIs(d, x, y)' = DataIs(d, x, y)
      /\ \A x : Verdict(x)' = Verdict(x)
      /\ Skips' = Skips
  BY <1>1, Frame DEF Skips
<1>5. Fixed'
  BY <1>1, <1>2, <1>3, <1>4 DEF Fixed
<1>6. pc \notin Early /\ pc' \notin Early
  BY <1>1 DEF Early
<1>7. CASE Astray
  <2>1. SeenOrLost(f.hdr) /\ (Wrong => AllLost(f.hdr))
    BY <1>1, <1>7 DEF IInv, Wandering
  <2>2. damaged \in Numbers \/ Wrong
    BY <1>7 DEF Astray
  <2>3. sig' # "OK"
    BY <1>2, <1>3, <2>1, <2>2, NoSignatureAstray
  <2>4. QED
    BY <1>1, <1>5, <1>6, <1>7, <2>1, <2>3, WanderOn
<1>8. CASE ~Astray
  <2>1. Header /\ Data /\ Streams /\ Verdicts /\ DamageOK
    BY <1>6, <1>8, ReaderFacts
  <2>2. Opened /\ ~Locked /\ Opened' /\ ~Locked'
    BY <1>1 DEF Locked, Opened
  <2>3. f.hdr = OpenHeader /\ i = 0
    BY <1>1, <2>1, <2>2 DEF Header, Verdicts
  <2>4. PICK pub : pub = klist[keyid].pub
    OBVIOUS
  <2>5. sig' = IF pub = Signer.pub /\ SignatureSpared THEN "OK" ELSE "FAIL"
    <3>1. len = SigAt /\ \A a \in 1..HdrLen : Seen(f.hdr[a]) = Stored(a)
      BY <1>3, <2>1, <2>3, Readable, OpenFields DEF SigLens
    <3>2. \A b \in 1..3 : SigAt + b \in 1..HdrLen
      BY <1>3
    <3>3. PICK s : s = Signed(f, SigAt)
      OBVIOUS
    <3>4. s = [a \in 1..SigAt |-> Stored(a)]
      <4>1. 1..SigAt \subseteq 1..HdrLen
        BY <1>3
      <4>2. QED
        BY <3>1, <3>3, <4>1 DEF Signed
    <3>5. /\ Seen(f.hdr[SigAt + 3]) = Stored(SigAt + 3)
          /\ \A b \in 1..2 : Seen(f.hdr[SigAt + b]) = Stored(SigAt + b)
      BY <3>1, <3>2
    <3>6. GoodSignature(SigAt, pub) <=>
              /\ \A b \in 1..2 : Stored(SigAt + b) = SignatureOf(pub, s, b)
              /\ Stored(SigAt + 3) \in {SignatureOf(pub, s, 3), <<"tail", SignatureOf(pub, s, 3)>>}
      BY <3>3, <3>5 DEF GoodSignature, Alike
    <3>7. GoodSignature(SigAt, pub) <=> pub = Signer.pub /\ SignatureSpared
      BY <1>3, <3>4, <3>6, SignatureIff
    <3>8. QED
      BY <1>2, <2>4, <3>1, <3>7
  <2>6. Header'
    BY <1>1, <1>4, <2>1, <2>2 DEF Header
  <2>7. Data'
    BY <1>1, <1>4, <2>1 DEF Data
  <2>8. Streams'
    BY <1>1, <1>4, <2>1, <2>2 DEF Streams
  <2>9. Verdicts'
    <3>1. sig' # "none" /\ Len(res') = i' /\ 1..i' = {} /\ res' \in Seq({"OK", "FAIL", "???"})
      BY <1>1, <1>3, <2>3, <2>5
    <3>2. QED
      BY <1>1, <1>3, <1>4, <2>1, <2>2, <2>4, <2>5, <3>1 DEF Verdicts
  <2>10. ~Astray'
    BY <1>1, <1>6, <1>8, SameWay
  <2>11. QED
    BY <1>5, <2>6, <2>7, <2>8, <2>9, <2>10 DEF IInv
<1>9. QED
  BY <1>7, <1>8

\* What is found of a section of a file with a good header.
LEMMA VerdictIs ==
    ASSUME job \in Files, DamageOK, damaged \notin 1..HdrLen, NEW g, g.hdr = OpenHeader,
           \A a \in 1..job.length : g.data[a] = Cell(DataValue(a)), NEW x \in 0..(n - 1)
    PROVE  LET hmac == sha1_hmac(g, x)
           IN  (/\ Slot(g, M, 8 * x) = hmac
                /\ Slot(g, M, 8 * x + 1) \in {<<"hash_end", hmac>>, <<"tail", <<"hash_end", hmac>>>>})
                   <=> ~InSection(x + 1, damaged - HdrLen)
<1>1. /\ n \in Nat /\ SlotsStart \in Nat /\ SigAt = SlotsStart + 8 * n /\ HdrLen = SigAt + 4
      /\ HdrLen \in Nat /\ Sec(x).off \in Nat /\ Sec(x).size \in Nat /\ x \in Nat
  BY SizeFacts, SectionFacts
<1>2. ASSUME NEW r \in 0..7
      PROVE  /\ StoredValues[SlotsStart + 8 * x + r + 1] = SlotOf(n, x, r)
             /\ Slot(g, M, 8 * x + r) = SlotOf(n, x, r)
  <2> DEFINE b == SlotsStart + 8 * x + r + 1
  <2>1. b \in 1..HdrLen /\ b - 1 = SlotsStart + 8 * x + r
    BY <1>1
  <2> HIDE DEF b
  <2>2. Stored(b) = Final(SlotsStart + 8 * x + r)
    BY <2>1, StoredIsFinal
  <2>3. Final(SlotsStart + 8 * x + r) = SlotOf(n, x, r)
    BY FinalFields
  <2>4. Slot(g, M, 8 * x + r) = Stored(b)
    BY OpenFields DEF b
  <2>5. StoredValues[b] = Stored(b)
    BY <2>1 DEF StoredValues
  <2>6. QED
    BY <2>2, <2>3, <2>4, <2>5 DEF b
<1>3. Slot(g, M, 8 * x) = Mac(x) /\ Slot(g, M, 8 * x + 1) = <<"hash_end", Mac(x)>>
  <2>1. Slot(g, M, 8 * x + 0) = SlotOf(n, x, 0) /\ Slot(g, M, 8 * x + 1) = SlotOf(n, x, 1)
    BY <1>2, 0 \in 0..7, 1 \in 0..7
  <2>2. 8 * x + 0 = 8 * x /\ ~(x >= n)
    BY <1>1
  <2>3. QED
    BY <2>1, <2>2 DEF SlotOf
<1>4. PICK keys : keys = [b \in 1..4 |-> Rand("slot", 8 * x + 1 + b)]
  OBVIOUS
<1>5. PICK was, is : /\ was = [b \in 1..Sec(x).size |-> Plain(Sec(x).off + b)]
                     /\ is = [b \in 1..Sec(x).size |-> DataValue(Sec(x).off + b)]
  OBVIOUS
<1>6. Mac(x) = <<"hmac", keys, was>>
  BY <1>4, <1>5 DEF Mac
<1>7. sha1_hmac(g, x) = <<"hmac", keys, is>>
  <2>1. ASSUME NEW b \in 1..4
        PROVE  StoredValues[SlotsStart + 8 * x + 1 + b + 1] = Rand("slot", 8 * x + 1 + b)
    <3>1. /\ 1 + b \in 0..7 /\ 1 + b \notin {0, 1} /\ 8 * x + (1 + b) = 8 * x + 1 + b
          /\ SlotsStart + 8 * x + 1 + b + 1 = SlotsStart + 8 * x + (1 + b) + 1
      BY <1>1
    <3>2. StoredValues[SlotsStart + 8 * x + (1 + b) + 1] = SlotOf(n, x, 1 + b)
      BY <1>2, <3>1
    <3>3. QED
      BY <3>1, <3>2 DEF SlotOf
  <2>2. ReadAs(g, StoredValues)
    BY OpenFields
  <2>3. sha1_hmac(g, x) =
            <<"hmac", [b \in 1..4 |-> StoredValues[SlotsStart + 8 * x + 1 + b + 1]],
              [b \in 1..Sec(x).size |-> DataValue(Sec(x).off + b)]>>
    BY <2>2, HmacIs
  <2>4. [b \in 1..4 |-> StoredValues[SlotsStart + 8 * x + 1 + b + 1]] = keys
    BY <1>4, <2>1
  <2>5. QED
    BY <1>5, <2>3, <2>4
<1>8. is = was <=> ~InSection(x + 1, damaged - HdrLen)
  <2>1. InSection(x + 1, damaged - HdrLen) <=>
            damaged - HdrLen \in (Sec(x).off + 1)..(Sec(x).off + Sec(x).size)
    BY DEF InSection, Sec
  <2>2. damaged \in Int
    BY SizeFacts DEF DamageOK, DamageIn, NONE
  <2>3. ASSUME InSection(x + 1, damaged - HdrLen)
        PROVE  is # was
    <3>1. PICK b : b = damaged - HdrLen - Sec(x).off
      OBVIOUS
    <3>2. b \in 1..Sec(x).size /\ damaged = HdrLen + (Sec(x).off + b)
      BY <1>1, <2>1, <2>2, <2>3, <3>1
    <3>3. is[b] = <<"bad", Plain(Sec(x).off + b)>> /\ was[b] = Plain(Sec(x).off + b)
      BY <1>5, <3>2 DEF DataValue
    <3>4. is[b] # was[b]
      BY <3>3 DEF Plain
    <3>5. QED
      BY <3>4
  <2>4. ASSUME ~InSection(x + 1, damaged - HdrLen)
        PROVE  is = was
    <3>1. \A b \in 1..Sec(x).size : damaged # HdrLen + (Sec(x).off + b)
      BY <1>1, <2>1, <2>2, <2>4
    <3>2. QED
      BY <1>5, <3>1 DEF DataValue
  <2>5. QED
    BY <2>3, <2>4
<1>9. <<"hmac", keys, was>> = <<"hmac", keys, is>> <=> is = was
  OBVIOUS
<1>10. QED
  BY <1>3, <1>6, <1>7, <1>8, <1>9

LEMMA VerifyHashIInv ==
    ASSUME IInv, VerifyHash
    PROVE  IInv'
<1>1. /\ pc = "verify" /\ sig # "none" /\ Turns /\ i' = i + 1 /\ f' = f /\ pc' = pc
      /\ IF HeadLost \/ EntryLost(i)
         THEN \E verdict \in {"OK", "FAIL", "???"} : res' = Append(res, verdict)
         ELSE res' = Append(res, verify_hash(i))
      /\ job' = job /\ klist' = klist /\ reader' = reader /\ damaged' = damaged /\ harm' = harm
      /\ keyid' = keyid /\ sig' = sig
  BY DEF VerifyHash
<1>2. /\ Fixed /\ job \in Files /\ keyid # NONE /\ f = [hdr |-> f.hdr, data |-> f.data]
      /\ SigAt \in Nat /\ HdrLen = SigAt + 4 /\ n \in Nat /\ SlotsStart \in Nat
      /\ M \in Nat /\ SlotsStart = M + 8 + 3 * n
  <2>1. Fixed
    BY DEF IInv
  <2>2. QED
    BY <1>1, <2>1, SizeFacts DEF Fixed
<1>3. /\ n' = n /\ DamageIn' = DamageIn /\ TailBlocks' = TailBlocks
      /\ HeadNumbers' = HeadNumbers /\ SignatureSpared' = SignatureSpared
      /\ HdrLen' = HdrLen
      /\ OpenHeader' = OpenHeader /\ (BadSlot)' = BadSlot
      /\ InFour(damaged)' = InFour(damaged)
      /\ \A d : DataCells(d)' = DataCells(d)
      /\ \A d : PadsOfSections(d)' = PadsOfSections(d)
      /\ \A d, x, y : DataIs(d, x, y)' = DataIs(d, x, y)
      /\ \A x : Verdict(x)' = Verdict(x)
      /\ Skips' = Skips
  BY <1>1, Frame DEF Skips
<1>4. Fixed'
  BY <1>1, <1>2, <1>3 DEF Fixed
<1>5. pc \notin Early /\ pc' \notin Early
  BY <1>1 DEF Early
<1>6. CASE Astray
  <2>1. SeenOrLost(f.hdr) /\ sig # "OK"
    BY <1>1, <1>6 DEF IInv, Wandering
  <2>2. QED
    BY <1>1, <1>4, <1>5, <1>6, <2>1, WanderOn
<1>7. CASE ~Astray
  <2>1. Header /\ Data /\ Streams /\ Verdicts /\ DamageOK /\ ~HeadLost /\ i \in 0..n
    BY <1>5, <1>7, ReaderFacts DEF Verdicts
  <2>2. Opened /\ ~Locked /\ Opened' /\ ~Locked'
    BY <1>1 DEF Locked, Opened
  <2>3. /\ f.hdr = OpenHeader /\ DataCells(f.data) /\ (~BadSlot => DataIs(f.data, n, n))
        /\ res \in Seq({"OK", "FAIL", "???"}) /\ Len(res) = i
    BY <1>1, <2>1, <2>2 DEF Header, Data, Streams, Verdicts
  <2>4. NHdr(f, M) = n /\ ~CountsLost /\ \A x \in 0..(n - 1) : ~EntryLost(x)
    BY <1>2, <2>1, <2>3, Readable
  <2>5. i \in 0..(n - 1) /\ i + 1 \in 0..n
    BY <1>1, <1>2, <2>1, <2>4 DEF Turns
  <2>6. res' = Append(res, verify_hash(i))
    BY <1>1, <2>1, <2>4, <2>5
  <2>7. verify_hash(i) \in {"OK", "FAIL", "???"}
    BY DEF verify_hash
  <2>8. ASSUME damaged \notin 1..HdrLen
        PROVE  verify_hash(i) = Verdict(i + 1)
    <3>1. ShaId(f, M, i) = 8 * i
          /\ Place(f, M, i) = <<"place", BLOCK * HdrLen + Sec(i).off, Sec(i).size>>
      BY <1>2, <2>1, <2>3, <2>5, OpenFields
    <3>2. ShaId(f, M, i) # NONE
      BY <2>5, <3>1 DEF NONE
    <3>3. PICK s : s = BLOCK * HdrLen
      OBVIOUS
    <3>4. /\ s \in Int /\ job.filesize \in Int /\ Sec(i).off \in Nat /\ Sec(i).size \in Nat
      <4>1. job.filesize \in Int
        BY <1>2, FilesAssumption DEF FileType
      <4>2. s \in Int
        BY <1>2, <3>3, BlockAssumption
      <4>3. QED
        BY <1>2, <2>5, <4>1, <4>2, SectionFacts
    <3>5. Place(f, M, i)[2] + Place(f, M, i)[3] > job.filesize + BLOCK * HdrLen
              <=> EndOf(i + 1) > job.filesize
      <4>1. Place(f, M, i)[2] = s + Sec(i).off /\ Place(f, M, i)[3] = Sec(i).size
        BY <3>1, <3>3
      <4>2. EndOf(i + 1) = Sec(i).off + Sec(i).size
        BY DEF EndOf, Sec
      <4>3. (s + Sec(i).off) + Sec(i).size > job.filesize + s
                <=> Sec(i).off + Sec(i).size > job.filesize
        BY <3>4
      <4>4. QED
        BY <3>3, <4>1, <4>2, <4>3
    <3>6. ~BadSlot
      BY <1>2, <2>8 DEF BadSlot
    <3>7. \A a \in 1..job.length : f.data[a] = Cell(DataValue(a))
      BY <1>2, <2>3, <3>6, PlainCells
    <3>8. (/\ Slot(f, M, 8 * i) = sha1_hmac(f, i)
           /\ Slot(f, M, 8 * i + 1) \in {<<"hash_end", sha1_hmac(f, i)>>,
                                         <<"tail", <<"hash_end", sha1_hmac(f, i)>>>>})
              <=> ~InSection(i + 1, damaged - HdrLen)
      BY <1>2, <2>1, <2>3, <2>5, <2>8, <3>7, VerdictIs
    <3>9. GoodHash(i) <=> ~InSection(i + 1, damaged - HdrLen)
      <4>1. PICK at : at = SlotsAt(M, n) + 8 * i
        OBVIOUS
      <4>2. at \in Int /\ SlotsAt(M, n) + (8 * i + 1) + 1 = at + 2
        BY <1>2, <2>5, <4>1 DEF SlotsAt
      <4>3. SlotsAt(M, NHdr(f, M)) + ShaId(f, M, i) = at
        BY <2>4, <3>1, <4>1
      <4>4. Slot(f, M, 8 * i) = Seen(f.hdr[at + 1])
        BY <2>4, <4>1 DEF Slot
      <4>5. Slot(f, M, 8 * i + 1) = Seen(f.hdr[at + 2])
        BY <2>4, <4>2 DEF Slot
      <4>6. GoodHash(i) <=> /\ Seen(f.hdr[at + 1]) = sha1_hmac(f, i)
                            /\ Alike(f.hdr[at + 2], <<"hash_end", sha1_hmac(f, i)>>)
        BY <4>3, Zenon DEF GoodHash
      <4>7. QED
        BY <3>8, <4>4, <4>5, <4>6 DEF Alike
    <3>10. QED
      BY <3>2, <3>5, <3>9 DEF verify_hash, Verdict
  <2>9. Header'
    BY <1>1, <1>3, <2>1, <2>2 DEF Header
  <2>10. Data'
    BY <1>1, <1>3, <2>1 DEF Data
  <2>11. Streams'
    BY <1>1, <1>3, <2>1, <2>2 DEF Streams
  <2>12. Verdicts'
    <3>1. /\ res' \in Seq({"OK", "FAIL", "???"}) /\ Len(res') = i' /\ res'[i + 1] = verify_hash(i)
          /\ \A x \in 1..i : res'[x] = res[x]
      BY <1>1, <2>3, <2>6, <2>7, AppendFacts
    <3>2. 1..i' = 1..i \cup {i + 1}
      BY <1>1, <2>5
    <3>3. damaged' \notin 1..HdrLen' => \A x \in 1..i' : res'[x] = Verdict(x)'
      BY <1>1, <1>3, <2>1, <2>8, <3>1, <3>2 DEF Verdicts
    <3>4. QED
      BY <1>1, <1>2, <1>3, <2>1, <2>2, <2>5, <3>1, <3>3 DEF Verdicts
  <2>13. ~Astray'
    BY <1>1, <1>5, <1>7, SameWay
  <2>14. QED
    BY <1>4, <2>9, <2>10, <2>11, <2>12, <2>13 DEF IInv
<1>8. QED
  BY <1>6, <1>7

LEMMA VerifyEndIInv ==
    ASSUME IInv, VerifyEnd
    PROVE  IInv'
<1>1. /\ pc = "verify" /\ sig # "none" /\ NoTurns /\ i' = i /\ f' = f /\ pc' = "done"
      /\ job' = job /\ klist' = klist /\ reader' = reader /\ damaged' = damaged /\ harm' = harm
      /\ keyid' = keyid /\ sig' = sig /\ res' = res
  BY DEF VerifyEnd
<1>2. Fixed /\ job \in Files /\ n \in Nat /\ keyid # NONE
  BY <1>1, SizeFacts DEF IInv, Fixed
<1>3. /\ n' = n /\ DamageIn' = DamageIn /\ TailBlocks' = TailBlocks
      /\ HeadNumbers' = HeadNumbers /\ SignatureSpared' = SignatureSpared
      /\ HdrLen' = HdrLen
      /\ OpenHeader' = OpenHeader /\ (BadSlot)' = BadSlot
      /\ InFour(damaged)' = InFour(damaged)
      /\ \A d : DataCells(d)' = DataCells(d)
      /\ \A d : PadsOfSections(d)' = PadsOfSections(d)
      /\ \A d, x, y : DataIs(d, x, y)' = DataIs(d, x, y)
      /\ \A x : Verdict(x)' = Verdict(x)
      /\ Skips' = Skips
  BY <1>1, Frame DEF Skips
<1>4. Fixed'
  BY <1>1, <1>2, <1>3 DEF Fixed, Phases, Early
<1>5. pc \notin Early /\ pc' \notin Early
  BY <1>1 DEF Early
<1>6. CASE Astray
  <2>1. sig # "OK"
    BY <1>6 DEF IInv, Wandering
  <2>2. QED
    BY <1>1, <1>4, <1>5, <1>6, <2>1, WanderOn
<1>7. CASE ~Astray
  <2>1. Header /\ Data /\ Streams /\ Verdicts /\ DamageOK /\ i \in 0..n
    BY <1>5, <1>7, ReaderFacts DEF Verdicts
  <2>2. Opened /\ ~Locked /\ Opened' /\ ~Locked'
    BY <1>1 DEF Locked, Opened
  <2>3. f.hdr = OpenHeader
    BY <2>1, <2>2 DEF Header
  <2>4. NHdr(f, M) = n /\ ~CountsLost
    BY <1>2, <2>1, <2>3, Readable
  <2>5. i = n
    BY <1>1, <1>2, <2>1, <2>4 DEF NoTurns
  <2>6. Header'
    BY <1>1, <1>3, <2>1, <2>2 DEF Header
  <2>7. Data'
    BY <1>1, <1>3, <2>1 DEF Data
  <2>8. Streams'
    BY <1>1, <1>3, <2>1, <2>2 DEF Streams
  <2>9. Verdicts'
    BY <1>1, <1>2, <1>3, <2>1, <2>2, <2>5 DEF Verdicts
  <2>10. ~Astray'
    BY <1>1, <1>5, <1>7, SameWay
  <2>11. QED
    BY <1>4, <2>6, <2>7, <2>8, <2>9, <2>10 DEF IInv
<1>8. QED
  BY <1>6, <1>7

LEMMA StrayIInv ==
    ASSUME IInv, Stray
    PROVE  IInv'
<1>1. /\ i' = i /\ f' = f /\ pc' = "lost"
      /\ job' = job /\ klist' = klist /\ reader' = reader /\ damaged' = damaged /\ harm' = harm
      /\ keyid' = keyid /\ sig' = sig /\ res' = res
  BY DEF Stray
<1>2. Fixed
  BY DEF IInv
<1>3. /\ DamageIn' = DamageIn /\ TailBlocks' = TailBlocks /\ Numbers' = Numbers
  BY <1>1, Frame
<1>4. damaged \in Numbers \/ Wrong
  <2>1. CASE HeadLost
    BY <2>1 DEF HeadLost, Numbers, HeadNumbers
  <2>2. CASE ~HeadLost
    <3>1. /\ pc \in {"decrypt_data", "verify"}
          /\ CountsLost \/ \E x \in 0..(n - 1) : EntryLost(x)
      BY <2>2 DEF Stray
    <3>2. pc \notin Early /\ Opened
      BY <3>1 DEF Early, Opened
    <3>3. CASE ~Astray
      <4>1. job \in Files /\ DamageOK /\ f.hdr = OpenHeader
        BY <3>2, <3>3, ReaderFacts DEF Header
      <4>2. QED
        BY <3>1, <4>1, Readable
    <3>4. CASE Astray
      BY <3>4 DEF Astray
    <3>5. QED
      BY <3>3, <3>4
  <2>3. QED
    BY <2>1, <2>2
<1>5. sig # "OK"
  <2>1. CASE pc \in Early
    BY <2>1, EarlyFacts
  <2>2. CASE pc \notin Early
    BY <1>4, <2>2 DEF IInv, Astray, Wandering
  <2>3. QED
    BY <2>1, <2>2
<1>6. Astray'
  BY <1>1, <1>3, <1>4 DEF Astray, Wrong, Early
<1>7. Fixed'
  BY <1>1, <1>2, <1>3, <1>6 DEF Fixed, Phases, Early
<1>8. Wandering'
  BY <1>1, <1>5 DEF Wandering
<1>9. QED
  BY <1>6, <1>7, <1>8 DEF IInv

LEMMA StutterIInv ==
    ASSUME IInv, UNCHANGED vars
    PROVE  IInv'
<1>1. /\ i' = i /\ f' = f /\ pc' = pc
      /\ job' = job /\ klist' = klist /\ reader' = reader /\ damaged' = damaged /\ harm' = harm
      /\ keyid' = keyid /\ sig' = sig /\ res' = res
  BY DEF vars
<1>2. Fixed
  BY DEF IInv
<1>3. /\ n' = n /\ DamageIn' = DamageIn /\ TailBlocks' = TailBlocks /\ Numbers' = Numbers
      /\ HeadNumbers' = HeadNumbers /\ SignatureSpared' = SignatureSpared
      /\ HdrLen' = HdrLen
      /\ OpenHeader' = OpenHeader /\ LockedHeader' = LockedHeader /\ (BadSlot)' = BadSlot
      /\ \A h : HashedHeader(h)' = HashedHeader(h)
      /\ InFour(damaged)' = InFour(damaged)
      /\ \A d : DataCells(d)' = DataCells(d)
      /\ \A d : PadsOfSections(d)' = PadsOfSections(d)
      /\ \A d, x, y : DataIs(d, x, y)' = DataIs(d, x, y)
      /\ \A x : Verdict(x)' = Verdict(x)
      /\ Skips' = Skips
  BY <1>1, Frame DEF Skips
<1>4. Astray' = Astray
  BY <1>1, <1>3 DEF Astray, Wrong, Early
<1>5. Fixed'
  BY <1>1, <1>2, <1>3, <1>4 DEF Fixed, Phases, Early
<1>6. CASE Astray
  <2>1. Wrong' = Wrong /\ AllLost(f.hdr)' = AllLost(f'.hdr)
        /\ SeenOrLost(f.hdr)' = SeenOrLost(f'.hdr)
    BY <1>1, SameWay
  <2>2. Wandering'
    BY <1>1, <1>6, <2>1 DEF IInv, Wandering
  <2>3. QED
    BY <1>4, <1>5, <1>6, <2>2 DEF IInv
<1>7. CASE ~Astray
  <2>1. Header /\ Data /\ Streams /\ Verdicts
    BY <1>7 DEF IInv
  <2>2. Locked' = Locked /\ Opened' = Opened
    BY <1>1, <1>3 DEF Locked, Opened
  <2>3. Header'
    BY <1>1, <1>3, <2>1, <2>2 DEF Header
  <2>4. Data'
    BY <1>1, <1>3, <2>1 DEF Data
  <2>5. Streams'
    BY <1>1, <1>3, <2>1, <2>2 DEF Streams
  <2>6. Verdicts'
    BY <1>1, <1>3, <2>1, <2>2 DEF Verdicts
  <2>7. QED
    BY <1>4, <1>5, <1>7, <2>3, <2>4, <2>5, <2>6 DEF IInv
<1>8. QED
  BY <1>6, <1>7

LEMMA NextIInv ==
    ASSUME IInv, [Next]_vars
    PROVE  IInv'
BY HashIInv, SignIInv, EncryptDataIInv, EncryptHeaderIInv, DamageIInv, StrayIInv, OpenIInv,
   DecryptHeaderIInv, DecryptDataIInv, DecryptedIInv, VerifySignatureIInv, VerifyHashIInv,
   VerifyEndIInv, StutterIInv DEF Next

\* The inductive invariant holds in every state.
THEOREM InvariantHolds == Spec => []IInv
BY InitIInv, NextIInv, PTL DEF Spec

-----------------------------------------------------------------------------
(* The properties *)

\* Where the file is in the clear, and where its header is encrypted.
LEMMA PhaseCases ==
    ASSUME IInv, ~Astray
    PROVE  /\ pc = "hash" \/ pc = "encrypt" \/ Locked \/ Opened
           /\ Header /\ Data /\ Streams /\ Verdicts
BY DEF IInv, Fixed, Phases, Locked, Opened, Verdicts

\* An undamaged file is read as it is with the key and the iv of the producer.
LEMMA NotAstray ==
    ASSUME IInv, RightKey, damaged = NONE \/ damaged > HdrLen
    PROVE  ~Astray
<1>1. job \in Files
  BY DEF IInv, Fixed
<1>2. n \in Nat /\ M \in Nat /\ HdrLen = M + 12 + 11 * n
  BY <1>1, SizeFacts
<1>3. damaged \notin Numbers
  BY <1>2 DEF Numbers, HeadNumbers, MetaNumbers, NONE
<1>4. QED
  BY <1>3 DEF Astray, Wrong, RightKey

\* The key stream on the header.
LEMMA HeaderPads ==
    ASSUME IInv, ~Astray
    PROVE  /\ Row(f.hdr, HdrLen)
           /\ \A a \in 1..HdrLen : f.hdr[a].pads \in {{}, {HeaderPad(a)}}
<1>1. Header
  BY DEF IInv
<1>2. CASE pc = "hash"
  <2>1. f.hdr = HashedHeader(i)
    BY <1>1, <1>2 DEF Header
  <2>2. ASSUME NEW a \in 1..HdrLen
        PROVE  f.hdr[a].pads = {}
    <3>1. f.hdr[a] = Cell(Value(i, a - 1))
      BY <2>1 DEF HashedHeader
    <3>2. QED
      BY <3>1, CellIs
  <2>3. QED
    BY <2>1, <2>2 DEF HashedHeader, Row
<1>3. CASE pc = "encrypt" \/ Opened
  <2>1. f.hdr = OpenHeader
    BY <1>1, <1>3 DEF Header
  <2>2. ASSUME NEW a \in 1..HdrLen
        PROVE  f.hdr[a].pads = {}
    <3>1. f.hdr[a] = Cell(Stored(a))
      BY <2>1 DEF OpenHeader
    <3>2. QED
      BY <3>1, CellIs
  <2>3. QED
    BY <2>1, <2>2 DEF OpenHeader, Row
<1>4. CASE Locked
  <2>1. f.hdr = LockedHeader
    BY <1>1, <1>4 DEF Header
  <2>2. ASSUME NEW a \in 1..HdrLen
        PROVE  f.hdr[a].pads \in {{}, {HeaderPad(a)}}
    <3>1. f.hdr[a] = LockedCell(a)
      BY <2>1 DEF LockedHeader
    <3>2. CASE InFour(a)
      <4>1. PICK v : LockedCell(a) = Cell(v)
        BY <3>2 DEF LockedCell
      <4>2. Cell(v).pads = {}
        BY CellIs
      <4>3. QED
        BY <3>1, <4>1, <4>2
    <3>3. CASE ~InFour(a)
      <4>1. PICK P \in {{}, {HeaderPad(a)}} : LockedCell(a) = [v |-> Stored(a), pads |-> P]
        BY <3>3 DEF LockedCell
      <4>2. PICK v : v = Stored(a)
        OBVIOUS
      <4>3. [v |-> v, pads |-> P].pads = P
        BY CellIs
      <4>4. f.hdr[a].pads = P
        BY <3>1, <4>1, <4>2, <4>3
      <4>5. QED
        BY <4>4
    <3>4. QED
      BY <3>2, <3>3
  <2>3. QED
    BY <2>1, <2>2 DEF LockedHeader, Row
<1>5. QED
  BY <1>2, <1>3, <1>4, PhaseCases

LEMMA HeaderPadsDiffer ==
    ASSUME job \in Files, NEW a \in 1..HdrLen, NEW b \in 1..HdrLen, a # b
    PROVE  HeaderPad(a) # HeaderPad(b)
<1>1. M \in Nat /\ HdrLen \in Nat
  BY SizeFacts
<1>2. PICK iv : iv = <<Rand("iv", 0), 0>>
  OBVIOUS
<1>3. HeaderPad(a).count = iv[2] + (a - M - 7) \div 1
      /\ HeaderPad(b).count = iv[2] + (b - M - 7) \div 1
  BY <1>2 DEF HeaderPad, Pad
<1>4. iv[2] = 0
  BY <1>2
<1>5. iv[2] + (a - M - 7) \div 1 # iv[2] + (b - M - 7) \div 1
  BY <1>1, <1>4
<1>6. QED
  BY <1>3, <1>5

\* The key of the header is no key of a section, damaged or not.
LEMMA HeaderPadOfNoSection ==
    ASSUME NEW a, NEW p, NEW x, NEW b, OfSection(p, x, b)
    PROVE  p # HeaderPad(a)
<1>1. HeaderPad(a).key = Rand("key", 0)
  BY DEF HeaderPad, Pad
<1>2. Rand("key", 0) # Rand("slot", 8 * x + 6)
  BY DEF Rand
<1>3. Rand("key", 0) # <<"bad", Rand("slot", 8 * x + 6)>>
      /\ Rand("key", 0) # <<"tail", Rand("slot", 8 * x + 6)>>
  BY DEF Rand
<1>4. QED
  BY <1>1, <1>2, <1>3 DEF OfSection

\* Cell a of the file: of its header, or of its data.
LEMMA CellsAt ==
    ASSUME IInv, ~Astray
    PROVE  /\ Len(Cells) = HdrLen + job.length
           /\ \A a \in 1..HdrLen : Cells[a] = f.hdr[a]
           /\ \A a \in (HdrLen + 1)..(HdrLen + job.length) : Cells[a] = f.data[a - HdrLen]
<1>1. job \in Files /\ HdrLen \in Nat /\ job.length \in Nat
  BY SizeFacts DEF IInv, Fixed
<1>2. PICK h, d : h = f.hdr /\ d = f.data
  OBVIOUS
<1>3. Row(h, HdrLen) /\ Row(d, job.length)
  BY <1>2, HeaderPads DEF IInv, Data, DataCells, RowOfCells
<1>4. Len(h) = HdrLen /\ Len(d) = job.length
  BY <1>1, <1>3, RowLen
<1>5. PICK S : S = {h[a] : a \in 1..HdrLen} \cup {d[a] : a \in 1..job.length}
  OBVIOUS
<1>6. h \in Seq(S) /\ d \in Seq(S)
  <2>1. h \in [1..HdrLen -> S]
    BY <1>3, <1>5 DEF Row
  <2>2. d \in [1..job.length -> S]
    BY <1>3, <1>5 DEF Row
  <2>3. QED
    BY <1>1, <2>1, <2>2
<1>7. /\ Len(h \o d) = Len(h) + Len(d)
      /\ \A a \in 1..(Len(h) + Len(d)) :
             (h \o d)[a] = IF a <= Len(h) THEN h[a] ELSE d[a - Len(h)]
  BY <1>6, ConcatProperties
<1>8. PICK c : c = h \o d
  OBVIOUS
<1>9. Cells = c
  BY <1>2, <1>8 DEF Cells
<1>10. /\ Len(c) = HdrLen + job.length
       /\ \A a \in 1..(HdrLen + job.length) :
              c[a] = IF a <= HdrLen THEN h[a] ELSE d[a - HdrLen]
  BY <1>4, <1>7, <1>8
<1>11. /\ \A a \in 1..HdrLen : a <= HdrLen /\ a \in 1..(HdrLen + job.length)
       /\ \A a \in (HdrLen + 1)..(HdrLen + job.length) :
              ~(a <= HdrLen) /\ a \in 1..(HdrLen + job.length)
  BY <1>1
<1>12. QED
  BY <1>2, <1>9, <1>10, <1>11

\* No byte of key stream is used for two bytes of the file.  The producer and
\* the readers call aes128ctr() for the header with its own key and with a
\* counter that goes on, and for each section with the two slots it has for
\* itself, so this holds where sections overlap too.
THEOREM NoKeyStreamTwice == Spec => []KeyStreamUsedOnce
<1>1. ASSUME IInv
      PROVE  KeyStreamUsedOnce
  <2>0. SUFFICES ASSUME damaged = NONE, RightKey
                 PROVE  \A a, b \in 1..Len(Cells) : a # b => Cells[a].pads \cap Cells[b].pads = {}
    BY DEF KeyStreamUsedOnce
  <2>a. ~Astray
    BY <1>1, <2>0, NotAstray
  <2>1. job \in Files /\ HdrLen \in Nat /\ job.length \in Nat
    BY <1>1, SizeFacts DEF IInv, Fixed
  <2>2. \A a \in 1..HdrLen : Cells[a].pads \in {{}, {HeaderPad(a)}}
    BY <1>1, <2>a, CellsAt, HeaderPads
  <2>3. ASSUME NEW a \in (HdrLen + 1)..(HdrLen + job.length), NEW p \in Cells[a].pads
        PROVE  /\ a - HdrLen \in 1..job.length
               /\ \E x \in 0..(n - 1) : OfSection(p, x, a - HdrLen)
    <3>1. a - HdrLen \in 1..job.length
      BY <2>1
    <3>2. p \in f.data[a - HdrLen].pads
      BY <1>1, <2>a, CellsAt
    <3>3. PadsOfSections(f.data)
      BY <1>1, <2>a DEF IInv, Data
    <3>4. QED
      BY <3>1, <3>2, <3>3 DEF PadsOfSections
  <2>4. SUFFICES ASSUME NEW a \in 1..(HdrLen + job.length), NEW b \in 1..(HdrLen + job.length),
                        NEW p, p \in Cells[a].pads, p \in Cells[b].pads
                 PROVE  a = b
    <3>1. Len(Cells) = HdrLen + job.length
      BY <1>1, <2>a, CellsAt
    <3>2. QED
      BY <2>4, <3>1
  <2>5. ASSUME NEW c \in 1..(HdrLen + job.length)
        PROVE  c \in 1..HdrLen \/ c \in (HdrLen + 1)..(HdrLen + job.length)
    BY <2>1
  <2>6. CASE a \in 1..HdrLen /\ b \in 1..HdrLen
    <3>1. p = HeaderPad(a) /\ p = HeaderPad(b)
      BY <2>2, <2>4, <2>6
    <3>2. QED
      BY <2>1, <2>6, <3>1, HeaderPadsDiffer
  <2>7. CASE a \in 1..HdrLen /\ b \in (HdrLen + 1)..(HdrLen + job.length)
    <3>1. p = HeaderPad(a)
      BY <2>2, <2>4, <2>7
    <3>2. QED
      BY <2>3, <2>4, <2>7, <3>1, HeaderPadOfNoSection
  <2>8. CASE b \in 1..HdrLen /\ a \in (HdrLen + 1)..(HdrLen + job.length)
    <3>1. p = HeaderPad(b)
      BY <2>2, <2>4, <2>8
    <3>2. QED
      BY <2>3, <2>4, <2>8, <3>1, HeaderPadOfNoSection
  <2>9. CASE /\ a \in (HdrLen + 1)..(HdrLen + job.length)
             /\ b \in (HdrLen + 1)..(HdrLen + job.length)
    <3>1. PICK x \in 0..(n - 1) : OfSection(p, x, a - HdrLen)
      BY <2>3, <2>4, <2>9
    <3>2. PICK y \in 0..(n - 1) : OfSection(p, y, b - HdrLen)
      BY <2>3, <2>4, <2>9
    <3>3. a - HdrLen \in 1..job.length /\ b - HdrLen \in 1..job.length
      BY <2>1, <2>9
    <3>4. a - HdrLen = b - HdrLen
      BY <2>1, <3>1, <3>2, <3>3, OneSection
    <3>5. QED
      BY <2>1, <3>4
  <2>10. QED
    BY <2>5, <2>6, <2>7, <2>8, <2>9
<1>2. QED
  BY <1>1, InvariantHolds, PTL

\* What is to be encrypted is not left in the clear by sce_encrypt_data() and
\* sce_encrypt_header(): no section cancels the key stream of another.
THEOREM WrittenIsEncrypted == Spec => []NothingInClear
<1>1. ASSUME IInv
      PROVE  NothingInClear
  <2> SUFFICES ASSUME pc = "written"
               PROVE  /\ \A a \in (M + 3)..(M + 6) : f.hdr[a].v[1] \in {"cbc", "bad"}
                      /\ \A a \in (M + 7)..HdrLen : f.hdr[a].pads # {}
                      /\ \A x \in 1..n : job.sections[x].enc =>
                           \A a \in 1..job.length : InSection(x, a) => f.data[a].pads # {}
    BY DEF NothingInClear
  <2>1. job \in Files /\ HdrLen = M + 12 + 11 * n /\ n \in Nat /\ M \in Nat
    BY <1>1, SizeFacts DEF IInv, Fixed
  <2>2. f.hdr = LockedHeader /\ DataIs(f.data, 0, n)
    BY <1>1, EarlyFacts DEF Early, Header, Streams, Locked
  <2>3. ASSUME NEW a \in (M + 3)..(M + 6)
        PROVE  f.hdr[a].v[1] \in {"cbc", "bad"}
    <3>1. a \in 1..HdrLen /\ InFour(a)
      BY <2>1 DEF InFour
    <3>2. f.hdr[a].v = IF damaged = a THEN <<Mark, Sealed(a)>> ELSE Sealed(a)
      BY <2>2, <3>1, CellIs DEF LockedHeader, LockedCell
    <3>3. a \notin TailBlocks
      BY <2>1 DEF TailBlocks, SigAt, SlotsAt
    <3>4. damaged = a => Mark = "bad"
      BY <1>1, <3>3 DEF IInv, Fixed, Mark
    <3>5. QED
      BY <3>2, <3>4 DEF Sealed
  <2>4. ASSUME NEW a \in (M + 7)..HdrLen
        PROVE  f.hdr[a].pads # {}
    <3>1. a \in 1..HdrLen /\ ~InFour(a) /\ a >= M + 7
      BY <2>1 DEF InFour
    <3>2. f.hdr[a].pads = {HeaderPad(a)}
      BY <2>2, <3>1, CellIs DEF LockedHeader, LockedCell
    <3>3. QED
      BY <3>2
  <2>5. ASSUME NEW x \in 1..n, job.sections[x].enc, NEW a \in 1..job.length, InSection(x, a)
        PROVE  f.data[a].pads # {}
    <3>1. PICK y : y = x - 1
      OBVIOUS
    <3>2. y \in 0..(n - 1) /\ y + 1 = x
      BY <2>1, <3>1
    <3>3. Sec(y).enc /\ Covers(y, a)
      BY <2>5, <3>2 DEF Sec, Covers, InSection
    <3>4. DataPad(y, a) \in DataPads(0, n, a)
      BY <3>2, <3>3 DEF DataPads
    <3>5. QED
      BY <2>2, <3>4 DEF DataIs
  <2>6. QED
    BY <2>3, <2>4, <2>5
<1>2. QED
  BY <1>1, InvariantHolds, PTL

LEMMA NoneIsNowhere ==
    ASSUME job \in Files, damaged = NONE
    PROVE  /\ ~BadSlot /\ damaged \notin 1..HdrLen /\ damaged \notin 1..(SigAt + 3)
           /\ \A a \in 1..job.length : damaged # HdrLen + a
           /\ \A a \in 1..HdrLen : damaged # a
BY SizeFacts DEF NONE, BadSlot

\* Behind the decryption the data that is not damaged is the plain data.
LEMMA DataRestored ==
    ASSUME IInv, ~Astray, Opened, pc # "decrypt_data", ~BadSlot
    PROVE  \A a \in 1..job.length : damaged # HdrLen + a => f.data[a] = Cell(Plain(a))
<1> SUFFICES ASSUME NEW a \in 1..job.length, damaged # HdrLen + a
             PROVE  f.data[a] = Cell(Plain(a))
  OBVIOUS
<1>1. PICK d : d = f.data
  OBVIOUS
<1>2. DataCells(d) /\ DataIs(d, n, n) /\ job \in Files
  BY <1>1 DEF IInv, Data, Streams, Fixed
<1>3. IsCell(d[a]) /\ d[a].v = Plain(a)
  BY <1>2 DEF DataCells, RowOfCells, DataValue
<1>4. n..(n - 1) = {}
  BY <1>2, SizeFacts
<1>5. d[a].pads = {}
  BY <1>2, <1>4 DEF DataIs, DataPads
<1>6. QED
  BY <1>1, <1>3, <1>5 DEF IsCell, Cell

\* unself, unpkg and sceverify restore the file that makeself and pkg have
\* encrypted: the header with all its entries, and the data where several
\* sections are encrypted over each other as well.
THEOREM ReadersRestore == Spec => []Restored
<1>1. ASSUME IInv
      PROVE  Restored
  <2>1. SUFFICES ASSUME (pc = "extract" /\ ~Skips) \/ pc \in {"verify", "done"}, damaged = NONE,
                        RightKey
                 PROVE  /\ \A a \in 1..HdrLen : f.hdr[a].pads = {}
                        /\ \A a \in 1..(M + 8 + 3 * n) : f.hdr[a] = HeaderCell(a - 1)
                        /\ f.data = PlainFile.data
    BY DEF Restored
  <2>2. Opened /\ pc # "decrypt_data" /\ ~Astray
    BY <1>1, <2>1, NotAstray DEF Opened
  <2>3. /\ job \in Files /\ n \in Nat /\ M \in Nat /\ HdrLen = M + 12 + 11 * n
        /\ SlotsStart = M + 8 + 3 * n /\ SigAt = M + 8 + 11 * n
    BY <1>1, SizeFacts DEF IInv, Fixed
  <2>4. f.hdr = OpenHeader
    BY <1>1, <2>2 DEF IInv, Header
  <2>5. \A a \in 1..HdrLen : f.hdr[a] = Cell(Final(a - 1))
    BY <2>1, <2>3, <2>4, StoredIsFinal, NoneIsNowhere DEF OpenHeader
  <2>6. ASSUME NEW a \in 1..HdrLen
        PROVE  f.hdr[a].pads = {}
    <3>1. f.hdr[a] = Cell(Final(a - 1))
      BY <2>5
    <3>2. QED
      BY <3>1, CellIs
  <2>7. ASSUME NEW a \in 1..(M + 8 + 3 * n)
        PROVE  f.hdr[a] = HeaderCell(a - 1)
    <3>1. a \in 1..HdrLen /\ a - 1 \notin SigAt..(SigAt + 2) /\ a - 1 \notin SlotsStart..(SigAt - 1)
      BY <2>3
    <3>2. Final(a - 1) = HeaderCell(a - 1).v /\ Value(0, a - 1) = HeaderCell(a - 1).v
      BY <3>1 DEF Final, Value
    <3>3. HeaderCell(a - 1) = Cell(Value(0, a - 1))
      <4>1. PlainFile.hdr[a] = HashedHeader(0)[a]
        BY <2>3, PlainHeader
      <4>2. QED
        BY <3>1, <4>1 DEF PlainFile, HashedHeader
    <3>4. QED
      BY <2>5, <3>1, <3>2, <3>3
  <2>8. f.data = PlainFile.data
    <3>1. PlainFile.data = [a \in 1..job.length |-> Cell(Plain(a))]
      BY <2>1, <2>3, PlainDataIs
    <3>2. Row(f.data, job.length)
      BY <1>1, <2>2 DEF IInv, Data, DataCells, RowOfCells
    <3>3. \A a \in 1..job.length : f.data[a] = Cell(Plain(a))
      BY <1>1, <2>1, <2>2, <2>3, DataRestored, NoneIsNowhere
    <3>4. QED
      BY <3>1, <3>2, <3>3 DEF Row
  <2>9. QED
    BY <2>6, <2>7, <2>8
<1>2. QED
  BY <1>1, InvariantHolds, PTL

\* What verify_signature() and verify_hashes() of sceverify have reported.
LEMMA Reported ==
    ASSUME IInv, pc = "done", ~Astray
    PROVE  /\ sig = IF klist[keyid].pub = Signer.pub /\ SignatureSpared THEN "OK" ELSE "FAIL"
           /\ Len(res) = n
           /\ damaged \notin 1..HdrLen => \A x \in 1..n : res[x] = Verdict(x)
BY DEF IInv, Fixed, Verdicts

\* A good file is found good with the key of the producer, whatever other keys
\* the list holds.  If a key with another iv opens the header first, the file is
\* found bad.
THEOREM GoodFilePasses == Spec => []VerdictOnGoodFile
<1>1. ASSUME IInv
      PROVE  VerdictOnGoodFile
  <2>1. SUFFICES ASSUME pc = "done", damaged = NONE
                 PROVE  /\ klist[keyid].aes = Signer.aes
                        /\ ~RightKey => sig = "FAIL"
                        /\ RightKey =>
                             /\ sig = IF klist[keyid].pub = Signer.pub THEN "OK" ELSE "FAIL"
                             /\ \A x \in 1..n :
                                  res[x] = IF EndOf(x) > job.filesize THEN "???" ELSE "OK"
    BY DEF VerdictOnGoodFile
  <2>2. /\ job \in Files /\ HdrLen \in Nat /\ klist[keyid].aes = Signer.aes
        /\ sig \in {"OK", "FAIL"}
    BY <1>1, <2>1, SizeFacts DEF IInv, Fixed
  <2>3. ASSUME ~RightKey
        PROVE  sig = "FAIL"
    <3>1. Astray
      BY <2>1, <2>3 DEF Astray, Wrong, RightKey, Early
    <3>2. QED
      BY <1>1, <2>2, <3>1 DEF IInv, Wandering
  <2>4. ASSUME NEW x \in 1..n
        PROVE  ~InSection(x, damaged - HdrLen)
    <3>1. PICK y : y = x - 1
      OBVIOUS
    <3>2. y \in 0..(n - 1) /\ y + 1 = x
      BY <2>2, <3>1, SizeFacts
    <3>3. job.sections[x].off \in Nat
      BY <2>2, <3>2, SectionFacts DEF Sec
    <3>4. QED
      BY <2>1, <2>2, <3>3 DEF InSection, NONE
  <2>5. ASSUME RightKey
        PROVE  /\ sig = IF klist[keyid].pub = Signer.pub THEN "OK" ELSE "FAIL"
               /\ \A x \in 1..n : res[x] = IF EndOf(x) > job.filesize THEN "???" ELSE "OK"
    <3>1. ~Astray
      BY <1>1, <2>1, <2>5, NotAstray
    <3>2. SignatureSpared /\ damaged \notin 1..HdrLen
      BY <2>1, <2>2, SizeFacts DEF SignatureSpared, NONE
    <3>3. QED
      BY <1>1, <2>1, <2>4, <3>1, <3>2, Reported DEF Verdict
  <2>6. QED
    BY <2>2, <2>3, <2>5
<1>2. QED
  BY <1>1, InvariantHolds, PTL

\* A damaged file is found bad, or the damage is where nothing is checked: any
\* one cell of it, those with the numbers that the readers follow, too.
THEOREM DamageFound == Spec => []DamageNoticed
<1>1. ASSUME IInv
      PROVE  DamageNoticed
  <2>1. SUFFICES ASSUME pc = "done", damaged # NONE, sig = "OK",
                        \A x \in 1..Len(res) : res[x] # "FAIL"
                 PROVE  \/ damaged \in (SigAt + 4)..HdrLen
                        \/ damaged = SigAt + 3 /\ harm = "tail"
                        \/ /\ damaged > HdrLen
                           /\ \A x \in 1..n :
                                InSection(x, damaged - HdrLen) => EndOf(x) > job.filesize
    BY DEF DamageNoticed
  <2>2. /\ job \in Files /\ HdrLen \in Nat /\ SigAt \in Nat /\ job.length \in Nat
        /\ damaged \in 1..(HdrLen + job.length)
    BY <1>1, <2>1, SizeFacts DEF IInv, Fixed, DamageIn
  <2>3. ~Astray
    BY <1>1, <2>1 DEF IInv, Wandering
  <2>4. damaged \notin 1..(SigAt + 2) /\ (damaged = SigAt + 3 => harm = "tail")
    BY <1>1, <2>1, <2>3, Reported DEF SignatureSpared, Mark
  <2>5. CASE damaged <= HdrLen
    BY <2>2, <2>4, <2>5
  <2>6. CASE damaged > HdrLen
    <3>1. damaged \notin 1..HdrLen
      BY <2>2, <2>6
    <3>2. \A x \in 1..n : Verdict(x) # "FAIL"
      BY <1>1, <2>1, <2>3, <3>1, Reported
    <3>3. QED
      BY <2>6, <3>2 DEF Verdict
  <2>7. QED
    BY <2>2, <2>5, <2>6
<1>2. QED
  BY <1>1, InvariantHolds, PTL

\* A damaged byte of the data spoils nothing but the hashes of its sections.
THEOREM DamageIsLocal == Spec => []DamageStaysLocal
<1>1. ASSUME IInv
      PROVE  DamageStaysLocal
  <2>1. SUFFICES ASSUME pc = "done", damaged > HdrLen, RightKey
                 PROVE  /\ sig = IF klist[keyid].pub = Signer.pub THEN "OK" ELSE "FAIL"
                        /\ \A x \in 1..n : ~InSection(x, damaged - HdrLen) => res[x] # "FAIL"
                        /\ \A a \in 1..job.length :
                             a # damaged - HdrLen => f.data[a] = PlainFile.data[a]
    BY DEF DamageStaysLocal
  <2>2. /\ job \in Files /\ HdrLen \in Nat /\ HdrLen = SigAt + 4 /\ SigAt \in Nat
        /\ job.length \in Nat /\ damaged # NONE /\ damaged \in 1..(HdrLen + job.length)
    <3>1. job \in Files /\ DamageIn
      BY <1>1 DEF IInv, Fixed
    <3>2. /\ HdrLen \in Nat /\ SigAt \in Nat /\ job.length \in Nat
          /\ n \in Nat /\ M \in Nat /\ SigAt = M + 8 + 11 * n /\ HdrLen = M + 12 + 11 * n
      BY <3>1, SizeFacts
    <3>3. HdrLen = SigAt + 4
      BY ONLY <3>2
    <3>4. QED
      BY <2>1, <3>1, <3>2, <3>3 DEF DamageIn, NONE
  <2>3. SignatureSpared /\ damaged \notin 1..HdrLen /\ ~BadSlot /\ ~Astray
    BY <1>1, <2>1, <2>2, NotAstray DEF BadSlot, SignatureSpared
  <2>4. sig = IF klist[keyid].pub = Signer.pub THEN "OK" ELSE "FAIL"
    BY <1>1, <2>1, <2>3, Reported
  <2>5. \A x \in 1..n : ~InSection(x, damaged - HdrLen) => res[x] # "FAIL"
    BY <1>1, <2>1, <2>3, Reported DEF Verdict
  <2>6. ASSUME NEW a \in 1..job.length, a # damaged - HdrLen
        PROVE  f.data[a] = PlainFile.data[a]
    <3>1. damaged # HdrLen + a
      BY <2>2, <2>6
    <3>2. f.data[a] = Cell(Plain(a))
      BY <1>1, <2>1, <2>3, <3>1, DataRestored DEF Opened
    <3>3. QED
      BY <3>2 DEF PlainFile
  <2>7. QED
    BY <2>4, <2>5, <2>6
<1>2. QED
  BY <1>1, InvariantHolds, PTL
=============================================================================
