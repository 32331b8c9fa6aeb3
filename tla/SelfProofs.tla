----------------------------- MODULE SelfProofs ------------------------------
(***************************************************************************)
(* makeself, unself, and one behind the other.  Where makeself puts the    *)
(* segments, that all of them get into the file, and when its buffer is    *)
(* large enough; that read_sections() of unself never needs more than two  *)
(* pieces for each compressed section and one more, and that the pieces    *)
(* follow each other; and what comes back of an ELF file: for every ELF    *)
(* file whose tables lie inside of it, every alignment, every size that    *)
(* zlib may return and every width of the words.  At last the header that  *)
(* makeself lays out, for every program header count up to MAX_PHDR and    *)
(* every e_ehsize and e_phentsize of 16 bits.                              *)
(***************************************************************************)
EXTENDS SelfRoundTrip, SelfLayout, Lemmas, FiniteSetTheorems

-----------------------------------------------------------------------------
(* Part one: makeself *)


PhdrMap == [offset : Nat, size : Nat, compressed : BOOLEAN, p_off : Nat, p_filesz : Nat]
Ends(m) == m.offset + m.size

-----------------------------------------------------------------------------
(* The inductive invariant *)

Types ==
    /\ elf \in Elfs /\ compression \in BOOLEAN
    /\ i \in Nat /\ offset \in Nat /\ phdr_map \in Seq(PhdrMap)
    /\ compressed_size \in Nat /\ shdr_offset \in Nat
    /\ self \in Seq(Bytes)

\* While the segments are placed: offset is aligned and behind all of them.
Placed ==
    /\ pc = "map" => i = Len(phdr_map) /\ i <= phnum
    /\ offset >= HeaderSize /\ offset % ALIGNMENT = 0
    /\ compression => \A n \in 1..Len(phdr_map) : Ends(phdr_map[n]) <= offset

\* When all have been placed they end in front of the section header table,
\* and all of it is in front of the end of the file.
Mapped ==
    /\ Len(phdr_map) = phnum
    /\ compression => /\ \A n \in 1..phnum : Ends(phdr_map[n]) <= shdr_offset
                      /\ compressed_size = shdr_offset + elf.shsize
    /\ ~compression =>
         /\ \A n \in 1..phnum :
              phdr_map[n] = MapEntry(elf.phdr[n].p_off + HeaderSize, elf.phdr[n].p_filesz,
                                     FALSE, elf.phdr[n])
         /\ shdr_offset = elf.shoff + HeaderSize /\ compressed_size = elf.size

\* Segment m lies whole in mem, and so does the section header table.
Stored(mem, m) ==
    /\ Ends(m) <= Len(mem)
    /\ \A b \in 0..(m.size - 1) : mem[m.offset + b + 1] = MapByte(m, b)
TableStored(mem) ==
    \A b \in 0..(elf.shsize - 1) : /\ shdr_offset + b < Len(mem)
                                   /\ mem[shdr_offset + b + 1] = Elf(elf.shoff + b)

\* What write_elf() has copied so far is in the buffer.
Copied ==
    /\ Len(self) = HeaderSize + elf.size
    /\ compression => \A n \in 1..phnum : n <= i => Stored(self, phdr_map[n])
    /\ i > phnum => /\ \A n \in 1..phnum : Stored(self, phdr_map[n])
                    /\ TableStored(self)

\* SegmentsApart is not inductive: that the next segment is behind all others
\* needs that offset is.  AllStored speaks of the file only; what was copied
\* into the buffer before has to survive the copies after it.
IInv ==
    /\ Types /\ Placed /\ SegmentsApart /\ AllStored
    /\ pc \in {"alloc", "write_elf"} => Mapped
    /\ pc = "write_elf" => Copied

-----------------------------------------------------------------------------
(* Facts about the operators *)

\* What memcpy() does inside of a buffer.
LEMMA WriteFacts ==
    ASSUME NEW S, NEW mem \in Seq(S), NEW bytes \in Seq(S), NEW at \in Nat,
           at + Len(bytes) <= Len(mem)
    PROVE  /\ Write(mem, at, bytes) \in Seq(S) /\ Len(Write(mem, at, bytes)) = Len(mem)
           /\ \A a \in 1..Len(mem) :
                Write(mem, at, bytes)[a] =
                  IF a \in (at + 1)..(at + Len(bytes)) THEN bytes[a - at] ELSE mem[a]
<1>1. CASE bytes = <<>>
  BY <1>1 DEF Write
<1>2. CASE bytes # <<>>
  <2> DEFINE filled == mem \o [x \in 1..(at - Len(mem)) |-> Zero]
             front == SubSeq(mem, 1, at)
             back == SubSeq(mem, at + Len(bytes) + 1, Len(mem))
  <2>1. Len(mem) \in Nat /\ Len(bytes) \in Nat
    OBVIOUS
  <2>2. 1..(at - Len(mem)) = {}
    BY <2>1
  <2>3. [x \in 1..(at - Len(mem)) |-> Zero] = <<>>
    BY <2>2
  <2>4. filled = mem
    <3>1. mem \o <<>> = mem
      OBVIOUS
    <3>2. QED
      BY <2>3, <3>1
  <2>5. Write(mem, at, bytes) = front \o bytes \o back
    BY <1>2, <2>4 DEF Write
  <2>6. front \in Seq(S) /\ Len(front) = at /\ \A a \in 1..at : front[a] = mem[a]
    BY <2>1
  <2>7. /\ back \in Seq(S) /\ Len(back) = Len(mem) - (at + Len(bytes))
        /\ \A a \in 1..Len(back) : back[a] = mem[at + Len(bytes) + a]
    BY <2>1
  <2> HIDE DEF filled, front, back
  <2>8. /\ front \o bytes \in Seq(S) /\ Len(front \o bytes) = at + Len(bytes)
        /\ \A a \in 1..(at + Len(bytes)) :
             (front \o bytes)[a] = IF a <= at THEN mem[a] ELSE bytes[a - at]
    BY <2>1, <2>6
  <2> DEFINE whole == front \o bytes
  <2> HIDE DEF whole
  <2>9. /\ whole \o back \in Seq(S) /\ Len(whole \o back) = Len(mem)
        /\ \A a \in 1..Len(mem) :
             (whole \o back)[a] = IF a <= at + Len(bytes) THEN whole[a]
                                 ELSE back[a - (at + Len(bytes))]
    BY <2>1, <2>7, <2>8 DEF whole
  <2>10. ASSUME NEW a \in 1..Len(mem)
         PROVE  (whole \o back)[a] =
                  IF a \in (at + 1)..(at + Len(bytes)) THEN bytes[a - at] ELSE mem[a]
    <3>1. CASE a <= at + Len(bytes)
      <4>1. (whole \o back)[a] = whole[a]
        BY <2>9, <3>1
      <4>2. a \in 1..(at + Len(bytes))
        BY <2>1, <3>1
      <4>3. whole[a] = IF a <= at THEN mem[a] ELSE bytes[a - at]
        BY <2>8, <4>2 DEF whole
      <4>4. a <= at <=> a \notin (at + 1)..(at + Len(bytes))
        BY <2>1, <4>2
      <4>5. QED
        BY <4>1, <4>3, <4>4
    <3>2. CASE a > at + Len(bytes)
      <4>1. a - (at + Len(bytes)) \in 1..Len(back)
        BY <2>1, <2>7, <3>2
      <4>2. back[a - (at + Len(bytes))] = mem[a]
        BY <2>1, <2>7, <4>1
      <4>3. QED
        BY <2>1, <2>9, <3>2, <4>2
    <3>3. a <= at + Len(bytes) \/ a > at + Len(bytes)
      BY <2>1
    <3>4. QED
      BY <3>1, <3>2, <3>3, Zenon
  <2>11. QED
    BY <2>5, <2>9, <2>10 DEF whole
<1>3. QED
  BY <1>1, <1>2

\* What ElfsAssumption says of the file at hand.
LEMMA ElfFacts ==
    ASSUME elf \in Elfs
    PROVE  /\ elf.size \in Nat /\ elf.shoff \in Nat /\ elf.shsize \in Nat
           /\ elf.shoff + elf.shsize <= elf.size
           /\ phnum \in Nat
           /\ \A n \in 1..phnum :
                /\ elf.phdr[n].p_off \in Nat /\ elf.phdr[n].p_filesz \in Nat
                /\ elf.phdr[n].p_off + elf.phdr[n].p_filesz <= elf.size
<1>1. elf \in ElfFiles
  BY ElfsAssumption
<1>2. elf.phdr \in Seq([p_type : {0, 1}, p_off : Nat, p_filesz : Nat])
  BY <1>1 DEF ElfFiles
<1>3. phnum \in Nat
      /\ \A n \in 1..phnum : elf.phdr[n] \in [p_type : {0, 1}, p_off : Nat, p_filesz : Nat]
  BY <1>2, ElementOf DEF phnum
<1>4. elf.size \in Nat /\ elf.shoff \in Nat /\ elf.shsize \in Nat
  BY <1>1 DEF ElfFiles
<1>5. QED
  BY <1>3, <1>4, ElfsAssumption DEF phnum

\* The bytes of a segment are bytes of the model.
LEMMA MapByteType ==
    ASSUME NEW m \in PhdrMap, NEW b \in Nat
    PROVE  MapByte(m, b) \in Bytes
<1>1. m.p_off \in Nat /\ m.p_filesz \in Nat /\ m.size \in Nat /\ m.compressed \in BOOLEAN
  BY DEF PhdrMap
<1>2. m.p_off + b \in Nat
  BY <1>1
<1>3. Elf(m.p_off + b) \in Bytes
  BY <1>2 DEF Elf, Bytes
<1>4. Deflated(m.p_off, m.p_filesz, b, m.size) \in Bytes
  BY <1>1 DEF Deflated, Bytes
<1>5. QED
  BY <1>3, <1>4 DEF MapByte

-----------------------------------------------------------------------------
(* The steps *)

\* A turn of compress_elf, whatever zlib made of the segment.
LEMMA PlaceKeeps ==
    ASSUME IInv, Mapping, NEW sz \in Nat, NEW z \in BOOLEAN,
           Place(MapEntry(offset, sz, z, elf.phdr[i + 1]))
    PROVE  IInv'
<1> DEFINE m == MapEntry(offset, sz, z, elf.phdr[i + 1])
<1>1. /\ pc = "map" /\ pc' = "map" /\ compression /\ i \in Nat /\ i < phnum
      /\ phnum \in Nat /\ phnum' = phnum /\ offset \in Nat /\ i = Len(phdr_map)
      /\ phdr_map \in Seq(PhdrMap) /\ HeaderSize \in Nat
  BY ElfFacts, AlignmentAssumption DEF IInv, Types, Placed, Mapping, Place, phnum
<1>2. m \in PhdrMap /\ m.offset = offset /\ m.size = sz
  <2>1. i + 1 \in 1..phnum
    BY <1>1
  <2>2. elf.phdr[i + 1].p_off \in Nat /\ elf.phdr[i + 1].p_filesz \in Nat
    BY <2>1, ElfFacts DEF IInv, Types
  <2>3. QED
    BY <1>1, <2>2 DEF MapEntry, PhdrMap
<1> HIDE DEF m
<1>3. /\ phdr_map' = Append(phdr_map, m) /\ offset' = round_up(offset + sz, ALIGNMENT)
      /\ i' = i + 1 /\ compression' = compression
  BY <1>2 DEF Place, m
<1>4. offset' \in Nat /\ offset' >= offset + sz /\ offset' % ALIGNMENT = 0
  <2>1. offset + sz \in Nat
    BY <1>1
  <2>2. QED
    BY <1>3, <2>1, RoundUpFacts, AlignmentAssumption
<1>5. /\ phdr_map' \in Seq(PhdrMap) /\ Len(phdr_map') = i + 1
      /\ phdr_map'[i + 1] = m /\ \A k \in 1..i : phdr_map'[k] = phdr_map[k]
  BY <1>1, <1>2, <1>3, AppendFacts
<1>6. \A k \in 1..i : phdr_map[k].offset \in Nat /\ phdr_map[k].size \in Nat
  <2>1. \A k \in 1..i : phdr_map[k] \in PhdrMap
    BY <1>1, ElementOf
  <2>2. QED
    BY <2>1 DEF PhdrMap
<1>7. Types'
  BY <1>3, <1>4, <1>5 DEF IInv, Types, Place
<1>8. Placed'
  <2>1. \A k \in 1..i : Ends(phdr_map[k]) <= offset
    BY <1>1 DEF IInv, Placed
  <2>2. ASSUME NEW k \in 1..(i + 1) PROVE Ends(phdr_map'[k]) <= offset'
    <3>1. CASE k = i + 1
      BY <1>1, <1>2, <1>4, <1>5, <3>1 DEF Ends
    <3>2. CASE k \in 1..i
      BY <1>1, <1>4, <1>5, <1>6, <2>1, <3>2 DEF Ends
    <3>3. QED
      BY <1>1, <3>1, <3>2
  <2>3. offset >= HeaderSize
    BY DEF IInv, Placed
  <2>4. i' = Len(phdr_map') /\ i' <= phnum' /\ phdr_map'[i + 1] = m
    BY <1>1, <1>3, <1>5
  <2>5. offset' >= HeaderSize /\ offset' % ALIGNMENT = 0
    BY <1>1, <1>4, <2>3
  <2>6. \A k \in 1..Len(phdr_map') : (Ends(phdr_map[k]) <= offset)'
    BY <1>5, <2>2 DEF Ends
  <2>7. QED
    BY <2>4, <2>5, <2>6 DEF Placed
<1>9. SegmentsApart'
  <2>1. \A k, n \in 1..i :
            /\ phdr_map[k].offset >= HeaderSize /\ phdr_map[k].offset % ALIGNMENT = 0
            /\ k < n => phdr_map[k].offset + phdr_map[k].size <= phdr_map[n].offset
    BY <1>1 DEF IInv, SegmentsApart
  <2>2. \A k \in 1..i : phdr_map[k].offset + phdr_map[k].size <= offset
    BY <1>1 DEF IInv, Placed, Ends
  <2>3. offset >= HeaderSize /\ offset % ALIGNMENT = 0
    BY DEF IInv, Placed
  <2>4. \A k \in 1..(i + 1) : k \in 1..i \/ k = i + 1
    BY <1>1
  <2>5. ASSUME NEW k \in 1..(i + 1), NEW n \in 1..(i + 1)
        PROVE  /\ phdr_map'[k].offset >= HeaderSize /\ phdr_map'[k].offset % ALIGNMENT = 0
               /\ k < n => phdr_map'[k].offset + phdr_map'[k].size <= phdr_map'[n].offset
    <3>1. phdr_map'[k].offset >= HeaderSize /\ phdr_map'[k].offset % ALIGNMENT = 0
      BY <1>2, <1>5, <2>1, <2>3, <2>4
    <3>2. ASSUME k < n
          PROVE  phdr_map'[k].offset + phdr_map'[k].size <= phdr_map'[n].offset
      <4>1. k \in 1..i
        BY <1>1, <3>2
      <4>2. QED
        BY <1>2, <1>5, <2>1, <2>2, <2>4, <3>2, <4>1
    <3>3. QED
      BY <3>1, <3>2
  <2>6. QED
    BY <1>5, <2>5 DEF SegmentsApart
<1>10. QED
  BY <1>1, <1>7, <1>8, <1>9 DEF IInv, AllStored

\* What IInv needs after a step that leaves the segments where they are.
LEMMA MapStays ==
    ASSUME IInv, pc' # "map", UNCHANGED <<elf, compression, offset, phdr_map>>
    PROVE  Placed' /\ SegmentsApart'
BY DEF IInv, Placed, SegmentsApart, Ends

LEMMA FillPhdrMapKeeps ==
    ASSUME IInv, FillPhdrMap
    PROVE  IInv'
<1> DEFINE map == [n \in 1..phnum |->
                    MapEntry(elf.phdr[n].p_off + HeaderSize, elf.phdr[n].p_filesz, FALSE,
                             elf.phdr[n])]
<1>1. /\ phdr_map' = map /\ ~compression /\ pc' = "alloc"
      /\ compressed_size' = elf.size /\ shdr_offset' = elf.shoff + HeaderSize
      /\ UNCHANGED <<elf, compression, i, offset, self, file>>
  BY DEF FillPhdrMap
<1>2. /\ elf \in Elfs /\ HeaderSize \in Nat /\ phnum \in Nat /\ phnum' = phnum
      /\ elf.size \in Nat /\ elf.shoff \in Nat
  BY <1>1, ElfFacts, AlignmentAssumption DEF IInv, Types, phnum
<1>3. map \in [1..phnum -> PhdrMap]
  BY <1>2, ElfFacts DEF MapEntry, PhdrMap
<1>4. phdr_map' \in Seq(PhdrMap) /\ Len(phdr_map') = phnum
  BY <1>1, <1>2, <1>3, FunctionIsSeq
<1>5. Types'
  <2>1. shdr_offset' \in Nat /\ compressed_size' \in Nat
    BY <1>1, <1>2
  <2>2. UNCHANGED <<elf, compression, i, offset, self>>
    BY <1>1
  <2>3. QED
    BY <1>4, <2>1, <2>2 DEF IInv, Types
<1>6. Placed' /\ SegmentsApart' /\ AllStored'
  BY <1>1 DEF IInv, Placed, SegmentsApart, AllStored
<1>7. Mapped'
  BY <1>1, <1>2, <1>4 DEF Mapped
<1>8. QED
  BY <1>1, <1>5, <1>6, <1>7 DEF IInv

LEMMA MapEndKeeps ==
    ASSUME IInv, MapEnd
    PROVE  IInv'
<1>1. /\ pc = "map" /\ compression /\ i >= phnum
      /\ UNCHANGED <<elf, compression, i, offset, phdr_map, self, file>>
  BY DEF MapEnd
<1>2. /\ phnum \in Nat /\ phnum' = phnum /\ i \in Nat /\ i = phnum /\ Len(phdr_map) = phnum
      /\ phdr_map \in Seq(PhdrMap) /\ elf.shsize \in Nat
  BY <1>1, ElfFacts DEF IInv, Types, Placed, phnum
<1>3. CASE phnum = 0
  <2>1. pc' = "undefined" /\ UNCHANGED <<compressed_size, shdr_offset>>
    BY <1>3 DEF MapEnd
  <2>2. Types'
    BY <1>1, <2>1 DEF IInv, Types
  <2>3. QED
    BY <1>1, <2>1, <2>2, MapStays DEF IInv, AllStored
<1>4. CASE phnum # 0
  <2>1. /\ pc' = "alloc" /\ shdr_offset' = Ends(phdr_map[i])
        /\ compressed_size' = shdr_offset' + elf.shsize
    BY <1>4 DEF MapEnd, Ends
  <2>2. \A k \in 1..phnum : phdr_map[k].offset \in Nat /\ phdr_map[k].size \in Nat
    <3>1. \A k \in 1..phnum : phdr_map[k] \in PhdrMap
      BY <1>2, ElementOf
    <3>2. QED
      BY <3>1 DEF PhdrMap
  <2>3. i \in 1..phnum
    BY <1>2, <1>4
  <2>4. shdr_offset' \in Nat /\ compressed_size' \in Nat
    BY <1>2, <2>1, <2>2, <2>3 DEF Ends
  <2>5. ASSUME NEW k \in 1..phnum
        PROVE  Ends(phdr_map[k]) <= shdr_offset'
    <3>1. CASE k < i
      <4>1. Ends(phdr_map[k]) <= phdr_map[i].offset
        BY <1>1, <1>2, <2>3, <3>1 DEF IInv, SegmentsApart, Ends
      <4>2. QED
        BY <2>1, <2>2, <2>3, <4>1 DEF Ends
    <3>2. CASE k = i
      BY <2>1, <2>2, <2>3, <3>2 DEF Ends
    <3>3. QED
      BY <1>2, <3>1, <3>2
  <2>6. Types'
    BY <1>1, <2>4 DEF IInv, Types
  <2>7. Mapped'
    BY <1>1, <1>2, <2>1, <2>5 DEF Mapped, Ends
  <2>8. QED
    BY <1>1, <2>1, <2>6, <2>7, MapStays DEF IInv, AllStored
<1>5. QED
  BY <1>3, <1>4

LEMMA AllocKeeps ==
    ASSUME IInv, Alloc
    PROVE  IInv'
<1>1. /\ pc = "alloc" /\ pc' = "write_elf" /\ i' = 0
      /\ self' = [a \in 1..(HeaderSize + elf.size) |-> IF a <= HeaderSize THEN Hdr ELSE Zero]
      /\ UNCHANGED <<elf, compression, offset, phdr_map, compressed_size, shdr_offset, file>>
  BY DEF Alloc
<1>2. HeaderSize + elf.size \in Nat /\ phnum \in Nat /\ phnum' = phnum
  BY <1>1, ElfFacts, AlignmentAssumption DEF IInv, Types, phnum
<1>3. self' \in [1..(HeaderSize + elf.size) -> Bytes]
  BY <1>1 DEF Bytes, Hdr, Zero
<1>4. self' \in Seq(Bytes) /\ Len(self') = HeaderSize + elf.size
  BY <1>2, <1>3, FunctionIsSeq
<1>5. Types'
  BY <1>1, <1>4 DEF IInv, Types
<1>6. Mapped'
  BY <1>1, <1>2 DEF IInv, Mapped, Ends
<1>7. Copied'
  BY <1>1, <1>2, <1>4 DEF Copied
<1>8. QED
  BY <1>1, <1>5, <1>6, <1>7, MapStays DEF IInv, AllStored

\* A copy that stays inside of the buffer leaves what is in front of it alone.
LEMMA CopyKeeps ==
    ASSUME NEW mem \in Seq(Bytes), NEW bytes \in Seq(Bytes), NEW at \in Nat,
           at + Len(bytes) <= Len(mem),
           NEW m \in PhdrMap, Stored(mem, m), Ends(m) <= at
    PROVE  Stored(Write(mem, at, bytes), m)
<1> DEFINE new == Write(mem, at, bytes)
<1>1. /\ new \in Seq(Bytes) /\ Len(new) = Len(mem)
      /\ \A a \in 1..Len(mem) :
           new[a] = IF a \in (at + 1)..(at + Len(bytes)) THEN bytes[a - at] ELSE mem[a]
  BY WriteFacts, SMTT(60)
<1> HIDE DEF new
<1>2. m.offset \in Nat /\ m.size \in Nat /\ Len(mem) \in Nat /\ Len(bytes) \in Nat
  BY DEF PhdrMap
<1>3. Ends(m) <= Len(mem) /\ m.offset + m.size <= at /\ m.offset + m.size <= Len(mem)
  BY DEF Stored, Ends
<1>4. ASSUME NEW b \in 0..(m.size - 1)
      PROVE  new[m.offset + b + 1] = MapByte(m, b)
  <2>1. /\ m.offset + b + 1 \in 1..Len(mem)
        /\ m.offset + b + 1 \notin (at + 1)..(at + Len(bytes))
    <3> DEFINE start == m.offset
               sz == m.size
    <3>1. /\ start \in Nat /\ sz \in Nat /\ Len(mem) \in Nat /\ Len(bytes) \in Nat
          /\ start + sz <= at /\ start + sz <= Len(mem)
      BY <1>2, <1>3
    <3>2. b \in Nat /\ b < sz
      BY <3>1
    <3> HIDE DEF start, sz
    <3>3. /\ start + b + 1 \in 1..Len(mem)
          /\ start + b + 1 \notin (at + 1)..(at + Len(bytes))
      BY <3>1, <3>2
    <3>4. QED
      BY <3>3 DEF start
  <2>2. new[m.offset + b + 1] = mem[m.offset + b + 1]
    BY <1>1, <2>1
  <2>3. QED
    BY <2>2 DEF Stored
<1>5. QED
  BY <1>1, <1>3, <1>4 DEF Stored, new

\* What has been copied is in the buffer.
LEMMA CopyStores ==
    ASSUME NEW mem \in Seq(Bytes), NEW bytes \in Seq(Bytes), NEW at \in Nat,
           at + Len(bytes) <= Len(mem), NEW b \in 0..(Len(bytes) - 1)
    PROVE  Write(mem, at, bytes)[at + b + 1] = bytes[b + 1]
<1>1. Len(mem) \in Nat /\ Len(bytes) \in Nat
  OBVIOUS
<1>2. at + b + 1 \in 1..Len(mem) /\ at + b + 1 \in (at + 1)..(at + Len(bytes))
  BY <1>1
<1>3. (at + b + 1) - at = b + 1
  BY <1>1
<1>4. QED
  BY <1>2, <1>3, WriteFacts

LEMMA WriteSegmentKeeps ==
    ASSUME IInv, WriteSegment
    PROVE  IInv'
<1> DEFINE m == phdr_map[i + 1]
           bytes == [b \in 1..m.size |-> MapByte(m, b - 1)]
<1>1. /\ pc = "write_elf" /\ compression /\ i < phnum /\ i' = i + 1
      /\ Memcpy(m.offset, bytes)
      /\ UNCHANGED <<elf, compression, offset, phdr_map, compressed_size, shdr_offset, file>>
  BY DEF WriteSegment
<1>2. /\ i \in Nat /\ phnum \in Nat /\ phnum' = phnum /\ Len(phdr_map) = phnum
      /\ phdr_map \in Seq(PhdrMap) /\ i + 1 \in 1..phnum /\ self \in Seq(Bytes)
  <2>1. i \in Nat /\ phnum \in Nat /\ phnum' = phnum /\ Len(phdr_map) = phnum
        /\ phdr_map \in Seq(PhdrMap) /\ self \in Seq(Bytes)
    BY <1>1, ElfFacts DEF IInv, Types, Mapped, phnum
  <2>2. QED
    BY <1>1, <2>1
<1>3. \A k \in 1..phnum : phdr_map[k] \in PhdrMap
  BY <1>2, ElementOf
<1>4. m \in PhdrMap /\ m.offset \in Nat /\ m.size \in Nat
  <2>1. m \in PhdrMap
    BY <1>2, <1>3
  <2>2. QED
    BY <2>1 DEF PhdrMap
<1> HIDE DEF m
<1>5. bytes \in Seq(Bytes) /\ Len(bytes) = m.size
  <2>1. \A b \in 1..m.size : MapByte(m, b - 1) \in Bytes
    BY <1>4, MapByteType
  <2>2. bytes \in [1..m.size -> Bytes]
    BY <2>1
  <2>3. QED
    BY <1>4, <2>2, FunctionIsSeq
<1>6. \A b \in 0..(m.size - 1) : bytes[b + 1] = MapByte(m, b)
  BY <1>4
<1> HIDE DEF bytes
<1>7. CASE m.offset + Len(bytes) <= Len(self)
  <2> DEFINE new == Write(self, m.offset, bytes)
  <2>1. self' = new /\ pc' = "write_elf"
    BY <1>1, <1>7 DEF Memcpy
  <2>2. new \in Seq(Bytes) /\ Len(new) = Len(self)
    BY <1>2, <1>4, <1>5, <1>7, WriteFacts
  <2>3. Stored(new, m)
    <3>1. ASSUME NEW b \in 0..(Len(bytes) - 1)
          PROVE  new[m.offset + b + 1] = bytes[b + 1]
      <4>1. self \in Seq(Bytes) /\ bytes \in Seq(Bytes) /\ m.offset \in Nat
        BY <1>2, <1>4, <1>5
      <4>2. QED
        BY <1>7, <4>1, CopyStores
    <3> HIDE DEF new
    <3>2. QED
      BY <1>5, <1>6, <1>7, <2>2, <3>1 DEF Stored, Ends
  <2>4. ASSUME NEW k \in 1..phnum, k <= i
        PROVE  Stored(new, phdr_map[k])
    <3>1. Stored(self, phdr_map[k])
      BY <1>1, <2>4 DEF IInv, Copied
    <3>2. Ends(phdr_map[k]) <= m.offset
      BY <1>1, <1>2, <2>4 DEF IInv, SegmentsApart, Ends, m
    <3>3. phdr_map[k] \in PhdrMap
      BY <1>3
    <3>4. QED
      BY <1>2, <1>4, <1>5, <1>7, <3>1, <3>2, <3>3, CopyKeeps
  <2> HIDE DEF new
  <2>5. \A k \in 1..phnum : k <= i + 1 => Stored(new, phdr_map[k])
    <3>1. \A k \in 1..phnum : k <= i + 1 => k <= i \/ k = i + 1
      BY <1>2
    <3>2. QED
      BY <2>3, <2>4, <3>1 DEF m
  <2>6. Types'
    BY <1>1, <1>2, <2>1, <2>2 DEF IInv, Types
  <2>7. Mapped'
    BY <1>1, <1>2 DEF IInv, Mapped, Ends
  <2>8. Copied'
    <3>1. Len(new) = HeaderSize + elf.size
      BY <1>1, <2>2 DEF IInv, Copied
    <3>2. ~(i' > phnum)
      BY <1>1, <1>2
    <3>3. \A n \in 1..phnum : n <= i' => Stored(new, phdr_map[n])
      BY <1>1, <2>5
    <3>4. QED
      BY <1>1, <1>2, <2>1, <3>1, <3>2, <3>3 DEF Copied, Stored, MapByte, Ends
  <2>9. QED
    BY <1>1, <2>1, <2>6, <2>7, <2>8, MapStays DEF IInv, AllStored
<1>8. CASE ~(m.offset + Len(bytes) <= Len(self))
  <2>1. self' = self /\ pc' = "undefined"
    BY <1>1, <1>8 DEF Memcpy
  <2>2. Types'
    BY <1>1, <1>2, <2>1 DEF IInv, Types
  <2>3. QED
    BY <1>1, <2>1, <2>2, MapStays DEF IInv, AllStored
<1>9. QED
  BY <1>7, <1>8

\* The section header table behind the segments, or the whole ELF file.
LEMMA WriteRestKeeps ==
    ASSUME IInv, WriteRest
    PROVE  IInv'
<1> DEFINE at == IF compression THEN shdr_offset ELSE HeaderSize
           bytes == IF compression THEN ElfPart(elf.shoff, elf.shsize) ELSE ElfPart(0, elf.size)
<1>1. /\ pc = "write_elf" /\ i = (IF compression THEN phnum ELSE 0) /\ i' = phnum + 1
      /\ Memcpy(at, bytes)
      /\ UNCHANGED <<elf, compression, offset, phdr_map, compressed_size, shdr_offset, file>>
  BY DEF WriteRest
<1>2. /\ elf.size \in Nat /\ elf.shoff \in Nat /\ elf.shsize \in Nat /\ HeaderSize \in Nat
      /\ elf.shoff + elf.shsize <= elf.size
      /\ phnum \in Nat /\ phnum' = phnum /\ shdr_offset \in Nat /\ compression \in BOOLEAN
      /\ self \in Seq(Bytes) /\ phdr_map \in Seq(PhdrMap) /\ Len(phdr_map) = phnum
  BY <1>1, ElfFacts, AlignmentAssumption DEF IInv, Types, Mapped, phnum
<1>nums. /\ elf.size \in Nat /\ elf.shoff \in Nat /\ elf.shsize \in Nat /\ HeaderSize \in Nat
      /\ elf.shoff + elf.shsize <= elf.size /\ shdr_offset \in Nat
  BY <1>2
<1>3. \A k \in 1..phnum : phdr_map[k] \in PhdrMap
  BY <1>2, ElementOf
<1>4. ASSUME NEW off \in Nat, NEW n \in Nat
      PROVE  /\ ElfPart(off, n) \in Seq(Bytes) /\ Len(ElfPart(off, n)) = n
             /\ \A b \in 0..(n - 1) : ElfPart(off, n)[b + 1] = Elf(off + b)
  <2>1. \A b \in 1..n : Elf(off + b - 1) \in Bytes
    BY DEF Elf, Bytes
  <2>2. ElfPart(off, n) \in [1..n -> Bytes]
    BY <2>1 DEF ElfPart
  <2>3. ASSUME NEW b \in 0..(n - 1)
        PROVE  ElfPart(off, n)[b + 1] = Elf(off + b)
    <3>1. b + 1 \in 1..n /\ off + (b + 1) - 1 = off + b
      OBVIOUS
    <3>2. ElfPart(off, n)[b + 1] = Elf(off + (b + 1) - 1)
      BY <3>1 DEF ElfPart
    <3>3. QED
      BY <3>1, <3>2
  <2>4. QED
    BY <2>2, <2>3, FunctionIsSeq
<1>5. at \in Nat /\ bytes \in Seq(Bytes)
  BY <1>2, <1>4
<1>6. /\ compression => Len(bytes) = elf.shsize
      /\ ~compression => Len(bytes) = elf.size
  BY <1>2, <1>4
<1>7. /\ compression => \A b \in 0..(elf.shsize - 1) : bytes[b + 1] = Elf(elf.shoff + b)
      /\ ~compression => \A b \in 0..(elf.size - 1) : bytes[b + 1] = Elf(0 + b)
  BY <1>2, <1>4
<1>8. /\ compression => at = shdr_offset
      /\ ~compression => at = HeaderSize
  OBVIOUS
<1> HIDE DEF at, bytes
<1>9. CASE at + Len(bytes) <= Len(self)
  <2> DEFINE new == Write(self, at, bytes)
  <2>1. self' = new /\ pc' = "write_elf"
    BY <1>1, <1>9 DEF Memcpy
  <2>2. new \in Seq(Bytes) /\ Len(new) = Len(self) /\ Len(self) = HeaderSize + elf.size
    <3>1. Len(self) = HeaderSize + elf.size
      BY <1>1 DEF IInv, Copied
    <3>2. self \in Seq(Bytes) /\ at \in Nat /\ bytes \in Seq(Bytes)
      BY <1>2, <1>5
    <3>3. QED
      BY <1>9, <3>1, <3>2, WriteFacts
  <2>3. ASSUME NEW b \in 0..(Len(bytes) - 1)
        PROVE  new[at + b + 1] = bytes[b + 1]
    BY <1>2, <1>5, <1>9, CopyStores
  <2>4. ASSUME compression
        PROVE  (\A k \in 1..phnum : Stored(new, phdr_map[k])) /\ TableStored(new)
    <3>1. ASSUME NEW k \in 1..phnum
          PROVE  Stored(new, phdr_map[k])
      <4>1. Stored(self, phdr_map[k])
        BY <1>1, <1>2, <2>4 DEF IInv, Copied
      <4>2. Ends(phdr_map[k]) <= at
        BY <1>1, <1>8, <2>4 DEF IInv, Mapped
      <4>3. phdr_map[k] \in PhdrMap
        BY <1>3
      <4>4. QED
        BY <1>2, <1>5, <1>9, <4>1, <4>2, <4>3, CopyKeeps
    <3>2. TableStored(new)
      <4>1. Len(bytes) = elf.shsize /\ at = shdr_offset
        BY <1>6, <1>8, <2>4
      <4> HIDE DEF new
      <4>2. ASSUME NEW b \in 0..(elf.shsize - 1)
            PROVE  shdr_offset + b < Len(new) /\ new[shdr_offset + b + 1] = Elf(elf.shoff + b)
        <5>1. shdr_offset + b < Len(new)
          BY <1>2, <1>9, <2>2, <4>1
        <5>2. new[shdr_offset + b + 1] = bytes[b + 1]
          BY <2>3, <4>1
        <5>3. QED
          BY <1>7, <2>4, <5>1, <5>2
      <4>3. QED
        BY <4>2 DEF TableStored
    <3>3. QED
      BY <3>1, <3>2
  <2>5. ASSUME ~compression
        PROVE  (\A k \in 1..phnum : Stored(new, phdr_map[k])) /\ TableStored(new)
    <3>1. Len(bytes) = elf.size /\ at = HeaderSize
      BY <1>6, <1>8, <2>5
    <3> HIDE DEF new
    \* Byte p of the ELF file is in the buffer behind the header.
    <3>2. ASSUME NEW p \in 0..(elf.size - 1)
          PROVE  new[HeaderSize + p + 1] = Elf(p)
      <4>1. new[HeaderSize + p + 1] = bytes[p + 1]
        BY <2>3, <3>1
      <4>2. bytes[p + 1] = Elf(0 + p)
        BY <1>7, <2>5
      <4>3. 0 + p = p
        BY <1>2
      <4>4. QED
        BY <4>1, <4>2, <4>3
    <3>3. ASSUME NEW k \in 1..phnum
          PROVE  Stored(new, phdr_map[k])
      <4> DEFINE m == phdr_map[k]
                 ph == elf.phdr[k]
      <4>1. ph.p_off \in Nat /\ ph.p_filesz \in Nat /\ ph.p_off + ph.p_filesz <= elf.size
        BY ElfFacts DEF IInv, Types
      <4>2. m = MapEntry(ph.p_off + HeaderSize, ph.p_filesz, FALSE, ph)
        BY <1>1, <2>5 DEF IInv, Mapped
      <4> HIDE DEF m, ph
      <4>3. /\ m.offset = ph.p_off + HeaderSize /\ m.size = ph.p_filesz
            /\ m.compressed = FALSE /\ m.p_off = ph.p_off
        BY <4>2 DEF MapEntry
      <4>4. Ends(m) <= Len(new)
        BY <1>2, <2>2, <4>1, <4>3 DEF Ends
      <4>5. ASSUME NEW b \in 0..(m.size - 1)
            PROVE  new[m.offset + b + 1] = MapByte(m, b)
        <5>1. ph.p_off + b \in 0..(elf.size - 1)
          BY <1>nums, <4>1, <4>3
        <5>2. m.offset + b + 1 = HeaderSize + (ph.p_off + b) + 1
          BY <1>nums, <4>1, <4>3
        <5>3. new[m.offset + b + 1] = Elf(ph.p_off + b)
          BY <3>2, <5>1, <5>2
        <5>4. QED
          BY <4>3, <5>3 DEF MapByte
      <4>6. QED
        BY <4>4, <4>5 DEF Stored, m
    <3>4. TableStored(new)
      <4>1. shdr_offset = elf.shoff + HeaderSize
        BY <1>1, <2>5 DEF IInv, Mapped
      <4>2. ASSUME NEW b \in 0..(elf.shsize - 1)
            PROVE  shdr_offset + b < Len(new) /\ new[shdr_offset + b + 1] = Elf(elf.shoff + b)
        <5>1. /\ elf.shoff + b \in 0..(elf.size - 1)
              /\ shdr_offset + b + 1 = HeaderSize + (elf.shoff + b) + 1
              /\ shdr_offset + b < Len(new)
          <6> DEFINE sz == elf.size
                     shoff == elf.shoff
                     n == elf.shsize
          <6>1. Len(new) = HeaderSize + sz /\ shdr_offset = shoff + HeaderSize
            BY <2>2, <4>1
          <6>2. /\ sz \in Nat /\ shoff \in Nat /\ n \in Nat /\ HeaderSize \in Nat
                /\ shoff + n <= sz
            BY <1>nums
          <6>3. b \in Nat /\ b < n
            BY <6>2
          <6> HIDE DEF sz, shoff, n
          <6>4. /\ shoff + b \in 0..(sz - 1)
                /\ shdr_offset + b + 1 = HeaderSize + (shoff + b) + 1
                /\ shdr_offset + b < Len(new)
            BY <6>1, <6>2, <6>3
          <6>5. QED
            BY <6>4 DEF sz, shoff
        <5>2. QED
          BY <3>2, <5>1
      <4>3. QED
        BY <4>2 DEF TableStored
    <3>5. QED
      BY <3>3, <3>4
  <2> HIDE DEF new
  <2>6. (\A k \in 1..phnum : Stored(new, phdr_map[k])) /\ TableStored(new)
    BY <2>4, <2>5
  <2>7. Types'
    BY <1>1, <1>2, <2>1, <2>2 DEF IInv, Types
  <2>8. Mapped'
    BY <1>1, <1>2 DEF IInv, Mapped, Ends
  <2>9. Copied'
    BY <1>1, <1>2, <2>1, <2>2, <2>6 DEF Copied, Stored, TableStored, MapByte, Ends
  <2>10. QED
    BY <1>1, <2>1, <2>7, <2>8, <2>9, MapStays DEF IInv, AllStored
<1>10. CASE ~(at + Len(bytes) <= Len(self))
  <2>1. self' = self /\ pc' = "undefined"
    BY <1>1, <1>10 DEF Memcpy
  <2>2. Types'
    BY <1>1, <1>2, <2>1 DEF IInv, Types
  <2>3. QED
    BY <1>1, <2>1, <2>2, MapStays DEF IInv, AllStored
<1>11. QED
  BY <1>9, <1>10

\* What is in the buffer gets into the file, which is not shorter.
LEMMA WriteFileKeeps ==
    ASSUME IInv, WriteFile
    PROVE  IInv'
<1> DEFINE rounded == round_up(compressed_size, ALIGNMENT)
           bytes == [a \in 1..(HeaderSize + rounded) |->
                      IF a > HeaderSize + compressed_size THEN Zero ELSE Peek(self, a - 1)]
<1>1. /\ pc = "write_elf" /\ i > phnum /\ pc' = "done" /\ file' = bytes
      /\ UNCHANGED <<elf, compression, i, offset, phdr_map, compressed_size, shdr_offset, self>>
  BY DEF WriteFile
<1>2. /\ elf.size \in Nat /\ elf.shoff \in Nat /\ elf.shsize \in Nat /\ HeaderSize \in Nat
      /\ elf.shoff + elf.shsize <= elf.size
      /\ phnum \in Nat /\ phnum' = phnum /\ shdr_offset \in Nat /\ compression \in BOOLEAN
      /\ self \in Seq(Bytes) /\ phdr_map \in Seq(PhdrMap) /\ Len(phdr_map) = phnum
      /\ compressed_size \in Nat /\ Mapped /\ Copied
  BY <1>1, ElfFacts, AlignmentAssumption DEF IInv, Types, Mapped, phnum
<1>nums. /\ elf.size \in Nat /\ elf.shoff \in Nat /\ elf.shsize \in Nat /\ HeaderSize \in Nat
      /\ elf.shoff + elf.shsize <= elf.size
      /\ shdr_offset \in Nat /\ compressed_size \in Nat /\ Len(self) \in Nat
  BY <1>2
<1>3. rounded \in Nat /\ rounded >= compressed_size
  BY <1>2, RoundUpFacts, AlignmentAssumption
<1> HIDE DEF rounded
<1>4. ASSUME NEW a \in Nat, a < HeaderSize + compressed_size, a < Len(self)
      PROVE  a < Len(bytes) /\ bytes[a + 1] = self[a + 1]
  <2>1. HeaderSize + rounded \in Nat /\ Len(bytes) = HeaderSize + rounded
    BY <1>2, <1>3
  <2>2. a + 1 \in 1..(HeaderSize + rounded) /\ ~(a + 1 > HeaderSize + compressed_size)
        /\ a \in 0..(Len(self) - 1) /\ (a + 1) - 1 = a
    BY <1>2, <1>3, <1>4
  <2>3. bytes[a + 1] = Peek(self, a)
    BY <2>2
  <2>4. QED
    BY <1>2, <1>3, <1>4, <2>1, <2>2, <2>3 DEF Peek
<1> HIDE DEF bytes
<1>5. ASSUME NEW n \in 1..phnum, NEW b \in 0..(phdr_map[n].size - 1)
      PROVE  /\ phdr_map[n].offset + b < Len(bytes)
             /\ bytes[phdr_map[n].offset + b + 1] = MapByte(phdr_map[n], b)
  <2> DEFINE m == phdr_map[n]
  <2>1. m \in PhdrMap
    BY <1>2, ElementOf
  <2>2. m.offset \in Nat /\ m.size \in Nat
    BY <2>1 DEF PhdrMap
  <2>3. Stored(self, m)
    BY <1>1, <1>2 DEF Copied
  <2>4. Ends(m) <= HeaderSize + compressed_size
    <3>1. CASE compression
      <4>1. Ends(m) <= shdr_offset /\ compressed_size = shdr_offset + elf.shsize
        BY <1>2, <3>1 DEF Mapped
      <4>2. QED
        <5>1. Ends(m) \in Nat
          BY <2>2 DEF Ends
        <5> HIDE DEF m
        <5>2. QED
          BY <1>nums, <4>1, <5>1
    <3>2. CASE ~compression
      <4>1. compressed_size = elf.size /\ Ends(m) <= Len(self)
        BY <1>2, <2>3, <3>2 DEF Mapped, Stored
      <4>2. Len(self) = HeaderSize + elf.size
        BY <1>2 DEF Copied
      <4>3. QED
        BY <1>2, <2>2, <4>1, <4>2
    <3>3. QED
      BY <3>1, <3>2
  <2>5. Ends(m) <= Len(self) /\ self[m.offset + b + 1] = MapByte(m, b)
    BY <2>3 DEF Stored
  <2> HIDE DEF m
  <2>6. b \in 0..(m.size - 1)
    BY DEF m
  <2>7. m.offset + b \in Nat /\ m.offset + b < HeaderSize + compressed_size
        /\ m.offset + b < Len(self)
    <3>1. b \in Nat /\ b < m.size
      BY <2>2, <2>6
    <3>2. Ends(m) = m.offset + m.size /\ m.offset + b < m.offset + m.size
      BY <2>2, <3>1 DEF Ends
    <3>3. m.offset + b \in Nat /\ m.offset + m.size \in Nat
      BY <2>2, <3>1
    <3>4. m.offset + b < HeaderSize + compressed_size
      BY <1>nums, <2>4, <3>2, <3>3
    <3>5. m.offset + b < Len(self)
      BY <1>nums, <2>5, <3>2, <3>3
    <3>6. QED
      BY <3>3, <3>4, <3>5
  <2>8. m.offset + b < Len(bytes) /\ bytes[(m.offset + b) + 1] = self[(m.offset + b) + 1]
    BY <1>4, <2>7
  <2>9. QED
    BY <2>5, <2>8 DEF m
<1>6. ASSUME NEW b \in 0..(elf.shsize - 1)
      PROVE  Peek(bytes, shdr_offset + b) = Elf(elf.shoff + b)
  <2>1. shdr_offset + b < Len(self) /\ self[shdr_offset + b + 1] = Elf(elf.shoff + b)
    BY <1>1, <1>2 DEF Copied, TableStored
  <2>2. shdr_offset + b < HeaderSize + compressed_size
    <3> DEFINE sz == elf.size
               shoff == elf.shoff
               n == elf.shsize
    <3>1. /\ sz \in Nat /\ shoff \in Nat /\ n \in Nat /\ HeaderSize \in Nat
          /\ shoff + n <= sz /\ shdr_offset \in Nat /\ compressed_size \in Nat
      BY <1>nums
    <3>2. b \in Nat /\ b < n
      BY <3>1
    <3>3. /\ compression => compressed_size = shdr_offset + n
          /\ ~compression => shdr_offset = shoff + HeaderSize /\ compressed_size = sz
      BY <1>2 DEF Mapped
    <3> HIDE DEF sz, shoff, n
    <3>4. QED
      BY <3>1, <3>2, <3>3
  <2>3. shdr_offset + b \in Nat
    BY <1>2
  <2>4. /\ shdr_offset + b < Len(bytes)
        /\ bytes[(shdr_offset + b) + 1] = self[(shdr_offset + b) + 1]
    BY <1>4, <2>1, <2>2, <2>3
  <2>5. shdr_offset + b \in 0..(Len(bytes) - 1)
    <3>1. Len(bytes) \in Nat
      BY <1>2, <1>3 DEF bytes
    <3>2. QED
      BY <2>3, <2>4, <3>1
  <2>6. QED
    BY <2>1, <2>4, <2>5 DEF Peek
<1>7. AllStored'
  BY <1>1, <1>2, <1>5, <1>6 DEF AllStored, MapByte
<1>8. Types'
  BY <1>1, <1>2 DEF IInv, Types
<1>9. QED
  BY <1>1, <1>7, <1>8, MapStays DEF IInv

LEMMA InitHolds == Init => IInv
<1> SUFFICES ASSUME Init PROVE IInv
  OBVIOUS
<1>1. /\ elf \in Elfs /\ compression \in BOOLEAN /\ pc = "map" /\ i = 0
      /\ offset = HeaderSize /\ phdr_map = <<>> /\ compressed_size = 0 /\ shdr_offset = 0
      /\ self = <<>>
  BY DEF Init
<1>2. phnum \in Nat /\ Len(phdr_map) = 0
  BY <1>1, ElfFacts
<1>3. Types
  BY <1>1, AlignmentAssumption DEF Types
<1>4. Placed /\ SegmentsApart
  BY <1>1, <1>2, AlignmentAssumption DEF Placed, SegmentsApart
<1>5. QED
  BY <1>1, <1>3, <1>4 DEF IInv, AllStored

LEMMA StutterKeeps ==
    ASSUME IInv, UNCHANGED vars
    PROVE  IInv'
<1>1. UNCHANGED <<elf, compression, pc, i, offset, phdr_map, compressed_size, shdr_offset, self,
                  file>>
  BY DEF vars
<1>2. Types' /\ Placed' /\ SegmentsApart'
  BY <1>1 DEF IInv, Types, Placed, SegmentsApart, Ends, phnum
<1>3. AllStored'
  BY <1>1 DEF IInv, AllStored, MapByte
<1>4. pc' \in {"alloc", "write_elf"} => Mapped'
  BY <1>1 DEF IInv, Mapped, Ends, phnum
<1>5. pc' = "write_elf" => Copied'
  BY <1>1 DEF IInv, Copied, Stored, TableStored, MapByte, Ends, phnum
<1>6. QED
  BY <1>2, <1>3, <1>4, <1>5 DEF IInv

LEMMA NextKeeps == IInv /\ [Next]_vars => IInv'
<1> SUFFICES ASSUME IInv, [Next]_vars PROVE IInv'
  OBVIOUS
<1>1. CASE MapPlain
  <2>1. i + 1 \in 1..phnum
    BY <1>1, ElfFacts DEF MapPlain, Mapping, IInv, Types
  <2>2. elf.phdr[i + 1].p_filesz \in Nat
    BY <2>1, ElfFacts DEF IInv, Types
  <2>3. QED
    BY <1>1, <2>2, PlaceKeeps DEF MapPlain
<1>2. CASE MapCompressed
  <2>1. i + 1 \in 1..phnum
    BY <1>2, ElfFacts DEF MapCompressed, Mapping, IInv, Types
  <2>2. elf.phdr[i + 1].p_filesz \in Nat
    BY <2>1, ElfFacts DEF IInv, Types
  <2>3. PICK sz \in 1..(elf.phdr[i + 1].p_filesz - 1) :
           Place(MapEntry(offset, sz, TRUE, elf.phdr[i + 1]))
    BY <1>2 DEF MapCompressed
  <2>4. sz \in Nat
    BY <2>2
  <2>5. Mapping
    BY <1>2 DEF MapCompressed
  <2>6. QED
    BY <2>3, <2>4, <2>5, PlaceKeeps
<1>3. QED
  BY <1>1, <1>2, FillPhdrMapKeeps, MapEndKeeps, AllocKeeps, WriteSegmentKeeps, WriteRestKeeps,
     WriteFileKeeps, StutterKeeps DEF Next

-----------------------------------------------------------------------------
(* The theorems *)

THEOREM InvariantHolds == Spec => []IInv
<1>1. Init => IInv
  BY InitHolds
<1>2. IInv /\ [Next]_vars => IInv'
  BY NextKeeps
<1>3. QED
  BY <1>1, <1>2, PTL DEF Spec

\* With -c no segment gets in the way of another, in front of the header's end
\* or off its alignment, for every ELF file and every size zlib returns.
THEOREM SegmentsStayApart == Spec => []SegmentsApart
<1>1. IInv => SegmentsApart
  BY DEF IInv
<1>2. QED
  BY <1>1, InvariantHolds, PTL

\* A file that makeself has written without leaving its buffer has every
\* segment and the section header table where the headers say.
THEOREM AllAreStored == Spec => []AllStored
<1>1. IInv => AllStored
  BY DEF IInv
<1>2. QED
  BY <1>1, InvariantHolds, PTL
-----------------------------------------------------------------------------
(* The buffer is enough *)

Aligned(n) == round_up(End(n), ALIGNMENT)

\* The addresses in front of the section header table that the first k
\* segments take, each with its padding.
Covered(k) == {a \in 0..(elf.shoff - 1) :
                 \E n \in 1..k : elf.phdr[n].p_off <= a /\ a < Aligned(n)}

\* Segments that are apart in the ELF file take as many bytes in the SELF at
\* most, so that the sum of their sizes is bounded by what they cover.
Fits ==
    /\ ~compression => pc # "undefined"
    /\ compression /\ Tidy =>
         /\ pc # "undefined"
         /\ offset <= HeaderSize + elf.shoff
         /\ pc = "map" => offset <= HeaderSize + Cardinality(Covered(i))
         /\ pc \in {"alloc", "write_elf"} => shdr_offset <= HeaderSize + elf.shoff

LEMMA CoveredBounded ==
    ASSUME elf \in Elfs, NEW k
    PROVE  /\ IsFiniteSet(Covered(k)) /\ Cardinality(Covered(k)) \in Nat
           /\ Cardinality(Covered(k)) <= elf.shoff
<1>1. elf.shoff \in Nat
  BY ElfFacts
<1>2. IsFiniteSet(0..(elf.shoff - 1)) /\ Cardinality(0..(elf.shoff - 1)) = elf.shoff
  <2> DEFINE last == elf.shoff - 1
  <2>1. last \in Int /\ 0 \in Int
    BY <1>1
  <2>2. (IF 0 > last THEN 0 ELSE last - 0 + 1) = elf.shoff
    BY <1>1
  <2> HIDE DEF last
  <2>3. IsFiniteSet(0..last) /\ Cardinality(0..last) = IF 0 > last THEN 0 ELSE last - 0 + 1
    BY <2>1, FS_Interval
  <2>4. QED
    BY <2>2, <2>3 DEF last
<1>3. Covered(k) \in SUBSET (0..(elf.shoff - 1))
  BY DEF Covered
<1>4. IsFiniteSet(Covered(k)) /\ Cardinality(Covered(k)) <= Cardinality(0..(elf.shoff - 1))
  BY <1>2, <1>3, FS_Subset
<1>5. QED
  BY <1>2, <1>4, FS_CardinalityType

\* One more segment covers its aligned size more.
LEMMA CoveredGrows ==
    ASSUME elf \in Elfs, Tidy, NEW k \in Nat, k < phnum,
           NEW sz, sz = Aligned(k + 1) - elf.phdr[k + 1].p_off
    PROVE  /\ sz \in Nat /\ sz >= elf.phdr[k + 1].p_filesz /\ sz % ALIGNMENT = 0
           /\ Cardinality(Covered(k + 1)) = Cardinality(Covered(k)) + sz
<1> DEFINE p == elf.phdr[k + 1].p_off
           q == Aligned(k + 1)
           new == p..(q - 1)
<1>1. ALIGNMENT \in Nat /\ ALIGNMENT > 0 /\ elf.shoff \in Nat /\ phnum \in Nat /\ k + 1 \in 1..phnum
  BY ElfFacts, AlignmentAssumption
<1>2. \A n \in 1..phnum : /\ elf.phdr[n].p_off \in Nat /\ elf.phdr[n].p_filesz \in Nat
                          /\ End(n) \in Nat
  BY ElfFacts DEF End
<1>3. \A n \in 1..phnum : /\ elf.phdr[n].p_off % ALIGNMENT = 0 /\ Aligned(n) <= elf.shoff
                          /\ Aligned(n) \in Nat /\ Aligned(n) >= End(n)
                          /\ Aligned(n) % ALIGNMENT = 0
  <2>1. \A n \in 1..phnum : elf.phdr[n].p_off % ALIGNMENT = 0 /\ Aligned(n) <= elf.shoff
    BY DEF Tidy, Aligned, End
  <2>2. ASSUME NEW n \in 1..phnum
        PROVE  Aligned(n) \in Nat /\ Aligned(n) >= End(n) /\ Aligned(n) % ALIGNMENT = 0
    BY <1>1, <1>2, RoundUpFacts DEF Aligned
  <2>3. QED
    BY <2>1, <2>2
<1>4. /\ p \in Nat /\ q \in Nat /\ p % ALIGNMENT = 0 /\ q % ALIGNMENT = 0 /\ q <= elf.shoff
      /\ q >= p + elf.phdr[k + 1].p_filesz /\ elf.phdr[k + 1].p_filesz \in Nat
  BY <1>1, <1>2, <1>3 DEF End
<1>5. sz = q - p
  OBVIOUS
<1> HIDE DEF p, q
<1>6. sz \in Nat /\ sz >= elf.phdr[k + 1].p_filesz
  BY <1>4, <1>5
<1>7. sz % ALIGNMENT = 0
  <2>1. q \in Int /\ p \in Int
    BY <1>4
  <2>2. (q - p) % ALIGNMENT = 0
    BY <1>1, <1>4, <2>1, Multiples
  <2>3. QED
    BY <1>5, <2>2
\* The segment covers what no other one does.
<1>8. ASSUME NEW n \in 1..k
      PROVE  Aligned(n) <= p \/ q <= elf.phdr[n].p_off
  <2>1. n \in 1..phnum /\ n # k + 1
    BY <1>1
  <2>2. End(n) <= p \/ End(k + 1) <= elf.phdr[n].p_off
    BY <1>1, <2>1 DEF Tidy, End, p
  <2>3. CASE End(n) <= p
    BY <1>1, <1>2, <1>4, <2>1, <2>3, RoundUpLeast DEF Aligned
  <2>4. CASE End(k + 1) <= elf.phdr[n].p_off
    BY <1>1, <1>2, <1>3, <2>1, <2>4, RoundUpLeast DEF Aligned, q
  <2>5. QED
    BY <2>2, <2>3, <2>4
<1>9. Covered(k) \cap new = {}
  <2> SUFFICES ASSUME NEW a \in Covered(k), a \in new PROVE FALSE
    OBVIOUS
  <2>1. PICK n \in 1..k : elf.phdr[n].p_off <= a /\ a < Aligned(n)
    BY DEF Covered
  <2>2. a \in Int /\ p <= a /\ a < q
    BY <1>4
  <2>3. elf.phdr[n].p_off \in Nat /\ Aligned(n) \in Nat
    BY <1>1, <1>2, <1>3
  <2>4. QED
    BY <1>4, <1>8, <2>1, <2>2, <2>3
<1>10. Covered(k + 1) = Covered(k) \cup new
  <2>1. ASSUME NEW a \in Covered(k + 1)
        PROVE  a \in Covered(k) \cup new
    <3>1. PICK n \in 1..(k + 1) : elf.phdr[n].p_off <= a /\ a < Aligned(n)
      BY DEF Covered
    <3>2. a \in 0..(elf.shoff - 1)
      BY DEF Covered
    <3>3. CASE n \in 1..k
      BY <3>1, <3>2, <3>3 DEF Covered
    <3>4. CASE n = k + 1
      BY <1>4, <3>1, <3>2, <3>4 DEF p, q
    <3>5. QED
      BY <3>3, <3>4
  <2>2. ASSUME NEW a \in Covered(k)
        PROVE  a \in Covered(k + 1)
    BY DEF Covered
  <2>3. ASSUME NEW a \in new
        PROVE  a \in Covered(k + 1)
    <3>1. a \in 0..(elf.shoff - 1) /\ p <= a /\ a < q
      BY <1>1, <1>4
    <3>2. QED
      BY <1>1, <3>1 DEF Covered, p, q
  <2>4. QED
    BY <2>1, <2>2, <2>3
<1>11. IsFiniteSet(new) /\ Cardinality(new) = sz
  <2>1. q - 1 \in Int /\ p \in Int
    BY <1>4
  <2>2. IsFiniteSet(new) /\ Cardinality(new) = IF p > q - 1 THEN 0 ELSE (q - 1) - p + 1
    BY <2>1, FS_Interval
  <2>3. (IF p > q - 1 THEN 0 ELSE (q - 1) - p + 1) = sz
    BY <1>4, <1>5, <1>6
  <2>4. QED
    BY <2>2, <2>3
<1> HIDE DEF new
<1>12. /\ IsFiniteSet(Covered(k)) /\ Cardinality(Covered(k)) \in Nat
  BY CoveredBounded
<1>13. Cardinality(Covered(k) \cup new)
         = Cardinality(Covered(k)) + Cardinality(new) - Cardinality(Covered(k) \cap new)
  BY <1>11, <1>12, FS_Union
<1>14. Cardinality(Covered(k + 1)) = Cardinality(Covered(k)) + sz
  <2>1. Cardinality(Covered(k) \cap new) = 0
    BY <1>9, FS_EmptySet
  <2> DEFINE c == Cardinality(Covered(k))
             d == Cardinality(Covered(k + 1))
  <2>2. d = c + sz - 0 /\ c \in Nat
    BY <1>10, <1>11, <1>12, <1>13, <2>1
  <2> HIDE DEF c, d
  <2>3. d = c + sz
    BY <1>6, <2>2
  <2>4. QED
    BY <2>3 DEF c, d
<1>15. QED
  BY <1>6, <1>7, <1>14

\* The next segment takes no more than its part of the ELF file, aligned.
LEMMA PlaceFits ==
    ASSUME IInv, Fits, Mapping, NEW sz \in Nat, NEW z \in BOOLEAN,
           sz <= elf.phdr[i + 1].p_filesz,
           Place(MapEntry(offset, sz, z, elf.phdr[i + 1]))
    PROVE  Fits'
<1> DEFINE part == Aligned(i + 1) - elf.phdr[i + 1].p_off
           taken == Cardinality(Covered(i))
<1>1. /\ pc = "map" /\ pc' = "map" /\ compression /\ i \in Nat /\ i < phnum /\ i' = i + 1
      /\ offset \in Nat /\ offset' = round_up(offset + sz, ALIGNMENT)
      /\ elf' = elf /\ compression' = compression /\ offset % ALIGNMENT = 0
  BY DEF IInv, Types, Placed, Mapping, Place, MapEntry
<1>2. /\ elf \in Elfs /\ elf.shoff \in Nat /\ elf.phdr[i + 1].p_filesz \in Nat
      /\ HeaderSize \in Nat /\ ALIGNMENT \in Nat /\ ALIGNMENT > 0
  <2>1. elf \in Elfs
    BY DEF IInv, Types
  <2>2. i + 1 \in 1..phnum
    BY <1>1, <2>1, ElfFacts
  <2>3. QED
    BY <2>1, <2>2, ElfFacts, AlignmentAssumption
<1>3. Tidy' <=> Tidy
  BY <1>1 DEF Tidy, phnum
<1>4. ASSUME Tidy
      PROVE  /\ offset' <= HeaderSize + elf.shoff
             /\ offset' <= HeaderSize + Cardinality(Covered(i + 1))
  <2>1. /\ part \in Nat /\ part >= elf.phdr[i + 1].p_filesz /\ part % ALIGNMENT = 0
        /\ Cardinality(Covered(i + 1)) = taken + part
    BY <1>1, <1>2, <1>4, CoveredGrows
  <2>2. /\ taken \in Nat /\ Cardinality(Covered(i + 1)) <= elf.shoff
    BY <1>2, CoveredBounded
  <2>3. offset <= HeaderSize + taken
    BY <1>1, <1>4 DEF Fits
  <2> HIDE DEF part, taken
  <2>4. offset + sz \in Nat /\ offset + part \in Nat /\ (offset + part) % ALIGNMENT = 0
    <3>1. offset + sz \in Nat /\ offset + part \in Nat /\ offset \in Int /\ part \in Int
      BY <1>1, <2>1
    <3>2. (offset + part) % ALIGNMENT = 0
      BY <1>1, <1>2, <2>1, <3>1, Multiples
    <3>3. QED
      BY <3>1, <3>2
  <2>5. offset + sz <= offset + part
    BY <1>1, <1>2, <2>1
  <2>6. offset' <= offset + part
    BY <1>1, <1>2, <2>4, <2>5, RoundUpLeast
  <2>7. offset' \in Nat
    BY <1>1, <1>2, <2>4, RoundUpFacts
  <2> DEFINE tab == elf.shoff
             c == Cardinality(Covered(i + 1))
  <2>8. c = taken + part /\ c <= tab /\ tab \in Nat
    BY <1>2, <2>1, <2>2
  <2> HIDE DEF tab, c
  <2>9. offset' <= HeaderSize + c /\ offset' <= HeaderSize + tab
    BY <1>1, <1>2, <2>1, <2>2, <2>3, <2>6, <2>7, <2>8
  <2>10. QED
    BY <2>9 DEF tab, c
<1>5. QED
  BY <1>1, <1>3, <1>4 DEF Fits, Covered, Aligned, End

\* The steps of write_elf() stay in the buffer.
LEMMA CopyFits ==
    ASSUME IInv, Fits, WriteSegment \/ WriteRest, ~compression \/ Tidy
    PROVE  pc' # "undefined"
<1>1. /\ pc = "write_elf" /\ elf \in Elfs /\ elf.size \in Nat /\ elf.shoff \in Nat
      /\ elf.shsize \in Nat /\ elf.shoff + elf.shsize <= elf.size
      /\ HeaderSize \in Nat /\ Len(self) = HeaderSize + elf.size /\ phnum \in Nat
      /\ offset \in Nat /\ shdr_offset \in Nat /\ i \in Nat /\ Len(phdr_map) = phnum
      /\ phdr_map \in Seq(PhdrMap)
  BY ElfFacts, AlignmentAssumption DEF IInv, Types, Mapped, Copied, WriteSegment, WriteRest
<1>2. compression => offset <= HeaderSize + elf.shoff /\ shdr_offset <= HeaderSize + elf.shoff
  BY <1>1 DEF Fits
<1> DEFINE tab == elf.shoff
           n == elf.shsize
           sz == elf.size
<1>3. /\ tab \in Nat /\ n \in Nat /\ sz \in Nat /\ tab + n <= sz /\ HeaderSize \in Nat
      /\ Len(self) = HeaderSize + sz
      /\ compression => offset <= HeaderSize + tab /\ shdr_offset <= HeaderSize + tab
  BY <1>1, <1>2
<1>4. CASE WriteSegment
  <2> DEFINE m == phdr_map[i + 1]
             bytes == [b \in 1..m.size |-> MapByte(m, b - 1)]
  <2>1. compression /\ i < phnum /\ Memcpy(m.offset, bytes)
    BY <1>4 DEF WriteSegment
  <2>2. i + 1 \in 1..Len(phdr_map)
    BY <1>1, <2>1
  <2>3. Ends(m) <= offset
    BY <2>1, <2>2 DEF IInv, Placed
  <2>4. m \in PhdrMap
    BY <1>1, <2>2, ElementOf
  <2>5. m.offset \in Nat /\ m.size \in Nat
    BY <2>4 DEF PhdrMap
  <2> HIDE DEF m
  <2>6. Len(bytes) = m.size
    BY <2>5
  <2> HIDE DEF bytes, tab, n, sz
  <2>7. m.offset + Len(bytes) <= offset
    BY <2>3, <2>6 DEF Ends
  <2>8. m.offset + Len(bytes) \in Nat
    BY <2>5, <2>6
  <2>9. m.offset + Len(bytes) <= Len(self)
    <3> DEFINE end == m.offset + Len(bytes)
    <3>1. end <= offset /\ end \in Nat
      BY <2>7, <2>8
    <3> HIDE DEF end
    <3>2. end <= Len(self)
      BY <1>1, <1>3, <2>1, <3>1
    <3>3. QED
      BY <3>2 DEF end
  <2>10. QED
    BY <1>1, <2>1, <2>9 DEF Memcpy
<1>5. CASE WriteRest
  <2>1. \A off, k \in Nat : Len(ElfPart(off, k)) = k
    BY DEF ElfPart
  <2>2. CASE compression
    <3>1. Memcpy(shdr_offset, ElfPart(tab, n)) /\ Len(ElfPart(tab, n)) = n
      BY <1>3, <1>5, <2>1, <2>2 DEF WriteRest
    <3> HIDE DEF tab, n, sz
    <3>2. shdr_offset + Len(ElfPart(tab, n)) <= Len(self)
      BY <1>1, <1>3, <2>2, <3>1
    <3>3. QED
      BY <1>1, <3>1, <3>2 DEF Memcpy
  <2>3. CASE ~compression
    <3>1. Memcpy(HeaderSize, ElfPart(0, sz)) /\ Len(ElfPart(0, sz)) = sz
      BY <1>3, <1>5, <2>1, <2>3 DEF WriteRest
    <3> HIDE DEF tab, n, sz
    <3>2. HeaderSize + Len(ElfPart(0, sz)) <= Len(self)
      BY <1>3, <3>1
    <3>3. QED
      BY <1>1, <3>1, <3>2 DEF Memcpy
  <2>4. QED
    BY <2>2, <2>3
<1>6. QED
  BY <1>4, <1>5

LEMMA InitFits == Init => Fits
<1> SUFFICES ASSUME Init PROVE Fits
  OBVIOUS
<1>1. elf \in Elfs /\ pc = "map" /\ i = 0 /\ offset = HeaderSize
  BY DEF Init
<1>2. HeaderSize \in Nat /\ elf.shoff \in Nat
  BY <1>1, ElfFacts, AlignmentAssumption
<1>3. Cardinality(Covered(i)) \in Nat
  BY <1>1, CoveredBounded
<1>4. offset <= HeaderSize + elf.shoff /\ offset <= HeaderSize + Cardinality(Covered(i))
  <2> DEFINE tab == elf.shoff
             c == Cardinality(Covered(i))
  <2>1. tab \in Nat /\ c \in Nat
    BY <1>2, <1>3
  <2> HIDE DEF tab, c
  <2>2. offset <= HeaderSize + tab /\ offset <= HeaderSize + c
    BY <1>1, <1>2, <2>1
  <2>3. QED
    BY <2>2 DEF tab, c
<1>5. QED
  BY <1>1, <1>4 DEF Fits

LEMMA NextFits == IInv /\ Fits /\ [Next]_vars => Fits'
<1> SUFFICES ASSUME IInv, Fits, [Next]_vars PROVE Fits'
  OBVIOUS
<1>1. elf \in Elfs /\ phnum \in Nat /\ i \in Nat
  <2>1. elf \in Elfs /\ i \in Nat
    BY DEF IInv, Types
  <2>2. QED
    BY <2>1, ElfFacts
\* The steps that place a segment.
<1>2. ASSUME Mapping
      PROVE  elf.phdr[i + 1].p_filesz \in Nat
  <2>1. i + 1 \in 1..phnum
    BY <1>1, <1>2 DEF Mapping
  <2>2. QED
    BY <1>1, <2>1, ElfFacts
<1>3. CASE MapPlain
  <2> DEFINE sz == elf.phdr[i + 1].p_filesz
  <2>1. Mapping /\ Place(MapEntry(offset, sz, FALSE, elf.phdr[i + 1]))
    BY <1>3 DEF MapPlain
  <2>2. sz \in Nat /\ sz <= elf.phdr[i + 1].p_filesz
    BY <1>2, <2>1
  <2> HIDE DEF sz
  <2>3. QED
    BY <2>1, <2>2, PlaceFits
<1>4. CASE MapCompressed
  <2>1. Mapping
    BY <1>4 DEF MapCompressed
  <2>2. PICK sz \in 1..(elf.phdr[i + 1].p_filesz - 1) :
           Place(MapEntry(offset, sz, TRUE, elf.phdr[i + 1]))
    BY <1>4 DEF MapCompressed
  <2>3. sz \in Nat /\ sz <= elf.phdr[i + 1].p_filesz
    <3> DEFINE n == elf.phdr[i + 1].p_filesz
    <3>1. n \in Nat /\ sz \in 1..(n - 1)
      BY <1>2, <2>1
    <3> HIDE DEF n
    <3>2. sz \in Nat /\ sz <= n
      BY <3>1
    <3>3. QED
      BY <3>2 DEF n
  <2>4. QED
    BY <2>1, <2>2, <2>3, PlaceFits
\* The others leave the ELF file, the option and offset alone.
<1>5. ASSUME UNCHANGED <<elf, compression, offset>>
      PROVE  /\ Tidy' <=> Tidy
             /\ compression /\ Tidy => offset' <= HeaderSize + elf'.shoff
  BY <1>5 DEF Tidy, phnum, Fits
<1>6. CASE FillPhdrMap
  <2>1. ~compression' /\ pc' = "alloc"
    BY <1>6 DEF FillPhdrMap
  <2>2. QED
    BY <2>1 DEF Fits
<1>7. CASE MapEnd
  <2>1. /\ UNCHANGED <<elf, compression, offset>> /\ compression /\ pc = "map" /\ i >= phnum
    BY <1>7 DEF MapEnd
  <2>2. ASSUME Tidy
        PROVE  pc' = "alloc" /\ shdr_offset' <= HeaderSize + elf.shoff
    <3>1. phnum > 0 /\ phnum # 0
      BY <1>1, <2>2 DEF Tidy
    <3>2. pc' = "alloc" /\ shdr_offset' = Ends(phdr_map[i])
      BY <1>7, <3>1 DEF MapEnd, Ends
    <3>3. i \in 1..Len(phdr_map)
      BY <1>1, <2>1, <3>1 DEF IInv, Placed
    <3>4. Ends(phdr_map[i]) <= offset
      BY <2>1, <3>3 DEF IInv, Placed
    <3>5. shdr_offset' \in Nat
      BY <1>7, MapEndKeeps DEF IInv, Types
    <3>6. offset <= HeaderSize + elf.shoff /\ offset \in Nat
      BY <2>1, <2>2 DEF Fits, IInv, Types
    <3>7. HeaderSize \in Nat /\ elf.shoff \in Nat
      BY <1>1, ElfFacts, AlignmentAssumption
    <3> DEFINE tab == elf.shoff
               end == Ends(phdr_map[i])
    <3>8. end <= offset /\ offset <= HeaderSize + tab /\ tab \in Nat /\ end \in Nat
      BY <3>2, <3>4, <3>5, <3>6, <3>7
    <3> HIDE DEF tab, end
    <3>9. end <= HeaderSize + tab
      BY <3>6, <3>7, <3>8
    <3>10. QED
      BY <3>2, <3>9 DEF tab, end
  <2>3. QED
    BY <1>5, <2>1, <2>2 DEF Fits
<1>8. CASE Alloc
  BY <1>5, <1>8 DEF Alloc, Fits
<1>9. CASE WriteSegment \/ WriteRest
  <2>1. /\ UNCHANGED <<elf, compression, offset, shdr_offset>> /\ pc = "write_elf"
        /\ pc' \in {"write_elf", "undefined"}
    BY <1>9 DEF WriteSegment, WriteRest, Memcpy
  <2>2. ~compression \/ Tidy => pc' # "undefined"
    BY <1>9, CopyFits
  <2>3. QED
    BY <1>5, <2>1, <2>2 DEF Fits
<1>10. CASE WriteFile
  BY <1>5, <1>10 DEF WriteFile, Fits
<1>11. CASE UNCHANGED vars
  <2>1. UNCHANGED <<elf, compression, pc, i, offset, shdr_offset>>
    BY <1>11 DEF vars
  <2>2. Covered(i)' = Covered(i)
    BY <2>1 DEF Covered, Aligned, End
  <2>3. QED
    BY <1>5, <2>1, <2>2 DEF Fits
<1>12. QED
  BY <1>3, <1>4, <1>6, <1>7, <1>8, <1>9, <1>10, <1>11 DEF Next

\* makeself stays inside of its buffer without -c for every ELF file, and with
\* it for every one whose segments are aligned, apart and in front of the
\* section header table, whatever zlib returns.
THEOREM BufferAlwaysSuffices == Spec => []BufferSuffices
<1>1. Init => Fits
  BY InitFits
<1>2. IInv /\ Fits /\ [Next]_vars => Fits'
  BY NextFits
<1>3. Fits => BufferSuffices
  BY DEF Fits, BufferSuffices
<1>4. QED
  BY <1>1, <1>2, <1>3, InvariantHolds, PTL DEF Spec

-----------------------------------------------------------------------------
(* Part two: read_sections() of unself *)

Word == 0..(W - 1)

\* The lemmas on remainders, for this W.
LEMMA WordFacts ==
    /\ \A x \in Int : x % W \in Word
    /\ \A x \in Word : x % W = x /\ x \in Int
    /\ \A a, b \in Int : ((a % W) + (b % W)) % W = (a + b) % W
    /\ \A a \in Word, b \in Int : (a + ((b - a) % W)) % W = b % W
<1>1. W \in Nat /\ W > 0
  BY WAssumption
<1>2. \A x \in Int : x % W \in Word
  BY <1>1, ModRange DEF Word
<1>3. \A x \in Word : x % W = x /\ x \in Int
  BY <1>1, ModOfWord DEF Word
<1>4. \A a, b \in Int : ((a % W) + (b % W)) % W = (a + b) % W
  BY <1>1, ModSum
<1>5. \A a \in Word, b \in Int : (a + ((b - a) % W)) % W = b % W
  BY <1>1, ModFill DEF Word
<1>6. QED
  BY <1>2, <1>3, <1>4, <1>5

\* A u32 is an integer.
LEMMA WordInt ==
    ASSUME NEW x \in Word
    PROVE  x \in Int
BY WAssumption DEF Word

\* The mapped file has the fields that its readers take it to have.
Readable(f) == f \in SelfFiles /\ Len(f.sec) = Len(f.phdr)

\* What the fields of an input are.
LEMMA InputFields ==
    ASSUME NEW f, Readable(f)
    PROVE  /\ f.header_len \in Nat /\ f.filesize \in Nat /\ f.version_word \in Nat
           /\ Len(f.phdr) \in Nat
           /\ \A n \in 1..Len(f.phdr) :
                /\ f.phdr[n].p_off \in Nat /\ f.phdr[n].p_filesz \in Nat
                /\ f.sec[n].offset \in Nat /\ f.sec[n].size \in Nat
                /\ f.sec[n].compressed \in BOOLEAN
<1>1. f \in SelfFiles /\ Len(f.sec) = Len(f.phdr)
  BY DEF Readable
<1>2. /\ f.header_len \in Nat /\ f.filesize \in Nat /\ f.version_word \in Nat
      /\ f.phdr \in Seq([p_off : Nat, p_filesz : Nat])
      /\ f.sec \in Seq([offset : Nat, size : Nat, compressed : BOOLEAN])
  BY <1>1 DEF SelfFiles
<1>3. ASSUME NEW n \in 1..Len(f.phdr)
      PROVE  /\ f.phdr[n] \in [p_off : Nat, p_filesz : Nat]
             /\ f.sec[n] \in [offset : Nat, size : Nat, compressed : BOOLEAN]
  <2>1. n \in 1..Len(f.phdr) /\ n \in 1..Len(f.sec)
    BY <1>1, <1>3
  <2>2. QED
    BY <1>2, <2>1, ElementOf
<1>4. ASSUME NEW n \in 1..Len(f.phdr)
      PROVE  /\ f.phdr[n].p_off \in Nat /\ f.phdr[n].p_filesz \in Nat
             /\ f.sec[n].offset \in Nat /\ f.sec[n].size \in Nat
             /\ f.sec[n].compressed \in BOOLEAN
  <2>1. /\ f.phdr[n] \in [p_off : Nat, p_filesz : Nat]
        /\ f.sec[n] \in [offset : Nat, size : Nat, compressed : BOOLEAN]
    BY <1>3
  <2>2. QED
    BY <2>1
<1>5. Len(f.phdr) \in Nat
  BY <1>2, ElementOf
<1>6. QED
  BY <1>2, <1>4, <1>5

\* Sorting keeps the number of sections and their type.
LEMMA SortKeeps ==
    ASSUME NEW t \in Seq(SelfSec), NEW u \in SortedOrders(t)
    PROVE  u \in Seq(SelfSec) /\ Len(u) = Len(t)
<1>1. PICK f \in [1..Len(t) -> 1..Len(t)] : u = [n \in 1..Len(t) |-> t[f[n]]]
  BY DEF SortedOrders, Bijection, Injection
<1>2. Len(t) \in Nat
  OBVIOUS
<1>3. \A n \in 1..Len(t) : t[f[n]] \in SelfSec
  OBVIOUS
<1>4. QED
  BY <1>1, <1>2, <1>3

\* The compressed sections, and where their segments begin and end.
Z == {n \in 1..e_phnum : in.sec[n].compressed}
SegmentStart(n) == in.phdr[n].p_off
SegmentStop(n) == in.phdr[n].p_off + in.phdr[n].p_filesz

-----------------------------------------------------------------------------
\* Where the offsets fit the running positions, two pieces at most have been
\* used for each section already passed while the walk goes on; one more only
\* just before the section whose gap it fills.
TwoPerSection ==
    \/ Len(self_sections) <= 2 * ui
    \/ /\ Len(self_sections) <= 2 * ui + 1
       /\ ui < Len(s)
       /\ self_offset = s[ui + 1].offset

Bound == /\ PiecesBounded
         /\ Narrow /\ upc = "walk" /\ elf_offset < in.filesize => TwoPerSection

\* While the walk goes on, elf_offset is the end of the last piece; if that one
\* filled a gap, it is also where the segment behind the gap begins.
Joined == /\ PiecesFollow
          /\ upc = "walk" /\ elf_offset < in.filesize /\ Len(self_sections) > 0 =>
               LET x == self_sections[Len(self_sections)]
               IN  /\ elf_offset = PieceEnd(x)
                   /\ ~x.compressed /\ ui < Len(s) =>
                        elf_offset = in.phdr[s[ui + 1].idx].p_off % W

\* Every element of s is the entry of a compressed section.
FromHeader(x) == /\ x.idx \in 1..e_phnum
                 /\ in.sec[x.idx].compressed
                 /\ x.offset = in.sec[x.idx].offset

WalkInv == /\ Readable(in)
           /\ upc \in {"headers", "walk", "overrun", "write", "check", "done", "failed"}
           /\ s \in Seq(SelfSec)
           /\ \A n \in 1..Len(s) : FromHeader(s[n])
           /\ ui \in Nat
           /\ elf_offset \in Word /\ self_offset \in Word
           /\ self_sections \in Seq(Pieces)
           /\ upc = "headers" => ui <= e_phnum /\ self_sections = <<>>
           /\ upc = "walk" => ui <= Len(s)
           /\ Bound
           /\ Joined

\* qsort() moves the elements and changes none.
LEMMA SortKeepsElements ==
    ASSUME NEW t \in Seq(SelfSec), NEW u \in SortedOrders(t)
    PROVE  \A n \in 1..Len(u) : \E k \in 1..Len(t) : u[n] = t[k]
<1>1. PICK f \in [1..Len(t) -> 1..Len(t)] : u = [n \in 1..Len(t) |-> t[f[n]]]
  BY DEF SortedOrders, Bijection, Injection
<1>2. Len(u) = Len(t)
  BY SortKeeps
<1>3. QED
  BY <1>1, <1>2

\* The invariant holds before read_sections() has started.
LEMMA InitWalkInv ==
    ASSUME NEW f, Readable(f), InitWith(f)
    PROVE  WalkInv
<1>1. 0 \in Word
  BY WAssumption DEF Word
<1>2. e_phnum \in Nat
  BY InputFields DEF InitWith, e_phnum
<1>3. s = <<>> /\ self_sections = <<>>
  BY DEF InitWith
<1>4. Bound
  BY <1>3 DEF Bound, PiecesBounded, InitWith
<1>5. QED
  BY <1>1, <1>2, <1>3, <1>4 DEF WalkInv, InitWith, Joined, PiecesFollow

\* Appending a piece that starts at the end of the last one, or at the place
\* of its own segment behind a compressed one, keeps the pieces joined.
LEMMA AppendFollows ==
    ASSUME self_sections \in Seq(Pieces), NEW x \in Pieces, PiecesFollow,
           self_sections' = Append(self_sections, x),
           Len(self_sections) > 0 =>
              \/ self_sections[Len(self_sections)].compressed /\ x.compressed
              \/ x.elf_offset = PieceEnd(self_sections[Len(self_sections)])
    PROVE  /\ self_sections' \in Seq(Pieces)
           /\ Len(self_sections') = Len(self_sections) + 1
           /\ self_sections'[Len(self_sections')] = x
           /\ PiecesFollow'
<1>1. /\ self_sections' \in Seq(Pieces)
      /\ Len(self_sections') = Len(self_sections) + 1
      /\ self_sections'[Len(self_sections) + 1] = x
      /\ \A n \in 1..Len(self_sections) : self_sections'[n] = self_sections[n]
  OBVIOUS
<1>2. ASSUME NEW n \in 1..(Len(self_sections') - 1)
      PROVE  \/ self_sections'[n].compressed /\ self_sections'[n + 1].compressed
             \/ self_sections'[n + 1].elf_offset = PieceEnd(self_sections'[n])
  <2>1. CASE n < Len(self_sections)
    BY <1>1, <1>2, <2>1 DEF PiecesFollow
  <2>2. CASE n = Len(self_sections)
    BY <1>1, <1>2, <2>2
  <2>3. QED
    BY <1>1, <1>2, <2>1, <2>2
<1>3. PiecesFollow'
  BY <1>2 DEF PiecesFollow, PieceEnd
<1>4. QED
  BY <1>1, <1>3

\* What depends on the file only.
LEMMA SameFile ==
    ASSUME in' = in
    PROVE  /\ Z' = Z /\ e_phnum' = e_phnum /\ WellPlaced' = WellPlaced /\ Narrow' = Narrow
           /\ \A n : SegmentStart(n)' = SegmentStart(n) /\ SegmentStop(n)' = SegmentStop(n)
           /\ \A x : FromHeader(x)' = FromHeader(x)
BY DEF Z, e_phnum, WellPlaced, Narrow, SegmentStart, SegmentStop, FromHeader

\* What holds in each turn of the walk.
LEMMA TurnFacts ==
    ASSUME WalkInv, Walking
    PROVE  /\ upc = "walk" /\ elf_offset < in.filesize
           /\ ui \in Nat /\ Len(s) \in Nat /\ Len(self_sections) \in Nat /\ ui <= Len(s)
           /\ elf_offset \in Word /\ self_offset \in Word /\ elf_offset \in Int
           /\ in.filesize \in Nat /\ (Narrow => in.filesize \in Word)
           /\ ui < Len(s) => /\ ui + 1 \in 1..Len(s) /\ s[ui + 1] \in SelfSec
                             /\ FromHeader(s[ui + 1])
                             /\ s[ui + 1].offset \in Nat
                             /\ (Narrow => s[ui + 1].offset \in Word)
           /\ Len(self_sections) > 0 => elf_offset = PieceEnd(self_sections[Len(self_sections)])
           /\ Narrow => TwoPerSection
<1>1. /\ upc = "walk" /\ elf_offset < in.filesize /\ ui \in Nat /\ Len(s) \in Nat
      /\ Len(self_sections) \in Nat /\ ui <= Len(s) /\ s \in Seq(SelfSec)
      /\ elf_offset \in Word /\ self_offset \in Word /\ Readable(in)
  BY DEF WalkInv, Walking
<1>2. elf_offset \in Int /\ in.filesize \in Nat
  BY <1>1, InputFields, WordInt
<1>3. Narrow => in.filesize \in Word
  BY <1>2, WAssumption DEF Narrow, Word
<1>4. ASSUME ui < Len(s)
      PROVE  /\ ui + 1 \in 1..Len(s) /\ s[ui + 1] \in SelfSec /\ FromHeader(s[ui + 1])
             /\ s[ui + 1].offset \in Nat
             /\ (Narrow => s[ui + 1].offset \in Word)
  <2>1. ui + 1 \in 1..Len(s)
    BY <1>1, <1>4
  <2>2. s[ui + 1] \in SelfSec /\ FromHeader(s[ui + 1])
    BY <1>1, <2>1, ElementOf DEF WalkInv
  <2>3. s[ui + 1].offset \in Nat
    BY <2>2 DEF SelfSec
  <2>4. Narrow => s[ui + 1].offset < W
    BY <2>2 DEF Narrow, FromHeader
  <2>5. Narrow => s[ui + 1].offset \in Word
    BY <2>3, <2>4, WAssumption DEF Word
  <2> QED BY <2>1, <2>2, <2>3, <2>5
<1>5. Len(self_sections) > 0 => elf_offset = PieceEnd(self_sections[Len(self_sections)])
  BY <1>1 DEF WalkInv, Joined
<1>6. Narrow => TwoPerSection
  BY <1>1 DEF WalkInv, Bound
<1> QED BY <1>1, <1>2, <1>3, <1>4, <1>5, <1>6

\* The place of a segment, and the size and the end of its section.
LEMMA SectionFacts ==
    ASSUME Readable(in), NEW x \in SelfSec, FromHeader(x)
    PROVE  /\ x.idx \in 1..Len(in.phdr)
           /\ in.phdr[x.idx].p_off \in Int /\ in.phdr[x.idx].p_filesz \in Int
           /\ x.offset \in Int /\ x.size \in Int /\ x.next \in Int
<1>1. x.idx \in 1..Len(in.phdr)
  BY DEF FromHeader, e_phnum
<1>2. in.phdr[x.idx].p_off \in Nat /\ in.phdr[x.idx].p_filesz \in Nat
  BY <1>1, InputFields
<1> QED BY <1>1, <1>2 DEF SelfSec

\* What all three branches of the walk have to show of their piece x.
LEMMA TurnKeepsInv ==
    ASSUME WalkInv, Walking, NEW x \in Pieces, NEW eoff \in Word, NEW soff \in Word, NEW next \in Nat,
           Take(x, eoff, soff, next), next <= Len(s),
           Len(self_sections) > 0 =>
              \/ self_sections[Len(self_sections)].compressed /\ x.compressed
              \/ x.elf_offset = elf_offset,
           eoff = PieceEnd(x),
           ~x.compressed /\ next < Len(s) => eoff = in.phdr[s[next + 1].idx].p_off % W,
           Narrow => Len(self_sections) + 1 <= 2 * Len(s) + 1,
           Narrow /\ eoff < in.filesize =>
              \/ Len(self_sections) + 1 <= 2 * next
              \/ /\ Len(self_sections) + 1 <= 2 * next + 1
                 /\ next < Len(s)
                 /\ soff = s[next + 1].offset
    PROVE  WalkInv'
<1>1. /\ upc = "walk" /\ upc' = upc /\ in' = in /\ s' = s /\ ui' = next
      /\ elf_offset' = eoff /\ self_offset' = soff /\ self_sections' = Append(self_sections, x)
  BY DEF Take, Walking
<1>2. Len(self_sections) > 0 => elf_offset = PieceEnd(self_sections[Len(self_sections)])
  BY TurnFacts
<1>3. /\ self_sections' \in Seq(Pieces) /\ Len(self_sections') = Len(self_sections) + 1
      /\ self_sections'[Len(self_sections')] = x /\ PiecesFollow'
  BY <1>1, <1>2, AppendFollows DEF WalkInv, Joined
<1>4. Narrow' = Narrow /\ e_phnum' = e_phnum /\ \A y : FromHeader(y)' = FromHeader(y)
  BY <1>1, SameFile
<1>5. PiecesBounded'
  <2>1. in.filesize >= W => upc' \in {"headers", "walk", "overrun"}
    BY <1>1
  <2> QED BY <1>1, <1>3, <1>4, <2>1 DEF PiecesBounded
<1>6. Narrow' /\ upc' = "walk" /\ elf_offset' < in'.filesize => TwoPerSection'
  BY <1>1, <1>3, <1>4 DEF TwoPerSection
<1>7. Joined'
  <2>1. x.elf_offset' = x.elf_offset /\ PieceEnd(x)' = PieceEnd(x)
    BY DEF PieceEnd
  <2> QED BY <1>1, <1>3, <2>1 DEF Joined, PieceEnd
<1> QED BY <1>1, <1>3, <1>4, <1>5, <1>6, <1>7 DEF WalkInv, Bound

\* The rest behind the last section ends where the file does.
LEMMA RestKeepsInv == ASSUME WalkInv, Rest PROVE WalkInv'
<1>r. PICK rest : rest = (in.filesize - elf_offset) % W
  OBVIOUS
<1>x. PICK x : x = Piece(self_offset, rest, FALSE, rest, elf_offset)
  OBVIOUS
<1>1. Walking /\ ui = Len(s) /\ Take(x, in.filesize % W, self_offset, ui)
  BY <1>r, <1>x DEF Rest
<1>2. /\ ui \in Nat /\ Len(s) \in Nat /\ Len(self_sections) \in Nat
      /\ elf_offset \in Word /\ self_offset \in Word /\ elf_offset \in Int /\ in.filesize \in Nat
      /\ Narrow => TwoPerSection /\ in.filesize \in Word
  BY <1>1, TurnFacts
<1>3. rest \in Word /\ in.filesize % W \in Word /\ (Narrow => in.filesize % W = in.filesize)
  <2>1. in.filesize \in Int /\ in.filesize - elf_offset \in Int
    BY <1>2
  <2> QED BY <1>r, <1>2, <2>1, WordFacts
<1>4. x \in Pieces /\ x.elf_offset = elf_offset /\ x.compressed = FALSE
  BY <1>x, <1>2, <1>3 DEF Piece, Pieces, Word
<1>5. in.filesize % W = PieceEnd(x)
  <2>1. PieceEnd(x) = (elf_offset + rest) % W
    BY <1>x DEF PieceEnd, Piece
  <2>2. in.filesize \in Int
    BY <1>2
  <2> QED BY <1>r, <1>2, <2>1, <2>2, WordFacts
<1>6. Narrow => Len(self_sections) + 1 <= 2 * Len(s) + 1
  BY <1>1, <1>2 DEF TwoPerSection
<1>7. Narrow => ~(in.filesize % W < in.filesize)
  BY <1>2, <1>3
<1> HIDE DEF PieceEnd
<1>8. ~(ui < Len(s)) /\ ui <= Len(s)
  BY <1>1, <1>2
<1> QED BY <1>1, <1>2, <1>3, <1>4, <1>5, <1>6, <1>7, <1>8, TurnKeepsInv

\* The piece of a compressed section ends where its segment does.
LEMMA CompressedKeepsInv == ASSUME WalkInv, Compressed PROVE WalkInv'
<1>p. PICK p : p = in.phdr[s[ui + 1].idx]
  OBVIOUS
<1>x. PICK x : x = Whole(s[ui + 1], p)
  OBVIOUS
<1>1. /\ Walking /\ ui < Len(s) /\ self_offset = s[ui + 1].offset
      /\ Take(x, (p.p_off + p.p_filesz) % W, s[ui + 1].next % W, ui + 1)
  BY <1>p, <1>x DEF Compressed, TakeWhole
<1>2. /\ ui \in Nat /\ Len(s) \in Nat /\ Len(self_sections) \in Nat /\ self_offset \in Word
      /\ s[ui + 1] \in SelfSec /\ FromHeader(s[ui + 1])
      /\ Narrow => TwoPerSection
  BY <1>1, TurnFacts
<1>3. /\ p.p_off \in Int /\ p.p_filesz \in Int /\ s[ui + 1].size \in Int /\ s[ui + 1].next \in Int
      /\ p.p_off + p.p_filesz \in Int
  <2>1. Readable(in)
    BY DEF WalkInv
  <2>2. PICK y : y = s[ui + 1]
    OBVIOUS
  <2>3. y \in SelfSec /\ FromHeader(y) /\ p = in.phdr[y.idx]
    BY <1>p, <1>2, <2>2
  <2>4. p.p_off \in Int /\ p.p_filesz \in Int /\ y.size \in Int /\ y.next \in Int
    BY <2>1, <2>3, SectionFacts
  <2> QED BY <2>2, <2>4
<1>4. /\ s[ui + 1].size % W \in Word /\ p.p_filesz % W \in Word /\ p.p_off % W \in Word
      /\ s[ui + 1].next % W \in Word /\ (p.p_off + p.p_filesz) % W \in Word
  BY <1>3, WordFacts
<1>5. /\ x \in Pieces /\ x.compressed = TRUE /\ x.elf_offset = p.p_off % W
      /\ x.size_uncompressed = p.p_filesz % W
  <2>1. x = Piece(self_offset, s[ui + 1].size % W, TRUE, p.p_filesz % W, p.p_off % W)
    BY <1>x, <1>1 DEF Whole
  <2> QED BY <1>2, <1>4, <2>1 DEF Piece, Pieces, Word
<1>6. (p.p_off + p.p_filesz) % W = PieceEnd(x)
  <2>1. PieceEnd(x) = ((p.p_off % W) + (p.p_filesz % W)) % W
    BY <1>5 DEF PieceEnd
  <2> QED BY <1>3, <2>1, WordFacts
<1>7. Len(self_sections) > 0 =>
         \/ self_sections[Len(self_sections)].compressed /\ x.compressed
         \/ x.elf_offset = elf_offset
  <2>1. upc = "walk" /\ elf_offset < in.filesize
    BY <1>1, TurnFacts
  <2> QED BY <1>p, <1>1, <1>5, <2>1 DEF WalkInv, Joined
<1>8. Narrow => Len(self_sections) + 1 <= 2 * (ui + 1)
  BY <1>2 DEF TwoPerSection
<1>9. ui + 1 \in Nat /\ ui + 1 <= Len(s) /\ (Narrow => Len(self_sections) + 1 <= 2 * Len(s) + 1)
  BY <1>1, <1>2, <1>8
<1> QED BY <1>1, <1>4, <1>5, <1>6, <1>7, <1>8, <1>9, TurnKeepsInv

\* The piece of a gap ends where the segment behind it begins.
LEMMA GapKeepsInv == ASSUME WalkInv, Gap PROVE WalkInv'
<1>p. PICK p : p = in.phdr[s[ui + 1].idx]
  OBVIOUS
<1>g. PICK gap : gap = (p.p_off - elf_offset) % W
  OBVIOUS
<1>x. PICK x : x = Piece(self_offset, gap, FALSE, gap, elf_offset)
  OBVIOUS
<1>1. /\ Walking /\ ui < Len(s) /\ self_offset # s[ui + 1].offset
      /\ Take(x, (elf_offset + gap) % W, s[ui + 1].offset % W, ui)
  BY <1>p, <1>g, <1>x DEF Gap, TakeGap
<1>2. /\ ui \in Nat /\ Len(s) \in Nat /\ Len(self_sections) \in Nat /\ self_offset \in Word
      /\ elf_offset \in Word /\ elf_offset \in Int
      /\ s[ui + 1] \in SelfSec /\ FromHeader(s[ui + 1])
      /\ Narrow => TwoPerSection /\ s[ui + 1].offset \in Word
  BY <1>1, TurnFacts
<1>3. p.p_off \in Int /\ s[ui + 1].offset \in Int /\ p.p_off - elf_offset \in Int
  <2>1. Readable(in)
    BY DEF WalkInv
  <2>2. PICK y : y = s[ui + 1]
    OBVIOUS
  <2>3. y \in SelfSec /\ FromHeader(y) /\ p = in.phdr[y.idx]
    BY <1>p, <1>2, <2>2
  <2>4. p.p_off \in Int /\ y.offset \in Int
    BY <2>1, <2>3, SectionFacts
  <2> QED BY <1>2, <2>2, <2>4
<1>4. gap \in Word /\ s[ui + 1].offset % W \in Word /\ gap \in Int
  <2>1. gap \in Word /\ s[ui + 1].offset % W \in Word
    BY <1>g, <1>3, WordFacts
  <2> QED BY <2>1, WordInt
<1>5. (elf_offset + gap) % W = p.p_off % W /\ p.p_off % W \in Word
  BY <1>g, <1>2, <1>3, WordFacts
<1>6. x \in Pieces /\ x.compressed = FALSE /\ x.elf_offset = elf_offset /\ x.size_uncompressed = gap
  BY <1>x, <1>2, <1>4 DEF Piece, Pieces, Word
<1>7. (elf_offset + gap) % W = PieceEnd(x)
  BY <1>6 DEF PieceEnd
<1>8. Narrow => /\ Len(self_sections) + 1 <= 2 * ui + 1
                /\ s[ui + 1].offset % W = s[ui + 1].offset
  <2>1. Narrow => Len(self_sections) + 1 <= 2 * ui + 1
    BY <1>1, <1>2 DEF TwoPerSection
  <2>2. Narrow => s[ui + 1].offset % W = s[ui + 1].offset
    BY <1>2, WordFacts
  <2> QED BY <2>1, <2>2
<1>9. ui <= Len(s) /\ (Narrow => Len(self_sections) + 1 <= 2 * Len(s) + 1)
  BY <1>1, <1>2, <1>8
<1>10. (elf_offset + gap) % W \in Word
  BY <1>5
<1> QED BY <1>p, <1>1, <1>2, <1>4, <1>5, <1>6, <1>7, <1>8, <1>9, <1>10, TurnKeepsInv

\* An array is left only where the headers need more pieces than it has room for.
LEMMA OverrunKeepsInv == ASSUME WalkInv, Overrun PROVE WalkInv'
<1>1. /\ upc' = "overrun"
      /\ UNCHANGED <<in, s, ui, elf_offset, self_offset, self_sections>>
      /\ Len(s) \in Nat /\ Len(self_sections) \in Nat /\ ui \in Nat
  BY DEF Overrun, WalkInv
<1>2. Narrow' = Narrow /\ e_phnum' = e_phnum /\ \A y : FromHeader(y)' = FromHeader(y)
  BY <1>1, SameFile
<1>3. ASSUME Narrow PROVE 2 * Len(s) + 1 > MAX_SECTIONS
  <2>1. CASE upc = "headers" /\ Len(s) >= MAX_SECTIONS
    BY <1>1, <2>1, MaxAssumption
  <2>2. CASE upc = "walk" /\ elf_offset < in.filesize /\ Len(self_sections) >= MAX_SECTIONS
    <3>1. TwoPerSection /\ ui <= Len(s)
      BY <1>3, <2>2 DEF WalkInv, Bound
    <3> QED BY <1>1, <2>2, <3>1, MaxAssumption DEF TwoPerSection
  <2> QED BY <2>1, <2>2 DEF Overrun
<1>4. PiecesBounded'
  <2>1. Narrow => Len(self_sections) <= 2 * Len(s) + 1
    BY DEF WalkInv, Bound, PiecesBounded
  <2>2. Narrow => ~(2 * Len(s) + 1 <= MAX_SECTIONS)
    BY <1>1, <1>3, MaxAssumption
  <2> QED BY <1>1, <1>2, <2>1, <2>2 DEF PiecesBounded, Enough
<1>5. Joined'
  BY <1>1 DEF WalkInv, Joined, PiecesFollow, PieceEnd
<1> QED BY <1>1, <1>2, <1>4, <1>5 DEF WalkInv, Bound

\* Every step of unself keeps the invariant.
LEMMA NextWalkInv == WalkInv /\ [UNext]_uvars => WalkInv'
<1> SUFFICES ASSUME WalkInv, [UNext]_uvars PROVE WalkInv'
  OBVIOUS
<1>1. /\ Readable(in) /\ ui \in Nat /\ s \in Seq(SelfSec) /\ self_sections \in Seq(Pieces)
      /\ Len(s) \in Nat /\ Len(self_sections) \in Nat
      /\ elf_offset \in Word /\ self_offset \in Word
      /\ W \in Nat /\ W > 0
  BY WAssumption DEF WalkInv
<1>2. e_phnum \in Nat /\ in.filesize \in Nat /\ in.header_len \in Nat
  BY <1>1, InputFields DEF e_phnum
<1>3. CASE ReadHeader
  <2>1. /\ ui + 1 \in 1..e_phnum /\ in' = in /\ upc' = upc /\ upc = "headers" /\ ui' = ui + 1
        /\ UNCHANGED <<elf_offset, self_offset, self_sections>>
    BY <1>1, <1>2, <1>3 DEF ReadHeader
  <2>2. /\ in.sec[ui + 1].offset \in Nat /\ in.sec[ui + 1].size \in Nat
        /\ in.version_word \in Nat
    BY <1>1, <2>1, InputFields DEF e_phnum
  <2>3. ui + 1 # e_phnum => in.sec[ui + 2].offset \in Nat
    BY <1>1, <1>2, <2>1, InputFields DEF e_phnum
  <2>4. /\ read_section(ui + 1) \in SelfSec /\ read_section(ui + 1).idx = ui + 1
        /\ read_section(ui + 1).offset = in.sec[ui + 1].offset
    BY <1>1, <2>1, <2>2, <2>3 DEF read_section, SelfSec
  <2>5. in.sec[ui + 1].compressed => FromHeader(read_section(ui + 1))
    BY <2>1, <2>4 DEF FromHeader
  <2>6. s' \in Seq(SelfSec) /\ \A n \in 1..Len(s') : FromHeader(s'[n])
    <3>1. CASE in.sec[ui + 1].compressed
      <4>1. s' = Append(s, read_section(ui + 1))
        BY <1>3, <3>1 DEF ReadHeader
      <4>2. \A n \in 1..Len(s) : FromHeader(s[n])
        BY DEF WalkInv
      <4> HIDE DEF FromHeader
      <4> QED BY <1>1, <2>4, <2>5, <3>1, <4>1, <4>2
    <3>2. CASE ~in.sec[ui + 1].compressed
      BY <1>1, <1>3, <3>2 DEF ReadHeader, WalkInv
    <3> QED BY <3>1, <3>2
  <2>7. self_sections = <<>>
    BY <2>1 DEF WalkInv
  <2>8. Bound' /\ Joined'
    <3>1. Len(self_sections') = 0 /\ upc' = "headers" /\ Len(s') \in Nat
      BY <2>1, <2>6, <2>7
    <3> QED BY <2>1, <2>7, <3>1 DEF Bound, PiecesBounded, Joined, PiecesFollow
  <2>9. e_phnum' = e_phnum /\ \A y : FromHeader(y)' = FromHeader(y)
    BY <2>1, SameFile
  <2> QED BY <1>1, <1>2, <2>1, <2>6, <2>7, <2>8, <2>9 DEF WalkInv
<1>4. CASE Sort
  <2>1. /\ s' \in Seq(SelfSec) /\ Len(s') = Len(s) /\ in' = in /\ upc' = "walk" /\ ui' = 0
        /\ elf_offset' = elf_offset /\ self_sections' = self_sections /\ upc = "headers"
    BY <1>1, <1>4, SortKeeps DEF Sort
  <2>2. self_offset' \in Word /\ self_sections = <<>>
    BY <1>1, <1>2, <1>4, ModRange DEF Sort, WalkInv, Word
  <2>3. \A n \in 1..Len(s') : FromHeader(s'[n])
    <3>1. \A n \in 1..Len(s') : \E k \in 1..Len(s) : s'[n] = s[k]
      BY <1>1, <1>4, SortKeepsElements DEF Sort
    <3> QED BY <3>1 DEF WalkInv
  <2>4. Bound' /\ Joined'
    <3>1. Len(self_sections') = 0 /\ Len(s') \in Nat
      BY <1>1, <2>1, <2>2
    <3>2. TwoPerSection'
      BY <2>1, <3>1 DEF TwoPerSection
    <3> QED BY <2>1, <2>2, <3>1, <3>2 DEF Bound, PiecesBounded, Joined, PiecesFollow
  <2>5. e_phnum' = e_phnum /\ \A y : FromHeader(y)' = FromHeader(y)
    BY <2>1, SameFile
  <2> QED BY <1>1, <1>2, <2>1, <2>2, <2>3, <2>4, <2>5 DEF WalkInv
<1>5. CASE WalkEnd
  <2>1. /\ upc = "walk" /\ upc' = "write" /\ ui' = 0 /\ elf_offset >= in.filesize
        /\ UNCHANGED <<in, s, elf_offset, self_offset, self_sections>>
    BY <1>5 DEF WalkEnd
  <2>2. ~(in.filesize >= W)
    BY <1>1, <1>2, <2>1 DEF Word
  <2>3. Narrow' = Narrow /\ e_phnum' = e_phnum /\ \A y : FromHeader(y)' = FromHeader(y)
    BY <2>1, SameFile
  <2>4. Bound'
    BY <2>1, <2>2, <2>3 DEF WalkInv, Bound, PiecesBounded
  <2>5. Joined'
    BY <2>1 DEF WalkInv, Joined, PiecesFollow, PieceEnd
  <2> QED BY <1>1, <2>1, <2>3, <2>4, <2>5 DEF WalkInv
<1>6. CASE \/ WritePlain \/ WriteUnpacked \/ InflateFails \/ WriteEnd
           \/ KeepElf \/ RepairElf
  <2>1. /\ upc \in {"write", "check"} /\ upc' \in {"write", "check", "done", "failed"} /\ ui' \in Nat
        /\ UNCHANGED <<in, s, elf_offset, self_offset, self_sections>>
    BY <1>1, <1>6 DEF WritePlain, WriteUnpacked, InflateFails, WriteEnd, Writing, KeepElf, RepairElf
  <2>2. Narrow' = Narrow /\ e_phnum' = e_phnum /\ \A y : FromHeader(y)' = FromHeader(y)
    BY <2>1, SameFile
  <2>3. Bound'
    BY <2>1, <2>2 DEF WalkInv, Bound, PiecesBounded
  <2>4. Joined'
    BY <2>1 DEF WalkInv, Joined, PiecesFollow, PieceEnd
  <2> QED BY <1>1, <2>1, <2>2, <2>3, <2>4 DEF WalkInv
<1>7. CASE UNCHANGED uvars
  <2>1. UNCHANGED <<in, upc, s, ui, elf_offset, self_offset, self_sections>>
    BY <1>7 DEF uvars
  <2>2. Narrow' = Narrow /\ e_phnum' = e_phnum /\ \A y : FromHeader(y)' = FromHeader(y)
    BY <2>1, SameFile
  <2>3. Bound'
    BY <2>1, <2>2 DEF WalkInv, Bound, PiecesBounded, TwoPerSection
  <2>4. Joined'
    BY <2>1 DEF WalkInv, Joined, PiecesFollow, PieceEnd
  <2> QED BY <1>1, <2>1, <2>2, <2>3, <2>4 DEF WalkInv
<1> QED BY <1>3, <1>4, <1>5, <1>6, <1>7, RestKeepsInv, CompressedKeepsInv, GapKeepsInv,
           OverrunKeepsInv DEF UNext

\* The inductive invariant holds in every state of unself, whatever the 64 bit
\* fields of the file hold.
THEOREM WalkInvHolds == USpec => []WalkInv
<1>1. UInit => WalkInv
  BY InputsAssumption, InitWalkInv DEF UInit, Readable
<1>2. QED
  BY <1>1, NextWalkInv, PTL DEF USpec

\* The state of unself is well typed in every run.
THEOREM WalkTypeCorrect == USpec => []TypeOK
<1>1. WalkInv => TypeOK
  BY DEF Readable, WalkInv, TypeOK, Word
<1>2. QED
  BY <1>1, WalkInvHolds, PTL

\* Where the offsets fit 32 bits the walk never needs more than 2 * n_secs + 1
\* pieces, so that neither array is left if that many have room in it; a file
\* of 4 GiB or more is never written.
THEOREM PiecesAreBounded == USpec => []PiecesBounded
<1>1. WalkInv => PiecesBounded
  BY DEF WalkInv, Bound
<1>2. QED
  BY <1>1, WalkInvHolds, PTL

\* No hole and no overlap between two pieces, unless both are compressed.
THEOREM PiecesAlwaysFollow == USpec => []PiecesFollow
<1>1. WalkInv => PiecesFollow
  BY DEF WalkInv, Joined
<1>2. QED
  BY <1>1, WalkInvHolds, PTL

-----------------------------------------------------------------------------
(* Well placed segments come out once *)

Sorted == upc \notin {"headers", "overrun"}

\* s lists the compressed sections whose headers were read, each of them once.
Listed ==
    /\ \A n \in 1..Len(s) : /\ s[n].idx \in Z
                            /\ s[n].offset = in.sec[s[n].idx].offset
                            /\ upc = "headers" => s[n].idx <= ui
    /\ \A m, n \in 1..Len(s) : m # n => s[m].idx # s[n].idx
    /\ \A z \in Z : z <= ui \/ Sorted => \E n \in 1..Len(s) : s[n].idx = z

Ascending == \A m, n \in 1..Len(s) : m < n => s[m].offset <= s[n].offset

PieceStop(x) == x.elf_offset + x.size_uncompressed

\* The pieces neither overlap nor wrap.
Apart == \A m, n \in 1..Len(self_sections) : m < n =>
            PieceStop(self_sections[m]) <= self_sections[n].elf_offset

Behind == \A n \in 1..Len(self_sections) : PieceStop(self_sections[n]) <= elf_offset

IsPieceOf(x, z) == /\ x.compressed
                   /\ x.offset = in.sec[z].offset
                   /\ x.elf_offset = in.phdr[z].p_off
                   /\ x.size_uncompressed = in.phdr[z].p_filesz

HasPiece(z) == \E x \in 1..Len(self_sections) : IsPieceOf(self_sections[x], z)

\* The segments are taken from the front: those passed have their piece, and
\* the walk has not gone beyond the start of the others.
PiecesPlaced ==
    /\ Apart
    /\ upc = "headers" => elf_offset = 0
    /\ upc \in {"headers", "walk"} => Behind /\ elf_offset <= in.filesize
    /\ upc = "walk" =>
         /\ \A n \in 1..Len(s) : n > ui => elf_offset <= SegmentStart(s[n].idx)
         /\ \A n \in 1..Len(s) : n <= ui => HasPiece(s[n].idx)
    /\ upc \in {"write", "check", "done", "failed"} =>
         \A n \in 1..Len(s) : HasPiece(s[n].idx)

OnceInv == WalkInv /\ Listed /\ (Sorted => Ascending) /\ (WellPlaced => PiecesPlaced)

\* Where a well placed segment lies nothing wraps.
LEMMA WellPlacedFacts ==
    ASSUME Readable(in), WellPlaced, NEW z \in Z
    PROVE  /\ SegmentStart(z) \in Nat /\ SegmentStop(z) \in Nat /\ in.phdr[z].p_filesz \in Nat
           /\ SegmentStart(z) < SegmentStop(z) /\ SegmentStop(z) <= in.filesize
           /\ SegmentStart(z) % W = SegmentStart(z) /\ SegmentStop(z) % W = SegmentStop(z)
           /\ in.phdr[z].p_filesz % W = in.phdr[z].p_filesz
           /\ in.filesize \in Word
<1>1. z \in 1..Len(in.phdr)
  BY DEF Z, e_phnum
<1>2. in.phdr[z].p_off \in Nat /\ in.phdr[z].p_filesz \in Nat /\ in.filesize \in Word
  <2>1. in.phdr[z].p_off \in Nat /\ in.phdr[z].p_filesz \in Nat /\ in.filesize \in Nat
    BY <1>1, InputFields
  <2>2. in.filesize < W
    BY DEF WellPlaced, Narrow
  <2> QED BY <2>1, <2>2, WAssumption DEF Word
<1>3. in.phdr[z].p_filesz > 0 /\ SegmentStop(z) <= in.filesize
  BY DEF WellPlaced, Z, SegmentStop
<1>4. /\ SegmentStart(z) \in Nat /\ SegmentStop(z) \in Nat /\ SegmentStart(z) < SegmentStop(z)
      /\ SegmentStart(z) \in Word /\ SegmentStop(z) \in Word /\ in.phdr[z].p_filesz \in Word
  BY <1>2, <1>3, WAssumption DEF SegmentStart, SegmentStop, Word
<1> QED BY <1>2, <1>3, <1>4, WordFacts

\* After qsort the segments ascend in the ELF file.
LEMMA SegmentsAscend ==
    ASSUME Readable(in), WellPlaced, Listed, Ascending,
           NEW m \in 1..Len(s), NEW n \in 1..Len(s), m < n, Len(s) \in Nat
    PROVE  SegmentStop(s[m].idx) <= SegmentStart(s[n].idx)
<1>1. /\ s[m].idx \in Z /\ s[n].idx \in Z /\ s[m].idx # s[n].idx
      /\ s[m].offset = in.sec[s[m].idx].offset /\ s[n].offset = in.sec[s[n].idx].offset
  BY DEF Listed, Sorted
<1>2. s[m].offset <= s[n].offset
  BY DEF Ascending
<1>3. in.sec[s[m].idx].offset # in.sec[s[n].idx].offset
  BY <1>1 DEF WellPlaced, Z
<1>4. in.sec[s[m].idx].offset \in Int /\ in.sec[s[n].idx].offset \in Int
  <2>1. in.sec[s[m].idx].offset \in Nat /\ in.sec[s[n].idx].offset \in Nat
    BY <1>1, InputFields DEF Z, e_phnum
  <2> QED BY <2>1
<1>5. in.sec[s[m].idx].offset < in.sec[s[n].idx].offset
  BY <1>1, <1>2, <1>3, <1>4
<1> QED BY <1>1, <1>5 DEF WellPlaced, Z, SegmentStop, SegmentStart

\* Before read_sections() has started there are no pieces.
LEMMA InitOnceInv ==
    ASSUME NEW f, Readable(f), InitWith(f)
    PROVE  OnceInv
<1>1. s = <<>> /\ self_sections = <<>> /\ upc = "headers" /\ ui = 0 /\ elf_offset = 0 /\ in = f
  BY DEF InitWith
<1>2. WalkInv
  BY InitWalkInv
<1>3. Listed
  BY <1>1 DEF Listed, Sorted, Z
<1>4. PiecesPlaced
  <2>1. in.filesize >= 0
    BY <1>1, InputFields
  <2> QED BY <1>1, <2>1 DEF PiecesPlaced, Apart, Behind
<1> QED BY <1>1, <1>2, <1>3, <1>4 DEF OnceInv, Sorted

\* A piece that begins behind all others does not touch them.
LEMMA AppendApart ==
    ASSUME self_sections \in Seq(Pieces), NEW x \in Pieces, in' = in, Apart, Behind,
           self_sections' = Append(self_sections, x), elf_offset \in Word, elf_offset' \in Word,
           elf_offset <= x.elf_offset, PieceStop(x) <= elf_offset'
    PROVE  /\ Apart' /\ Behind'
           /\ \A z : HasPiece(z) => HasPiece(z)'
           /\ \A z : IsPieceOf(x, z) => HasPiece(z)'
<1>1. /\ self_sections' \in Seq(Pieces) /\ Len(self_sections) \in Nat
      /\ Len(self_sections') = Len(self_sections) + 1
      /\ self_sections'[Len(self_sections) + 1] = x
      /\ \A n \in 1..Len(self_sections) : self_sections'[n] = self_sections[n]
  BY AppendFacts, ElementOf
<1>2. \A y \in Pieces : PieceStop(y) \in Int /\ y.elf_offset \in Int /\ y.elf_offset <= PieceStop(y)
  BY WAssumption DEF Pieces, PieceStop
<1>3. elf_offset \in Int /\ elf_offset' \in Int
  BY WordInt
<1>4. \A n \in 1..Len(self_sections) :
        self_sections[n] \in Pieces /\ PieceStop(self_sections[n]) <= elf_offset
  BY ElementOf DEF Behind
<1>5. Behind'
  <2>1. SUFFICES ASSUME NEW n \in 1..Len(self_sections')
                 PROVE  PieceStop(self_sections'[n]) <= elf_offset'
    BY DEF Behind, PieceStop
  <2>2. CASE n = Len(self_sections) + 1
    BY <1>1, <2>2
  <2>3. CASE n # Len(self_sections) + 1
    <3>1. n \in 1..Len(self_sections)
      BY <1>1, <2>1, <2>3
    <3>2. PieceStop(self_sections[n]) <= elf_offset
      BY <1>4, <3>1
    <3>3. self_sections'[n] = self_sections[n] /\ self_sections[n] \in Pieces
      BY <1>1, <1>4, <3>1
    <3> QED BY <1>2, <1>3, <3>2, <3>3
  <2> QED BY <2>2, <2>3
<1>6. Apart'
  <2>1. SUFFICES ASSUME NEW m \in 1..Len(self_sections'), NEW n \in 1..Len(self_sections'),
                        m < n
                 PROVE  PieceStop(self_sections'[m]) <= self_sections'[n].elf_offset
    BY DEF Apart, PieceStop
  <2>2. m \in 1..Len(self_sections)
    BY <1>1, <2>1
  <2>3. CASE n = Len(self_sections) + 1
    <3>1. PieceStop(self_sections[m]) <= elf_offset /\ self_sections'[m] = self_sections[m]
      BY <1>1, <1>4, <2>2
    <3>2. self_sections[m] \in Pieces
      BY <1>4, <2>2
    <3> QED BY <1>1, <1>2, <1>3, <2>3, <3>1, <3>2
  <2>4. CASE n # Len(self_sections) + 1
    <3>1. n \in 1..Len(self_sections)
      BY <1>1, <2>1, <2>4
    <3> QED BY <1>1, <2>1, <2>2, <3>1 DEF Apart
  <2> QED BY <2>3, <2>4
<1>7. ASSUME NEW z, HasPiece(z) PROVE HasPiece(z)'
  <2>1. PICK n \in 1..Len(self_sections) : IsPieceOf(self_sections[n], z)
    BY <1>7 DEF HasPiece
  <2>2. n \in 1..Len(self_sections') /\ self_sections'[n] = self_sections[n]
    BY <1>1, <2>1
  <2> QED BY <2>1, <2>2 DEF HasPiece, IsPieceOf
<1>8. ASSUME NEW z, IsPieceOf(x, z) PROVE HasPiece(z)'
  <2>1. Len(self_sections) + 1 \in 1..Len(self_sections')
    BY <1>1
  <2> QED BY <1>1, <1>8, <2>1 DEF HasPiece, IsPieceOf
<1> QED BY <1>5, <1>6, <1>7, <1>8

\* Each header adds its section to s, if that is compressed, and nothing else.
LEMMA ReadHeaderOnce == OnceInv /\ ReadHeader => OnceInv'
<1> SUFFICES ASSUME OnceInv, ReadHeader PROVE OnceInv'
  OBVIOUS
<1>1. /\ upc = "headers" /\ upc' = "headers" /\ in' = in /\ ui < e_phnum /\ ui' = ui + 1
      /\ elf_offset' = elf_offset /\ self_sections' = self_sections
      /\ ui \in Nat /\ s \in Seq(SelfSec) /\ Readable(in) /\ WalkInv /\ Listed
  BY DEF ReadHeader, OnceInv, WalkInv
<1>2. WalkInv' /\ e_phnum \in Nat
  BY <1>1, NextWalkInv, InputFields DEF UNext, e_phnum
<1>s. ~Sorted /\ ~Sorted'
  BY <1>1 DEF Sorted
<1>3. Listed'
  <2>1. CASE ~in.sec[ui + 1].compressed
    <3>1. s' = s
      BY <2>1 DEF ReadHeader
    <3>2. \A z \in Z : z <= ui + 1 => z <= ui
      <4>1. \A z \in Z : z # ui + 1 /\ z \in Int
        BY <2>1, <1>2 DEF Z
      <4> QED BY <4>1, <1>1
    <3>3. \A n \in 1..Len(s) : s[n].idx \in Int
      BY <1>1, <1>2 DEF Listed, Sorted, Z
    <3> QED BY <1>1, <1>2, <3>1, <3>2, <3>3, <1>s, SameFile DEF Listed
  <2>2. CASE in.sec[ui + 1].compressed
    <3> DEFINE r == read_section(ui + 1)
    <3>1. s' = Append(s, r)
      BY <2>2 DEF ReadHeader
    <3>2. ui + 1 \in Z /\ r.idx = ui + 1 /\ r.offset = in.sec[ui + 1].offset
      BY <1>1, <1>2, <2>2 DEF Z, read_section
    <3> HIDE DEF r
    <3>3. /\ Len(s) \in Nat /\ Len(s') = Len(s) + 1 /\ s'[Len(s) + 1] = r
          /\ \A n \in 1..Len(s) : s'[n] = s[n]
      BY <1>1, <3>1
    <3>4. \A n \in 1..Len(s) : s[n].idx \in Int /\ s[n].idx <= ui /\ s[n].idx # ui + 1
      BY <1>1, <1>2 DEF Listed, Sorted, Z
    <3>5. ASSUME NEW n \in 1..Len(s')
          PROVE  s'[n].idx \in Z /\ s'[n].offset = in.sec[s'[n].idx].offset /\ s'[n].idx <= ui + 1
      <4>1. CASE n = Len(s) + 1
        BY <1>1, <3>2, <3>3, <4>1
      <4>2. CASE n # Len(s) + 1
        <5>1. n \in 1..Len(s) /\ s'[n] = s[n]
          BY <3>3, <3>5, <4>2
        <5> QED BY <1>1, <3>4, <5>1, <1>s DEF Listed
      <4> QED BY <4>1, <4>2
    <3>6. ASSUME NEW m \in 1..Len(s'), NEW n \in 1..Len(s'), m # n
          PROVE  s'[m].idx # s'[n].idx
      <4>1. CASE m = Len(s) + 1
        <5>1. n \in 1..Len(s) /\ s'[n] = s[n]
          BY <3>3, <3>6, <4>1
        <5> QED BY <3>2, <3>3, <3>4, <4>1, <5>1
      <4>2. CASE n = Len(s) + 1
        <5>1. m \in 1..Len(s) /\ s'[m] = s[m]
          BY <3>3, <3>6, <4>2
        <5> QED BY <3>2, <3>3, <3>4, <4>2, <5>1
      <4>3. CASE m # Len(s) + 1 /\ n # Len(s) + 1
        <5>1. m \in 1..Len(s) /\ s'[m] = s[m] /\ n \in 1..Len(s) /\ s'[n] = s[n]
          BY <3>3, <3>6, <4>3
        <5> QED BY <1>1, <3>6, <5>1, <1>s DEF Listed
      <4> QED BY <4>1, <4>2, <4>3
    <3>7. ASSUME NEW z \in Z, z <= ui + 1
          PROVE  \E n \in 1..Len(s') : s'[n].idx = z
      <4>1. CASE z = ui + 1
        <5>1. Len(s) + 1 \in 1..Len(s')
          BY <3>3
        <5> QED BY <3>2, <3>3, <4>1, <5>1
      <4>2. CASE z # ui + 1
        <5>1. z <= ui
          BY <1>1, <1>2, <3>7, <4>2 DEF Z
        <5>2. PICK n \in 1..Len(s) : s[n].idx = z
          BY <1>1, <5>1, <1>s DEF Listed
        <5>3. n \in 1..Len(s') /\ s'[n] = s[n]
          BY <3>3, <5>2
        <5> QED BY <5>2, <5>3
      <4> QED BY <4>1, <4>2
    <3> QED BY <1>1, <3>5, <3>6, <3>7, <1>s, SameFile DEF Listed
  <2> QED BY <2>1, <2>2
<1>4. WellPlaced' => PiecesPlaced'
  BY <1>1, SameFile DEF OnceInv, PiecesPlaced, Apart, Behind, PieceStop
<1> QED BY <1>s, <1>2, <1>3, <1>4 DEF OnceInv

\* qsort() leaves the same sections in ascending order.
LEMMA SortOnce == OnceInv /\ Sort => OnceInv'
<1> SUFFICES ASSUME OnceInv, Sort PROVE OnceInv'
  OBVIOUS
<1>1. /\ upc = "headers" /\ upc' = "walk" /\ in' = in /\ ui >= e_phnum /\ ui' = 0
      /\ elf_offset' = elf_offset /\ self_sections' = self_sections
      /\ ui \in Nat /\ s \in Seq(SelfSec) /\ Readable(in) /\ WalkInv /\ Listed
      /\ Len(s) \in Nat
  BY DEF Sort, OnceInv, WalkInv, Sorted
<1>2. WalkInv' /\ e_phnum \in Nat
  BY <1>1, NextWalkInv, InputFields DEF UNext, e_phnum
<1>3. PICK f \in Bijection(1..Len(s), 1..Len(s)) :
        /\ \A a, b \in 1..Len(s) : a < b => s[f[a]].offset <= s[f[b]].offset
        /\ s' = [n \in 1..Len(s) |-> s[f[n]]]
  BY DEF Sort, SortedOrders
<1>4. /\ f \in [1..Len(s) -> 1..Len(s)]
      /\ \A a, b \in 1..Len(s) : a # b => f[a] # f[b]
      /\ \A b \in 1..Len(s) : \E a \in 1..Len(s) : f[a] = b
  BY DEF Bijection, Injection, Surjection, IsInjective
<1>5. Len(s') = Len(s) /\ \A n \in 1..Len(s) : s'[n] = s[f[n]] /\ f[n] \in 1..Len(s)
  <2>1. s' = [n \in 1..Len(s) |-> s[f[n]]]
    BY <1>3
  <2>2. \A n \in 1..Len(s) : s[f[n]] \in SelfSec
    BY <1>1, <1>4, ElementOf
  <2>3. Len(s') = Len(s)
    BY <1>1, <2>1, <2>2, FunctionIsSeq
  <2> QED BY <1>4, <2>1, <2>3
<1>6. Ascending'
  BY <1>3, <1>5 DEF Ascending
<1>7. Listed'
  <2>1. \A n \in 1..Len(s') : s'[n].idx \in Z /\ s'[n].offset = in.sec[s'[n].idx].offset
    BY <1>1, <1>5 DEF Listed, Sorted
  <2>2. ASSUME NEW m \in 1..Len(s'), NEW n \in 1..Len(s'), m # n
        PROVE  s'[m].idx # s'[n].idx
    <3>1. f[m] # f[n] /\ f[m] \in 1..Len(s) /\ f[n] \in 1..Len(s)
      BY <1>4, <1>5, <2>2
    <3>2. \A a, b \in 1..Len(s) : a # b => s[a].idx # s[b].idx
      BY <1>1 DEF Listed, Sorted
    <3>3. s'[m] = s[f[m]] /\ s'[n] = s[f[n]]
      BY <1>5
    <3> QED BY <3>1, <3>2, <3>3
  <2>3. ASSUME NEW z \in Z PROVE \E n \in 1..Len(s') : s'[n].idx = z
    <3>1. z <= ui
      BY <1>1, <1>2 DEF Z
    <3>2. PICK b \in 1..Len(s) : s[b].idx = z
      BY <1>1, <3>1 DEF Listed, Sorted
    <3>3. PICK a \in 1..Len(s) : f[a] = b
      BY <1>4
    <3> QED BY <1>5, <3>2, <3>3
  <2> QED BY <1>1, <2>1, <2>2, <2>3, SameFile DEF Listed, Sorted
<1>8. ASSUME WellPlaced PROVE PiecesPlaced'
  <2>1. elf_offset = 0 /\ Apart /\ Behind /\ elf_offset <= in.filesize
    BY <1>1, <1>8 DEF OnceInv, PiecesPlaced
  <2>2. Apart' /\ Behind' /\ elf_offset' <= in'.filesize
    BY <1>1, <2>1 DEF Apart, Behind, PieceStop
  <2>3. ASSUME NEW n \in 1..Len(s') PROVE elf_offset' <= in'.phdr[s'[n].idx].p_off
    <3>1. s'[n].idx \in Z
      BY <1>1, <1>7, SameFile DEF Listed, Sorted
    <3>2. SegmentStart(s'[n].idx) >= 0
      BY <1>1, <1>8, <3>1, WellPlacedFacts
    <3> QED BY <1>1, <2>1, <3>2 DEF SegmentStart
  <2>4. \A n \in 1..Len(s') : ~(n <= ui')
    BY <1>1
  <2> QED BY <1>1, <2>2, <2>3, <2>4 DEF PiecesPlaced, SegmentStart
<1> QED BY <1>1, <1>2, <1>6, <1>7, <1>8, SameFile DEF OnceInv

\* After qsort the list is kept.
LEMMA ListKept ==
    ASSUME UNCHANGED <<in, s>>, Sorted, Sorted', Listed, Ascending
    PROVE  Listed' /\ Ascending'
BY SameFile DEF Listed, Ascending, Sorted

\* A word is a number, and what is below a word is one, too.
LEMMA WordNat == ASSUME NEW x \in Word PROVE x \in Nat
BY WAssumption DEF Word

LEMMA BelowWord ==
    ASSUME NEW x \in Nat, NEW y \in Word, x <= y
    PROVE  x \in Word /\ x % W = x
<1>1. x \in Word
  BY WAssumption DEF Word
<1> QED BY <1>1, WordFacts

\* What holds in each turn of the walk.
LEMMA WalkFacts ==
    ASSUME OnceInv, WellPlaced, Walking
    PROVE  /\ Readable(in) /\ Listed /\ Ascending /\ Apart /\ Behind
           /\ ui \in Nat /\ Len(s) \in Nat /\ self_sections \in Seq(Pieces)
           /\ elf_offset \in Word /\ elf_offset \in Nat /\ self_offset \in Word
           /\ in.filesize \in Word /\ in.filesize \in Nat /\ elf_offset < in.filesize
           /\ in.filesize % W = in.filesize
           /\ \A n \in 1..Len(s) : n > ui => elf_offset <= SegmentStart(s[n].idx)
           /\ \A n \in 1..Len(s) : n <= ui => HasPiece(s[n].idx)
<1>1. /\ Readable(in) /\ ui \in Nat /\ s \in Seq(SelfSec) /\ self_sections \in Seq(Pieces)
      /\ elf_offset \in Word /\ self_offset \in Word /\ upc = "walk" /\ elf_offset < in.filesize
      /\ Listed /\ Ascending /\ PiecesPlaced
  BY DEF OnceInv, WalkInv, Walking, Sorted
<1>2. in.filesize \in Word
  BY TurnFacts DEF OnceInv, WellPlaced
<1>3. Len(s) \in Nat
  BY <1>1
<1>4. elf_offset \in Nat /\ in.filesize \in Nat /\ in.filesize % W = in.filesize
  BY <1>1, <1>2, WordFacts, WordNat
<1> QED BY <1>1, <1>2, <1>3, <1>4 DEF PiecesPlaced

\* What is left behind the last segment touches no piece.
LEMMA RestOnce == ASSUME OnceInv, WellPlaced, Rest PROVE PiecesPlaced'
<1>r. PICK rest : rest = (in.filesize - elf_offset) % W
  OBVIOUS
<1>x. PICK x : x = Piece(self_offset, rest, FALSE, rest, elf_offset)
  OBVIOUS
<1>1. /\ Walking /\ upc' = upc /\ upc = "walk" /\ in' = in /\ s' = s /\ ui' = ui /\ ui = Len(s)
      /\ elf_offset' = in.filesize % W /\ self_sections' = Append(self_sections, x)
  BY <1>r, <1>x DEF Rest, Walking, Take
<1>2. rest = in.filesize - elf_offset
  <2>1. /\ in.filesize - elf_offset \in Nat /\ in.filesize - elf_offset <= in.filesize
        /\ in.filesize \in Word
    BY <1>1, WalkFacts
  <2> QED BY <1>r, <2>1, BelowWord
<1>3. x \in Pieces /\ x.elf_offset = elf_offset /\ PieceStop(x) = in.filesize
  <2>1. elf_offset \in Nat /\ elf_offset \in Word /\ self_offset \in Word /\ in.filesize \in Nat
    BY <1>1, WalkFacts
  <2>2. rest \in Word
    BY <1>1, <1>2, WalkFacts, BelowWord
  <2>3. x \in Pieces /\ x.elf_offset = elf_offset /\ PieceStop(x) = elf_offset + rest
    BY <1>x, <2>1, <2>2 DEF Piece, Pieces, Word, PieceStop
  <2> QED BY <1>2, <2>1, <2>3
<1>4. elf_offset' = in.filesize /\ elf_offset' \in Word /\ in.filesize \in Nat
  BY <1>1, WalkFacts
<1>5. Apart' /\ Behind' /\ \A z : HasPiece(z) => HasPiece(z)'
  <2>1. elf_offset <= x.elf_offset /\ PieceStop(x) <= elf_offset'
    BY <1>1, <1>3, <1>4, WalkFacts
  <2> QED BY <1>1, <1>3, <1>4, <2>1, WalkFacts, AppendApart
<1>6. \A n \in 1..Len(s) : ~(n > ui)
  BY <1>1
<1>7. \A n \in 1..Len(s) : n <= ui => HasPiece(s[n].idx)'
  BY <1>1, <1>5, WalkFacts
<1> QED BY <1>1, <1>4, <1>5, <1>6, <1>7 DEF PiecesPlaced, HasPiece, IsPieceOf

\* The piece of a segment begins where the walk is, or behind.
LEMMA CompressedOnce == ASSUME OnceInv, WellPlaced, Compressed PROVE PiecesPlaced'
<1>z. PICK z : z = s[ui + 1].idx
  OBVIOUS
<1>x. PICK x : x = Whole(s[ui + 1], in.phdr[z])
  OBVIOUS
<1>1. /\ Walking /\ upc' = upc /\ upc = "walk" /\ in' = in /\ s' = s /\ ui' = ui + 1 /\ ui < Len(s)
      /\ elf_offset' = SegmentStop(z) % W /\ self_sections' = Append(self_sections, x)
      /\ x = Piece(s[ui + 1].offset, s[ui + 1].size % W, TRUE,
                   in.phdr[z].p_filesz % W, SegmentStart(z) % W)
  BY <1>z, <1>x DEF Compressed, Walking, TakeWhole, Take, SegmentStop, SegmentStart, Whole
<1>2. ui + 1 \in 1..Len(s) /\ z \in Z /\ s[ui + 1].offset = in.sec[z].offset
      /\ elf_offset <= SegmentStart(z)
  <2>1. ui + 1 \in 1..Len(s) /\ ui + 1 > ui
    BY <1>1, WalkFacts
  <2> QED BY <1>z, <1>1, <2>1, WalkFacts DEF Listed, Sorted
<1>3. s[ui + 1] \in SelfSec
  BY <1>2, ElementOf DEF OnceInv, WalkInv
<1>4. s[ui + 1].size % W \in Word /\ s[ui + 1].offset \in Word
  <2>1. s[ui + 1].size \in Int
    BY <1>3 DEF SelfSec
  <2>2. s[ui + 1].offset \in Word
    BY <1>1, TurnFacts DEF OnceInv, WellPlaced
  <2> QED BY <2>1, <2>2, WordFacts
<1>5. /\ SegmentStart(z) \in Nat /\ SegmentStop(z) \in Nat /\ in.phdr[z].p_filesz \in Nat
      /\ SegmentStart(z) < SegmentStop(z) /\ SegmentStop(z) <= in.filesize /\ elf_offset' = SegmentStop(z)
      /\ SegmentStop(z) = SegmentStart(z) + in.phdr[z].p_filesz
  BY <1>1, <1>2, WellPlacedFacts, WalkFacts DEF SegmentStop, SegmentStart
<1>p. x = Piece(s[ui + 1].offset, s[ui + 1].size % W, TRUE, in.phdr[z].p_filesz, SegmentStart(z))
  BY <1>1, <1>2, WellPlacedFacts, WalkFacts
<1>6. /\ x.elf_offset = SegmentStart(z) /\ x.size_uncompressed = in.phdr[z].p_filesz
      /\ x.compressed = TRUE /\ x.offset = s[ui + 1].offset /\ PieceStop(x) = SegmentStop(z)
  BY <1>5, <1>p DEF Piece, PieceStop
<1>7. x \in Pieces
  <2>1. /\ SegmentStart(z) <= in.filesize /\ in.phdr[z].p_filesz <= in.filesize
        /\ in.filesize \in Word /\ in.filesize \in Nat
    <3>1. in.filesize \in Word /\ in.filesize \in Nat
      BY <1>1, WalkFacts
    <3> QED BY <1>5, <3>1
  <2>2. SegmentStart(z) \in Word /\ in.phdr[z].p_filesz \in Word
    BY <1>5, <2>1, BelowWord
  <2> QED BY <1>4, <1>p, <2>2 DEF Piece, Pieces, Word
<1>8. IsPieceOf(x, z)
  BY <1>2, <1>6 DEF IsPieceOf, SegmentStart
<1>9. elf_offset' \in Word
  BY <1>1, <1>5, WalkFacts, BelowWord
<1>10. Apart' /\ Behind' /\ HasPiece(z)' /\ \A y : HasPiece(y) => HasPiece(y)'
  <2>1. SegmentStop(z) \in Nat /\ elf_offset' = SegmentStop(z)
    BY <1>5
  <2>2. elf_offset <= x.elf_offset /\ PieceStop(x) <= elf_offset'
    BY <1>2, <1>6, <2>1
  <2> QED BY <1>1, <1>7, <1>8, <1>9, <2>2, WalkFacts, AppendApart
<1>11. ASSUME NEW n \in 1..Len(s), n > ui + 1 PROVE elf_offset' <= SegmentStart(s[n].idx)
  BY <1>z, <1>1, <1>2, <1>5, <1>11, WalkFacts, SegmentsAscend
<1>12. ASSUME NEW n \in 1..Len(s), n <= ui + 1 PROVE HasPiece(s[n].idx)'
  <2>1. CASE n = ui + 1
    BY <1>z, <1>1, <1>10, <2>1
  <2>2. CASE n # ui + 1
    <3>1. n <= ui
      BY <1>1, <1>12, <2>2, WalkFacts
    <3> QED BY <1>1, <1>10, <3>1, WalkFacts
  <2> QED BY <2>1, <2>2
<1> QED BY <1>1, <1>5, <1>10, <1>11, <1>12 DEF PiecesPlaced, HasPiece, IsPieceOf, SegmentStart

\* The piece of a gap ends where its segment begins.
LEMMA GapOnce == ASSUME OnceInv, WellPlaced, Gap PROVE PiecesPlaced'
<1>z. PICK z : z = s[ui + 1].idx
  OBVIOUS
<1>g. PICK gap : gap = (SegmentStart(z) - elf_offset) % W
  OBVIOUS
<1>x. PICK x : x = Piece(self_offset, gap, FALSE, gap, elf_offset)
  OBVIOUS
<1>1. /\ Walking /\ upc' = upc /\ upc = "walk" /\ in' = in /\ s' = s /\ ui' = ui /\ ui < Len(s)
      /\ elf_offset' = (elf_offset + gap) % W /\ self_sections' = Append(self_sections, x)
  BY <1>z, <1>g, <1>x DEF Gap, Walking, TakeGap, Take, SegmentStart
<1>2. ui + 1 \in 1..Len(s) /\ z \in Z /\ elf_offset <= SegmentStart(z)
  <2>1. ui + 1 \in 1..Len(s) /\ ui + 1 > ui
    BY <1>1, WalkFacts
  <2> QED BY <1>z, <1>1, <2>1, WalkFacts DEF Listed, Sorted
<1>3. /\ SegmentStart(z) \in Nat /\ SegmentStart(z) < SegmentStop(z) /\ SegmentStop(z) \in Nat /\ SegmentStop(z) <= in.filesize
      /\ SegmentStart(z) \in Word
  <2>1. /\ SegmentStart(z) \in Nat /\ SegmentStart(z) < SegmentStop(z) /\ SegmentStop(z) \in Nat /\ SegmentStop(z) <= in.filesize
    BY <1>1, <1>2, WellPlacedFacts, WalkFacts
  <2> QED BY <1>1, <2>1, WalkFacts, WAssumption DEF Word
<1>4. gap = SegmentStart(z) - elf_offset /\ gap \in Word
  <2>1. SegmentStart(z) - elf_offset \in Nat /\ SegmentStart(z) - elf_offset <= SegmentStart(z)
    BY <1>1, <1>2, <1>3, WalkFacts
  <2> QED BY <1>g, <1>3, <2>1, BelowWord
<1>5. x \in Pieces /\ x.elf_offset = elf_offset /\ PieceStop(x) = elf_offset + gap
  <2> QED BY <1>x, <1>1, <1>4, WalkFacts DEF Piece, Pieces, Word, PieceStop
<1>6. elf_offset' = SegmentStart(z) /\ PieceStop(x) = SegmentStart(z)
  <2>1. elf_offset + gap = SegmentStart(z)
    BY <1>1, <1>3, <1>4, WalkFacts
  <2> QED BY <1>1, <1>3, <1>5, <2>1, WordFacts
<1>7. Apart' /\ Behind' /\ \A y : HasPiece(y) => HasPiece(y)'
  <2>1. elf_offset <= x.elf_offset /\ PieceStop(x) <= elf_offset' /\ elf_offset' \in Word
    BY <1>1, <1>3, <1>5, <1>6, WalkFacts
  <2> QED BY <1>1, <1>5, <2>1, WalkFacts, AppendApart
<1>8. ASSUME NEW n \in 1..Len(s), n > ui PROVE elf_offset' <= SegmentStart(s[n].idx)
  <2>1. CASE n = ui + 1
    BY <1>z, <1>3, <1>6, <2>1
  <2>2. CASE n # ui + 1
    <3>1. ui + 1 < n
      BY <1>1, <1>8, <2>2, WalkFacts
    <3>2. SegmentStop(z) <= SegmentStart(s[n].idx)
      BY <1>z, <1>1, <1>2, <3>1, WalkFacts, SegmentsAscend
    <3>3. SegmentStart(s[n].idx) \in Nat
      BY <1>1, WellPlacedFacts, WalkFacts DEF Listed, Sorted
    <3> QED BY <1>3, <1>6, <3>2, <3>3
  <2> QED BY <2>1, <2>2
<1>9. \A n \in 1..Len(s) : n <= ui => HasPiece(s[n].idx)'
  BY <1>1, <1>7, WalkFacts
<1>10. elf_offset' <= in.filesize
  BY <1>1, <1>3, <1>6, WalkFacts
<1> QED BY <1>1, <1>7, <1>8, <1>9, <1>10 DEF PiecesPlaced, HasPiece, IsPieceOf, SegmentStart

\* The walk cannot end in front of a segment that is still to come.
LEMMA WalkEndOnce == ASSUME OnceInv, WellPlaced, WalkEnd PROVE PiecesPlaced'
<1>1. /\ upc = "walk" /\ upc' = "write" /\ elf_offset >= in.filesize
      /\ UNCHANGED <<in, s, elf_offset, self_sections>>
      /\ Readable(in) /\ ui \in Nat /\ Listed /\ PiecesPlaced /\ elf_offset \in Word
  BY DEF WalkEnd, OnceInv, WalkInv, Sorted
<1>2. ASSUME NEW n \in 1..Len(s) PROVE HasPiece(s[n].idx)
  <2>1. s[n].idx \in Z
    BY <1>1 DEF Listed, Sorted
  <2>2. SegmentStart(s[n].idx) \in Nat /\ SegmentStart(s[n].idx) < in.filesize /\ in.filesize \in Nat
    <3>1. /\ SegmentStart(s[n].idx) \in Nat /\ SegmentStop(s[n].idx) \in Nat /\ in.filesize \in Word
          /\ SegmentStart(s[n].idx) < SegmentStop(s[n].idx) /\ SegmentStop(s[n].idx) <= in.filesize
      BY <1>1, <2>1, WellPlacedFacts
    <3> QED BY <3>1, WAssumption DEF Word
  <2>3. ~(elf_offset <= SegmentStart(s[n].idx))
    BY <1>1, <2>2, WordInt
  <2>4. n <= ui
    BY <1>1, <2>3 DEF PiecesPlaced
  <2> QED BY <1>1, <2>4 DEF PiecesPlaced
<1> QED BY <1>1, <1>2 DEF PiecesPlaced, Apart, PieceStop, HasPiece, IsPieceOf

\* Every step of unself keeps the order of the pieces.
LEMMA NextOnceInv == OnceInv /\ [UNext]_uvars => OnceInv'
<1> SUFFICES ASSUME OnceInv, [UNext]_uvars PROVE OnceInv'
  OBVIOUS
<1>1. WalkInv' /\ in' = in
  BY NextWalkInv DEF OnceInv, UNext, uvars, ReadHeader, Sort, Rest, Compressed, Gap, TakeWhole,
                  TakeGap, Take, Overrun, WalkEnd, WritePlain, WriteUnpacked, InflateFails, WriteEnd,
                  KeepElf, RepairElf
<1>2. CASE Rest \/ Compressed \/ Gap
  <2>1. UNCHANGED <<in, s>> /\ Sorted /\ Sorted' /\ Listed /\ Ascending
    BY <1>2 DEF Rest, Compressed, Gap, TakeWhole, TakeGap, Take, Walking, OnceInv, Sorted
  <2>2. WellPlaced => PiecesPlaced'
    BY <1>2, RestOnce, CompressedOnce, GapOnce
  <2> QED BY <1>1, <2>1, <2>2, ListKept, SameFile DEF OnceInv
<1>3. CASE WalkEnd
  <2>1. UNCHANGED <<in, s>> /\ Sorted /\ Sorted' /\ Listed /\ Ascending
    BY <1>3 DEF WalkEnd, OnceInv, Sorted
  <2>2. WellPlaced => PiecesPlaced'
    BY <1>3, WalkEndOnce
  <2> QED BY <1>1, <2>1, <2>2, ListKept, SameFile DEF OnceInv
<1>o. CASE Overrun
  <2>1. /\ UNCHANGED <<in, s, ui, self_sections>> /\ upc' = "overrun" /\ Listed
        /\ WellPlaced => Apart
    BY <1>o DEF Overrun, OnceInv, PiecesPlaced
  <2>2. ~Sorted' /\ Listed'
    BY <2>1, SameFile DEF Listed, Sorted
  <2>3. WellPlaced => PiecesPlaced'
    BY <2>1 DEF PiecesPlaced, Apart, PieceStop
  <2> QED BY <1>1, <2>2, <2>3, SameFile DEF OnceInv
<1>4. CASE WritePlain \/ WriteUnpacked \/ InflateFails \/ WriteEnd \/ KeepElf \/ RepairElf
  <2>1. /\ UNCHANGED <<in, s, self_sections>> /\ Listed /\ Ascending
        /\ upc \in {"write", "check"} /\ upc' \in {"write", "check", "done", "failed"}
    BY <1>4 DEF WritePlain, WriteUnpacked, InflateFails, WriteEnd, Writing, KeepElf,
                RepairElf, OnceInv, Sorted
  <2>s. Sorted /\ Sorted'
    BY <2>1 DEF Sorted
  <2>2. WellPlaced => PiecesPlaced'
    BY <2>1 DEF OnceInv, PiecesPlaced, Apart, PieceStop, HasPiece, IsPieceOf
  <2> QED BY <1>1, <2>1, <2>s, <2>2, ListKept, SameFile DEF OnceInv
<1>5. CASE UNCHANGED uvars
  <2>1. UNCHANGED <<in, upc, s, ui, elf_offset, self_sections>>
    BY <1>5 DEF uvars
  <2>2. Listed' /\ (Sorted' => Ascending')
    BY <2>1, SameFile DEF OnceInv, Listed, Ascending, Sorted
  <2>3. WellPlaced => PiecesPlaced'
    BY <2>1, SameFile DEF OnceInv, PiecesPlaced, Apart, Behind, PieceStop, HasPiece, IsPieceOf
  <2> QED BY <1>1, <2>2, <2>3, SameFile DEF OnceInv
<1> QED BY <1>2, <1>3, <1>o, <1>4, <1>5, ReadHeaderOnce, SortOnce DEF UNext

\* Two pieces of a segment would overlap.
LEMMA OnePieceOnly ==
    ASSUME OnceInv, WellPlaced, upc = "write", NEW z \in Z
    PROVE  Cardinality({x \in 1..Len(self_sections) : IsPieceOf(self_sections[x], z)}) = 1
<1>1. /\ Readable(in) /\ Listed /\ PiecesPlaced /\ self_sections \in Seq(Pieces)
      /\ Len(self_sections) \in Nat
  BY DEF OnceInv, WalkInv
<1>2. PICK n \in 1..Len(s) : s[n].idx = z
  BY <1>1 DEF Listed, Sorted
<1>3. PICK x \in 1..Len(self_sections) : IsPieceOf(self_sections[x], z)
  BY <1>1, <1>2 DEF PiecesPlaced, HasPiece
<1>4. /\ in.phdr[z].p_off \in Nat /\ in.phdr[z].p_filesz \in Nat
      /\ in.phdr[z].p_filesz > 0
  <2>1. SegmentStart(z) \in Nat /\ in.phdr[z].p_filesz \in Nat
    BY <1>1, WellPlacedFacts
  <2> QED BY <2>1 DEF SegmentStart, WellPlaced, Z
<1>5. ASSUME NEW m \in 1..Len(self_sections), NEW k \in 1..Len(self_sections), m < k,
             IsPieceOf(self_sections[m], z), IsPieceOf(self_sections[k], z)
      PROVE  FALSE
  <2>1. PieceStop(self_sections[m]) <= self_sections[k].elf_offset
    BY <1>1, <1>5 DEF PiecesPlaced, Apart
  <2>2. in.phdr[z].p_off + in.phdr[z].p_filesz <= in.phdr[z].p_off
    BY <1>5, <2>1 DEF IsPieceOf, PieceStop
  <2> QED BY <1>4, <2>2
<1>6. {y \in 1..Len(self_sections) : IsPieceOf(self_sections[y], z)} = {x}
  <2>1. ASSUME NEW y \in 1..Len(self_sections), IsPieceOf(self_sections[y], z)
        PROVE  y = x
    BY <1>1, <1>3, <1>5, <2>1
  <2> QED BY <1>3, <2>1
<1> QED BY <1>6, FS_Singleton

\* read_sections(): with well placed headers, no piece is written over an
\* earlier one and every compressed segment has exactly one.
THEOREM EverySegmentOnce == USpec => []EachSegmentOnce
<1>1. OnceInv => EachSegmentOnce
  <2> SUFFICES ASSUME OnceInv, WellPlaced PROVE
        /\ \A m, n \in 1..Len(self_sections) : m < n =>
             self_sections[m].elf_offset + self_sections[m].size_uncompressed
                <= self_sections[n].elf_offset
        /\ upc = "write" =>
             \A n \in 1..e_phnum : in.sec[n].compressed =>
               Cardinality({x \in 1..Len(self_sections) :
                    /\ self_sections[x].compressed
                    /\ self_sections[x].offset = in.sec[n].offset
                    /\ self_sections[x].elf_offset = in.phdr[n].p_off
                    /\ self_sections[x].size_uncompressed = in.phdr[n].p_filesz}) = 1
    BY DEF EachSegmentOnce
  <2>1. \A m, n \in 1..Len(self_sections) : m < n =>
           self_sections[m].elf_offset + self_sections[m].size_uncompressed
              <= self_sections[n].elf_offset
    BY DEF OnceInv, PiecesPlaced, Apart, PieceStop
  <2>2. ASSUME upc = "write", NEW n \in 1..e_phnum, in.sec[n].compressed
        PROVE  Cardinality({x \in 1..Len(self_sections) :
                    /\ self_sections[x].compressed
                    /\ self_sections[x].offset = in.sec[n].offset
                    /\ self_sections[x].elf_offset = in.phdr[n].p_off
                    /\ self_sections[x].size_uncompressed = in.phdr[n].p_filesz}) = 1
    <3>1. n \in Z
      BY <2>2 DEF Z
    <3> QED BY <2>2, <3>1, OnePieceOnly DEF IsPieceOf
  <2> QED BY <2>1, <2>2
<1>2. UInit => OnceInv
  BY InputsAssumption, InitOnceInv DEF UInit, Readable
<1> QED BY <1>1, <1>2, NextOnceInv, PTL DEF USpec

-----------------------------------------------------------------------------
(* Part three: makeself, then unself *)

\* What a segment became: where it was in the ELF file, and that only loadable
\* ones are compressed, and only if that makes them smaller.
EntryOf(n, m) ==
    /\ m.p_off = elf.phdr[n].p_off /\ m.p_filesz = elf.phdr[n].p_filesz
    /\ m.compressed => /\ compression /\ n \in Loads
                       /\ 0 < m.size /\ m.size < elf.phdr[n].p_filesz
    /\ ~m.compressed => m.size = elf.phdr[n].p_filesz
Packed == /\ Len(phdr_map) <= phnum
          /\ \A n \in 1..Len(phdr_map) : EntryOf(n, phdr_map[n])

\* The first segment follows the header.
FirstBehindHeader ==
    compression => IF Len(phdr_map) = 0 THEN pc = "map" => offset = HeaderSize
                   ELSE phdr_map[1].offset = HeaderSize

\* Without -c the ELF file is in the buffer as it is.
PlainBuffer ==
    ~compression /\ i > phnum /\ pc = "write_elf" =>
        \A p \in 0..(elf.size - 1) : self[HeaderSize + p + 1] = Elf(p)

\* The whole is in the buffer, and the file is that and the padding.

Finished ==
    pc = "done" =>
        /\ Mapped
        /\ Len(self) = HeaderSize + elf.size
        /\ \A n \in 1..phnum : Ends(phdr_map[n]) <= Len(self)
        /\ file \in Seq(Bytes)
        /\ ~compression => \A p \in 0..(round_up(elf.size, ALIGNMENT) - 1) :
              Peek(file, HeaderSize + p) = IF p < elf.size THEN Elf(p) ELSE Zero

PackInv == IInv /\ Packed /\ FirstBehindHeader /\ PlainBuffer /\ Finished

-----------------------------------------------------------------------------
(* The inductive invariant of both tools *)

\* s holds what read_section() returned.
AsRead == \A k \in 1..Len(s) : s[k] = read_section(s[k].idx)

\* A compressed piece is one of the segments, whole; the others are copied.
Sourced ==
    \A k \in 1..Len(self_sections) :
        LET x == self_sections[k]
        IN  IF x.compressed THEN \E z \in Z : IsPieceOf(x, z) /\ x.size = in.sec[z].size
            ELSE x.size = x.size_uncompressed

\* The walk ends with a piece that is not empty and reaches the end of the file.
LastPiece == \E k \in 1..Len(self_sections) :
    self_sections[k].size_uncompressed > 0 /\ in.filesize <= PieceStop(self_sections[k])
Reached == /\ upc = "headers" => elf_offset = 0
           /\ upc = "walk" => elf_offset < in.filesize \/ LastPiece
           /\ upc \in {"write", "check"} => LastPiece

\* The file is as long as the pieces written so far need it.
Extent ==
    /\ upc \in {"headers", "walk"} => out = <<>>
    /\ upc \in {"write", "check"} =>
         /\ out \in Seq(Bytes)
         /\ \A k \in 1..Len(self_sections) :
              (k <= ui \/ upc = "check") /\ self_sections[k].size_uncompressed > 0
                 => PieceStop(self_sections[k]) <= Len(out)

\* Without -c there is one piece, the file.
OnePiece ==
    ~compression =>
        /\ upc = "walk" => /\ self_offset = HeaderSize
                           /\ Len(self_sections) = 0 => elf_offset = 0
        /\ Len(self_sections) > 0 =>
             /\ Len(self_sections) = 1 /\ elf_offset = in.filesize
             /\ self_sections[1] = Piece(HeaderSize, in.filesize, FALSE, in.filesize, 0)
        /\ upc \in {"write", "check"} => Len(self_sections) = 1
        /\ upc = "check" \/ (upc = "write" /\ ui > 0) =>
             out = [b \in 1..in.filesize |-> Peek(in.bytes, HeaderSize + b - 1)]
        /\ upc = "write" /\ ui = 0 => out = <<>>

\* Byte b of piece x, if it gets where it belongs.
PieceByte(x, b) == IF x.compressed THEN Elf(x.elf_offset + b) ELSE Peek(in.bytes, x.offset + b)
Holds(x) == \A b \in 0..(x.size_uncompressed - 1) : out[x.elf_offset + b + 1] = PieceByte(x, b)

\* The pieces written so far are all in the file: none was written over.
PiecesHeld ==
    WellPlaced /\ upc \in {"write", "check"} =>
        \A k \in 1..Len(self_sections) : k <= ui \/ upc = "check" => Holds(self_sections[k])

\* The way of a segment that is not compressed and continues what is before
\* it: the walk has still to pass the segment before it, or is where it starts,
\* or has a piece from there that goes on to its end at least.
Coming(n) == n > 1 /\ \E k \in 1..Len(s) : k > ui /\ s[k].idx = n - 1
Here(n) == /\ elf_offset = Begin(n) /\ self_offset = in.sec[n].offset
           /\ \A k \in 1..Len(s) : k > ui => s[k].idx > n
Came(n) == \E k \in 1..Len(self_sections) :
              /\ ~self_sections[k].compressed
              /\ self_sections[k].elf_offset = Begin(n)
              /\ self_sections[k].offset = in.sec[n].offset
              /\ self_sections[k].size_uncompressed >= elf.phdr[n].p_filesz
Continuing == {n \in Loads : Continues(n) /\ ~phdr_map[n].compressed /\ elf.phdr[n].p_filesz > 0}
Continued ==
    compression /\ LoadsAscend =>
        \A n \in Continuing :
            /\ upc = "walk" => Coming(n) \/ Here(n) \/ Came(n)
            /\ upc \in {"write", "check"} => Came(n)

\* What comes out is said of the last state only.
Unpacking == /\ OnceInv /\ upc # "failed"
             /\ AsRead /\ Sourced /\ Reached /\ Extent /\ OnePiece /\ PiecesHeld /\ Continued
             /\ PlainRoundTrip /\ SegmentsRecovered /\ RepairedReadable

\* The state of unself before it starts.
Resting == s = <<>> /\ ui = 0 /\ elf_offset = 0 /\ self_offset = 0 /\ self_sections = <<>> /\ out = <<>>

RoundInv ==
    /\ PackInv
    /\ upc = "idle" => Resting
    /\ upc # "idle" => pc = "done" /\ in = SelfFile /\ Unpacking

-----------------------------------------------------------------------------
(* makeself keeps its part *)

LEMMA PlacePacks ==
    ASSUME PackInv, Mapping, NEW sz \in Nat, NEW z \in BOOLEAN,
           z => i + 1 \in Loads /\ 0 < sz /\ sz < elf.phdr[i + 1].p_filesz,
           ~z => sz = elf.phdr[i + 1].p_filesz,
           Place(MapEntry(offset, sz, z, elf.phdr[i + 1]))
    PROVE  Packed' /\ FirstBehindHeader'
<1> DEFINE m == MapEntry(offset, sz, z, elf.phdr[i + 1])
<1>1. /\ pc = "map" /\ pc' = "map" /\ compression /\ i \in Nat /\ i < phnum /\ phnum \in Nat
      /\ offset \in Nat /\ i = Len(phdr_map) /\ phdr_map \in Seq(PhdrMap)
      /\ elf' = elf /\ compression' = compression
  BY ElfFacts DEF PackInv, IInv, Types, Placed, Mapping, Place
<1>2. /\ m \in PhdrMap /\ m.offset = offset /\ m.size = sz /\ m.compressed = z
      /\ m.p_off = elf.phdr[i + 1].p_off /\ m.p_filesz = elf.phdr[i + 1].p_filesz
  <2>1. i + 1 \in 1..phnum
    BY <1>1
  <2>2. elf.phdr[i + 1].p_off \in Nat /\ elf.phdr[i + 1].p_filesz \in Nat
    BY <2>1, ElfFacts DEF PackInv, IInv, Types
  <2> QED BY <1>1, <2>2 DEF MapEntry, PhdrMap
<1> HIDE DEF m
<1>3. phdr_map' = Append(phdr_map, m)
  BY DEF Place, m
<1>4. /\ phdr_map' \in Seq(PhdrMap) /\ Len(phdr_map') = i + 1
      /\ phdr_map'[i + 1] = m /\ \A k \in 1..i : phdr_map'[k] = phdr_map[k]
  BY <1>1, <1>2, <1>3, AppendFacts
<1>5. EntryOf(i + 1, m)
  BY <1>1, <1>2 DEF EntryOf
<1>6. ASSUME NEW n \in 1..(i + 1)
      PROVE  EntryOf(n, phdr_map'[n])
  <2>1. CASE n = i + 1
    BY <1>4, <1>5, <2>1
  <2>2. CASE n \in 1..i
    BY <1>1, <1>4, <2>2 DEF PackInv, Packed
  <2> QED BY <1>1, <2>1, <2>2
<1>7. Packed'
  BY <1>1, <1>4, <1>6 DEF Packed, EntryOf, phnum, Loads
<1>8. phdr_map'[1].offset = HeaderSize
  <2>1. CASE i = 0
    BY <1>1, <1>2, <1>4, <2>1 DEF PackInv, FirstBehindHeader
  <2>2. CASE i > 0
    BY <1>1, <1>4, <2>2 DEF PackInv, FirstBehindHeader
  <2> QED BY <1>1, <2>1, <2>2
<1> QED BY <1>1, <1>4, <1>7, <1>8 DEF FirstBehindHeader

LEMMA FillPhdrMapPacks ==
    ASSUME PackInv, FillPhdrMap
    PROVE  Packed' /\ FirstBehindHeader'
<1>1. phnum \in Nat /\ elf' = elf /\ compression' = compression /\ ~compression
  BY ElfFacts DEF PackInv, IInv, Types, FillPhdrMap
<1>2. phdr_map' = [n \in 1..phnum |->
                      MapEntry(elf.phdr[n].p_off + HeaderSize, elf.phdr[n].p_filesz,
                               FALSE, elf.phdr[n])]
  BY DEF FillPhdrMap
<1>3. Len(phdr_map') = phnum
  BY <1>1, <1>2
<1>4. ASSUME NEW n \in 1..phnum
      PROVE  EntryOf(n, phdr_map'[n])
  BY <1>2 DEF EntryOf, MapEntry
<1> QED BY <1>1, <1>3, <1>4 DEF Packed, FirstBehindHeader, EntryOf, phnum, Loads

LEMMA MapKeptPacks ==
    ASSUME PackInv, UNCHANGED <<elf, compression, phdr_map, offset>>, pc # "map" => pc' # "map"
    PROVE  Packed' /\ FirstBehindHeader'
BY DEF PackInv, Packed, FirstBehindHeader, EntryOf, phnum, Loads

\* Without -c the only copy is that of the whole ELF file.
LEMMA WriteRestPlain ==
    ASSUME PackInv, WriteRest
    PROVE  PlainBuffer'
<1> SUFFICES ASSUME ~compression', pc' = "write_elf"
             PROVE  \A p \in 0..(elf'.size - 1) : self'[HeaderSize + p + 1] = Elf(p)
  BY DEF PlainBuffer
<1>1. /\ elf' = elf /\ ~compression /\ elf.size \in Nat /\ HeaderSize \in Nat
      /\ Memcpy(HeaderSize, ElfPart(0, elf.size)) /\ self \in Seq(Bytes)
  BY ElfFacts, AlignmentAssumption DEF WriteRest, PackInv, IInv, Types
<1>2. /\ ElfPart(0, elf.size) \in Seq(Bytes) /\ Len(ElfPart(0, elf.size)) = elf.size
      /\ \A b \in 1..elf.size : ElfPart(0, elf.size)[b] = Elf(b - 1)
  <2>1. \A b \in 1..elf.size : 0 + b - 1 = b - 1 /\ Elf(b - 1) \in Bytes
    BY <1>1 DEF Elf, Bytes
  <2> QED BY <1>1, <2>1 DEF ElfPart
<1> DEFINE part == ElfPart(0, elf.size)
<1> HIDE DEF part
<1>3. HeaderSize + Len(part) <= Len(self) /\ self' = Write(self, HeaderSize, part)
  BY <1>1 DEF Memcpy, part, WriteRest
<1>4. \A a \in 1..Len(self) :
         self'[a] = IF a \in (HeaderSize + 1)..(HeaderSize + Len(part)) THEN part[a - HeaderSize]
                    ELSE self[a]
  <2>1. PICK at \in Nat : at = HeaderSize
    BY <1>1
  <2>2. part \in Seq(Bytes) /\ at + Len(part) <= Len(self) /\ self \in Seq(Bytes)
    BY <1>1, <1>2, <1>3, <2>1 DEF part
  <2>3. \A a \in 1..Len(self) :
          Write(self, at, part)[a] = IF a \in (at + 1)..(at + Len(part)) THEN part[a - at]
                                     ELSE self[a]
    BY <2>2, WriteFacts
  <2> QED BY <1>3, <2>1, <2>3
<1>5. ASSUME NEW p \in 0..(elf.size - 1)
      PROVE  self'[HeaderSize + p + 1] = Elf(p)
  <2>1. Len(part) = elf.size /\ Len(self) \in Nat
    BY <1>1, <1>2 DEF part
  <2>2. HeaderSize + p + 1 \in 1..Len(self)
        /\ HeaderSize + p + 1 \in (HeaderSize + 1)..(HeaderSize + Len(part))
        /\ (HeaderSize + p + 1) - HeaderSize = p + 1 /\ p + 1 \in 1..elf.size /\ p + 1 - 1 = p
    BY <1>1, <1>3, <2>1
  <2>3. self'[HeaderSize + p + 1] = part[p + 1]
    BY <1>4, <2>2
  <2> QED BY <1>2, <2>2, <2>3 DEF part
<1> QED BY <1>1, <1>5

\* What the file is when makeself is done.
LEMMA WriteFileFinishes ==
    ASSUME PackInv, WriteFile
    PROVE  Finished'
<1>1. /\ pc = "write_elf" /\ i > phnum /\ Mapped /\ Copied
      /\ UNCHANGED <<elf, compression, i, offset, phdr_map, compressed_size, shdr_offset, self>>
  BY DEF WriteFile, PackInv, IInv
<1>2. /\ elf.size \in Nat /\ HeaderSize \in Nat /\ compressed_size \in Nat /\ ALIGNMENT \in Nat
      /\ ALIGNMENT > 0 /\ self \in Seq(Bytes) /\ Len(self) \in Nat /\ phnum \in Nat
      /\ Len(self) = HeaderSize + elf.size
  BY <1>1, ElfFacts, AlignmentAssumption DEF PackInv, IInv, Types, Copied
<1> DEFINE rounded == round_up(compressed_size, ALIGNMENT)
<1>3. rounded \in Nat /\ rounded >= compressed_size
  BY <1>2, RoundUpFacts
<1>4. file' = [a \in 1..(HeaderSize + rounded) |->
                  IF a > HeaderSize + compressed_size THEN Zero ELSE Peek(self, a - 1)]
  BY DEF WriteFile
<1> HIDE DEF rounded
<1>5. Zero \in Bytes /\ \A a \in Int : Peek(self, a) \in Bytes
  <2>1. Zero \in Bytes /\ Junk \in Bytes
    BY DEF Bytes
  <2>2. ASSUME NEW a \in Int PROVE Peek(self, a) \in Bytes
    <3>1. CASE a \in 0..(Len(self) - 1)
      <4>1. a + 1 \in 1..Len(self)
        BY <1>2, <3>1
      <4> QED BY <1>2, <3>1, <4>1, ElementOf DEF Peek
    <3>2. CASE a \notin 0..(Len(self) - 1)
      BY <2>1, <3>2 DEF Peek
    <3> QED BY <3>1, <3>2
  <2> QED BY <2>1, <2>2
<1>6. file' \in Seq(Bytes) /\ Len(file') = HeaderSize + rounded
  <2>1. HeaderSize + rounded \in Nat
    BY <1>2, <1>3
  <2>2. \A a \in 1..(HeaderSize + rounded) : a - 1 \in Int
    BY <1>2, <1>3
  <2>3. file' \in [1..(HeaderSize + rounded) -> Bytes]
    BY <1>4, <1>5, <2>2
  <2> QED BY <2>1, <2>3, FunctionIsSeq
<1>7. \A n \in 1..phnum : Ends(phdr_map[n]) <= Len(self)
  BY <1>1 DEF Copied, Stored
<1>8. ASSUME ~compression, NEW p \in 0..(round_up(elf.size, ALIGNMENT) - 1)
      PROVE  Peek(file', HeaderSize + p) = IF p < elf.size THEN Elf(p) ELSE Zero
  <2>1. compressed_size = elf.size
    BY <1>1, <1>8 DEF Mapped
  <2>2. p \in Nat /\ p < rounded
    BY <1>2, <1>3, <1>8, <2>1 DEF rounded
  <2>3. /\ HeaderSize + p \in 0..(Len(file') - 1)
        /\ (HeaderSize + p) + 1 \in 1..(HeaderSize + rounded)
        /\ ((HeaderSize + p) + 1) - 1 = HeaderSize + p
    BY <1>2, <1>3, <1>6, <2>2
  <2>4. Peek(file', HeaderSize + p) = IF (HeaderSize + p) + 1 > HeaderSize + compressed_size
                                      THEN Zero ELSE Peek(self, HeaderSize + p)
    BY <1>4, <2>3 DEF Peek
  <2>5. (HeaderSize + p) + 1 > HeaderSize + compressed_size <=> ~(p < elf.size)
    BY <1>2, <2>1, <2>2
  <2>6. ASSUME p < elf.size
        PROVE  Peek(self, HeaderSize + p) = Elf(p)
    <3>1. HeaderSize + p \in 0..(Len(self) - 1) /\ p \in 0..(elf.size - 1)
      BY <1>2, <2>2, <2>6
    <3>2. self[HeaderSize + p + 1] = Elf(p)
      BY <1>1, <1>8, <3>1 DEF PackInv, PlainBuffer
    <3>3. (HeaderSize + p) + 1 = HeaderSize + p + 1
      OBVIOUS
    <3> QED BY <3>1, <3>2, <3>3 DEF Peek
  <2> QED BY <2>4, <2>5, <2>6
<1>9. Mapped'
  BY <1>1 DEF Mapped, Ends, phnum
<1> QED BY <1>1, <1>2, <1>6, <1>7, <1>8, <1>9 DEF Finished, phnum, Ends

LEMMA NextPacks == PackInv /\ [Next]_vars => PackInv'
<1> SUFFICES ASSUME PackInv, [Next]_vars PROVE PackInv'
  OBVIOUS
<1>1. IInv' /\ IInv /\ phnum \in Nat /\ i \in Nat
  BY NextKeeps, ElfFacts DEF PackInv, IInv, Types
<1>2. CASE FillPhdrMap
  <2>1. Packed' /\ FirstBehindHeader'
    BY <1>2, FillPhdrMapPacks
  <2> QED BY <1>1, <1>2, <2>1 DEF PackInv, FillPhdrMap, PlainBuffer, Finished
<1>3. CASE MapPlain
  <2>1. i + 1 \in 1..phnum
    BY <1>1, <1>3 DEF MapPlain, Mapping
  <2>2. elf.phdr[i + 1].p_filesz \in Nat
    BY <1>1, <2>1, ElfFacts DEF IInv, Types
  <2>3. Packed' /\ FirstBehindHeader'
    BY <1>3, <2>2, PlacePacks DEF MapPlain
  <2>4. pc' = "map"
    BY <1>3 DEF MapPlain, Mapping, Place
  <2> QED BY <1>1, <2>3, <2>4 DEF PackInv, PlainBuffer, Finished
<1>4. CASE MapCompressed
  <2>1. i + 1 \in 1..phnum
    BY <1>1, <1>4 DEF MapCompressed, Mapping
  <2>2. elf.phdr[i + 1].p_filesz \in Nat
    BY <1>1, <2>1, ElfFacts DEF IInv, Types
  <2>3. PICK sz \in 1..(elf.phdr[i + 1].p_filesz - 1) :
           Place(MapEntry(offset, sz, TRUE, elf.phdr[i + 1]))
    BY <1>4 DEF MapCompressed
  <2>4. sz \in Nat /\ 0 < sz /\ sz < elf.phdr[i + 1].p_filesz
    BY <2>2
  <2>5. i + 1 \in Loads /\ Mapping
    BY <1>4, <2>1 DEF MapCompressed, Loads, phnum
  <2>6. Packed' /\ FirstBehindHeader'
    BY <2>3, <2>4, <2>5, PlacePacks
  <2>7. pc' = "map"
    BY <1>4, <2>3 DEF MapCompressed, Mapping, Place
  <2> QED BY <1>1, <2>6, <2>7 DEF PackInv, PlainBuffer, Finished
<1>5. CASE MapEnd
  <2>1. UNCHANGED <<elf, compression, phdr_map, offset>> /\ pc' \in {"undefined", "alloc"}
    BY <1>5 DEF MapEnd
  <2>2. Packed' /\ FirstBehindHeader'
    BY <2>1, MapKeptPacks
  <2> QED BY <1>1, <2>1, <2>2 DEF PackInv, PlainBuffer, Finished
<1>6. CASE Alloc
  <2>1. UNCHANGED <<elf, compression, phdr_map, offset>> /\ pc' = "write_elf" /\ i' = 0
    BY <1>6 DEF Alloc
  <2>2. Packed' /\ FirstBehindHeader'
    BY <2>1, MapKeptPacks
  <2>3. ~(i' > phnum')
    BY <1>1, <2>1 DEF phnum
  <2> QED BY <1>1, <2>1, <2>2, <2>3 DEF PackInv, PlainBuffer, Finished
<1>7. CASE WriteSegment
  <2>1. /\ UNCHANGED <<elf, compression, phdr_map, offset>> /\ compression
        /\ pc # "map" /\ pc' \in {"write_elf", "undefined"}
    BY <1>7 DEF WriteSegment, Memcpy
  <2>2. Packed' /\ FirstBehindHeader'
    BY <2>1, MapKeptPacks
  <2> QED BY <1>1, <2>1, <2>2 DEF PackInv, PlainBuffer, Finished
<1>8. CASE WriteRest
  <2>1. /\ UNCHANGED <<elf, compression, phdr_map, offset>> /\ pc = "write_elf"
        /\ pc' \in {"write_elf", "undefined"}
    <3>1. \A at, bytes : Memcpy(at, bytes) /\ pc = "write_elf" => pc' \in {"write_elf", "undefined"}
      BY DEF Memcpy
    <3> QED BY <1>8, <3>1 DEF WriteRest
  <2>2. Packed' /\ FirstBehindHeader'
    BY <2>1, MapKeptPacks
  <2>3. PlainBuffer'
    BY <1>8, WriteRestPlain
  <2> QED BY <1>1, <2>1, <2>2, <2>3 DEF PackInv, Finished
<1>9. CASE WriteFile
  <2>1. UNCHANGED <<elf, compression, phdr_map, offset>> /\ pc # "map" /\ pc' = "done"
    BY <1>9 DEF WriteFile
  <2>2. Packed' /\ FirstBehindHeader'
    BY <2>1, MapKeptPacks
  <2>3. Finished'
    BY <1>9, WriteFileFinishes
  <2> QED BY <1>1, <2>1, <2>2, <2>3 DEF PackInv, PlainBuffer
<1>10. CASE UNCHANGED vars
  <2>1. UNCHANGED <<elf, compression, pc, i, offset, phdr_map, compressed_size, shdr_offset,
                    self, file>>
    BY <1>10 DEF vars
  <2>2. Packed' /\ FirstBehindHeader'
    BY <2>1, MapKeptPacks
  <2>3. PlainBuffer'
    BY <2>1 DEF PackInv, PlainBuffer, phnum
  <2>4. pc = "done" => Mapped'
    BY <2>1 DEF PackInv, Finished, Mapped, Ends, phnum
  <2>5. Finished'
    BY <2>1, <2>4 DEF PackInv, Finished, Ends, phnum
  <2> QED BY <1>1, <2>2, <2>3, <2>5 DEF PackInv
<1> QED BY <1>2, <1>3, <1>4, <1>5, <1>6, <1>7, <1>8, <1>9, <1>10 DEF Next

LEMMA InitPacks == Init => PackInv
<1> SUFFICES ASSUME Init PROVE PackInv
  OBVIOUS
<1>1. IInv /\ phnum \in Nat /\ i = 0 /\ pc = "map" /\ phdr_map = <<>> /\ offset = HeaderSize
  BY InitHolds, ElfFacts DEF Init
<1> QED BY <1>1 DEF PackInv, Packed, FirstBehindHeader, PlainBuffer, Finished

-----------------------------------------------------------------------------
(* The file that unself maps *)

\* Its fields, as they are in the memory of makeself.
FileFields(f) ==
    /\ Len(f.phdr) = phnum /\ Len(f.sec) = phnum
    /\ f.header_len = HeaderSize /\ f.filesize = round_up(elf.size, ALIGNMENT)
    /\ f.bytes = file /\ f.arch64 = elf.arch64 /\ f.shdr_offset = shdr_offset
    /\ f.n_shdr = elf.shsize \div Sizes[elf.arch64].shdr
    /\ \A n \in 1..phnum :
         /\ f.phdr[n].p_off = Begin(n) /\ f.phdr[n].p_filesz = elf.phdr[n].p_filesz
         /\ f.sec[n].offset = phdr_map[n].offset /\ f.sec[n].size = phdr_map[n].size
         /\ f.sec[n].compressed = phdr_map[n].compressed

\* What SizesAssumption says of the class at hand.
LEMMA ClassFacts ==
    ASSUME elf \in Elfs
    PROVE  /\ elf.arch64 \in BOOLEAN
           /\ Sizes[elf.arch64].ehdr \in Nat \ {0} /\ Sizes[elf.arch64].phdr \in Nat
           /\ Sizes[elf.arch64].shdr \in Nat \ {0} /\ Sizes[elf.arch64].stride \in Nat
           /\ Sizes[elf.arch64].shdr <= Sizes[elf.arch64].stride
<1>1. elf.arch64 \in BOOLEAN
  BY ElfsAssumption DEF ElfFiles
<1>2. Sizes[elf.arch64] \in [ehdr : Nat \ {0}, phdr : Nat, shdr : Nat \ {0}, stride : Nat]
  BY <1>1, SizesAssumption
<1> QED BY <1>1, <1>2, SizesAssumption

\* A quotient, multiplied, is not above what was divided.
LEMMA QuotientFacts ==
    ASSUME NEW a \in Nat, NEW n \in Nat \ {0}
    PROVE  a \div n \in Nat /\ (a \div n) * n <= a
<1>1. a \div n \in Nat
  BY Z3
<1>2. a = n * (a \div n) + (a % n) /\ a % n \in 0..(n - 1)
  BY Z3
<1> DEFINE q == a \div n
<1> HIDE DEF q
<1>3. n * q = q * n /\ n * q \in Int /\ a % n \in Nat
  BY <1>1, <1>2 DEF q
<1> QED BY <1>1, <1>2, <1>3 DEF q

LEMMA SelfFileFields ==
    ASSUME PackInv, pc = "done"
    PROVE  FileFields(SelfFile)
<1>1. Len(phdr_map) = phnum /\ phnum \in Nat /\ phnum = Len(elf.phdr)
  BY ElfFacts DEF PackInv, Finished, Mapped, IInv, Types, phnum
<1>2. /\ SelfFile.header_len = HeaderSize /\ SelfFile.filesize = round_up(elf.size, ALIGNMENT)
      /\ SelfFile.bytes = file /\ SelfFile.arch64 = elf.arch64
      /\ SelfFile.shdr_offset = shdr_offset
      /\ SelfFile.n_shdr = elf.shsize \div Sizes[elf.arch64].shdr
      /\ SelfFile.phdr = [n \in 1..Len(elf.phdr) |->
                            [p_off |-> elf.phdr[n].p_off, p_filesz |-> elf.phdr[n].p_filesz]]
      /\ SelfFile.sec = [n \in 1..Len(phdr_map) |->
                           [offset |-> phdr_map[n].offset, size |-> phdr_map[n].size,
                            compressed |-> phdr_map[n].compressed]]
  BY DEF SelfFile
<1>3. Len(SelfFile.phdr) = phnum /\ Len(SelfFile.sec) = phnum
  BY <1>1, <1>2
<1>4. ASSUME NEW n \in 1..phnum
      PROVE  /\ SelfFile.phdr[n].p_off = Begin(n)
             /\ SelfFile.phdr[n].p_filesz = elf.phdr[n].p_filesz
             /\ SelfFile.sec[n].offset = phdr_map[n].offset
             /\ SelfFile.sec[n].size = phdr_map[n].size
             /\ SelfFile.sec[n].compressed = phdr_map[n].compressed
  BY <1>1, <1>2 DEF Begin
<1> QED BY <1>2, <1>3, <1>4 DEF FileFields

\* Where the segments are in the file that was packed, and in the SELF.
SegmentFacts ==
    \A n \in 1..phnum :
        /\ Begin(n) \in Nat /\ elf.phdr[n].p_filesz \in Nat
        /\ End(n) = Begin(n) + elf.phdr[n].p_filesz /\ End(n) <= elf.size
        /\ phdr_map[n] \in PhdrMap
        /\ phdr_map[n].offset \in Word /\ phdr_map[n].size \in Nat
        /\ phdr_map[n].compressed \in BOOLEAN
        /\ EntryOf(n, phdr_map[n])

LEMMA DoneFacts ==
    ASSUME PackInv, pc = "done"
    PROVE  /\ phnum \in Nat /\ SegmentFacts
           /\ elf.size \in Nat /\ elf.size > 0
           /\ HeaderSize \in Word /\ round_up(elf.size, ALIGNMENT) \in Word
           /\ elf.size <= round_up(elf.size, ALIGNMENT)
           /\ file \in Seq(Bytes)
<1>1. elf \in Elfs /\ phdr_map \in Seq(PhdrMap) /\ Len(phdr_map) = phnum /\ Packed
  BY DEF PackInv, IInv, Types, Finished, Mapped
<1>2. elf.size \in Nat /\ elf.size > 0
  <2>1. elf.size \in Nat \ {0}
    BY <1>1, ElfsAssumption DEF ElfFiles
  <2> QED BY <2>1
<1>3. /\ round_up(elf.size, ALIGNMENT) \in Nat /\ elf.size <= round_up(elf.size, ALIGNMENT)
      /\ HeaderSize \in Nat
  BY <1>2, RoundUpFacts, AlignmentAssumption
<1>4. HeaderSize + round_up(elf.size, ALIGNMENT) < W
  BY <1>1, SizeAssumption
<1>5. HeaderSize \in Word /\ round_up(elf.size, ALIGNMENT) \in Word
  BY <1>3, <1>4, WAssumption DEF Word
<1>6. ASSUME NEW n \in 1..phnum
      PROVE  /\ Begin(n) \in Nat /\ elf.phdr[n].p_filesz \in Nat
             /\ End(n) = Begin(n) + elf.phdr[n].p_filesz /\ End(n) <= elf.size
             /\ phdr_map[n] \in PhdrMap
             /\ phdr_map[n].offset \in Word /\ phdr_map[n].size \in Nat
             /\ phdr_map[n].compressed \in BOOLEAN
             /\ EntryOf(n, phdr_map[n])
  <2>1. /\ Begin(n) \in Nat /\ elf.phdr[n].p_filesz \in Nat
        /\ End(n) = Begin(n) + elf.phdr[n].p_filesz /\ End(n) <= elf.size
    BY <1>1, ElfFacts DEF Begin, End
  <2>2. phdr_map[n] \in PhdrMap
    BY <1>1, ElementOf
  <2>3. /\ phdr_map[n].offset \in Nat /\ phdr_map[n].size \in Nat
        /\ phdr_map[n].compressed \in BOOLEAN
    BY <2>2 DEF PhdrMap
  <2>4. Ends(phdr_map[n]) <= HeaderSize + elf.size
    BY DEF PackInv, Finished
  <2>5. phdr_map[n].offset \in Word
    <3>1. phdr_map[n].offset + phdr_map[n].size <= HeaderSize + elf.size
      BY <2>4 DEF Ends
    <3>2. HeaderSize + elf.size < W
      BY <1>2, <1>3, <1>4, WAssumption
    <3> QED BY <1>2, <1>3, <2>3, <3>1, <3>2, WAssumption DEF Word
  <2> QED BY <1>1, <2>1, <2>2, <2>3, <2>5 DEF Packed
<1>7. phnum \in Nat /\ file \in Seq(Bytes)
  BY <1>1, ElfFacts DEF PackInv, Finished
<1> QED BY <1>2, <1>3, <1>5, <1>6, <1>7 DEF SegmentFacts

\* unself can read what makeself wrote.
LEMMA SelfFileReadable ==
    ASSUME PackInv, pc = "done"
    PROVE  Readable(SelfFile)
<1>1. /\ phnum \in Nat /\ SegmentFacts /\ HeaderSize \in Word
      /\ round_up(elf.size, ALIGNMENT) \in Word /\ file \in Seq(Bytes)
  BY DoneFacts
<1>2. /\ elf \in Elfs /\ Len(phdr_map) = phnum /\ phnum = Len(elf.phdr)
      /\ shdr_offset \in Nat /\ elf.shsize \in Nat
  BY ElfFacts DEF PackInv, IInv, Types, Finished, Mapped, phnum
<1>3. elf.arch64 \in BOOLEAN /\ elf.shsize \div Sizes[elf.arch64].shdr \in Nat
  BY <1>2, ClassFacts, QuotientFacts
<1> DEFINE phdr == [n \in 1..Len(elf.phdr) |->
                      [p_off |-> elf.phdr[n].p_off, p_filesz |-> elf.phdr[n].p_filesz]]
           sec == [n \in 1..Len(phdr_map) |->
                     [offset |-> phdr_map[n].offset, size |-> phdr_map[n].size,
                      compressed |-> phdr_map[n].compressed]]
<1>4. phdr \in Seq([p_off : Nat, p_filesz : Nat]) /\ Len(phdr) = phnum
  <2>1. \A n \in 1..phnum : elf.phdr[n].p_off \in Nat /\ elf.phdr[n].p_filesz \in Nat
    BY <1>1 DEF SegmentFacts, Begin
  <2>2. phdr \in [1..phnum -> [p_off : Nat, p_filesz : Nat]]
    BY <1>2, <2>1
  <2> HIDE DEF phdr
  <2> QED BY <1>1, <2>2, FunctionIsSeq
<1>5. sec \in Seq([offset : Nat, size : Nat, compressed : BOOLEAN]) /\ Len(sec) = phnum
  <2>1. \A n \in 1..phnum : /\ phdr_map[n].offset \in Nat /\ phdr_map[n].size \in Nat
                            /\ phdr_map[n].compressed \in BOOLEAN
    BY <1>1, WordNat DEF SegmentFacts
  <2>2. sec \in [1..phnum -> [offset : Nat, size : Nat, compressed : BOOLEAN]]
    BY <1>2, <2>1
  <2> HIDE DEF sec
  <2> QED BY <1>1, <2>2, FunctionIsSeq
<1>6. SelfFile = [header_len |-> HeaderSize, filesize |-> round_up(elf.size, ALIGNMENT),
     version_word |-> W, bytes |-> file,
     arch64 |-> elf.arch64, shdr_offset |-> shdr_offset,
     n_shdr |-> elf.shsize \div Sizes[elf.arch64].shdr, phdr |-> phdr, sec |-> sec]
  BY DEF SelfFile
<1> HIDE DEF phdr, sec
<1>7. SelfFile.sec = sec /\ SelfFile.phdr = phdr
  BY <1>6
<1>8. W \in Nat /\ HeaderSize \in Nat /\ round_up(elf.size, ALIGNMENT) \in Nat
  BY <1>1, WAssumption, WordNat
<1>9. SelfFile \in SelfFiles
  BY <1>1, <1>2, <1>3, <1>4, <1>5, <1>6, <1>8 DEF SelfFiles
<1> QED BY <1>4, <1>5, <1>7, <1>9 DEF Readable

-----------------------------------------------------------------------------
(* What is read from that file *)

LEMMA ReadFacts ==
    ASSUME RoundInv, upc # "idle"
    PROVE  /\ pc = "done" /\ PackInv /\ in = SelfFile /\ Unpacking /\ WalkInv
           /\ FileFields(in) /\ SegmentFacts /\ Readable(in)
           /\ phnum \in Nat /\ e_phnum = phnum
           /\ in.filesize \in Word /\ in.filesize \in Nat /\ in.filesize > 0
           /\ in.filesize % W = in.filesize /\ elf.size \in Nat /\ elf.size <= in.filesize
           /\ HeaderSize \in Word /\ HeaderSize % W = HeaderSize
           /\ in.header_len = HeaderSize /\ in.bytes = file /\ file \in Seq(Bytes)
           /\ ui \in Nat /\ s \in Seq(SelfSec) /\ Len(s) \in Nat
           /\ self_sections \in Seq(Pieces) /\ Len(self_sections) \in Nat
           /\ elf_offset \in Word /\ elf_offset \in Nat /\ self_offset \in Word
<1>1. pc = "done" /\ PackInv /\ in = SelfFile /\ Unpacking /\ WalkInv
  BY DEF RoundInv, Unpacking, OnceInv
<1>2. FileFields(in) /\ Readable(in)
  BY <1>1, SelfFileFields, SelfFileReadable
<1>3. /\ phnum \in Nat /\ SegmentFacts /\ elf.size \in Nat /\ elf.size > 0
      /\ HeaderSize \in Word /\ round_up(elf.size, ALIGNMENT) \in Word
      /\ elf.size <= round_up(elf.size, ALIGNMENT) /\ file \in Seq(Bytes)
  BY <1>1, DoneFacts
<1>4. /\ in.filesize = round_up(elf.size, ALIGNMENT) /\ e_phnum = phnum
      /\ in.header_len = HeaderSize /\ in.bytes = file
  BY <1>2 DEF FileFields, e_phnum
<1>5. /\ ui \in Nat /\ s \in Seq(SelfSec) /\ self_sections \in Seq(Pieces)
      /\ elf_offset \in Word /\ self_offset \in Word
  BY <1>1 DEF WalkInv
<1>6. Len(s) \in Nat /\ Len(self_sections) \in Nat
  BY <1>5, ElementOf
<1>7. /\ in.filesize \in Nat /\ in.filesize % W = in.filesize /\ HeaderSize % W = HeaderSize
      /\ elf_offset \in Nat
  BY <1>3, <1>4, <1>5, WordFacts, WordNat
<1>8. in.filesize > 0
  BY <1>3, <1>4, <1>7
<1> QED BY <1>1, <1>2, <1>3, <1>4, <1>5, <1>6, <1>7, <1>8

\* What makeself wrote is below 4 GiB.
LEMMA PackedIsNarrow ==
    ASSUME RoundInv, upc # "idle"
    PROVE  Narrow
<1>1. in.filesize < W
  <2>1. in.filesize \in Word
    BY ReadFacts
  <2> QED BY <2>1, WAssumption DEF Word
<1>2. ASSUME NEW n \in 1..e_phnum PROVE in.sec[n].offset < W
  <2>1. in.sec[n].offset = phdr_map[n].offset /\ phdr_map[n].offset \in Word
    BY <1>2, ReadFacts DEF FileFields, SegmentFacts
  <2> QED BY <2>1, WAssumption DEF Word
<1> QED BY <1>1, <1>2 DEF Narrow

\* A section that unself finds compressed is a segment that makeself has
\* compressed; no offset or size of it wraps.
ZFact(z) ==
    /\ z \in 1..phnum /\ z \in Loads /\ compression /\ phdr_map[z].compressed
    /\ in.phdr[z].p_off = Begin(z) /\ in.phdr[z].p_filesz = elf.phdr[z].p_filesz
    /\ SegmentStart(z) = Begin(z) /\ SegmentStop(z) = End(z)
    /\ Begin(z) \in Nat /\ Begin(z) \in Word /\ Begin(z) % W = Begin(z)
    /\ End(z) \in Nat /\ End(z) \in Word /\ End(z) % W = End(z)
    /\ elf.phdr[z].p_filesz \in Nat /\ elf.phdr[z].p_filesz \in Word
    /\ elf.phdr[z].p_filesz % W = elf.phdr[z].p_filesz
    /\ End(z) = Begin(z) + elf.phdr[z].p_filesz /\ Begin(z) < End(z)
    /\ End(z) <= elf.size /\ End(z) <= in.filesize /\ Begin(z) < in.filesize
    /\ in.sec[z].offset = phdr_map[z].offset /\ in.sec[z].offset \in Word
    /\ in.sec[z].size = phdr_map[z].size /\ in.sec[z].size \in Nat /\ in.sec[z].size \in Word
    /\ in.sec[z].size % W = in.sec[z].size /\ in.sec[z].size > 0

LEMMA ZFacts ==
    ASSUME RoundInv, upc # "idle", NEW z \in Z
    PROVE  ZFact(z)
<1>1. /\ FileFields(in) /\ SegmentFacts /\ phnum \in Nat /\ e_phnum = phnum
      /\ in.filesize \in Word /\ in.filesize \in Nat /\ elf.size \in Nat
      /\ elf.size <= in.filesize
  BY ReadFacts
<1>2. z \in 1..phnum /\ in.sec[z].compressed
  BY <1>1 DEF Z
<1>3. /\ in.phdr[z].p_off = Begin(z) /\ in.phdr[z].p_filesz = elf.phdr[z].p_filesz
      /\ in.sec[z].offset = phdr_map[z].offset /\ in.sec[z].size = phdr_map[z].size
      /\ phdr_map[z].compressed
  BY <1>1, <1>2 DEF FileFields
<1>4. /\ Begin(z) \in Nat /\ elf.phdr[z].p_filesz \in Nat
      /\ End(z) = Begin(z) + elf.phdr[z].p_filesz /\ End(z) <= elf.size
      /\ phdr_map[z].offset \in Word /\ phdr_map[z].size \in Nat
      /\ EntryOf(z, phdr_map[z])
  BY <1>1, <1>2 DEF SegmentFacts
<1>5. /\ compression /\ z \in Loads
      /\ 0 < phdr_map[z].size /\ phdr_map[z].size < elf.phdr[z].p_filesz
  BY <1>3, <1>4 DEF EntryOf
<1>6. End(z) \in Nat /\ Begin(z) < End(z) /\ End(z) <= in.filesize
      /\ elf.phdr[z].p_filesz <= in.filesize /\ Begin(z) <= in.filesize
      /\ phdr_map[z].size <= in.filesize /\ Begin(z) < in.filesize
  BY <1>1, <1>4, <1>5
<1>7. /\ Begin(z) \in Word /\ Begin(z) % W = Begin(z)
      /\ End(z) \in Word /\ End(z) % W = End(z)
      /\ elf.phdr[z].p_filesz \in Word /\ elf.phdr[z].p_filesz % W = elf.phdr[z].p_filesz
      /\ phdr_map[z].size \in Word /\ phdr_map[z].size % W = phdr_map[z].size
  BY <1>1, <1>4, <1>6, BelowWord
<1>8. SegmentStart(z) = Begin(z) /\ SegmentStop(z) = End(z)
  BY <1>3, <1>4 DEF SegmentStart, SegmentStop
<1> QED BY <1>2, <1>3, <1>4, <1>5, <1>6, <1>7, <1>8 DEF ZFact

\* The section that the walk comes to next.
LEMMA NextSection ==
    ASSUME RoundInv, upc # "idle", NEW k \in 1..Len(s)
    PROVE  /\ s[k].idx \in Z /\ ZFact(s[k].idx)
           /\ s[k].offset = in.sec[s[k].idx].offset /\ s[k].size = in.sec[s[k].idx].size
           /\ s[k].next = IF s[k].idx = phnum THEN W ELSE in.sec[s[k].idx + 1].offset
<1>1. s[k].idx \in Z
  BY ReadFacts DEF Unpacking, OnceInv, Listed, Sorted
<1>2. s[k] = read_section(s[k].idx)
  BY ReadFacts DEF Unpacking, AsRead
<1>3. /\ read_section(s[k].idx).offset = in.sec[s[k].idx].offset
      /\ read_section(s[k].idx).size = in.sec[s[k].idx].size
      /\ read_section(s[k].idx).next =
           IF s[k].idx = e_phnum THEN in.version_word ELSE in.sec[s[k].idx + 1].offset
  BY DEF read_section
<1>4. in.version_word = W /\ e_phnum = phnum
  BY ReadFacts DEF SelfFile
<1> QED BY <1>1, <1>2, <1>3, <1>4, ZFacts

\* What the three kinds of turns of the walk append, and where it goes on.
RestTurn(x) ==
    /\ x.compressed = FALSE /\ x.offset = self_offset /\ x.elf_offset = elf_offset
    /\ x.size = in.filesize - elf_offset /\ x.size_uncompressed = in.filesize - elf_offset
    /\ ui = Len(s) /\ ui' = ui /\ elf_offset' = in.filesize /\ self_offset' = self_offset
CompressedTurn(x, z) ==
    /\ x.compressed = TRUE /\ IsPieceOf(x, z) /\ x.size = in.sec[z].size
    /\ ui < Len(s) /\ z = s[ui + 1].idx /\ self_offset = in.sec[z].offset
    /\ ui' = ui + 1 /\ elf_offset' = End(z)
    /\ z # phnum => self_offset' = in.sec[z + 1].offset
GapTurn(x, z) ==
    /\ x.compressed = FALSE /\ x.offset = self_offset /\ x.elf_offset = elf_offset
    /\ x.size = x.size_uncompressed /\ x.size_uncompressed \in Nat
    /\ elf_offset <= Begin(z) => x.size_uncompressed = Begin(z) - elf_offset
    /\ ui < Len(s) /\ z = s[ui + 1].idx /\ self_offset # in.sec[z].offset
    /\ ui' = ui /\ elf_offset' = Begin(z) /\ self_offset' = in.sec[z].offset

Turn(x) ==
    /\ upc = "walk" /\ upc' = "walk" /\ elf_offset < in.filesize
    /\ UNCHANGED <<in, s, out>>
    /\ x \in Pieces /\ self_sections' = Append(self_sections, x)
    /\ \/ RestTurn(x)
       \/ \E z \in Z : ZFact(z) /\ (CompressedTurn(x, z) \/ GapTurn(x, z))

LEMMA RestTurns ==
    ASSUME RoundInv, upc # "idle", Rest
    PROVE  \E x : Turn(x)
<1>r. PICK rest : rest = (in.filesize - elf_offset) % W
  OBVIOUS
<1>x. PICK x : x = Piece(self_offset, rest, FALSE, rest, elf_offset)
  OBVIOUS
<1>1. /\ upc = "walk" /\ upc' = upc /\ elf_offset < in.filesize /\ UNCHANGED <<in, s, out>>
      /\ ui = Len(s) /\ ui' = ui /\ elf_offset' = in.filesize % W /\ self_offset' = self_offset
      /\ self_sections' = Append(self_sections, x)
  BY <1>r, <1>x DEF Rest, Walking, Take
<1>2. /\ in.filesize \in Word /\ in.filesize \in Nat /\ in.filesize % W = in.filesize
      /\ elf_offset \in Nat /\ elf_offset \in Word /\ self_offset \in Word
  BY ReadFacts
<1>3. rest = in.filesize - elf_offset /\ rest \in Word
  <2>1. in.filesize - elf_offset \in Nat /\ in.filesize - elf_offset <= in.filesize
    BY <1>1, <1>2
  <2> QED BY <1>r, <1>2, <2>1, BelowWord
<1>4. /\ x.compressed = FALSE /\ x.offset = self_offset /\ x.elf_offset = elf_offset
      /\ x.size = rest /\ x.size_uncompressed = rest /\ x \in Pieces
  BY <1>x, <1>2, <1>3 DEF Piece, Pieces, Word
<1>5. RestTurn(x)
  BY <1>1, <1>2, <1>3, <1>4 DEF RestTurn
<1> QED BY <1>1, <1>4, <1>5 DEF Turn

LEMMA CompressedTurns ==
    ASSUME RoundInv, upc # "idle", Compressed
    PROVE  \E x : Turn(x)
<1>z. PICK z : z = s[ui + 1].idx
  OBVIOUS
<1>x. PICK x : x = Whole(s[ui + 1], in.phdr[z])
  OBVIOUS
<1>1. /\ upc = "walk" /\ upc' = upc /\ elf_offset < in.filesize /\ UNCHANGED <<in, s, out>>
      /\ ui < Len(s) /\ ui' = ui + 1 /\ self_offset = s[ui + 1].offset
      /\ elf_offset' = SegmentStop(z) % W /\ self_offset' = s[ui + 1].next % W
      /\ self_sections' = Append(self_sections, x)
  BY <1>z, <1>x DEF Compressed, Walking, TakeWhole, Take, SegmentStop
<1>2. /\ z \in Z /\ ZFact(z) /\ s[ui + 1].offset = in.sec[z].offset
      /\ s[ui + 1].size = in.sec[z].size
      /\ s[ui + 1].next = IF z = phnum THEN W ELSE in.sec[z + 1].offset
  <2>1. ui + 1 \in 1..Len(s)
    BY <1>1, ReadFacts
  <2> QED BY <1>z, <2>1, NextSection
<1>3. x = Piece(in.sec[z].offset, in.sec[z].size, TRUE, elf.phdr[z].p_filesz, Begin(z))
  BY <1>x, <1>2 DEF Whole, ZFact
<1>4. /\ x.compressed = TRUE /\ x.offset = in.sec[z].offset /\ x.size = in.sec[z].size
      /\ x.size_uncompressed = elf.phdr[z].p_filesz /\ x.elf_offset = Begin(z)
      /\ x \in Pieces
  BY <1>2, <1>3 DEF ZFact, Piece, Pieces, Word
<1>5. IsPieceOf(x, z)
  BY <1>2, <1>4 DEF IsPieceOf, ZFact
<1>6. elf_offset' = End(z)
  BY <1>1, <1>2 DEF ZFact
<1>7. ASSUME z # phnum PROVE self_offset' = in.sec[z + 1].offset
  <2>1. z + 1 \in 1..phnum /\ FileFields(in) /\ SegmentFacts
    <3>1. z \in 1..phnum /\ phnum \in Nat
      BY <1>2, ReadFacts DEF ZFact
    <3>2. z + 1 \in 1..phnum
      BY <1>7, <3>1
    <3> QED BY <3>2, ReadFacts
  <2>2. in.sec[z + 1].offset \in Word
    BY <2>1 DEF FileFields, SegmentFacts
  <2> QED BY <1>1, <1>2, <1>7, <2>2, WordFacts
<1>8. CompressedTurn(x, z)
  BY <1>z, <1>1, <1>2, <1>4, <1>5, <1>6, <1>7 DEF CompressedTurn
<1> QED BY <1>1, <1>2, <1>4, <1>8 DEF Turn

LEMMA GapTurns ==
    ASSUME RoundInv, upc # "idle", Gap
    PROVE  \E x : Turn(x)
<1>z. PICK z : z = s[ui + 1].idx
  OBVIOUS
<1>g. PICK gap : gap = (in.phdr[z].p_off - elf_offset) % W
  OBVIOUS
<1>x. PICK x : x = Piece(self_offset, gap, FALSE, gap, elf_offset)
  OBVIOUS
<1>1. /\ upc = "walk" /\ upc' = upc /\ elf_offset < in.filesize /\ UNCHANGED <<in, s, out>>
      /\ ui < Len(s) /\ ui' = ui /\ self_offset # s[ui + 1].offset
      /\ elf_offset' = (elf_offset + gap) % W /\ self_offset' = s[ui + 1].offset % W
      /\ self_sections' = Append(self_sections, x)
  BY <1>z, <1>g, <1>x DEF Gap, Walking, TakeGap, Take
<1>2. z \in Z /\ ZFact(z) /\ s[ui + 1].offset = in.sec[z].offset
  <2>1. ui + 1 \in 1..Len(s)
    BY <1>1, ReadFacts
  <2> QED BY <1>z, <2>1, NextSection
<1>3. elf_offset \in Word /\ elf_offset \in Nat /\ self_offset \in Word
  BY ReadFacts
<1>4. gap = (Begin(z) - elf_offset) % W /\ Begin(z) \in Word /\ Begin(z) \in Nat
      /\ Begin(z) % W = Begin(z) /\ in.sec[z].offset % W = in.sec[z].offset
  BY <1>g, <1>2, WordFacts DEF ZFact
<1>5. gap \in Word /\ (elf_offset + gap) % W = Begin(z)
  <2>1. Begin(z) - elf_offset \in Int /\ Begin(z) \in Int
    BY <1>3, <1>4
  <2> QED BY <1>3, <1>4, <2>1, WordFacts
<1>6. gap \in Nat
  BY <1>5, WordNat
<1>7. ASSUME elf_offset <= Begin(z) PROVE gap = Begin(z) - elf_offset
  <2>1. Begin(z) - elf_offset \in Nat /\ Begin(z) - elf_offset <= Begin(z)
    BY <1>3, <1>4, <1>7
  <2> QED BY <1>4, <2>1, BelowWord
<1>8. /\ x.compressed = FALSE /\ x.offset = self_offset /\ x.elf_offset = elf_offset
      /\ x.size = gap /\ x.size_uncompressed = gap /\ x \in Pieces
  BY <1>x, <1>3, <1>5 DEF Piece, Pieces, Word
<1>9. GapTurn(x, z)
  BY <1>z, <1>1, <1>2, <1>4, <1>5, <1>6, <1>7, <1>8 DEF GapTurn
<1> QED BY <1>1, <1>2, <1>8, <1>9 DEF Turn

-----------------------------------------------------------------------------
(* A turn of the walk keeps the invariant *)

LEMMA TurnAppends ==
    ASSUME RoundInv, upc # "idle", NEW x, Turn(x)
    PROVE  /\ self_sections' \in Seq(Pieces) /\ Len(self_sections) \in Nat
           /\ Len(self_sections') = Len(self_sections) + 1
           /\ self_sections'[Len(self_sections) + 1] = x
           /\ \A k \in 1..Len(self_sections) : self_sections'[k] = self_sections[k]
           /\ \A k \in 1..Len(self_sections') : k \in 1..Len(self_sections) \/ k = Len(self_sections) + 1
<1>1. self_sections \in Seq(Pieces) /\ Len(self_sections) \in Nat
  BY ReadFacts
<1>2. x \in Pieces /\ self_sections' = Append(self_sections, x)
  BY DEF Turn
<1>3. /\ self_sections' \in Seq(Pieces) /\ Len(self_sections') = Len(self_sections) + 1
      /\ self_sections'[Len(self_sections) + 1] = x
      /\ \A k \in 1..Len(self_sections) : self_sections'[k] = self_sections[k]
  BY <1>1, <1>2, AppendFacts
<1> QED BY <1>1, <1>3

\* Where a piece ends.
LEMMA PieceFacts ==
    ASSUME NEW x \in Pieces
    PROVE  /\ x.elf_offset \in Nat /\ x.size_uncompressed \in Nat /\ x.offset \in Nat
           /\ x.size \in Nat /\ x.compressed \in BOOLEAN
           /\ PieceStop(x) = x.elf_offset + x.size_uncompressed /\ PieceStop(x) \in Nat
BY WAssumption DEF Pieces, PieceStop

LEMMA TurnSourced ==
    ASSUME RoundInv, upc # "idle", NEW x, Turn(x)
    PROVE  Sourced'
<1>1. in' = in /\ Z' = Z
  BY SameFile DEF Turn
<1>2. Sourced
  BY ReadFacts DEF Unpacking
<1> DEFINE Good(y) == IF y.compressed THEN \E z \in Z : IsPieceOf(y, z) /\ y.size = in.sec[z].size
                      ELSE y.size = y.size_uncompressed
<1>3. Good(x)
  BY DEF Turn, RestTurn, CompressedTurn, GapTurn
<1>4. \A k \in 1..Len(self_sections) : Good(self_sections[k])
  BY <1>2 DEF Sourced
<1> HIDE DEF Good
<1>5. \A k \in 1..Len(self_sections') : Good(self_sections'[k])
  BY <1>3, <1>4, TurnAppends
<1> QED BY <1>1, <1>5 DEF Sourced, Good, IsPieceOf

LEMMA TurnReaches ==
    ASSUME RoundInv, upc # "idle", NEW x, Turn(x)
    PROVE  Reached'
<1>1. /\ upc' = "walk" /\ in' = in /\ x \in Pieces /\ elf_offset < in.filesize
      /\ elf_offset \in Nat /\ in.filesize \in Nat
  BY ReadFacts DEF Turn
<1>2. /\ Len(self_sections) + 1 \in 1..Len(self_sections')
      /\ self_sections'[Len(self_sections) + 1] = x
  BY TurnAppends
<1>3. ASSUME x.size_uncompressed > 0, in.filesize <= PieceStop(x)
      PROVE  LastPiece'
  BY <1>1, <1>2, <1>3 DEF LastPiece, PieceStop
<1>4. CASE RestTurn(x)
  <2>1. x.size_uncompressed > 0 /\ in.filesize <= PieceStop(x)
    BY <1>1, <1>4, PieceFacts DEF RestTurn
  <2> QED BY <1>1, <1>3, <2>1 DEF Reached
<1>5. ASSUME NEW z \in Z, ZFact(z), CompressedTurn(x, z)
      PROVE  Reached'
  <2>1. elf_offset' = End(z) /\ PieceStop(x) = End(z) /\ x.size_uncompressed > 0
    <3>1. /\ elf_offset' = End(z) /\ x.elf_offset = Begin(z)
          /\ x.size_uncompressed = elf.phdr[z].p_filesz
      BY <1>5 DEF CompressedTurn, IsPieceOf, ZFact
    <3>2. /\ End(z) = Begin(z) + elf.phdr[z].p_filesz /\ Begin(z) < End(z)
          /\ Begin(z) \in Nat /\ elf.phdr[z].p_filesz \in Nat
      BY <1>5 DEF ZFact
    <3>3. PieceStop(x) = x.elf_offset + x.size_uncompressed
      BY <1>1, PieceFacts
    <3> QED BY <3>1, <3>2, <3>3
  <2>2. End(z) \in Nat
    BY <1>5 DEF ZFact
  <2>3. CASE End(z) < in.filesize
    BY <1>1, <2>1, <2>3 DEF Reached
  <2>4. CASE ~(End(z) < in.filesize)
    <3>1. LastPiece'
      BY <1>1, <1>3, <2>1, <2>2, <2>4
    <3> QED BY <1>1, <3>1 DEF Reached
  <2> QED BY <2>3, <2>4
<1>6. ASSUME NEW z \in Z, ZFact(z), GapTurn(x, z)
      PROVE  Reached'
  BY <1>1, <1>6 DEF GapTurn, ZFact, Reached
<1> QED BY <1>4, <1>5, <1>6 DEF Turn

LEMMA TurnOnePiece ==
    ASSUME RoundInv, upc # "idle", NEW x, Turn(x), UNCHANGED vars
    PROVE  OnePiece'
<1> SUFFICES ASSUME ~compression PROVE OnePiece'
  BY DEF OnePiece, vars
<1>1. /\ upc = "walk" /\ upc' = "walk" /\ in' = in /\ x \in Pieces /\ elf_offset < in.filesize
      /\ elf_offset \in Nat /\ in.filesize \in Nat /\ OnePiece /\ Len(self_sections) \in Nat
  BY ReadFacts DEF Turn, Unpacking
<1>2. RestTurn(x)
  BY DEF Turn, ZFact
<1>3. Len(self_sections) = 0
  <2>1. Len(self_sections) > 0 => elf_offset = in.filesize
    BY <1>1 DEF OnePiece
  <2> QED BY <1>1, <2>1
<1>4. elf_offset = 0 /\ self_offset = HeaderSize
  BY <1>1, <1>3 DEF OnePiece
<1>5. /\ x.compressed = FALSE /\ x.offset = HeaderSize /\ x.elf_offset = 0
      /\ x.size = in.filesize /\ x.size_uncompressed = in.filesize
      /\ elf_offset' = in.filesize /\ self_offset' = self_offset
  BY <1>1, <1>2, <1>4 DEF RestTurn
<1>6. x = Piece(HeaderSize, in.filesize, FALSE, in.filesize, 0)
  BY <1>1, <1>5 DEF Pieces, Piece
<1>7. Len(self_sections') = 1 /\ self_sections'[1] = x
  BY <1>3, TurnAppends
<1> QED BY <1>1, <1>4, <1>5, <1>6, <1>7 DEF OnePiece, Piece

\* Segments that are in order in the ELF file are in the SELF, too.
LEMMA AscendFacts ==
    ASSUME RoundInv, upc # "idle", compression, LoadsAscend,
           NEW m \in Loads, NEW n \in Loads, m < n
    PROVE  /\ End(m) <= Begin(n)
           /\ phdr_map[m].offset + phdr_map[m].size <= phdr_map[n].offset
           /\ in.sec[m].offset = phdr_map[m].offset /\ in.sec[n].offset = phdr_map[n].offset
<1>1. m \in 1..phnum /\ n \in 1..phnum /\ Len(phdr_map) = phnum
  BY ReadFacts DEF Loads, phnum, PackInv, Finished, Mapped
<1>2. SegmentsApart /\ FileFields(in)
  BY ReadFacts DEF PackInv, IInv
<1> QED BY <1>1, <1>2 DEF SegmentsApart, LoadsAscend, FileFields

LEMMA AscendWellPlaced ==
    ASSUME RoundInv, upc # "idle", compression, LoadsAscend
    PROVE  WellPlaced
<1>1. ASSUME NEW n \in Z
      PROVE  in.phdr[n].p_filesz > 0 /\ in.phdr[n].p_off + in.phdr[n].p_filesz <= in.filesize
  <2>1. ZFact(n)
    BY ZFacts
  <2> QED BY <2>1 DEF ZFact
<1>2. ASSUME NEW m \in Z, NEW n \in Z, m # n
      PROVE  /\ in.sec[m].offset # in.sec[n].offset
             /\ in.sec[m].offset < in.sec[n].offset =>
                  in.phdr[m].p_off + in.phdr[m].p_filesz <= in.phdr[n].p_off
  <2>1. ZFact(m) /\ ZFact(n)
    BY ZFacts
  <2>2. m \in Nat /\ n \in Nat /\ m \in Loads /\ n \in Loads
    BY <2>1, ReadFacts DEF ZFact
  <2>3. CASE m < n
    <3>1. /\ End(m) <= Begin(n)
          /\ in.sec[m].offset + in.sec[m].size <= in.sec[n].offset
      BY <2>1, <2>2, <2>3, AscendFacts DEF ZFact
    <3>2. in.sec[m].offset \in Nat /\ in.sec[n].offset \in Nat
      BY <2>1, WordNat DEF ZFact
    <3> QED BY <2>1, <3>1, <3>2 DEF ZFact
  <2>4. CASE n < m
    <3>1. in.sec[n].offset + in.sec[n].size <= in.sec[m].offset
      BY <2>1, <2>2, <2>4, AscendFacts DEF ZFact
    <3>2. in.sec[m].offset \in Nat /\ in.sec[n].offset \in Nat
      BY <2>1, WordNat DEF ZFact
    <3> QED BY <2>1, <3>1, <3>2 DEF ZFact
  <2> QED BY <1>2, <2>2, <2>3, <2>4
<1>3. Narrow
  BY PackedIsNarrow
<1> QED BY <1>1, <1>2, <1>3 DEF WellPlaced, Z

\* A segment that is copied and continues what is before it.
LEMMA ContinuingFacts ==
    ASSUME RoundInv, upc # "idle", NEW n \in Continuing
    PROVE  /\ n \in 1..phnum /\ n \in Nat /\ n \in Loads /\ n \notin Z
           /\ elf.phdr[n].p_filesz \in Nat /\ elf.phdr[n].p_filesz > 0
           /\ Begin(n) \in Nat /\ End(n) = Begin(n) + elf.phdr[n].p_filesz
           /\ End(n) <= in.filesize /\ Begin(n) < in.filesize
           /\ in.sec[n].offset = phdr_map[n].offset /\ phdr_map[n].offset \in Nat
           /\ phdr_map[n].size = elf.phdr[n].p_filesz
           /\ n = 1 => Begin(n) = 0
           /\ n > 1 => n - 1 \in Z /\ Begin(n) = End(n - 1)
<1>1. /\ n \in Loads /\ Continues(n) /\ phdr_map[n].compressed = FALSE
      /\ elf.phdr[n].p_filesz > 0
  <2>1. n \in Loads /\ Continues(n) /\ ~phdr_map[n].compressed /\ elf.phdr[n].p_filesz > 0
    BY DEF Continuing
  <2>2. n \in 1..phnum
    BY <2>1 DEF Loads, phnum
  <2>3. phdr_map[n].compressed \in BOOLEAN
    BY <2>2, ReadFacts DEF SegmentFacts
  <2> QED BY <2>1, <2>3
<1>2. n \in 1..phnum /\ n \in Nat /\ phnum \in Nat /\ FileFields(in) /\ e_phnum = phnum
  <2>1. n \in 1..phnum
    BY <1>1 DEF Loads, phnum
  <2> QED BY <2>1, ReadFacts
<1>3. /\ elf.phdr[n].p_filesz \in Nat
      /\ Begin(n) \in Nat /\ End(n) = Begin(n) + elf.phdr[n].p_filesz
      /\ End(n) <= elf.size /\ phdr_map[n].offset \in Nat /\ EntryOf(n, phdr_map[n])
  BY <1>2, ReadFacts, WordNat DEF SegmentFacts
<1>4. in.sec[n].offset = phdr_map[n].offset /\ in.sec[n].compressed = phdr_map[n].compressed
  BY <1>2 DEF FileFields
<1>5. phdr_map[n].size = elf.phdr[n].p_filesz
  BY <1>1, <1>3 DEF EntryOf
<1>6. n \notin Z
  BY <1>1, <1>4 DEF Z
<1>7. End(n) <= in.filesize /\ Begin(n) < in.filesize
  <2>1. in.filesize \in Nat /\ elf.size \in Nat /\ elf.size <= in.filesize
    BY ReadFacts
  <2> QED BY <1>1, <1>3, <2>1
<1>8. ASSUME n > 1 PROVE n - 1 \in Z /\ Begin(n) = End(n - 1)
  <2>1. phdr_map[n - 1].compressed /\ Begin(n) = End(n - 1)
    BY <1>1, <1>8 DEF Continues
  <2>2. n - 1 \in 1..phnum
    BY <1>2, <1>8
  <2>3. in.sec[n - 1].compressed = phdr_map[n - 1].compressed
    BY <1>2, <2>2 DEF FileFields
  <2> QED BY <1>2, <2>1, <2>2, <2>3 DEF Z
<1>9. n = 1 => Begin(n) = 0
  BY <1>1 DEF Continues
<1> QED BY <1>1, <1>2, <1>3, <1>4, <1>5, <1>6, <1>7, <1>8, <1>9

\* A piece that is there stays there.
LEMMA CameStays ==
    ASSUME RoundInv, upc # "idle", NEW x, Turn(x), UNCHANGED vars, NEW n, Came(n)
    PROVE  Came(n)'
<1>1. in' = in /\ elf' = elf
  BY DEF Turn, vars
<1>2. PICK k \in 1..Len(self_sections) :
              /\ ~self_sections[k].compressed
              /\ self_sections[k].elf_offset = Begin(n)
              /\ self_sections[k].offset = in.sec[n].offset
              /\ self_sections[k].size_uncompressed >= elf.phdr[n].p_filesz
  BY DEF Came
<1>3. k \in 1..Len(self_sections') /\ self_sections'[k] = self_sections[k]
  BY <1>2, TurnAppends
<1> QED BY <1>1, <1>2, <1>3 DEF Came, Begin

\* A copied piece that starts at the segment and is long enough.
LEMMA ComesNow ==
    ASSUME RoundInv, upc # "idle", NEW x, Turn(x), UNCHANGED vars, NEW n,
           ~x.compressed, x.elf_offset = Begin(n), x.offset = in.sec[n].offset,
           x.size_uncompressed >= elf.phdr[n].p_filesz
    PROVE  Came(n)'
<1>1. in' = in /\ elf' = elf
  BY DEF Turn, vars
<1>2. /\ Len(self_sections) + 1 \in 1..Len(self_sections')
      /\ self_sections'[Len(self_sections) + 1] = x
  BY TurnAppends
<1> QED BY <1>1, <1>2 DEF Came, Begin

LEMMA TurnContinues ==
    ASSUME RoundInv, upc # "idle", NEW x, Turn(x), UNCHANGED vars
    PROVE  Continued'
<1>1. /\ UNCHANGED <<elf, compression, phdr_map>> /\ UNCHANGED <<in, s>>
      /\ upc = "walk" /\ upc' = "walk" /\ elf_offset < in.filesize
      /\ ui \in Nat /\ Len(s) \in Nat /\ elf_offset \in Nat /\ in.filesize \in Nat /\ phnum \in Nat
      /\ Listed /\ Ascending
  <2>1. upc = "walk" /\ Listed /\ (Sorted => Ascending)
    BY ReadFacts DEF Turn, Unpacking, OnceInv
  <2>2. Sorted
    BY <2>1 DEF Sorted
  <2> QED BY <2>1, <2>2, ReadFacts DEF vars, Turn
<1>2. Continuing' = Continuing /\ LoadsAscend' = LoadsAscend
  BY <1>1 DEF Continuing, Loads, Continues, Begin, End, LoadsAscend
<1>3. SUFFICES ASSUME compression, LoadsAscend, NEW n \in Continuing
               PROVE  (Coming(n) \/ Here(n) \/ Came(n))'
  BY <1>1, <1>2 DEF Continued
<1>4. Coming(n) \/ Here(n) \/ Came(n)
  BY <1>1, <1>3, ReadFacts DEF Unpacking, Continued
<1>5. /\ n \in 1..phnum /\ n \in Nat /\ n \in Loads /\ n \notin Z
      /\ elf.phdr[n].p_filesz \in Nat /\ elf.phdr[n].p_filesz > 0
      /\ Begin(n) \in Nat /\ End(n) = Begin(n) + elf.phdr[n].p_filesz
      /\ End(n) <= in.filesize /\ Begin(n) < in.filesize
      /\ in.sec[n].offset = phdr_map[n].offset /\ phdr_map[n].offset \in Nat
      /\ phdr_map[n].size = elf.phdr[n].p_filesz
      /\ n > 1 => n - 1 \in Z /\ Begin(n) = End(n - 1)
  BY ContinuingFacts
<1>6. CASE Came(n)
  BY <1>6, CameStays
<1>7. CASE RestTurn(x)
  <2>1. ~Coming(n)
    BY <1>1, <1>7 DEF Coming, RestTurn
  <2>2. CASE Here(n)
    <3>1. ~x.compressed /\ x.elf_offset = Begin(n) /\ x.offset = in.sec[n].offset
      BY <1>7, <2>2 DEF Here, RestTurn
    <3>2. x.size_uncompressed >= elf.phdr[n].p_filesz
      BY <1>1, <1>5, <1>7, <2>2 DEF Here, RestTurn
    <3> QED BY <3>1, <3>2, ComesNow
  <2> QED BY <1>4, <1>6, <2>1, <2>2
<1>8. ASSUME NEW z \in Z, ZFact(z), CompressedTurn(x, z)
      PROVE  (Coming(n) \/ Here(n) \/ Came(n))'
  <2>1. /\ ui < Len(s) /\ z = s[ui + 1].idx /\ ui + 1 \in 1..Len(s) /\ ui' = ui + 1
        /\ self_offset = in.sec[z].offset /\ elf_offset' = End(z)
        /\ z # phnum => self_offset' = in.sec[z + 1].offset
    BY <1>1, <1>8 DEF CompressedTurn
  <2>2. /\ z \in 1..phnum /\ z \in Loads /\ in.sec[z].offset = phdr_map[z].offset
        /\ in.sec[z].offset \in Nat
    BY <1>8, WordNat DEF ZFact
  <2>3. ~Here(n)
    <3> SUFFICES ASSUME Here(n) PROVE FALSE
      OBVIOUS
    <3>1. z > n
      BY <1>1, <2>1 DEF Here
    <3>2. phdr_map[n].offset + phdr_map[n].size <= phdr_map[z].offset
      BY <1>3, <1>5, <2>2, <3>1, AscendFacts
    <3>3. phdr_map[n].offset = phdr_map[z].offset
      BY <1>5, <2>1, <2>2 DEF Here
    <3> QED BY <1>5, <3>2, <3>3
  <2>4. CASE Coming(n)
    <3>1. PICK k \in 1..Len(s) : k > ui /\ s[k].idx = n - 1
      BY <2>4 DEF Coming
    <3>2. n > 1
      BY <2>4 DEF Coming
    <3>3. CASE k # ui + 1
      <4>1. k > ui + 1
        BY <1>1, <3>1, <3>3
      <4> QED BY <1>1, <2>1, <3>1, <3>2, <4>1 DEF Coming
    <3>4. CASE k = ui + 1
      <4>1. z = n - 1 /\ z # phnum /\ z + 1 = n
        <5>1. z = n - 1
          BY <2>1, <3>1, <3>4
        <5>2. n \in 1..phnum /\ phnum \in Nat
          BY <1>1, <1>5
        <5> QED BY <3>2, <5>1, <5>2
      <4>2. elf_offset' = Begin(n) /\ self_offset' = in.sec[n].offset
        BY <1>5, <2>1, <3>2, <4>1
      <4>3. ASSUME NEW j \in 1..Len(s), j > ui + 1
            PROVE  s[j].idx > n
        <5>1. /\ s[j].idx \in Z /\ ZFact(s[j].idx) /\ s[j].offset = in.sec[s[j].idx].offset
              /\ s[ui + 1].offset = in.sec[z].offset
          BY <2>1, NextSection
        <5> DEFINE y == s[j].idx
        <5>2. y # z /\ y # n
          BY <1>1, <1>5, <2>1, <4>3, <5>1 DEF Listed, Sorted
        <5>3. s[ui + 1].offset <= s[j].offset
          BY <1>1, <2>1, <4>3 DEF Ascending
        <5>4. /\ y \in 1..phnum /\ y \in Loads /\ in.sec[y].offset = phdr_map[y].offset
              /\ in.sec[y].offset \in Nat /\ in.sec[y].size = phdr_map[y].size
              /\ in.sec[y].size \in Nat /\ in.sec[y].size > 0
          BY <5>1, WordNat DEF ZFact
        <5>5. in.sec[z].offset <= in.sec[y].offset
          BY <5>1, <5>3
        <5> HIDE DEF y
        <5>6. ASSUME y < z PROVE FALSE
          <6>1. phdr_map[y].offset + phdr_map[y].size <= phdr_map[z].offset
            BY <1>3, <2>2, <5>4, <5>6, AscendFacts
          <6> QED BY <2>2, <5>4, <5>5, <6>1
        <5>7. y > n
          <6>1. y \in Nat /\ z \in Nat /\ n \in Nat /\ z + 1 = n
            BY <1>1, <1>5, <2>2, <4>1, <5>4
          <6> QED BY <5>2, <5>6, <6>1
        <5> QED BY <5>7 DEF y
      <4>4. Here(n)'
        BY <1>1, <2>1, <4>2, <4>3 DEF Here, Begin
      <4> QED BY <4>4
    <3> QED BY <3>3, <3>4
  <2> QED BY <1>4, <1>6, <2>3, <2>4
<1>9. ASSUME NEW z \in Z, ZFact(z), GapTurn(x, z)
      PROVE  (Coming(n) \/ Here(n) \/ Came(n))'
  <2>1. ui < Len(s) /\ z = s[ui + 1].idx /\ ui + 1 \in 1..Len(s) /\ ui' = ui
    BY <1>1, <1>9 DEF GapTurn
  <2>2. CASE Coming(n)
    BY <1>1, <2>1, <2>2 DEF Coming
  <2>3. CASE Here(n)
    <3>1. z > n
      BY <1>1, <2>1, <2>3 DEF Here
    <3>2. z \in Loads /\ Begin(z) \in Nat /\ z \in 1..phnum
      BY <1>9 DEF ZFact
    <3>3. End(n) <= Begin(z)
      BY <1>3, <1>5, <3>1, <3>2, AscendFacts
    <3>4. ~x.compressed /\ x.elf_offset = Begin(n) /\ x.offset = in.sec[n].offset
      BY <1>9, <2>3 DEF Here, GapTurn
    <3>5. elf_offset <= Begin(z) /\ elf_offset = Begin(n)
      BY <1>5, <2>3, <3>2, <3>3 DEF Here
    <3>6. x.size_uncompressed = Begin(z) - Begin(n)
      BY <1>9, <3>5 DEF GapTurn
    <3>7. x.size_uncompressed >= elf.phdr[n].p_filesz
      BY <1>5, <3>2, <3>3, <3>6
    <3> QED BY <3>4, <3>7, ComesNow
  <2> QED BY <1>4, <1>6, <2>2, <2>3
<1> QED BY <1>7, <1>8, <1>9 DEF Turn

-----------------------------------------------------------------------------
(* The steps before and behind the walk *)

\* Nothing is said of what comes out before it is out.
LEMMA NotYetOut ==
    ASSUME upc' \notin {"overrun", "done", "failed"}
    PROVE  PlainRoundTrip' /\ SegmentsRecovered' /\ RepairedReadable'
BY DEF PlainRoundTrip, SegmentsRecovered, RepairedReadable, Repaired

LEMMA ReadHeaderKeeps ==
    ASSUME RoundInv, upc # "idle", ReadHeader, UNCHANGED vars
    PROVE  Unpacking'
<1>1. /\ upc = "headers" /\ upc' = "headers" /\ ui < e_phnum
      /\ UNCHANGED <<in, elf_offset, self_offset, self_sections, out>>
      /\ s' = IF in.sec[ui + 1].compressed THEN Append(s, read_section(ui + 1)) ELSE s
  BY DEF ReadHeader
<1>2. Unpacking /\ OnceInv' /\ compression' = compression /\ s \in Seq(SelfSec)
  BY NextOnceInv, ReadFacts DEF Unpacking, UNext, vars
<1>3. \A r : read_section(r)' = read_section(r)
  BY <1>1 DEF read_section, e_phnum
<1>4. AsRead'
  <2>1. CASE ~in.sec[ui + 1].compressed
    BY <1>1, <1>2, <1>3, <2>1 DEF Unpacking, AsRead
  <2>2. CASE in.sec[ui + 1].compressed
    <3> DEFINE r == read_section(ui + 1)
    <3>1. s' = Append(s, r) /\ r.idx = ui + 1
      BY <1>1, <2>2 DEF read_section
    <3>2. r = read_section(r.idx)
      BY <3>1
    <3> HIDE DEF r
    <3>3. /\ Len(s) \in Nat /\ Len(s') = Len(s) + 1 /\ s'[Len(s) + 1] = r
          /\ \A n \in 1..Len(s) : s'[n] = s[n]
      BY <1>2, <3>1
    <3>4. ASSUME NEW n \in 1..Len(s') PROVE s'[n] = read_section(s'[n].idx)
      <4>1. CASE n = Len(s) + 1
        BY <3>2, <3>3, <4>1
      <4>2. CASE n # Len(s) + 1
        <5>1. n \in 1..Len(s) /\ s'[n] = s[n]
          BY <3>3, <3>4, <4>2
        <5> QED BY <1>2, <5>1 DEF Unpacking, AsRead
      <4> QED BY <4>1, <4>2
    <3> QED BY <1>3, <3>4 DEF AsRead
  <2> QED BY <2>1, <2>2
<1>5. Sourced'
  BY <1>1, <1>2, SameFile DEF Unpacking, Sourced, IsPieceOf
<1>6. Reached' /\ Extent'
  BY <1>1, <1>2 DEF Unpacking, Reached, Extent
<1>7. OnePiece'
  BY <1>1, <1>2 DEF Unpacking, OnePiece
<1>8. PiecesHeld' /\ Continued'
  BY <1>1 DEF PiecesHeld, Continued
<1> QED BY <1>1, <1>2, <1>4, <1>5, <1>6, <1>7, <1>8, NotYetOut DEF Unpacking

\* The walk begins where the first segment is.
LEMMA SortContinues ==
    ASSUME RoundInv, upc # "idle", Sort, UNCHANGED vars
    PROVE  Continued'
<1>1. /\ upc = "headers" /\ upc' = "walk" /\ ui' = 0 /\ self_offset' = in.header_len % W
      /\ UNCHANGED <<in, elf_offset>> /\ UNCHANGED <<elf, compression, phdr_map>>
  BY DEF Sort, vars
<1>2. elf_offset = 0 /\ self_offset' = HeaderSize
  BY <1>1, ReadFacts DEF Unpacking, Reached
<1>3. Continuing' = Continuing /\ LoadsAscend' = LoadsAscend
  BY <1>1 DEF Continuing, Loads, Continues, Begin, End, LoadsAscend
<1>4. SUFFICES ASSUME compression, NEW n \in Continuing
               PROVE  (Coming(n) \/ Here(n))'
  BY <1>1, <1>3 DEF Continued
<1>5. /\ n \in 1..phnum /\ n \in Nat /\ n \notin Z
      /\ in.sec[n].offset = phdr_map[n].offset
      /\ n = 1 => Begin(n) = 0
      /\ n > 1 => n - 1 \in Z
  BY ContinuingFacts
<1>6. Listed' /\ Z' = Z
  BY <1>1, NextOnceInv, ReadFacts, SameFile DEF Unpacking, OnceInv, UNext
<1>7. Len(s') \in Nat
  <2>1. WalkInv'
    BY NextWalkInv, ReadFacts DEF UNext
  <2> QED BY <2>1 DEF WalkInv
<1>8. CASE n = 1
  <2>1. phdr_map[1].offset = HeaderSize
    <3>1. Len(phdr_map) = phnum /\ phnum \in Nat /\ FirstBehindHeader
      BY ReadFacts DEF PackInv, Finished, Mapped
    <3> QED BY <1>4, <1>5, <1>8, <3>1 DEF FirstBehindHeader
  <2>2. ASSUME NEW k \in 1..Len(s') PROVE s'[k].idx > n
    <3>1. s'[k].idx \in Z
      BY <1>6 DEF Listed, Sorted
    <3>2. s'[k].idx \in 1..phnum /\ s'[k].idx # 1
      BY <1>5, <1>8, <3>1, ReadFacts DEF Z
    <3> QED BY <1>8, <3>2, ReadFacts
  <2>3. Here(n)'
    <3>1. elf_offset' = Begin(n)' /\ self_offset' = in'.sec[n].offset
      BY <1>1, <1>2, <1>5, <1>8, <2>1 DEF Begin
    <3> QED BY <2>2, <3>1 DEF Here
  <2> QED BY <2>3
<1>9. CASE n > 1
  <2>1. n - 1 \in Z'
    BY <1>5, <1>6, <1>9
  <2>2. Sorted'
    BY <1>1 DEF Sorted
  <2>3. PICK k \in 1..Len(s') : s'[k].idx = n - 1
    BY <1>6, <2>1, <2>2 DEF Listed
  <2>4. k > ui'
    BY <1>1, <1>7, <2>3
  <2> QED BY <1>9, <2>3, <2>4 DEF Coming
<1> QED BY <1>5, <1>8, <1>9

LEMMA SortKeepsAll ==
    ASSUME RoundInv, upc # "idle", Sort, UNCHANGED vars
    PROVE  Unpacking'
<1>1. /\ upc = "headers" /\ upc' = "walk" /\ ui' = 0 /\ self_offset' = in.header_len % W
      /\ UNCHANGED <<in, elf_offset, self_sections, out>> /\ s' \in SortedOrders(s)
  BY DEF Sort
<1>2. Unpacking /\ OnceInv' /\ compression' = compression /\ s \in Seq(SelfSec)
      /\ self_sections = <<>>
  <2>1. self_sections = <<>>
    BY <1>1, ReadFacts DEF WalkInv
  <2> QED BY <2>1, NextOnceInv, ReadFacts DEF Unpacking, UNext, vars
<1>3. \A r : read_section(r)' = read_section(r)
  BY <1>1 DEF read_section, e_phnum
<1>4. AsRead'
  <2>1. PICK f \in Bijection(1..Len(s), 1..Len(s)) : s' = [n \in 1..Len(s) |-> s[f[n]]]
    BY <1>1 DEF SortedOrders
  <2>2. f \in [1..Len(s) -> 1..Len(s)]
    BY DEF Bijection, Injection
  <2>3. Len(s') = Len(s)
    BY <1>1, <1>2, SortKeeps
  <2>4. ASSUME NEW n \in 1..Len(s') PROVE s'[n] = read_section(s'[n].idx)
    <3>1. f[n] \in 1..Len(s) /\ s'[n] = s[f[n]]
      BY <2>1, <2>2, <2>3, <2>4
    <3>2. s[f[n]] = read_section(s[f[n]].idx)
      BY <1>2, <3>1 DEF Unpacking, AsRead
    <3> QED BY <3>1, <3>2
  <2> QED BY <1>3, <2>4 DEF AsRead
<1>5. Sourced'
  BY <1>1, <1>2, SameFile DEF Unpacking, Sourced, IsPieceOf
<1>6. elf_offset = 0 /\ self_offset' = HeaderSize /\ in.filesize > 0
  BY <1>1, ReadFacts DEF Unpacking, Reached
<1>7. Reached' /\ Extent'
  BY <1>1, <1>2, <1>6 DEF Unpacking, Reached, Extent
<1>8. OnePiece'
  BY <1>1, <1>2, <1>6 DEF OnePiece
<1>9. PiecesHeld' /\ Continued'
  BY <1>1, SortContinues DEF PiecesHeld
<1> QED BY <1>1, <1>2, <1>4, <1>5, <1>7, <1>8, <1>9, NotYetOut DEF Unpacking

LEMMA TurnKeeps ==
    ASSUME RoundInv, upc # "idle", NEW x, Turn(x), UNCHANGED vars, OnceInv'
    PROVE  Unpacking'
<1>1. upc = "walk" /\ upc' = "walk" /\ UNCHANGED <<in, s, out>> /\ Unpacking
  BY ReadFacts DEF Turn
<1>2. AsRead'
  BY <1>1 DEF Unpacking, AsRead, read_section, e_phnum
<1>3. Extent' /\ PiecesHeld'
  BY <1>1 DEF Unpacking, Extent, PiecesHeld
<1> QED BY <1>1, <1>2, <1>3, TurnSourced, TurnReaches, TurnOnePiece, TurnContinues, NotYetOut
        DEF Unpacking

\* The walk does not end before it has passed a segment.
LEMMA WalkEndContinues ==
    ASSUME RoundInv, upc # "idle", WalkEnd, UNCHANGED vars
    PROVE  Continued'
<1>1. /\ upc = "walk" /\ upc' = "write" /\ elf_offset >= in.filesize
      /\ UNCHANGED <<in, s, self_sections>> /\ UNCHANGED <<elf, compression, phdr_map>>
      /\ elf_offset \in Nat /\ in.filesize \in Nat /\ ui \in Nat
  BY ReadFacts DEF WalkEnd, vars
<1>2. Continuing' = Continuing /\ LoadsAscend' = LoadsAscend
  BY <1>1 DEF Continuing, Loads, Continues, Begin, End, LoadsAscend
<1>3. SUFFICES ASSUME compression, LoadsAscend, NEW n \in Continuing
               PROVE  Came(n)'
  BY <1>1, <1>2 DEF Continued
<1>4. Coming(n) \/ Here(n) \/ Came(n)
  BY <1>1, <1>3, ReadFacts DEF Unpacking, Continued
<1>5. ~Here(n)
  <2>1. Begin(n) \in Nat /\ Begin(n) < in.filesize
    BY ContinuingFacts
  <2> QED BY <1>1, <2>1 DEF Here
<1>6. ~Coming(n)
  <2> SUFFICES ASSUME Coming(n) PROVE FALSE
    OBVIOUS
  <2>1. PICK k \in 1..Len(s) : k > ui
    BY DEF Coming
  <2>2. elf_offset <= SegmentStart(s[k].idx)
    BY <1>1, <1>3, <2>1, AscendWellPlaced, ReadFacts DEF Unpacking, OnceInv, PiecesPlaced
  <2>3. ZFact(s[k].idx)
    BY NextSection
  <2>4. SegmentStart(s[k].idx) \in Nat /\ SegmentStart(s[k].idx) < in.filesize
    BY <2>3 DEF ZFact
  <2> QED BY <1>1, <2>2, <2>4
<1>7. Came(n)
  BY <1>4, <1>5, <1>6
<1> QED BY <1>1, <1>7 DEF Came, Begin

LEMMA WalkEndKeeps ==
    ASSUME RoundInv, upc # "idle", WalkEnd, UNCHANGED vars
    PROVE  Unpacking'
<1>1. /\ upc = "walk" /\ upc' = "write" /\ ui' = 0 /\ elf_offset >= in.filesize
      /\ UNCHANGED <<in, s, elf_offset, self_offset, self_sections, out>>
      /\ elf_offset \in Nat /\ in.filesize \in Nat /\ in.filesize > 0
      /\ Len(self_sections) \in Nat
  BY ReadFacts DEF WalkEnd
<1>2. Unpacking /\ OnceInv' /\ compression' = compression
  BY NextOnceInv, ReadFacts DEF Unpacking, UNext, vars
<1>3. AsRead'
  BY <1>1, <1>2 DEF Unpacking, AsRead, read_section, e_phnum
<1>4. Sourced'
  BY <1>1, <1>2, SameFile DEF Unpacking, Sourced, IsPieceOf
<1>5. LastPiece
  BY <1>1, <1>2 DEF Unpacking, Reached
<1>6. Reached'
  BY <1>1, <1>5 DEF Reached, LastPiece, PieceStop
<1>7. out = <<>>
  BY <1>1, <1>2 DEF Unpacking, Extent
<1>8. Extent'
  BY <1>1, <1>7 DEF Extent
<1>9. ASSUME ~compression PROVE Len(self_sections) = 1
  <2>1. Len(self_sections) = 0 => elf_offset = 0
    BY <1>1, <1>2, <1>9 DEF Unpacking, OnePiece
  <2>2. Len(self_sections) > 0 => Len(self_sections) = 1
    BY <1>2, <1>9 DEF Unpacking, OnePiece
  <2> QED BY <1>1, <2>1, <2>2
<1>10. OnePiece'
  BY <1>1, <1>2, <1>7, <1>9 DEF Unpacking, OnePiece, Piece
<1>11. PiecesHeld'
  BY <1>1 DEF PiecesHeld
<1> QED BY <1>1, <1>2, <1>3, <1>4, <1>6, <1>8, <1>10, <1>11, WalkEndContinues, NotYetOut
        DEF Unpacking

-----------------------------------------------------------------------------
(* write_elf() *)

\* What the parts of a concatenation are.
LEMMA ConcatFacts ==
    ASSUME NEW S, NEW u \in Seq(S), NEW v \in Seq(S)
    PROVE  /\ u \o v \in Seq(S) /\ Len(u \o v) = Len(u) + Len(v)
           /\ \A a \in 1..Len(u) : (u \o v)[a] = u[a]
           /\ \A b \in 1..Len(v) : (u \o v)[Len(u) + b] = v[b]
OBVIOUS

\* A hole of a file.
LEMMA Padding ==
    ASSUME NEW S, Zero \in S, NEW n \in Int
    PROVE  /\ [x \in 1..n |-> Zero] \in Seq(S)
           /\ Len([x \in 1..n |-> Zero]) = IF n > 0 THEN n ELSE 0
<1>1. CASE n > 0
  <2> DEFINE zeros == [x \in 1..n |-> Zero]
  <2>1. n \in Nat /\ zeros \in [1..n -> S]
    BY <1>1
  <2> HIDE DEF zeros
  <2>2. zeros \in Seq(S) /\ Len(zeros) = n
    BY <2>1, FunctionIsSeq
  <2> QED BY <1>1, <2>2 DEF zeros
<1>2. CASE ~(n > 0)
  <2>1. 1..n = {}
    BY <1>2
  <2>2. [x \in 1..n |-> Zero] = <<>>
    BY <2>1
  <2>3. <<>> \in Seq(S) /\ Len(<<>>) = 0
    OBVIOUS
  <2>4. (IF n > 0 THEN n ELSE 0) = 0
    BY <1>2
  <2> QED BY <2>2, <2>3, <2>4, Zenon
<1> QED BY <1>1, <1>2

\* What fwrite() after fseek() does to a file, which it may extend.
LEMMA WriteExtends ==
    ASSUME NEW S, Zero \in S, NEW mem \in Seq(S), NEW bytes \in Seq(S), NEW at \in Nat,
           bytes # <<>>
    PROVE  /\ Write(mem, at, bytes) \in Seq(S)
           /\ Len(Write(mem, at, bytes)) =
                IF at + Len(bytes) > Len(mem) THEN at + Len(bytes) ELSE Len(mem)
           /\ \A a \in 1..Len(mem) : a <= at \/ a > at + Len(bytes) =>
                Write(mem, at, bytes)[a] = mem[a]
           /\ \A b \in 1..Len(bytes) : Write(mem, at, bytes)[at + b] = bytes[b]
<1> DEFINE zeros == [x \in 1..(at - Len(mem)) |-> Zero]
           filled == mem \o zeros
           front == SubSeq(filled, 1, at)
           back == SubSeq(mem, at + Len(bytes) + 1, Len(mem))
<1>1. Len(mem) \in Nat /\ Len(bytes) \in Nat
  OBVIOUS
<1>2. zeros \in Seq(S) /\ Len(zeros) = IF at > Len(mem) THEN at - Len(mem) ELSE 0
  <2>1. at - Len(mem) \in Int
    BY <1>1
  <2> DEFINE n == at - Len(mem)
  <2> HIDE DEF n
  <2>2. [x \in 1..n |-> Zero] \in Seq(S) /\ Len([x \in 1..n |-> Zero]) = IF n > 0 THEN n ELSE 0
    BY <2>1, Padding DEF n
  <2>3. at > Len(mem) <=> n > 0
    BY <1>1 DEF n
  <2> QED BY <2>2, <2>3 DEF n
<1> HIDE DEF zeros
<1>3. /\ filled \in Seq(S) /\ Len(filled) = Len(mem) + Len(zeros) /\ Len(filled) >= at
      /\ \A a \in 1..Len(mem) : filled[a] = mem[a]
  <2>1. /\ filled \in Seq(S) /\ Len(filled) = Len(mem) + Len(zeros)
        /\ \A a \in 1..Len(mem) : filled[a] = mem[a]
    BY <1>2, ConcatFacts
  <2>2. Len(mem) + Len(zeros) >= at
    BY <1>1, <1>2
  <2> QED BY <2>1, <2>2
<1> HIDE DEF filled
<1>4. front \in Seq(S) /\ Len(front) = at /\ \A a \in 1..at : front[a] = filled[a]
  BY <1>1, <1>3
<1>5. /\ back \in Seq(S)
      /\ Len(back) = IF at + Len(bytes) < Len(mem) THEN Len(mem) - (at + Len(bytes)) ELSE 0
      /\ \A a \in 1..Len(back) : back[a] = mem[(at + Len(bytes)) + a]
  BY <1>1
<1>6. Write(mem, at, bytes) = front \o bytes \o back
  BY DEF Write, front, back, filled, zeros
<1>f. PICK first : first = front
  OBVIOUS
<1>b. PICK last : last = back
  OBVIOUS
<1> HIDE DEF front, back
<1>7. /\ first \o bytes \in Seq(S) /\ Len(first \o bytes) = Len(first) + Len(bytes)
      /\ \A a \in 1..Len(first) : (first \o bytes)[a] = first[a]
      /\ \A b \in 1..Len(bytes) : (first \o bytes)[Len(first) + b] = bytes[b]
  <2>1. first \in Seq(S)
    BY <1>4, <1>f
  <2> QED BY <2>1, ConcatFacts
<1>t. PICK start : start = first \o bytes
  OBVIOUS
<1>s. /\ start \in Seq(S) /\ Len(start) = at + Len(bytes)
      /\ \A a \in 1..at : start[a] = filled[a]
      /\ \A b \in 1..Len(bytes) : start[at + b] = bytes[b]
  BY <1>4, <1>7, <1>f, <1>t
<1>8. /\ start \o last \in Seq(S) /\ Len(start \o last) = Len(start) + Len(last)
      /\ \A a \in 1..Len(start) : (start \o last)[a] = start[a]
      /\ \A c \in 1..Len(last) : (start \o last)[Len(start) + c] = last[c]
  <2>1. start \in Seq(S) /\ last \in Seq(S)
    BY <1>5, <1>b, <1>s
  <2> QED BY <2>1, ConcatFacts
<1>w. PICK whole : whole = start \o last
  OBVIOUS
<1>9. Write(mem, at, bytes) = whole
  BY <1>6, <1>f, <1>b, <1>t, <1>w
<1>v. /\ whole \in Seq(S) /\ Len(whole) = (at + Len(bytes)) + Len(back)
      /\ \A a \in 1..(at + Len(bytes)) : whole[a] = start[a]
      /\ \A c \in 1..Len(back) : whole[(at + Len(bytes)) + c] = back[c]
  BY <1>8, <1>b, <1>s, <1>w
<1>10. Len(back) \in Nat
  BY <1>5
<1>11. Len(whole) = IF at + Len(bytes) > Len(mem) THEN at + Len(bytes) ELSE Len(mem)
  <2>1. CASE at + Len(bytes) < Len(mem)
    <3>1. Len(back) = Len(mem) - (at + Len(bytes))
      BY <1>5, <2>1
    <3> QED BY <1>1, <1>v, <2>1, <3>1
  <2>2. CASE ~(at + Len(bytes) < Len(mem))
    <3>1. Len(back) = 0
      BY <1>5, <2>2
    <3> QED BY <1>1, <1>v, <2>2, <3>1
  <2> QED BY <2>1, <2>2
<1>12. ASSUME NEW a \in 1..Len(mem), a <= at \/ a > at + Len(bytes)
       PROVE  whole[a] = mem[a]
  <2>1. CASE a <= at
    <3>1. a \in 1..at /\ a \in 1..(at + Len(bytes))
      BY <1>1, <2>1
    <3> QED BY <1>3, <1>s, <1>v, <3>1
  <2>2. CASE a > at + Len(bytes)
    <3> DEFINE c == a - (at + Len(bytes))
    <3>1. at + Len(bytes) < Len(mem)
      BY <1>1, <1>12, <2>2
    <3>2. Len(back) = Len(mem) - (at + Len(bytes))
      BY <1>5, <3>1
    <3>3. c \in 1..Len(back) /\ (at + Len(bytes)) + c = a
      BY <1>1, <2>2, <3>2
    <3> HIDE DEF c
    <3>4. back[c] = mem[(at + Len(bytes)) + c]
      BY <1>5, <3>3
    <3>5. whole[(at + Len(bytes)) + c] = back[c]
      BY <1>v, <3>3
    <3> QED BY <3>3, <3>4, <3>5
  <2> QED BY <1>12, <2>1, <2>2
<1>13. ASSUME NEW b \in 1..Len(bytes)
       PROVE  whole[at + b] = bytes[b]
  <2>1. at + b \in 1..(at + Len(bytes))
    BY <1>1
  <2> QED BY <1>s, <1>v, <2>1
<1> QED BY <1>9, <1>11, <1>12, <1>13, <1>v

\* Reading gives bytes.
LEMMA PeekType ==
    ASSUME NEW mem \in Seq(Bytes), NEW a \in Int
    PROVE  Peek(mem, a) \in Bytes
<1>1. CASE a \in 0..(Len(mem) - 1)
  <2>1. a + 1 \in 1..Len(mem)
    BY <1>1
  <2> QED BY <1>1, <2>1, ElementOf DEF Peek
<1>2. CASE a \notin 0..(Len(mem) - 1)
  BY <1>2 DEF Peek, Bytes
<1> QED BY <1>1, <1>2

\* What is read for a piece.
LEMMA ContentFacts ==
    ASSUME RoundInv, upc # "idle", NEW x \in Pieces, piece = x
    PROVE  /\ Content \in Seq(Bytes) /\ Len(Content) = x.size
           /\ \A b \in 1..x.size : Content[b] = Peek(file, x.offset + b - 1)
<1>1. x.size \in Nat /\ x.offset \in Nat /\ in.bytes = file /\ file \in Seq(Bytes)
  BY PieceFacts, ReadFacts
<1>2. Content = [b \in 1..x.size |-> Peek(file, x.offset + b - 1)]
  BY <1>1 DEF Content
<1>3. \A b \in 1..x.size : Peek(file, x.offset + b - 1) \in Bytes
  <2>1. \A b \in 1..x.size : x.offset + b - 1 \in Int
    BY <1>1
  <2> QED BY <1>1, <2>1, PeekType
<1>4. Content \in [1..x.size -> Bytes]
  BY <1>2, <1>3
<1>5. Content \in Seq(Bytes) /\ Len(Content) = x.size
  BY <1>1, <1>4, FunctionIsSeq
<1> QED BY <1>2, <1>5

\* A compressed piece is the stream of its segment, and inflate() gives that back.
LEMMA Streams ==
    ASSUME RoundInv, upc # "idle", NEW x \in Pieces, piece = x, Writing, x.compressed
    PROVE  /\ IsStream(Content, x.size_uncompressed)
           /\ Unpacked \in Seq(Bytes) /\ Len(Unpacked) = x.size_uncompressed
           /\ \A b \in 1..x.size_uncompressed : Unpacked[b] = Elf(x.elf_offset + b - 1)
<1>1. PICK z \in Z : IsPieceOf(x, z) /\ x.size = in.sec[z].size
  <2>1. ui + 1 \in 1..Len(self_sections) /\ x = self_sections[ui + 1]
    BY ReadFacts DEF Writing, piece
  <2> QED BY <2>1, ReadFacts DEF Unpacking, Sourced
<1>2. ZFact(z)
  BY ZFacts
<1> DEFINE m == phdr_map[z]
<1>3. /\ x.offset = m.offset /\ x.size = m.size /\ x.elf_offset = Begin(z)
      /\ x.size_uncompressed = elf.phdr[z].p_filesz
  BY <1>1, <1>2 DEF IsPieceOf, ZFact
<1>4. /\ m.p_off = Begin(z) /\ m.p_filesz = elf.phdr[z].p_filesz /\ m.compressed
  BY <1>2, ReadFacts DEF SegmentFacts, EntryOf, ZFact, Begin
<1>5. m.offset \in Nat /\ m.size \in Nat /\ m.size > 0 /\ Begin(z) \in Nat
      /\ elf.phdr[z].p_filesz \in Nat
  BY <1>2, WordNat DEF ZFact
<1>6. z \in 1..Len(phdr_map) /\ AllStored /\ pc = "done"
  BY <1>2, ReadFacts DEF ZFact, PackInv, Finished, Mapped, IInv
<1>7. ASSUME NEW b \in 0..(m.size - 1)
      PROVE  Peek(file, m.offset + b) = Deflated(x.elf_offset, x.size_uncompressed, b, m.size)
  <2>1. m.offset + b < Len(file) /\ file[m.offset + b + 1] = MapByte(m, b)
    BY <1>6, <1>7 DEF AllStored
  <2>2. Len(file) \in Nat
    BY ReadFacts
  <2>3. m.offset + b \in 0..(Len(file) - 1) /\ (m.offset + b) + 1 = m.offset + b + 1
    BY <1>5, <2>1, <2>2
  <2>4. Peek(file, m.offset + b) = MapByte(m, b)
    BY <2>1, <2>3 DEF Peek
  <2> QED BY <1>3, <1>4, <2>4 DEF MapByte
<1> HIDE DEF m
<1>8. ASSUME NEW b \in 1..m.size
      PROVE  Content[b] = Deflated(x.elf_offset, x.size_uncompressed, b - 1, m.size)
  <2>1. b - 1 \in 0..(m.size - 1) /\ m.offset + (b - 1) = x.offset + b - 1 /\ b \in 1..x.size
    BY <1>3, <1>5
  <2> QED BY <1>7, <2>1, ContentFacts
<1>9. Len(Content) = m.size /\ Content \in Seq(Bytes)
  BY <1>3, ContentFacts
<1>10. Content[1] = Deflated(x.elf_offset, x.size_uncompressed, 0, m.size) /\ Content # <<>>
  <2>1. 1 \in 1..m.size /\ 1 - 1 = 0
    BY <1>5
  <2> QED BY <1>5, <1>8, <1>9, <2>1
<1>11. /\ Content[1][1] = "z" /\ Content[1][2] = x.elf_offset
       /\ Content[1][3] = x.size_uncompressed /\ Content[1][5] = m.size
  BY <1>10 DEF Deflated
<1>12. x.elf_offset \in Nat /\ x.size_uncompressed \in Nat
  BY PieceFacts
<1>13. IsStream(Content, x.size_uncompressed)
  <2>1. /\ Content # <<>> /\ Content[1][1] = "z" /\ Content[1][3] <= x.size_uncompressed
        /\ Content[1][5] <= Len(Content)
    BY <1>5, <1>9, <1>10, <1>11, <1>12
  <2>2. \A b \in 1..Content[1][5] :
          Content[b] = Deflated(Content[1][2], Content[1][3], b - 1, Content[1][5])
    BY <1>8, <1>11
  <2> QED BY <2>1, <2>2 DEF IsStream
<1>14. Unpacked = [b \in 1..x.size_uncompressed |-> Elf(x.elf_offset + b - 1)]
  <2>1. Unpacked = [b \in 1..x.size_uncompressed |->
                      IF b <= x.size_uncompressed THEN Elf(x.elf_offset + b - 1) ELSE Junk]
    BY <1>11 DEF Unpacked, Inflated
  <2>2. \A b \in 1..x.size_uncompressed : b <= x.size_uncompressed
    BY <1>12
  <2> QED BY <2>1, <2>2
<1>15. \A b \in 1..x.size_uncompressed : Elf(x.elf_offset + b - 1) \in Bytes
  <2>1. \A b \in 1..x.size_uncompressed : x.elf_offset + b - 1 \in Nat
    BY <1>12
  <2> QED BY <2>1 DEF Elf, Bytes
<1>16. Unpacked \in [1..x.size_uncompressed -> Bytes]
  BY <1>14, <1>15
<1>17. Unpacked \in Seq(Bytes) /\ Len(Unpacked) = x.size_uncompressed
  BY <1>12, <1>16, FunctionIsSeq
<1> QED BY <1>13, <1>14, <1>17

\* Any piece that is written where it belongs.
PieceStep(x, bytes) ==
    /\ Writing /\ piece = x /\ x \in Pieces
    /\ bytes \in Seq(Bytes) /\ Len(bytes) = x.size_uncompressed
    /\ \A b \in 0..(x.size_uncompressed - 1) : bytes[b + 1] = PieceByte(x, b)
    /\ out' = Write(out, x.elf_offset, bytes)
    /\ ui' = ui + 1 /\ upc' = upc
    /\ UNCHANGED <<in, s, elf_offset, self_offset, self_sections>>

LEMMA WritePlainStep ==
    ASSUME RoundInv, upc # "idle", WritePlain
    PROVE  \E x : PieceStep(x, Content) /\ ~x.compressed
<1>x. PICK x : x = piece
  OBVIOUS
<1>1. /\ Writing /\ ~x.compressed /\ out' = Write(out, x.elf_offset, Content)
      /\ ui' = ui + 1 /\ upc' = upc
      /\ UNCHANGED <<in, s, elf_offset, self_offset, self_sections>>
  BY <1>x DEF WritePlain
<1>2. ui + 1 \in 1..Len(self_sections) /\ x = self_sections[ui + 1]
  BY <1>x, <1>1, ReadFacts DEF Writing, piece
<1>3. x \in Pieces
  BY <1>2, ReadFacts, ElementOf
<1>4. x.size = x.size_uncompressed
  BY <1>1, <1>2, ReadFacts DEF Unpacking, Sourced
<1>5. ASSUME NEW b \in 0..(x.size_uncompressed - 1) PROVE Content[b + 1] = PieceByte(x, b)
  <2>1. b + 1 \in 1..x.size /\ x.offset + (b + 1) - 1 = x.offset + b
    BY <1>3, <1>4, PieceFacts
  <2>2. Content[b + 1] = Peek(file, x.offset + (b + 1) - 1)
    BY <1>x, <1>3, <2>1, ContentFacts
  <2> QED BY <1>1, <2>1, <2>2, ReadFacts DEF PieceByte
<1>6. Content \in Seq(Bytes) /\ Len(Content) = x.size_uncompressed
  BY <1>x, <1>3, <1>4, ContentFacts
<1> QED BY <1>x, <1>1, <1>3, <1>5, <1>6 DEF PieceStep

LEMMA WriteUnpackedStep ==
    ASSUME RoundInv, upc # "idle", WriteUnpacked
    PROVE  \E x : PieceStep(x, Unpacked) /\ x.compressed
<1>x. PICK x : x = piece
  OBVIOUS
<1>1. /\ Writing /\ x.compressed /\ out' = Write(out, x.elf_offset, Unpacked)
      /\ ui' = ui + 1 /\ upc' = upc
      /\ UNCHANGED <<in, s, elf_offset, self_offset, self_sections>>
  BY <1>x DEF WriteUnpacked
<1>2. ui + 1 \in 1..Len(self_sections) /\ x = self_sections[ui + 1]
  BY <1>x, <1>1, ReadFacts DEF Writing, piece
<1>3. x \in Pieces
  BY <1>2, ReadFacts, ElementOf
<1>4. /\ Unpacked \in Seq(Bytes) /\ Len(Unpacked) = x.size_uncompressed
      /\ \A b \in 1..x.size_uncompressed : Unpacked[b] = Elf(x.elf_offset + b - 1)
  BY <1>x, <1>1, <1>3, Streams
<1>5. ASSUME NEW b \in 0..(x.size_uncompressed - 1) PROVE Unpacked[b + 1] = PieceByte(x, b)
  <2>1. b + 1 \in 1..x.size_uncompressed /\ x.elf_offset + (b + 1) - 1 = x.elf_offset + b
    BY <1>3, PieceFacts
  <2> QED BY <1>1, <1>4, <2>1 DEF PieceByte
<1> QED BY <1>x, <1>1, <1>3, <1>4, <1>5 DEF PieceStep

\* zlib never finds a stream of makeself damaged.
LEMMA NoFailure ==
    ASSUME RoundInv, upc # "idle"
    PROVE  ~InflateFails
<1> SUFFICES ASSUME InflateFails PROVE FALSE
  OBVIOUS
<1>x. PICK x : x = piece
  OBVIOUS
<1>1. Writing /\ x.compressed /\ ~IsStream(Content, x.size_uncompressed)
  BY <1>x DEF InflateFails
<1>2. ui + 1 \in 1..Len(self_sections) /\ x = self_sections[ui + 1]
  BY <1>x, <1>1, ReadFacts DEF Writing, piece
<1>3. x \in Pieces
  BY <1>2, ReadFacts, ElementOf
<1> QED BY <1>x, <1>1, <1>3, Streams

-----------------------------------------------------------------------------
(* A piece is written *)

LEMMA PieceWritten ==
    ASSUME RoundInv, upc # "idle", NEW x, NEW bytes, PieceStep(x, bytes)
    PROVE  /\ ui \in Nat /\ ui + 1 \in 1..Len(self_sections) /\ x = self_sections[ui + 1]
           /\ x \in Pieces
           /\ out \in Seq(Bytes) /\ Len(out) \in Nat /\ out' \in Seq(Bytes)
           /\ x.size_uncompressed = 0 => out' = out
           /\ x.size_uncompressed > 0 =>
                Len(out') = IF PieceStop(x) > Len(out) THEN PieceStop(x) ELSE Len(out)
           /\ \A a \in 1..Len(out) : a <= x.elf_offset \/ a > PieceStop(x) => out'[a] = out[a]
           /\ \A b \in 0..(x.size_uncompressed - 1) : out'[x.elf_offset + b + 1] = PieceByte(x, b)
<1>1. /\ upc = "write" /\ ui < Len(self_sections) /\ piece = x /\ x \in Pieces
      /\ bytes \in Seq(Bytes) /\ Len(bytes) = x.size_uncompressed
      /\ \A b \in 0..(x.size_uncompressed - 1) : bytes[b + 1] = PieceByte(x, b)
      /\ out' = Write(out, x.elf_offset, bytes)
  BY DEF PieceStep, Writing
<1>2. ui \in Nat /\ Len(self_sections) \in Nat /\ Extent
  BY ReadFacts DEF Unpacking
<1>3. ui + 1 \in 1..Len(self_sections) /\ x = self_sections[ui + 1]
  BY <1>1, <1>2 DEF piece
<1>4. out \in Seq(Bytes) /\ Len(out) \in Nat
  <2>1. out \in Seq(Bytes)
    BY <1>1, <1>2 DEF Extent
  <2> QED BY <2>1
<1>5. /\ x.elf_offset \in Nat /\ x.size_uncompressed \in Nat
      /\ PieceStop(x) = x.elf_offset + x.size_uncompressed
  BY <1>1, PieceFacts
<1>6. CASE x.size_uncompressed = 0
  <2>1. bytes = <<>>
    BY <1>1, <1>6
  <2>2. out' = out
    BY <1>1, <2>1 DEF Write
  <2>3. 0..(x.size_uncompressed - 1) = {}
    BY <1>6
  <2> QED BY <1>1, <1>2, <1>3, <1>4, <1>6, <2>2, <2>3
<1>7. CASE x.size_uncompressed > 0
  <2>1. bytes # <<>> /\ Zero \in Bytes
    BY <1>1, <1>7 DEF Bytes
  <2>2. /\ out' \in Seq(Bytes)
        /\ Len(out') = IF x.elf_offset + Len(bytes) > Len(out) THEN x.elf_offset + Len(bytes) ELSE Len(out)
        /\ \A a \in 1..Len(out) : a <= x.elf_offset \/ a > x.elf_offset + Len(bytes) => out'[a] = out[a]
        /\ \A b \in 1..Len(bytes) : out'[x.elf_offset + b] = bytes[b]
    <3>1. PICK at \in Nat : at = x.elf_offset
      BY <1>5
    <3>2. bytes \in Seq(Bytes) /\ out' = Write(out, at, bytes)
      BY <1>1, <3>1
    <3>3. at \in Nat /\ bytes # <<>> /\ Zero \in Bytes /\ out \in Seq(Bytes)
      BY <1>4, <2>1, <3>1
    <3>4. Write(out, at, bytes) \in Seq(Bytes)
      BY <3>2, <3>3, WriteExtends
    <3>5. Len(Write(out, at, bytes)) = IF at + Len(bytes) > Len(out) THEN at + Len(bytes) ELSE Len(out)
      BY <3>2, <3>3, WriteExtends
    <3>6. \A a \in 1..Len(out) : a <= at \/ a > at + Len(bytes) => Write(out, at, bytes)[a] = out[a]
      BY <3>2, <3>3, WriteExtends
    <3>7. \A b \in 1..Len(bytes) : Write(out, at, bytes)[at + b] = bytes[b]
      BY <3>2, <3>3, WriteExtends
    <3> QED BY <3>1, <3>2, <3>4, <3>5, <3>6, <3>7
  <2>3. ASSUME NEW b \in 0..(x.size_uncompressed - 1)
        PROVE  out'[x.elf_offset + b + 1] = PieceByte(x, b)
    <3>0. Len(bytes) = x.size_uncompressed /\ b \in Nat /\ b < x.size_uncompressed
      BY <1>1, <1>5
    <3>1. b + 1 \in 1..Len(bytes) /\ x.elf_offset + (b + 1) = x.elf_offset + b + 1
      BY <1>5, <3>0
    <3>2. out'[x.elf_offset + (b + 1)] = bytes[b + 1]
      BY <2>2, <3>1
    <3> QED BY <1>1, <3>1, <3>2
  <2>4. Len(bytes) = x.size_uncompressed /\ x.elf_offset + Len(bytes) = PieceStop(x)
    BY <1>1, <1>5
  <2> QED BY <1>1, <1>2, <1>3, <1>4, <1>7, <2>2, <2>3, <2>4
<1> QED BY <1>5, <1>6, <1>7

LEMMA PieceExtends ==
    ASSUME RoundInv, upc # "idle", NEW x, NEW bytes, PieceStep(x, bytes)
    PROVE  Extent'
<1>1. /\ upc = "write" /\ upc' = "write" /\ ui' = ui + 1 /\ self_sections' = self_sections
      /\ ui \in Nat /\ x = self_sections[ui + 1] /\ x \in Pieces
      /\ out \in Seq(Bytes) /\ Len(out) \in Nat /\ out' \in Seq(Bytes)
      /\ x.size_uncompressed = 0 => out' = out
      /\ x.size_uncompressed > 0 =>
           Len(out') = IF PieceStop(x) > Len(out) THEN PieceStop(x) ELSE Len(out)
  BY PieceWritten DEF PieceStep, Writing
<1>2. /\ x.size_uncompressed \in Nat /\ PieceStop(x) \in Nat
      /\ Extent /\ Len(self_sections) \in Nat /\ self_sections \in Seq(Pieces)
  BY <1>1, PieceFacts, ReadFacts DEF Unpacking
<1>3. Len(out) <= Len(out') /\ Len(out') \in Nat
      /\ (x.size_uncompressed > 0 => PieceStop(x) <= Len(out'))
  BY <1>1, <1>2
<1>4. ASSUME NEW k \in 1..Len(self_sections), k <= ui + 1,
             self_sections[k].size_uncompressed > 0
      PROVE  PieceStop(self_sections[k]) <= Len(out')
  <2>1. CASE k = ui + 1
    BY <1>1, <1>3, <1>4, <2>1
  <2>2. CASE k # ui + 1
    <3>1. k <= ui
      BY <1>1, <1>4, <2>2
    <3>2. PieceStop(self_sections[k]) <= Len(out)
      BY <1>1, <1>2, <1>4, <3>1 DEF Extent
    <3>3. PieceStop(self_sections[k]) \in Nat
      BY <1>2, ElementOf, PieceFacts
    <3> QED BY <1>1, <1>3, <3>2, <3>3
  <2> QED BY <2>1, <2>2
<1> QED BY <1>1, <1>4 DEF Extent, PieceStop

LEMMA PieceHeld ==
    ASSUME RoundInv, upc # "idle", NEW x, NEW bytes, PieceStep(x, bytes)
    PROVE  PiecesHeld'
<1>1. /\ upc = "write" /\ upc' = "write" /\ ui' = ui + 1 /\ UNCHANGED <<in, self_sections>>
      /\ ui \in Nat /\ ui + 1 \in 1..Len(self_sections) /\ x = self_sections[ui + 1]
      /\ x \in Pieces /\ out \in Seq(Bytes) /\ Len(out) \in Nat
      /\ \A a \in 1..Len(out) : a <= x.elf_offset \/ a > PieceStop(x) => out'[a] = out[a]
      /\ \A b \in 0..(x.size_uncompressed - 1) : out'[x.elf_offset + b + 1] = PieceByte(x, b)
  BY PieceWritten DEF PieceStep, Writing
<1>2. /\ Extent /\ PiecesHeld /\ Len(self_sections) \in Nat /\ self_sections \in Seq(Pieces)
      /\ WellPlaced => Apart
  BY ReadFacts DEF Unpacking, OnceInv, PiecesPlaced
<1>3. WellPlaced' = WellPlaced
  BY <1>1, SameFile
<1>4. ASSUME WellPlaced, NEW k \in 1..Len(self_sections), k <= ui + 1,
             NEW b \in 0..(self_sections[k].size_uncompressed - 1)
      PROVE  out'[self_sections[k].elf_offset + b + 1] = PieceByte(self_sections[k], b)
  <2>1. CASE k = ui + 1
    BY <1>1, <1>4, <2>1
  <2>2. CASE k # ui + 1
    <3>y. PICK y : y = self_sections[k]
      OBVIOUS
    <3>1. y \in Pieces /\ k <= ui /\ k < ui + 1
      BY <1>1, <1>2, <1>4, <2>2, <3>y, ElementOf
    <3>2. /\ y.elf_offset \in Nat /\ y.size_uncompressed \in Nat
          /\ PieceStop(y) = y.elf_offset + y.size_uncompressed
          /\ x.elf_offset \in Nat
      BY <1>1, <3>1, PieceFacts
    <3>3. b \in Nat /\ b < y.size_uncompressed /\ y.size_uncompressed > 0
      BY <1>4, <3>2, <3>y
    <3>4. PieceStop(y) <= Len(out)
      BY <1>1, <1>2, <1>4, <3>1, <3>3, <3>y DEF Extent
    <3>5. PieceStop(y) <= x.elf_offset
      BY <1>1, <1>2, <1>4, <3>1, <3>y DEF Apart
    <3>6. y.elf_offset + b + 1 \in 1..Len(out) /\ y.elf_offset + b + 1 <= x.elf_offset
      <4>1. PICK p \in Nat : p = y.elf_offset
        BY <3>2
      <4>2. PICK q \in Nat : q = y.size_uncompressed
        BY <3>2
      <4>3. Len(out) \in Nat /\ p + q <= Len(out) /\ p + q <= x.elf_offset /\ b < q
        BY <1>1, <3>2, <3>3, <3>4, <3>5, <4>1, <4>2
      <4>4. p + b + 1 \in 1..Len(out) /\ p + b + 1 <= x.elf_offset
        <5>1. x.elf_offset \in Nat /\ b \in Nat
          BY <3>2, <3>3
        <5> QED BY <4>3, <5>1
      <4> QED BY <4>1, <4>4
    <3>7. out'[y.elf_offset + b + 1] = out[y.elf_offset + b + 1]
      BY <1>1, <3>6
    <3>8. Holds(y)
      BY <1>1, <1>2, <1>4, <3>1, <3>y DEF PiecesHeld
    <3> QED BY <1>4, <3>7, <3>8, <3>y DEF Holds
  <2> QED BY <2>1, <2>2
<1>5. \A y, b : PieceByte(y, b)' = PieceByte(y, b)
  BY <1>1 DEF PieceByte
<1> QED BY <1>1, <1>3, <1>4, <1>5 DEF PiecesHeld, Holds, PieceByte

LEMMA PieceAlone ==
    ASSUME RoundInv, upc # "idle", NEW x, NEW bytes, PieceStep(x, bytes), UNCHANGED vars
    PROVE  OnePiece'
<1> SUFFICES ASSUME ~compression PROVE OnePiece'
  BY DEF OnePiece, vars
<1>1. /\ upc = "write" /\ upc' = "write" /\ ui' = ui + 1
      /\ UNCHANGED <<in, elf_offset, self_offset, self_sections>>
      /\ ui \in Nat /\ ui + 1 \in 1..Len(self_sections) /\ x = self_sections[ui + 1]
      /\ x \in Pieces /\ out \in Seq(Bytes) /\ out' \in Seq(Bytes)
      /\ x.size_uncompressed > 0 =>
           Len(out') = IF PieceStop(x) > Len(out) THEN PieceStop(x) ELSE Len(out)
      /\ \A b \in 0..(x.size_uncompressed - 1) : out'[x.elf_offset + b + 1] = PieceByte(x, b)
  BY PieceWritten DEF PieceStep, Writing
<1>2. OnePiece /\ in.filesize \in Nat /\ in.filesize > 0 /\ HeaderSize \in Word
  BY ReadFacts DEF Unpacking
<1>3. /\ Len(self_sections) = 1 /\ ui = 0 /\ out = <<>> /\ elf_offset = in.filesize
      /\ x = Piece(HeaderSize, in.filesize, FALSE, in.filesize, 0)
  <2>1. Len(self_sections) = 1
    BY <1>1, <1>2 DEF OnePiece
  <2>2. ui = 0
    BY <1>1, <2>1
  <2>3. self_sections[1] = Piece(HeaderSize, in.filesize, FALSE, in.filesize, 0)
        /\ elf_offset = in.filesize
    <3>1. Len(self_sections) > 0 =>
            /\ elf_offset = in.filesize
            /\ self_sections[1] = Piece(HeaderSize, in.filesize, FALSE, in.filesize, 0)
      BY <1>2 DEF OnePiece
    <3>2. Len(self_sections) > 0
      BY <2>1
    <3> QED BY <3>1, <3>2
  <2>4. out = <<>>
    BY <1>1, <1>2, <2>2 DEF OnePiece
  <2>5. x = self_sections[1]
    BY <1>1, <2>2
  <2> QED BY <2>1, <2>2, <2>3, <2>4, <2>5
<1>4. /\ x.compressed = FALSE /\ x.offset = HeaderSize /\ x.elf_offset = 0
      /\ x.size_uncompressed = in.filesize
  BY <1>3 DEF Piece
<1>5. Len(out') = in.filesize
  BY <1>1, <1>2, <1>3, <1>4 DEF PieceStop
<1>6. ASSUME NEW b \in 1..in.filesize PROVE out'[b] = Peek(in.bytes, HeaderSize + b - 1)
  <2>1. b - 1 \in 0..(x.size_uncompressed - 1) /\ x.elf_offset + (b - 1) + 1 = b
    BY <1>2, <1>4
  <2>2. out'[b] = PieceByte(x, b - 1)
    BY <1>1, <2>1
  <2>3. HeaderSize + (b - 1) = HeaderSize + b - 1
    BY <1>2, WordInt
  <2> QED BY <1>4, <2>2, <2>3 DEF PieceByte
<1>7. out' = [b \in 1..in.filesize |-> Peek(in.bytes, HeaderSize + b - 1)]
  BY <1>1, <1>5, <1>6
<1> QED BY <1>1, <1>2, <1>3, <1>7 DEF OnePiece, Piece

LEMMA PieceKeeps ==
    ASSUME RoundInv, upc # "idle", NEW x, NEW bytes, PieceStep(x, bytes), UNCHANGED vars, OnceInv'
    PROVE  Unpacking'
<1>1. /\ upc = "write" /\ upc' = "write"
      /\ UNCHANGED <<in, s, elf_offset, self_offset, self_sections>>
      /\ UNCHANGED <<elf, compression, phdr_map>> /\ Unpacking
  BY ReadFacts DEF PieceStep, Writing, vars
<1>2. AsRead'
  BY <1>1 DEF Unpacking, AsRead, read_section, e_phnum
<1>3. Sourced'
  BY <1>1, SameFile DEF Unpacking, Sourced, IsPieceOf
<1>4. Reached'
  BY <1>1 DEF Unpacking, Reached, LastPiece, PieceStop
<1>5. Continuing' = Continuing /\ LoadsAscend' = LoadsAscend
  BY <1>1 DEF Continuing, Loads, Continues, Begin, End, LoadsAscend
<1>6. Continued'
  BY <1>1, <1>5 DEF Unpacking, Continued, Came, Begin
<1> QED BY <1>1, <1>2, <1>3, <1>4, <1>6, PieceExtends, PieceHeld, PieceAlone, NotYetOut DEF Unpacking

LEMMA WriteEndKeeps ==
    ASSUME RoundInv, upc # "idle", WriteEnd, UNCHANGED vars
    PROVE  Unpacking'
<1>1. /\ upc = "write" /\ upc' = "check" /\ ui >= Len(self_sections)
      /\ UNCHANGED <<in, s, ui, elf_offset, self_offset, self_sections, out>>
      /\ UNCHANGED <<elf, compression, phdr_map>>
      /\ ui \in Nat /\ Len(self_sections) \in Nat
  BY ReadFacts DEF WriteEnd, vars
<1>2. Unpacking /\ OnceInv'
  BY NextOnceInv, ReadFacts DEF Unpacking, UNext
<1>3. AsRead' /\ Sourced'
  BY <1>1, <1>2, SameFile DEF Unpacking, AsRead, read_section, e_phnum, Sourced, IsPieceOf
<1>4. Reached'
  BY <1>1, <1>2 DEF Unpacking, Reached, LastPiece, PieceStop
<1>5. Continuing' = Continuing /\ LoadsAscend' = LoadsAscend
  BY <1>1 DEF Continuing, Loads, Continues, Begin, End, LoadsAscend
<1>6. Continued'
  BY <1>1, <1>2, <1>5 DEF Unpacking, Continued, Came, Begin
<1>7. \A k \in 1..Len(self_sections) : k <= ui
  BY <1>1
<1>8. Extent'
  BY <1>1, <1>2, <1>7 DEF Unpacking, Extent, PieceStop
<1>9. PiecesHeld'
  BY <1>1, <1>2, <1>7, SameFile DEF Unpacking, PiecesHeld, Holds, PieceByte
<1>10. OnePiece'
  BY <1>1, <1>2 DEF Unpacking, OnePiece, Piece
<1> QED BY <1>1, <1>2, <1>3, <1>4, <1>6, <1>8, <1>9, <1>10, NotYetOut DEF Unpacking

-----------------------------------------------------------------------------
(* check_elf() *)

\* Any fwrite() after fseek(), of nothing, too.
Spares(S, mem, at, bytes, new) ==
    /\ new \in Seq(S) /\ Len(mem) \in Nat /\ Len(new) \in Nat /\ Len(new) >= Len(mem)
    /\ Len(bytes) > 0 => Len(new) >= at + Len(bytes)
    /\ at + Len(bytes) <= Len(mem) => Len(new) = Len(mem)
    /\ \A a \in 1..Len(mem) : a <= at \/ a > at + Len(bytes) => new[a] = mem[a]
    /\ \A b \in 1..Len(bytes) : new[at + b] = bytes[b]

LEMMA WriteSpares ==
    ASSUME NEW S, Zero \in S, NEW mem \in Seq(S), NEW bytes \in Seq(S), NEW at \in Nat,
           NEW new, new = Write(mem, at, bytes)
    PROVE  Spares(S, mem, at, bytes, new)
<1>1. Len(mem) \in Nat /\ Len(bytes) \in Nat
  OBVIOUS
<1>2. CASE bytes = <<>>
  <2>1. new = mem
    BY <1>2 DEF Write
  <2>2. Len(bytes) = 0
    BY <1>2
  <2> QED BY <1>1, <2>1, <2>2 DEF Spares
<1>3. CASE bytes # <<>>
  <2>1. /\ new \in Seq(S)
        /\ Len(new) = IF at + Len(bytes) > Len(mem) THEN at + Len(bytes) ELSE Len(mem)
        /\ \A a \in 1..Len(mem) : a <= at \/ a > at + Len(bytes) => new[a] = mem[a]
        /\ \A b \in 1..Len(bytes) : new[at + b] = bytes[b]
    BY <1>3, WriteExtends
  <2>2. /\ Len(new) >= Len(mem) /\ Len(new) \in Nat /\ Len(new) >= at + Len(bytes)
        /\ at + Len(bytes) <= Len(mem) => Len(new) = Len(mem)
    BY <1>1, <2>1
  <2> QED BY <1>1, <2>1, <2>2 DEF Spares
<1> QED BY <1>2, <1>3

\* The tables that check_elf writes, one after the other: what is left of the
\* file, and that none of them is written over by a later one.
Layered(mem, p, q, e, n, at, w) ==
    /\ Len(w) \in Nat /\ Len(w) >= Len(mem) /\ Len(w) >= at + Len(n)
    /\ \A a \in 1..Len(mem) : a > Len(e) + Len(p) => w[a] = mem[a]
    /\ \A b \in 1..Len(e) : b <= at => w[b] = e[b]
    /\ Len(e) + Len(p) <= Len(mem) => \A b \in 1..Len(p) : w[Len(e) + b] = p[b]
    /\ Len(e) <= Len(mem) => \A b \in 1..Len(q) : w[Len(mem) + b] = q[b]
    /\ \A b \in 1..Len(n) : w[at + b] = n[b]

LEMMA TablesWritten ==
    ASSUME NEW S, Zero \in S, NEW mem \in Seq(S), NEW p \in Seq(S), NEW q \in Seq(S),
           NEW e \in Seq(S), NEW n \in Seq(S), NEW at \in Nat, NEW L \in Nat, L = Len(mem),
           NEW E \in Nat, NEW P \in Nat, NEW Q \in Nat,
           Len(p) = P, Len(q) = Q, Len(e) = E, Len(n) > 0, L + Q <= at,
           NEW w1, w1 = Write(mem, E, p), NEW w2, w2 = Write(w1, L, q),
           NEW w3, w3 = Write(w2, 0, e), NEW w, w = Write(w3, at, n)
    PROVE  Layered(mem, p, q, e, n, at, w)
<1>1. /\ w1 \in Seq(S) /\ Len(w1) \in Nat /\ Len(w1) >= L
      /\ E + P <= L => Len(w1) = L
      /\ P > 0 => Len(w1) >= E + P
      /\ \A a \in 1..L : a <= E \/ a > E + P => w1[a] = mem[a]
      /\ \A b \in 1..P : w1[E + b] = p[b]
  <2>1. Spares(S, mem, E, p, w1)
    BY WriteSpares
  <2> QED BY <2>1 DEF Spares
<1>2. /\ w2 \in Seq(S) /\ Len(w2) \in Nat /\ Len(w2) >= Len(w1)
      /\ Q > 0 => Len(w2) >= L + Q
      /\ \A a \in 1..Len(w1) : a <= L \/ a > L + Q => w2[a] = w1[a]
      /\ \A b \in 1..Q : w2[L + b] = q[b]
  <2>0. w1 \in Seq(S)
    BY <1>1
  <2>1. Spares(S, w1, L, q, w2)
    BY <2>0, WriteSpares
  <2> QED BY <2>1 DEF Spares
<1>3. /\ w3 \in Seq(S) /\ Len(w3) \in Nat /\ Len(w3) >= Len(w2)
      /\ E > 0 => Len(w3) >= E
      /\ \A a \in 1..Len(w2) : a > E => w3[a] = w2[a]
      /\ \A b \in 1..E : w3[b] = e[b]
  <2>0. w2 \in Seq(S)
    BY <1>2
  <2>1. Spares(S, w2, 0, e, w3)
    BY <2>0, WriteSpares
  <2>2. 0 + Len(e) = E /\ \A b \in 1..E : 0 + b = b
    OBVIOUS
  <2> QED BY <2>1, <2>2 DEF Spares
<1>4. /\ w \in Seq(S) /\ Len(w) \in Nat /\ Len(w) >= Len(w3) /\ Len(w) >= at + Len(n)
      /\ \A a \in 1..Len(w3) : a <= at => w[a] = w3[a]
      /\ \A b \in 1..Len(n) : w[at + b] = n[b]
  <2>0. w3 \in Seq(S)
    BY <1>3
  <2>1. Spares(S, w3, at, n, w)
    BY <2>0, WriteSpares
  <2> QED BY <2>1 DEF Spares
<1>5. ASSUME NEW a \in 1..L, a > E + P PROVE w[a] = mem[a]
  <2>1. w1[a] = mem[a]
    BY <1>1, <1>5
  <2>2. a \in 1..Len(w1) /\ a \in 1..Len(w2) /\ a \in 1..Len(w3) /\ a <= L /\ a > E /\ a <= at
    BY <1>1, <1>2, <1>3, <1>5
  <2> QED BY <1>2, <1>3, <1>4, <2>1, <2>2
<1>6. ASSUME NEW b \in 1..E, b <= at PROVE w[b] = e[b]
  <2>1. b \in 1..Len(w3)
    BY <1>3
  <2>2. w3[b] = e[b]
    BY <1>3
  <2> QED BY <1>4, <1>6, <2>1, <2>2
<1>7. ASSUME E + P <= L, NEW b \in 1..P PROVE w[E + b] = p[b]
  <2>1. /\ E + b \in 1..Len(w1) /\ E + b \in 1..Len(w2) /\ E + b \in 1..Len(w3)
        /\ E + b <= L /\ E + b > E /\ E + b <= at
    BY <1>1, <1>2, <1>3, <1>7
  <2>2. w1[E + b] = p[b]
    BY <1>1
  <2>3. w2[E + b] = w1[E + b]
    BY <1>2, <2>1
  <2>4. w3[E + b] = w2[E + b]
    BY <1>3, <2>1
  <2>5. w[E + b] = w3[E + b]
    BY <1>4, <2>1
  <2> QED BY <2>2, <2>3, <2>4, <2>5
<1>8. ASSUME E <= L, NEW b \in 1..Q PROVE w[L + b] = q[b]
  <2>1. /\ L + b \in 1..Len(w2) /\ L + b \in 1..Len(w3) /\ L + b > E /\ L + b <= at
    BY <1>2, <1>3, <1>8
  <2>2. w2[L + b] = q[b]
    BY <1>2
  <2>3. w3[L + b] = w2[L + b]
    BY <1>3, <2>1
  <2>4. w[L + b] = w3[L + b]
    BY <1>4, <2>1
  <2> QED BY <2>2, <2>3, <2>4
<1>9. Len(w) >= L
  BY <1>1, <1>2, <1>3, <1>4
<1> QED BY <1>4, <1>5, <1>6, <1>7, <1>8, <1>9 DEF Layered

\* The file is at least as long as the one that was packed.
LEMMA CheckFacts ==
    ASSUME RoundInv, upc = "check"
    PROVE  /\ out \in Seq(Bytes) /\ Len(out) \in Nat /\ in.filesize <= Len(out) /\ Len(out) > 0
           /\ out # <<>>
<1>1. Extent /\ LastPiece /\ in.filesize \in Nat /\ in.filesize > 0
      /\ self_sections \in Seq(Pieces)
  BY ReadFacts DEF Unpacking, Reached
<1>2. out \in Seq(Bytes) /\ Len(out) \in Nat
  <2>1. out \in Seq(Bytes)
    BY <1>1 DEF Extent
  <2> QED BY <2>1
<1>3. PICK k \in 1..Len(self_sections) :
        self_sections[k].size_uncompressed > 0 /\ in.filesize <= PieceStop(self_sections[k])
  BY <1>1 DEF LastPiece
<1>4. PieceStop(self_sections[k]) <= Len(out)
  BY <1>1, <1>3 DEF Extent
<1>5. PieceStop(self_sections[k]) \in Nat
  BY <1>1, ElementOf, PieceFacts
<1> QED BY <1>1, <1>2, <1>3, <1>4, <1>5

\* Without -c what was written is the ELF file and its padding.
LEMMA CheckPlain ==
    ASSUME RoundInv, upc = "check", ~compression
    PROVE  /\ Len(out) = round_up(elf.size, ALIGNMENT)
           /\ \A p \in 0..(Len(out) - 1) : OutByte(p) = IF p < elf.size THEN Elf(p) ELSE Zero
           /\ out[1] = Elf(0)
<1>1. /\ in.filesize \in Nat /\ in.filesize > 0 /\ in.filesize = round_up(elf.size, ALIGNMENT)
      /\ in.bytes = file /\ pc = "done" /\ elf.size \in Nat /\ HeaderSize \in Nat
  BY ReadFacts, WordNat DEF FileFields
<1>2. out = [b \in 1..in.filesize |-> Peek(in.bytes, HeaderSize + b - 1)]
  BY ReadFacts DEF Unpacking, OnePiece
<1>3. Len(out) = in.filesize
  BY <1>1, <1>2
<1>4. \A p \in 0..(in.filesize - 1) :
        Peek(file, HeaderSize + p) = IF p < elf.size THEN Elf(p) ELSE Zero
  BY <1>1, ReadFacts DEF PackInv, Finished
<1>5. ASSUME NEW p \in 0..(in.filesize - 1)
      PROVE  OutByte(p) = (IF p < elf.size THEN Elf(p) ELSE Zero) /\ out[p + 1] = OutByte(p)
  <2>1. p + 1 \in 1..in.filesize /\ HeaderSize + (p + 1) - 1 = HeaderSize + p
        /\ p \in 0..(Len(out) - 1)
    BY <1>1, <1>3
  <2>2. out[p + 1] = Peek(in.bytes, HeaderSize + (p + 1) - 1)
    BY <1>2, <2>1
  <2>3. OutByte(p) = out[p + 1]
    BY <2>1 DEF OutByte, Peek
  <2> QED BY <1>1, <1>4, <2>1, <2>2, <2>3
<1>6. out[1] = Elf(0)
  <2>1. 0 \in 0..(in.filesize - 1) /\ 0 < elf.size /\ 0 + 1 = 1
    BY <1>1, DoneFacts, ReadFacts
  <2> QED BY <1>5, <2>1
<1> QED BY <1>1, <1>3, <1>5, <1>6

\* Byte p of a segment is byte b of the piece that begins with it.
LEMMA ByteOfPiece ==
    ASSUME NEW begin \in Nat, NEW filesz \in Nat, NEW usize \in Nat, filesz <= usize,
           NEW p \in begin..(begin + filesz - 1)
    PROVE  \E b \in Nat : /\ b \in 0..(filesz - 1) /\ b \in 0..(usize - 1) /\ begin + b = p
                          /\ begin + b + 1 = p + 1 /\ p \in Nat /\ usize > 0
                          /\ p + 1 >= 1 /\ p + 1 <= begin + usize
<1>1. p - begin \in Nat /\ p - begin < filesz /\ begin + (p - begin) = p
  OBVIOUS
<1>2. PICK b \in Nat : b = p - begin
  BY <1>1
<1>3. b < filesz /\ begin + b = p
  BY <1>1, <1>2
<1> QED BY <1>3

\* A compressed segment is in the file that was written.
LEMMA CompressedBack ==
    ASSUME RoundInv, upc = "check", compression, LoadsAscend, NEW n \in Loads,
           phdr_map[n].compressed, NEW p \in Begin(n)..(End(n) - 1)
    PROVE  p \in Nat /\ p + 1 \in 1..Len(out) /\ out[p + 1] = Elf(p)
<1>1. n \in Z
  BY ReadFacts DEF Loads, phnum, Z, FileFields
<1>2. ZFact(n) /\ WellPlaced
  BY <1>1, ZFacts, AscendWellPlaced
<1>3. PICK k \in 1..Len(self_sections) : IsPieceOf(self_sections[k], n)
  <2>1. PICK j \in 1..Len(s) : s[j].idx = n
    BY <1>1, ReadFacts DEF Unpacking, OnceInv, Listed, Sorted
  <2>2. HasPiece(n)
    BY <1>2, <2>1, ReadFacts DEF Unpacking, OnceInv, PiecesPlaced
  <2> QED BY <2>2 DEF HasPiece
<1>y. PICK y : y = self_sections[k]
  OBVIOUS
<1>4. y \in Pieces /\ Holds(y) /\ (y.size_uncompressed > 0 => PieceStop(y) <= Len(out))
  BY <1>2, <1>y, ReadFacts, ElementOf DEF Unpacking, PiecesHeld, Extent
<1>5. /\ y.compressed /\ y.elf_offset = Begin(n) /\ y.size_uncompressed = elf.phdr[n].p_filesz
      /\ Begin(n) \in Nat /\ elf.phdr[n].p_filesz \in Nat
      /\ End(n) = Begin(n) + elf.phdr[n].p_filesz
  BY <1>2, <1>3, <1>y DEF IsPieceOf, ZFact
<1>6. PICK b \in Nat : /\ b \in 0..(y.size_uncompressed - 1) /\ Begin(n) + b = p
                       /\ Begin(n) + b + 1 = p + 1 /\ p \in Nat /\ y.size_uncompressed > 0
                       /\ p + 1 >= 1 /\ p + 1 <= Begin(n) + y.size_uncompressed
  <2>1. PICK begin \in Nat, filesz \in Nat : begin = Begin(n) /\ filesz = elf.phdr[n].p_filesz
    BY <1>5
  <2>2. filesz <= filesz /\ p \in begin..(begin + filesz - 1)
    BY <1>5, <2>1
  <2>3. PICK b \in Nat :
          /\ b \in 0..(filesz - 1) /\ b \in 0..(filesz - 1) /\ begin + b = p
          /\ begin + b + 1 = p + 1 /\ p \in Nat /\ filesz > 0
          /\ p + 1 >= 1 /\ p + 1 <= begin + filesz
    BY <2>2, ByteOfPiece
  <2> WITNESS b \in Nat
  <2>4. /\ b \in 0..(filesz - 1) /\ b \in 0..(filesz - 1) /\ begin + b = p
        /\ begin + b + 1 = p + 1 /\ p \in Nat /\ filesz > 0
        /\ p + 1 >= 1 /\ p + 1 <= begin + filesz
    BY <2>3
  <2> QED BY <1>5, <2>1, <2>4
<1>7. PieceStop(y) = Begin(n) + y.size_uncompressed /\ Len(out) \in Nat
  BY <1>4, <1>5, PieceFacts, CheckFacts
<1>8. p \in Nat /\ p + 1 \in 1..Len(out)
  <2>1. p + 1 <= PieceStop(y) /\ PieceStop(y) <= Len(out)
    BY <1>4, <1>6, <1>7
  <2>2. PieceStop(y) \in Nat
    BY <1>4, PieceFacts
  <2> QED BY <1>6, <1>7, <2>1, <2>2
<1>9. out[Begin(n) + b + 1] = Elf(Begin(n) + b)
  BY <1>4, <1>5, <1>6 DEF Holds, PieceByte
<1> QED BY <1>6, <1>8, <1>9

\* So is one that continues what is before it.
LEMMA ContinuingBack ==
    ASSUME RoundInv, upc = "check", compression, LoadsAscend, NEW n \in Continuing,
           NEW p \in Begin(n)..(End(n) - 1)
    PROVE  p \in Nat /\ p + 1 \in 1..Len(out) /\ out[p + 1] = Elf(p)
<1>1. /\ n \in 1..phnum /\ n \in Loads
      /\ elf.phdr[n].p_filesz \in Nat /\ elf.phdr[n].p_filesz > 0
      /\ Begin(n) \in Nat /\ End(n) = Begin(n) + elf.phdr[n].p_filesz
      /\ in.sec[n].offset = phdr_map[n].offset /\ phdr_map[n].offset \in Nat
      /\ phdr_map[n].size = elf.phdr[n].p_filesz
  BY ContinuingFacts
<1>2. PICK k \in 1..Len(self_sections) :
        /\ ~self_sections[k].compressed
        /\ self_sections[k].elf_offset = Begin(n)
        /\ self_sections[k].offset = in.sec[n].offset
        /\ self_sections[k].size_uncompressed >= elf.phdr[n].p_filesz
  BY ReadFacts DEF Unpacking, Continued, Came
<1>y. PICK y : y = self_sections[k]
  OBVIOUS
<1>3. y \in Pieces /\ Holds(y) /\ (y.size_uncompressed > 0 => PieceStop(y) <= Len(out))
  BY <1>y, AscendWellPlaced, ReadFacts, ElementOf DEF Unpacking, PiecesHeld, Extent
<1>4. /\ ~y.compressed /\ y.elf_offset = Begin(n) /\ y.offset = phdr_map[n].offset
      /\ y.size_uncompressed >= elf.phdr[n].p_filesz
      /\ y.size_uncompressed \in Nat
      /\ PieceStop(y) = Begin(n) + y.size_uncompressed /\ Len(out) \in Nat
  BY <1>1, <1>2, <1>3, <1>y, PieceFacts, CheckFacts
<1>5. PICK b \in Nat : /\ b \in 0..(y.size_uncompressed - 1)
                       /\ b \in 0..(phdr_map[n].size - 1) /\ Begin(n) + b = p
                       /\ Begin(n) + b + 1 = p + 1 /\ p \in Nat /\ y.size_uncompressed > 0
                       /\ p + 1 >= 1 /\ p + 1 <= Begin(n) + y.size_uncompressed
  <2>1. PICK begin \in Nat, filesz \in Nat, usize \in Nat :
          begin = Begin(n) /\ filesz = elf.phdr[n].p_filesz /\ usize = y.size_uncompressed
    BY <1>1, <1>4
  <2>2. filesz <= usize /\ p \in begin..(begin + filesz - 1)
    BY <1>1, <1>4, <2>1
  <2>3. PICK b \in Nat :
          /\ b \in 0..(filesz - 1) /\ b \in 0..(usize - 1) /\ begin + b = p
          /\ begin + b + 1 = p + 1 /\ p \in Nat /\ usize > 0
          /\ p + 1 >= 1 /\ p + 1 <= begin + usize
    BY <2>2, ByteOfPiece
  <2> WITNESS b \in Nat
  <2>4. /\ b \in 0..(filesz - 1) /\ b \in 0..(usize - 1) /\ begin + b = p
        /\ begin + b + 1 = p + 1 /\ p \in Nat /\ usize > 0
        /\ p + 1 >= 1 /\ p + 1 <= begin + usize
    BY <2>3
  <2> QED BY <1>1, <2>1, <2>4
<1>6. p \in Nat /\ p + 1 \in 1..Len(out)
  <2>1. p + 1 <= PieceStop(y) /\ PieceStop(y) <= Len(out)
    BY <1>3, <1>4, <1>5
  <2>2. PieceStop(y) \in Nat /\ Len(out) \in Nat
    BY <1>3, <1>4, PieceFacts
  <2> QED BY <1>5, <2>1, <2>2
<1>7. out[p + 1] = Peek(file, phdr_map[n].offset + b)
  <2>1. out[Begin(n) + b + 1] = Peek(in.bytes, y.offset + b)
    BY <1>3, <1>4, <1>5 DEF Holds, PieceByte
  <2> QED BY <1>4, <1>5, <2>1, ReadFacts
<1>8. Peek(file, phdr_map[n].offset + b) = Elf(p)
  <2>1. n \in 1..Len(phdr_map) /\ AllStored /\ pc = "done"
    BY <1>1, ReadFacts DEF PackInv, Finished, Mapped, IInv
  <2>2. /\ phdr_map[n].offset + b < Len(file)
        /\ file[phdr_map[n].offset + b + 1] = MapByte(phdr_map[n], b)
    BY <1>5, <2>1 DEF AllStored
  <2>3. Len(file) \in Nat
    BY ReadFacts
  <2>4. /\ phdr_map[n].offset + b \in 0..(Len(file) - 1)
        /\ (phdr_map[n].offset + b) + 1 = phdr_map[n].offset + b + 1
    <3>1. PICK off \in Nat : off = phdr_map[n].offset
      BY <1>1
    <3>2. off + b < Len(file)
      BY <2>2, <3>1
    <3> QED BY <2>3, <3>1, <3>2
  <2>5. Peek(file, phdr_map[n].offset + b) = MapByte(phdr_map[n], b)
    BY <2>2, <2>4 DEF Peek
  <2>6. phdr_map[n].p_off = Begin(n)
    BY <1>1, ReadFacts DEF SegmentFacts, EntryOf, Begin
  <2>7. ~phdr_map[n].compressed
    BY DEF Continuing
  <2> QED BY <1>5, <2>5, <2>6, <2>7 DEF MapByte
<1> QED BY <1>6, <1>7, <1>8

LEMMA SegmentBack ==
    ASSUME RoundInv, upc = "check", compression, LoadsAscend, NEW n \in Loads,
           phdr_map[n].compressed \/ Continues(n), NEW p \in Begin(n)..(End(n) - 1)
    PROVE  p \in Nat /\ p + 1 \in 1..Len(out) /\ out[p + 1] = Elf(p)
<1>1. CASE phdr_map[n].compressed
  BY <1>1, CompressedBack
<1>2. CASE ~phdr_map[n].compressed
  <2>1. n \in 1..phnum
    BY DEF Loads, phnum
  <2>2. Begin(n) \in Nat /\ elf.phdr[n].p_filesz \in Nat /\ End(n) = Begin(n) + elf.phdr[n].p_filesz
    BY <2>1, ReadFacts DEF SegmentFacts
  <2>3. elf.phdr[n].p_filesz > 0
    BY <2>2
  <2>4. n \in Continuing
    BY <1>2, <2>3 DEF Continuing
  <2> QED BY <2>4, ContinuingBack
<1> QED BY <1>1, <1>2

\* What check_elf leaves: E bytes of header, P of program headers, Q of section
\* headers, and the strings at at.
Tables(E, P, Q, at) ==
    /\ Len(out') \in Nat /\ Len(out') >= Len(out) /\ Len(out') >= at + Len(Shstrtab)
    /\ \A a \in 1..Len(out) : a > E + P => out'[a] = out[a]
    /\ \A b \in 1..E : b <= at => out'[b] = Ehdr(b, E, Len(out))
    /\ E + P <= Len(out) => \A b \in 1..P : out'[E + b] = PhdrByte(b)
    /\ E <= Len(out) =>
         \A b \in 1..Q : out'[Len(out) + b] = ShdrByte(Elf(elf.shoff + b - 1), at)
    /\ \A b \in 1..Len(Shstrtab) : out'[at + b] = Shstrtab[b]

\* Where the tables are.
TablesAt(E, P, Q, at) ==
    /\ E \in Nat \ {0} /\ P \in Nat /\ Q \in Nat /\ at \in Nat
    /\ E = size.ehdr /\ P = Len(elf.phdr) * size.phdr /\ Q = in.n_shdr * size.shdr
    /\ at = StrtabAt(Len(out)) /\ HeadersEnd = E + P
    /\ Len(out) + Q <= at /\ Q <= elf.shsize

\* Multiplication is monotonic.
LEMMA ProductFacts ==
    ASSUME NEW n \in Nat, NEW a \in Nat, NEW b \in Nat, a <= b
    PROVE  n * a \in Nat /\ n * b \in Nat /\ n * a <= n * b
<1>1. b - a \in Nat
  OBVIOUS
<1>2. n * (b - a) \in Nat /\ n * a \in Nat /\ n * b \in Nat
  BY <1>1
<1>3. n * b = n * a + n * (b - a)
  OBVIOUS
<1> QED BY <1>2, <1>3

LEMMA TablesPlaced ==
    ASSUME RoundInv, upc = "check"
    PROVE  \E E, P, Q, at : TablesAt(E, P, Q, at)
<1>1. /\ elf \in Elfs /\ in.arch64 = elf.arch64 /\ phnum \in Nat /\ phnum = Len(elf.phdr)
      /\ in.n_shdr = elf.shsize \div Sizes[elf.arch64].shdr /\ elf.shsize \in Nat
      /\ Len(out) \in Nat
  <2>1. elf \in Elfs /\ FileFields(in) /\ phnum \in Nat
    BY ReadFacts DEF PackInv, IInv, Types
  <2> QED BY <2>1, ElfFacts, CheckFacts DEF FileFields, phnum
<1>2. /\ size = Sizes[elf.arch64] /\ size.ehdr \in Nat \ {0} /\ size.phdr \in Nat
      /\ size.shdr \in Nat \ {0} /\ size.stride \in Nat /\ size.shdr <= size.stride
  BY <1>1, ClassFacts DEF size
<1>3. in.n_shdr \in Nat /\ in.n_shdr * size.shdr <= elf.shsize
  BY <1>1, <1>2, QuotientFacts
<1>4. /\ in.n_shdr * size.shdr \in Nat /\ in.n_shdr * size.stride \in Nat
      /\ in.n_shdr * size.shdr <= in.n_shdr * size.stride
  <2>1. PICK n \in Nat : n = in.n_shdr
    BY <1>3
  <2>2. PICK a \in Nat, b \in Nat : a = size.shdr /\ b = size.stride
    BY <1>2
  <2>3. a <= b
    BY <1>2, <2>2
  <2>4. n * a \in Nat /\ n * b \in Nat /\ n * a <= n * b
    BY <2>3, ProductFacts
  <2> QED BY <2>1, <2>2, <2>4
<1>5. Len(elf.phdr) * size.phdr \in Nat
  BY <1>1, <1>2
<1>6. PICK E, P, Q, at : /\ E = size.ehdr /\ P = Len(elf.phdr) * size.phdr
                         /\ Q = in.n_shdr * size.shdr /\ at = StrtabAt(Len(out))
  OBVIOUS
<1>r. PICK room : room = in.n_shdr * size.stride
  OBVIOUS
<1>7. at = Len(out) + room
  BY <1>6, <1>r DEF StrtabAt
<1>8. at \in Nat /\ Len(out) + Q <= at
  BY <1>1, <1>4, <1>6, <1>7, <1>r
<1>9. HeadersEnd = E + P
  BY <1>2, <1>6 DEF HeadersEnd
<1>10. TablesAt(E, P, Q, at)
  BY <1>2, <1>3, <1>4, <1>5, <1>6, <1>8, <1>9 DEF TablesAt
<1> QED BY <1>10

\* What is read for byte b of the section headers.
LEMMA SectionHeaders ==
    ASSUME RoundInv, upc # "idle", NEW b, b \in 1..elf.shsize
    PROVE  Peek(in.bytes, in.shdr_offset + b - 1) = Elf(elf.shoff + b - 1)
           /\ Elf(elf.shoff + b - 1) \in Bytes
<1>1. /\ pc = "done" /\ AllStored /\ in.bytes = file /\ in.shdr_offset = shdr_offset
      /\ elf \in Elfs /\ shdr_offset \in Nat
  BY ReadFacts DEF PackInv, IInv, Types, FileFields
<1>2. elf.shoff \in Nat /\ elf.shsize \in Nat
  BY <1>1, ElfFacts
<1>3. \A c \in 0..(elf.shsize - 1) : Peek(file, shdr_offset + c) = Elf(elf.shoff + c)
  BY <1>1 DEF AllStored
<1>4. b - 1 \in 0..(elf.shsize - 1) /\ elf.shoff + b - 1 \in Nat
      /\ shdr_offset + (b - 1) = shdr_offset + b - 1 /\ elf.shoff + (b - 1) = elf.shoff + b - 1
  BY <1>1, <1>2
<1>5. Peek(file, shdr_offset + b - 1) = Elf(elf.shoff + b - 1)
  BY <1>3, <1>4
<1> QED BY <1>1, <1>4, <1>5 DEF Elf, Bytes

LEMMA TablesRight ==
    ASSUME RoundInv, upc # "idle", RepairElf, NEW E, NEW P, NEW Q, NEW at, TablesAt(E, P, Q, at)
    PROVE  Tables(E, P, Q, at)
<1> DEFINE S == Bytes \cup {PhdrByte(b) : b \in Nat} \cup {Ehdr(b, E, Len(out)) : b \in Nat}
                      \cup {ShdrByte(x, at) : x \in Bytes} \cup {<<"shstrtab", b>> : b \in Nat}
<1>1. /\ E \in Nat /\ P \in Nat /\ Q \in Nat /\ at \in Nat
      /\ E = size.ehdr /\ P = Len(elf.phdr) * size.phdr /\ Q = in.n_shdr * size.shdr
      /\ at = StrtabAt(Len(out)) /\ Len(out) + Q <= at /\ Q <= elf.shsize
  BY DEF TablesAt
<1>2. upc = "check" /\ n_phdr = Len(elf.phdr) /\ elf.shsize \in Nat
  <2>1. upc = "check" /\ elf \in Elfs
    BY ReadFacts DEF RepairElf, PackInv, IInv, Types
  <2> QED BY <2>1, ReadFacts, ElfFacts DEF n_phdr, phnum
<1>3. out \in Seq(Bytes) /\ Len(out) \in Nat
  BY <1>2, CheckFacts
<1>p. PICK p : p = [b \in 1..P |-> PhdrByte(b)]
  OBVIOUS
<1>q. PICK q : q = [b \in 1..Q |-> ShdrByte(Peek(in.bytes, in.shdr_offset + b - 1), at)]
  OBVIOUS
<1>e. PICK e : e = [b \in 1..E |-> Ehdr(b, E, Len(out))]
  OBVIOUS
<1>w1. PICK w1 : w1 = Write(out, E, p)
  OBVIOUS
<1>w2. PICK w2 : w2 = Write(w1, Len(out), q)
  OBVIOUS
<1>w3. PICK w3 : w3 = Write(w2, 0, e)
  OBVIOUS
<1>4. out' = Write(w3, at, Shstrtab)
  BY <1>1, <1>2, <1>p, <1>q, <1>e, <1>w1, <1>w2, <1>w3 DEF RepairElf
<1>5. p \in Seq(S) /\ Len(p) = P
  <2>1. p \in [1..P -> S]
    BY <1>p
  <2> HIDE DEF S
  <2> QED BY <1>1, <2>1, FunctionIsSeq
<1>6. \A b \in 1..Q : q[b] = ShdrByte(Elf(elf.shoff + b - 1), at) /\ q[b] \in S
  <2> TAKE b \in 1..Q
  <2>1. b \in 1..elf.shsize
    BY <1>1, <1>2
  <2>2. Peek(in.bytes, in.shdr_offset + b - 1) = Elf(elf.shoff + b - 1)
        /\ Elf(elf.shoff + b - 1) \in Bytes
    BY <2>1, SectionHeaders
  <2>3. q[b] = ShdrByte(Elf(elf.shoff + b - 1), at)
    BY <1>q, <2>2
  <2> QED BY <2>2, <2>3
<1>7. q \in Seq(S) /\ Len(q) = Q
  <2> HIDE DEF S
  <2>1. q \in [1..Q -> S]
    BY <1>6, <1>q
  <2> QED BY <1>1, <2>1, FunctionIsSeq
<1>8. e \in Seq(S) /\ Len(e) = E
  <2>1. e \in [1..E -> S]
    BY <1>e
  <2> HIDE DEF S
  <2> QED BY <1>1, <2>1, FunctionIsSeq
<1>9. Shstrtab \in Seq(S) /\ Len(Shstrtab) = 11
  <2>1. 11 \in Nat /\ Shstrtab \in [1..11 -> S]
    BY DEF Shstrtab
  <2> HIDE DEF S
  <2> QED BY <2>1, FunctionIsSeq
<1>10. Zero \in S /\ Bytes \subseteq S
  BY DEF Bytes
<1> HIDE DEF S
<1>11. out \in Seq(S)
  BY <1>3, <1>10
<1>12. /\ Len(out') \in Nat /\ Len(out') >= Len(out) /\ Len(out') >= at + Len(Shstrtab)
       /\ \A a \in 1..Len(out) : a > E + P => out'[a] = out[a]
       /\ \A b \in 1..E : b <= at => out'[b] = e[b]
       /\ E + P <= Len(out) => \A b \in 1..P : out'[E + b] = p[b]
       /\ E <= Len(out) => \A b \in 1..Q : out'[Len(out) + b] = q[b]
       /\ \A b \in 1..Len(Shstrtab) : out'[at + b] = Shstrtab[b]
  <2>1. PICK L \in Nat : L = Len(out)
    BY <1>3
  <2>2. PICK n : n = Shstrtab
    OBVIOUS
  <2>3. PICK w : w = Write(w3, at, n)
    OBVIOUS
  <2>4. /\ n \in Seq(S) /\ Len(n) > 0 /\ L + Q <= at /\ w2 = Write(w1, L, q)
    <3>1. n \in Seq(S)
      BY <1>9, <2>2
    <3>2. Len(n) > 0
      BY <1>9, <2>2
    <3>3. L + Q <= at
      BY <1>1, <2>1
    <3>4. w2 = Write(w1, L, q)
      BY <1>w2, <2>1
    <3> QED BY <3>1, <3>2, <3>3, <3>4
  <2>5. Layered(out, p, q, e, n, at, w)
    BY <1>1, <1>5, <1>7, <1>8, <1>10, <1>11, <1>w1, <1>w3, <2>1, <2>3, <2>4, TablesWritten
  <2>6. out' = w
    BY <1>4, <2>2, <2>3
  <2> QED BY <1>5, <1>7, <1>8, <2>2, <2>5, <2>6 DEF Layered
<1>13. /\ \A b \in 1..E : e[b] = Ehdr(b, E, Len(out))
       /\ \A b \in 1..P : p[b] = PhdrByte(b)
  BY <1>e, <1>p
<1> QED BY <1>6, <1>12, <1>13 DEF Tables

\* What holds behind check_elf whatever it has done.
LEMMA CheckEnds ==
    ASSUME RoundInv, upc = "check", upc' = "done", UNCHANGED vars, OnceInv',
           UNCHANGED <<in, s, elf_offset, self_sections>>,
           PlainRoundTrip', SegmentsRecovered', RepairedReadable'
    PROVE  Unpacking'
<1>1. Unpacking /\ compression' = compression
  BY ReadFacts DEF vars
<1>2. AsRead' /\ Sourced'
  BY <1>1, SameFile DEF Unpacking, AsRead, read_section, e_phnum, Sourced, IsPieceOf
<1>3. Reached' /\ Extent' /\ PiecesHeld' /\ Continued'
  BY DEF Reached, Extent, PiecesHeld, Continued
<1>4. OnePiece'
  BY <1>1 DEF Unpacking, OnePiece, Piece
<1> QED BY <1>1, <1>2, <1>3, <1>4 DEF Unpacking

LEMMA KeepElfKeeps ==
    ASSUME RoundInv, upc # "idle", KeepElf, UNCHANGED vars
    PROVE  Unpacking'
<1>1. /\ upc = "check" /\ upc' = "done"
      /\ out = <<>> \/ out[1] = Elf(0)
      /\ UNCHANGED <<in, s, elf_offset, self_sections, out>>
      /\ UNCHANGED <<elf, compression, phdr_map>>
  BY DEF KeepElf, vars
<1>2. out[1] = Elf(0) /\ Len(out) \in Nat
  BY <1>1, CheckFacts
<1>3. ~Repaired'
  <2>1. out'[1][1] = "elf"
    BY <1>1, <1>2 DEF Elf
  <2> QED BY <2>1 DEF Repaired
<1>4. PlainRoundTrip'
  <2> SUFFICES ASSUME ~compression PROVE PlainRoundTrip'
    BY <1>1 DEF PlainRoundTrip
  <2>1. /\ Len(out) = round_up(elf.size, ALIGNMENT)
        /\ \A p \in 0..(Len(out) - 1) : OutByte(p) = IF p < elf.size THEN Elf(p) ELSE Zero
    BY <1>1, CheckPlain
  <2> QED BY <1>1, <2>1 DEF PlainRoundTrip, OutByte, Peek
<1>5. SegmentsRecovered'
  <2>1. LoadsAscend' = LoadsAscend /\ Loads' = Loads
        /\ \A n : /\ Continues(n)' = Continues(n) /\ Begin(n)' = Begin(n) /\ End(n)' = End(n)
    BY <1>1 DEF LoadsAscend, Loads, Continues, Begin, End
  <2>2. SUFFICES ASSUME compression, LoadsAscend, NEW n \in Loads,
                        phdr_map[n].compressed \/ Continues(n), NEW p \in Begin(n)..(End(n) - 1)
                 PROVE  OutByte(p)' = Elf(p)
    BY <1>1, <2>1 DEF SegmentsRecovered
  <2>3. p \in Nat /\ p + 1 \in 1..Len(out) /\ out[p + 1] = Elf(p)
    BY <1>1, <2>2, SegmentBack
  <2>4. p \in 0..(Len(out) - 1)
    BY <1>2, <2>3
  <2> QED BY <1>1, <2>3, <2>4 DEF OutByte, Peek
<1>6. RepairedReadable'
  BY <1>3 DEF RepairedReadable
<1>7. OnceInv'
  BY NextOnceInv, ReadFacts DEF Unpacking, UNext
<1> QED BY <1>1, <1>4, <1>5, <1>6, <1>7, CheckEnds

LEMMA RepairElfKeeps ==
    ASSUME RoundInv, upc # "idle", RepairElf, UNCHANGED vars
    PROVE  Unpacking'
<1>1. /\ upc = "check" /\ upc' = "done"
      /\ out = <<>> \/ out[1] # Elf(0)
      /\ UNCHANGED <<in, s, elf_offset, self_sections>>
      /\ UNCHANGED <<elf, compression, phdr_map>>
  BY DEF RepairElf, vars
<1>2. /\ out \in Seq(Bytes) /\ Len(out) \in Nat /\ in.filesize <= Len(out) /\ Len(out) > 0
      /\ in.filesize \in Nat /\ in.filesize = round_up(elf.size, ALIGNMENT)
  BY <1>1, CheckFacts, ReadFacts DEF FileFields
<1>3. compression
  BY <1>1, <1>2, CheckFacts, CheckPlain
<1>4. PICK E, P, Q, at : TablesAt(E, P, Q, at)
  BY <1>1, TablesPlaced
<1>5. Tables(E, P, Q, at)
  BY <1>4, TablesRight
<1>6. /\ E \in Nat \ {0} /\ P \in Nat /\ Q \in Nat /\ at \in Nat
      /\ E = size.ehdr /\ P = Len(elf.phdr) * size.phdr /\ Q = in.n_shdr * size.shdr
      /\ HeadersEnd = E + P /\ Len(out) + Q <= at
  BY <1>4 DEF TablesAt
<1>7. size' = size /\ HeadersEnd' = HeadersEnd
  BY <1>1 DEF size, HeadersEnd
<1>8. Len(out') \in Nat /\ Len(out') >= Len(out) /\ Len(out') >= at + 11 /\ Len(Shstrtab) = 11
  <2>1. Len(Shstrtab) = 11
    BY DEF Shstrtab
  <2> QED BY <1>5, <2>1 DEF Tables
<1>9. out'[1] = Ehdr(1, E, Len(out))
  <2>1. 1 \in 1..E /\ 1 <= at
    BY <1>2, <1>6
  <2> QED BY <1>5, <2>1 DEF Tables
<1>10. Repaired'
  <2>1. out' # <<>>
    BY <1>2, <1>8
  <2> QED BY <1>1, <1>9, <2>1 DEF Repaired, Ehdr
<1>11. SegmentsRecovered'
  <2>1. LoadsAscend' = LoadsAscend /\ Loads' = Loads
        /\ \A n : /\ Continues(n)' = Continues(n) /\ Begin(n)' = Begin(n) /\ End(n)' = End(n)
    BY <1>1 DEF LoadsAscend, Loads, Continues, Begin, End
  <2>2. \A n : Kept(n)' => Begin(n) >= HeadersEnd
    BY <1>7, <1>10, <2>1 DEF Kept
  <2>3. SUFFICES ASSUME LoadsAscend, NEW n \in Loads, Begin(n) >= HeadersEnd,
                        phdr_map[n].compressed \/ Continues(n), NEW p \in Begin(n)..(End(n) - 1)
                 PROVE  OutByte(p)' = Elf(p)
    BY <1>1, <2>1, <2>2 DEF SegmentsRecovered
  <2>4. p \in Nat /\ p + 1 \in 1..Len(out) /\ out[p + 1] = Elf(p)
    BY <1>1, <1>3, <2>3, SegmentBack
  <2>5. Begin(n) \in Nat
    BY ReadFacts DEF Loads, phnum, SegmentFacts
  <2>6. p + 1 > E + P
    BY <1>6, <2>3, <2>5
  <2>7. out'[p + 1] = Elf(p)
    BY <1>5, <2>4, <2>6 DEF Tables
  <2>8. p \in 0..(Len(out') - 1)
    BY <1>2, <1>8, <2>4
  <2> QED BY <2>7, <2>8 DEF OutByte, Peek
<1>12. PlainRoundTrip'
  BY <1>1, <1>3 DEF PlainRoundTrip
<1>13. RepairedReadable'
  <2> SUFFICES ASSUME HeadersEnd <= in.filesize PROVE RepairedReadable'
    BY <1>1, <1>2, <1>7 DEF RepairedReadable
  <2>L. PICK L \in Nat : L = Len(out)
    BY <1>2
  <2>1. /\ E + P <= Len(out) /\ E <= Len(out) /\ E \in Nat /\ E > 0 /\ P \in Nat /\ Q \in Nat
        /\ at \in Nat /\ L + Q <= at /\ L >= E + P
        /\ Len(out') \in Nat /\ Len(out') >= L /\ Len(out') >= at + 11
    <3>1. E \in Nat /\ E > 0 /\ P \in Nat /\ Q \in Nat /\ at \in Nat /\ L + Q <= at
      BY <1>6, <2>L
    <3>2. E + P <= in.filesize /\ in.filesize \in Nat /\ in.filesize <= L
      BY <1>2, <1>6, <2>L
    <3>3. E + P <= L
      BY <3>1, <3>2
    <3>4. E <= L
      BY <3>1, <3>3
    <3>5. Len(out') \in Nat /\ Len(out') >= L /\ Len(out') >= at + 11
      BY <1>8, <2>L
    <3> QED BY <2>L, <3>1, <3>3, <3>4, <3>5
  <2>2. out'[1][3] = E /\ out'[1][4] = L
    BY <1>9, <2>L DEF Ehdr
  <2>3. ASSUME NEW b \in 1..E PROVE OutByte(b - 1)' = Ehdr(b, E, L)
    <3>1. b <= at /\ b - 1 \in 0..(Len(out') - 1) /\ (b - 1) + 1 = b
      BY <2>1
    <3>2. out'[b] = Ehdr(b, E, L)
      BY <1>5, <2>L, <3>1 DEF Tables
    <3> QED BY <3>1, <3>2 DEF OutByte, Peek
  <2>4. ASSUME NEW b \in 1..P PROVE OutByte(E + b - 1)' = PhdrByte(b)
    <3>1. E + b - 1 \in 0..(Len(out') - 1) /\ (E + b - 1) + 1 = E + b
      BY <2>1
    <3>2. out'[E + b] = PhdrByte(b)
      BY <1>5, <2>1 DEF Tables
    <3> QED BY <3>1, <3>2 DEF OutByte, Peek
  <2>5. ASSUME NEW b \in 1..Q
        PROVE  /\ at \in 0..(Len(out') - 1)
               /\ OutByte(L + b - 1)' = ShdrByte(Elf(elf.shoff + b - 1), at)
               /\ \A c \in 1..Len(Shstrtab) : OutByte(at + c - 1)' = Shstrtab[c]
    <3>1. at \in 0..(Len(out') - 1)
      BY <2>1
    <3>2. L + b - 1 \in 0..(Len(out') - 1) /\ (L + b - 1) + 1 = L + b
      BY <2>1
    <3>3. out'[L + b] = ShdrByte(Elf(elf.shoff + b - 1), at)
      BY <1>5, <2>1, <2>L DEF Tables
    <3>4. ASSUME NEW c \in 1..Len(Shstrtab) PROVE OutByte(at + c - 1)' = Shstrtab[c]
      <4>1. at + c - 1 \in 0..(Len(out') - 1) /\ (at + c - 1) + 1 = at + c
        BY <1>8, <2>1
      <4>2. out'[at + c] = Shstrtab[c]
        BY <1>5 DEF Tables
      <4> QED BY <4>1, <4>2 DEF OutByte, Peek
    <3>5. OutByte(L + b - 1)' = ShdrByte(Elf(elf.shoff + b - 1), at)
      BY <3>2, <3>3 DEF OutByte, Peek
    <3> QED BY <3>1, <3>4, <3>5
  <2>6. /\ size'.ehdr = E /\ Len(elf'.phdr) * size'.phdr = P /\ in'.n_shdr * size'.shdr = Q
    BY <1>1, <1>6, <1>7
  <2>7. \A b \in 1..Q : \E a \in 0..(Len(out') - 1) :
          /\ OutByte(L + b - 1)' = ShdrByte(Elf(elf'.shoff + b - 1), a)
          /\ \A c \in 1..Len(Shstrtab) : OutByte(a + c - 1)' = Shstrtab[c]
    BY <1>1, <2>5
  <2> QED BY <2>2, <2>3, <2>4, <2>6, <2>7 DEF RepairedReadable
<1>14. OnceInv'
  BY NextOnceInv, ReadFacts DEF Unpacking, UNext
<1> QED BY <1>1, <1>11, <1>12, <1>13, <1>14, CheckEnds

-----------------------------------------------------------------------------
(* There is room for all pieces *)

\* unself lists no more sections than makeself compressed.
LEMMA ListedAreCompressed ==
    ASSUME RoundInv, upc # "idle"
    PROVE  /\ Len(s) <= Cardinality({n \in Loads : phdr_map[n].compressed})
           /\ Cardinality({n \in Loads : phdr_map[n].compressed}) \in Nat
<1> DEFINE C == {n \in Loads : phdr_map[n].compressed}
           f == [n \in 1..Len(s) |-> s[n].idx]
<1>1. Len(s) \in Nat /\ phnum \in Nat /\ Listed
  BY ReadFacts DEF Unpacking, OnceInv
<1>2. C \in SUBSET (1..phnum)
  BY DEF Loads, phnum
<1>3. IsFiniteSet(C) /\ Cardinality(C) \in Nat
  <2>1. IsFiniteSet(1..phnum)
    BY <1>1, FS_Interval
  <2> QED BY <1>2, <2>1, FS_Subset, FS_CardinalityType
<1>4. \A n \in 1..Len(s) : s[n].idx \in C
  BY <1>1, ZFacts DEF Listed, ZFact
<1>5. f \in Injection(1..Len(s), C)
  <2>1. f \in [1..Len(s) -> C]
    BY <1>4
  <2>2. \A m, n \in 1..Len(s) : f[m] = f[n] => m = n
    BY <1>1 DEF Listed
  <2> HIDE DEF f, C
  <2> QED BY <2>1, <2>2 DEF Injection, IsInjective
<1>6. Cardinality(1..Len(s)) = Len(s)
  <2>1. PICK k \in Nat : k = Len(s)
    BY <1>1
  <2>2. Cardinality(1..k) = IF 1 > k THEN 0 ELSE k - 1 + 1
    BY FS_Interval
  <2>3. Cardinality(1..k) = k
    BY <2>2
  <2> QED BY <2>1, <2>3
<1>7. Cardinality(1..Len(s)) <= Cardinality(C)
  <2> HIDE DEF f, C
  <2> QED BY <1>3, <1>5, FS_Injection
<1> QED BY <1>3, <1>6, <1>7

-----------------------------------------------------------------------------
(* The invariant of both tools holds *)

LEMMA StartRests == Start => RoundInv
BY InitPacks DEF Start, RoundInv, Resting

\* makeself has nothing to do any more once the file is there.
LEMMA DoneIsEnd == pc = "done" => ~Next
BY DEF Next, FillPhdrMap, Mapping, MapPlain, MapCompressed, MapEnd, Alloc, WriteSegment,
       WriteRest, WriteFile

LEMMA PackRests ==
    ASSUME RoundInv, Pack
    PROVE  RoundInv'
<1>1. Next /\ UNCHANGED uvars /\ PackInv
  BY DEF Pack, RoundInv
<1>2. upc = "idle"
  BY <1>1, DoneIsEnd DEF RoundInv
<1>3. PackInv'
  BY <1>1, NextPacks
<1> QED BY <1>1, <1>2, <1>3 DEF RoundInv, Resting, uvars

\* What InitOnceInv says of a state is true of the next one, too.
LEMMA OpenedOnce == \A f : Readable(f) /\ InitWith(f) => OnceInv
BY InitOnceInv

LEMMA OpenedOnceNext == (\A f : Readable(f) /\ InitWith(f) => OnceInv)'
BY OpenedOnce, PTL

LEMMA OpenUnpacks ==
    ASSUME RoundInv, Open
    PROVE  RoundInv'
<1>1. /\ pc = "done" /\ upc = "idle" /\ in' = SelfFile /\ upc' = "headers" /\ UNCHANGED vars
      /\ UNCHANGED <<s, ui, elf_offset, self_offset, self_sections, out>>
  BY DEF Open
<1>2. PackInv /\ Resting
  BY <1>1 DEF RoundInv
<1>3. PackInv'
  BY <1>1, <1>2, NextPacks
<1>4. pc' = "done" /\ SelfFile' = SelfFile
  BY <1>1 DEF SelfFile, vars
<1>5. OnceInv'
  <2>1. Readable(SelfFile)
    BY <1>1, <1>2, SelfFileReadable
  <2>2. PICK f : f = SelfFile
    OBVIOUS
  <2>3. Readable(f)'
    BY <2>1, <2>2 DEF Readable
  <2>4. InitWith(f)'
    BY <1>1, <1>2, <2>2 DEF InitWith, Resting
  <2> QED BY <2>3, <2>4, OpenedOnceNext
<1>6. /\ s' = <<>> /\ self_sections' = <<>> /\ out' = <<>> /\ elf_offset' = 0
  BY <1>1, <1>2 DEF Resting
<1>7. AsRead' /\ Sourced'
  BY <1>6 DEF AsRead, Sourced
<1>8. Reached' /\ Extent' /\ OnePiece' /\ PiecesHeld' /\ Continued'
  BY <1>1, <1>6 DEF Reached, Extent, OnePiece, PiecesHeld, Continued
<1>9. Unpacking'
  BY <1>1, <1>5, <1>7, <1>8, NotYetOut DEF Unpacking
<1> QED BY <1>1, <1>3, <1>4, <1>9 DEF RoundInv

\* There is room for the pieces where unself would leave an array.
LEMMA OverrunKeeps ==
    ASSUME RoundInv, upc # "idle", Overrun, UNCHANGED vars
    PROVE  Unpacking'
<1>1. /\ upc' = "overrun"
      /\ UNCHANGED <<in, s, ui, elf_offset, self_offset, self_sections, out>>
  BY DEF Overrun
<1>2. Unpacking /\ OnceInv' /\ compression' = compression
  BY NextOnceInv, ReadFacts DEF Unpacking, UNext, vars
<1>3. AsRead' /\ Sourced'
  BY <1>1, <1>2, SameFile DEF Unpacking, AsRead, read_section, e_phnum, Sourced, IsPieceOf
<1>4. Reached' /\ Extent' /\ OnePiece' /\ PiecesHeld' /\ Continued'
  BY <1>1, <1>2 DEF Unpacking, Reached, Extent, OnePiece, PiecesHeld, Continued
<1>5. PlainRoundTrip' /\ RepairedReadable'
  BY <1>1 DEF PlainRoundTrip, RepairedReadable, Repaired
<1>6. ~Enough(Len(s))
  <2>1. WalkInv' /\ Narrow' = Narrow
    BY <1>1, <1>2, SameFile DEF OnceInv
  <2> QED BY <1>1, <2>1, PackedIsNarrow DEF WalkInv, Bound, PiecesBounded, Enough
<1> DEFINE C == {n \in Loads : phdr_map[n].compressed}
<1>7. ~Enough(Cardinality(C))
  <2>1. Len(s) <= Cardinality(C) /\ Cardinality(C) \in Nat /\ Len(s) \in Nat
    BY <1>2, ListedAreCompressed, ReadFacts
  <2> HIDE DEF C
  <2> QED BY <1>6, <2>1, MaxAssumption DEF Enough
<1>8. SegmentsRecovered'
  <2>1. C' = C
    BY DEF vars, Loads
  <2>2. ~Enough(Cardinality(C))'
    BY <1>7, <2>1 DEF Enough
  <2> QED BY <2>2 DEF SegmentsRecovered
<1> QED BY <1>1, <1>2, <1>3, <1>4, <1>5, <1>8 DEF Unpacking

LEMMA StepUnpacks ==
    ASSUME RoundInv, UNext, UNCHANGED vars
    PROVE  Unpacking'
<1>1. upc # "idle"
  BY DEF UNext, ReadHeader, Sort, Rest, Compressed, Gap, Overrun, WalkEnd, WritePlain, WriteUnpacked,
         InflateFails, WriteEnd, KeepElf, RepairElf, Walking, Writing
<1>2. OnceInv'
  BY <1>1, NextOnceInv, ReadFacts DEF Unpacking
<1>3. CASE Rest \/ Compressed \/ Gap
  <2>1. PICK x : Turn(x)
    BY <1>1, <1>3, RestTurns, CompressedTurns, GapTurns
  <2> QED BY <1>1, <1>2, <2>1, TurnKeeps
<1>4. CASE WritePlain
  <2>1. PICK x : PieceStep(x, Content)
    BY <1>1, <1>4, WritePlainStep
  <2>2. PICK bytes : bytes = Content
    OBVIOUS
  <2>3. PieceStep(x, bytes)
    BY <2>1, <2>2
  <2> QED BY <1>1, <1>2, <2>3, PieceKeeps
<1>5. CASE WriteUnpacked
  <2>1. PICK x : PieceStep(x, Unpacked)
    BY <1>1, <1>5, WriteUnpackedStep
  <2>2. PICK bytes : bytes = Unpacked
    OBVIOUS
  <2>3. PieceStep(x, bytes)
    BY <2>1, <2>2
  <2> QED BY <1>1, <1>2, <2>3, PieceKeeps
<1>6. ~InflateFails
  BY <1>1, NoFailure
<1> QED BY <1>1, <1>3, <1>4, <1>5, <1>6, ReadHeaderKeeps, SortKeepsAll, OverrunKeeps, WalkEndKeeps, WriteEndKeeps,
           KeepElfKeeps, RepairElfKeeps DEF UNext

LEMMA UnpackUnpacks ==
    ASSUME RoundInv, Unpack
    PROVE  RoundInv'
<1>1. UNext /\ UNCHANGED vars
  BY DEF Unpack
<1>2. upc # "idle"
  BY <1>1 DEF UNext, ReadHeader, Sort, Rest, Compressed, Gap, Overrun, WalkEnd, WritePlain, WriteUnpacked,
         InflateFails, WriteEnd, KeepElf, RepairElf, Walking, Writing
<1>3. PackInv /\ PackInv' /\ pc = "done" /\ in = SelfFile
  BY <1>1, <1>2, NextPacks DEF RoundInv
<1>4. pc' = "done" /\ SelfFile' = SelfFile /\ in' = in
  BY <1>1, <1>3 DEF SelfFile, vars, UNext, ReadHeader, Sort, Rest, Compressed, Gap, Overrun, WalkEnd,
     WritePlain, WriteUnpacked, InflateFails, WriteEnd, KeepElf, RepairElf, TakeWhole, TakeGap, Take
<1>5. Unpacking'
  BY <1>1, StepUnpacks
<1>6. upc' # "idle"
  BY <1>5 DEF Unpacking, OnceInv, WalkInv
<1> QED BY <1>3, <1>4, <1>5, <1>6 DEF RoundInv

LEMMA RestStays ==
    ASSUME RoundInv, UNCHANGED both
    PROVE  RoundInv'
<1>1. UNCHANGED vars /\ UNCHANGED uvars
  BY DEF both
<1>2. PackInv'
  BY <1>1, NextPacks DEF RoundInv
<1>3. CASE upc = "idle"
  BY <1>1, <1>2, <1>3 DEF RoundInv, Resting, uvars
<1>4. CASE upc # "idle"
  <2>1. UNCHANGED <<elf, compression, pc, phdr_map, shdr_offset, file>>
    BY <1>1 DEF vars
  <2>2. UNCHANGED <<in, upc, s, ui, elf_offset, self_offset, self_sections, out>>
    BY <1>1 DEF uvars
  <2>3. Unpacking /\ pc = "done" /\ in = SelfFile
    BY <1>4 DEF RoundInv
  <2>4. OnceInv'
    BY <1>1, <2>3, NextOnceInv DEF Unpacking
  <2>5. Unpacking'
    <3>1. AsRead' /\ Sourced'
      BY <2>2, <2>3, SameFile DEF Unpacking, AsRead, read_section, e_phnum, Sourced, IsPieceOf
    <3>2. Reached' /\ Extent' /\ OnePiece'
      BY <2>1, <2>2, <2>3 DEF Unpacking, Reached, LastPiece, PieceStop, Extent, OnePiece, Piece
    <3>3. PiecesHeld'
      BY <2>2, <2>3, SameFile DEF Unpacking, PiecesHeld, Holds, PieceByte
    <3>4. Continuing' = Continuing /\ LoadsAscend' = LoadsAscend
      BY <2>1 DEF Continuing, Loads, Continues, Begin, End, LoadsAscend
    <3>5. Continued'
      BY <2>1, <2>2, <2>3, <3>4 DEF Unpacking, Continued, Coming, Here, Came, Begin
    <3>6. PlainRoundTrip'
      BY <2>1, <2>2, <2>3 DEF Unpacking, PlainRoundTrip, OutByte
    <3>7. Repaired' = Repaired /\ HeadersEnd' = HeadersEnd /\ size' = size /\ Loads' = Loads
          /\ \A n : /\ Continues(n)' = Continues(n) /\ Begin(n)' = Begin(n) /\ End(n)' = End(n)
                    /\ OutByte(n)' = OutByte(n)
      BY <2>1, <2>2 DEF Repaired, HeadersEnd, size, Loads, Continues, Begin, End, OutByte
    <3>8. SegmentsRecovered'
      BY <2>1, <2>2, <2>3, <3>4, <3>7 DEF Unpacking, SegmentsRecovered, Kept
    <3>9. RepairedReadable'
      BY <2>1, <2>2, <2>3, <3>7 DEF Unpacking, RepairedReadable, OutByte, size
    <3> QED BY <2>2, <2>3, <2>4, <3>1, <3>2, <3>3, <3>5, <3>6, <3>8, <3>9 DEF Unpacking
  <2>6. SelfFile' = SelfFile
    BY <2>1 DEF SelfFile
  <2> QED BY <1>2, <1>4, <2>1, <2>2, <2>3, <2>5, <2>6 DEF RoundInv
<1> QED BY <1>3, <1>4

\* The invariant of makeself followed by unself.
THEOREM RoundInvHolds == RoundTrip => []RoundInv
<1>1. Start => RoundInv
  BY StartRests
<1>2. RoundInv /\ [Step]_both => RoundInv'
  BY PackRests, OpenUnpacks, UnpackUnpacks, RestStays DEF Step
<1>3. QED
  BY <1>1, <1>2, PTL DEF RoundTrip

\* Without -c what makeself packs comes out of unself as it was, padded with
\* zeros: main() of both with write_elf() and check_elf().
THEOREM PlainComesBack == RoundTrip => []PlainRoundTrip
<1>1. RoundInv => PlainRoundTrip
  BY DEF RoundInv, Unpacking, Resting, PlainRoundTrip
<1>2. QED
  BY <1>1, RoundInvHolds, PTL

\* With -c every compressed segment comes out of unself, and so does one that
\* continues it, unless check_elf() writes its headers there; decompress()
\* never fails, and the arrays of read_sections() suffice where fewer than 128
\* segments are compressed.
THEOREM SegmentsComeBack == RoundTrip => []SegmentsRecovered
<1>1. RoundInv => SegmentsRecovered
  BY DEF RoundInv, Unpacking, Resting, SegmentsRecovered
<1>2. QED
  BY <1>1, RoundInvHolds, PTL

\* The tables that check_elf() writes are where its ELF header says, whole.
THEOREM RepairedIsReadable == RoundTrip => []RepairedReadable
<1>1. RoundInv => RepairedReadable
  BY DEF RoundInv, Unpacking, Resting, RepairedReadable, Repaired
<1>2. QED
  BY <1>1, RoundInvHolds, PTL

-----------------------------------------------------------------------------
(* Part four: the header that makeself lays out *)

\* round_up returns the least multiple that is not below its argument, for
\* the two alignments that the layout uses.
LEMMA RoundUpInHeader ==
    ASSUME NEW x \in Nat
    PROVE  /\ round_up(x, 32) \in Nat
           /\ round_up(x, 32) >= x
           /\ round_up(x, 32) < x + 32
           /\ round_up(x, 32) % 32 = 0
           /\ round_up(x, 128) \in Nat
           /\ round_up(x, 128) >= x
BY DEF round_up

\* A multiple of 32 is its own round_up: version_offset needs no padding.
LEMMA RoundUpOfMultiple ==
    ASSUME NEW x \in Nat, x % 32 = 0, NEW n \in Nat
    PROVE  round_up(x + n * 32, 32) = x + n * 32
BY DEF round_up

\* A number of program headers times the size of one is a natural number.
LEMMA ProductIsNat ==
    ASSUME NEW a \in Nat, NEW b \in Nat
    PROVE  a * b \in Nat
OBVIOUS

Headers == [e_phnum : Nat, e_ehsize : Nat, e_phentsize : Nat]

\* The fields of the ELF header are natural numbers.
LEMMA HeaderType ==
    ASSUME header \in [e_phnum : PhNums, e_ehsize : EhSizes, e_phentsize : PhEntSizes]
    PROVE  header \in Headers
<1>1. MAX_PHDR \in Nat /\ MAX_U16 \in Nat
  BY DEF MAX_PHDR, MAX_U16
<1>2. PhNums \subseteq Nat /\ EhSizes \subseteq Nat /\ PhEntSizes \subseteq Nat
  BY <1>1, LayoutAssumption
<1>3. QED
  BY <1>2 DEF Headers

-----------------------------------------------------------------------------
\* What the later calls need of the offsets: each piece starts where the one
\* before it has ended, or later.
Ordered(h, l) ==
    /\ l \in Layouts
    /\ l.info = 112 /\ l.elf = 144 /\ l.phdr = 144 + h.e_ehsize
    /\ l.phdr + h.e_phnum * h.e_phentsize <= l.sec
    /\ l.version = l.sec + 32 * h.e_phnum
    /\ l.version + 16 <= l.ctrl
    /\ l.ctrl + 112 <= l.meta
    /\ l.meta_header_size = 176 + 176 * h.e_phnum
    /\ l.meta + l.meta_header_size <= l.header_size

\* The offsets that main() computes come in the order of the file, each behind
\* the end of the piece before it.
LEMMA LayoutOrdered ==
    ASSUME NEW h \in Headers
    PROVE  Ordered(h, LayoutOf(h))
<1> DEFINE phdr    == 144 + h.e_ehsize
           mhs     == 128 + h.e_phnum * 176 + 48
           table   == h.e_phentsize * h.e_phnum
           sec     == round_up(phdr + table, 32)
           version == round_up(sec + h.e_phnum * 32, 32)
           ctrl    == round_up(version + 16, 32)
           meta    == round_up(ctrl + 112, 32)
           total    == round_up(meta + mhs, 128)
<1>1. /\ h.e_phnum \in Nat /\ h.e_ehsize \in Nat /\ h.e_phentsize \in Nat
      /\ phdr \in Nat /\ mhs \in Nat
  BY DEF Headers
<1>2. table \in Nat /\ table = h.e_phnum * h.e_phentsize
  BY <1>1, ProductIsNat
<1>3. sec \in Nat /\ sec >= phdr + table /\ sec % 32 = 0
  <2> HIDE DEF table, phdr
  <2>1. phdr + table \in Nat
    BY <1>1, <1>2
  <2>2. QED
    BY <2>1, RoundUpInHeader
<1>4. version = sec + 32 * h.e_phnum
  <2> HIDE DEF sec
  <2>1. version = sec + h.e_phnum * 32
    BY <1>1, <1>3, RoundUpOfMultiple
  <2> HIDE DEF version
  <2>2. QED
    BY <1>1, <1>3, <2>1
<1>5. version \in Nat /\ ctrl \in Nat /\ ctrl >= version + 16
  <2> HIDE DEF version, sec
  <2>1. version \in Nat /\ version + 16 \in Nat
    BY <1>1, <1>3, <1>4
  <2>2. QED
    BY <2>1, RoundUpInHeader
<1>6. meta \in Nat /\ meta >= ctrl + 112
  <2> HIDE DEF ctrl
  <2>1. ctrl + 112 \in Nat
    BY <1>5
  <2>2. QED
    BY <1>5, <2>1, RoundUpInHeader
<1>7. total \in Nat /\ total >= meta + mhs
  <2> HIDE DEF meta, mhs
  <2>1. meta + mhs \in Nat
    BY <1>1, <1>6
  <2>2. QED
    BY <2>1, RoundUpInHeader
<1>8. LayoutOf(h) = [meta_header_size |-> mhs, info |-> 112, elf |-> 144, phdr |-> phdr,
                     sec |-> sec, version |-> version, ctrl |-> ctrl, meta |-> meta,
                     header_size |-> total]
  BY DEF LayoutOf, HDR_ALIGNMENT
<1>9. QED
  <2> HIDE DEF sec, version, ctrl, meta, total, table
  <2>1. QED
    BY <1>1, <1>2, <1>3, <1>4, <1>5, <1>6, <1>7, <1>8 DEF Ordered, Layouts

\* No two of the eight pieces overlap, and each ends before header_size; all
\* but the metadata end before the end of the signed prefix.
LEMMA CopiesApart ==
    ASSUME NEW h \in Headers, NEW l, Ordered(h, l)
    PROVE  /\ \A m, j \in 1..8 : m # j => Disjoint(Copies(h, l)[m], Copies(h, l)[j])
           /\ \A j \in 1..8 : /\ Copies(h, l)[j].off \in Nat
                              /\ Copies(h, l)[j].len \in Nat
                              /\ EndOf(Copies(h, l)[j]) <= l.header_size
                              /\ Copies(h, l)[j].what \notin InMeta
                              /\ j # 7 => EndOf(Copies(h, l)[j]) <= SigLen(l)
                              /\ j = 7 => Copies(h, l)[j].what = "meta"
<1> DEFINE n     == h.e_phnum
           table == h.e_phnum * h.e_phentsize
           C     == Copies(h, l)
<1>1. n \in Nat /\ h.e_ehsize \in Nat /\ table \in Nat
  BY ProductIsNat DEF Headers
<1>2. /\ C[1] = Part("sce", 0, 112) /\ C[2] = Part("info", l.info, 32)
      /\ C[3] = Part("version", l.version, 16) /\ C[4] = Part("ctrl", l.ctrl, 112)
      /\ C[5] = Part("sec", l.sec, n * 32) /\ C[6] = Part("phdr", l.phdr, table)
      /\ C[7] = Part("meta", l.meta, l.meta_header_size)
      /\ C[8] = Part("elf", l.elf, h.e_ehsize)
  BY DEF Copies
<1>3. /\ l.sec \in Nat /\ l.version \in Nat /\ l.ctrl \in Nat /\ l.meta \in Nat
      /\ l.header_size \in Nat /\ l.meta_header_size = 176 + 176 * n
      /\ l.info = 112 /\ l.elf = 144 /\ l.phdr = 144 + h.e_ehsize
      /\ l.phdr + table <= l.sec /\ l.version = l.sec + 32 * n
      /\ l.version + 16 <= l.ctrl /\ l.ctrl + 112 <= l.meta
      /\ l.meta + l.meta_header_size <= l.header_size
  BY DEF Ordered, Layouts
<1>4. /\ C[1].off = 0 /\ C[1].len = 112 /\ C[2].off = 112 /\ C[2].len = 32
      /\ C[3].off = l.version /\ C[3].len = 16 /\ C[4].off = l.ctrl /\ C[4].len = 112
      /\ C[5].off = l.sec /\ C[5].len = n * 32 /\ C[6].off = l.phdr /\ C[6].len = table
      /\ C[7].off = l.meta /\ C[7].len = l.meta_header_size
      /\ C[8].off = 144 /\ C[8].len = h.e_ehsize
  BY <1>2, <1>3 DEF Part
<1>5. /\ \A j \in 1..8 : C[j].what \notin InMeta
      /\ C[7].what = "meta"
  BY <1>2 DEF Part, InMeta
<1> HIDE DEF n, table, C
<1>6. \A m, j \in 1..8 : m # j => Disjoint(C[m], C[j])
  BY <1>1, <1>3, <1>4 DEF Disjoint, EndOf
<1>7. \A j \in 1..8 : C[j].off \in Nat /\ C[j].len \in Nat
  BY <1>1, <1>3, <1>4
<1>8. \A j \in 1..8 : EndOf(C[j]) <= l.header_size /\ (j # 7 => EndOf(C[j]) <= SigLen(l))
  BY <1>1, <1>3, <1>4 DEF EndOf, SigLen
<1>9. QED
  BY <1>5, <1>6, <1>7, <1>8 DEF C

\* The hash of section i is inside the metadata and below the signature, and
\* meets no slot or entry of any section but its own place.
LEMMA HashSlotApart ==
    ASSUME NEW h \in Headers, NEW l, Ordered(h, l), NEW m \in 0..(h.e_phnum - 1)
    PROVE  /\ HashSlot(h, l, m).off \in Nat /\ HashSlot(h, l, m).len \in Nat
           /\ HashSlot(h, l, m).what = "hash"
           /\ Inside(HashSlot(h, l, m), Part("meta", l.meta, l.meta_header_size))
           /\ EndOf(HashSlot(h, l, m)) <= SigLen(l)
           /\ EndOf(HashSlot(h, l, m)) <= l.header_size
           /\ \A j \in 0..(h.e_phnum - 1) :
                /\ \A q \in {SectionEntry(h, l, j), HmacKeySlot(h, l, j),
                             KeySlot(h, l, j), IvSlot(h, l, j)} :
                      Disjoint(HashSlot(h, l, m), q)
                /\ HashSlot(h, l, m) # HashSlot(h, l, j)
                      => Disjoint(HashSlot(h, l, m), HashSlot(h, l, j))
<1>1. /\ h.e_phnum \in Nat /\ l.meta \in Nat /\ l.header_size \in Nat
      /\ l.meta_header_size = 176 + 176 * h.e_phnum
      /\ l.meta + l.meta_header_size <= l.header_size
  BY DEF Ordered, Layouts, Headers
<1>2. /\ HashSlot(h, l, m).off = l.meta + 128 + 48 * h.e_phnum + 128 * m
      /\ HashSlot(h, l, m).len = 32
      /\ HashSlot(h, l, m).what = "hash"
  BY <1>1 DEF HashSlot, KeysAt, Part
<1>3. Inside(HashSlot(h, l, m), Part("meta", l.meta, l.meta_header_size))
  BY <1>1, <1>2 DEF Inside, EndOf, Part
<1>4. ASSUME NEW j \in 0..(h.e_phnum - 1)
      PROVE  /\ Disjoint(HashSlot(h, l, m), SectionEntry(h, l, j))
             /\ Disjoint(HashSlot(h, l, m), HmacKeySlot(h, l, j))
             /\ Disjoint(HashSlot(h, l, m), KeySlot(h, l, j))
             /\ Disjoint(HashSlot(h, l, m), IvSlot(h, l, j))
             /\ m # j => Disjoint(HashSlot(h, l, m), HashSlot(h, l, j))
  BY <1>1, <1>2
     DEF Disjoint, EndOf, Part, SectionEntry, HmacKeySlot, KeySlot, IvSlot, HashSlot, KeysAt
<1>5. EndOf(HashSlot(h, l, m)) <= SigLen(l) /\ EndOf(HashSlot(h, l, m)) <= l.header_size
  BY <1>1, <1>2 DEF EndOf, SigLen
<1>6. QED
  BY <1>1, <1>2, <1>3, <1>4, <1>5

\* r and s lie in the last 48 bytes of the metadata.
LEMMA SignatureApart ==
    ASSUME NEW h \in Headers, NEW l, Ordered(h, l)
    PROVE  /\ SigLen(l) \in Nat
           /\ Disjoint(SigR(l), SigS(l))
           /\ \A p \in {SigR(l), SigS(l)} :
                /\ p.what \in {"r", "s"}
                /\ p.off \in Nat /\ p.len \in Nat
                /\ p.off >= SigLen(l)
                /\ Inside(p, Part("meta", l.meta, l.meta_header_size))
                /\ EndOf(p) <= l.header_size
BY DEF Ordered, Layouts, Headers, SigLen, SigR, SigS, Part, Disjoint, Inside, EndOf

-----------------------------------------------------------------------------
(* The inductive invariant: after Layout the offsets are those of LayoutOf, *)
(* and whatever has been written is one of the pieces named above.          *)

IsCopy(p)      == \E j \in 1..8 : p = Copies(header, lay)[j]
IsHash(p)      == \E m \in 0..(header.e_phnum - 1) : p = HashSlot(header, lay, m)
IsSignature(p) == p = SigR(lay) \/ p = SigS(lay)

LayoutInv ==
    /\ call \in {"layout", "build_hdr", "calculate_hashes", "done"}
    /\ header \in [e_phnum : PhNums, e_ehsize : EhSizes, e_phentsize : PhEntSizes]
    /\ step \in Nat
    /\ call = "layout" => lay = NoLayout /\ written = {}
    /\ call # "layout" => lay = LayoutOf(header)
    /\ call = "build_hdr" => step >= 1
    /\ \A p \in written : IsCopy(p) \/ IsHash(p) \/ IsSignature(p)
    /\ call = "done" => SigR(lay) \in written /\ SigS(lay) \in written

\* The invariant holds before main() has computed anything.
LEMMA InitLayoutInv == LayoutInit => LayoutInv
BY DEF LayoutInit, LayoutInv

\* Every memcpy of makeself keeps the invariant.
LEMMA NextLayoutInv == LayoutInv /\ [LayoutNext]_layoutVars => LayoutInv'
<1> SUFFICES ASSUME LayoutInv, [LayoutNext]_layoutVars PROVE LayoutInv'
  OBVIOUS
<1>1. CASE Layout
  BY <1>1 DEF LayoutInv, Layout
<1>2. CASE BuildHdr
  <2>1. step \in 1..8
    BY <1>2 DEF LayoutInv, BuildHdr
  <2>2. IsCopy(Copies(header, lay)[step])
    BY <2>1 DEF IsCopy
  <2>3. QED
    BY <1>2, <2>2 DEF LayoutInv, BuildHdr, IsCopy, IsHash, IsSignature
<1>3. CASE BuildHdrEnd
  BY <1>3 DEF LayoutInv, BuildHdrEnd, IsCopy, IsHash, IsSignature
<1>4. CASE CalculateHash
  <2>1. step \in 0..(header.e_phnum - 1)
    <3>1. header.e_phnum \in Nat
      BY HeaderType DEF LayoutInv, Headers
    <3>2. QED
      BY <1>4, <3>1 DEF LayoutInv, CalculateHash
  <2>2. IsHash(HashSlot(header, lay, step))
    BY <2>1 DEF IsHash
  <2>3. QED
    BY <1>4, <2>2 DEF LayoutInv, CalculateHash, IsCopy, IsHash, IsSignature
<1>5. CASE SignHdr
  BY <1>5 DEF LayoutInv, SignHdr, IsCopy, IsHash, IsSignature
<1>6. CASE UNCHANGED layoutVars
  BY <1>6 DEF LayoutInv, layoutVars, IsCopy, IsHash, IsSignature
<1>7. QED
  BY <1>1, <1>2, <1>3, <1>4, <1>5, <1>6 DEF LayoutNext

\* The inductive invariant holds in every state of makeself, for every ELF header.
THEOREM LayoutHolds == LayoutSpec => []LayoutInv
BY InitLayoutInv, NextLayoutInv, PTL DEF LayoutSpec

-----------------------------------------------------------------------------
\* What holds of each piece that is written once main() has the offsets.
LEMMA WrittenPieces ==
    ASSUME LayoutInv, NEW p \in written
    PROVE  /\ call # "layout" /\ header \in Headers /\ Ordered(header, lay)
           /\ p.off \in Nat /\ p.len \in Nat
           /\ EndOf(p) <= lay.header_size
           /\ p.what \notin InMeta => IsCopy(p)
           /\ p.what = "hash" => IsHash(p)
           /\ p.what \in {"r", "s"} => IsSignature(p)
           /\ p.what \notin {"r", "s", "meta"} => EndOf(p) <= SigLen(lay)
<1>1. call # "layout" /\ header \in Headers /\ Ordered(header, lay)
  BY HeaderType, LayoutOrdered DEF LayoutInv
<1>2. CASE IsCopy(p)
  <2>1. PICK j \in 1..8 : p = Copies(header, lay)[j]
    BY <1>2 DEF IsCopy
  <2>2. /\ p.off \in Nat /\ p.len \in Nat /\ EndOf(p) <= lay.header_size
        /\ p.what \notin InMeta
        /\ j # 7 => EndOf(p) <= SigLen(lay)
        /\ j = 7 => p.what = "meta"
    BY <1>1, <2>1, CopiesApart
  <2>3. QED
    BY <1>1, <1>2, <2>2 DEF InMeta
<1>3. CASE IsHash(p)
  <2>1. PICK m \in 0..(header.e_phnum - 1) : p = HashSlot(header, lay, m)
    BY <1>3 DEF IsHash
  <2>2. QED
    BY <1>1, <1>3, <2>1, HashSlotApart DEF InMeta
<1>4. CASE IsSignature(p)
  BY <1>1, <1>4, SignatureApart DEF IsSignature, InMeta
<1>5. QED
  BY <1>2, <1>3, <1>4 DEF LayoutInv

\* The state of the layout is well typed in every run.
THEOREM LayoutTypeCorrect == LayoutSpec => []LayoutTypeOK
<1>1. LayoutInv => LayoutTypeOK
  <2> SUFFICES ASSUME LayoutInv PROVE LayoutTypeOK
    OBVIOUS
  <2>1. lay \in Layouts
    <3>1. CASE call = "layout"
      BY <3>1 DEF LayoutInv, NoLayout, Layouts
    <3>2. CASE call # "layout"
      BY <3>2, HeaderType, LayoutOrdered DEF LayoutInv, Ordered
    <3>3. QED
      BY <3>1, <3>2
  <2>2. \A p \in written : p.off \in Nat /\ p.len \in Nat
    BY WrittenPieces
  <2>3. QED
    BY <2>1, <2>2 DEF LayoutInv, LayoutTypeOK
<1>2. QED
  BY <1>1, LayoutHolds, PTL

\* No memcpy of build_hdr destroys what another one wrote, for every ELF header.
THEOREM PiecesStayApart == LayoutSpec => []PiecesApart
<1>1. LayoutInv => PiecesApart
  <2> SUFFICES ASSUME LayoutInv,
                      NEW p \in written, NEW q \in written,
                      p.what \notin InMeta, q.what \notin InMeta, p # q
               PROVE  Disjoint(p, q)
    BY DEF PiecesApart
  <2>1. header \in Headers /\ Ordered(header, lay) /\ IsCopy(p) /\ IsCopy(q)
    BY WrittenPieces
  <2>2. PICK m \in 1..8, j \in 1..8 :
             p = Copies(header, lay)[m] /\ q = Copies(header, lay)[j]
    BY <2>1 DEF IsCopy
  <2>3. QED
    BY <2>1, <2>2, CopiesApart
<1>2. QED
  BY <1>1, LayoutHolds, PTL

\* All that is written lies in front of the data at header_size.
THEOREM HeaderAlwaysFits == LayoutSpec => []HeaderFits
<1>1. LayoutInv => HeaderFits
  BY WrittenPieces DEF HeaderFits
<1>2. QED
  BY <1>1, LayoutHolds, PTL

\* No hash is stored over a key, an iv, an entry or another hash.
THEOREM HashesSpareKeys == LayoutSpec => []HashesSpareTheKeys
<1>1. LayoutInv => HashesSpareTheKeys
  <2> SUFFICES ASSUME LayoutInv, NEW p \in written, p.what = "hash"
               PROVE  /\ Inside(p, Part("meta", lay.meta, lay.meta_header_size))
                      /\ \A m \in 0..(header.e_phnum - 1) :
                           /\ \A q \in {SectionEntry(header, lay, m), HmacKeySlot(header, lay, m),
                                        KeySlot(header, lay, m), IvSlot(header, lay, m)} :
                                Disjoint(p, q)
                           /\ p # HashSlot(header, lay, m)
                                => Disjoint(p, HashSlot(header, lay, m))
    BY DEF HashesSpareTheKeys
  <2>1. header \in Headers /\ Ordered(header, lay) /\ IsHash(p)
    BY WrittenPieces
  <2>2. QED
    BY <2>1, HashSlotApart DEF IsHash
<1>2. QED
  BY <1>1, LayoutHolds, PTL

\* The signature never covers itself, and covers all of the header but itself.
THEOREM SignatureCoversHeader == LayoutSpec => []SignatureBehindSigned
<1>1. LayoutInv => SignatureBehindSigned
  <2> SUFFICES ASSUME LayoutInv, call = "done"
               PROVE  /\ SigR(lay) \in written /\ SigS(lay) \in written
                      /\ Disjoint(SigR(lay), SigS(lay))
                      /\ \A p \in written :
                           IF p.what \in {"r", "s"}
                           THEN /\ p.off >= SigLen(lay)
                                /\ Inside(p, Part("meta", lay.meta, lay.meta_header_size))
                           ELSE p.what = "meta" \/ EndOf(p) <= SigLen(lay)
    BY DEF SignatureBehindSigned
  <2>1. SigR(lay) \in written /\ SigS(lay) \in written
    BY DEF LayoutInv
  <2>2. header \in Headers /\ Ordered(header, lay)
    BY <2>1, WrittenPieces
  <2>3. ASSUME NEW p \in written, p.what \in {"r", "s"}
        PROVE  /\ p.off >= SigLen(lay)
               /\ Inside(p, Part("meta", lay.meta, lay.meta_header_size))
    BY <2>2, <2>3, WrittenPieces, SignatureApart DEF IsSignature
  <2>4. QED
    BY <2>1, <2>2, <2>3, WrittenPieces, SignatureApart
<1>2. QED
  BY <1>1, LayoutHolds, PTL

\* What unself reads behind the last section header is the version header.
THEOREM VersionIsNext == LayoutSpec => []VersionFollowsSections
<1>1. LayoutInv => VersionFollowsSections
  BY HeaderType, LayoutOrdered DEF LayoutInv, VersionFollowsSections, Ordered
<1>2. QED
  BY <1>1, LayoutHolds, PTL

=============================================================================
