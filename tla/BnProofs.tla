------------------------------- MODULE BnProofs -------------------------------
(***************************************************************************)
(* The loops of bn.c are right for every radix, every length, every choice *)
(* of the buffers and every sequence of calls; and what they leave in the  *)
(* buffers is what the operators of BigNum say, which are recursive.       *)
(***************************************************************************)
EXTENDS Bn, Lemmas

\* The inductive invariant: the sums are those of the call only because the
\* digits that a turn reads have not been overwritten by an earlier one.
IInv == TypeOK /\ w > 0 /\ UnreadIntact /\ SumSoFar

-----------------------------------------------------------------------------
\* What dig holds in either loop splits into a digit and a carry of one bit.
LEMMA DigSplits ==
    ASSUME NEW dig \in 0..(2 * RADIX - 1)
    PROVE  /\ dig % RADIX \in Digit
           /\ dig \div RADIX \in {0, 1}
           /\ dig = (dig % RADIX) + RADIX * (dig \div RADIX)
<1>1. RADIX \in Nat /\ RADIX > 1
  BY RadixAssumption
<1>2. CASE dig < RADIX
  BY <1>1, <1>2 DEF Digit
<1>3. CASE dig >= RADIX
  <2>1. dig - RADIX \in Digit
    BY <1>1, <1>3 DEF Digit
  <2>2. dig % RADIX = dig - RADIX /\ dig \div RADIX = 1
    BY <1>1, <1>3, <2>1 DEF Digit
  <2> QED BY <1>1, <2>1, <2>2
<1> QED BY <1>1, <1>2, <1>3

\* The arithmetic of one turn: a digit and carry with the right sum keep the
\* sum of everything done so far, at the next weight.
LEMMA TurnAddsUp ==
    ASSUME NEW ww \in Nat, NEW cc \in Nat, NEW v \in Int, NEW s \in Int, NEW t \in Int,
           NEW lo \in Nat, NEW hi \in Nat,
           s + cc * ww = t,
           lo + RADIX * hi = v + cc
    PROVE  (s + ww * lo) + hi * (ww * RADIX) = t + ww * v
<1>1. RADIX \in Nat
  BY RadixAssumption
<1>2. ww * (lo + RADIX * hi) = ww * (v + cc)
  OBVIOUS
<1>3. ww * (lo + RADIX * hi) = ww * lo + hi * (ww * RADIX)
  BY <1>1
<1>4. ww * (v + cc) = ww * v + cc * ww
  OBVIOUS
<1> QED BY <1>1, <1>2, <1>3, <1>4

\* Products, so that no step below has to multiply two variables.
LEMMA ProductInNat == \A p, q \in Nat : p * q \in Nat
OBVIOUS

\* A weight times a digit and a carry is the sum of both, in turn.
LEMMA WeightOfSum == \A p, q, r \in Nat : p * (q + r) = p * q + p * r
OBVIOUS

\* The same for the complement of a digit, as bn_sub_1 adds it.
LEMMA WeightOfDifference ==
    \A p, q, r, s \in Nat : p * (q + (s - 1) - r) = ((p * q + p * s) - p) - p * r
OBVIOUS

-----------------------------------------------------------------------------
\* No call has been made yet: there is nothing to be read.
LEMMA InitIInv == Init => IInv
<1> SUFFICES ASSUME Init PROVE IInv
  OBVIOUS
<1>1. LEN - 1 \in Int /\ LEN - 1 >= -1 /\ -1 \in -1..(LEN - 1)
  BY LenAssumption
<1> QED BY <1>1 DEF Init, IInv, TypeOK, UnreadIntact, SumSoFar

\* A call starts with nothing done, and with what the buffers hold.
LEMMA StartIInv ==
    ASSUME IInv, NEW o \in {"add", "sub"}, NEW cc \in {0, 1},
           Start(o, cc), o = "add" => cc = 0, o = "sub" => cc = 1
    PROVE  IInv'
<1>1. LEN - 1 \in -1..(LEN - 1)
  BY LenAssumption
<1> QED BY <1>1 DEF Start, IInv, TypeOK, UnreadIntact, SumSoFar

\* A turn of either loop: dig is the sum of a digit v, taken from the numbers
\* of the call, and the carry.
LEMMA TurnIInv ==
    ASSUME IInv, NEW v \in Int, v + c \in 0..(2 * RADIX - 1), Turn(v + c),
           op = "add" => v = before[a][i + 1] + before[b][i + 1],
           op = "sub" => v = before[a][i + 1] + (RADIX - 1) - before[b][i + 1]
    PROVE  IInv'
<1> DEFINE lo == (v + c) % RADIX
           hi == (v + c) \div RADIX
<1>1. RADIX \in Nat /\ RADIX > 1 /\ LEN \in Nat
  BY RadixAssumption, LenAssumption
<1>2. lo \in Digit /\ hi \in {0, 1} /\ v + c = lo + RADIX * hi
  BY DigSplits
<1>3. /\ i \in 0..(LEN - 1) /\ i + 1 \in 1..LEN
      /\ w \in Nat /\ sa \in Nat /\ sb \in Nat /\ sd \in Nat /\ c \in {0, 1} /\ w > 0
      /\ mem \in [Buffers -> Numbers] /\ before \in [Buffers -> Numbers]
      /\ d \in Buffers /\ a \in Buffers /\ b \in Buffers
  BY <1>1 DEF IInv, TypeOK, Turn
<1> HIDE DEF lo, hi
<1>4. before[a][i + 1] \in Digit /\ before[b][i + 1] \in Digit /\ Digit \subseteq Nat
  <2>1. before[a] \in Numbers /\ before[b] \in Numbers
    BY <1>3
  <2>2. before[a][i + 1] \in Digit /\ before[b][i + 1] \in Digit
    BY <1>3, <2>1 DEF Numbers
  <2>3. Digit \subseteq Nat
    BY <1>1 DEF Digit
  <2> QED BY <2>2, <2>3
<1>5. /\ mem' = [mem EXCEPT ![d] = [@ EXCEPT ![i + 1] = lo]]
      /\ c' = hi /\ i' = i - 1 /\ w' = w * RADIX
      /\ sa' = sa + w * before[a][i + 1] /\ sb' = sb + w * before[b][i + 1]
      /\ sd' = sd + w * lo
      /\ UNCHANGED <<op, d, a, b, pc, before>>
  BY DEF Turn, lo, hi
<1>6. w' \in Nat /\ w' > 0 /\ sa' \in Nat /\ sb' \in Nat /\ sd' \in Nat
  <2>1. w * RADIX \in Nat /\ w * RADIX > 0
    BY <1>1, <1>3
  <2>2. lo \in Nat /\ before[a][i + 1] \in Nat /\ before[b][i + 1] \in Nat
    BY <1>2, <1>4
  <2> DEFINE A == before[a][i + 1]
             B == before[b][i + 1]
  <2>3. /\ w' = w * RADIX /\ sa' = sa + w * A /\ sb' = sb + w * B /\ sd' = sd + w * lo
        /\ A \in Nat /\ B \in Nat
        /\ w \in Nat /\ sa \in Nat /\ sb \in Nat /\ sd \in Nat
    BY <1>3, <1>5, <2>2
  <2> HIDE DEF A, B
  <2>4. w * A \in Nat /\ w * B \in Nat /\ w * lo \in Nat
    BY <2>2, <2>3, ProductInNat
  <2> QED BY <2>1, <2>3, <2>4
<1>7. mem' \in [Buffers -> Numbers]
  BY <1>2, <1>3, <1>5 DEF Numbers
<1>8. TypeOK'
  <2>1. i' \in -1..(LEN - 1)
    BY <1>1, <1>3, <1>5
  <2> QED BY <1>2, <1>3, <1>5, <1>6, <1>7, <2>1 DEF IInv, TypeOK
<1>9. UnreadIntact'
  <2> SUFFICES ASSUME NEW buf \in Buffers, NEW j \in 1..(i' + 1)
               PROVE  mem'[buf][j] = before'[buf][j]
    BY DEF UnreadIntact
  <2>1. j \in 1..(i + 1) /\ j # i + 1
    BY <1>3, <1>5
  <2>2. mem'[buf][j] = mem[buf][j]
    <3>1. CASE buf = d
      BY <1>3, <1>5, <2>1, <3>1 DEF Numbers
    <3>2. CASE buf # d
      BY <1>3, <1>5, <3>2
    <3> QED BY <3>1, <3>2
  <2> QED BY <1>5, <2>1, <2>2 DEF IInv, UnreadIntact
<1>10. SumSoFar'
  <2> DEFINE A == before[a][i + 1]
             B == before[b][i + 1]
             P == w * A
             Q == w * B
             Lo == w * lo
             V == w * RADIX
             H == hi * V
  <2>1. /\ lo \in Nat /\ hi \in Nat /\ c \in Nat /\ w \in Nat /\ RADIX \in Nat
        /\ A \in Nat /\ B \in Nat /\ sd \in Nat /\ sa \in Nat /\ sb \in Nat
        /\ lo + RADIX * hi = v + c
    <3>1. A \in Nat /\ B \in Nat /\ lo \in Nat
      BY <1>2, <1>4
    <3> HIDE DEF A, B
    <3> QED BY <1>1, <1>2, <1>3, <3>1
  <2>2. /\ sa' = sa + P /\ sb' = sb + Q /\ sd' = sd + Lo
        /\ c' * w' = H /\ w' = V /\ op' = op
    BY <1>5
  <2>3. op = "add" => v = A + B
    OBVIOUS
  <2>4. op = "sub" => v = A + (RADIX - 1) - B
    OBVIOUS
  <2> HIDE DEF A, B
  <2>5. V \in Nat /\ P \in Nat /\ Q \in Nat /\ Lo \in Nat
    BY <2>1, ProductInNat
  <2>6. H \in Nat
    BY <2>1, <2>5, ProductInNat
  <2>7. CASE op = "add"
    <3>1. sd + c * w = sa + sb /\ sa + sb \in Int
      BY <2>1, <2>7 DEF IInv, SumSoFar
    <3>2. (sd + Lo) + H = (sa + sb) + w * v
      BY <2>1, <3>1, TurnAddsUp
    <3>3. w * (A + B) = P + Q
      BY <2>1, WeightOfSum
    <3>4. w * v = P + Q
      BY <2>3, <2>7, <3>3
    <3> HIDE DEF P, Q, Lo, H, V
    <3>5. (sd + Lo) + H = (sa + P) + (sb + Q)
      BY <2>1, <2>5, <2>6, <3>2, <3>4
    <3> QED BY <2>2, <2>7, <3>5 DEF SumSoFar
  <2>8. CASE op = "sub"
    <3>1. sd + c * w = (sa - sb) + w /\ (sa - sb) + w \in Int
      BY <2>1, <2>8 DEF IInv, SumSoFar
    <3>2. (sd + Lo) + H = ((sa - sb) + w) + w * v
      BY <2>1, <3>1, TurnAddsUp
    <3>3. w * (A + (RADIX - 1) - B) = ((P + V) - w) - Q
      BY <2>1, WeightOfDifference
    <3>4. w * v = ((P + V) - w) - Q
      BY <2>4, <2>8, <3>3
    <3> HIDE DEF P, Q, Lo, H, V
    <3>5. (sd + Lo) + H = ((sa + P) - (sb + Q)) + V
      BY <2>1, <2>5, <2>6, <3>2, <3>4
    <3> QED BY <2>2, <2>8, <3>5 DEF SumSoFar
  <2> QED BY <2>7, <2>8 DEF IInv, TypeOK
<1> QED BY <1>6, <1>8, <1>9, <1>10 DEF IInv

\* Every step of the calls and the loops keeps the invariant.
LEMMA NextIInv == IInv /\ [Next]_vars => IInv'
<1> SUFFICES ASSUME IInv, [Next]_vars PROVE IInv'
  OBVIOUS
<1>1. RADIX \in Nat /\ RADIX > 1 /\ LEN \in Nat
  BY RadixAssumption, LenAssumption
<1>2. CASE bn_add_1
  BY <1>2, StartIInv DEF bn_add_1
<1>3. CASE bn_sub_1
  BY <1>3, StartIInv DEF bn_sub_1
<1> DEFINE da == mem[a][i + 1]
           db == mem[b][i + 1]
<1>4. ASSUME pc = "loop", i \in 0..(LEN - 1)
      PROVE  /\ da = before[a][i + 1] /\ db = before[b][i + 1]
             /\ da \in 0..(RADIX - 1) /\ db \in 0..(RADIX - 1) /\ c \in {0, 1}
  <2>1. i + 1 \in 1..(i + 1) /\ i + 1 \in 1..LEN
    BY <1>1, <1>4
  <2>2. mem[a] \in Numbers /\ mem[b] \in Numbers /\ a \in Buffers /\ b \in Buffers
    BY DEF IInv, TypeOK
  <2> QED BY <2>1, <2>2 DEF IInv, TypeOK, UnreadIntact, Numbers, Digit
<1>5. CASE AddDigit
  <2>1. pc = "loop" /\ i \in 0..(LEN - 1) /\ op = "add" /\ Turn((da + db) + c)
    BY <1>5 DEF AddDigit, Turn
  <2>2. da + db \in Int /\ (da + db) + c \in 0..(2 * RADIX - 1)
    BY <1>1, <1>4, <2>1
  <2>3. da + db = before[a][i + 1] + before[b][i + 1]
    BY <1>4, <2>1
  <2> HIDE DEF da, db
  <2> QED BY <2>1, <2>2, <2>3, TurnIInv
<1>6. CASE SubDigit
  <2>1. pc = "loop" /\ i \in 0..(LEN - 1) /\ op = "sub" /\ Turn((da + (RADIX - 1) - db) + c)
    BY <1>6 DEF SubDigit, Turn
  <2>2. da + (RADIX - 1) - db \in Int /\ (da + (RADIX - 1) - db) + c \in 0..(2 * RADIX - 1)
    BY <1>1, <1>4, <2>1
  <2>3. da + (RADIX - 1) - db = before[a][i + 1] + (RADIX - 1) - before[b][i + 1]
    BY <1>4, <2>1
  <2> HIDE DEF da, db
  <2> QED BY <2>1, <2>2, <2>3, TurnIInv
<1>7. CASE Return
  BY <1>7 DEF Return, IInv, TypeOK, UnreadIntact, SumSoFar
<1>8. CASE UNCHANGED vars
  BY <1>8 DEF vars, IInv, TypeOK, UnreadIntact, SumSoFar
<1> QED BY <1>2, <1>3, <1>5, <1>6, <1>7, <1>8 DEF Next

-----------------------------------------------------------------------------
\* The inductive invariant holds throughout.
THEOREM InvariantHolds == Spec => []IInv
BY InitIInv, NextIInv, PTL DEF Spec

\* Type correctness: every digit that is stored is a digit and the carry of
\* bn_add_1 and bn_sub_1 is one bit, so the u8 c and the u8 d[i] lose nothing.
THEOREM TypeCorrect == Spec => []TypeOK
BY InvariantHolds, PTL DEF IInv

\* Aliasing of d with a or b (or both) never destroys a digit that is still
\* to be read.
THEOREM UnreadStaysIntact == Spec => []UnreadIntact
BY InvariantHolds, PTL DEF IInv

\* The loops of bn_add_1 and bn_sub_1 compute sum and difference with their
\* carry, at every turn and so at their return.
THEOREM SumHolds == Spec => []SumSoFar
BY InvariantHolds, PTL DEF IInv

-----------------------------------------------------------------------------
(* The loops and the operators of BigNum *)

\* t is the function that Ripple defines by recursion: what there is of the
\* result from column k on, and the carry into the column before it.
Rippled(t, sums, carry) ==
    t = [k \in 1..(Len(sums) + 1) |->
           IF k = Len(sums) + 1 THEN [d |-> <<>>, c |-> carry]
           ELSE [d |-> <<(sums[k] + t[k + 1].c) % L!BASE>> \o t[k + 1].d,
                 c |-> (sums[k] + t[k + 1].c) \div L!BASE]]

\* The part of it for the last m columns.
RippledFrom(t, sums, carry, m) ==
    t = [k \in (Len(sums) + 1 - m)..(Len(sums) + 1) |->
           IF k = Len(sums) + 1 THEN [d |-> <<>>, c |-> carry]
           ELSE [d |-> <<(sums[k] + t[k + 1].c) % L!BASE>> \o t[k + 1].d,
                 c |-> (sums[k] + t[k + 1].c) \div L!BASE]]

\* Every part can be built from the one that has a column less.
LEMMA RippledMore ==
    ASSUME NEW sums, Len(sums) \in Nat, NEW carry, NEW m \in 0..(Len(sums) - 1),
           NEW t, RippledFrom(t, sums, carry, m)
    PROVE  \E u : RippledFrom(u, sums, carry, m + 1)
<1> DEFINE n == Len(sums)
           first == n - m
           row(k, r) == [d |-> <<(sums[k] + r.c) % L!BASE>> \o r.d,
                         c |-> (sums[k] + r.c) \div L!BASE]
           u == [k \in first..(n + 1) |-> IF k = first THEN row(k, t[k + 1]) ELSE t[k]]
           cell(f, k) == IF k = n + 1 THEN [d |-> <<>>, c |-> carry] ELSE row(k, f[k + 1])
<1>1. /\ n \in Nat /\ first \in 1..n /\ first # n + 1 /\ first + 1 = n + 1 - m
      /\ n + 1 - (m + 1) = first
  OBVIOUS
<1>2. t = [k \in (first + 1)..(n + 1) |-> cell(t, k)]
  BY <1>1 DEF RippledFrom
<1>3. ASSUME NEW k \in first..(n + 1)
      PROVE  u[k] = cell(u, k)
  <2>1. CASE k = first
    <3>1. first + 1 \in first..(n + 1) /\ first + 1 # first
      BY <1>1
    <3>2. u[first + 1] = t[first + 1] /\ u[first] = row(first, t[first + 1])
      BY <1>1, <3>1
    <3> HIDE DEF u, row
    <3> QED BY <1>1, <2>1, <3>2
  <2>2. CASE k # first
    <3>1. k \in (first + 1)..(n + 1) /\ u[k] = t[k]
      BY <1>1, <2>2
    <3>2. CASE k = n + 1
      BY <1>2, <3>1, <3>2
    <3>3. CASE k # n + 1
      <4>1. k + 1 \in first..(n + 1) /\ k + 1 # first
        <5> HIDE DEF first, u, row
        <5> QED BY <1>1, <3>1, <3>3
      <4>2. u[k + 1] = t[k + 1]
        BY <4>1
      <4> HIDE DEF u, row
      <4> QED BY <1>2, <3>1, <3>3, <4>2
    <3> QED BY <3>2, <3>3
  <2> QED BY <2>1, <2>2
<1>4. u = [k \in first..(n + 1) |-> cell(u, k)]
  <2>1. u = [k \in first..(n + 1) |-> u[k]]
    OBVIOUS
  <2> HIDE DEF u, cell
  <2> QED BY <1>3, <2>1
<1>5. RippledFrom(u, sums, carry, m + 1)
  <2> HIDE DEF u
  <2> QED BY <1>1, <1>4 DEF RippledFrom
<1> QED BY <1>5

\* So there is the whole: the least m without a part would have one.
LEMMA RippledExists ==
    ASSUME NEW sums, Len(sums) \in Nat, NEW carry
    PROVE  \E t : Rippled(t, sums, carry)
<1> DEFINE n == Len(sums)
           T == {m \in 0..n : ~\E t : RippledFrom(t, sums, carry, m)}
<1>1. n \in Nat
  OBVIOUS
<1>2. 0 \notin T
  <2> DEFINE t == [k \in (n + 1)..(n + 1) |-> [d |-> <<>>, c |-> carry]]
  <2>1. RippledFrom(t, sums, carry, 0)
    BY <1>1 DEF RippledFrom
  <2> HIDE DEF t
  <2> QED BY <2>1
<1>3. T = {}
  <2> SUFFICES ASSUME T # {} PROVE FALSE
    OBVIOUS
  <2>1. T \subseteq Nat
    BY <1>1
  <2>2. PICK m \in T : \A o \in T : m <= o
    BY <2>1, Least
  <2>3. m \in 1..n
    BY <1>1, <1>2, <2>2
  <2>4. m - 1 \in 0..n /\ m - 1 \in 0..(n - 1) /\ ~(m <= m - 1) /\ (m - 1) + 1 = m
    BY <1>1, <2>3
  <2>5. m - 1 \notin T
    BY <2>2, <2>4
  <2>6. PICK t : RippledFrom(t, sums, carry, m - 1)
    BY <2>4, <2>5
  <2>7. \E u : RippledFrom(u, sums, carry, m)
    BY <2>4, <2>6, RippledMore
  <2> QED BY <2>2, <2>7
<1>4. PICK t : RippledFrom(t, sums, carry, n)
  BY <1>1, <1>3
<1>5. n + 1 - n = 1
  BY <1>1
<1>6. Rippled(t, sums, carry)
  BY <1>4, <1>5 DEF Rippled, RippledFrom
<1> QED BY <1>6

\* Ripple is what the recursion ends in.
LEMMA RippleIs ==
    ASSUME NEW sums, Len(sums) \in Nat, NEW carry
    PROVE  \E t : Rippled(t, sums, carry) /\ L!Ripple(sums, carry) = t[1]
<1> DEFINE turn[k \in 1..(Len(sums) + 1)] ==
             IF k = Len(sums) + 1 THEN [d |-> <<>>, c |-> carry]
             ELSE LET right == turn[k + 1]
                      dig   == sums[k] + right.c
                  IN  [d |-> <<dig % L!BASE>> \o right.d, c |-> dig \div L!BASE]
<1>1. L!Ripple(sums, carry) = turn[1]
  BY DEF L!Ripple
<1>2. PICK t : Rippled(t, sums, carry)
  BY RippledExists
<1>3. Rippled(turn, sums, carry)
  BY <1>2 DEF Rippled
<1> HIDE DEF turn
<1> QED BY <1>1, <1>3

-----------------------------------------------------------------------------
\* The sums of the columns, and the carry, that the call has begun with.
Sums == [k \in 1..LEN |-> IF op = "add" THEN before[a][k] + before[b][k]
                          ELSE before[a][k] + (RADIX - 1) - before[b][k]]
Carry == IF op = "add" THEN 0 ELSE 1

\* From column k on the buffer and the carry are what the recursion has there.
DoneAs(t, k) ==
    /\ t[k].c = c
    /\ t[k].d \in Seq(Digit) /\ Len(t[k].d) = LEN + 1 - k
    /\ \A j \in 1..(LEN + 1 - k) : t[k].d[j] = mem[d][(k - 1) + j]

\* The inductive invariant of that.
RippleInv ==
    /\ \A buffer \in Buffers \ {d} : mem[buffer] = before[buffer]
    /\ pc = "idle" => i = -1
    /\ pc = "loop" \/ w # 1 => \A t : Rippled(t, Sums, Carry) => DoneAs(t, i + 2)

LEMMA RadixIsBase == RADIX = L!BASE /\ RADIX \in Nat /\ RADIX > 1 /\ LEN \in Nat
BY RadixIsBits, RadixAssumption, LenAssumption DEF L!BASE

LEMMA SumsLen == Len(Sums) = LEN
BY LenAssumption DEF Sums

\* A digit in front of others.
LEMMA InFront ==
    ASSUME NEW S, NEW s \in Seq(S), NEW e \in S
    PROVE  /\ <<e>> \o s \in Seq(S) /\ Len(<<e>> \o s) = Len(s) + 1
           /\ (<<e>> \o s)[1] = e
           /\ \A j \in 2..(Len(s) + 1) : (<<e>> \o s)[j] = s[j - 1]
OBVIOUS

LEMMA StartRipple ==
    ASSUME IInv, RippleInv, bn_add_1 \/ bn_sub_1
    PROVE  RippleInv'
<1>1. PICK carry : Start(op', carry) /\ (op' = "add" => carry = 0) /\ (op' # "add" => carry = 1)
  BY DEF bn_add_1, bn_sub_1, Start
<1>2. c' = Carry' /\ pc' = "loop" /\ i' = LEN - 1 /\ mem' = mem /\ before' = mem
  BY <1>1 DEF Start, Carry
<1>3. ASSUME NEW t, Rippled(t, Sums', Carry')
      PROVE  t[LEN + 1].c = Carry' /\ t[LEN + 1].d = <<>>
  <2>1. Len(Sums') = LEN /\ LEN \in Nat
    BY SumsLen, RadixIsBase DEF Sums
  <2> QED BY <1>3, <2>1 DEF Rippled
<1>4. ASSUME NEW t, Rippled(t, Sums', Carry')
      PROVE  DoneAs(t, LEN + 1)'
  <2>1. LEN + 1 - (LEN + 1) = 0 /\ LEN \in Nat
    BY RadixIsBase
  <2>2. t[LEN + 1].d \in Seq(Digit) /\ Len(t[LEN + 1].d) = 0 /\ t[LEN + 1].c = c'
    <3>1. t[LEN + 1].c = Carry' /\ t[LEN + 1].d = <<>>
      BY <1>3, <1>4
    <3>2. <<>> \in Seq(Digit) /\ Len(<<>>) = 0
      OBVIOUS
    <3> QED BY <1>2, <3>1, <3>2
  <2> QED BY <2>1, <2>2 DEF DoneAs, Digit
<1>5. i' + 2 = LEN + 1
  BY <1>2, RadixIsBase
<1>6. \A t : Rippled(t, Sums, Carry)' => DoneAs(t, i + 2)'
  <2> SUFFICES ASSUME NEW t, Rippled(t, Sums, Carry)' PROVE DoneAs(t, i + 2)'
    OBVIOUS
  <2>1. Rippled(t, Sums', Carry')
    BY DEF Rippled
  <2>2. DoneAs(t, LEN + 1)'
    BY <1>4, <2>1
  <2> QED BY <1>5, <2>2 DEF DoneAs
<1> QED BY <1>2, <1>6 DEF RippleInv

LEMMA TurnRipple ==
    ASSUME IInv, RippleInv, NEW dig \in Nat, Turn(dig),
           dig = Sums[i + 1] + c
    PROVE  RippleInv'
<1>1. /\ pc = "loop" /\ i \in 0..(LEN - 1)
      /\ mem' = [mem EXCEPT ![d] = [@ EXCEPT ![i + 1] = dig % RADIX]]
      /\ c' = dig \div RADIX /\ i' = i - 1
      /\ UNCHANGED <<op, d, a, b, pc, before>>
  BY DEF Turn
<1>2. /\ d \in Buffers /\ mem \in [Buffers -> Numbers] /\ LEN \in Nat
      /\ RADIX \in Nat /\ RADIX > 1
  BY RadixIsBase DEF IInv, TypeOK
<1>3. \A buffer \in Buffers \ {d'} : mem'[buffer] = before'[buffer]
  BY <1>1, <1>2 DEF RippleInv
<1>4. /\ mem'[d] = [mem[d] EXCEPT ![i + 1] = dig % RADIX] /\ mem[d] \in [1..LEN -> Digit]
      /\ dig % RADIX \in Digit
  BY <1>1, <1>2 DEF Numbers, Digit
<1>5. mem'[d][i + 1] = dig % RADIX /\ \A k \in (i + 2)..LEN : mem'[d][k] = mem[d][k]
  BY <1>1, <1>2, <1>4
<1>6. Sums' = Sums /\ Carry' = Carry
  BY <1>1 DEF Sums, Carry
<1>7. PICK p \in 1..LEN : p = i + 1 /\ p = i' + 2 /\ p + 1 = i + 2
  BY <1>1, <1>2
<1>8. ASSUME NEW t, Rippled(t, Sums, Carry)
      PROVE  DoneAs(t, p)'
  <2>1. DoneAs(t, p + 1)
    BY <1>1, <1>7, <1>8 DEF RippleInv
  <2>2. PICK right : right = t[p + 1]
    OBVIOUS
  <2>3. right.c = c /\ right.d \in Seq(Digit) /\ Len(right.d) = LEN - p
        /\ \A j \in 1..(LEN - p) : right.d[j] = mem[d][p + j]
    <3>1. LEN + 1 - (p + 1) = LEN - p /\ (p + 1) - 1 = p
      BY <1>2
    <3> QED BY <2>1, <2>2, <3>1 DEF DoneAs
  <2>4. t[p] = [d |-> <<dig % RADIX>> \o right.d, c |-> dig \div RADIX]
    <3>1. p \in 1..(Len(Sums) + 1) /\ p # Len(Sums) + 1
      BY <1>2, SumsLen
    <3>2. t[p] = [d |-> <<(Sums[p] + right.c) % L!BASE>> \o right.d,
                  c |-> (Sums[p] + right.c) \div L!BASE]
      BY <1>8, <2>2, <3>1 DEF Rippled
    <3> QED BY <1>7, <2>3, <3>2, RadixIsBase
  <2>5. PICK s : s = <<dig % RADIX>> \o right.d
    OBVIOUS
  <2>6. /\ s \in Seq(Digit) /\ Len(s) = (LEN - p) + 1
        /\ s[1] = dig % RADIX /\ \A j \in 2..((LEN - p) + 1) : s[j] = right.d[j - 1]
    BY <1>4, <2>3, <2>5, InFront
  <2>7. ASSUME NEW j \in 1..(LEN + 1 - p)
        PROVE  s[j] = mem'[d][(p - 1) + j]
    <3>1. CASE j = 1
      BY <1>5, <1>7, <2>6, <3>1
    <3>2. CASE j # 1
      <4>1. /\ j \in 2..((LEN - p) + 1) /\ j - 1 \in 1..(LEN - p)
            /\ (p - 1) + j = p + (j - 1) /\ p + (j - 1) \in (i + 2)..LEN
        BY <1>2, <1>7, <3>2
      <4> QED BY <1>5, <2>3, <2>6, <4>1
    <3> QED BY <3>1, <3>2
  <2>8. LEN + 1 - p = (LEN - p) + 1
    BY <1>2
  <2>9. t[p].d = s /\ t[p].c = c'
    BY <1>1, <2>4, <2>5
  <2> QED BY <1>1, <2>6, <2>7, <2>8, <2>9 DEF DoneAs, Digit
<1>9. \A t : Rippled(t, Sums, Carry)' => DoneAs(t, i + 2)'
  <2> SUFFICES ASSUME NEW t, Rippled(t, Sums, Carry)' PROVE DoneAs(t, i + 2)'
    OBVIOUS
  <2>1. Rippled(t, Sums, Carry)
    BY <1>6 DEF Rippled
  <2>2. DoneAs(t, p)'
    BY <1>8, <2>1
  <2> QED BY <1>7, <2>2 DEF DoneAs
<1> QED BY <1>1, <1>3, <1>9 DEF RippleInv

\* A step that does nothing to what the invariant speaks of.
LEMMA SameRipple ==
    ASSUME RippleInv, UNCHANGED <<mem, op, d, a, b, i, c, before, w>>,
           pc' \in {"idle", "loop"}, pc' = "idle" => i = -1, pc' = "loop" => pc = "loop",
           pc' # pc => pc = "loop"
    PROVE  RippleInv'
<1>1. Sums' = Sums /\ Carry' = Carry
  BY DEF Sums, Carry
<1>2. \A t : Rippled(t, Sums, Carry)' => Rippled(t, Sums, Carry)
  BY <1>1 DEF Rippled
<1>3. \A t : DoneAs(t, i + 2) => DoneAs(t, i + 2)'
  BY DEF DoneAs, Digit
<1>4. pc' = "loop" \/ w' # 1 => pc = "loop" \/ w # 1
  OBVIOUS
<1> QED BY <1>2, <1>3, <1>4 DEF RippleInv

LEMMA NextRipple == IInv /\ RippleInv /\ [Next]_vars => RippleInv'
<1> SUFFICES ASSUME IInv, RippleInv, [Next]_vars PROVE RippleInv'
  OBVIOUS
<1>1. CASE bn_add_1 \/ bn_sub_1
  BY <1>1, StartRipple
<1> DEFINE da == mem[a][i + 1]
           db == mem[b][i + 1]
<1>2. ASSUME pc = "loop", i \in 0..(LEN - 1)
      PROVE  /\ da = before[a][i + 1] /\ db = before[b][i + 1] /\ i + 1 \in 1..LEN
             /\ da \in 0..(RADIX - 1) /\ db \in 0..(RADIX - 1) /\ c \in {0, 1}
  <2>1. i + 1 \in 1..(i + 1) /\ i + 1 \in 1..LEN
    BY <1>2, LenAssumption
  <2>2. mem[a] \in Numbers /\ mem[b] \in Numbers /\ a \in Buffers /\ b \in Buffers
    BY DEF IInv, TypeOK
  <2> QED BY <2>1, <2>2 DEF IInv, TypeOK, UnreadIntact, Numbers, Digit
<1>3. CASE AddDigit
  <2>1. pc = "loop" /\ i \in 0..(LEN - 1) /\ op = "add" /\ Turn(da + db + c)
    BY <1>3 DEF AddDigit, Turn
  <2>2. Sums[i + 1] = before[a][i + 1] + before[b][i + 1]
    BY <1>2, <2>1 DEF Sums
  <2>3. da + db + c \in Nat
    BY <1>2, <2>1, RadixAssumption
  <2>4. da + db + c = Sums[i + 1] + c
    BY <1>2, <2>1, <2>2
  <2> HIDE DEF da, db
  <2> QED BY <2>1, <2>3, <2>4, TurnRipple
<1>4. CASE SubDigit
  <2>1. pc = "loop" /\ i \in 0..(LEN - 1) /\ op = "sub" /\ Turn(da + (RADIX - 1) - db + c)
    BY <1>4 DEF SubDigit, Turn
  <2>2. Sums[i + 1] = before[a][i + 1] + (RADIX - 1) - before[b][i + 1]
    BY <1>2, <2>1 DEF Sums
  <2>3. da + (RADIX - 1) - db + c \in Nat
    BY <1>2, <2>1, RadixAssumption
  <2>4. da + (RADIX - 1) - db + c = Sums[i + 1] + c
    BY <1>2, <2>1, <2>2
  <2> HIDE DEF da, db
  <2> QED BY <2>1, <2>3, <2>4, TurnRipple
<1>5. CASE Return
  BY <1>5, SameRipple DEF Return
<1>6. CASE UNCHANGED vars
  BY <1>6, SameRipple DEF vars, IInv, TypeOK, RippleInv
<1> QED BY <1>1, <1>3, <1>4, <1>5, <1>6 DEF Next

-----------------------------------------------------------------------------
\* A loop that has returned has left what Ripple gives.
LEMMA ReturnIsRipple ==
    ASSUME IInv, RippleInv, pc = "idle", w # 1
    PROVE  L!Ripple(Sums, Carry).d = mem[d] /\ L!Ripple(Sums, Carry).c = c
<1>1. Len(Sums) \in Nat
  BY SumsLen, LenAssumption
<1>2. PICK t : Rippled(t, Sums, Carry) /\ L!Ripple(Sums, Carry) = t[1]
  BY <1>1, RippleIs
<1>3. DoneAs(t, 1)
  <2>1. DoneAs(t, i + 2) /\ i = -1
    BY <1>2 DEF RippleInv
  <2>2. i + 2 = 1
    BY <2>1
  <2> QED BY <2>1, <2>2
<1>4. PICK s : s = t[1].d
  OBVIOUS
<1>5. s \in Seq(Digit) /\ Len(s) = LEN /\ \A j \in 1..LEN : s[j] = mem[d][j]
  <2>1. LEN \in Nat /\ LEN + 1 - 1 = LEN /\ \A j \in 1..LEN : (1 - 1) + j = j
    BY LenAssumption
  <2> QED BY <1>3, <1>4, <2>1 DEF DoneAs
<1>6. mem[d] \in [1..LEN -> Digit]
  BY DEF IInv, TypeOK, Numbers
<1>7. s = mem[d]
  <2>1. s \in [1..LEN -> Digit]
    BY <1>5
  <2> QED BY <1>5, <1>6, <2>1
<1> QED BY <1>2, <1>3, <1>4, <1>7 DEF DoneAs

LEMMA RippleIsLoops == IInv /\ RippleInv => LoopsAreBigNum
<1> SUFFICES ASSUME IInv, RippleInv, pc = "idle", w # 1
             PROVE  /\ op = "add" => /\ mem[d] = L!bn_add_1(before[a], before[b]).d
                                     /\ c = L!bn_add_1(before[a], before[b]).c
                    /\ op = "sub" => /\ mem[d] = L!bn_sub_1(before[a], before[b]).d
                                     /\ 1 - c = L!bn_sub_1(before[a], before[b]).c
  BY DEF LoopsAreBigNum, RippleInv
<1>1. PICK p, q : p = before[a] /\ q = before[b]
  OBVIOUS
<1>2. Len(p) = LEN
  <2>1. p \in [1..LEN -> Digit] /\ LEN \in Nat
    BY <1>1, LenAssumption DEF IInv, TypeOK, Numbers
  <2> QED BY <2>1
<1>3. L!Ripple(Sums, Carry).d = mem[d] /\ L!Ripple(Sums, Carry).c = c
  BY ReturnIsRipple
<1>4. CASE op = "add"
  <2>1. Sums = [k \in 1..Len(p) |-> p[k] + q[k]] /\ Carry = 0
    BY <1>1, <1>2, <1>4 DEF Sums, Carry
  <2>2. L!bn_add_1(p, q) = L!Ripple(Sums, Carry)
    BY <1>2, <2>1 DEF L!bn_add_1
  <2> QED BY <1>1, <1>3, <1>4, <2>2
<1>5. CASE op = "sub"
  <2>1. Sums = [k \in 1..Len(p) |-> p[k] + (L!BASE - 1) - q[k]] /\ Carry = 1
    BY <1>1, <1>2, <1>5, RadixIsBase DEF Sums, Carry
  <2>2. PICK r : r = L!Ripple(Sums, Carry)
    OBVIOUS
  <2>3. L!bn_sub_1(p, q) = [r EXCEPT !.c = 1 - @]
    BY <1>2, <2>1, <2>2 DEF L!bn_sub_1
  <2>4. "c" \in DOMAIN r
    <3>1. Len(Sums) \in Nat
      BY SumsLen, LenAssumption
    <3>2. PICK t : Rippled(t, Sums, Carry) /\ r = t[1]
      BY <2>2, <3>1, RippleIs
    <3>3. 1 \in 1..(Len(Sums) + 1)
      BY <3>1
    <3> QED BY <3>2, <3>3 DEF Rippled
  <2> QED BY <1>1, <1>3, <1>5, <2>2, <2>3, <2>4
<1> QED BY <1>4, <1>5

-----------------------------------------------------------------------------
\* At the level of the calls the loops stand still.
BnInv == \/ level = "loops" /\ IInv /\ RippleInv
         \/ level = "calls" /\ mem = before /\ pc = "idle" /\ w = 1

\* The loops of bn_add_1() and bn_sub_1() leave in their buffer, and return,
\* what the functions of BigNum of the same names give, of which the calls of
\* ec.c are made, whichever of the buffers are the same.
THEOREM LoopsImplementBigNum == SpecBn => []LoopsAreBigNum
<1>1. InitBn => BnInv
  <2>1. Init => RippleInv
    BY DEF Init, RippleInv
  <2> QED BY <2>1, InitIInv DEF InitBn, IdleLoops, BnInv
<1>2. BnInv /\ [NextBn]_<<vars, registers, level>> => BnInv'
  <2> SUFFICES ASSUME BnInv, [NextBn]_<<vars, registers, level>> PROVE BnInv'
    OBVIOUS
  <2>1. level' = level
    BY DEF NextBn
  <2>2. CASE level = "loops"
    <3>1. [Next]_vars
      BY <2>2 DEF NextBn
    <3> QED BY <2>1, <2>2, <3>1, NextIInv, NextRipple DEF BnInv
  <2>3. CASE level = "calls"
    <3>1. UNCHANGED vars
      BY <2>3 DEF NextBn
    <3> QED BY <2>1, <2>3, <3>1 DEF BnInv, vars
  <2> QED BY <2>2, <2>3 DEF BnInv
<1>3. BnInv => LoopsAreBigNum
  BY RippleIsLoops DEF BnInv, LoopsAreBigNum
<1>4. QED
  BY <1>1, <1>2, <1>3, PTL DEF SpecBn
=============================================================================
