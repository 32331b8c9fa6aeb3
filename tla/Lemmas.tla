-------------------------------- MODULE Lemmas --------------------------------
(***************************************************************************)
(* What several proofs need: the arithmetic of machine words, remainders   *)
(* by an arbitrary W > 0, for 32 bit offsets and the digits of big         *)
(* numbers; the alignment macro; sequences.                                *)
(***************************************************************************)
EXTENDS Integers, Sequences, RoundUp, WellFoundedInduction, TLAPS

\* A remainder is a word.
LEMMA ModRange ==
    ASSUME NEW W \in Nat, W > 0, NEW x \in Int
    PROVE  x % W \in 0..(W - 1)
OBVIOUS

\* A word is its own remainder.
LEMMA ModOfWord ==
    ASSUME NEW W \in Nat, W > 0, NEW x \in 0..(W - 1)
    PROVE  x % W = x
OBVIOUS

\* Every number is a multiple of W and its remainder.
LEMMA ModQuotient ==
    ASSUME NEW W \in Nat, W > 0, NEW x \in Int
    PROVE  \E q \in Int : x = W * q + (x % W)
BY Z3

\* Quotient and remainder are unique.
LEMMA ModUnique ==
    ASSUME NEW W \in Nat, W > 0, NEW q \in Int, NEW r \in 0..(W - 1)
    PROVE  (W * q + r) % W = r
OBVIOUS

\* Multiples of W do not matter.
LEMMA ModShift ==
    ASSUME NEW W \in Nat, W > 0, NEW x \in Int, NEW q \in Int
    PROVE  (x + W * q) % W = x % W
<1>1. PICK d \in Int : x = W * d + (x % W)
  BY ModQuotient
<1>2. x % W \in 0..(W - 1)
  BY ModRange
<1> DEFINE r == x % W
<1> HIDE DEF r
<1>3. x + W * q = W * (d + q) + r
  <2>1. x = W * d + r /\ r \in Int
    BY <1>1, <1>2 DEF r
  <2>2. QED
    BY <2>1
<1>4. d + q \in Int /\ r \in 0..(W - 1)
  BY <1>2 DEF r
<1>5. (W * (d + q) + r) % W = r
  BY <1>4, ModUnique
<1>6. QED
  BY <1>3, <1>5 DEF r

\* A sum may be reduced before it is formed.
LEMMA ModSum ==
    ASSUME NEW W \in Nat, W > 0, NEW a \in Int, NEW b \in Int
    PROVE  ((a % W) + (b % W)) % W = (a + b) % W
<1>1. PICK d \in Int : a = W * d + (a % W)
  BY ModQuotient
<1>2. PICK e \in Int : b = W * e + (b % W)
  BY ModQuotient
<1>3. a % W \in Int /\ b % W \in Int
  BY ModRange
<1> DEFINE ra == a % W
           rb == b % W
<1> HIDE DEF ra, rb
<1>4. a + b = (ra + rb) + W * (d + e)
  <2>1. a = W * d + ra /\ b = W * e + rb /\ ra \in Int /\ rb \in Int
    BY <1>1, <1>2, <1>3 DEF ra, rb
  <2>2. QED
    BY <2>1
<1>5. ra + rb \in Int /\ d + e \in Int
  BY <1>3 DEF ra, rb
<1>6. ((ra + rb) + W * (d + e)) % W = (ra + rb) % W
  BY <1>5, ModShift
<1>7. QED
  BY <1>4, <1>6 DEF ra, rb

\* Adding the difference to b, reduced, leads from a to b.
LEMMA ModFill ==
    ASSUME NEW W \in Nat, W > 0, NEW a \in 0..(W - 1), NEW b \in Int
    PROVE  (a + ((b - a) % W)) % W = b % W
<1>1. b - a \in Int /\ a \in Int
  OBVIOUS
<1>2. PICK q \in Int : b - a = W * q + ((b - a) % W)
  BY <1>1, ModQuotient
<1> DEFINE r == (b - a) % W
<1>3. r \in Int
  BY <1>1, ModRange
<1> HIDE DEF r
<1>4. a + r = b + W * (0 - q) /\ 0 - q \in Int
  <2>1. b - a = W * q + r
    BY <1>2 DEF r
  <2>2. QED
    BY <1>1, <1>3, <2>1
<1>5. (b + W * (0 - q)) % W = b % W
  BY <1>4, ModShift
<1>6. QED
  BY <1>4, <1>5 DEF r

-----------------------------------------------------------------------------
\* round_up of tools.h: the result is a multiple of n that is not below x.
LEMMA RoundUpFacts ==
    ASSUME NEW x \in Nat, NEW n \in Nat, n > 0
    PROVE  round_up(x, n) \in Nat /\ round_up(x, n) >= x /\ round_up(x, n) % n = 0
<1> DEFINE q == (x + n - 1) \div n
<1>1. (x + n - 1) \in Int /\ q \in Int
  OBVIOUS
<1>2. x + n - 1 = n * q + ((x + n - 1) % n) /\ (x + n - 1) % n \in 0..(n - 1)
  BY <1>1, Z3
<1> HIDE DEF q
<1>3. n * q \in Int /\ n * q = q * n
  BY <1>1
<1>4. n * q >= x
  BY <1>1, <1>2, <1>3
<1>5. (n * q + 0) % n = 0
  BY <1>1, ModUnique
<1>6. (q * n) % n = 0
  BY <1>3, <1>5
<1>7. q * n \in Nat /\ q * n >= x
  BY <1>3, <1>4
<1>8. QED
  BY <1>6, <1>7 DEF round_up, q

\* No smaller multiple of n will do.
LEMMA RoundUpLeast ==
    ASSUME NEW x \in Nat, NEW n \in Nat, n > 0, NEW y \in Nat, y % n = 0, x <= y
    PROVE  round_up(x, n) <= y
<1> DEFINE q == (x + n - 1) \div n
<1>1. (x + n - 1) \in Int /\ q \in Int
  OBVIOUS
<1>2. x + n - 1 = n * q + ((x + n - 1) % n) /\ (x + n - 1) % n \in 0..(n - 1)
  BY <1>1, Z3
<1> HIDE DEF q
<1>3. PICK k \in Int : y = n * k + (y % n)
  BY ModQuotient, y \in Int
<1>4. n * q \in Int /\ n * k \in Int /\ n * q = q * n /\ y = n * k
  BY <1>1, <1>3
<1>5. n * q < n * k + n
  BY <1>2, <1>4
<1>6. q <= k
  <2>1. CASE q >= k + 1
    <3>1. q - (k + 1) \in Nat
      BY <1>1, <2>1
    <3>2. n * (q - (k + 1)) \in Nat
      BY <3>1
    <3>3. n * (q - (k + 1)) = n * q - (n * k + n)
      BY <1>1
    <3>4. QED
      BY <1>4, <1>5, <3>2, <3>3
  <2>2. QED
    BY <1>1, <2>1
<1>7. n * (k - q) \in Nat
  <2>1. k - q \in Nat
    BY <1>1, <1>6
  <2>2. QED
    BY <2>1
<1>8. n * (k - q) = n * k - n * q
  BY <1>1
<1>9. q * n <= y
  BY <1>4, <1>7, <1>8
<1>10. QED
  BY <1>9 DEF round_up, q

\* Sums and differences of multiples are multiples.
LEMMA Multiples ==
    ASSUME NEW n \in Nat, n > 0, NEW a \in Int, NEW b \in Int, a % n = 0, b % n = 0
    PROVE  (a + b) % n = 0 /\ (a - b) % n = 0
<1>1. PICK k \in Int : a = n * k + (a % n)
  BY ModQuotient
<1>2. PICK l \in Int : b = n * l + (b % n)
  BY ModQuotient
<1>3. n * k \in Int /\ n * l \in Int
  OBVIOUS
<1>4. a = n * k /\ b = n * l
  BY <1>1, <1>2, <1>3
<1>5. n * (k + l) = n * k + n * l /\ n * (k - l) = n * k - n * l
  OBVIOUS
<1>6. a + b = n * (k + l) + 0 /\ a - b = n * (k - l) + 0
  BY <1>3, <1>4, <1>5
<1>7. k + l \in Int /\ k - l \in Int /\ 0 \in 0..(n - 1)
  OBVIOUS
<1>8. QED
  BY <1>6, <1>7, ModUnique

-----------------------------------------------------------------------------
\* A set of numbers has a least one.
LEMMA Least ==
    ASSUME NEW T, T \subseteq Nat, T # {}
    PROVE  \E n \in T : \A o \in T : n <= o
<1> DEFINE R == OpToRel(<, Nat)
<1>1. IsWellFoundedOn(R, Nat)
  BY NatLessThanWellFounded
<1>2. \A a, b \in Nat : <<a, b>> \in R <=> a < b
  BY DEF OpToRel
<1> HIDE DEF R
<1>3. PICK n \in T : \A o \in T : ~(<<o, n>> \in R)
  BY <1>1, WFMin
<1>4. ASSUME NEW o \in T
      PROVE  n <= o
  <2>1. n \in Nat /\ o \in Nat
    OBVIOUS
  <2>2. ~(o < n)
    BY <1>2, <1>3, <2>1
  <2> QED BY <2>1, <2>2
<1> QED BY <1>4

\* What a typed sequence holds has its type.
LEMMA ElementOf ==
    ASSUME NEW S, NEW s \in Seq(S)
    PROVE  Len(s) \in Nat /\ \A k \in 1..Len(s) : s[k] \in S
OBVIOUS

\* A function on the first n numbers is a sequence of length n.
LEMMA FunctionIsSeq ==
    ASSUME NEW S, NEW n \in Nat, NEW f \in [1..n -> S]
    PROVE  f \in Seq(S) /\ Len(f) = n
OBVIOUS

\* A sequence that has grown by an entry holds it behind the others.
LEMMA AppendFacts ==
    ASSUME NEW S, NEW s \in Seq(S), NEW x \in S
    PROVE  /\ Append(s, x) \in Seq(S) /\ Len(Append(s, x)) = Len(s) + 1
           /\ Append(s, x)[Len(s) + 1] = x
           /\ \A k \in 1..Len(s) : Append(s, x)[k] = s[k]
OBVIOUS

\* Joined sequences: their length, and where their members are.
LEMMA JoinedIsSeq ==
    ASSUME NEW S, NEW a \in Seq(S), NEW b \in Seq(S)
    PROVE  a \o b \in Seq(S)
OBVIOUS

LEMMA JoinedLen ==
    ASSUME NEW S, NEW a \in Seq(S), NEW b \in Seq(S)
    PROVE  Len(a \o b) = Len(a) + Len(b)
OBVIOUS

LEMMA JoinedLeft ==
    ASSUME NEW S, NEW a \in Seq(S), NEW b \in Seq(S), NEW w \in 1..Len(a)
    PROVE  (a \o b)[w] = a[w]
OBVIOUS

LEMMA JoinedRight ==
    ASSUME NEW S, NEW a \in Seq(S), NEW b \in Seq(S), NEW w \in 1..Len(b)
    PROVE  (a \o b)[Len(a) + w] = b[w]
OBVIOUS
=============================================================================
