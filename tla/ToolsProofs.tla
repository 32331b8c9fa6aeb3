----------------------------- MODULE ToolsProofs -----------------------------
(***************************************************************************)
(* The two services of tools.c that the signing tools use.                 *)
(*                                                                         *)
(* The keys: what is signed with a key of the store can be verified with   *)
(* the list that is read from it, for every store, whatever is missing or  *)
(* cut off in it, and every order in which readdir() returns its entries.  *)
(*                                                                         *)
(* The hash: the streaming and the padding of sha1.c are right for every   *)
(* size of a block, every width of the count, every octet and every way to *)
(* cut up the message.                                                     *)
(***************************************************************************)
EXTENDS KeyStore, Sha1, Lemmas, WellFoundedInduction

-----------------------------------------------------------------------------
(* Part one: the keys *)

\* The entry that keys_get makes of what readdir returned; old is the ctype
\* of the turn before.
Entry(x, old) ==
    LET Read(kind, was) == key_read(Path(ReadersType, kind, Id(x)), was)
        pub   == Read("pub", ZERO)
        priv  == Read("priv", ZERO)
        curve == IF pub.ok THEN Read("ctype", old).dst ELSE old
    IN  [key        |-> Read("key", ZERO).dst,
         iv         |-> Read("iv", ZERO).dst,
         pub_avail  |-> Avail(pub.ok),
         priv_avail |-> Avail(priv.ok),
         ctype      |-> IF pub.ok THEN curve ELSE ZERO,
         pub        |-> pub.dst,
         priv       |-> priv.dst]

\* The whole key of a suffix, as it is in the files.
WholeKey(type, s) ==
    LET File(kind) == <<"whole", job.store[Path(type, kind, s)]>>
    IN  [key |-> File("key"), iv |-> File("iv"), pub_avail |-> 1, priv_avail |-> 1,
         ctype |-> File("ctype"), pub |-> File("pub"), priv |-> File("priv")]

-----------------------------------------------------------------------------
(* Reading *)

\* What was read whole does not depend on what was in memory before.
LEMMA ReadWhole ==
    ASSUME NEW path, NEW old, key_read(path, old).ok
    PROVE  /\ path \in DOMAIN job.store
           /\ \A other : /\ key_read(path, other).ok
                         /\ key_read(path, other).dst = <<"whole", job.store[path]>>
<1>1. path \in DOMAIN job.store /\ job.store[path] # SHORT
  BY DEF key_read
<1> QED BY <1>1 DEF key_read

\* What looks like a whole file was read whole.
LEMMA LooksWhole ==
    ASSUME NEW path, NEW c, key_read(path, ZERO).dst = <<"whole", c>>
    PROVE  key_read(path, ZERO).ok
<1>1. CASE path \notin DOMAIN job.store
  <2>1. ZERO = <<"whole", c>>
    BY <1>1 DEF key_read
  <2> QED BY <2>1 DEF ZERO
<1>2. CASE path \in DOMAIN job.store /\ job.store[path] = SHORT
  <2>1. <<"partly", ZERO>> = <<"whole", c>>
    BY <1>2 DEF key_read
  <2>2. "partly" = "whole"
    BY <2>1
  <2> QED BY <2>2
<1>3. CASE path \in DOMAIN job.store /\ job.store[path] # SHORT
  BY <1>3 DEF key_read
<1> QED BY <1>1, <1>2, <1>3

\* A key that is good for signing was read whole, all five files of it.
LEMMA SigningKey ==
    ASSUME NEW type, NEW s, Signs(key_get(type, s))
    PROVE  /\ \A kind \in Kinds : key_read(Path(type, kind, s), ZERO).ok
           /\ key_get(type, s).k = WholeKey(type, s)
<1> DEFINE Read(kind) == key_read(Path(type, kind, s), ZERO)
<1>1. Read("key").ok /\ Read("iv").ok
  BY DEF Signs, key_get
<1>2. key_get(type, s).k =
        [key        |-> Read("key").dst,
         iv         |-> Read("iv").dst,
         pub_avail  |-> Avail(Read("ctype").ok /\ Read("pub").ok),
         priv_avail |-> Avail(Read("ctype").ok /\ Read("priv").ok),
         ctype      |-> IF Read("ctype").ok THEN Read("ctype").dst ELSE ZERO,
         pub        |-> IF Read("ctype").ok THEN Read("pub").dst ELSE ZERO,
         priv       |-> IF Read("ctype").ok THEN Read("priv").dst ELSE ZERO]
  BY <1>1 DEF key_get
<1>3. /\ Avail(Read("ctype").ok /\ Read("pub").ok) > 0
      /\ Avail(Read("ctype").ok /\ Read("priv").ok) > 0
  BY <1>2 DEF Signs
<1>4. Read("ctype").ok /\ Read("pub").ok /\ Read("priv").ok
  BY <1>3 DEF Avail
<1>5. \A kind \in Kinds : Read(kind).ok
  BY <1>1, <1>4 DEF Kinds
<1>6. \A kind \in Kinds : Read(kind).dst = <<"whole", job.store[Path(type, kind, s)]>>
  BY <1>5, ReadWhole
<1>7. Avail(Read("ctype").ok /\ Read("pub").ok) = 1 /\ Avail(Read("ctype").ok /\ Read("priv").ok) = 1
  BY <1>4 DEF Avail
<1>8. key_get(type, s).k = WholeKey(type, s)
  BY <1>2, <1>4, <1>6, <1>7 DEF WholeKey, Kinds
<1> QED BY <1>5, <1>8

\* keys_get reads such a key as key_get does, in whatever turn.
LEMMA EntryIsKey ==
    ASSUME NEW x, NEW old, Signs(key_get(ReadersType, Id(x)))
    PROVE  Entry(x, old) = WholeKey(ReadersType, Id(x))
<1> DEFINE path(kind) == Path(ReadersType, kind, Id(x))
<1>1. \A kind \in Kinds : key_read(path(kind), ZERO).ok
  BY SigningKey
<1>2. \A kind \in Kinds : \A was :
        /\ key_read(path(kind), was).ok
        /\ key_read(path(kind), was).dst = <<"whole", job.store[path(kind)]>>
  BY <1>1, ReadWhole
<1>3. Avail(key_read(path("pub"), ZERO).ok) = 1 /\ Avail(key_read(path("priv"), ZERO).ok) = 1
  BY <1>2 DEF Avail, Kinds
<1> QED BY <1>2, <1>3 DEF Entry, WholeKey, Kinds

-----------------------------------------------------------------------------
(* The inductive invariant *)

InList(r) == \E n \in 1..Len(klist) : klist[n] = r

\* A key that is good for signing is in the list or still to be read.
GoodAreRead ==
    \A s \in Suffixes : Plain(s) /\ Signs(key_get(ReadersType, s)) =>
        Path(ReadersType, "key", s) \in dir \/ InList(WholeKey(ReadersType, s))

\* Every entry of the list is what a turn of keys_get has made.
AllAreRead == \A n \in 1..Len(klist) :
                 \E x \in DOMAIN job.store : \E old : klist[n] = Entry(x, old)

IInv ==
    /\ job \in Jobs
    /\ pc \in {"sign", "failed", "signed", "readdir", "not_opened", "garbled", "opened",
               "not_verified", "FAIL", "OK"}
    /\ pc \notin {"sign", "failed"} =>
         Signs(key_get(job.type, job.suffix)) /\ k = key_get(job.type, job.suffix).k
    /\ pc \in {"sign", "signed"} => klist = <<>>
    /\ pc \in {"readdir", "opened"} =>
         /\ dir \subseteq DOMAIN job.store
         /\ klist \in Seq({klist[n] : n \in DOMAIN klist})
         /\ GoodAreRead /\ AllAreRead
    /\ pc = "opened" => dir = {} /\ keyid \in Opening /\ klist[keyid].iv = k.iv
    /\ SignedIsVerified

-----------------------------------------------------------------------------
(* Facts about the state *)

\* A type is the same for those who write it and those who read it.
LEMMA SameType == job \in Jobs => ReadersType = job.type
<1> SUFFICES ASSUME job \in Jobs PROVE ReadersType = job.type
  OBVIOUS
<1>1. job.type \in {"lv0", "lv1", "lv2", "app", "iso", "ldr", "pkg"}
  BY JobsAssumption DEF app_type
<1> QED BY <1>1 DEF ReadersType, self_load_keys, app_type

\* The suffix behind the last hyphen is one without hyphens.
LEMMA IdIsPlain == ASSUME NEW x PROVE Plain(Id(x))
BY DEF Plain, Id

\* A suffix without hyphens is what keys_get takes as such.
LEMMA PlainIsId ==
    ASSUME NEW s \in Seq(STRING), Plain(s), NEW type, NEW kind
    PROVE  Id(Path(type, kind, s)) = s
<1>1. s = <<s[1]>> /\ Len(s) = 1
  BY DEF Plain
<1> QED BY <1>1 DEF Id, Path

\* The key file of such a suffix is one that keys_get takes.
LEMMA KeyFileMatches ==
    ASSUME job \in Jobs, NEW s, Signs(key_get(ReadersType, s))
    PROVE  /\ Path(ReadersType, "key", s) \in DOMAIN job.store
           /\ Matches(Path(ReadersType, "key", s))
           /\ s \in Suffixes /\ s \in Seq(STRING)
<1>1. key_read(Path(ReadersType, "key", s), ZERO).ok
  BY SigningKey DEF Kinds
<1>2. Path(ReadersType, "key", s) \in DOMAIN job.store
  BY <1>1, ReadWhole
<1>3. s = Path(ReadersType, "key", s).suffix
  BY DEF Path
<1>4. s \in Suffixes /\ s \in Seq(STRING)
  BY <1>2, <1>3, JobsAssumption DEF Suffixes
<1> QED BY <1>2, <1>4 DEF Matches, Path

\* A sequence is one over what is in it.
LEMMA OwnRange ==
    ASSUME NEW S, NEW s \in Seq(S)
    PROVE  s \in Seq({s[n] : n \in DOMAIN s})
<1> DEFINE T == {s[n] : n \in DOMAIN s}
<1>1. DOMAIN s = 1..Len(s) /\ Len(s) \in Nat /\ s = [n \in 1..Len(s) |-> s[n]]
  OBVIOUS
<1>2. \A n \in 1..Len(s) : s[n] \in T
  BY <1>1
<1> HIDE DEF T
<1>3. s \in [1..Len(s) -> T]
  BY <1>1, <1>2
<1>4. s \in Seq(T)
  BY <1>1, <1>3, FunctionIsSeq
<1> QED BY <1>4 DEF T

\* A list that has grown by an entry.
LEMMA ListGrows ==
    ASSUME klist \in Seq({klist[n] : n \in DOMAIN klist}), NEW e, klist' = Append(klist, e)
    PROVE  /\ klist' \in Seq({klist'[n] : n \in DOMAIN klist'})
           /\ Len(klist) \in Nat /\ Len(klist') = Len(klist) + 1
           /\ klist'[Len(klist) + 1] = e
           /\ \A n \in 1..Len(klist) : klist'[n] = klist[n]
<1> DEFINE S == {klist[n] : n \in DOMAIN klist} \cup {e}
<1>1. klist \in Seq(S)
  OBVIOUS
<1> HIDE DEF S
<1>2. e \in S
  BY DEF S
<1>3. /\ klist' \in Seq(S) /\ Len(klist') = Len(klist) + 1 /\ Len(klist) \in Nat
      /\ klist'[Len(klist) + 1] = e
      /\ \A n \in 1..Len(klist) : klist'[n] = klist[n]
  BY <1>1, <1>2, AppendFacts, ElementOf
<1>4. klist' \in Seq({klist'[n] : n \in DOMAIN klist'})
  BY <1>3, OwnRange
<1> QED BY <1>3, <1>4

\* While the job is the same, the same can be read.
LEMMA SameReading ==
    ASSUME job' = job
    PROVE  /\ ReadersType' = ReadersType /\ Suffixes' = Suffixes
           /\ \A s : /\ Signs(key_get(ReadersType, s))' <=> Signs(key_get(ReadersType, s))
                     /\ WholeKey(ReadersType, s)' = WholeKey(ReadersType, s)
                     /\ Path(ReadersType, "key", s)' = Path(ReadersType, "key", s)
                     /\ Plain(s)' = Plain(s)
           /\ \A x, old : Entry(x, old)' = Entry(x, old)
<1>1. ReadersType' = ReadersType /\ Suffixes' = Suffixes
  BY DEF ReadersType, Suffixes
<1>2. ASSUME NEW s
      PROVE  /\ Signs(key_get(ReadersType, s))' <=> Signs(key_get(ReadersType, s))
             /\ WholeKey(ReadersType, s)' = WholeKey(ReadersType, s)
             /\ Path(ReadersType, "key", s)' = Path(ReadersType, "key", s)
             /\ Plain(s)' = Plain(s)
  <2>1. key_get(ReadersType, s)' = key_get(ReadersType, s)
    BY DEF key_get, key_read, ReadersType
  <2>2. Signs(key_get(ReadersType, s))' <=> Signs(key_get(ReadersType, s))
    BY <2>1 DEF Signs, ecdsa_set_curve
  <2>3. WholeKey(ReadersType, s)' = WholeKey(ReadersType, s)
    BY DEF WholeKey, ReadersType
  <2>4. Path(ReadersType, "key", s)' = Path(ReadersType, "key", s) /\ Plain(s)' = Plain(s)
    BY <1>1 DEF Path, Plain
  <2> QED BY <2>2, <2>3, <2>4
<1>3. ASSUME NEW x, NEW old PROVE Entry(x, old)' = Entry(x, old)
  BY DEF Entry, key_read, ReadersType
<1> QED BY <1>1, <1>2, <1>3

-----------------------------------------------------------------------------
(* The steps *)

\* Nothing is read yet.
LEMMA InitIInv == Init => IInv
BY DEF Init, IInv, SignedIsVerified

\* A tool that does not fail has signed with the key of its suffix.
LEMMA SignIInv == IInv /\ Sign => IInv'
<1> SUFFICES ASSUME IInv, Sign PROVE IInv'
  OBVIOUS
<1>1. job' = job /\ pc' \in {"signed", "failed"} /\ klist' = klist /\ klist = <<>>
  BY DEF Sign, IInv
<1>2. pc' = "signed" => Signs(key_get(job.type, job.suffix))
  BY DEF Sign
<1>3. k' = key_get(job.type, job.suffix).k
  BY DEF Sign
<1>4. \A g : Signs(g)' = Signs(g)
  BY DEF Signs, ecdsa_set_curve
<1>5. key_get(job.type, job.suffix)' = key_get(job.type, job.suffix)
  BY <1>1 DEF key_get, key_read
<1>6. Signs(key_get(job.type, job.suffix))' = Signs(key_get(job.type, job.suffix))
  BY <1>5 DEF Signs, ecdsa_set_curve
<1>7. SignedIsVerified'
  BY <1>1 DEF SignedIsVerified
<1> QED BY <1>1, <1>2, <1>3, <1>5, <1>6, <1>7 DEF IInv

\* The parts of the invariant that hold while the job and its key are kept.
LEMMA KeyKept ==
    ASSUME IInv, UNCHANGED <<job, k>>, pc \notin {"sign", "failed"}
    PROVE  /\ job' \in Jobs
           /\ Signs(key_get(job.type, job.suffix))' /\ k' = key_get(job.type, job.suffix)'.k
           /\ Signs(key_get(job.type, job.suffix)) /\ k = WholeKey(ReadersType, job.suffix)
           /\ ReadersType = job.type
<1>1. key_get(job.type, job.suffix)' = key_get(job.type, job.suffix)
  BY DEF key_get, key_read
<1>2. Signs(key_get(job.type, job.suffix))' = Signs(key_get(job.type, job.suffix))
  BY <1>1 DEF Signs, ecdsa_set_curve
<1>3. Signs(key_get(job.type, job.suffix)) /\ k = key_get(job.type, job.suffix).k
  BY DEF IInv
<1>4. ReadersType = job.type
  BY SameType DEF IInv
<1>5. k = WholeKey(ReadersType, job.suffix)
  BY <1>3, <1>4, SigningKey
<1> QED BY <1>1, <1>2, <1>3, <1>4, <1>5 DEF IInv

\* The key file of every key that is good for signing will be returned by readdir().
LEMMA OpenDirIInv == IInv /\ OpenDir => IInv'
<1> SUFFICES ASSUME IInv, OpenDir PROVE IInv'
  OBVIOUS
<1>1. /\ pc = "signed" /\ pc' = "readdir" /\ klist = <<>> /\ klist' = klist
      /\ UNCHANGED <<job, k>> /\ job \in Jobs /\ SignedIsVerified
  BY DEF OpenDir, IInv
<1>2. klist' \in Seq({klist'[n] : n \in DOMAIN klist'})
  BY <1>1, OwnRange
<1>3. AllAreRead' /\ dir' \subseteq DOMAIN job.store
  BY <1>1 DEF AllAreRead, OpenDir
<1>4. GoodAreRead'
  <2>1. SUFFICES ASSUME NEW s \in Suffixes', Plain(s)',
                        Signs(key_get(ReadersType, s))'
                 PROVE  Path(ReadersType, "key", s)' \in dir'
    BY DEF GoodAreRead
  <2>2. Signs(key_get(ReadersType, s))
    <3>1. key_get(ReadersType, s)' = key_get(ReadersType, s)
      BY <1>1 DEF key_get, key_read, ReadersType
    <3> QED BY <2>1, <3>1 DEF Signs, ecdsa_set_curve
  <2>3. Path(ReadersType, "key", s) \in {x \in DOMAIN job.store : Matches(x)}
    BY <1>1, <2>2, KeyFileMatches
  <2>4. Path(ReadersType, "key", s)' = Path(ReadersType, "key", s)
    BY <1>1 DEF Path, ReadersType
  <2> QED BY <2>3, <2>4 DEF OpenDir
<1>5. SignedIsVerified'
  BY <1>1 DEF SignedIsVerified
<1> QED BY <1>1, <1>2, <1>3, <1>4, <1>5, KeyKept DEF IInv

\* The turn that takes the key file of such a key appends the key.
LEMMA ReadDirIInv == ASSUME NEW x \in dir, IInv, ReadDir(x) PROVE IInv'
<1>1. /\ pc = "readdir" /\ pc' = "readdir" /\ UNCHANGED <<job, k>>
      /\ dir' = dir \ {x} /\ dir \subseteq DOMAIN job.store
      /\ job \in Jobs /\ SignedIsVerified /\ GoodAreRead /\ AllAreRead
      /\ klist \in Seq({klist[n] : n \in DOMAIN klist})
  BY DEF ReadDir, IInv
<1>2. klist' = Append(klist, Entry(x, bfr))
  BY DEF ReadDir, Entry
<1>3. /\ klist' \in Seq({klist'[n] : n \in DOMAIN klist'})
      /\ Len(klist) \in Nat /\ Len(klist') = Len(klist) + 1
      /\ klist'[Len(klist) + 1] = Entry(x, bfr)
      /\ \A n \in 1..Len(klist) : klist'[n] = klist[n]
  BY <1>1, <1>2, ListGrows
<1>4. AllAreRead'
  <2>1. SUFFICES ASSUME NEW n \in 1..Len(klist')
                 PROVE  \E y \in DOMAIN job.store : \E old : klist'[n] = Entry(y, old)
    BY <1>1, SameReading DEF AllAreRead
  <2>2. CASE n = Len(klist) + 1
    <3>1. x \in DOMAIN job.store
      BY <1>1
    <3> QED BY <1>3, <2>2, <3>1
  <2>3. CASE n # Len(klist) + 1
    <3>1. n \in 1..Len(klist)
      BY <1>3, <2>1, <2>3
    <3> QED BY <1>1, <1>3, <3>1 DEF AllAreRead
  <2> QED BY <2>2, <2>3
<1>5. GoodAreRead'
  <2>1. SUFFICES ASSUME NEW s \in Suffixes, Plain(s), Signs(key_get(ReadersType, s))
                 PROVE  \/ Path(ReadersType, "key", s) \in dir'
                        \/ \E n \in 1..Len(klist') : klist'[n] = WholeKey(ReadersType, s)
    <3>1. /\ ReadersType' = ReadersType /\ Suffixes' = Suffixes
          /\ \A s : /\ Signs(key_get(ReadersType, s))' <=> Signs(key_get(ReadersType, s))
                    /\ WholeKey(ReadersType, s)' = WholeKey(ReadersType, s)
                    /\ Path(ReadersType, "key", s)' = Path(ReadersType, "key", s)
                    /\ Plain(s)' = Plain(s)
      BY <1>1, SameReading
    <3> QED BY <3>1 DEF GoodAreRead, InList
  <2>2. CASE Path(ReadersType, "key", s) \in dir \ {x}
    BY <1>1, <2>2
  <2>3. CASE Path(ReadersType, "key", s) = x
    <3>1. Id(x) = s
      BY <1>1, <2>1, <2>3, KeyFileMatches, PlainIsId
    <3>2. klist'[Len(klist) + 1] = WholeKey(ReadersType, s)
      BY <1>3, <2>1, <3>1, EntryIsKey
    <3> QED BY <1>3, <3>2
  <2>4. CASE InList(WholeKey(ReadersType, s))
    <3>1. PICK n \in 1..Len(klist) : klist[n] = WholeKey(ReadersType, s)
      BY <2>4 DEF InList
    <3>2. n \in 1..Len(klist') /\ klist'[n] = WholeKey(ReadersType, s)
      BY <1>3, <3>1
    <3> QED BY <3>2
  <2> QED BY <1>1, <2>1, <2>2, <2>3, <2>4 DEF GoodAreRead
<1>6. SignedIsVerified'
  BY <1>1 DEF SignedIsVerified
<1> QED BY <1>1, <1>3, <1>4, <1>5, <1>6, KeyKept DEF IInv

\* Whatever opens the header is the key itself or has a twin in the store.
LEMMA OpenedByKeyOrTwin ==
    ASSUME NEW x \in DOMAIN job.store, NEW old, NEW s,
           Signs(key_get(ReadersType, s)), k = WholeKey(ReadersType, s), s = job.suffix,
           Entry(x, old).key = k.key
    PROVE  Entry(x, old) = k \/ Twin
<1>1. CASE Id(x) = s
  BY <1>1, EntryIsKey
<1>2. CASE Id(x) # s
  <2>1. key_read(Path(ReadersType, "key", Id(x)), ZERO).dst = k.key
    BY DEF Entry
  <2>2. k.key = <<"whole", job.store[Path(ReadersType, "key", s)]>>
    BY DEF WholeKey
  <2>3. Path(ReadersType, "key", Id(x)) \in DOMAIN job.store
    BY <2>1, <2>2, LooksWhole, ReadWhole
  <2>4. Id(x) \in Suffixes
    BY <2>3 DEF Suffixes, Path
  <2> QED BY <1>2, <2>1, <2>4, IdIsPlain DEF Twin
<1> QED BY <1>1, <1>2

\* If the suffix has no hyphen, its key is in the list and opens the header; an
\* entry with another iv that does so is a twin's.
LEMMA DecryptHeaderIInv == IInv /\ DecryptHeader => IInv'
<1> SUFFICES ASSUME IInv, DecryptHeader PROVE IInv'
  OBVIOUS
<1>1. /\ pc = "readdir" /\ dir = {} /\ UNCHANGED <<job, k, dir, klist>>
      /\ job \in Jobs /\ SignedIsVerified /\ GoodAreRead /\ AllAreRead
      /\ klist \in Seq({klist[n] : n \in DOMAIN klist})
      /\ pc' \in {"not_opened", "garbled", "opened"}
  BY DEF DecryptHeader, IInv
<1>2. ASSUME Plain(job.suffix) PROVE Opening # {}
  <2>1. Signs(key_get(ReadersType, job.suffix)) /\ k = WholeKey(ReadersType, job.suffix)
    BY <1>1, KeyKept
  <2>2. job.suffix \in Suffixes
    BY <1>1, <2>1, KeyFileMatches
  <2>3. InList(k)
    BY <1>1, <1>2, <2>1, <2>2 DEF GoodAreRead
  <2> QED BY <2>3 DEF InList, Opening
<1>3. CASE Opening = {}
  <2>1. ~Plain(job.suffix) /\ pc' = "not_opened"
    BY <1>2, <1>3 DEF DecryptHeader
  <2>2. SignedIsVerified'
    BY <1>1, <2>1 DEF SignedIsVerified, Plain
  <2> QED BY <1>1, <2>1, <2>2, KeyKept DEF IInv
<1>4. CASE Opening # {}
  <2>1. /\ keyid' = CHOOSE n \in Opening : \A o \in Opening : n <= o
        /\ pc' = IF klist[keyid'].iv = k.iv THEN "opened" ELSE "garbled"
    BY <1>4 DEF DecryptHeader
  <2>2. Opening \subseteq Nat
    BY DEF Opening
  <2>3. keyid' \in Opening
    BY <1>4, <2>1, <2>2, Least
  <2>4. Opening' = Opening
    BY <1>1 DEF Opening
  <2>5. GoodAreRead' /\ AllAreRead'
    <3>1. AllAreRead'
      BY <1>1, SameReading DEF AllAreRead
    <3>2. GoodAreRead'
      BY <1>1, SameReading DEF GoodAreRead, InList
    <3> QED BY <3>1, <3>2
  <2>6. SignedIsVerified'
    <3>1. ASSUME klist[keyid'].iv # k.iv PROVE Twin
      <4>1. Signs(key_get(ReadersType, job.suffix)) /\ k = WholeKey(ReadersType, job.suffix)
        BY <1>1, KeyKept
      <4>2. PICK x \in DOMAIN job.store : \E old : klist[keyid'] = Entry(x, old)
        BY <1>1, <2>3 DEF AllAreRead, Opening
      <4>3. PICK old : klist[keyid'] = Entry(x, old)
        BY <4>2
      <4>4. Entry(x, old).key = k.key /\ Entry(x, old) # k
        BY <2>3, <3>1, <4>3 DEF Opening
      <4> QED BY <4>1, <4>4, OpenedByKeyOrTwin
    <3>2. Twin' = Twin
      BY <1>1 DEF Twin, key_read, ReadersType, Suffixes
    <3> QED BY <2>1, <3>1, <3>2 DEF SignedIsVerified
  <2>9. pc' = "opened" => (klist[keyid].iv = k.iv)'
    BY <1>1, <2>1
  <2>7. dir' \subseteq DOMAIN job'.store
    BY <1>1
  <2>8. klist' \in Seq({klist'[n] : n \in DOMAIN klist'})
    BY <1>1
  <2> QED BY <1>1, <2>1, <2>3, <2>4, <2>5, <2>6, <2>7, <2>8, <2>9, KeyKept DEF IInv
<1> QED BY <1>3, <1>4

\* The public key and the curve are those of the one who signed, or a twin's.
LEMMA VerifyIInv == IInv /\ Verify => IInv'
<1> SUFFICES ASSUME IInv, Verify PROVE IInv'
  OBVIOUS
<1>1. /\ pc = "opened" /\ pc' \in {"not_verified", "OK", "FAIL"}
      /\ UNCHANGED <<job, k, klist, keyid>> /\ keyid \in Opening /\ AllAreRead
  BY DEF Verify, IInv
<1>2. Signs(key_get(ReadersType, job.suffix)) /\ k = WholeKey(ReadersType, job.suffix)
  BY <1>1, KeyKept
<1>3. PICK x \in DOMAIN job.store : \E old : klist[keyid] = Entry(x, old)
  BY <1>1 DEF AllAreRead, Opening
<1>4. PICK old : klist[keyid] = Entry(x, old)
  BY <1>3
<1>5. klist[keyid] = k \/ Twin
  <2>1. Entry(x, old).key = k.key
    BY <1>1, <1>4 DEF Opening
  <2> QED BY <1>2, <1>4, <2>1, OpenedByKeyOrTwin
<1>6. ASSUME klist[keyid] = k PROVE pc' = "OK"
  <2>1. k.pub_avail = 1
    BY <1>2 DEF WholeKey
  <2>2. ecdsa_set_curve(k.ctype)
    BY <1>2, SigningKey DEF Signs
  <2> QED BY <1>6, <2>1, <2>2 DEF Verify
<1>7. Twin' = Twin /\ Plain(job.suffix)' = Plain(job.suffix)
  BY <1>1 DEF Twin, key_read, ReadersType, Suffixes, Plain
<1>8. SignedIsVerified'
  BY <1>5, <1>6, <1>7 DEF SignedIsVerified
<1> QED BY <1>1, <1>8, KeyKept DEF IInv

\* Every step keeps the invariant.
LEMMA NextIInv == IInv /\ [Next]_vars => IInv'
<1> SUFFICES ASSUME IInv, [Next]_vars PROVE IInv'
  OBVIOUS
<1>1. CASE Next
  <2>1. CASE \E x \in dir : ReadDir(x)
    BY <2>1, ReadDirIInv
  <2> QED BY <1>1, <2>1, SignIInv, OpenDirIInv, DecryptHeaderIInv, VerifyIInv DEF Next
<1>2. CASE UNCHANGED vars
  <2>1. UNCHANGED <<job, pc, k, dir, klist, keyid>>
    BY <1>2 DEF vars
  <2>2. GoodAreRead' <=> GoodAreRead
    BY <2>1, SameReading DEF GoodAreRead, InList
  <2>3. AllAreRead' <=> AllAreRead
    BY <2>1, SameReading DEF AllAreRead
  <2>4. Opening' = Opening
    BY <2>1 DEF Opening
  <2>5. key_get(job.type, job.suffix)' = key_get(job.type, job.suffix)
    BY <2>1 DEF key_get, key_read
  <2>6. Signs(key_get(job.type, job.suffix))' <=> Signs(key_get(job.type, job.suffix))
    BY <2>5 DEF Signs, ecdsa_set_curve
  <2>7. Twin' = Twin /\ Plain(job.suffix)' = Plain(job.suffix)
    BY <2>1 DEF Twin, key_read, ReadersType, Suffixes, Plain
  <2>8. SignedIsVerified'
    BY <2>1, <2>7 DEF SignedIsVerified, IInv
  <2> QED BY <2>1, <2>2, <2>3, <2>4, <2>5, <2>6, <2>8 DEF IInv
<1> QED BY <1>1, <1>2

-----------------------------------------------------------------------------
(* The theorems *)

\* keys_get() and sceverify: what makeself or pkg signs is verified, with every
\* store and in every order of the directory, unless the suffix has a hyphen
\* or another suffix has the same key.
THEOREM SignedIsAlwaysVerified == Spec => []SignedIsVerified
<1>1. IInv => SignedIsVerified
  BY DEF IInv
<1> QED BY <1>1, InitIInv, NextIInv, PTL DEF Spec

\* key_get() and keys_get(): a key that is good for signing is in the list, the
\* same in every field, whatever stands next to it in the directory.
THEOREM ListAlwaysAgrees == Spec => []ListAgrees
<1>1. IInv => ListAgrees
  <2> SUFFICES ASSUME IInv, pc = "readdir", dir = {},
                      NEW s \in Suffixes, Plain(s), Signs(key_get(ReadersType, s))
               PROVE  \E n \in 1..Len(klist) : klist[n] = key_get(ReadersType, s).k
    BY DEF ListAgrees
  <2>1. InList(WholeKey(ReadersType, s))
    BY DEF IInv, GoodAreRead
  <2> QED BY <2>1, SigningKey DEF InList
<1> QED BY <1>1, InitIInv, NextIInv, PTL DEF Spec

-----------------------------------------------------------------------------
(* Part two: the hash *)

\* The low word counts whole octets, so that it hits 0 and does not jump over.
WholeOctets == \E q \in Nat : Length_Low = 8 * q

\* Input and padding never meet, and never go on after a digest is there.
InOrder == /\ phase \in {"input", "pad", "pad_length"} => ~Computed
           /\ phase \in {"pad", "pad_length"} => ~Corrupted

\* The inductive invariant.
ContextInv == TypeOK /\ NothingLost /\ WholeOctets /\ InOrder

-----------------------------------------------------------------------------
\* The sizes as the steps below need them.
LEMMA Sizes == /\ BLOCK \in Nat /\ LENGTH \in Nat /\ 0 < LENGTH /\ LENGTH < BLOCK
               /\ WORD \in Nat /\ HIGH \in Nat /\ HIGH > 0 /\ WORD > 8
               /\ ZERO_OCTET \in Octet /\ MARK \in Octet
BY SizesAssumption, ValuesAssumption DEF Octet, ZERO_OCTET, MARK

\* WORD is a number of octets too.
LEMMA WordOfOctets == \E n \in Nat : WORD = 8 * n
<1>1. WORD \in Nat /\ WORD % 8 = 0
  BY SizesAssumption
<1>2. PICK q \in Int : WORD = 8 * q + (WORD % 8)
  BY <1>1, ModQuotient
<1>3. q \in Nat /\ WORD = 8 * q
  BY <1>1, <1>2
<1> QED BY <1>3

\* What processing a block appends.
LEMMA BlockAppended ==
    ASSUME NEW f \in Seq(Stored), NEW b \in [1..BLOCK -> Stored]
    PROVE  /\ f \o b \in Seq(Stored)
           /\ Len(f \o b) = Len(f) + BLOCK
           /\ \A j \in 1..Len(f) : (f \o b)[j] = f[j]
           /\ \A j \in 1..BLOCK : (f \o b)[Len(f) + j] = b[j]
<1>1. BLOCK \in Nat
  BY Sizes
<1>2. b \in Seq(Stored) /\ Len(b) = BLOCK
  BY <1>1
<1> QED BY <1>1, <1>2

\* Eight more bits: the words stay words, the low one counts octets, and the
\* two of them count one octet more unless that overflows both.
LEMMA Counted ==
    ASSUME TypeOK, WholeOctets, Count
    PROVE  /\ Length_Low' \in 0..(WORD - 1) /\ Length_High' \in 0..(HIGH - 1)
           /\ Corrupted' \in BOOLEAN /\ WholeOctets'
           /\ ~Corrupted' => \/ Length_Low' = Length_Low + 8 /\ Length_High' = Length_High
                             \/ /\ Length_Low' = Length_Low + 8 - WORD
                                /\ Length_High' = Length_High + 1
<1>1. /\ WORD \in Nat /\ WORD > 8 /\ HIGH \in Nat /\ HIGH > 0
      /\ Length_Low \in 0..(WORD - 1) /\ Length_High \in 0..(HIGH - 1)
  BY Sizes DEF TypeOK
<1>2. PICK n \in Nat : WORD = 8 * n
  BY WordOfOctets
<1>3. PICK q \in Nat : Length_Low = 8 * q
  BY DEF WholeOctets
<1>4. Length_Low + 8 <= WORD
  BY <1>1, <1>2, <1>3
<1>5. Corrupted' \in BOOLEAN
  BY DEF Count
<1>6. CASE Length_Low + 8 < WORD
  <2>1. Length_Low + 8 \in 0..(WORD - 1)
    BY <1>1, <1>6
  <2>2. (Length_Low + 8) % WORD = Length_Low + 8
    BY <1>1, <2>1, ModOfWord
  <2>3. Length_Low' = Length_Low + 8 /\ Length_High' = Length_High
    BY <1>1, <2>1, <2>2 DEF Count
  <2>4. Length_Low' = 8 * (q + 1) /\ q + 1 \in Nat
    BY <1>3, <2>3
  <2> QED BY <1>1, <1>5, <2>1, <2>3, <2>4 DEF WholeOctets
<1>7. CASE Length_Low + 8 = WORD
  <2>1. (Length_Low + 8) % WORD = 0
    BY <1>1, <1>7
  <2>2. Length_Low' = 0
    BY <2>1 DEF Count
  <2>3. Length_High' = (Length_High + 1) % HIGH
    BY <2>2 DEF Count
  <2>4. (Length_High + 1) % HIGH \in 0..(HIGH - 1)
    BY <1>1, ModRange
  <2>5. ASSUME ~Corrupted'
        PROVE  Length_High' = Length_High + 1
    <3>1. Length_High' # 0
      BY <2>2, <2>5 DEF Count
    <3>2. Length_High + 1 # HIGH
      BY <1>1, <2>3, <3>1
    <3>3. Length_High + 1 \in 0..(HIGH - 1)
      BY <1>1, <3>2
    <3> QED BY <1>1, <2>3, <3>3, ModOfWord
  <2>6. Length_Low' = 8 * 0
    BY <2>2
  <2> QED BY <1>1, <1>5, <1>7, <2>2, <2>3, <2>4, <2>5, <2>6 DEF WholeOctets
<1> QED BY <1>1, <1>4, <1>6, <1>7

\* A step of Take with an octet more in the block: what is stored stays well
\* typed, and the blocks and the filled part are one octet longer.
LEMMA Taken ==
    ASSUME TypeOK, NothingLost, ~Computed, phase = "input", NEW o \in Octet,
           Take([Message_Block EXCEPT ![Message_Block_Index + 1] = o]),
           msg' = Append(msg, o)
    PROVE  /\ Message_Block' \in [1..BLOCK -> Stored]
           /\ Message_Block_Index' \in 0..(BLOCK - 1)
           /\ fed' \in Seq(Stored) /\ msg' \in Seq(Octet)
           /\ Len(fed') + Message_Block_Index' = Len(msg')
           /\ \A j \in 1..Len(fed') : fed'[j] = msg'[j]
           /\ \A j \in 1..Message_Block_Index' : Message_Block'[j] = msg'[Len(fed') + j]
<1> DEFINE b == [Message_Block EXCEPT ![Message_Block_Index + 1] = o]
<1>1. /\ BLOCK \in Nat /\ Message_Block_Index \in 0..(BLOCK - 1)
      /\ Message_Block \in [1..BLOCK -> Stored]
      /\ fed \in Seq(Stored) /\ msg \in Seq(Octet) /\ o \in Stored
  BY Sizes DEF TypeOK, Stored
<1>2. /\ b \in [1..BLOCK -> Stored]
      /\ b[Message_Block_Index + 1] = o
      /\ \A j \in 1..Message_Block_Index : b[j] = Message_Block[j]
  BY <1>1
<1>3. /\ Len(fed) + Message_Block_Index = Len(msg)
      /\ \A j \in 1..Len(fed) : fed[j] = msg[j]
      /\ \A j \in 1..Message_Block_Index : Message_Block[j] = msg[Len(fed) + j]
  BY DEF NothingLost
<1>4. /\ msg' \in Seq(Octet) /\ Len(msg') = Len(msg) + 1
      /\ msg'[Len(msg) + 1] = o
      /\ \A j \in 1..Len(msg) : msg'[j] = msg[j]
  BY <1>1
<1>5. /\ Len(fed) \in Nat /\ Len(msg) \in Nat
      /\ Message_Block_Index \in Nat /\ BLOCK \in Nat
  BY <1>1
<1> HIDE DEF b
<1>6. \A j \in 1..(Message_Block_Index + 1) : b[j] = msg'[Len(fed) + j]
  <2> SUFFICES ASSUME NEW j \in 1..(Message_Block_Index + 1)
               PROVE  b[j] = msg'[Len(fed) + j]
    OBVIOUS
  <2>1. CASE j = Message_Block_Index + 1
    BY <1>1, <1>2, <1>3, <1>4, <1>5, <2>1
  <2>2. CASE j \in 1..Message_Block_Index
    <3>1. Len(fed) + j \in 1..Len(msg)
      BY <1>1, <1>3, <1>5, <2>2
    <3> QED BY <1>2, <1>3, <1>4, <2>2, <3>1
  <2>3. j = Message_Block_Index + 1 \/ j \in 1..Message_Block_Index
    BY <1>5
  <2> QED BY <2>1, <2>2, <2>3
<1>7. \A j \in 1..Len(fed) : fed[j] = msg'[j]
  BY <1>1, <1>3, <1>4, <1>5
<1>8. CASE Message_Block_Index + 1 = BLOCK
  <2>1. Message_Block' = b /\ fed' = fed \o b /\ Message_Block_Index' = 0
    BY <1>8 DEF Take, Process, b
  <2>2. /\ fed' \in Seq(Stored) /\ Len(fed') = Len(fed) + BLOCK
        /\ \A j \in 1..Len(fed) : fed'[j] = fed[j]
        /\ \A j \in 1..BLOCK : fed'[Len(fed) + j] = b[j]
    BY <1>1, <1>2, <2>1, BlockAppended
  <2>3. \A j \in 1..Len(fed') : fed'[j] = msg'[j]
    <3> SUFFICES ASSUME NEW j \in 1..Len(fed')
                 PROVE  fed'[j] = msg'[j]
      OBVIOUS
    <3>1. CASE j \in 1..Len(fed)
      BY <1>7, <2>2, <3>1
    <3>2. CASE j > Len(fed)
      <4>1. PICK i \in 1..BLOCK : j = Len(fed) + i
        <5>1. j - Len(fed) \in 1..BLOCK /\ j = Len(fed) + (j - Len(fed))
          BY <1>1, <1>5, <2>2, <3>2
        <5> QED BY <5>1
      <4> QED BY <1>6, <1>8, <2>2, <4>1
    <3>3. j \in 1..Len(fed) \/ j > Len(fed)
      BY <1>5, <2>2
    <3> QED BY <3>1, <3>2, <3>3
  <2>4. Len(fed') + Message_Block_Index' = Len(msg')
    <3>1. Len(msg') = Len(msg) + 1 /\ Len(fed') = Len(fed) + BLOCK
      BY <1>4, <2>2
    <3>2. Message_Block_Index' = 0 /\ Len(fed) + Message_Block_Index = Len(msg)
      BY <1>3, <2>1
    <3> QED BY <1>5, <1>8, <3>1, <3>2
  <2>5. Message_Block_Index' \in 0..(BLOCK - 1) /\ 1..Message_Block_Index' = {}
    BY <1>1, <2>1
  <2> QED BY <1>2, <1>4, <2>1, <2>2, <2>3, <2>4, <2>5
<1>9. CASE Message_Block_Index + 1 # BLOCK
  <2>1. /\ Message_Block' = b /\ fed' = fed
        /\ Message_Block_Index' = Message_Block_Index + 1
    BY <1>9 DEF Take, b
  <2>2. Message_Block_Index + 1 \in 0..(BLOCK - 1)
    BY <1>1, <1>9
  <2>3. Len(fed') + Message_Block_Index' = Len(msg')
    <3>1. Len(msg') = Len(msg) + 1 /\ Len(fed') = Len(fed)
      BY <1>4, <2>1
    <3> QED BY <1>3, <1>5, <2>1, <3>1
  <2>4. \A j \in 1..Message_Block_Index' : Message_Block'[j] = msg'[Len(fed') + j]
    BY <1>6, <2>1
  <2>5. \A j \in 1..Len(fed') : fed'[j] = msg'[j]
    BY <1>7, <2>1
  <2> QED BY <1>1, <1>2, <1>4, <2>1, <2>2, <2>3, <2>4, <2>5
<1> QED BY <1>8, <1>9

\* The blocks that SHA1PadMessage processes are well typed.
LEMMA PaddedType ==
    ASSUME TypeOK, NEW mark \in BOOLEAN
    PROVE  /\ Padded(mark) \in [1..BLOCK -> Stored]
           /\ WithLength(Padded(mark)) \in [1..BLOCK -> Stored]
<1>1. /\ BLOCK \in Nat /\ LENGTH \in Nat /\ LENGTH < BLOCK
      /\ MARK \in Stored /\ ZERO_OCTET \in Stored
  BY Sizes DEF Stored
<1>2. /\ Message_Block \in [1..BLOCK -> Stored]
      /\ Length_High \in 0..(HIGH - 1) /\ Length_Low \in 0..(WORD - 1)
  BY DEF TypeOK
<1>3. Padded(mark) \in [1..BLOCK -> Stored]
  BY <1>1, <1>2 DEF Padded
<1>4. ASSUME NEW j \in 1..BLOCK, j > BLOCK - LENGTH
      PROVE  LengthOctet(Length_High, Length_Low, j - (BLOCK - LENGTH)) \in Stored
  <2>1. j - (BLOCK - LENGTH) \in 1..LENGTH
    BY <1>1, <1>4
  <2> QED BY <1>2, <2>1 DEF LengthOctet, Stored
<1>5. ASSUME NEW block \in [1..BLOCK -> Stored]
      PROVE  WithLength(block) \in [1..BLOCK -> Stored]
  <2> DEFINE octet(j) == IF j <= BLOCK - LENGTH THEN block[j]
                         ELSE LengthOctet(Length_High, Length_Low, j - (BLOCK - LENGTH))
  <2>1. ASSUME NEW j \in 1..BLOCK
        PROVE  octet(j) \in Stored
    <3>1. CASE j <= BLOCK - LENGTH
      BY <1>5, <3>1
    <3>2. CASE j > BLOCK - LENGTH
      BY <1>1, <1>4, <3>2
    <3> QED BY <1>1, <3>1, <3>2
  <2>2. WithLength(block) = [j \in 1..BLOCK |-> octet(j)]
    BY DEF WithLength
  <2> HIDE DEF octet
  <2> QED BY <2>1, <2>2
<1> QED BY <1>3, <1>5

-----------------------------------------------------------------------------
\* SHA1Reset.
LEMMA ResetContextInv == SHA1Reset => ContextInv
<1> SUFFICES ASSUME SHA1Reset PROVE ContextInv
  OBVIOUS
<1>1. TypeOK
  <2>1. [j \in 1..BLOCK |-> JUNK] \in [1..BLOCK -> Stored]
    BY DEF Stored
  <2>2. 0 \in 0..(BLOCK - 1) /\ 0 \in 0..(WORD - 1) /\ 0 \in 0..(HIGH - 1)
    BY Sizes
  <2>3. <<>> \in Seq(Octet) /\ <<>> \in Seq(Stored)
    OBVIOUS
  <2> QED BY <2>1, <2>2, <2>3 DEF SHA1Reset, TypeOK
<1>2. NothingLost
  BY DEF SHA1Reset, NothingLost
<1>3. WholeOctets
  <2>1. Length_Low = 8 * 0 /\ 0 \in Nat
    BY DEF SHA1Reset
  <2> QED BY <2>1 DEF WholeOctets
<1> QED BY <1>1, <1>2, <1>3 DEF SHA1Reset, InOrder, ContextInv

\* The steps that touch neither the block nor the message.
LEMMA QuietStep ==
    ASSUME ContextInv,
           UNCHANGED <<Message_Block, Message_Block_Index, counters, Computed, msg, fed>>,
           Corrupted' \in BOOLEAN, input' \in Seq(Octet),
           phase' \in {"idle", "input", "pad"}, phase # "pad_length",
           InOrder'
    PROVE  ContextInv'
BY DEF ContextInv, TypeOK, NothingLost, WholeOctets, counters

\* One octet of the input.
LEMMA OctetStep == ContextInv /\ InputOctet => ContextInv'
<1> SUFFICES ASSUME ContextInv, InputOctet PROVE ContextInv'
  OBVIOUS
<1>1. TypeOK /\ NothingLost /\ WholeOctets /\ InOrder
  BY DEF ContextInv
<1>2. /\ phase = "input" /\ input # <<>> /\ Count /\ UNCHANGED <<Computed, phase>>
      /\ Take([Message_Block EXCEPT ![Message_Block_Index + 1] = Head(input)])
      /\ msg' = Append(msg, Head(input)) /\ input' = Tail(input)
  BY DEF InputOctet
<1>3. Head(input) \in Octet /\ Tail(input) \in Seq(Octet)
  BY <1>1, <1>2 DEF TypeOK
<1>4. ~Computed
  BY <1>1, <1>2 DEF InOrder
<1>5. /\ Message_Block' \in [1..BLOCK -> Stored]
      /\ Message_Block_Index' \in 0..(BLOCK - 1)
      /\ fed' \in Seq(Stored) /\ msg' \in Seq(Octet)
      /\ Len(fed') + Message_Block_Index' = Len(msg')
      /\ \A j \in 1..Len(fed') : fed'[j] = msg'[j]
      /\ \A j \in 1..Message_Block_Index' : Message_Block'[j] = msg'[Len(fed') + j]
  BY <1>1, <1>2, <1>3, <1>4, Taken
<1>6. /\ Length_Low' \in 0..(WORD - 1) /\ Length_High' \in 0..(HIGH - 1)
      /\ Corrupted' \in BOOLEAN /\ WholeOctets'
  BY <1>1, <1>2, Counted
<1>7. TypeOK'
  BY <1>1, <1>2, <1>3, <1>5, <1>6 DEF TypeOK
<1>8. NothingLost'
  BY <1>5 DEF NothingLost
<1>9. InOrder'
  BY <1>2, <1>4 DEF InOrder
<1> QED BY <1>6, <1>7, <1>8, <1>9 DEF ContextInv

\* A block that is padded.
LEMMA PadStep == ContextInv /\ (PadFirst \/ PadLength) => ContextInv'
<1> SUFFICES ASSUME ContextInv, PadFirst \/ PadLength PROVE ContextInv'
  OBVIOUS
<1>1. TypeOK /\ WholeOctets /\ InOrder
  BY DEF ContextInv
<1>2. PICK block \in [1..BLOCK -> Stored] : Process(block)
  <2>1. CASE PadFirst
    <3>1. Padded(TRUE) \in [1..BLOCK -> Stored] /\ Process(Padded(TRUE))
      BY <1>1, <2>1, PaddedType DEF PadFirst
    <3> QED BY <3>1
  <2>2. CASE PadLength
    <3>1. (phase = "pad") \in BOOLEAN /\ Process(WithLength(Padded(phase = "pad")))
      BY <2>2 DEF PadLength
    <3>2. WithLength(Padded(phase = "pad")) \in [1..BLOCK -> Stored]
      BY <1>1, <3>1, PaddedType
    <3> QED BY <3>1, <3>2
  <2> QED BY <2>1, <2>2
<1>3. /\ UNCHANGED <<counters, Corrupted, input, msg>>
      /\ \/ phase' = "pad_length" /\ Computed' = Computed
         \/ phase' = "idle" /\ Computed' = TRUE
      /\ phase \in {"pad", "pad_length"}
  BY DEF PadFirst, PadLength
<1>4. /\ Message_Block' \in [1..BLOCK -> Stored]
      /\ fed' \in Seq(Stored) /\ Message_Block_Index' \in 0..(BLOCK - 1)
  <2>1. fed \in Seq(Stored)
    BY <1>1 DEF TypeOK
  <2>2. fed' = fed \o block /\ Message_Block' = block /\ Message_Block_Index' = 0
    BY <1>2 DEF Process
  <2>3. 0 \in 0..(BLOCK - 1)
    BY Sizes
  <2> QED BY <2>1, <2>2, <2>3, BlockAppended
<1>5. TypeOK'
  BY <1>1, <1>3, <1>4 DEF TypeOK, counters
<1>6. ~Computed /\ ~Corrupted
  BY <1>1, <1>3 DEF InOrder
<1>7. NothingLost'
  BY <1>3 DEF NothingLost
<1>8. WholeOctets'
  BY <1>1, <1>3 DEF WholeOctets, counters
<1>9. InOrder'
  <2>1. ~Corrupted'
    BY <1>3, <1>6
  <2>2. CASE phase' = "pad_length" /\ Computed' = Computed
    BY <1>6, <2>1, <2>2 DEF InOrder
  <2>3. CASE phase' = "idle" /\ Computed' = TRUE
    BY <2>3 DEF InOrder
  <2> QED BY <1>3, <2>2, <2>3
<1> QED BY <1>5, <1>7, <1>8, <1>9 DEF ContextInv

\* Every step keeps the inductive invariant.
LEMMA ContextInvKept == ContextInv /\ [SHA1Next]_SHA1Vars => ContextInv'
<1> SUFFICES ASSUME ContextInv, [SHA1Next]_SHA1Vars PROVE ContextInv'
  OBVIOUS
<1>1. TypeOK /\ InOrder
  BY DEF ContextInv
<1>2. ASSUME NEW n \in 1..MaxChunk, NEW a \in [1..n -> Octet], SHA1Input(a)
      PROVE  ContextInv'
  <2>1. a \in Seq(Octet) /\ <<>> \in Seq(Octet) /\ input \in Seq(Octet)
    <3>1. n \in Nat
      BY ValuesAssumption
    <3>2. a \in Seq(Octet)
      BY <3>1
    <3>3. <<>> \in Seq(Octet)
      OBVIOUS
    <3> QED BY <1>1, <3>2, <3>3 DEF TypeOK
  <2>2. /\ UNCHANGED <<Message_Block, Message_Block_Index, counters, Computed, msg, fed>>
        /\ phase = "idle" /\ phase' \in {"idle", "input"}
        /\ Corrupted' \in BOOLEAN /\ input' \in Seq(Octet) /\ InOrder'
    BY <1>1, <1>2, <2>1 DEF SHA1Input, InOrder, TypeOK
  <2> QED BY <2>2, QuietStep
<1>3. CASE InputOctet
  BY <1>3, OctetStep
<1>4. CASE InputReturns
  BY <1>1, <1>4, QuietStep DEF InputReturns, InOrder, TypeOK
<1>5. CASE SHA1Result
  BY <1>1, <1>5, QuietStep DEF SHA1Result, InOrder, TypeOK
<1>6. CASE PadFirst \/ PadLength
  BY <1>6, PadStep
<1>7. CASE UNCHANGED SHA1Vars
  BY <1>7 DEF SHA1Vars, ContextInv, TypeOK, NothingLost, WholeOctets, InOrder, counters
<1> QED BY <1>2, <1>3, <1>4, <1>5, <1>6, <1>7 DEF SHA1Next

\* What the theorems below are conjuncts or consequences of.
LEMMA AlwaysContextInv == SHA1Spec => []ContextInv
BY ResetContextInv, ContextInvKept, PTL DEF SHA1Spec

\* The context of SHA-1 is well typed: the index stays inside the block.
THEOREM ContextTypeCorrect == SHA1Spec => []TypeOK
<1>1. ContextInv => TypeOK
  BY DEF ContextInv
<1> QED BY AlwaysContextInv, <1>1, PTL

\* However a message is cut up, the blocks and the filled part are the message.
THEOREM NothingIsLost == SHA1Spec => []NothingLost
<1>1. ContextInv => NothingLost
  BY DEF ContextInv
<1> QED BY AlwaysContextInv, <1>1, PTL

\* No call changes a digest that is there.
THEOREM DigestIsFinal == SHA1Spec => DigestStays
<1>1. ContextInv /\ [SHA1Next]_SHA1Vars => [Computed => fed' = fed /\ msg' = msg /\ Computed']_SHA1Vars
  <2> SUFFICES ASSUME ContextInv, Computed, SHA1Next
               PROVE  fed' = fed /\ msg' = msg /\ Computed'
    OBVIOUS
  <2>1. InOrder
    BY DEF ContextInv
  <2>2. phase \notin {"input", "pad", "pad_length"}
    BY <2>1 DEF InOrder
  <2>3. ~SHA1Result /\ ~InputOctet /\ ~InputReturns /\ ~PadFirst /\ ~PadLength
    BY <2>2 DEF SHA1Result, InputOctet, InputReturns, PadFirst, PadLength
  <2>4. PICK n \in 1..MaxChunk : \E a \in [1..n -> Octet] : SHA1Input(a)
    BY <2>3 DEF SHA1Next
  <2> QED BY <2>4 DEF SHA1Input
<1> QED BY AlwaysContextInv, <1>1, PTL DEF SHA1Spec, DigestStays

\* The product with one more, so that no step below multiplies variables.
LEMMA OneMore == \A h, p \in Nat : (h + 1) * p = h * p + p /\ h * p \in Nat
OBVIOUS

\* The two words count the bits of the message.
LEMMA LengthStep == ContextInv /\ LengthCounts /\ [SHA1Next]_SHA1Vars => LengthCounts'
<1> SUFFICES ASSUME ContextInv, LengthCounts, [SHA1Next]_SHA1Vars, ~Corrupted'
             PROVE  Length_High' * WORD + Length_Low' = 8 * Len(msg')
  BY DEF LengthCounts
<1>1. TypeOK /\ WholeOctets
  BY DEF ContextInv
<1>2. CASE InputOctet
  <2>1. Count /\ ~Corrupted /\ msg' = Append(msg, Head(input)) /\ input # <<>>
    BY <1>2 DEF InputOctet
  <2>2. Length_High * WORD + Length_Low = 8 * Len(msg)
    BY <2>1 DEF LengthCounts
  <2>3. /\ WORD \in Nat /\ Length_High \in Nat /\ Length_Low \in Nat /\ Len(msg) \in Nat
        /\ Len(msg') = Len(msg) + 1
    <3>1. /\ Length_High \in 0..(HIGH - 1) /\ Length_Low \in 0..(WORD - 1)
          /\ msg \in Seq(Octet) /\ input \in Seq(Octet)
      BY <1>1 DEF TypeOK
    <3>2. WORD \in Nat /\ HIGH \in Nat
      BY Sizes
    <3>3. Len(msg) \in Nat /\ Len(msg') = Len(msg) + 1
      BY <2>1, <3>1
    <3> QED BY <3>1, <3>2, <3>3
  <2>4. Length_High * WORD \in Nat /\ (Length_High + 1) * WORD = Length_High * WORD + WORD
    BY <2>3, OneMore
  <2>5. CASE Length_Low' = Length_Low + 8 /\ Length_High' = Length_High
    BY <2>2, <2>3, <2>4, <2>5
  <2>6. CASE Length_Low' = Length_Low + 8 - WORD /\ Length_High' = Length_High + 1
    <3>1. Length_High' * WORD = Length_High * WORD + WORD
      BY <2>4, <2>6
    <3> QED BY <2>2, <2>3, <2>4, <2>6, <3>1
  <2> QED BY <1>1, <2>1, <2>5, <2>6, Counted
<1>3. CASE ~InputOctet
  <2>1. UNCHANGED <<counters, msg>> /\ ~Corrupted
    <3>1. ASSUME NEW n \in 1..MaxChunk, NEW a \in [1..n -> Octet], SHA1Input(a)
          PROVE  UNCHANGED <<counters, msg>> /\ ~Corrupted
      BY <3>1 DEF SHA1Input
    <3>2. ASSUME InputReturns \/ SHA1Result \/ PadFirst \/ PadLength \/ UNCHANGED SHA1Vars
          PROVE  UNCHANGED <<counters, msg>> /\ Corrupted' = Corrupted
      BY <3>2 DEF InputReturns, SHA1Result, PadFirst, PadLength, SHA1Vars, counters
    <3> QED BY <1>3, <3>1, <3>2 DEF SHA1Next
  <2> QED BY <2>1 DEF LengthCounts, counters
<1> QED BY <1>2, <1>3

\* The length in the padding is the length of the message, unless there are
\* more bits than the two words can count.
THEOREM LengthIsCounted == SHA1Spec => []LengthCounts
<1>1. SHA1Reset => LengthCounts
  <2> SUFFICES ASSUME SHA1Reset PROVE 0 * WORD + 0 = 8 * 0
    BY DEF SHA1Reset, LengthCounts
  <2> QED BY Sizes
<1> QED BY AlwaysContextInv, <1>1, LengthStep, PTL DEF SHA1Spec

-----------------------------------------------------------------------------
(* The padding *)

\* The message with its mark, and zeros behind it.
Marked(j) == IF j <= Len(msg) THEN msg[j] ELSE IF j = Len(msg) + 1 THEN MARK ELSE ZERO_OCTET

\* Only whole blocks are processed.  A block in front of that with the length
\* is there only because the mark and the length did not fit.
Blocks ==
    /\ Len(fed) % BLOCK = 0
    /\ phase = "pad_length" =>
         /\ Message_Block_Index = 0
         /\ Len(msg) < Len(fed) /\ Len(fed) <= Len(msg) + LENGTH
         /\ \A j \in 1..Len(fed) : fed[j] = Marked(j)

\* Two sequences of the same length and elements are one.
LEMMA SameSequence ==
    ASSUME NEW S, NEW f \in Seq(S), NEW g \in Seq(S), Len(f) = Len(g),
           \A j \in 1..Len(f) : f[j] = g[j]
    PROVE  f = g
OBVIOUS

\* What is behind another sequence.
LEMMA Joined ==
    ASSUME NEW S, NEW f \in Seq(S), NEW g \in Seq(S)
    PROVE  /\ f \o g \in Seq(S) /\ Len(f \o g) = Len(f) + Len(g)
           /\ \A j \in 1..(Len(f) + Len(g)) :
                (f \o g)[j] = IF j <= Len(f) THEN f[j] ELSE g[j - Len(f)]
OBVIOUS

\* The number of zeros is what is missing to a whole number of blocks.
LEMMA Zeros ==
    ASSUME NEW n \in Nat, NEW total \in Nat, total % BLOCK = 0,
           n <= total, total < n + BLOCK
    PROVE  (-n) % BLOCK = total - n
<1>1. BLOCK \in Nat /\ BLOCK > 0
  BY Sizes
<1>2. PICK q \in Int : total = BLOCK * q + (total % BLOCK)
  <2>1. total \in Int
    OBVIOUS
  <2> QED BY <1>1, <2>1, ModQuotient
<1> DEFINE p == BLOCK * q
           m == BLOCK * (0 - q)
<1>3. p \in Int /\ m = 0 - p
  BY <1>1, SMTT(30)
<1>4. total = p
  BY <1>1, <1>2, <1>3
<1> HIDE DEF p, m
<1>5. -n = m + (total - n)
  BY <1>3, <1>4
<1>6. -n = BLOCK * (0 - q) + (total - n)
  BY <1>5 DEF m
<1>7. 0 - q \in Int /\ total - n \in 0..(BLOCK - 1)
  BY <1>1
<1> QED BY <1>1, <1>6, <1>7, ModUnique

\* Whole blocks with the marked message and at their end the length are the
\* padded message, when they are as few as possible.
LEMMA StandardIs ==
    ASSUME TypeOK, NEW f \in Seq(Stored), Len(f) % BLOCK = 0,
           Len(msg) + 1 + LENGTH <= Len(f), Len(f) < Len(msg) + 1 + LENGTH + BLOCK,
           \A j \in 1..(Len(f) - LENGTH) : f[j] = Marked(j),
           \A j \in 1..LENGTH :
              f[Len(f) - LENGTH + j] = LengthOctet(Length_High, Length_Low, j)
    PROVE  f = Standard(msg)
<1>1. /\ BLOCK \in Nat /\ LENGTH \in Nat /\ LENGTH > 0 /\ MARK \in Stored /\ ZERO_OCTET \in Stored
      /\ msg \in Seq(Stored) /\ Len(msg) \in Nat /\ Len(f) \in Nat
  <2>1. BLOCK \in Nat /\ LENGTH \in Nat /\ LENGTH > 0 /\ MARK \in Stored /\ ZERO_OCTET \in Stored
    BY Sizes DEF Stored
  <2>2. msg \in Seq(Octet) /\ Octet \subseteq Stored
    BY DEF TypeOK, Stored
  <2>3. msg \in Seq(Stored)
    BY <2>2
  <2> QED BY <2>1, <2>3
<1> DEFINE zeros == (-(Len(msg) + 1 + LENGTH)) % BLOCK
           z == [j \in 1..zeros |-> ZERO_OCTET]
           l == [j \in 1..LENGTH |-> LengthOctet(Length_High, Length_Low, j)]
<1>2. zeros = Len(f) - (Len(msg) + 1 + LENGTH) /\ zeros \in Nat
  <2> DEFINE n == Len(msg) + 1 + LENGTH
             total == Len(f)
  <2>1. /\ n \in Nat /\ total \in Nat /\ total % BLOCK = 0 /\ n <= total /\ total < n + BLOCK
        /\ total - n \in Nat
    BY <1>1
  <2> HIDE DEF n, total
  <2>2. (-n) % BLOCK = total - n
    BY <2>1, Zeros
  <2> QED BY <2>1, <2>2 DEF n, total
<1>3. \A j \in 1..LENGTH : LengthOctet(Length_High, Length_Low, j) \in Stored
  BY DEF TypeOK, Stored, LengthOctet
<1> HIDE DEF zeros
<1>4. z \in Seq(Stored) /\ Len(z) = zeros /\ \A j \in 1..zeros : z[j] = ZERO_OCTET
  <2>1. z \in [1..zeros -> Stored]
    BY <1>1
  <2> QED BY <1>2, <2>1, FunctionIsSeq
<1>5. /\ l \in Seq(Stored) /\ Len(l) = LENGTH
      /\ \A j \in 1..LENGTH : l[j] = LengthOctet(Length_High, Length_Low, j)
  <2>1. l \in [1..LENGTH -> Stored]
    BY <1>3
  <2> QED BY <1>1, <2>1, FunctionIsSeq
<1>6. Standard(msg) = ((msg \o <<MARK>>) \o z) \o l
  BY DEF Standard, z, l, zeros
<1> HIDE DEF z, l
<1> DEFINE a == msg \o <<MARK>>
           b == a \o z
           c == b \o l
<1>7. <<MARK>> \in Seq(Stored) /\ Len(<<MARK>>) = 1 /\ <<MARK>>[1] = MARK
  BY <1>1
<1>8. /\ a \in Seq(Stored) /\ Len(a) = Len(msg) + 1
      /\ \A j \in 1..(Len(msg) + 1) : a[j] = IF j <= Len(msg) THEN msg[j] ELSE MARK
  <2>1. /\ a \in Seq(Stored) /\ Len(a) = Len(msg) + 1
        /\ \A j \in 1..(Len(msg) + 1) : a[j] = IF j <= Len(msg) THEN msg[j] ELSE <<MARK>>[j - Len(msg)]
    BY <1>1, <1>7, Joined
  <2>2. \A j \in 1..(Len(msg) + 1) : j <= Len(msg) \/ j - Len(msg) = 1
    BY <1>1
  <2> QED BY <1>7, <2>1, <2>2
<1> HIDE DEF a
<1>9. /\ b \in Seq(Stored) /\ Len(b) = Len(msg) + 1 + zeros
      /\ \A j \in 1..(Len(msg) + 1 + zeros) : b[j] = Marked(j)
  <2>1. /\ b \in Seq(Stored) /\ Len(b) = Len(msg) + 1 + zeros
        /\ \A j \in 1..(Len(msg) + 1 + zeros) :
             b[j] = IF j <= Len(msg) + 1 THEN a[j] ELSE z[j - (Len(msg) + 1)]
    <3>1. a \in Seq(Stored) /\ z \in Seq(Stored)
      BY <1>4, <1>8
    <3>2. /\ b \in Seq(Stored) /\ Len(b) = Len(a) + Len(z)
          /\ \A j \in 1..(Len(a) + Len(z)) : b[j] = IF j <= Len(a) THEN a[j] ELSE z[j - Len(a)]
      BY <3>1, Joined
    <3> HIDE DEF b
    <3>3. Len(a) = Len(msg) + 1 /\ Len(z) = zeros
      BY <1>4, <1>8
    <3> QED BY <3>2, <3>3
  <2>2. ASSUME NEW j \in 1..(Len(msg) + 1 + zeros)
        PROVE  b[j] = Marked(j)
    <3>1. CASE j <= Len(msg) + 1
      <4>1. j \in 1..(Len(msg) + 1)
        BY <1>1, <3>1
      <4> QED BY <1>1, <1>8, <2>1, <3>1, <4>1 DEF Marked
    <3>2. CASE ~(j <= Len(msg) + 1)
      <4>1. j - (Len(msg) + 1) \in 1..zeros
        BY <1>1, <1>2, <3>2
      <4>2. ~(j <= Len(msg)) /\ j # Len(msg) + 1
        BY <1>1, <1>2, <3>2
      <4> QED BY <1>4, <2>1, <3>2, <4>1, <4>2 DEF Marked
    <3> QED BY <3>1, <3>2
  <2> QED BY <2>1, <2>2
<1> HIDE DEF b
<1>10. Len(f) - LENGTH = Len(msg) + 1 + zeros /\ Len(b) = Len(f) - LENGTH
  BY <1>1, <1>2, <1>9
<1>11. /\ c \in Seq(Stored) /\ Len(c) = Len(f)
       /\ \A j \in 1..Len(f) : c[j] = IF j <= Len(b) THEN b[j] ELSE l[j - Len(b)]
  <2>1. Len(b) + LENGTH = Len(f)
    BY <1>1, <1>10
  <2> QED BY <1>5, <1>9, <2>1, Joined
<1> HIDE DEF c
<1>12. ASSUME NEW j \in 1..Len(f)
       PROVE  f[j] = c[j]
  <2>1. CASE j <= Len(b)
    <3>1. j \in 1..(Len(f) - LENGTH) /\ j \in 1..(Len(msg) + 1 + zeros)
      BY <1>1, <1>10, <2>1
    <3> QED BY <1>9, <1>11, <2>1, <3>1
  <2>2. CASE ~(j <= Len(b))
    <3>1. j - Len(b) \in 1..LENGTH /\ j = Len(f) - LENGTH + (j - Len(b))
      BY <1>1, <1>10, <2>2
    <3>2. f[j] = LengthOctet(Length_High, Length_Low, j - Len(b))
      BY <3>1
    <3> QED BY <1>5, <1>11, <2>2, <3>1, <3>2
  <2> QED BY <2>1, <2>2
<1> QED BY <1>6, <1>11, <1>12, SameSequence DEF a, b, c

\* The block that SHA1PadMessage processes goes on with the marked message, if
\* it has the mark in it,
LEMMA PaddedWithMark ==
    ASSUME TypeOK, NothingLost, ~Computed, phase # "pad_length"
    PROVE  /\ \A j \in 1..Len(fed) : fed[j] = Marked(j)
           /\ \A j \in 1..BLOCK : Padded(TRUE)[j] = Marked(Len(fed) + j)
<1>1. /\ BLOCK \in Nat /\ Message_Block_Index \in Nat
      /\ Len(fed) \in Nat /\ Len(msg) \in Nat
  <2>1. Message_Block_Index \in 0..(BLOCK - 1) /\ fed \in Seq(Stored) /\ msg \in Seq(Octet)
    BY DEF TypeOK
  <2> QED BY <2>1, Sizes, ElementOf
<1>2. /\ Len(fed) + Message_Block_Index = Len(msg)
      /\ \A j \in 1..Len(fed) : fed[j] = msg[j]
      /\ \A j \in 1..Message_Block_Index : Message_Block[j] = msg[Len(fed) + j]
  BY DEF NothingLost
<1>3. \A j \in 1..Len(fed) : fed[j] = Marked(j)
  BY <1>1, <1>2 DEF Marked
<1> DEFINE p == Padded(TRUE)
<1>4. ASSUME NEW j \in 1..BLOCK
      PROVE  p[j] = Marked(Len(fed) + j)
  <2>1. p[j] = IF j <= Message_Block_Index THEN Message_Block[j]
                          ELSE IF j = Message_Block_Index + 1 THEN MARK ELSE ZERO_OCTET
    BY <1>1 DEF Padded
  <2> HIDE DEF p
  <2>2. j \in Nat /\ j >= 1
    BY <1>1
  <2>3. CASE j <= Message_Block_Index
    <3>1. j \in 1..Message_Block_Index /\ Len(fed) + j <= Len(msg)
      BY <1>1, <1>2, <2>2, <2>3
    <3>2. p[j] = Message_Block[j]
      BY <1>1, <2>1, <2>2, <2>3
    <3> QED BY <1>2, <3>1, <3>2 DEF Marked
  <2>4. CASE j = Message_Block_Index + 1
    <3>1. Len(fed) + j = Len(msg) + 1 /\ ~(Len(fed) + j <= Len(msg))
      BY <1>1, <1>2, <2>4
    <3>2. p[j] = MARK
      BY <1>1, <2>1, <2>4
    <3> QED BY <3>1, <3>2 DEF Marked
  <2>5. CASE j > Message_Block_Index + 1
    <3>1. Len(fed) + j # Len(msg) + 1 /\ ~(Len(fed) + j <= Len(msg))
      BY <1>1, <1>2, <2>2, <2>5
    <3>2. p[j] = ZERO_OCTET
      BY <1>1, <2>1, <2>2, <2>5
    <3> QED BY <3>1, <3>2 DEF Marked
  <2> QED BY <1>1, <2>2, <2>3, <2>4, <2>5
<1> QED BY <1>3, <1>4 DEF p

\* and also if the block before it has.
LEMMA PaddedBehindMark ==
    ASSUME TypeOK, Blocks, phase = "pad_length"
    PROVE  /\ \A j \in 1..Len(fed) : fed[j] = Marked(j)
           /\ \A j \in 1..BLOCK : Padded(FALSE)[j] = Marked(Len(fed) + j)
<1>1. BLOCK \in Nat /\ Len(fed) \in Nat /\ Len(msg) \in Nat
  <2>1. fed \in Seq(Stored) /\ msg \in Seq(Octet)
    BY DEF TypeOK
  <2> QED BY <2>1, Sizes, ElementOf
<1>2. /\ Message_Block_Index = 0 /\ Len(msg) < Len(fed)
      /\ \A j \in 1..Len(fed) : fed[j] = Marked(j)
  BY DEF Blocks
<1> DEFINE p == Padded(FALSE)
<1>3. ASSUME NEW j \in 1..BLOCK
      PROVE  p[j] = Marked(Len(fed) + j)
  <2>1. j \in Nat /\ j >= 1
    BY <1>1
  <2>2. p[j] = IF j <= 0 THEN Message_Block[j] ELSE ZERO_OCTET
    BY <1>2, <2>1 DEF Padded
  <2> HIDE DEF p
  <2>3. p[j] = ZERO_OCTET
    BY <2>1, <2>2
  <2>4. ~(Len(fed) + j <= Len(msg)) /\ Len(fed) + j # Len(msg) + 1
    BY <1>1, <1>2, <2>1
  <2> QED BY <2>3, <2>4 DEF Marked
<1> QED BY <1>2, <1>3 DEF p

\* A block more is a multiple more.
LEMMA BlockMore ==
    ASSUME NEW n \in Nat, n % BLOCK = 0
    PROVE  (n + BLOCK) % BLOCK = 0
<1>1. BLOCK \in Nat /\ BLOCK > 0 /\ BLOCK \in Int /\ n \in Int
  BY Sizes
<1>2. BLOCK = BLOCK * 1 + 0 /\ 0 \in 0..(BLOCK - 1)
  BY <1>1
<1>3. BLOCK % BLOCK = 0
  BY <1>1, <1>2, ModUnique
<1> QED BY <1>1, <1>3, Multiples

\* Every step keeps the blocks whole.
LEMMA BlocksStep == ContextInv /\ Blocks /\ [SHA1Next]_SHA1Vars => Blocks'
<1> SUFFICES ASSUME ContextInv, Blocks, [SHA1Next]_SHA1Vars PROVE Blocks'
  OBVIOUS
<1>1. TypeOK /\ NothingLost /\ InOrder /\ Len(fed) % BLOCK = 0
  BY DEF ContextInv, Blocks
<1>2. /\ BLOCK \in Nat /\ LENGTH \in Nat /\ LENGTH < BLOCK
      /\ fed \in Seq(Stored) /\ Len(fed) \in Nat /\ msg \in Seq(Octet) /\ Len(msg) \in Nat
      /\ Message_Block_Index \in 0..(BLOCK - 1)
      /\ Message_Block \in [1..BLOCK -> Stored]
  <2>1. fed \in Seq(Stored) /\ msg \in Seq(Octet)
    BY <1>1 DEF TypeOK
  <2>2. Message_Block_Index \in 0..(BLOCK - 1) /\ Message_Block \in [1..BLOCK -> Stored]
    BY <1>1 DEF TypeOK
  <2>3. Len(fed) \in Nat /\ Len(msg) \in Nat
    BY <2>1, ElementOf
  <2> QED BY <2>1, <2>2, <2>3, Sizes
<1>3. ASSUME NEW block \in [1..BLOCK -> Stored], fed' = fed \o block
      PROVE  Len(fed') % BLOCK = 0
  <2>1. Len(fed') = Len(fed) + BLOCK
    BY <1>2, <1>3, BlockAppended
  <2> QED BY <1>1, <1>2, <2>1, BlockMore
<1>4. CASE InputOctet
  <2>1. phase' = "input" /\ Head(input) \in Stored
    <3>1. input \in Seq(Octet) /\ input # <<>> /\ phase = "input" /\ phase' = phase
      BY <1>1, <1>4 DEF TypeOK, InputOctet
    <3>2. Head(input) \in Octet
      BY <3>1
    <3> QED BY <3>1, <3>2 DEF Stored
  <2> DEFINE block == [Message_Block EXCEPT ![Message_Block_Index + 1] = Head(input)]
  <2>2. block \in [1..BLOCK -> Stored]
    BY <1>2, <2>1
  <2>3. fed' = fed \/ fed' = fed \o block
    BY <1>4 DEF InputOctet, Take, Process
  <2> HIDE DEF block
  <2>4. Len(fed') % BLOCK = 0
    BY <1>1, <1>3, <2>2, <2>3
  <2> QED BY <2>1, <2>4 DEF Blocks
<1>5. CASE PadFirst
  <2> DEFINE block == Padded(TRUE)
  <2>1. /\ phase = "pad" /\ phase' = "pad_length" /\ msg' = msg /\ Message_Block_Index' = 0
        /\ fed' = fed \o block /\ ~(Message_Block_Index < BLOCK - LENGTH)
    BY <1>5 DEF PadFirst, Process, Fits
  <2>2. block \in [1..BLOCK -> Stored]
    BY <1>1, PaddedType
  <2>3. /\ \A j \in 1..Len(fed) : fed[j] = Marked(j)
        /\ \A j \in 1..BLOCK : block[j] = Marked(Len(fed) + j)
    BY <1>1, <2>1, PaddedWithMark DEF InOrder
  <2> HIDE DEF block
  <2>4. /\ Len(fed') = Len(fed) + BLOCK
        /\ \A j \in 1..Len(fed) : fed'[j] = fed[j]
        /\ \A j \in 1..BLOCK : fed'[Len(fed) + j] = block[j]
    BY <1>2, <2>1, <2>2, BlockAppended
  <2>5. Len(fed) + Message_Block_Index = Len(msg)
    BY <1>1, <2>1 DEF NothingLost, InOrder
  <2>6. Len(msg) < Len(fed') /\ Len(fed') <= Len(msg) + LENGTH
    BY <1>2, <2>1, <2>4, <2>5
  <2>7. ASSUME NEW j \in 1..Len(fed')
        PROVE  fed'[j] = Marked(j)
    <3>1. CASE j <= Len(fed)
      BY <1>2, <2>3, <2>4, <3>1
    <3>2. CASE ~(j <= Len(fed))
      <4> DEFINE q == j - Len(fed)
      <4>1. q \in 1..BLOCK /\ j = Len(fed) + q
        BY <1>2, <2>4, <3>2
      <4> QED BY <2>3, <2>4, <4>1
    <3> QED BY <3>1, <3>2
  <2>8. \A j : Marked(j)' = Marked(j)
    BY <2>1 DEF Marked
  <2>9. Len(fed') % BLOCK = 0
    BY <1>3, <2>1, <2>2
  <2> QED BY <2>1, <2>6, <2>7, <2>8, <2>9 DEF Blocks
<1>6. CASE PadLength
  <2>1. phase' = "idle" /\ fed' = fed \o WithLength(Padded(phase = "pad"))
    BY <1>6 DEF PadLength, Process
  <2>2. WithLength(Padded(phase = "pad")) \in [1..BLOCK -> Stored]
    BY <1>1, PaddedType
  <2>3. Len(fed') % BLOCK = 0
    BY <1>3, <2>1, <2>2
  <2> QED BY <2>1, <2>3 DEF Blocks
<1>7. ASSUME \/ SHA1Result \/ InputReturns
             \/ \E n \in 1..MaxChunk : \E a \in [1..n -> Octet] : SHA1Input(a)
      PROVE  Blocks'
  <2>1. fed' = fed /\ phase' # "pad_length"
    BY <1>7 DEF SHA1Result, InputReturns, SHA1Input
  <2> QED BY <1>1, <2>1 DEF Blocks
<1>8. CASE UNCHANGED SHA1Vars
  BY <1>8 DEF SHA1Vars, Blocks, Marked
<1> QED BY <1>4, <1>5, <1>6, <1>7, <1>8 DEF SHA1Next

\* The step that makes the digest.
LEMMA PadLengthIsStandard ==
    ASSUME ContextInv, Blocks, PadLength
    PROVE  fed' = Standard(msg)
<1>1. TypeOK /\ NothingLost /\ InOrder /\ Len(fed) % BLOCK = 0
  BY DEF ContextInv, Blocks
<1> DEFINE p == Padded(phase = "pad")
           block == WithLength(p)
<1>2. /\ fed' = fed \o block
      /\ \/ phase = "pad_length"
         \/ phase = "pad" /\ Message_Block_Index < BLOCK - LENGTH
  BY DEF PadLength, Process, Fits
<1>3. /\ BLOCK \in Nat /\ LENGTH \in Nat /\ 0 < LENGTH /\ LENGTH < BLOCK
      /\ fed \in Seq(Stored) /\ Len(fed) \in Nat /\ Len(msg) \in Nat
      /\ Message_Block_Index \in Nat /\ Message_Block_Index < BLOCK
  <2>1. fed \in Seq(Stored) /\ msg \in Seq(Octet) /\ Message_Block_Index \in 0..(BLOCK - 1)
    BY <1>1 DEF TypeOK
  <2> QED BY <2>1, Sizes
<1>4. block \in [1..BLOCK -> Stored]
  BY <1>1, <1>2, PaddedType
<1>5. /\ \A j \in 1..Len(fed) : fed[j] = Marked(j)
      /\ \A j \in 1..BLOCK : p[j] = Marked(Len(fed) + j)
  <2>1. CASE phase = "pad"
    <3>1. ~Computed /\ phase # "pad_length" /\ p = Padded(TRUE)
      BY <1>1, <2>1 DEF InOrder
    <3> QED BY <1>1, <3>1, PaddedWithMark
  <2>2. CASE phase = "pad_length"
    <3>1. p = Padded(FALSE)
      BY <2>2
    <3> QED BY <1>1, <2>2, <3>1, PaddedBehindMark
  <2> QED BY <1>2, <2>1, <2>2
<1> HIDE DEF p
<1>6. \A j \in 1..BLOCK :
        block[j] = IF j <= BLOCK - LENGTH THEN Marked(Len(fed) + j)
                   ELSE LengthOctet(Length_High, Length_Low, j - (BLOCK - LENGTH))
  BY <1>5 DEF WithLength
<1>7. Len(msg) < Len(fed) + BLOCK - LENGTH /\ Len(fed) + BLOCK < Len(msg) + 1 + LENGTH + BLOCK
  <2>1. CASE phase = "pad" /\ Message_Block_Index < BLOCK - LENGTH
    <3>1. Len(fed) + Message_Block_Index = Len(msg)
      BY <1>1, <2>1 DEF InOrder, NothingLost
    <3> QED BY <1>3, <2>1, <3>1
  <2>2. CASE phase = "pad_length"
    <3>1. Len(msg) < Len(fed) /\ Len(fed) <= Len(msg) + LENGTH
      BY <2>2 DEF Blocks
    <3> QED BY <1>3, <3>1
  <2> QED BY <1>2, <2>1, <2>2
<1> HIDE DEF block
<1> DEFINE f == fed \o block
<1>8. /\ f \in Seq(Stored) /\ Len(f) = Len(fed) + BLOCK
      /\ \A j \in 1..Len(fed) : f[j] = fed[j]
      /\ \A j \in 1..BLOCK : f[Len(fed) + j] = block[j]
  BY <1>3, <1>4, BlockAppended
<1> HIDE DEF f
<1>9. Len(f) % BLOCK = 0
  BY <1>1, <1>3, <1>8, BlockMore
<1>10. Len(msg) + 1 + LENGTH <= Len(f) /\ Len(f) < Len(msg) + 1 + LENGTH + BLOCK
  BY <1>3, <1>7, <1>8
<1>11. ASSUME NEW j \in 1..(Len(f) - LENGTH)
       PROVE  f[j] = Marked(j)
  <2>1. CASE j <= Len(fed)
    BY <1>3, <1>5, <1>8, <2>1
  <2>2. CASE ~(j <= Len(fed))
    <3> DEFINE q == j - Len(fed)
    <3>1. q \in 1..BLOCK /\ q <= BLOCK - LENGTH /\ j = Len(fed) + q
      BY <1>3, <1>8, <2>2
    <3> HIDE DEF q
    <3> QED BY <1>6, <1>8, <3>1
  <2> QED BY <2>1, <2>2
<1>12. ASSUME NEW j \in 1..LENGTH
       PROVE  f[Len(f) - LENGTH + j] = LengthOctet(Length_High, Length_Low, j)
  <2> DEFINE q == BLOCK - LENGTH + j
  <2>1. /\ q \in 1..BLOCK /\ ~(q <= BLOCK - LENGTH) /\ q - (BLOCK - LENGTH) = j
        /\ Len(f) - LENGTH + j = Len(fed) + q
    BY <1>3, <1>8
  <2> HIDE DEF q
  <2> QED BY <1>6, <1>8, <2>1
<1>13. f = Standard(msg)
  BY <1>1, <1>8, <1>9, <1>10, <1>11, <1>12, StandardIs
<1> QED BY <1>2, <1>13 DEF f

\* No other step makes one or changes what it is of.
LEMMA PaddingStep == ContextInv /\ Blocks /\ PaddingIsStandard /\ [SHA1Next]_SHA1Vars => PaddingIsStandard'
<1> SUFFICES ASSUME ContextInv, Blocks, PaddingIsStandard, [SHA1Next]_SHA1Vars, Computed'
             PROVE  (fed = Standard(msg))'
  BY DEF PaddingIsStandard
<1>1. InOrder
  BY DEF ContextInv
<1>2. CASE PadLength
  <2>1. UNCHANGED <<counters, msg>>
    BY <1>2 DEF PadLength
  <2>2. Standard(msg)' = Standard(msg)
    BY <2>1 DEF Standard, LengthOctet, counters
  <2> QED BY <1>2, <2>2, PadLengthIsStandard
<1>3. CASE ~PadLength
  <2>1. Computed /\ UNCHANGED <<counters, msg, fed>>
    <3>1. ASSUME InputOctet \/ PadFirst
          PROVE  FALSE
      BY <1>1, <3>1 DEF InputOctet, PadFirst, InOrder
    <3>2. ASSUME \/ SHA1Result \/ InputReturns \/ UNCHANGED SHA1Vars
                 \/ \E n \in 1..MaxChunk : \E a \in [1..n -> Octet] : SHA1Input(a)
          PROVE  UNCHANGED <<counters, msg, fed, Computed>>
      BY <3>2 DEF SHA1Result, InputReturns, SHA1Input, SHA1Vars, counters
    <3> QED BY <1>3, <3>1, <3>2 DEF SHA1Next
  <2>2. fed = Standard(msg)
    BY <2>1 DEF PaddingIsStandard
  <2>3. Standard(msg)' = Standard(msg)
    BY <2>1 DEF Standard, LengthOctet, counters
  <2> QED BY <2>1, <2>2, <2>3
<1> QED BY <1>2, <1>3

\* The digest is that of the message with the padding of the standard, for a
\* message of every length, and of nothing else that was in the block.
THEOREM PaddingIsAsStandard == SHA1Spec => []PaddingIsStandard
<1>1. SHA1Reset => Blocks /\ PaddingIsStandard
  <2> SUFFICES ASSUME SHA1Reset PROVE Len(<<>>) % BLOCK = 0
    BY DEF SHA1Reset, Blocks, PaddingIsStandard
  <2>1. BLOCK \in Nat /\ BLOCK > 0 /\ 0 \in 0..(BLOCK - 1)
    BY Sizes
  <2> QED BY <2>1, ModOfWord
<1> QED BY AlwaysContextInv, <1>1, BlocksStep, PaddingStep, PTL DEF SHA1Spec
=============================================================================
