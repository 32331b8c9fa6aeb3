------------------------------ MODULE KeyStore -------------------------------
(***************************************************************************)
(* The directory of keys of tools.c and its users.  makeself and pkg sign  *)
(* with the key that key_get() gives for the suffix on their command line. *)
(* The file they write names its type, but neither the suffix nor the key: *)
(* the readers take all the keys of the type that keys_get() finds in the  *)
(* directory, in the order of readdir(), and use the first that opens the  *)
(* header.  sceverify takes the public key and the curve from that entry.  *)
(*                                                                         *)
(* A file of the directory is called <name>-<kind>-<suffix>, where the     *)
(* suffix may contain hyphens: it is a sequence of parts.                  *)
(***************************************************************************)
EXTENDS Integers, Sequences, FiniteSets

CONSTANTS Jobs,    \* what may be asked for: the type, the suffix, the store
          Begins,  \* the pairs of names, where the first begins the second
          Curves   \* the contents of a ctype file that are in the table of curves

Kinds == {"key", "iv", "pub", "ctype", "priv"}

Path(name, kind, suffix) == [name |-> name, kind |-> kind, suffix |-> suffix]

\* key_get and keys_get read at most so much of a file: a file that is
\* shorter is SHORT, for the others the contents are what counts.
SHORT == "short"

VARIABLES job,
          pc,
          k,        \* struct key of the signing tool
          dir,      \* the entries that readdir has not returned yet
          bfr,      \* of keys_get: the last ctype, at first what was in memory
          klist,
          keyid

vars == <<job, pc, k, dir, bfr, klist, keyid>>

-----------------------------------------------------------------------------
\* memset to zero
ZERO == <<"zero">>

\* fopen and fread: the return value, and dst afterwards, which was old.
key_read(path, old) ==
    IF path \notin DOMAIN job.store THEN [ok |-> FALSE, dst |-> old]
    ELSE IF job.store[path] = SHORT THEN [ok |-> FALSE, dst |-> <<"partly", old>>]
    ELSE [ok |-> TRUE, dst |-> <<"whole", job.store[path]>>]

NoKey == [key |-> ZERO, iv |-> ZERO, pub_avail |-> 0, priv_avail |-> 0,
          pub |-> ZERO, priv |-> ZERO, ctype |-> ZERO]

Avail(ok) == IF ok THEN 1 ELSE -1

\* The key and the return value.  Without a key or an iv what is left of k is
\* not looked at; without a ctype neither pub nor priv is read.
key_get(type, suffix) ==
    LET Read(kind) == key_read(Path(type, kind, suffix), ZERO)
        curve      == Read("ctype").ok
    IN  IF ~Read("key").ok \/ ~Read("iv").ok THEN [ok |-> FALSE, k |-> NoKey]
        ELSE [ok |-> TRUE,
              k  |-> [key        |-> Read("key").dst,
                      iv         |-> Read("iv").dst,
                      pub_avail  |-> Avail(curve /\ Read("pub").ok),
                      priv_avail |-> Avail(curve /\ Read("priv").ok),
                      ctype      |-> IF curve THEN Read("ctype").dst ELSE ZERO,
                      pub        |-> IF curve THEN Read("pub").dst ELSE ZERO,
                      priv       |-> IF curve THEN Read("priv").dst ELSE ZERO]]

\* ecdsa_set_curve: the type must be below 64, where the table ends.
ecdsa_set_curve(ctype) == \E c \in Curves : ctype = <<"whole", c>>

\* A key that makeself or pkg will sign with.
Signs(g) == /\ g.ok
            /\ g.k.pub_avail > 0 /\ g.k.priv_avail > 0
            /\ ecdsa_set_curve(g.k.ctype)

\* build_info_hdr writes a number into the SELF, the readers switch on it.
app_type == [lv0 |-> 1, lv1 |-> 2, lv2 |-> 3, app |-> 4, iso |-> 5, ldr |-> 6]
self_load_keys == <<"lv0", "lv1", "lv2", "app", "iso", "ldr">>

\* build_info_hdr() fails for another type; the files of a directory have names.
ASSUME JobsAssumption ==
    \A j \in Jobs :
        /\ j.type \in DOMAIN app_type \cup {"pkg"}
        /\ j.suffix \in Seq(STRING)
        /\ \A x \in DOMAIN j.store :
             /\ x \in [name : STRING, kind : Kinds, suffix : Seq(STRING) \ {<<>>}]
             /\ j.store[x] \in STRING

\* The type whose keys a reader takes: for a package it is fixed.
ReadersType == IF job.type = "pkg" THEN "pkg" ELSE self_load_keys[app_type[job.type]]

\* The entries that keys_get takes as keys: the name begins like the type,
\* and "key" is found anywhere.
Matches(x) ==
    /\ x.name = ReadersType \/ <<ReadersType, x.name>> \in Begins
    /\ x.kind = "key" \/ \E p \in 1..Len(x.suffix) : x.suffix[p] = "key"

\* What is behind the last hyphen.
Id(x) == <<x.suffix[Len(x.suffix)]>>

-----------------------------------------------------------------------------
Init == /\ job \in Jobs
        /\ pc = "sign"
        /\ k = NoKey
        /\ dir = {} /\ klist = <<>> /\ keyid = 0
        /\ bfr \in {<<"whole", c>> : c \in Curves}

Sign ==
    /\ pc = "sign"
    /\ LET g == key_get(job.type, job.suffix)
       IN  k' = g.k /\ pc' = IF Signs(g) THEN "signed" ELSE "failed"
    /\ UNCHANGED <<job, dir, bfr, klist, keyid>>

OpenDir ==
    /\ pc = "signed"
    /\ dir' = {x \in DOMAIN job.store : Matches(x)}
    /\ pc' = "readdir"
    /\ UNCHANGED <<job, k, bfr, klist, keyid>>

\* Wrong on purpose: the entry takes bfr before the ctype is read into it.
BadReadDir(x) ==
    LET Read(kind, old) == key_read(Path(ReadersType, kind, Id(x)), old)
        pub   == Read("pub", ZERO)
        priv  == Read("priv", ZERO)
    IN  /\ pc = "readdir" /\ x \in dir
        /\ dir' = dir \ {x}
        /\ bfr' = IF pub.ok THEN Read("ctype", bfr).dst ELSE bfr
        /\ klist' = Append(klist,
                      [key        |-> Read("key", ZERO).dst,
                       iv         |-> Read("iv", ZERO).dst,
                       pub_avail  |-> Avail(pub.ok),
                       priv_avail |-> Avail(priv.ok),
                       ctype      |-> IF pub.ok THEN bfr ELSE ZERO,
                       pub        |-> pub.dst,
                       priv       |-> priv.dst])
        /\ UNCHANGED <<job, pc, k, keyid>>

\* One turn of keys_get with what readdir returned (those that do not match
\* change nothing): an entry is made whatever can be read of it.
ReadDir(x) ==
    LET Read(kind, old) == key_read(Path(ReadersType, kind, Id(x)), old)
        pub   == Read("pub", ZERO)
        priv  == Read("priv", ZERO)
        curve == IF pub.ok THEN Read("ctype", bfr).dst ELSE bfr
    IN  /\ pc = "readdir" /\ x \in dir
        /\ dir' = dir \ {x}
        /\ bfr' = curve
        /\ klist' = Append(klist,
                      [key        |-> Read("key", ZERO).dst,
                       iv         |-> Read("iv", ZERO).dst,
                       pub_avail  |-> Avail(pub.ok),
                       priv_avail |-> Avail(priv.ok),
                       ctype      |-> IF pub.ok THEN curve ELSE ZERO,
                       pub        |-> pub.dst,
                       priv       |-> priv.dst])
        /\ UNCHANGED <<job, pc, k, keyid>>

\* sce_decrypt_header takes the first entry that opens the header.  It looks at
\* two blocks of the plaintext that the iv plays no part in: a key opens it with
\* any iv.
Opening == {n \in 1..Len(klist) : klist[n].key = k.key}

\* With another iv the key of the metadata comes out wrong, and with it all that
\* is decrypted (module SceFile says what sceverify can make of that).
DecryptHeader ==
    /\ pc = "readdir" /\ dir = {}
    /\ IF Opening = {} THEN keyid' = 0 /\ pc' = "not_opened"
       ELSE /\ keyid' = CHOOSE n \in Opening : \A o \in Opening : n <= o
            /\ pc' = IF klist[keyid'].iv = k.iv THEN "opened" ELSE "garbled"
    /\ UNCHANGED <<job, k, dir, bfr, klist>>

\* Wrong on purpose: the public key of the first entry is used.
BadVerify ==
    /\ pc = "opened"
    /\ pc' = IF klist[1].pub_avail < 0 \/ ~ecdsa_set_curve(klist[1].ctype)
             THEN "not_verified"
             ELSE IF klist[1].pub = k.pub /\ klist[1].ctype = k.ctype
                  THEN "OK" ELSE "FAIL"
    /\ UNCHANGED <<job, k, dir, bfr, klist, keyid>>

\* ECDSA is ideal: a signature verifies with the public key and on the curve
\* of the one who signed.
Verify ==
    /\ pc = "opened"
    /\ pc' = IF klist[keyid].pub_avail < 0 \/ ~ecdsa_set_curve(klist[keyid].ctype)
             THEN "not_verified"
             ELSE IF klist[keyid].pub = k.pub /\ klist[keyid].ctype = k.ctype
                  THEN "OK" ELSE "FAIL"
    /\ UNCHANGED <<job, k, dir, bfr, klist, keyid>>

Next == Sign \/ OpenDir \/ (\E x \in dir : ReadDir(x)) \/ DecryptHeader \/ Verify

Spec == Init /\ [][Next]_vars

-----------------------------------------------------------------------------
(* Properties *)

\* A suffix whose files keys_get finds: it has no hyphen.
Plain(suffix) == Len(suffix) = 1

Suffixes == {x.suffix : x \in DOMAIN job.store}

\* Another suffix of the type has the same key, with whatever iv.
Twin == \E s \in Suffixes \ {job.suffix} :
          /\ Plain(s)
          /\ key_read(Path(ReadersType, "key", s), ZERO).dst = k.key

\* What makeself or pkg signs, sceverify can verify: keys_get finds the key
\* again by its type alone, with its own public key and its own curve, in any
\* order of the directory, and whatever else is missing or cut off in there.
\* Not so if the suffix has a hyphen, or if the key is there twice: the other
\* one opens the header, too, even without an iv or a public key.
SignedIsVerified ==
    pc \in {"not_opened", "garbled", "not_verified", "FAIL"} => ~Plain(job.suffix) \/ Twin

\* The two ways to read a key agree: each key that key_get gives, and that is
\* good for signing, is in the list that keys_get has read, field by field.
ListAgrees ==
    pc = "readdir" /\ dir = {} =>
        \A s \in {s \in Suffixes : Plain(s)} :
            LET g == key_get(ReadersType, s)
            IN  Signs(g) => \E n \in 1..Len(klist) : klist[n] = g.k

=============================================================================
