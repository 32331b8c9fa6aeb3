------------------------------ MODULE MCTools --------------------------------
(* The two services of tools.c that every producer of a file needs, a key   *)
(* and a hash, one of them at a time.                                       *)
(*                                                                          *)
(* Stores of type lv1 with two suffixes, "a" and "b".  One of them has all  *)
(* its files; each file of the other is missing, cut off or whole, and its  *)
(* key and iv may be those of the first.  Beside them are files that        *)
(* keys_get takes for keys and that are none.  The other types get a store  *)
(* with all files of every type.                                            *)
(*                                                                          *)
(* The hash has blocks of four octets with a length of two, and words so    *)
(* short that the low one wraps after two octets and both after ten.        *)
EXTENDS KeyStore, Sha1, TLC

VARIABLE service   \* "keys" or "hash"

MCBegins == {<<"lv1", "lv1ldr">>}
MCCurves == {"a", "b"}

Types == {"lv0", "lv1", "lv2", "app", "iso", "ldr", "pkg"}

Whole(type, s) == [x \in {Path(type, d, <<s>>) : d \in Kinds} |-> s]

\* What may be of the files of suffix s, next to those of t.
Broken(s, t) ==
    LET States(d) == {"missing", SHORT, s} \cup (IF d \in {"key", "iv"} THEN {t} ELSE {})
        Choices   == {c \in [Kinds -> {"missing", SHORT, s, t}] :
                         \A d \in Kinds : c[d] \in States(d)}
    IN  {[x \in {Path("lv1", d, <<s>>) : d \in {d \in Kinds : c[d] # "missing"}}
             |-> c[x.kind]] : c \in Choices}

\* Another name that begins like the type, a suffix with a hyphen, and "key"
\* in another place.
Others == {Path("lv1ldr", "key", <<"a">>), Path("lv1", "key", <<"b", "a">>),
           Path("lv1", "iv", <<"key">>)}
Extras == {{}} \cup {{x} : x \in Others} \cup {Others}

Store(s, broken, extra) == Whole("lv1", s) @@ broken @@ [x \in extra |-> "c"]

EveryType == [x \in {Path(type, d, <<"a">>) : type \in Types, d \in Kinds} |-> "a"]
Hyphen == [x \in {Path("lv1", d, <<"b", "a">>) : d \in Kinds} |-> "a"]

MCJobs ==
    {[type |-> "lv1", suffix |-> <<"a">>, store |-> Store("a", broken, extra)] :
        broken \in Broken("b", "a"), extra \in Extras}
    \cup {[type |-> "lv1", suffix |-> <<"b">>, store |-> Store("a", broken, {})] :
            broken \in Broken("b", "a")}
    \cup {[type |-> type, suffix |-> <<"a">>, store |-> EveryType] : type \in Types}
    \cup {[type |-> "lv1", suffix |-> <<"b", "a">>,
            store |-> Hyphen @@ Whole("lv1", "b")]}

-----------------------------------------------------------------------------
\* The service that is not looked at stands still: the hash at its start, the
\* keys where there is nothing to sign.
IdleKeys == /\ job = [type |-> "lv1", suffix |-> <<"a">>, store |-> <<>>]
            /\ pc = "failed" /\ k = NoKey /\ bfr = ZERO
            /\ dir = {} /\ klist = <<>> /\ keyid = 0

InitTools == /\ SHA1Reset
             /\ \/ service = "keys" /\ Init
                \/ service = "hash" /\ IdleKeys

NextTools == /\ UNCHANGED service
             /\ \/ service = "keys" /\ Next /\ UNCHANGED SHA1Vars
                \/ service = "hash" /\ SHA1Next /\ UNCHANGED vars

Tools == InitTools /\ [][NextTools]_<<vars, SHA1Vars, service>>
=============================================================================
