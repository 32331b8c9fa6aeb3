----------------------------- MODULE MCSceFile -------------------------------
(* A pkg-like file (metadata offset 0, two plain sections and an encrypted   *)
(* one) and self-like ones, with encrypted sections apart, overlapping,      *)
(* unaligned and empty, for every order of the keys in the key list.         *)
EXTENDS SceFile

MCSigner == [aes |-> "a1", iv |-> "i1", pub |-> "p1"]

Other == [aes |-> "a2", iv |-> "i1", pub |-> "p2"]
SameAes == [aes |-> "a1", iv |-> "i1", pub |-> "p2"]
OtherIv == [aes |-> "a1", iv |-> "i2", pub |-> "p1"]
NoPub == [aes |-> "a1", iv |-> "i1", pub |-> "none"]

MCKeyLists == {<<Other, MCSigner>>, <<SameAes, MCSigner>>, <<OtherIv, MCSigner>>, <<NoPub>>,
               <<Other>>, <<>>}

\* Nowhere, in the counts, in a slot and from there to the end of the file.
MCWilds == {{}, 7..8, 20..99}

S(o, z, e) == [off |-> o, size |-> z, enc |-> e]

File(m, fl, secs, len, size) ==
    [meta |-> m, flags |-> fl, sections |-> secs, length |-> len, filesize |-> size]

MCFiles ==
    {File(0, "retail", <<S(0, 1, FALSE), S(1, 1, FALSE), S(2, 3, TRUE)>>, 6, size) : size \in {4, 6}}
    \cup {File(1, fl, <<S(0, 3, TRUE), S(3, 1, FALSE)>>, 5, 5) :
             fl \in {"retail", "devkit", "other_devkit"}}
    \cup {File(1, "retail", <<S(at[1], 3, TRUE), S(at[2], z, e)>>, 4, 4) :
             at \in {<<0, 0>>, <<0, 1>>, <<1, 0>>}, z \in {0, 3}, e \in BOOLEAN}
=============================================================================
