----------------------------- MODULE MCConverters -----------------------------
(* One or two runs of one script on the files a and b, and on the temporary  *)
(* file of an earlier run that was killed; patterns that match one, both or  *)
(* everything, and one file twice; a file that is not there.                 *)
EXTENDS Converters

MCNames == <<"a", "a-cnv", "a-cnv-cnv", "b", "b-cnv", "c", "c-cnv">>
MCTemps == [n \in {"a", "a-cnv", "b", "c"} |->
              CASE n = "a" -> "a-cnv" [] n = "a-cnv" -> "a-cnv-cnv"
                [] n = "b" -> "b-cnv" [] n = "c" -> "c-cnv"]

Lines(lines, closed) == [lines |-> lines, closed |-> closed]
Some == [n \in {"a", "b"} |-> IF n = "a" THEN Lines(<<0, 1>>, TRUE) ELSE Lines(<<2>>, FALSE)]
Left == [n \in {"a", "a-cnv", "b"} |-> IF n = "a-cnv" THEN Lines(<<0>>, TRUE) ELSE Some[n]]

Two == {<<<<{"a"}>>, <<{"a", "b"}>>>>, <<<<{"b"}>>, <<{"a"}, {"a"}>>>>, <<<<{"a"}>>, <<{"a-cnv"}>>>>}
One == {<<<<{"a", "b"}, {"a"}>>>>, <<<<{"a", "a-cnv", "b"}>>>>}

MCJobs ==
    {[script |-> s, ls |-> TRUE, patterns |-> p, files |-> f] :
       s \in {"dos2unix", "unix2dos"}, p \in One \cup Two, f \in {Some, Left}}
    \cup {[script |-> s, ls |-> FALSE, patterns |-> p, files |-> f] :
       s \in {"dos2unix", "iso2utf"}, p \in {<<<<{"c"}>>>>, <<<<{"a"}>>>>}, f \in {Some, Left}}
=============================================================================
