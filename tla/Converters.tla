------------------------------ MODULE Converters ------------------------------
(***************************************************************************)
(* dos2unix.sh, unix2dos.sh and iso2utf.sh, alone or called for the files  *)
(* of several patterns by dos2unix-pattern.sh and unix2dos-pattern.sh.     *)
(* Each writes a temporary file next to the file and renames it.  Several  *)
(* runs may be at work, each may be killed, and awk may fail while the     *)
(* script goes on, on a full disk for instance.                            *)
(*                                                                         *)
(* A line is the number of carriage returns at its end, or how many times  *)
(* it was recoded; whether the last line is terminated is a field of the   *)
(* file.  Files fit a buffer of awk: they are written at once.             *)
(***************************************************************************)
EXTENDS Integers, SequencesExt, FiniteSetsExt, Functions

CONSTANTS Names,     \* every name, in the order of ls
          Temps,     \* the name of the temporary file of a name
          Jobs       \* a directory, a script, the patterns of every run

VARIABLES dir,       \* the file numbers of the names
          data,      \* the contents of the files
          pc, todo,  \* of every run; todo is what is left of the output of ls
          fd, got,   \* the open temporary file, and what is written to it
          job,
          trouble    \* names of which two runs were at work at a time, or awk failed

\* A job has finitely many patterns; they match names that have a temporary one.
IsJob(j) ==
    /\ DOMAIN j.files \subseteq ToSet(Names)
    /\ \A r \in DOMAIN j.patterns : \A p \in DOMAIN j.patterns[r] :
         j.patterns[r][p] \subseteq DOMAIN Temps \cap ToSet(Names)
    /\ IsFiniteSet(UNION {{r} \X DOMAIN j.patterns[r] : r \in DOMAIN j.patterns})

ASSUME ConvertersAssumption ==
    /\ Names \in Seq(ToSet(Names)) /\ IsInjective(Names)
    /\ \A n \in DOMAIN Temps : Temps[n] # n
    /\ \A j \in Jobs : IsJob(j)

vars == <<dir, data, pc, todo, fd, got, job, trouble>>

Runs == DOMAIN job.patterns
EMPTY == [lines |-> <<>>, closed |-> TRUE]
MIXED == [lines |-> <<-1>>, closed |-> TRUE]

Place(n) == CHOOSE k \in DOMAIN Names : Names[k] = n

Init == /\ job \in Jobs
        /\ dir = [n \in DOMAIN job.files |-> Place(n)]
        /\ data = [k \in DOMAIN Names |-> IF Names[k] \in DOMAIN job.files
                                          THEN job.files[Names[k]] ELSE EMPTY]
        /\ pc = [r \in Runs |-> "ls"] /\ todo = [r \in Runs |-> {}]
        /\ fd = [r \in Runs |-> 0] /\ got = [r \in Runs |-> EMPTY]
        /\ trouble = {}

\* The patterns of a run that match a name.
Matching(r, n) == {p \in DOMAIN job.patterns[r] : n \in job.patterns[r][p]}

\* The name of a script called for one file need not exist.
Listed == {n \in ToSet(Names) : n \in DOMAIN dir \/ ~job.ls}

\* Wrong on purpose: a name is taken once, whichever patterns match it.
BadListing(r) == UNION {{p \in Matching(r, n) : p = Min(Matching(r, n))} \X {n} : n \in Listed}

\* `ls $1`: a name comes once for every pattern that matches it.
Listing(r) == UNION {Matching(r, n) \X {n} : n \in Listed}

List(r) ==
    /\ pc[r] = "ls"
    /\ todo' = [todo EXCEPT ![r] = Listing(r)]
    /\ pc' = [pc EXCEPT ![r] = "next"]
    /\ UNCHANGED <<dir, data, fd, got, job, trouble>>

\* ls sorts.
First(list) == CHOOSE e \in list : \A o \in list : Place(e[2]) <= Place(o[2])
Entry(r) == First(todo[r])
file(r)  == Entry(r)[2]

\* Wrong on purpose: the file is converted in place.
BadOutput(n) == n

Output(n) == Temps[n]

\* The names that run q is at: its file, the temporary one, and whatever name
\* another run may have given to the file that it writes.
At(q) == IF pc[q] \in {"read", "write", "mv"}
         THEN {file(q), Temps[file(q)]} \cup {n \in DOMAIN dir : dir[n] = fd[q]} ELSE {}

\* > $1-cnv: the shell creates the file, or empties the one that is there.
Redirect(r) ==
    /\ pc[r] = "next" /\ todo[r] # {}
    /\ LET n == file(r)
           t == Output(n)
       IN  /\ IF t \in DOMAIN dir
              THEN /\ fd' = [fd EXCEPT ![r] = dir[t]]
                   /\ data' = [data EXCEPT ![dir[t]] = EMPTY]
                   /\ UNCHANGED dir
              ELSE /\ fd' = [fd EXCEPT ![r] = Len(data) + 1]
                   /\ data' = Append(data, EMPTY)
                   /\ dir' = [m \in DOMAIN dir \cup {t} |-> IF m = t THEN Len(data) + 1 ELSE dir[m]]
           /\ trouble' = trouble \cup UNION {{n, file(q)} :
                           q \in {q \in Runs \ {r} : At(q) \cap {n, Temps[n]} # {}}}
    /\ pc' = [pc EXCEPT ![r] = "read"]
    /\ UNCHANGED <<todo, got, job>>

\* awk takes one carriage return away, or adds one, and ends every line that
\* it prints; iconv recodes what is there, whatever it is.
Converted(f) ==
    LET change(k) == IF job.script = "dos2unix" THEN (IF k > 0 THEN k - 1 ELSE 0) ELSE k + 1
    IN  [lines |-> [l \in DOMAIN f.lines |-> change(f.lines[l])],
         closed |-> job.script # "iso2utf" \/ f.closed]

\* A file that is not there is an error of awk, which writes nothing.
Read(r) ==
    /\ pc[r] = "read"
    /\ LET n == file(r)
       IN  got' = [got EXCEPT ![r] = IF n \in DOMAIN dir THEN Converted(data[dir[n]]) ELSE EMPTY]
    /\ pc' = [pc EXCEPT ![r] = "write"]
    /\ UNCHANGED <<dir, data, todo, fd, job, trouble>>

\* What is written from the start of a file over what another run wrote.
Over(old, new) == IF old.lines = <<>> \/ old = new THEN new
                  ELSE IF new.lines = <<>> THEN old ELSE MIXED

WriteWhole(r) ==
    /\ pc[r] = "write"
    /\ data' = [data EXCEPT ![fd[r]] = Over(@, got[r])]
    /\ pc' = [pc EXCEPT ![r] = "mv"]
    /\ UNCHANGED <<dir, todo, fd, got, job, trouble>>

\* awk fails on the way, and nobody looks.
WritePart(r) ==
    /\ pc[r] = "write" /\ got[r].lines # <<>>
    /\ \E k \in 0..(Len(got[r].lines) - 1) :
         data' = [data EXCEPT ![fd[r]] = Over(@, [got[r] EXCEPT !.lines = SubSeq(@, 1, k)])]
    /\ trouble' = trouble \cup {file(r)}
    /\ pc' = [pc EXCEPT ![r] = "mv"]
    /\ UNCHANGED <<dir, todo, fd, got, job>>

\* mv fails if another run has moved the file.
Move(r) ==
    /\ pc[r] = "mv"
    /\ LET n == file(r)
           t == Temps[n]
       IN  dir' = IF t \in DOMAIN dir
                  THEN [m \in (DOMAIN dir \cup {n}) \ {t} |-> IF m = n THEN dir[t] ELSE dir[m]]
                  ELSE dir
    /\ todo' = [todo EXCEPT ![r] = @ \ {Entry(r)}]
    /\ pc' = [pc EXCEPT ![r] = "next"]
    /\ UNCHANGED <<data, fd, got, job, trouble>>

End(r) ==
    /\ pc[r] = "next" /\ todo[r] = {}
    /\ pc' = [pc EXCEPT ![r] = "done"]
    /\ UNCHANGED <<dir, data, todo, fd, got, job, trouble>>

\* The shell and awk are killed together.
Kill(r) ==
    /\ pc[r] \in {"next", "read", "write", "mv"}
    /\ pc' = [pc EXCEPT ![r] = "killed"]
    /\ UNCHANGED <<dir, data, todo, fd, got, job, trouble>>

Next == \E r \in Runs : \/ List(r) \/ Redirect(r) \/ Read(r) \/ WriteWhole(r) \/ WritePart(r)
                        \/ Move(r) \/ End(r) \/ Kill(r)

Spec == Init /\ [][Next]_vars

-----------------------------------------------------------------------------
(* Properties *)

\* How often a file is listed, by which run for which pattern.
Times(n) == UNION {{r} \X Matching(r, n) : r \in Runs}

\* Files that no script takes for a temporary one.
Safe == {n \in DOMAIN job.files : ~\E m \in DOMAIN Temps : Times(m) # {} /\ Temps[m] = n} \ trouble

ConvertedTimes(f, k) ==
    LET after[j \in 0..k] == IF j = 0 THEN f ELSE Converted(after[j - 1])
    IN  after[k]

\* Whenever a run is killed: every file is there under its own name, and it is
\* as it was or converted to its end, once or as often as it was listed.  Two
\* runs at the same file and a failure of awk are the only ways to lose one.
AlwaysWhole ==
    \A n \in Safe :
        /\ n \in DOMAIN dir
        /\ \E k \in 0..Cardinality(Times(n)) : data[dir[n]] = ConvertedTimes(job.files[n], k)

\* When all runs have ended by themselves, every file was converted once for
\* each pattern that matches it, which makes two carriage returns of one line
\* end under unix2dos-pattern.sh, unless two runs were at it or awk failed; and
\* no temporary file is left.
ConvertedAsListed ==
    (\A r \in Runs : pc[r] = "done") =>
        /\ \A n \in Safe : data[dir[n]] = ConvertedTimes(job.files[n], Cardinality(Times(n)))
        /\ DOMAIN dir \subseteq DOMAIN job.files \cup {n \in DOMAIN Temps : Times(n) # {}}
=============================================================================
