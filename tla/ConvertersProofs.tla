---------------------------- MODULE ConvertersProofs ----------------------------
(***************************************************************************)
(* No file is lost or half converted, whichever runs are killed and when,  *)
(* and each is converted as often as it is listed: for every directory,    *)
(* every number of runs and patterns.                                      *)
(***************************************************************************)
EXTENDS Converters, Lemmas, FiniteSetTheorems

\* What a file is after 0, 1, ... k conversions.
After(g, f, k) == g = [j \in 0..k |-> IF j = 0 THEN f ELSE Converted(g[j - 1])]

LEMMA AfterMore ==
    ASSUME NEW f, NEW k \in Nat, NEW g, After(g, f, k)
    PROVE  \E h : After(h, f, k + 1)
<1> DEFINE h == [j \in 0..(k + 1) |-> IF j = k + 1 THEN Converted(g[k]) ELSE g[j]]
<1>1. g = [j \in 0..k |-> IF j = 0 THEN f ELSE Converted(g[j - 1])]
  BY DEF After
<1>2. ASSUME NEW j \in 0..(k + 1)
      PROVE  h[j] = IF j = 0 THEN f ELSE Converted(h[j - 1])
  <2>1. CASE j = k + 1
    <3>1. h[j] = Converted(g[k]) /\ k \in 0..(k + 1) /\ k # k + 1 /\ j # 0 /\ j - 1 = k
      BY <2>1
    <3>2. h[k] = g[k]
      BY <3>1
    <3> HIDE DEF h
    <3> QED BY <3>1, <3>2
  <2>2. CASE j # k + 1
    <3>1. j \in 0..k /\ h[j] = g[j]
      BY <2>2
    <3>2. CASE j = 0
      BY <1>1, <3>1, <3>2
    <3>3. CASE j # 0
      <4>1. j - 1 \in 0..(k + 1) /\ j - 1 # k + 1
        BY <3>1, <3>3
      <4>2. h[j - 1] = g[j - 1]
        BY <4>1
      <4> HIDE DEF h
      <4> QED BY <1>1, <3>1, <3>3, <4>2
    <3> QED BY <3>2, <3>3
  <2> QED BY <2>1, <2>2
<1>3. h = [j \in 0..(k + 1) |-> h[j]]
  OBVIOUS
<1> HIDE DEF h
<1>4. After(h, f, k + 1)
  BY <1>2, <1>3 DEF After
<1> QED BY <1>4

\* The least k without such a function would have one.
LEMMA AfterExists ==
    ASSUME NEW f, NEW k \in Nat
    PROVE  \E g : After(g, f, k)
<1> DEFINE T == {m \in Nat : ~\E g : After(g, f, m)}
<1>1. 0 \notin T
  <2> DEFINE g == [j \in 0..0 |-> f]
  <2>1. After(g, f, 0)
    BY DEF After
  <2> HIDE DEF g
  <2> QED BY <2>1
<1>2. T = {}
  <2> SUFFICES ASSUME T # {} PROVE FALSE
    OBVIOUS
  <2>1. T \subseteq Nat
    OBVIOUS
  <2>2. PICK m \in T : \A o \in T : m <= o
    BY <2>1, Least
  <2>3. m \in Nat /\ m # 0
    BY <1>1, <2>2
  <2>4. m - 1 \in Nat /\ ~(m <= m - 1) /\ (m - 1) + 1 = m
    BY <2>3
  <2>5. PICK g : After(g, f, m - 1)
    BY <2>2, <2>4
  <2>6. \E h : After(h, f, m)
    BY <2>4, <2>5, AfterMore
  <2> QED BY <2>2, <2>6
<1> QED BY <1>2

LEMMA TimesAreAfter ==
    ASSUME NEW f, NEW k \in Nat
    PROVE  \E g : After(g, f, k) /\ ConvertedTimes(f, k) = g[k]
<1> DEFINE after[j \in 0..k] == IF j = 0 THEN f ELSE Converted(after[j - 1])
<1>1. ConvertedTimes(f, k) = after[k]
  BY DEF ConvertedTimes
<1>2. PICK g : After(g, f, k)
  BY AfterExists
<1>3. After(after, f, k)
  BY <1>2 DEF After
<1> HIDE DEF after
<1> QED BY <1>1, <1>3

LEMMA AfterSame ==
    ASSUME NEW f, NEW k \in Nat, NEW g, NEW h, After(g, f, k), After(h, f, k + 1)
    PROVE  g[k] = h[k]
<1>1. g = [j \in 0..k |-> IF j = 0 THEN f ELSE Converted(g[j - 1])]
  BY DEF After
<1>2. h = [j \in 0..(k + 1) |-> IF j = 0 THEN f ELSE Converted(h[j - 1])]
  BY DEF After
<1> DEFINE T == {j \in 0..k : g[j] # h[j]}
<1>3. T = {}
  <2> SUFFICES ASSUME T # {} PROVE FALSE
    OBVIOUS
  <2>1. T \subseteq Nat
    OBVIOUS
  <2>2. PICK m \in T : \A o \in T : m <= o
    BY <2>1, Least
  <2>3. m \in 0..k /\ m \in 0..(k + 1) /\ g[m] # h[m]
    BY <2>2
  <2>4. m # 0
    BY <1>1, <1>2, <2>3
  <2>5. m - 1 \in 0..k /\ ~(m <= m - 1)
    BY <2>3, <2>4
  <2>6. g[m - 1] = h[m - 1]
    BY <2>2, <2>5
  <2>7. g[m] = Converted(g[m - 1])
    BY <1>1, <2>3, <2>4
  <2>8. h[m] = Converted(h[m - 1])
    BY <1>2, <2>3, <2>4
  <2> QED BY <2>3, <2>6, <2>7, <2>8
<1> QED BY <1>3

\* Converting k + 1 times is converting once what was converted k times.
LEMMA OnceMore ==
    ASSUME NEW f, NEW k \in Nat
    PROVE  ConvertedTimes(f, k + 1) = Converted(ConvertedTimes(f, k))
<1>1. PICK g : After(g, f, k) /\ ConvertedTimes(f, k) = g[k]
  BY TimesAreAfter
<1>2. PICK h : After(h, f, k + 1) /\ ConvertedTimes(f, k + 1) = h[k + 1]
  BY TimesAreAfter
<1>3. g[k] = h[k]
  BY <1>1, <1>2, AfterSame
<1>4. h = [j \in 0..(k + 1) |-> IF j = 0 THEN f ELSE Converted(h[j - 1])]
  BY <1>2 DEF After
<1>5. k + 1 \in 0..(k + 1) /\ k + 1 # 0 /\ (k + 1) - 1 = k
  OBVIOUS
<1>6. h[k + 1] = Converted(h[k])
  BY <1>4, <1>5
<1> QED BY <1>1, <1>2, <1>3, <1>6

LEMMA NotConverted == ASSUME NEW f PROVE ConvertedTimes(f, 0) = f
<1>1. PICK g : After(g, f, 0) /\ ConvertedTimes(f, 0) = g[0]
  BY TimesAreAfter
<1>2. g = [j \in 0..0 |-> IF j = 0 THEN f ELSE Converted(g[j - 1])]
  BY <1>1 DEF After
<1> QED BY <1>1, <1>2

-----------------------------------------------------------------------------
(* The invariant *)

Busy(r) == pc[r] \in {"read", "write", "mv"}

\* What ls may list for a run.
Possible(r) == UNION {Matching(r, n) \X {n} : n \in ToSet(Names)}

\* A file has a number of its own; what is in todo was listed.
CType ==
    /\ job \in Jobs
    /\ pc \in [Runs -> {"ls", "next", "read", "write", "mv", "done", "killed"}]
    /\ DOMAIN todo = Runs /\ DOMAIN fd = Runs /\ DOMAIN got = Runs
    /\ todo = [r \in Runs |-> todo[r]] /\ fd = [r \in Runs |-> fd[r]] /\ got = [r \in Runs |-> got[r]]
    /\ \A r \in Runs : /\ todo[r] \subseteq Possible(r)
                       /\ Busy(r) => todo[r] # {} /\ fd[r] \in 1..Len(data)
                       /\ pc[r] = "done" => todo[r] = {}
    /\ \E S : data \in Seq(S)
    /\ dir = [n \in DOMAIN dir |-> dir[n]]
    /\ \A n \in DOMAIN dir : dir[n] \in 1..Len(data)
    /\ \A m, n \in DOMAIN dir : dir[m] = dir[n] => m = n

\* Of two runs at the same name it is known.
Apart == \A q, r \in Runs : q # r /\ At(q) \cap At(r) # {} => file(q) \in trouble /\ file(r) \in trouble

\* What is written has the name of a temporary file, or it is known too.
OpenIsTemp ==
    \A r \in Runs : pc[r] \in {"read", "write"} =>
      \A n \in DOMAIN dir : dir[n] = fd[r] => n = Temps[file(r)] \/ n \in trouble

\* How far a run has got with a file.
Progress(r) ==
    LET n == file(r)
    IN  /\ Temps[n] \in DOMAIN dir /\ dir[Temps[n]] = fd[r]
        /\ pc[r] \in {"read", "write"} => data[fd[r]] = EMPTY
        /\ pc[r] = "write" => got[r] = Converted(data[dir[n]])
        /\ pc[r] = "mv" => data[fd[r]] = Converted(data[dir[n]])
InProgress == \A r \in Runs : Busy(r) /\ file(r) \in Safe => Progress(r)

\* For which patterns a file was converted.
Done(n) == {e \in Times(n) : pc[e[1]] # "ls" /\ <<e[2], n>> \notin todo[e[1]]}

FilesWhole ==
    \A n \in Safe : n \in DOMAIN dir /\ data[dir[n]] = ConvertedTimes(job.files[n], Cardinality(Done(n)))

\* Where the names come from.
Origin(n) ==
    \/ n \in DOMAIN job.files
    \/ n \in DOMAIN Temps /\ Times(n) # {}
    \/ \E r \in Runs : /\ pc[r] \in {"read", "write", "mv", "killed"}
                       /\ todo[r] # {} /\ n = Temps[file(r)]
NamesKnown == \A n \in DOMAIN dir : Origin(n)

\* The inductive invariant.
IInv == CType /\ Apart /\ OpenIsTemp /\ InProgress /\ FilesWhole /\ NamesKnown

-----------------------------------------------------------------------------
(* What is known of jobs and lists *)

LEMMA JobFacts ==
    ASSUME job \in Jobs
    PROVE  /\ DOMAIN job.files \subseteq ToSet(Names)
           /\ \A r \in Runs : \A p \in DOMAIN job.patterns[r] :
                job.patterns[r][p] \subseteq DOMAIN Temps \cap ToSet(Names)
           /\ \A n : IsFiniteSet(Times(n))
<1>1. IsJob(job)
  BY ConvertersAssumption
<1>2. IsFiniteSet(UNION {{r} \X DOMAIN job.patterns[r] : r \in Runs})
  BY <1>1 DEF IsJob, Runs
<1>3. ASSUME NEW n PROVE IsFiniteSet(Times(n))
  <2>1. Times(n) \subseteq UNION {{r} \X DOMAIN job.patterns[r] : r \in Runs}
    BY DEF Times, Matching
  <2> QED BY <1>2, <2>1, FS_Subset
<1> QED BY <1>1, <1>3 DEF IsJob, Runs

\* The job does not change, and what depends on nothing else.
LEMMA JobStays ==
    ASSUME UNCHANGED job
    PROVE  /\ Runs' = Runs
           /\ \A n : Times(n)' = Times(n)
           /\ \A r : Possible(r)' = Possible(r)
           /\ \A f : Converted(f)' = Converted(f)
           /\ \A f, k : ConvertedTimes(f, k)' = ConvertedTimes(f, k)
<1>1. Runs' = Runs
  BY DEF Runs
<1>2. \A n, r : Matching(r, n)' = Matching(r, n)
  BY DEF Matching
<1>3. \A n : Times(n)' = Times(n)
  BY DEF Times, Matching, Runs
<1>4. \A f : Converted(f)' = Converted(f)
  BY DEF Converted
<1>5. \A f, k : ConvertedTimes(f, k)' = ConvertedTimes(f, k)
  BY DEF ConvertedTimes, Converted
<1>6. \A r : Possible(r)' = Possible(r)
  BY <1>2 DEF Possible
<1> QED BY <1>1, <1>3, <1>4, <1>5, <1>6

\* Names in a list have a place.
LEMMA FirstIsIn ==
    ASSUME NEW list, list # {}, \A e \in list : e[2] \in ToSet(Names)
    PROVE  First(list) \in list
<1>1. \A n \in ToSet(Names) : Place(n) \in Nat
  <2>1. SUFFICES ASSUME NEW n \in ToSet(Names) PROVE Place(n) \in Nat
    OBVIOUS
  <2>2. PICK k \in DOMAIN Names : Names[k] = n
    BY DEF ToSet
  <2>3. Place(n) \in DOMAIN Names
    BY <2>2 DEF Place
  <2> QED BY <2>3, ConvertersAssumption
<1> DEFINE T == {Place(e[2]) : e \in list}
<1>2. T \subseteq Nat /\ T # {}
  BY <1>1
<1>3. PICK k \in T : \A o \in T : k <= o
  BY <1>2, Least
<1>4. PICK e \in list : k = Place(e[2])
  BY <1>3
<1>5. \A o \in list : Place(e[2]) <= Place(o[2])
  BY <1>3, <1>4
<1> QED BY <1>5 DEF First

\* The file that comes next was listed.
LEMMA EntryFacts ==
    ASSUME CType, NEW r \in Runs, todo[r] # {}
    PROVE  /\ Entry(r) \in todo[r] /\ Entry(r) = <<Entry(r)[1], file(r)>>
           /\ file(r) \in ToSet(Names) /\ file(r) \in DOMAIN Temps /\ Temps[file(r)] # file(r)
           /\ <<r, Entry(r)[1]>> \in Times(file(r))
<1>1. \A e \in todo[r] : \E n \in ToSet(Names) : e[2] = n /\ e = <<e[1], n>> /\ e[1] \in Matching(r, n)
  <2>1. SUFFICES ASSUME NEW e \in todo[r]
                 PROVE  \E n \in ToSet(Names) : e[2] = n /\ e = <<e[1], n>> /\ e[1] \in Matching(r, n)
    OBVIOUS
  <2>2. PICK n \in ToSet(Names) : e \in Matching(r, n) \X {n}
    BY DEF CType, Possible
  <2> QED BY <2>2
<1>2. Entry(r) \in todo[r]
  BY <1>1, FirstIsIn DEF Entry
<1>3. PICK n \in ToSet(Names) :
        Entry(r)[2] = n /\ Entry(r) = <<Entry(r)[1], n>> /\ Entry(r)[1] \in Matching(r, n)
  BY <1>1, <1>2
<1>4. file(r) = n
  BY <1>3 DEF file
<1>5. n \in DOMAIN Temps
  BY <1>3, JobFacts DEF CType, Matching
<1>6. <<r, Entry(r)[1]>> \in Times(n)
  BY <1>3 DEF Times
<1> QED BY <1>2, <1>3, <1>4, <1>5, <1>6, ConvertersAssumption

\* A file that is safe is no run's temporary file.
LEMMA SafeFacts ==
    ASSUME CType, NEW n \in Safe
    PROVE  /\ n \in DOMAIN job.files /\ n \notin trouble /\ n \in ToSet(Names)
           /\ \A r \in Runs : todo[r] # {} => Temps[file(r)] # n
<1>1. n \in DOMAIN job.files /\ n \notin trouble
  BY DEF Safe
<1>2. ASSUME NEW r \in Runs, todo[r] # {}
      PROVE  Temps[file(r)] # n
  <2>1. file(r) \in DOMAIN Temps /\ Times(file(r)) # {}
    BY <1>2, EntryFacts
  <2> QED BY <2>1 DEF Safe
<1> QED BY <1>1, <1>2, JobFacts DEF CType

LEMMA SafeShrinks ==
    ASSUME UNCHANGED job, trouble \subseteq trouble'
    PROVE  Safe' \subseteq Safe
<1>1. \A n : Times(n)' = Times(n)
  BY JobStays
<1> QED BY <1>1 DEF Safe

LEMMA InitIInv == Init => IInv
<1> SUFFICES ASSUME Init PROVE IInv
  OBVIOUS
<1>1. /\ job \in Jobs
      /\ dir = [n \in DOMAIN job.files |-> Place(n)]
      /\ data = [k \in DOMAIN Names |-> IF Names[k] \in DOMAIN job.files
                                        THEN job.files[Names[k]] ELSE EMPTY]
      /\ pc = [r \in Runs |-> "ls"] /\ todo = [r \in Runs |-> {}]
      /\ fd = [r \in Runs |-> 0] /\ got = [r \in Runs |-> EMPTY]
      /\ trouble = {}
  BY DEF Init
<1>2. ASSUME NEW n \in DOMAIN job.files
      PROVE  Place(n) \in DOMAIN Names /\ Names[Place(n)] = n
  <2>1. n \in ToSet(Names)
    BY <1>1, JobFacts
  <2>2. PICK k \in DOMAIN Names : Names[k] = n
    BY <2>1 DEF ToSet
  <2> QED BY <2>2 DEF Place
<1>3. PICK c \in Nat : DOMAIN Names = 1..c
  <2>1. Len(Names) \in Nat /\ DOMAIN Names = 1..Len(Names)
    BY ConvertersAssumption
  <2> QED BY <2>1
<1>4. (\E S : data \in Seq(S)) /\ Len(data) = c
  <2>1. PICK S : S = {data[k] : k \in 1..c}
    OBVIOUS
  <2>2. data \in [1..c -> S]
    BY <1>1, <1>3, <2>1
  <2>3. data \in Seq(S) /\ Len(data) = c
    BY <2>2, FunctionIsSeq
  <2> QED BY <2>3
<1>5. \A r \in Runs : pc[r] = "ls" /\ todo[r] = {} /\ At(r) = {}
  BY <1>1 DEF At
<1>6. CType
  BY <1>1, <1>2, <1>3, <1>4, <1>5 DEF CType, Busy
<1>7. Apart /\ OpenIsTemp /\ InProgress /\ NamesKnown
  BY <1>1, <1>5 DEF Apart, OpenIsTemp, InProgress, NamesKnown, Origin, Busy
<1>8. ASSUME NEW n \in Safe
      PROVE  n \in DOMAIN dir /\ data[dir[n]] = ConvertedTimes(job.files[n], Cardinality(Done(n)))
  <2>1. n \in DOMAIN job.files
    BY DEF Safe
  <2>2. Done(n) = {}
    BY <1>5 DEF Done, Times
  <2>3. Cardinality(Done(n)) = 0
    BY <2>2, FS_EmptySet
  <2>4. data[dir[n]] = job.files[n]
    BY <1>1, <1>2, <2>1
  <2> QED BY <1>1, <2>1, <2>3, <2>4, NotConverted
<1> QED BY <1>6, <1>7, <1>8 DEF IInv, FilesWhole

-----------------------------------------------------------------------------
(* Steps that leave the directory as it is *)

\* A run that is left alone is where it was.
LEMMA FileStays ==
    ASSUME NEW r, todo'[r] = todo[r]
    PROVE  Entry(r)' = Entry(r) /\ file(r)' = file(r)
BY DEF Entry, file

LEMMA AtStays ==
    ASSUME NEW r, todo'[r] = todo[r], pc'[r] \in {"read", "write", "mv"} => Busy(r),
           fd'[r] = fd[r], dir' = dir
    PROVE  At(r)' \subseteq At(r)
<1>1. file(r)' = file(r)
  BY FileStays
<1> QED BY <1>1 DEF At, Busy

\* No run begins with a file.
Quiet ==
    /\ UNCHANGED <<dir, fd, job>> /\ trouble \subseteq trouble'
    /\ \A r \in Runs :
         /\ Busy(r)' => Busy(r) /\ todo'[r] = todo[r]
         /\ pc'[r] \in {"read", "write"} => pc[r] \in {"read", "write"}
         /\ pc[r] \in {"read", "write", "mv", "killed"} =>
              pc'[r] \in {"read", "write", "mv", "killed"} /\ todo'[r] = todo[r]

LEMMA QuietKeeps ==
    ASSUME IInv, Quiet
    PROVE  Apart' /\ OpenIsTemp' /\ NamesKnown'
<1>1. Runs' = Runs /\ \A n : Times(n)' = Times(n)
  BY JobStays DEF Quiet
<1>2. \A r \in Runs : Busy(r)' => At(r)' \subseteq At(r) /\ file(r)' = file(r)
  BY AtStays, FileStays DEF Quiet, Busy
<1>3. \A r \in Runs : ~Busy(r)' => At(r)' = {}
  BY DEF At, Busy
<1>4. Apart'
  <2>1. SUFFICES ASSUME NEW q \in Runs, NEW r \in Runs, q # r, At(q)' \cap At(r)' # {}
                 PROVE  file(q)' \in trouble' /\ file(r)' \in trouble'
    BY <1>1 DEF Apart
  <2>2. Busy(q)' /\ Busy(r)'
    BY <1>3, <2>1
  <2>3. At(q) \cap At(r) # {} /\ file(q)' = file(q) /\ file(r)' = file(r)
    BY <1>2, <2>1, <2>2
  <2>4. file(q) \in trouble /\ file(r) \in trouble
    BY <2>1, <2>3 DEF IInv, Apart
  <2> QED BY <2>3, <2>4 DEF Quiet
<1>5. OpenIsTemp'
  <2>1. SUFFICES ASSUME NEW r \in Runs, pc'[r] \in {"read", "write"},
                        NEW n \in DOMAIN dir', dir'[n] = fd'[r]
                 PROVE  n = Temps[file(r)'] \/ n \in trouble'
    BY <1>1 DEF OpenIsTemp
  <2>2. pc[r] \in {"read", "write"} /\ file(r)' = file(r)
    BY <1>2, <2>1 DEF Quiet, Busy
  <2>3. n = Temps[file(r)] \/ n \in trouble
    BY <2>1, <2>2 DEF Quiet, IInv, OpenIsTemp
  <2> QED BY <2>2, <2>3 DEF Quiet
<1>6. NamesKnown'
  <2>1. SUFFICES ASSUME NEW n \in DOMAIN dir' PROVE Origin(n)'
    BY DEF NamesKnown
  <2>2. Origin(n)
    BY <2>1 DEF Quiet, IInv, NamesKnown
  <2>3. CASE \E r \in Runs : /\ pc[r] \in {"read", "write", "mv", "killed"}
                             /\ todo[r] # {} /\ n = Temps[file(r)]
    <3>1. PICK r \in Runs : /\ pc[r] \in {"read", "write", "mv", "killed"}
                            /\ todo[r] # {} /\ n = Temps[file(r)]
      BY <2>3
    <3>2. pc'[r] \in {"read", "write", "mv", "killed"} /\ todo'[r] = todo[r]
      BY <3>1 DEF Quiet
    <3>3. file(r)' = file(r)
      BY <3>2, FileStays
    <3> QED BY <1>1, <3>1, <3>2, <3>3 DEF Origin
  <2>4. CASE n \in DOMAIN job.files \/ (n \in DOMAIN Temps /\ Times(n) # {})
    BY <1>1, <2>4 DEF Origin, Quiet
  <2> QED BY <2>2, <2>3, <2>4 DEF Origin
<1> QED BY <1>4, <1>5, <1>6

\* Steps that write nothing, and leave alone what a busy run needs.
LEMMA ProgressStays ==
    ASSUME NEW r \in Runs, Progress(r),
           UNCHANGED <<dir, data, job>>, todo'[r] = todo[r], pc'[r] = pc[r],
           fd'[r] = fd[r], got'[r] = got[r]
    PROVE  Progress(r)'
<1>1. file(r)' = file(r) /\ \A f : Converted(f)' = Converted(f)
  BY FileStays, JobStays
<1> QED BY <1>1 DEF Progress, EMPTY

\* Files that are not written to, and of which nothing is taken from a list.
LEMMA FilesStay ==
    ASSUME IInv, Safe' \subseteq Safe, UNCHANGED job,
           \A n \in Safe' : n \in DOMAIN dir => n \in DOMAIN dir' /\ data'[dir'[n]] = data[dir[n]],
           \A n \in Safe' : Done(n)' = Done(n)
    PROVE  FilesWhole'
<1>1. \A f, k : ConvertedTimes(f, k)' = ConvertedTimes(f, k)
  BY JobStays
<1>2. SUFFICES ASSUME NEW n \in Safe'
               PROVE  n \in DOMAIN dir' /\ data'[dir'[n]] = ConvertedTimes(job.files[n], Cardinality(Done(n)))'
  BY DEF FilesWhole
<1>3. PICK f, k : f = job.files[n] /\ k = Cardinality(Done(n))
  OBVIOUS
<1>4. n \in DOMAIN dir /\ data[dir[n]] = ConvertedTimes(f, k)
  BY <1>2, <1>3 DEF IInv, FilesWhole
<1>5. n \in DOMAIN dir' /\ data'[dir'[n]] = data[dir[n]]
  BY <1>2, <1>4
<1>6. job'.files[n] = f /\ Cardinality(Done(n)') = k
  BY <1>2, <1>3
<1>7. ConvertedTimes(f, k)' = ConvertedTimes(f, k)
  BY <1>1
<1>8. ConvertedTimes(job.files[n], Cardinality(Done(n)))' = ConvertedTimes(f, k)'
  BY <1>6 DEF ConvertedTimes, Converted
<1> QED BY <1>4, <1>5, <1>7, <1>8

\* If no list changes, nothing more is done.
LEMMA DoneStays ==
    ASSUME UNCHANGED job, \A r \in Runs : todo'[r] = todo[r] /\ (pc'[r] = "ls" <=> pc[r] = "ls")
    PROVE  \A n : Done(n)' = Done(n)
<1>1. \A n : Times(n)' = Times(n)
  BY JobStays
<1>2. \A n : \A e \in Times(n) : e[1] \in Runs
  BY DEF Times
<1> QED BY <1>1, <1>2 DEF Done

\* What a step of one run leaves of the others.
LEMMA ListKeeps == ASSUME IInv, NEW r \in Runs, List(r) PROVE IInv'
<1>1. /\ pc[r] = "ls" /\ todo' = [todo EXCEPT ![r] = Listing(r)]
      /\ pc' = [pc EXCEPT ![r] = "next"] /\ UNCHANGED <<dir, data, fd, got, job, trouble>>
  BY DEF List
<1>2. CType
  BY DEF IInv
<1>3. /\ todo'[r] = Listing(r) /\ pc'[r] = "next"
      /\ \A q \in Runs \ {r} : todo'[q] = todo[q] /\ pc'[q] = pc[q]
  BY <1>1, <1>2 DEF CType
<1>4. Quiet
  BY <1>1, <1>3 DEF Quiet, Busy
<1>5. Safe' \subseteq Safe
  BY <1>1, SafeShrinks
<1>6. Runs' = Runs /\ (\A n : Times(n)' = Times(n)) /\ \A q : Possible(q)' = Possible(q)
  BY <1>1, JobStays
<1>7. CType'
  <2>1. Listing(r) \subseteq Possible(r)
    BY DEF Listing, Listed, Possible
  <2>2. /\ pc' \in [Runs -> {"ls", "next", "read", "write", "mv", "done", "killed"}]
        /\ DOMAIN todo' = Runs /\ todo' = [q \in Runs |-> todo'[q]]
    BY <1>1, <1>2 DEF CType
  <2>3. \A q \in Runs : /\ todo'[q] \subseteq Possible(q)
                        /\ pc'[q] \in {"read", "write", "mv"} =>
                             todo'[q] # {} /\ fd[q] \in 1..Len(data)
                        /\ pc'[q] = "done" => todo'[q] = {}
    BY <1>2, <1>3, <2>1 DEF CType, Busy
  <2>4. \A q \in Runs' : /\ todo'[q] \subseteq Possible(q)'
                         /\ Busy(q)' => todo'[q] # {} /\ fd'[q] \in 1..Len(data')
                         /\ pc'[q] = "done" => todo'[q] = {}
    BY <1>1, <1>6, <2>3 DEF Busy
  <2>5. /\ pc' \in [Runs' -> {"ls", "next", "read", "write", "mv", "done", "killed"}]
        /\ DOMAIN todo' = Runs' /\ todo' = [q \in Runs' |-> todo'[q]]
    BY <1>6, <2>2
  <2>6. /\ DOMAIN fd' = Runs' /\ fd' = [q \in Runs' |-> fd'[q]]
        /\ DOMAIN got' = Runs' /\ got' = [q \in Runs' |-> got'[q]]
    BY <1>1, <1>2, <1>6 DEF CType
  <2>7. /\ job' \in Jobs /\ (\E S : data' \in Seq(S)) /\ dir' = [n \in DOMAIN dir' |-> dir'[n]]
        /\ \A n \in DOMAIN dir' : dir'[n] \in 1..Len(data')
        /\ \A m, n \in DOMAIN dir' : dir'[m] = dir'[n] => m = n
    BY <1>1, <1>2 DEF CType
  <2> QED BY <2>4, <2>5, <2>6, <2>7 DEF CType
<1>8. InProgress'
  <2>1. SUFFICES ASSUME NEW q \in Runs, Busy(q)', file(q)' \in Safe' PROVE Progress(q)'
    BY <1>6 DEF InProgress
  <2>2. q # r /\ Busy(q) /\ todo'[q] = todo[q] /\ pc'[q] = pc[q]
    BY <1>3, <2>1 DEF Busy
  <2>3. file(q)' = file(q)
    BY <2>2, FileStays
  <2>4. Progress(q)
    BY <1>5, <2>1, <2>2, <2>3 DEF IInv, InProgress
  <2> QED BY <1>1, <2>2, <2>4, ProgressStays
<1>9. ASSUME NEW n \in Safe'
      PROVE  Done(n)' = Done(n)
  <2>1. n \in DOMAIN dir /\ n \in ToSet(Names)
    BY <1>2, <1>5, <1>9, SafeFacts DEF IInv, FilesWhole
  <2>2. n \in Listed
    BY <2>1 DEF Listed
  <2>3. \A e \in Times(n) : e[1] \in Runs /\ (e[1] = r => e[2] \in Matching(r, n))
    BY DEF Times
  <2>4. \A e \in Times(n) : e[1] = r => <<e[2], n>> \in todo'[r]
    BY <1>3, <2>2, <2>3 DEF Listing
  <2>5. \A e \in Times(n) : e \in Done(n)' <=> e \in Done(n)
    <3>1. SUFFICES ASSUME NEW e \in Times(n) PROVE e \in Done(n)' <=> e \in Done(n)
      OBVIOUS
    <3>2. CASE e[1] = r
      <4>1. e \notin Done(n)'
        BY <2>4, <3>2 DEF Done
      <4>2. e \notin Done(n)
        BY <1>1, <3>2 DEF Done
      <4> QED BY <4>1, <4>2
    <3>3. CASE e[1] # r
      <4>1. todo'[e[1]] = todo[e[1]] /\ pc'[e[1]] = pc[e[1]]
        BY <1>3, <2>3, <3>3
      <4> QED BY <1>6, <4>1 DEF Done
    <3> QED BY <3>2, <3>3
  <2>6. Done(n)' \subseteq Times(n) /\ Done(n) \subseteq Times(n)
    BY <1>6 DEF Done
  <2> QED BY <2>5, <2>6
<1>10. FilesWhole'
  BY <1>1, <1>5, <1>9, FilesStay
<1> QED BY <1>4, <1>7, <1>8, <1>10, QuietKeeps DEF IInv

\* Only the run goes on, to a place where it reads no file and writes none.
LEMMA GoesOnKeeps ==
    ASSUME IInv, NEW r \in Runs, NEW where, pc' = [pc EXCEPT ![r] = where],
           UNCHANGED <<dir, data, todo, fd, got, job, trouble>>,
           \/ where = "done" /\ pc[r] = "next" /\ todo[r] = {}
           \/ where = "killed" /\ pc[r] \in {"next", "read", "write", "mv"}
    PROVE  IInv'
<1>1. CType
  BY DEF IInv
<1>2. pc'[r] = where /\ \A q \in Runs \ {r} : pc'[q] = pc[q]
  BY <1>1 DEF CType
<1>3. Quiet
  BY <1>2 DEF Quiet, Busy
<1>4. Safe' \subseteq Safe
  BY SafeShrinks
<1>5. Runs' = Runs /\ \A q : Possible(q)' = Possible(q)
  BY JobStays
<1>6. CType'
  <2>1. pc' \in [Runs -> {"ls", "next", "read", "write", "mv", "done", "killed"}]
    BY <1>1 DEF CType
  <2>2. \A q \in Runs : /\ pc'[q] \in {"read", "write", "mv"} => Busy(q)
                        /\ pc'[q] = "done" => todo[q] = {}
    BY <1>1, <1>2 DEF CType, Busy
  <2> QED BY <1>1, <1>5, <2>1, <2>2 DEF CType, Busy
<1>7. InProgress'
  <2>1. SUFFICES ASSUME NEW q \in Runs, Busy(q)', file(q)' \in Safe' PROVE Progress(q)'
    BY <1>5 DEF InProgress
  <2>2. q # r /\ Busy(q) /\ pc'[q] = pc[q]
    BY <1>2, <2>1 DEF Busy
  <2>3. file(q)' = file(q)
    BY FileStays
  <2>4. Progress(q)
    BY <1>4, <2>1, <2>2, <2>3 DEF IInv, InProgress
  <2> QED BY <2>2, <2>4, ProgressStays
<1>8. \A n : Done(n)' = Done(n)
  <2>1. \A q \in Runs : todo'[q] = todo[q] /\ (pc'[q] = "ls" <=> pc[q] = "ls")
    BY <1>2
  <2> QED BY <2>1, DoneStays
<1>9. FilesWhole'
  BY <1>4, <1>8, FilesStay
<1> QED BY <1>3, <1>6, <1>7, <1>9, QuietKeeps DEF IInv

LEMMA EndKeeps == ASSUME IInv, NEW r \in Runs, End(r) PROVE IInv'
BY GoesOnKeeps DEF End

LEMMA KillKeeps == ASSUME IInv, NEW r \in Runs, Kill(r) PROVE IInv'
BY GoesOnKeeps DEF Kill

LEMMA ReadKeeps == ASSUME IInv, NEW r \in Runs, Read(r) PROVE IInv'
<1>1. /\ pc[r] = "read" /\ pc' = [pc EXCEPT ![r] = "write"]
      /\ got' = [got EXCEPT ![r] = IF file(r) \in DOMAIN dir THEN Converted(data[dir[file(r)]]) ELSE EMPTY]
      /\ UNCHANGED <<dir, data, todo, fd, job, trouble>>
  BY DEF Read
<1>2. CType
  BY DEF IInv
<1>3. pc'[r] = "write" /\ \A q \in Runs \ {r} : pc'[q] = pc[q] /\ got'[q] = got[q]
  BY <1>1, <1>2 DEF CType
<1>4. Quiet
  BY <1>1, <1>3 DEF Quiet, Busy
<1>5. Safe' \subseteq Safe
  BY <1>1, SafeShrinks
<1>6. Runs' = Runs /\ \A q : Possible(q)' = Possible(q)
  BY <1>1, JobStays
<1>7. CType'
  <2>1. /\ pc' \in [Runs -> {"ls", "next", "read", "write", "mv", "done", "killed"}]
        /\ DOMAIN got' = Runs /\ got' = [q \in Runs |-> got'[q]]
    BY <1>1, <1>2 DEF CType
  <2>2. \A q \in Runs : /\ pc'[q] \in {"read", "write", "mv"} => Busy(q)
                        /\ pc'[q] = "done" => todo[q] = {}
    BY <1>1, <1>2, <1>3 DEF CType, Busy
  <2> QED BY <1>1, <1>2, <1>6, <2>1, <2>2 DEF CType, Busy
<1>8. InProgress'
  <2>1. SUFFICES ASSUME NEW q \in Runs, Busy(q)', file(q)' \in Safe' PROVE Progress(q)'
    BY <1>6 DEF InProgress
  <2>2. Busy(q) /\ file(q)' = file(q)
    BY <1>1, <1>3, <2>1, FileStays DEF Busy
  <2>3. Progress(q) /\ file(q) \in DOMAIN dir
    BY <1>5, <2>1, <2>2 DEF IInv, InProgress, FilesWhole
  <2>4. CASE q # r
    BY <1>1, <1>3, <2>3, <2>4, ProgressStays
  <2>5. CASE q = r
    <3>1. got'[q] = Converted(data[dir[file(q)]])
      BY <1>1, <1>2, <2>3, <2>5 DEF CType
    <3>2. data[fd[q]] = EMPTY /\ Temps[file(q)] \in DOMAIN dir /\ dir[Temps[file(q)]] = fd[q]
      BY <1>1, <2>3, <2>5 DEF Progress
    <3>3. \A f : Converted(f)' = Converted(f)
      BY <1>1, JobStays
    <3> QED BY <1>1, <1>3, <2>2, <2>5, <3>1, <3>2, <3>3 DEF Progress, EMPTY
  <2> QED BY <2>4, <2>5
<1>9. \A n : Done(n)' = Done(n)
  <2>1. \A q \in Runs : todo'[q] = todo[q] /\ (pc'[q] = "ls" <=> pc[q] = "ls")
    BY <1>1, <1>3
  <2> QED BY <1>1, <2>1, DoneStays
<1>10. FilesWhole'
  BY <1>1, <1>5, <1>9, FilesStay
<1> QED BY <1>4, <1>7, <1>8, <1>10, QuietKeeps DEF IInv

-----------------------------------------------------------------------------
(* What is written, and what is begun *)

\* Of two runs that hold the same file it is known.
LEMMA WritesApart ==
    ASSUME IInv, NEW q \in Runs, NEW r \in Runs, q # r, Busy(q), Busy(r),
           file(q) \in Safe, Progress(q)
    PROVE  fd[q] # fd[r]
<1> SUFFICES ASSUME fd[q] = fd[r] PROVE FALSE
  OBVIOUS
<1>1. Temps[file(q)] \in DOMAIN dir /\ dir[Temps[file(q)]] = fd[r]
  BY DEF Progress
<1>2. Temps[file(q)] \in At(q) /\ Temps[file(q)] \in At(r)
  BY <1>1 DEF At, Busy
<1>3. file(q) \in trouble
  BY <1>2 DEF IInv, Apart
<1> QED BY <1>3 DEF Safe

\* What is not safe may be anything afterwards.
LEMMA WriteKeeps ==
    ASSUME IInv, NEW r \in Runs, pc[r] = "write", NEW x,
           data' = [data EXCEPT ![fd[r]] = x], pc' = [pc EXCEPT ![r] = "mv"],
           UNCHANGED <<dir, todo, fd, got, job>>, trouble \subseteq trouble',
           file(r) \in Safe' => x = got[r]
    PROVE  IInv'
<1>1. CType
  BY DEF IInv
<1>2. pc'[r] = "mv" /\ \A q \in Runs \ {r} : pc'[q] = pc[q]
  BY <1>1 DEF CType
<1>3. fd[r] \in 1..Len(data) /\ todo[r] # {} /\ Busy(r)
  BY <1>1 DEF CType, Busy
<1>4. /\ Len(data') = Len(data) /\ \E S : data' \in Seq(S)
      /\ data'[fd[r]] = x /\ \A k \in 1..Len(data) : k # fd[r] => data'[k] = data[k]
  <2>1. PICK S : data \in Seq(S)
    BY <1>1 DEF CType
  <2>2. PICK T : T = S \cup {x}
    OBVIOUS
  <2>3. data \in Seq(T)
    BY <2>1, <2>2
  <2>4. data' \in Seq(T) /\ Len(data') = Len(data)
    BY <1>3, <2>2, <2>3
  <2> QED BY <1>3, <2>1, <2>4
<1>5. Quiet
  BY <1>2 DEF Quiet, Busy
<1>6. Safe' \subseteq Safe
  BY SafeShrinks
<1>7. Runs' = Runs /\ (\A q : Possible(q)' = Possible(q)) /\ \A f : Converted(f)' = Converted(f)
  BY JobStays
<1>8. CType'
  <2>1. pc' \in [Runs -> {"ls", "next", "read", "write", "mv", "done", "killed"}]
    BY <1>1 DEF CType
  <2>2. \A q \in Runs : Busy(q)' => Busy(q)
    BY <1>2 DEF Busy
  <2>3. \A q \in Runs' : /\ todo'[q] \subseteq Possible(q)'
                         /\ Busy(q)' => todo'[q] # {} /\ fd'[q] \in 1..Len(data')
                         /\ pc'[q] = "done" => todo'[q] = {}
    BY <1>1, <1>2, <1>4, <1>7, <2>2 DEF CType
  <2>4. /\ DOMAIN fd' = Runs' /\ fd' = [q \in Runs' |-> fd'[q]]
        /\ DOMAIN got' = Runs' /\ got' = [q \in Runs' |-> got'[q]]
        /\ DOMAIN todo' = Runs' /\ todo' = [q \in Runs' |-> todo'[q]]
    BY <1>1, <1>7 DEF CType
  <2>5. /\ job' \in Jobs /\ dir' = [n \in DOMAIN dir' |-> dir'[n]]
        /\ \A n \in DOMAIN dir' : dir'[n] \in 1..Len(data')
        /\ \A m, n \in DOMAIN dir' : dir'[m] = dir'[n] => m = n
    BY <1>1, <1>4 DEF CType
  <2> QED BY <1>4, <1>7, <2>1, <2>3, <2>4, <2>5 DEF CType
<1>9. ASSUME NEW n \in Safe'
      PROVE  n \in DOMAIN dir /\ dir[n] \in 1..Len(data) /\ dir[n] # fd[r] /\ data'[dir[n]] = data[dir[n]]
  <2>1. n \in DOMAIN dir
    BY <1>6 DEF IInv, FilesWhole
  <2>2. dir[n] \in 1..Len(data)
    BY <1>1, <2>1 DEF CType
  <2>3. n \notin trouble /\ n # Temps[file(r)]
    BY <1>1, <1>3, <1>6, SafeFacts
  <2>4. dir[n] # fd[r]
    BY <2>1, <2>3 DEF IInv, OpenIsTemp
  <2> QED BY <1>4, <2>1, <2>2, <2>4
<1>10. InProgress'
  <2>1. SUFFICES ASSUME NEW q \in Runs, Busy(q)', file(q)' \in Safe' PROVE Progress(q)'
    BY <1>7 DEF InProgress
  <2>2. Busy(q) /\ file(q)' = file(q)
    BY <1>2, <1>3, <2>1, FileStays DEF Busy
  <2>3. Progress(q) /\ file(q) \in Safe /\ file(q) \in Safe'
    BY <1>6, <2>1, <2>2 DEF IInv, InProgress
  <2>4. data'[dir[file(q)]] = data[dir[file(q)]]
    BY <1>9, <2>3
  <2>5. CASE q # r
    <3>1. fd[q] # fd[r] /\ fd[q] \in 1..Len(data)
      BY <1>1, <1>3, <2>2, <2>3, <2>5, WritesApart DEF CType
    <3>2. data'[fd[q]] = data[fd[q]] /\ pc'[q] = pc[q]
      BY <1>2, <1>4, <2>5, <3>1
    <3> QED BY <1>7, <2>2, <2>3, <2>4, <3>2 DEF Progress, EMPTY
  <2>6. CASE q = r
    <3>1. data'[fd[q]] = Converted(data[dir[file(q)]])
      BY <1>4, <2>3, <2>6 DEF Progress
    <3>2. Temps[file(q)] \in DOMAIN dir /\ dir[Temps[file(q)]] = fd[q]
      BY <2>3 DEF Progress
    <3> QED BY <1>2, <1>7, <2>2, <2>4, <2>6, <3>1, <3>2 DEF Progress
  <2> QED BY <2>5, <2>6
<1>11. \A n : Done(n)' = Done(n)
  <2>1. \A q \in Runs : todo'[q] = todo[q] /\ (pc'[q] = "ls" <=> pc[q] = "ls")
    BY <1>2
  <2> QED BY <2>1, DoneStays
<1>12. FilesWhole'
  BY <1>6, <1>9, <1>11, FilesStay
<1> QED BY <1>5, <1>8, <1>10, <1>12, QuietKeeps DEF IInv

LEMMA WriteWholeKeeps == ASSUME IInv, NEW r \in Runs, WriteWhole(r) PROVE IInv'
<1>1. /\ pc[r] = "write" /\ data' = [data EXCEPT ![fd[r]] = Over(data[fd[r]], got[r])]
      /\ pc' = [pc EXCEPT ![r] = "mv"] /\ UNCHANGED <<dir, todo, fd, got, job, trouble>>
  BY DEF WriteWhole
<1>2. ASSUME file(r) \in Safe' PROVE Over(data[fd[r]], got[r]) = got[r]
  <2>1. file(r) \in Safe
    BY <1>1, <1>2, SafeShrinks
  <2>2. Progress(r)
    BY <1>1, <2>1 DEF IInv, InProgress, Busy
  <2>3. data[fd[r]] = EMPTY
    BY <1>1, <2>2 DEF Progress
  <2> QED BY <2>3 DEF Over, EMPTY
<1>3. trouble \subseteq trouble'
  BY <1>1
<1>4. PICK x : x = Over(data[fd[r]], got[r])
  OBVIOUS
<1>5. data' = [data EXCEPT ![fd[r]] = x] /\ (file(r) \in Safe' => x = got[r])
  BY <1>1, <1>2, <1>4
<1> QED BY <1>1, <1>3, <1>5, WriteKeeps

LEMMA WritePartKeeps == ASSUME IInv, NEW r \in Runs, WritePart(r) PROVE IInv'
<1>1. /\ pc[r] = "write" /\ trouble' = trouble \cup {file(r)}
      /\ pc' = [pc EXCEPT ![r] = "mv"] /\ UNCHANGED <<dir, todo, fd, got, job>>
  BY DEF WritePart
<1>2. PICK x : data' = [data EXCEPT ![fd[r]] = x]
  BY DEF WritePart
<1>3. file(r) \notin Safe'
  BY <1>1 DEF Safe
<1>4. trouble \subseteq trouble'
  BY <1>1
<1> QED BY <1>1, <1>2, <1>3, <1>4, WriteKeeps

LEMMA RedirectKeeps == ASSUME IInv, NEW r \in Runs, Redirect(r) PROVE IInv'
<1>1. PICK n, t : n = file(r) /\ t = Temps[n]
  OBVIOUS
<1>2. /\ pc[r] = "next" /\ todo[r] # {} /\ pc' = [pc EXCEPT ![r] = "read"]
      /\ UNCHANGED <<todo, got, job>>
      /\ trouble' = trouble \cup UNION {{n, file(q)} :
                      q \in {q \in Runs \ {r} : At(q) \cap {n, t} # {}}}
  BY <1>1 DEF Redirect
<1>3. CType
  BY DEF IInv
<1>4. pc'[r] = "read" /\ \A q \in Runs \ {r} : pc'[q] = pc[q]
  BY <1>2, <1>3 DEF CType
<1>5. PICK L \in Nat : L = Len(data) /\ DOMAIN data = 1..L
  BY <1>3 DEF CType
<1>6. PICK k : k = IF t \in DOMAIN dir THEN dir[t] ELSE L + 1
  OBVIOUS
<1>7. /\ fd' = [fd EXCEPT ![r] = k]
      /\ DOMAIN dir' = DOMAIN dir \cup {t} /\ dir' = [m \in DOMAIN dir' |-> dir'[m]]
      /\ dir'[t] = k /\ \A m \in DOMAIN dir : dir'[m] = dir[m]
      /\ \A m \in DOMAIN dir : dir[m] = k => m = t
  <2>1. CASE t \in DOMAIN dir
    <3>1. fd' = [fd EXCEPT ![r] = dir[t]] /\ dir' = dir
      BY <1>1, <2>1 DEF Redirect, Output
    <3>2. dir = [m \in DOMAIN dir |-> dir[m]] /\ \A m \in DOMAIN dir : dir[m] = dir[t] => m = t
      BY <1>3, <2>1 DEF CType
    <3>3. DOMAIN dir = DOMAIN dir \cup {t} /\ dir[t] = k
      BY <1>6, <2>1
    <3> QED BY <3>1, <3>2, <3>3
  <2>2. CASE t \notin DOMAIN dir
    <3>1. /\ fd' = [fd EXCEPT ![r] = L + 1]
          /\ dir' = [m \in DOMAIN dir \cup {t} |-> IF m = t THEN L + 1 ELSE dir[m]]
      BY <1>1, <1>5, <2>2 DEF Redirect, Output
    <3>2. \A m \in DOMAIN dir : dir[m] # L + 1
      BY <1>3, <1>5 DEF CType
    <3> QED BY <1>6, <2>2, <3>1, <3>2
  <2> QED BY <2>1, <2>2
<1>8. /\ \E S : data' \in Seq(S) /\ L <= Len(data') /\ k \in 1..Len(data') /\ data'[k] = EMPTY
      /\ \A j \in 1..L : j # k => data'[j] = data[j]
  <2>1. PICK S : data \in Seq(S)
    BY <1>3 DEF CType
  <2>2. PICK T : T = S \cup {EMPTY}
    OBVIOUS
  <2>3. data \in Seq(T) /\ EMPTY \in T
    BY <2>1, <2>2
  <2>4. CASE t \in DOMAIN dir
    <3>1. data' = [data EXCEPT ![k] = EMPTY] /\ k \in 1..L
      BY <1>1, <1>3, <1>5, <1>6, <2>4 DEF Redirect, Output, CType
    <3>2. data' \in Seq(T) /\ Len(data') = L
      BY <1>5, <2>3, <3>1
    <3>3. data'[k] = EMPTY /\ \A j \in 1..L : j # k => data'[j] = data[j]
      BY <1>5, <3>1
    <3> QED BY <3>1, <3>2, <3>3
  <2>5. CASE t \notin DOMAIN dir
    <3>1. data' = Append(data, EMPTY) /\ k = L + 1
      BY <1>1, <1>6, <2>5 DEF Redirect, Output
    <3>2. data' \in Seq(T) /\ Len(data') = L + 1
      BY <1>5, <2>3, <3>1
    <3>3. data'[L + 1] = EMPTY /\ \A j \in 1..L : data'[j] = data[j]
      BY <1>5, <2>3, <3>1
    <3> QED BY <3>1, <3>2, <3>3
  <2> QED BY <2>4, <2>5
<1>9. trouble \subseteq trouble' /\ Safe' \subseteq Safe
  BY <1>2, SafeShrinks
<1>10. /\ Runs' = Runs /\ (\A q : Possible(q)' = Possible(q)) /\ (\A m : Times(m)' = Times(m))
       /\ \A f : Converted(f)' = Converted(f)
  BY <1>2, JobStays
<1>11. \A q : file(q)' = file(q)
  BY <1>2, FileStays
<1>12. fd'[r] = k /\ \A q \in Runs \ {r} : fd'[q] = fd[q]
  BY <1>3, <1>7 DEF CType
<1>13. \A q \in Runs \ {r} : Busy(q)' => Busy(q) /\ fd[q] \in 1..L /\ fd[q] # L + 1
  BY <1>3, <1>4, <1>5 DEF CType, Busy
<1>14. ASSUME NEW q \in Runs \ {r}, Busy(q)', NEW m \in DOMAIN dir', dir'[m] = fd'[q]
       PROVE  m \in DOMAIN dir /\ dir[m] = fd[q]
  <2>1. fd'[q] = fd[q] /\ fd[q] # L + 1
    BY <1>12, <1>13, <1>14
  <2> QED BY <1>6, <1>7, <1>14, <2>1
<1>15. \A q \in Runs : At(q)' \subseteq IF q = r THEN {n, t} ELSE At(q)
  <2>1. SUFFICES ASSUME NEW q \in Runs, NEW m \in At(q)'
                 PROVE  m \in IF q = r THEN {n, t} ELSE At(q)
    OBVIOUS
  <2>2. /\ Busy(q)'
        /\ m \in {file(q), Temps[file(q)]} \/ (m \in DOMAIN dir' /\ dir'[m] = fd'[q])
    BY <1>11, <2>1 DEF At, Busy
  <2>3. CASE q = r
    <3>1. m \in {n, t} \/ m \in DOMAIN dir
      BY <1>1, <1>7, <2>2, <2>3
    <3> QED BY <1>1, <1>7, <1>12, <2>2, <2>3, <3>1
  <2>4. CASE q # r
    <3>1. Busy(q)
      BY <1>13, <2>2, <2>4
    <3>2. m \in {file(q), Temps[file(q)]} \/ (m \in DOMAIN dir /\ dir[m] = fd[q])
      BY <1>14, <2>2, <2>4
    <3> QED BY <2>4, <3>1, <3>2 DEF At, Busy
  <2> QED BY <2>3, <2>4
<1>16. \A q \in Runs \ {r} : At(q) \cap {n, t} # {} => n \in trouble' /\ file(q) \in trouble'
  BY <1>2
<1>17. Apart'
  <2>1. SUFFICES ASSUME NEW q \in Runs, NEW s \in Runs, q # s, At(q)' \cap At(s)' # {}
                 PROVE  file(q) \in trouble' /\ file(s) \in trouble'
    BY <1>10, <1>11 DEF Apart
  <2>2. CASE q = r
    BY <1>1, <1>15, <1>16, <2>1, <2>2
  <2>3. CASE s = r
    BY <1>1, <1>15, <1>16, <2>1, <2>3
  <2>4. CASE q # r /\ s # r
    <3>1. At(q) \cap At(s) # {}
      BY <1>15, <2>1, <2>4
    <3> QED BY <1>9, <2>1, <3>1 DEF IInv, Apart
  <2> QED BY <2>2, <2>3, <2>4
<1>18. OpenIsTemp'
  <2>1. SUFFICES ASSUME NEW q \in Runs, pc'[q] \in {"read", "write"},
                        NEW m \in DOMAIN dir', dir'[m] = fd'[q]
                 PROVE  m = Temps[file(q)] \/ m \in trouble'
    BY <1>10, <1>11 DEF OpenIsTemp
  <2>2. CASE q = r
    BY <1>1, <1>7, <1>12, <2>1, <2>2
  <2>3. CASE q # r
    <3>1. m \in DOMAIN dir /\ dir[m] = fd[q] /\ pc[q] \in {"read", "write"}
      BY <1>4, <1>14, <2>1, <2>3 DEF Busy
    <3> QED BY <1>9, <3>1 DEF IInv, OpenIsTemp
  <2> QED BY <2>2, <2>3
<1>19. NamesKnown'
  <2>1. SUFFICES ASSUME NEW m \in DOMAIN dir' PROVE Origin(m)'
    BY DEF NamesKnown
  <2>2. CASE m = t
    BY <1>1, <1>2, <1>4, <1>10, <1>11, <2>2 DEF Origin
  <2>3. CASE m \in DOMAIN dir
    <3>1. Origin(m)
      BY <2>3 DEF IInv, NamesKnown
    <3>2. CASE m \in DOMAIN job.files \/ (m \in DOMAIN Temps /\ Times(m) # {})
      BY <1>2, <1>10, <3>2 DEF Origin
    <3>3. CASE \E s \in Runs : /\ pc[s] \in {"read", "write", "mv", "killed"}
                               /\ todo[s] # {} /\ m = Temps[file(s)]
      <4>1. PICK s \in Runs : /\ pc[s] \in {"read", "write", "mv", "killed"}
                              /\ todo[s] # {} /\ m = Temps[file(s)]
        BY <3>3
      <4>2. pc'[s] \in {"read", "write", "mv", "killed"} /\ todo'[s] = todo[s]
        BY <1>2, <1>4, <4>1
      <4> QED BY <1>10, <1>11, <4>1, <4>2 DEF Origin
    <3> QED BY <3>1, <3>2, <3>3 DEF Origin
  <2> QED BY <1>7, <2>2, <2>3
<1>20. ASSUME NEW m \in Safe'
       PROVE  /\ m \in DOMAIN dir /\ m \in DOMAIN dir' /\ dir'[m] = dir[m] /\ dir[m] \in 1..L
              /\ dir[m] # k /\ data'[dir[m]] = data[dir[m]]
  <2>1. m \in DOMAIN dir
    BY <1>9 DEF IInv, FilesWhole
  <2>2. m # t
    BY <1>1, <1>2, <1>3, <1>9, SafeFacts
  <2>3. dir[m] \in 1..L /\ dir[m] # k
    BY <1>3, <1>5, <1>7, <2>1, <2>2 DEF CType
  <2> QED BY <1>7, <1>8, <2>1, <2>3
<1>21. InProgress'
  <2>1. SUFFICES ASSUME NEW q \in Runs, Busy(q)', file(q) \in Safe' PROVE Progress(q)'
    BY <1>10, <1>11 DEF InProgress
  <2>2. CASE q = r
    <3>1. Temps[file(q)] \in DOMAIN dir' /\ dir'[Temps[file(q)]] = fd'[q] /\ data'[fd'[q]] = EMPTY
      BY <1>1, <1>7, <1>8, <1>12, <2>2
    <3> QED BY <1>4, <1>11, <2>2, <3>1 DEF Progress, EMPTY
  <2>3. CASE q # r
    <3>1. Busy(q) /\ pc'[q] = pc[q] /\ fd'[q] = fd[q] /\ fd[q] \in 1..L
      BY <1>4, <1>12, <1>13, <2>1, <2>3
    <3>2. Progress(q)
      BY <1>9, <2>1, <3>1 DEF IInv, InProgress
    <3>3. Temps[file(q)] \in DOMAIN dir /\ dir[Temps[file(q)]] = fd[q]
      BY <3>2 DEF Progress
    <3>4. fd[q] # k
      <4>1. Temps[file(q)] \in At(q)
        BY <3>1 DEF At, Busy
      <4>2. Temps[file(q)] # t
        BY <1>16, <2>1, <2>3, <4>1 DEF Safe
      <4> QED BY <1>7, <3>3, <4>2
    <3>5. data'[fd[q]] = data[fd[q]]
      BY <1>8, <3>1, <3>4
    <3>6. dir'[file(q)] = dir[file(q)] /\ data'[dir[file(q)]] = data[dir[file(q)]]
      BY <1>20, <2>1
    <3>7. Temps[file(q)] \in DOMAIN dir' /\ dir'[Temps[file(q)]] = fd[q] /\ got'[q] = got[q]
      BY <1>2, <1>7, <3>3
    <3> QED BY <1>10, <1>11, <3>1, <3>2, <3>5, <3>6, <3>7 DEF Progress, EMPTY
  <2> QED BY <2>2, <2>3
<1>22. \A m : Done(m)' = Done(m)
  <2>1. \A q \in Runs : todo'[q] = todo[q] /\ (pc'[q] = "ls" <=> pc[q] = "ls")
    BY <1>2, <1>4
  <2> QED BY <1>2, <2>1, DoneStays
<1>23. FilesWhole'
  BY <1>2, <1>9, <1>20, <1>22, FilesStay
<1>24. CType'
  <2>1. pc' \in [Runs -> {"ls", "next", "read", "write", "mv", "done", "killed"}]
    BY <1>2, <1>3 DEF CType
  <2>2. \A q \in Runs : Busy(q)' => todo[q] # {} /\ fd'[q] \in 1..Len(data')
    <3>1. SUFFICES ASSUME NEW q \in Runs, Busy(q)' PROVE todo[q] # {} /\ fd'[q] \in 1..Len(data')
      OBVIOUS
    <3>2. CASE q = r
      BY <1>2, <1>8, <1>12, <3>2
    <3>3. CASE q # r
      <4>1. Busy(q) /\ fd'[q] \in 1..L
        BY <1>12, <1>13, <3>1, <3>3
      <4>2. PICK M \in Nat : M = Len(data') /\ L <= M
        BY <1>8
      <4> QED BY <1>3, <4>1, <4>2 DEF CType
    <3> QED BY <3>2, <3>3
  <2>3. \A q \in Runs' : /\ todo'[q] \subseteq Possible(q)'
                         /\ Busy(q)' => todo'[q] # {} /\ fd'[q] \in 1..Len(data')
                         /\ pc'[q] = "done" => todo'[q] = {}
    BY <1>2, <1>3, <1>4, <1>10, <2>2 DEF CType
  <2>4. /\ DOMAIN fd' = Runs' /\ fd' = [q \in Runs' |-> fd'[q]]
        /\ DOMAIN got' = Runs' /\ got' = [q \in Runs' |-> got'[q]]
        /\ DOMAIN todo' = Runs' /\ todo' = [q \in Runs' |-> todo'[q]]
    BY <1>2, <1>3, <1>7, <1>10 DEF CType
  <2>5. \A m \in DOMAIN dir' : dir'[m] \in 1..Len(data')
    <3>1. PICK M \in Nat : M = Len(data') /\ L <= M
      BY <1>8
    <3>2. \A m \in DOMAIN dir : dir[m] \in 1..L
      BY <1>3, <1>5 DEF CType
    <3> QED BY <1>7, <1>8, <3>1, <3>2
  <2>6. \A l, m \in DOMAIN dir' : dir'[l] = dir'[m] => l = m
    <3>1. \A l, m \in DOMAIN dir : dir[l] = dir[m] => l = m
      BY <1>3 DEF CType
    <3> QED BY <1>7, <3>1
  <2> QED BY <1>2, <1>3, <1>7, <1>8, <1>10, <2>1, <2>3, <2>4, <2>5, <2>6 DEF CType
<1> QED BY <1>17, <1>18, <1>19, <1>21, <1>23, <1>24 DEF IInv

\* The name of the temporary file is gone afterwards.
LEMMA MoveKeeps == ASSUME IInv, NEW r \in Runs, Move(r) PROVE IInv'
<1>1. PICK n, t : n = file(r) /\ t = Temps[n]
  OBVIOUS
<1>2. PICK e : e = Entry(r)
  OBVIOUS
<1>3. /\ pc[r] = "mv" /\ pc' = [pc EXCEPT ![r] = "next"]
      /\ todo' = [todo EXCEPT ![r] = todo[r] \ {e}]
      /\ UNCHANGED <<data, fd, got, job, trouble>>
      /\ dir' = IF t \in DOMAIN dir
                THEN [m \in (DOMAIN dir \cup {n}) \ {t} |-> IF m = n THEN dir[t] ELSE dir[m]]
                ELSE dir
  BY <1>1, <1>2 DEF Move
<1>4. CType
  BY DEF IInv
<1>5. /\ pc'[r] = "next" /\ todo'[r] = todo[r] \ {e}
      /\ \A q \in Runs \ {r} : pc'[q] = pc[q] /\ todo'[q] = todo[q]
  BY <1>3, <1>4 DEF CType
<1>6. /\ todo[r] # {} /\ e \in todo[r] /\ e = <<e[1], n>> /\ n # t
      /\ n \in DOMAIN Temps /\ <<r, e[1]>> \in Times(n)
  <2>1. todo[r] # {}
    BY <1>3, <1>4 DEF CType, Busy
  <2> QED BY <1>1, <1>2, <1>4, <2>1, EntryFacts
<1>7. /\ \A m \in DOMAIN dir' : m # t
      /\ \A m \in DOMAIN dir' : m # n \/ t \notin DOMAIN dir => m \in DOMAIN dir /\ dir'[m] = dir[m]
      /\ \A m \in DOMAIN dir : m # t /\ m # n => m \in DOMAIN dir' /\ dir'[m] = dir[m]
      /\ t \in DOMAIN dir => n \in DOMAIN dir' /\ dir'[n] = dir[t]
      /\ dir' = [m \in DOMAIN dir' |-> dir'[m]]
  <2>1. CASE t \in DOMAIN dir
    <3>1. dir' = [m \in (DOMAIN dir \cup {n}) \ {t} |-> IF m = n THEN dir[t] ELSE dir[m]]
      BY <1>3, <2>1
    <3> QED BY <1>6, <2>1, <3>1
  <2>2. CASE t \notin DOMAIN dir
    <3>1. dir' = dir /\ dir = [m \in DOMAIN dir |-> dir[m]]
      BY <1>3, <1>4, <2>2 DEF CType
    <3> QED BY <2>2, <3>1
  <2> QED BY <2>1, <2>2
<1>8. Safe' \subseteq Safe
  BY <1>3, SafeShrinks
<1>9. /\ Runs' = Runs /\ (\A q : Possible(q)' = Possible(q)) /\ (\A m : Times(m)' = Times(m))
      /\ (\A f : Converted(f)' = Converted(f))
      /\ \A f, k : ConvertedTimes(f, k)' = ConvertedTimes(f, k)
  BY <1>3, JobStays
<1>10. \A q \in Runs \ {r} : file(q)' = file(q)
  BY <1>5, FileStays
<1>11. ~Busy(r)' /\ \A q \in Runs \ {r} : Busy(q)' => Busy(q)
  BY <1>5 DEF Busy
<1>12. \A q \in Runs \ {r} : n \in At(q) \/ t \in At(q) => n \in trouble /\ file(q) \in trouble
  <2>1. n \in At(r) /\ t \in At(r)
    BY <1>1, <1>3 DEF At
  <2> QED BY <1>1, <2>1 DEF IInv, Apart
<1>13. ASSUME NEW q \in Runs \ {r}, Busy(q)', NEW m \in DOMAIN dir', dir'[m] = fd'[q]
       PROVE  (m \in DOMAIN dir /\ dir[m] = fd[q]) \/ (m = n /\ n \in trouble /\ file(q) \in trouble)
  <2>1. CASE m # n \/ t \notin DOMAIN dir
    BY <1>3, <1>7, <1>13, <2>1
  <2>2. CASE m = n /\ t \in DOMAIN dir
    <3>1. dir[t] = fd[q]
      BY <1>3, <1>7, <1>13, <2>2
    <3>2. t \in At(q)
      BY <1>11, <1>13, <2>2, <3>1 DEF At, Busy
    <3> QED BY <1>12, <2>2, <3>2
  <2> QED BY <2>1, <2>2
<1>14. ASSUME NEW q \in Runs, NEW m \in At(q)'
       PROVE  q # r /\ IF m = n THEN file(q) \in trouble ELSE m \in At(q)
  <2>1. /\ Busy(q)'
        /\ m \in {file(q)', Temps[file(q)']} \/ (m \in DOMAIN dir' /\ dir'[m] = fd'[q])
    BY <1>14 DEF At, Busy
  <2>2. q # r /\ Busy(q) /\ file(q)' = file(q)
    BY <1>10, <1>11, <2>1
  <2>3. m \in At(q) \/ (m = n /\ file(q) \in trouble)
    <3>1. \/ m \in {file(q), Temps[file(q)]}
          \/ m \in DOMAIN dir /\ dir[m] = fd[q]
          \/ m = n /\ file(q) \in trouble
      BY <1>13, <2>1, <2>2
    <3> QED BY <2>2, <3>1 DEF At, Busy
  <2> QED BY <1>12, <2>2, <2>3
<1>15. Apart'
  <2>1. SUFFICES ASSUME NEW q \in Runs, NEW s \in Runs, q # s,
                        NEW m \in At(q)', m \in At(s)'
                 PROVE  file(q)' \in trouble' /\ file(s)' \in trouble'
    BY <1>9 DEF Apart
  <2>2. file(q) \in trouble /\ file(s) \in trouble
    <3>1. CASE m = n
      BY <1>14, <2>1, <3>1
    <3>2. CASE m # n
      <4>1. m \in At(q) /\ m \in At(s)
        BY <1>14, <2>1, <3>2
      <4> QED BY <2>1, <4>1 DEF IInv, Apart
    <3> QED BY <3>1, <3>2
  <2>3. q # r /\ s # r
    BY <1>14, <2>1
  <2> QED BY <1>3, <1>10, <2>2, <2>3
<1>16. OpenIsTemp'
  <2>1. SUFFICES ASSUME NEW q \in Runs, pc'[q] \in {"read", "write"},
                        NEW m \in DOMAIN dir', dir'[m] = fd'[q]
                 PROVE  m = Temps[file(q)'] \/ m \in trouble'
    BY <1>9 DEF OpenIsTemp
  <2>2. q # r /\ Busy(q)' /\ pc[q] \in {"read", "write"} /\ file(q)' = file(q)
    BY <1>5, <1>10, <2>1 DEF Busy
  <2>3. (m \in DOMAIN dir /\ dir[m] = fd[q]) \/ m \in trouble
    BY <1>13, <2>1, <2>2
  <2> QED BY <1>3, <2>2, <2>3 DEF IInv, OpenIsTemp
<1>17. NamesKnown'
  <2>1. SUFFICES ASSUME NEW m \in DOMAIN dir' PROVE Origin(m)'
    BY DEF NamesKnown
  <2>2. CASE m = n
    BY <1>6, <1>9, <2>2 DEF Origin
  <2>3. CASE m # n
    <3>1. Origin(m)
      BY <1>7, <2>3 DEF IInv, NamesKnown
    <3>2. CASE m \in DOMAIN job.files \/ (m \in DOMAIN Temps /\ Times(m) # {})
      BY <1>3, <1>9, <3>2 DEF Origin
    <3>3. CASE \E s \in Runs : /\ pc[s] \in {"read", "write", "mv", "killed"}
                               /\ todo[s] # {} /\ m = Temps[file(s)]
      <4>1. PICK s \in Runs : /\ pc[s] \in {"read", "write", "mv", "killed"}
                              /\ todo[s] # {} /\ m = Temps[file(s)]
        BY <3>3
      <4>2. s # r
        BY <1>1, <1>7, <4>1
      <4>3. pc'[s] = pc[s] /\ todo'[s] = todo[s] /\ file(s)' = file(s)
        BY <1>5, <1>10, <4>2
      <4> QED BY <1>9, <4>1, <4>3 DEF Origin
    <3> QED BY <3>1, <3>2, <3>3 DEF Origin
  <2> QED BY <2>2, <2>3
<1>18. InProgress'
  <2>1. SUFFICES ASSUME NEW q \in Runs, Busy(q)', file(q)' \in Safe' PROVE Progress(q)'
    BY <1>9 DEF InProgress
  <2>2. /\ q # r /\ Busy(q) /\ pc'[q] = pc[q] /\ file(q)' = file(q) /\ file(q) \in Safe
    BY <1>5, <1>8, <1>10, <1>11, <2>1
  <2>3. Progress(q) /\ file(q) \in DOMAIN dir /\ file(q) \notin trouble
    BY <2>2 DEF IInv, InProgress, FilesWhole, Safe
  <2>4. Temps[file(q)] \in DOMAIN dir /\ dir[Temps[file(q)]] = fd[q]
    BY <2>3 DEF Progress
  <2>5. file(q) \in At(q) /\ Temps[file(q)] \in At(q)
    BY <2>2 DEF At, Busy
  <2>6. n \notin At(q) /\ t \notin At(q)
    BY <1>12, <2>2, <2>3
  <2>7. dir'[file(q)] = dir[file(q)]
    BY <1>7, <2>3, <2>5, <2>6
  <2>8. Temps[file(q)] \in DOMAIN dir' /\ dir'[Temps[file(q)]] = fd[q]
    BY <1>7, <2>4, <2>5, <2>6
  <2> QED BY <1>3, <1>9, <2>2, <2>3, <2>7, <2>8 DEF Progress, EMPTY
<1>19. \A m \in Safe' : Done(m)' = IF m = n THEN Done(n) \cup {<<r, e[1]>>} ELSE Done(m)
  <2>1. SUFFICES ASSUME NEW m \in Safe'
                 PROVE  Done(m)' = IF m = n THEN Done(n) \cup {<<r, e[1]>>} ELSE Done(m)
    OBVIOUS
  <2>2. ASSUME NEW o \in Times(m)
        PROVE  o \in Done(m)' <=> o \in Done(m) \/ (m = n /\ o = <<r, e[1]>>)
    <3>1. o[1] \in Runs /\ o = <<o[1], o[2]>>
      BY <2>2 DEF Times
    <3>2. pc'[o[1]] = "ls" <=> pc[o[1]] = "ls"
      BY <1>3, <1>5, <3>1
    <3>3. <<o[2], m>> \in todo'[o[1]] <=> <<o[2], m>> \in todo[o[1]] /\ ~(m = n /\ o = <<r, e[1]>>)
      <4>1. CASE o[1] # r
        BY <1>5, <3>1, <4>1
      <4>2. CASE o[1] = r
        <5>1. <<o[2], m>> = e <=> m = n /\ o = <<r, e[1]>>
          BY <1>6, <3>1, <4>2
        <5> QED BY <1>5, <4>2, <5>1
      <4> QED BY <4>1, <4>2
    <3>4. m = n /\ o = <<r, e[1]>> => pc[o[1]] # "ls"
      BY <1>3
    <3>5. o \in Done(m)' <=> pc'[o[1]] # "ls" /\ <<o[2], m>> \notin todo'[o[1]]
      BY <1>9, <2>2 DEF Done
    <3>6. o \in Done(m) <=> pc[o[1]] # "ls" /\ <<o[2], m>> \notin todo[o[1]]
      BY <2>2 DEF Done
    <3> QED BY <3>2, <3>3, <3>4, <3>5, <3>6
  <2>3. Done(m)' \subseteq Times(m) /\ Done(m) \subseteq Times(m)
    BY <1>9 DEF Done
  <2>4. CASE m = n
    <3>1. <<r, e[1]>> \in Times(m)
      BY <1>6, <2>4
    <3> QED BY <2>2, <2>3, <2>4, <3>1
  <2>5. CASE m # n
    BY <2>2, <2>3, <2>5
  <2> QED BY <2>4, <2>5
<1>20. FilesWhole'
  <2>1. SUFFICES ASSUME NEW m \in Safe'
                 PROVE  m \in DOMAIN dir' /\ data'[dir'[m]] = ConvertedTimes(job.files[m], Cardinality(Done(m)))'
    BY DEF FilesWhole
  <2>2. PICK f, k : f = job.files[m] /\ k = Cardinality(Done(m))
    OBVIOUS
  <2>3. m \in DOMAIN dir /\ data[dir[m]] = ConvertedTimes(f, k)
    BY <1>8, <2>1, <2>2 DEF IInv, FilesWhole
  <2>4. m # t
    BY <1>1, <1>4, <1>6, <1>8, <2>1, SafeFacts
  <2>5. CASE m # n
    <3>1. m \in DOMAIN dir' /\ dir'[m] = dir[m]
      BY <1>7, <2>3, <2>4, <2>5
    <3>2. job'.files[m] = f /\ Cardinality(Done(m)') = k
      BY <1>3, <1>19, <2>1, <2>2, <2>5
    <3>3. ConvertedTimes(job.files[m], Cardinality(Done(m)))' = ConvertedTimes(f, k)'
      BY <3>2 DEF ConvertedTimes, Converted
    <3>4. ConvertedTimes(f, k)' = ConvertedTimes(f, k)
      BY <1>9
    <3> QED BY <1>3, <2>3, <3>1, <3>3, <3>4
  <2>6. CASE m = n
    <3>1. Progress(r)
      BY <1>1, <1>3, <1>8, <2>1, <2>6 DEF IInv, InProgress, Busy
    <3>2. t \in DOMAIN dir /\ dir[t] = fd[r] /\ data[fd[r]] = Converted(data[dir[n]])
      BY <1>1, <1>3, <3>1 DEF Progress
    <3>3. n \in DOMAIN dir' /\ data'[dir'[n]] = Converted(ConvertedTimes(f, k))
      BY <1>3, <1>7, <2>3, <2>6, <3>2
    <3>4. IsFiniteSet(Done(n))
      <4>1. IsFiniteSet(Times(n)) /\ Done(n) \subseteq Times(n)
        BY <1>4, JobFacts DEF Done, CType
      <4> QED BY <4>1, FS_Subset
    <3>5. <<r, e[1]>> \notin Done(n)
      <4>1. <<e[1], n>> \in todo[r]
        BY <1>6
      <4> QED BY <4>1 DEF Done
    <3>6. k \in Nat
      BY <2>2, <2>6, <3>4, FS_CardinalityType
    <3>7. Cardinality(Done(n) \cup {<<r, e[1]>>}) = k + 1
      BY <2>2, <2>6, <3>4, <3>5, FS_AddElement
    <3>8. job'.files[m] = f /\ Cardinality(Done(m)') = k + 1
      BY <1>3, <1>19, <2>1, <2>2, <2>6, <3>7
    <3>9. ConvertedTimes(job.files[m], Cardinality(Done(m)))' = ConvertedTimes(f, k + 1)'
      BY <3>8 DEF ConvertedTimes, Converted
    <3>10. ConvertedTimes(f, k + 1)' = ConvertedTimes(f, k + 1)
      BY <1>9
    <3>11. ConvertedTimes(f, k + 1) = Converted(ConvertedTimes(f, k))
      BY <3>6, OnceMore
    <3> QED BY <2>6, <3>3, <3>9, <3>10, <3>11
  <2> QED BY <2>5, <2>6
<1>21. CType'
  <2>1. /\ pc' \in [Runs -> {"ls", "next", "read", "write", "mv", "done", "killed"}]
        /\ DOMAIN todo' = Runs /\ todo' = [q \in Runs |-> todo'[q]]
    BY <1>3, <1>4 DEF CType
  <2>2. \A q \in Runs' : /\ todo'[q] \subseteq Possible(q)'
                         /\ Busy(q)' => todo'[q] # {} /\ fd'[q] \in 1..Len(data')
                         /\ pc'[q] = "done" => todo'[q] = {}
    <3>1. SUFFICES ASSUME NEW q \in Runs
                   PROVE  /\ todo'[q] \subseteq Possible(q)
                          /\ Busy(q)' => todo'[q] # {} /\ fd[q] \in 1..Len(data)
                          /\ pc'[q] = "done" => todo'[q] = {}
      BY <1>3, <1>9
    <3>2. /\ todo[q] \subseteq Possible(q)
          /\ Busy(q) => todo[q] # {} /\ fd[q] \in 1..Len(data)
          /\ pc[q] = "done" => todo[q] = {}
      BY <1>4 DEF CType
    <3> QED BY <1>5, <1>11, <3>2
  <2>3. /\ DOMAIN fd' = Runs' /\ fd' = [q \in Runs' |-> fd'[q]]
        /\ DOMAIN got' = Runs' /\ got' = [q \in Runs' |-> got'[q]]
    BY <1>3, <1>4, <1>9 DEF CType
  <2>4. \A m \in DOMAIN dir' : dir'[m] \in 1..Len(data')
    <3>1. \A m \in DOMAIN dir : dir[m] \in 1..Len(data)
      BY <1>4 DEF CType
    <3> QED BY <1>3, <1>7, <3>1
  <2>5. \A l, m \in DOMAIN dir' : dir'[l] = dir'[m] => l = m
    <3>1. \A l, m \in DOMAIN dir : dir[l] = dir[m] => l = m
      BY <1>4 DEF CType
    <3> QED BY <1>6, <1>7, <3>1
  <2>6. job' \in Jobs /\ \E S : data' \in Seq(S)
    BY <1>3, <1>4 DEF CType
  <2> QED BY <1>7, <1>9, <2>1, <2>2, <2>3, <2>4, <2>5, <2>6 DEF CType
<1> QED BY <1>15, <1>16, <1>17, <1>18, <1>20, <1>21 DEF IInv

-----------------------------------------------------------------------------

LEMMA StutterKeeps == ASSUME IInv, UNCHANGED vars PROVE IInv'
<1>1. UNCHANGED <<dir, data, pc, todo, fd, got, job, trouble>>
  BY DEF vars
<1>2. Quiet
  BY <1>1 DEF Quiet, Busy
<1>3. Runs' = Runs /\ \A q : Possible(q)' = Possible(q)
  BY <1>1, JobStays
<1>4. Safe' \subseteq Safe
  BY <1>1, SafeShrinks
<1>5. CType'
  BY <1>1, <1>3 DEF IInv, CType, Busy
<1>6. InProgress'
  <2>1. SUFFICES ASSUME NEW q \in Runs, Busy(q)', file(q)' \in Safe' PROVE Progress(q)'
    BY <1>3 DEF InProgress
  <2>2. Busy(q) /\ file(q)' = file(q)
    BY <1>1, <2>1, FileStays DEF Busy
  <2>3. Progress(q)
    BY <1>4, <2>1, <2>2 DEF IInv, InProgress
  <2> QED BY <1>1, <2>3, ProgressStays
<1>7. FilesWhole'
  <2>1. \A q \in Runs : todo'[q] = todo[q] /\ (pc'[q] = "ls" <=> pc[q] = "ls")
    BY <1>1
  <2>2. \A n : Done(n)' = Done(n)
    BY <1>1, <2>1, DoneStays
  <2> QED BY <1>1, <1>4, <2>2, FilesStay
<1> QED BY <1>2, <1>5, <1>6, <1>7, QuietKeeps DEF IInv

LEMMA NextKeeps == ASSUME IInv, Next PROVE IInv'
<1>1. PICK r \in Runs : \/ List(r) \/ Redirect(r) \/ Read(r) \/ WriteWhole(r) \/ WritePart(r)
                        \/ Move(r) \/ End(r) \/ Kill(r)
  BY DEF Next
<1>2. CASE List(r)
  BY <1>2, ListKeeps
<1>3. CASE Redirect(r)
  BY <1>3, RedirectKeeps
<1>4. CASE Read(r)
  BY <1>4, ReadKeeps
<1>5. CASE WriteWhole(r)
  BY <1>5, WriteWholeKeeps
<1>6. CASE WritePart(r)
  BY <1>6, WritePartKeeps
<1>7. CASE Move(r)
  BY <1>7, MoveKeeps
<1>8. CASE End(r)
  BY <1>8, EndKeeps
<1>9. CASE Kill(r)
  BY <1>9, KillKeeps
<1> QED BY <1>1, <1>2, <1>3, <1>4, <1>5, <1>6, <1>7, <1>8, <1>9

\* What the runs have in hand, and what is left on their lists, accounts for
\* every file in every state.
THEOREM InvariantHolds == Spec => []IInv
<1>1. IInv /\ [Next]_vars => IInv'
  BY NextKeeps, StutterKeeps
<1> QED BY <1>1, InitIInv, PTL DEF Spec

LEMMA WholeInInvariant == ASSUME IInv PROVE AlwaysWhole
<1>1. SUFFICES ASSUME NEW n \in Safe
               PROVE  /\ n \in DOMAIN dir
                      /\ \E k \in 0..Cardinality(Times(n)) :
                           data[dir[n]] = ConvertedTimes(job.files[n], k)
  BY DEF AlwaysWhole
<1>2. n \in DOMAIN dir /\ data[dir[n]] = ConvertedTimes(job.files[n], Cardinality(Done(n)))
  BY DEF IInv, FilesWhole
<1>3. IsFiniteSet(Times(n)) /\ Done(n) \subseteq Times(n)
  BY JobFacts DEF Done, IInv, CType
<1>4. PICK d \in Nat : d = Cardinality(Done(n))
  BY <1>3, FS_Subset, FS_CardinalityType
<1>5. PICK c \in Nat : c = Cardinality(Times(n))
  BY <1>3, FS_CardinalityType
<1>6. d <= c
  BY <1>3, <1>4, <1>5, FS_Subset
<1>7. d \in 0..c
  BY <1>6
<1> QED BY <1>2, <1>4, <1>5, <1>7

\* dos2unix.sh:5-6, unix2dos.sh:5-6, iso2utf.sh:5-6: whenever a run is killed,
\* of any number of runs over any directory, every file is under its own name,
\* as it was or converted to its end as often as lists have it at most, unless
\* two runs are at the file or awk fails.
THEOREM FilesAreAlwaysWhole == Spec => []AlwaysWhole
BY InvariantHolds, WholeInInvariant, PTL

LEMMA ListedInInvariant == ASSUME IInv PROVE ConvertedAsListed
<1>1. SUFFICES ASSUME \A r \in Runs : pc[r] = "done"
               PROVE  /\ \A n \in Safe : data[dir[n]] = ConvertedTimes(job.files[n], Cardinality(Times(n)))
                      /\ DOMAIN dir \subseteq DOMAIN job.files \cup {n \in DOMAIN Temps : Times(n) # {}}
  BY DEF ConvertedAsListed
<1>2. \A r \in Runs : todo[r] = {}
  BY <1>1 DEF IInv, CType
<1>3. \A n : Done(n) = Times(n)
  BY <1>1, <1>2 DEF Done, Times
<1>4. \A n \in Safe : data[dir[n]] = ConvertedTimes(job.files[n], Cardinality(Times(n)))
  BY <1>3 DEF IInv, FilesWhole
<1>5. \A n \in DOMAIN dir : n \in DOMAIN job.files \/ (n \in DOMAIN Temps /\ Times(n) # {})
  BY <1>2 DEF IInv, NamesKnown, Origin
<1> QED BY <1>4, <1>5

\* dos2unix-pattern.sh:11-13, unix2dos-pattern.sh:11-13: when all runs have ended
\* by themselves, every file was converted once for each pattern of each run
\* that matches it, and no temporary file is left, whatever the directory, the
\* number of the runs and their patterns, but for what two runs were at and awk
\* failed to write.
THEOREM AllIsConvertedAsListed == Spec => []ConvertedAsListed
BY InvariantHolds, ListedInInvariant, PTL
=============================================================================
