------------------------------ MODULE Archives ------------------------------
(***************************************************************************)
(* The tools that pack and unpack archives of the other formats, beside    *)
(* cospkg and cosunpkg, which this module extends: one of the pairs        *)
(* puppack and pupunpack or pkg and unpkg, or norunpack, or ungpkg runs at *)
(* a time.  They share the file system, the working directory and pc.      *)
(***************************************************************************)
EXTENDS CosPkg

CONSTANTS t_names, W, PAGE, INFO, PKG_ALIGN, BLOCK, NAME_MAX,
          PupJobs, PkgJobs, Dumps, Packages

VARIABLES tool,                  \* which one runs
          fs, cwd, archive, mem  \* see the modules of the tools

toolVars == <<fs, cwd, archive, mem>>

P == INSTANCE Pup WITH Jobs <- PupJobs
K == INSTANCE Pkg WITH Jobs <- PkgJobs, ALIGN <- PKG_ALIGN
N == INSTANCE NorUnpack
U == INSTANCE Ungpkg

ASSUME PupAssumption ==
    /\ W \in Nat /\ W > P!Covered(Len(t_names)) /\ PAGE \in Nat /\ P!IsTable
    /\ \A job \in PupJobs : P!IsJob(job)

ASSUME PkgAssumption ==
    /\ INFO \in Nat /\ INFO >= 5 /\ PAGE \in Nat /\ PKG_ALIGN \in Nat \ {0}
    /\ \A job \in PkgJobs : K!IsJob(job)

ASSUME GpkgAssumption ==
    /\ BLOCK \in Nat \ {0}
    /\ \A job \in Packages : U!IsJob(job)

ASSUME NorAssumption == \A job \in Dumps : N!IsJob(job)

NoTool == fs = [dirs |-> {<<>>}, files |-> <<>>] /\ cwd = <<>> /\ archive = <<>> /\ mem = <<>>

\* cospkg has not started.
NoCos == /\ dir = {} /\ listing = <<>> /\ files = <<>> /\ table = <<>> /\ out = <<>>
         /\ image = <<>> /\ failure = "none"

InitArchives ==
    \/ tool = "cos" /\ Init /\ NoTool
    \/ tool = "pup" /\ NoCos /\ P!Init
    \/ tool = "pkg" /\ NoCos /\ K!Init
    \/ tool = "nor" /\ NoCos /\ N!Init
    \/ tool = "gpkg" /\ NoCos /\ U!Init

NextArchives ==
    /\ UNCHANGED tool
    /\ \/ tool = "cos" /\ Next /\ UNCHANGED toolVars
       \/ /\ UNCHANGED <<dir, listing, files, image, table, failure, out>>
          /\ \/ tool = "pup" /\ P!Next
             \/ tool = "pkg" /\ K!Next
             \/ tool = "nor" /\ N!Next
             \/ tool = "gpkg" /\ U!Next

Archives == InitArchives /\ [][NextArchives]_<<vars, toolVars, tool>>

-----------------------------------------------------------------------------
(* Properties, each about the tools that it is named for *)

\* puppack and pupunpack give back what was packed: see Pup.
PupRestored == tool = "pup" => P!PupRestored

\* What pupunpack says of a package is so: see Pup.
PupVerdicts == tool = "pup" => P!PupVerdicts

\* unpkg gives whole packages or says that it does not: see Pkg.
PackageWhole == tool = "pkg" => K!PackageWhole

\* norunpack makes the tree that is in the dump: see NorUnpack.
NorAsTree == tool = "nor" => N!NorAsTree

\* ungpkg decrypts and unpacks what the package was made of: see Ungpkg.
GpkgRestored == tool = "gpkg" => U!GpkgRestored
=============================================================================
