----------------------------- MODULE TmpfsEmerge -----------------------------
(***************************************************************************)
(* temerge-sinoshuke.sh, run by several people at once: each run looks     *)
(* whether /var/tmp/portage is mounted, mounts a tmpfs on it, lets emerge  *)
(* work there and unmounts it.                                             *)
(*                                                                         *)
(* The kernel stacks mounts: a second tmpfs hides the first, and umount    *)
(* removes the topmost, whoever mounted it.                                *)
(***************************************************************************)
EXTENDS Integers, Sequences

CONSTANT Runs

VARIABLES pc,
          mounts   \* who mounted what is stacked on /var/tmp/portage

vars == <<pc, mounts>>

Init == pc = [r \in Runs |-> "check"] /\ mounts = <<>>

Goes(r, from, to) == pc[r] = from /\ pc' = [pc EXCEPT ![r] = to]

\* [ -z "$(mount | grep /var/tmp/portage)" ]
Check(r) == /\ Goes(r, "check", IF mounts = <<>> THEN "mount" ELSE "refused")
            /\ UNCHANGED mounts

\* mounttmpfs: the script goes on when mount fails, and believes it mounted.
Mount(r) == /\ Goes(r, "mount", "compile")
            /\ mounts' \in {mounts, Append(mounts, r)}

Compile(r) == Goes(r, "compile", "unmount") /\ UNCHANGED mounts

\* unmount: umount fails when there is nothing, or the topmost is in use by
\* another run that compiles; its failure is printed and no more.
Unmount(r) ==
    /\ Goes(r, "unmount", "done")
    /\ \/ mounts # <<>> /\ mounts' = SubSeq(mounts, 1, Len(mounts) - 1)
       \/ /\ mounts = <<>> \/ \E q \in Runs \ {r} : pc[q] = "compile"
          /\ UNCHANGED mounts

Next == \E r \in Runs : Check(r) \/ Mount(r) \/ Compile(r) \/ Unmount(r)

Spec == Init /\ [][Next]_vars

-----------------------------------------------------------------------------
\* What "tmpfs already mounted!" (temerge-sinoshuke.sh:30) says to a second
\* run: there is never more than one tmpfs on /var/tmp/portage.
MountedOnce == Len(mounts) <= 1
=============================================================================
