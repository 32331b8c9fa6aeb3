---------------------------- MODULE MCTmpfsEmerge ----------------------------
(* Two people who type the command at the same time.                         *)
EXTENDS TmpfsEmerge
CONSTANTS anna, bea
MCRuns == {anna, bea}
=============================================================================
