---------------------------- MODULE MCSelfLayout -----------------------------
(* Small tables, a large one, 32 bit and 64 bit ELF headers and odd sizes. *)
EXTENDS SelfLayout

MCPhNums == {0, 1, 2, 7}
MCEhSizes == {0, 52, 63, 64}
MCPhEntSizes == {32, 33, 56}

=============================================================================
