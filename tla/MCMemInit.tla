----------------------------- MODULE MCMemInit -----------------------------
(***************************************************************************)
(* Machines that MemInit is checked on: every combination of these CMOS    *)
(* readings.  The base memory ends before, at or inside a page; extended   *)
(* memory ends below the kernel, in the pages array, right after it (where *)
(* boot_alloc's KADDR still panics), one page later, beyond the 4 MB of    *)
(* entry_pgdir, at 256 MB, beyond, and far beyond.                         *)
(***************************************************************************)
EXTENDS MemInit

MCMemories ==
  [base : {4, 8, 10, 12, 16}, ext : {0, 8, 16, 20, 24, 27, 28, 32, 36, 40},
   ext16 : {0, 1, 4, 8, 9, 22}]
=============================================================================
