---------------------------- MODULE BootChecks -----------------------------
(***************************************************************************)
(* What the self-tests of kern/pmap.c ask of the functions under test, as  *)
(* scripts: check_page_alloc, check_page and check_page_installed_pgdir.   *)
(* mem_init runs them on the real free list and the real kern_pgdir, so    *)
(* they are part of how the kernel boots; module MemInit executes them.    *)
(* pp0, pp1 and pp2 are the C locals; an address is <<directory index,     *)
(* table index>>; a step that asserts panics when it is false.             *)
(*                                                                         *)
(*   alloc x        x = page_alloc(0), asserted not to be NULL             *)
(*   distinct       asserts that pp0, pp1 and pp2 differ                   *)
(*   realloc x      page_alloc(0), asserted to return x                    *)
(*   zalloc x       page_alloc(ALLOC_ZERO), asserted to return x, cleared  *)
(*   count, recount counts the free pages, asserts that they are as many   *)
(*   nomem          asserts !page_alloc(0)                                 *)
(*   free x         page_free(x)                                           *)
(*   fill x         memset(page2kva(x), ...)                               *)
(*   steal, give    takes the free list away, puts it back                 *)
(*   insert x va p  asserts page_insert(kern_pgdir, x, va, p) == 0         *)
(*   refuse x va    asserts page_insert(...) < 0                           *)
(*   remove va      page_remove(kern_pgdir, va)                            *)
(*   table va       pgdir_walk(kern_pgdir, va, 1)                          *)
(*   table? d x     asserts that x is the table of d                       *)
(*   forget d x     kern_pgdir[d] = 0; x->pp_ref = 0                       *)
(*   empty x        asserts that no entry of the table in x is present     *)
(*   maps va x      asserts that va maps x                                 *)
(*   perm va p      asserts that va is mapped with permissions p           *)
(*   unmapped va    asserts that va maps nothing                           *)
(*   ref x n        asserts x->pp_ref == n                                 *)
(*   kept x         asserts that x->pp_ref is not 0 and x->pp_link is NULL *)
(*                                                                         *)
(* Left out are what is asserted of pgdir_walk's pointer arithmetic and of *)
(* PTE_U in a directory entry (846-847, 854, 914), and that a word stored  *)
(* through PGSIZE is read back from pp2 (964-965).                         *)
(***************************************************************************)
EXTENDS Naturals, Sequences

A0 == <<0, 0>>      \* 0x0
A1 == <<0, 1>>      \* PGSIZE
B0 == <<1, 0>>      \* PTSIZE
B1 == <<1, 1>>      \* PGSIZE * NPDENTRIES + PGSIZE

Take3 == << <<"alloc", "pp0">>, <<"alloc", "pp1">>, <<"alloc", "pp2">> >>
Free3 == << <<"free", "pp0">>, <<"free", "pp1">>, <<"free", "pp2">> >>
Distinct == << <<"distinct">> >>
Steal == << <<"steal">>, <<"nomem">> >>

check_page_alloc ==
  << <<"count">> >> \o Take3 \o Distinct \o Steal \o Free3 \o Take3 \o Distinct
  \o << <<"nomem">>, <<"fill", "pp0">>, <<"free", "pp0">>, <<"zalloc", "pp0">>,
        <<"give">> >>
  \o Free3 \o << <<"recount">> >>

check_page ==
  Take3 \o Distinct \o Steal
  \o << <<"unmapped", A0>>, <<"refuse", "pp1", A0>>,
        (* pp0 becomes the table for pp1 *)
        <<"free", "pp0">>, <<"insert", "pp1", A0, "W">>, <<"table?", 0, "pp0">>,
        <<"maps", A0, "pp1">>, <<"ref", "pp1", 1>>, <<"ref", "pp0", 1>>,
        <<"insert", "pp2", A1, "W">>, <<"maps", A1, "pp2">>, <<"ref", "pp2", 1>>,
        <<"nomem">>,
        (* pp2 again at the same address, then with other permissions *)
        <<"insert", "pp2", A1, "W">>, <<"maps", A1, "pp2">>, <<"ref", "pp2", 1>>,
        <<"nomem">>,
        <<"insert", "pp2", A1, "UW">>, <<"maps", A1, "pp2">>, <<"ref", "pp2", 1>>,
        <<"perm", A1, "UW">>, <<"insert", "pp2", A1, "W">>, <<"perm", A1, "W">>,
        <<"refuse", "pp0", B0>>,
        (* pp1 replaces pp2, which is free then *)
        <<"insert", "pp1", A1, "W">>, <<"perm", A1, "W">>, <<"maps", A0, "pp1">>,
        <<"maps", A1, "pp1">>, <<"ref", "pp1", 2>>, <<"ref", "pp2", 0>>,
        <<"realloc", "pp2">>,
        <<"remove", A0>>, <<"unmapped", A0>>, <<"maps", A1, "pp1">>,
        <<"ref", "pp1", 1>>, <<"ref", "pp2", 0>>,
        <<"insert", "pp1", A1, "">>, <<"kept", "pp1">>,
        <<"remove", A1>>, <<"unmapped", A0>>, <<"unmapped", A1>>,
        <<"ref", "pp1", 0>>, <<"ref", "pp2", 0>>, <<"realloc", "pp1">>, <<"nomem">>,
        (* take the table back, and make it one twice more *)
        <<"table?", 0, "pp0">>, <<"ref", "pp0", 1>>, <<"forget", 0, "pp0">>,
        <<"free", "pp0">>, <<"table", B1>>, <<"forget", 1, "pp0">>,
        <<"fill", "pp0">>, <<"free", "pp0">>, <<"table", A0>>, <<"empty", "pp0">>,
        <<"forget", 0, "pp0">>, <<"give">> >>
  \o Free3

check_page_installed_pgdir ==
  Take3
  \o << <<"free", "pp0">>, <<"fill", "pp1">>, <<"fill", "pp2">>,
        <<"insert", "pp1", A1, "W">>, <<"ref", "pp1", 1>>, <<"maps", A1, "pp1">>,
        <<"insert", "pp2", A1, "W">>, <<"maps", A1, "pp2">>,
        <<"ref", "pp2", 1>>, <<"ref", "pp1", 0>>,
        <<"remove", A1>>, <<"ref", "pp2", 0>>,
        <<"table?", 0, "pp0">>, <<"ref", "pp0", 1>>, <<"forget", 0, "pp0">>,
        <<"free", "pp0">> >>
=============================================================================
