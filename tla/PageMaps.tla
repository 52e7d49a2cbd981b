----------------------------- MODULE PageMaps ------------------------------
(***************************************************************************)
(* Page tables as pure operators: what pgdir_walk, page_insert,            *)
(* page_lookup and page_remove of kern/pmap.c do to                        *)
(*                                                                         *)
(*    s = [pm, kern_pgdir, mem]                                            *)
(*                                                                         *)
(* the page tracker (PhysPages), the directory, whose present entries are  *)
(* the number of a table's page (pgdir_walk gives all of them P|W|U), and  *)
(* the words of every page, read as table entries.  An address is the pair *)
(* of its directory and table indices.                                     *)
(***************************************************************************)
EXTENDS PhysPages

CONSTANTS
  PDX, PTX,   \* directory and table indices
  Perm,       \* permission bits of an entry (PTE_P is implied)
  JUNK        \* a word of a page that was never cleared (0x97979797)

VA == PDX \X PTX
Entry == [page : Page, perm : Perm]

ASSUME TableAssumption ==
  /\ IsFiniteSet(PDX) /\ IsFiniteSet(PTX)
  /\ JUNK # NULL /\ NULL \notin Entry /\ JUNK \notin Entry

(* A page full of one word. *)
Filled(w) == [x \in PTX |-> w]

(* The word that translates va, NULL when there is no table for it.  Its   *)
(* permission is the effective one, since directory entries allow all.     *)
Walk(s, va) ==
  IF s.kern_pgdir[va[1]] = NULL THEN NULL ELSE s.mem[s.kern_pgdir[va[1]]][va[2]]

Present(w) == w \notin {NULL, JUNK}

MappedIn(s) == {Walk(s, va).page : va \in {v \in VA : Present(Walk(s, v))}}

(* pgdir_walk(pgdir, va, 1) fails when it needs a table and no page is     *)
(* free ...                                                                *)
WalkFails(s, va) == s.kern_pgdir[va[1]] = NULL /\ AllocResult(s.pm) = NULL

(* Mutant of pgdir_walk: page_alloc(0), so the new table is not cleared.   *)
pgdir_walk_Uncleared(s, va) ==
  IF s.kern_pgdir[va[1]] # NULL
  THEN s
  ELSE LET pp == AllocResult(s.pm)
       IN  [s EXCEPT !.pm = IncRef(page_alloc(s.pm), pp),
                     !.kern_pgdir[va[1]] = pp]

(* Mutant of pgdir_walk: the table's reference is not counted.             *)
pgdir_walk_Uncounted(s, va) ==
  IF s.kern_pgdir[va[1]] # NULL
  THEN s
  ELSE LET pp == AllocResult(s.pm)
       IN  [pm |-> page_alloc(s.pm),
            kern_pgdir |-> [s.kern_pgdir EXCEPT ![va[1]] = pp],
            mem |-> [s.mem EXCEPT ![pp] = Filled(NULL)]]

(* ... and otherwise there is a table for va, a cleared page with one      *)
(* reference if it is a new one.                                           *)
pgdir_walk(s, va) ==
  IF s.kern_pgdir[va[1]] # NULL
  THEN s
  ELSE LET pp == AllocResult(s.pm)
       IN  [pm |-> IncRef(page_alloc(s.pm), pp),
            kern_pgdir |-> [s.kern_pgdir EXCEPT ![va[1]] = pp],
            mem |-> [s.mem EXCEPT ![pp] = Filled(NULL)]]

SetPte(s, va, w) == [s EXCEPT !.mem[s.kern_pgdir[va[1]]][va[2]] = w]

(* page_remove as a whole, where nothing can observe its steps.            *)
RemovePanics(s, va) ==
  LET pte == Walk(s, va)
  IN  pte = JUNK \/ (Present(pte) /\ DecrefPanics(s.pm, pte.page))

page_remove(s, va) ==
  LET pte == Walk(s, va)
  IN  IF pte = NULL
      THEN s
      ELSE SetPte([s EXCEPT !.pm = page_decref(@, pte.page)], va, NULL)

(* page_insert as a whole, once there is a table: the reference is counted *)
(* before the old mapping is removed, which may be of the same page.       *)
InsertPanics(s, pp, va) ==
  LET w == pgdir_walk(s, va)
  IN  RemovePanics([w EXCEPT !.pm = IncRef(@, pp)], va)

page_insert(s, pp, va, perm) ==
  LET w == pgdir_walk(s, va)
  IN  SetPte(page_remove([w EXCEPT !.pm = IncRef(@, pp)], va), va,
             [page |-> pp, perm |-> perm])
=============================================================================
