--------------------------- MODULE AddressSpace ----------------------------
(***************************************************************************)
(* What the page mapping functions of kern/pmap.c promise their caller: an *)
(* address space that maps addresses to pages, with no page tables, no     *)
(* reference counts and no steps.  page_insert replaces whatever was       *)
(* mapped at the address in one go, page_remove takes it away, and         *)
(* page_alloc never returns a page that somebody holds or that is mapped   *)
(* anywhere.  A page belongs to its caller until it is mapped, then to its *)
(* mappings, and is free again when the last of them goes.                 *)
(***************************************************************************)
CONSTANTS Usable, VA, Perm, NULL

VARIABLES
  map,    \* VA -> NULL or the page and permissions mapped there
  held    \* pages their callers hold: allocated, not mapped yet

vars == <<map, held>>

Mapped == {map[va].page : va \in {v \in VA : map[v] # NULL}}

Init ==
  /\ map = [va \in VA |-> NULL]
  /\ held = {}

Alloc(p) ==
  /\ held' = held \cup {p}
  /\ UNCHANGED map
  /\ p \notin held \cup Mapped

Free(p) ==
  /\ p \in held
  /\ held' = held \ {p}
  /\ UNCHANGED map

Map(va, p, perm) ==
  /\ held' = held \ {p}
  /\ map' = [map EXCEPT ![va] = [page |-> p, perm |-> perm]]
  /\ p \in held \cup Mapped

Unmap(va) ==
  /\ map[va] # NULL
  /\ map' = [map EXCEPT ![va] = NULL]
  /\ UNCHANGED held

Next ==
  \/ \E p \in Usable : Alloc(p) \/ Free(p)
  \/ \E va \in VA : Unmap(va) \/ \E p \in Usable, perm \in Perm : Map(va, p, perm)

Spec == Init /\ [][Next]_vars
=============================================================================
