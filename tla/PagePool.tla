------------------------------ MODULE PagePool ------------------------------
(***************************************************************************)
(* What the page allocator promises its callers, with no list, no link     *)
(* field and no reference arithmetic: free pages form a stack, a page that *)
(* is handed out is on nobody's stack until it is given back, and a page   *)
(* goes back exactly when its last reference is dropped.  check_page_alloc *)
(* relies on the stack order: it frees a page and asserts that the next    *)
(* page_alloc returns that page.                                           *)
(***************************************************************************)
EXTENDS Naturals, Sequences, SequencesExt

CONSTANTS Pages, Usable

VARIABLES
  stack,   \* the free pages, the next one to hand out first
  refs     \* references to each page

vars == <<stack, refs>>

Handed == Usable \ ToSet(stack)

Init ==
  /\ ToSet(stack) = Usable
  /\ IsInjective(stack)
  /\ refs = [p \in Pages |-> IF p \in Usable THEN 0 ELSE 1]

Take ==
  /\ stack # <<>>
  /\ stack' = Tail(stack)
  /\ UNCHANGED refs

Return(p) ==
  /\ p \in Handed /\ refs[p] = 0
  /\ stack' = <<p>> \o stack
  /\ UNCHANGED refs

Ref(p) ==
  /\ p \in Handed
  /\ refs' = [refs EXCEPT ![p] = @ + 1]
  /\ UNCHANGED stack

Unref(p) ==
  /\ p \in Handed /\ refs[p] > 0
  /\ refs' = [refs EXCEPT ![p] = @ - 1]
  /\ stack' = IF refs[p] = 1 THEN <<p>> \o stack ELSE stack

Next == Take \/ \E p \in Usable : Return(p) \/ Ref(p) \/ Unref(p)

Spec == Init /\ [][Next]_vars
=============================================================================
