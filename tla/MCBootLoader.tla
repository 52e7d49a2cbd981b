---------------------------- MODULE MCBootLoader ----------------------------
(* Text of less than a page, not ending with a sector, and of a whole one; *)
(* data and .bss that end anywhere in the next page.                       *)
EXTENDS BootLoader

MCKernels ==
  [text : {3, 8}, data : 1 .. 4, bss : 0 .. 3, nobits : BOOLEAN, magic : {TRUE}]
  \cup {[text |-> 3, data |-> 1, bss |-> 1, nobits |-> FALSE, magic |-> FALSE]}
=============================================================================
