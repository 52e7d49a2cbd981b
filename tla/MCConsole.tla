----------------------------- MODULE MCConsole ------------------------------
(* A keyboard with Shift, the extended Control, Alt, Caps Lock, a letter   *)
(* and the extended Delete.                                                *)
EXTENDS Console

Plain(code) == [code |-> code, ext |-> FALSE]
Extended(code) == [code |-> code, ext |-> TRUE]

MCKeys ==
  {Plain(42), Extended(29), Plain(56), Plain(58), Plain(30), Extended(83)}
=============================================================================
