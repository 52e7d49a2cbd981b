----------------------------- MODULE MCTerminal -----------------------------
(* A letter, a key above 127, the editing keys, a tab, and both ends of a  *)
(* line.                                                                   *)
EXTENDS Terminal

MCPrompt == <<75>>
MCInput == {97, 226, BS, DEL, TAB, CR}
MCOutput == {98, NL, CR, TAB, BS}
=============================================================================
