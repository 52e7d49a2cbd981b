------------------------------ MODULE Terminal ------------------------------
(***************************************************************************)
(* The text screen of kern/console.c (cga_init, cga_putc) and the line     *)
(* editor of lib/readline.c, which keeps its own count of what it has      *)
(* echoed.  Output of the monitor between two lines leaves the cursor      *)
(* anywhere.  Nothing runs between the stores of cga_putc, so it is one    *)
(* step.  Characters are their codes; a cell's attribute is not modelled.  *)
(***************************************************************************)
EXTENDS Naturals, Sequences

CONSTANTS
  CRT_COLS, CRT_SIZE,   \* 80 and 25 * 80
  BUFLEN,               \* 1024
  Prompt,               \* what readline prints first
  Input, Output,        \* characters typed, and printed between lines
  MaxOutput, MaxLines   \* bounds on the latter, and on how often Enter is typed

BS == 8
TAB == 9
NL == 10
CR == 13
DEL == 127
SPACE == 32

ASSUME TerminalAssumption ==
  /\ CRT_COLS \in Nat \ {0} /\ CRT_SIZE \in Nat /\ CRT_SIZE % CRT_COLS = 0
  /\ BUFLEN \in Nat /\ BUFLEN > 1
  /\ BUFLEN + Len(Prompt) < CRT_SIZE - CRT_COLS
  /\ Prompt \in Seq(SPACE .. 255) /\ Input \cup Output \subseteq 0 .. 255

VARIABLES
  crt_buf, crt_pos,   \* the screen
  buf, i,             \* readline's line
  pc,                 \* "output", "prompt" or "read"
  prompted,           \* characters of the prompt printed
  printed, lines      \* characters of output since the last line, and lines

screen == <<crt_buf, crt_pos>>
vars == <<screen, buf, i, pc, prompted, printed, lines>>

Cells == 0 .. CRT_SIZE - 1

(* What cga_putc's switch does, on a screen [buf, pos]; a newline falls     *)
(* through to the return, and a tab comes back through cons_putc as five   *)
(* spaces.                                                                 *)
Erased(s) ==
  IF s.pos = 0
  THEN s
  ELSE [buf |-> [s.buf EXCEPT ![s.pos - 1] = SPACE], pos |-> s.pos - 1]

Written(s, c) == [buf |-> [s.buf EXCEPT ![s.pos] = c], pos |-> s.pos + 1]

AtRowOf(s, pos) == [buf |-> s.buf, pos |-> pos - (pos % CRT_COLS)]

Put(s, c) ==
  CASE c = BS -> Erased(s)
    [] c = NL -> AtRowOf(s, s.pos + CRT_COLS)
    [] c = CR -> AtRowOf(s, s.pos)
    [] OTHER -> Written(s, c)

(* Mutant of Scroll: the text moves, the cursor does not.                  *)
Scroll_CursorStays(s) ==
  IF s.pos < CRT_SIZE
  THEN s
  ELSE [buf |-> [p \in Cells |->
                  IF p < CRT_SIZE - CRT_COLS THEN s.buf[p + CRT_COLS] ELSE SPACE],
        pos |-> s.pos]

(* A cursor past the end moves everything up by a row.                     *)
Scroll(s) ==
  IF s.pos < CRT_SIZE
  THEN s
  ELSE [buf |-> [p \in Cells |->
                  IF p < CRT_SIZE - CRT_COLS THEN s.buf[p + CRT_COLS] ELSE SPACE],
        pos |-> s.pos - CRT_COLS]

(* cga_putc.                                                               *)
Shown(s, c) ==
  LET blank(t) == Scroll(Put(t, SPACE))
  IN  IF c = TAB THEN blank(blank(blank(blank(blank(s))))) ELSE Scroll(Put(s, c))

cputchar(c) ==
  LET s == Shown([buf |-> crt_buf, pos |-> crt_pos], c)
  IN  crt_buf' = s.buf /\ crt_pos' = s.pos

-----------------------------------------------------------------------------
(* The firmware leaves the cursor somewhere.                               *)
Init ==
  /\ crt_buf = [p \in Cells |-> 0] /\ crt_pos \in Cells
  /\ buf = [k \in 0 .. BUFLEN - 1 |-> 0] /\ i = 0
  /\ pc = "output" /\ prompted = 0 /\ printed = 0 /\ lines = 0

MonitorOutput(c) ==
  /\ pc = "output" /\ printed < MaxOutput
  /\ cputchar(c)
  /\ printed' = printed + 1
  /\ UNCHANGED <<buf, i, pc, prompted, lines>>

readline ==
  /\ pc = "output"
  /\ pc' = "prompt" /\ prompted' = 0 /\ i' = 0
  /\ UNCHANGED <<screen, buf, printed, lines>>

PrintPrompt ==
  /\ pc = "prompt"
  /\ IF prompted < Len(Prompt)
     THEN cputchar(Prompt[prompted + 1]) /\ prompted' = prompted + 1 /\ UNCHANGED pc
     ELSE pc' = "read" /\ UNCHANGED <<screen, prompted>>
  /\ UNCHANGED <<buf, i, printed, lines>>

(* Mutant of Erase: at the start of the line too.                          *)
Erase_AtStart(c) ==
  /\ pc = "read" /\ c \in {BS, DEL}
  /\ cputchar(BS)
  /\ i' = IF i = 0 THEN 0 ELSE i - 1
  /\ UNCHANGED <<buf, pc, prompted, printed, lines>>

(* Backspace and DEL take the last character back ...                      *)
Erase(c) ==
  /\ pc = "read" /\ c \in {BS, DEL} /\ i > 0
  /\ cputchar(BS)
  /\ i' = i - 1
  /\ UNCHANGED <<buf, pc, prompted, printed, lines>>

(* Mutant of Type: a full line still echoes.                               *)
Type_EchoesWhenFull(c) ==
  /\ pc = "read" /\ ~(c \in {BS, DEL} /\ i > 0) /\ c >= SPACE
  /\ cputchar(c)
  /\ IF i < BUFLEN - 1 THEN buf' = [buf EXCEPT ![i] = c] /\ i' = i + 1
     ELSE UNCHANGED <<buf, i>>
  /\ UNCHANGED <<pc, prompted, printed, lines>>

(* ... every other character from the space on is added while there is     *)
(* room, also a DEL at the start of the line ...                           *)
Type(c) ==
  /\ pc = "read" /\ ~(c \in {BS, DEL} /\ i > 0)
  /\ c >= SPACE /\ i < BUFLEN - 1
  /\ cputchar(c)
  /\ buf' = [buf EXCEPT ![i] = c] /\ i' = i + 1
  /\ UNCHANGED <<pc, prompted, printed, lines>>

(* ... a newline or return ends it ...                                     *)
Enter(c) ==
  /\ pc = "read" /\ c \in {NL, CR} /\ lines < MaxLines
  /\ cputchar(NL)
  /\ buf' = [buf EXCEPT ![i] = 0]
  /\ pc' = "output" /\ printed' = 0 /\ lines' = lines + 1
  /\ UNCHANGED <<i, prompted>>

(* ... and the rest is ignored.                                            *)
Ignore(c) ==
  /\ pc = "read" /\ c \notin {NL, CR}
  /\ \/ c < SPACE /\ ~(c = BS /\ i > 0)
     \/ c >= SPACE /\ ~(c = DEL /\ i > 0) /\ i = BUFLEN - 1
  /\ UNCHANGED vars

Next ==
  \/ \E c \in Output : MonitorOutput(c)
  \/ readline \/ PrintPrompt
  \/ \E c \in Input : Erase(c) \/ Type(c) \/ Enter(c) \/ Ignore(c)

Spec == Init /\ [][Next]_vars

-----------------------------------------------------------------------------
(* In particular the cursor is on the screen and the line within buf.      *)
TypeOK ==
  /\ crt_buf \in [Cells -> 0 .. 255] /\ crt_pos \in Cells
  /\ buf \in [0 .. BUFLEN - 1 -> 0 .. 255] /\ i \in 0 .. BUFLEN - 1
  /\ pc \in {"output", "prompt", "read"} /\ prompted \in 0 .. Len(Prompt)

(* However the line was edited, wrapped and scrolled, the cells before the *)
(* cursor show the prompt and then the characters that readline will       *)
(* return (console.c:163-202, readline.c:16-36).                           *)
ScreenShowsLine ==
  pc = "read" =>
    LET start == crt_pos - i - Len(Prompt)
    IN  /\ start \in Cells
        /\ \A k \in 1 .. Len(Prompt) : crt_buf[start + k - 1] = Prompt[k]
        /\ \A k \in 0 .. i - 1 : crt_buf[crt_pos - i + k] = buf[k]

(* Typing and erasing change no cell before the line: what stands there    *)
(* stays, or moves up by one row if the last cell was filled               *)
(* (console.c:169-202, readline.c:22-30).                                  *)
LineStart == crt_pos - i

OnlyTheLineChanges ==
  [][pc = "read" =>
       \E up \in {0, CRT_COLS} :
         /\ \A p \in up .. LineStart - 1 : crt_buf'[p - up] = crt_buf[p]
         /\ pc' = "read" => LineStart' = LineStart - up]_vars
=============================================================================
