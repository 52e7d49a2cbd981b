--------------------------- MODULE TerminalProofs ---------------------------
(***************************************************************************)
(* For a screen and a line buffer of any size, any prompt and anything     *)
(* typed or printed: the cursor stays on the screen, and before it stands  *)
(* what readline will return.                                              *)
(***************************************************************************)
EXTENDS Terminal, SequenceTheorems, TLAPS

Screen == [buf : [Cells -> 0 .. 255], pos : Cells]

(* The cells before the cursor show the part of the prompt that has been   *)
(* printed and then the line, from the first character of the prompt on.   *)
TextShown ==
  pc # "output" =>
    /\ IF pc = "read" THEN prompted = Len(Prompt) ELSE i = 0
    /\ crt_pos >= prompted + i
    /\ \A k \in 1 .. prompted : crt_buf[crt_pos - i - prompted + k - 1] = Prompt[k]
    /\ \A k \in 0 .. i - 1 : crt_buf[crt_pos - i + k] = buf[k]

IInv == TypeOK /\ TextShown

-----------------------------------------------------------------------------
LEMMA Constants ==
  /\ CRT_COLS \in Nat /\ CRT_COLS > 0 /\ CRT_SIZE \in Nat /\ BUFLEN \in Nat /\ BUFLEN > 1
  /\ Len(Prompt) \in Nat /\ BUFLEN + Len(Prompt) < CRT_SIZE - CRT_COLS
  /\ \A k \in 1 .. Len(Prompt) : Prompt[k] \in SPACE .. 255
  /\ \A c \in Input \cup Output : c \in 0 .. 255
  /\ SPACE = 32 /\ BS = 8 /\ TAB = 9 /\ NL = 10 /\ CR = 13 /\ DEL = 127
<1>1. Prompt \in Seq(SPACE .. 255)
  BY TerminalAssumption
<1>2. Len(Prompt) \in Nat /\ \A k \in 1 .. Len(Prompt) : Prompt[k] \in SPACE .. 255
  BY <1>1, LenProperties, ElementOfSeq
<1>3. CRT_COLS \in Nat /\ CRT_COLS > 0 /\ CRT_SIZE \in Nat /\ BUFLEN \in Nat /\ BUFLEN > 1
      /\ BUFLEN + Len(Prompt) < CRT_SIZE - CRT_COLS
  <2>1. CRT_COLS \in Nat \ {0} /\ CRT_SIZE \in Nat
    BY TerminalAssumption, Zenon
  <2>2. BUFLEN \in Nat /\ BUFLEN > 1 /\ BUFLEN + Len(Prompt) < CRT_SIZE - CRT_COLS
    BY TerminalAssumption, Zenon
  <2> QED
    BY <2>1, <2>2
<1>4. \A c \in Input \cup Output : c \in 0 .. 255
  BY TerminalAssumption, Zenon
<1> QED
  BY <1>2, <1>3, <1>4 DEF SPACE, BS, TAB, NL, CR, DEL

LEMMA ScreenFields ==
  ASSUME NEW s \in Screen
  PROVE  /\ s.buf \in [Cells -> 0 .. 255] /\ s.pos \in Cells /\ s.pos \in 0 .. CRT_SIZE - 1
         /\ \A x \in 0 .. s.pos - 1 : x \in Cells /\ x # s.pos
<1>1. s.buf \in [Cells -> 0 .. 255] /\ s.pos \in Cells
  BY DEF Screen
<1> QED
  BY <1>1, Constants DEF Cells

(* The column of the cursor.                                               *)
LEMMA Column ==
  ASSUME NEW p \in Nat
  PROVE  p % CRT_COLS \in 0 .. CRT_COLS - 1 /\ p % CRT_COLS <= p
  BY Constants

(* The switch of cga_putc, case by case.                                   *)
LEMMA PutCases ==
  ASSUME NEW s, NEW c
  PROVE  /\ Put(s, BS) = Erased(s)
         /\ Put(s, NL) = AtRowOf(s, s.pos + CRT_COLS)
         /\ Put(s, CR) = AtRowOf(s, s.pos)
         /\ c # BS /\ c # NL /\ c # CR => Put(s, c) = Written(s, c)
<1>1. BS # NL /\ BS # CR /\ NL # CR
  BY Constants
<1> QED
  BY <1>1, Zenon DEF Put

(* Scroll, of any text that fits.                                          *)
LEMMA ScrollMoves ==
  ASSUME NEW b \in [Cells -> 0 .. 255], NEW p \in 0 .. CRT_SIZE + CRT_COLS - 1,
         NEW s, s = [buf |-> b, pos |-> p]
  PROVE  \E up \in {0, CRT_COLS} :
           /\ up = IF p < CRT_SIZE THEN 0 ELSE CRT_COLS
           /\ Scroll(s) \in Screen /\ Scroll(s).pos = p - up
           /\ \A x \in up .. CRT_SIZE - 1 : Scroll(s).buf[x - up] = b[x]
<1>1. s.buf = b /\ s.pos = p
  OBVIOUS
<1>2. CASE p < CRT_SIZE
  <2>1. Scroll(s) = s
    BY <1>1, <1>2 DEF Scroll
  <2>2. s \in Screen
    <3>1. p \in Cells
      BY <1>2, Constants DEF Cells
    <3> QED
      BY <3>1 DEF Screen
  <2>3. \A x \in 0 .. CRT_SIZE - 1 : s.buf[x - 0] = b[x]
    BY <1>1
  <2> QED
    BY <1>1, <1>2, <2>1, <2>2, <2>3
<1>3. CASE ~(p < CRT_SIZE)
  <2> DEFINE f == [x \in Cells |-> IF x < CRT_SIZE - CRT_COLS THEN b[x + CRT_COLS] ELSE SPACE]
  <2>1. Scroll(s) = [buf |-> f, pos |-> p - CRT_COLS]
    BY <1>1, <1>3 DEF Scroll
  <2>2. f \in [Cells -> 0 .. 255]
    <3>1. ASSUME NEW x \in Cells
          PROVE  (IF x < CRT_SIZE - CRT_COLS THEN b[x + CRT_COLS] ELSE SPACE) \in 0 .. 255
      BY Constants DEF Cells
    <3> QED
      BY <3>1
  <2>3. p - CRT_COLS \in Cells
    BY <1>3, Constants DEF Cells
  <2>4. \A x \in CRT_COLS .. CRT_SIZE - 1 : f[x - CRT_COLS] = b[x]
    BY Constants DEF Cells
  <2> HIDE DEF f
  <2>5. Scroll(s) \in Screen /\ Scroll(s).pos = p - CRT_COLS /\ Scroll(s).buf = f
    BY <2>1, <2>2, <2>3 DEF Screen
  <2> QED
    BY <1>3, <2>4, <2>5
<1> QED
  BY <1>2, <1>3

-----------------------------------------------------------------------------
(* A character that is shown, a newline, a return and a backspace.         *)
(* By how much the text moves up when a character is shown at pos.         *)
Moved(pos) == IF pos + 1 < CRT_SIZE THEN 0 ELSE CRT_COLS

Echoed(s, c, t) ==
  /\ t.pos = s.pos + 1 - Moved(s.pos) /\ t.buf[t.pos - 1] = c
  /\ \A x \in Moved(s.pos) .. s.pos - 1 : t.buf[x - Moved(s.pos)] = s.buf[x]

LEMMA CharacterShown ==
  ASSUME NEW s \in Screen, NEW c \in 0 .. 255, c # BS, c # NL, c # CR,
         NEW t, t = Scroll(Put(s, c))
  PROVE  t \in Screen /\ Echoed(s, c, t)
<1>1. s.buf \in [Cells -> 0 .. 255] /\ s.pos \in Cells /\ s.pos \in 0 .. CRT_SIZE - 1
      /\ \A x \in 0 .. s.pos - 1 : x \in Cells /\ x # s.pos
  BY ScreenFields
<1>2. PICK b : b = [s.buf EXCEPT ![s.pos] = c]
  OBVIOUS
<1>3. /\ b \in [Cells -> 0 .. 255] /\ b[s.pos] = c
      /\ \A x \in 0 .. s.pos - 1 : b[x] = s.buf[x]
  BY <1>1, <1>2
<1>4. PICK p : p = s.pos + 1
  OBVIOUS
<1>5. p \in 0 .. CRT_SIZE + CRT_COLS - 1
  BY <1>1, <1>4, Constants
<1>6. PICK u : u = [buf |-> b, pos |-> p]
  OBVIOUS
<1>7. t = Scroll(u)
  BY <1>2, <1>4, <1>6, PutCases DEF Written
<1>8. PICK up \in {0, CRT_COLS} :
        /\ up = IF p < CRT_SIZE THEN 0 ELSE CRT_COLS
        /\ t \in Screen /\ t.pos = p - up
        /\ \A x \in up .. CRT_SIZE - 1 : t.buf[x - up] = b[x]
  BY <1>3, <1>5, <1>6, <1>7, ScrollMoves
<1>9. ASSUME NEW x \in up .. s.pos - 1
      PROVE  t.buf[x - up] = s.buf[x]
  <2>1. x \in up .. CRT_SIZE - 1 /\ x \in 0 .. s.pos - 1
    BY <1>1, <1>8, Constants
  <2> QED
    BY <1>3, <1>8, <2>1
<1>10. t.buf[t.pos - 1] = c
  <2>1. s.pos \in up .. CRT_SIZE - 1 /\ t.pos - 1 = s.pos - up
    BY <1>1, <1>4, <1>8, Constants
  <2> QED
    BY <1>3, <1>8, <2>1
<1>11. t.pos = s.pos + 1 - up /\ up = IF s.pos + 1 < CRT_SIZE THEN 0 ELSE CRT_COLS
  <2>1. t.pos = p - up /\ up = IF p < CRT_SIZE THEN 0 ELSE CRT_COLS
    BY <1>8
  <2>2. s.pos \in Int /\ up \in Int
    BY <1>1, Constants
  <2>3. t.pos = s.pos + 1 - up
    BY <1>4, <2>1, <2>2
  <2>4. up = IF s.pos + 1 < CRT_SIZE THEN 0 ELSE CRT_COLS
    BY <1>4, <2>1
  <2> QED
    BY <2>3, <2>4, Zenon
<1>12. up = Moved(s.pos)
  BY <1>11 DEF Moved
<1> QED
  BY <1>8, <1>9, <1>10, <1>11, <1>12 DEF Echoed

LEMMA CursorMoved ==
  ASSUME NEW s \in Screen, NEW q \in 0 .. CRT_SIZE + CRT_COLS - 1,
         NEW t, t = Scroll(AtRowOf(s, q))
  PROVE  \E up \in {0, CRT_COLS} :
           t \in Screen /\ \A x \in up .. s.pos - 1 : t.buf[x - up] = s.buf[x]
<1>1. s.buf \in [Cells -> 0 .. 255] /\ s.pos \in 0 .. CRT_SIZE - 1
  BY ScreenFields
<1>2. PICK p : p = q - (q % CRT_COLS)
  OBVIOUS
<1>3. p \in 0 .. CRT_SIZE + CRT_COLS - 1
  <2>1. q \in Nat /\ q <= CRT_SIZE + CRT_COLS - 1
    BY Constants
  <2>2. q % CRT_COLS \in Nat /\ q % CRT_COLS <= q
    BY <2>1, Column, Constants
  <2> QED
    BY <1>2, <2>1, <2>2, Constants
<1>4. PICK b : b = s.buf
  OBVIOUS
<1>5. PICK u : u = [buf |-> b, pos |-> p]
  OBVIOUS
<1>6. t = Scroll(u)
  BY <1>2, <1>4, <1>5 DEF AtRowOf
<1>7. PICK up \in {0, CRT_COLS} :
        t \in Screen /\ \A x \in up .. CRT_SIZE - 1 : t.buf[x - up] = b[x]
  BY <1>1, <1>3, <1>4, <1>5, <1>6, ScrollMoves
<1>8. ASSUME NEW x \in up .. s.pos - 1
      PROVE  t.buf[x - up] = s.buf[x]
  <2>1. x \in up .. CRT_SIZE - 1
    BY <1>1, <1>7, Constants
  <2> QED
    BY <1>4, <1>7, <2>1
<1> QED
  BY <1>7, <1>8

LEMMA NewlineShown ==
  ASSUME NEW s \in Screen, NEW t, t = Scroll(Put(s, NL))
  PROVE  \E up \in {0, CRT_COLS} :
           t \in Screen /\ \A x \in up .. s.pos - 1 : t.buf[x - up] = s.buf[x]
<1>1. s.pos + CRT_COLS \in 0 .. CRT_SIZE + CRT_COLS - 1
  BY ScreenFields, Constants
<1>2. t = Scroll(AtRowOf(s, s.pos + CRT_COLS))
  BY PutCases
<1> QED
  BY <1>1, <1>2, CursorMoved

LEMMA ReturnShown ==
  ASSUME NEW s \in Screen
  PROVE  Scroll(Put(s, CR)) \in Screen
<1>1. s.pos \in 0 .. CRT_SIZE + CRT_COLS - 1
  BY ScreenFields, Constants
<1>2. Put(s, CR) = AtRowOf(s, s.pos)
  BY PutCases
<1> QED
  BY <1>1, <1>2, CursorMoved

LEMMA BackspaceShown ==
  ASSUME NEW s \in Screen, NEW t, t = Scroll(Put(s, BS))
  PROVE  /\ t \in Screen
         /\ s.pos > 0 => /\ t.pos = s.pos - 1
                         /\ \A x \in 0 .. s.pos - 2 : t.buf[x] = s.buf[x]
<1>1. s.buf \in [Cells -> 0 .. 255] /\ s.pos \in Cells /\ s.pos \in 0 .. CRT_SIZE - 1
  BY ScreenFields
<1>2. t = Scroll(Erased(s))
  BY PutCases
<1>3. CASE s.pos = 0
  <2>1. Erased(s) = s
    BY <1>3 DEF Erased
  <2>2. t = s
    BY <1>1, <1>2, <2>1, Constants DEF Scroll
  <2> QED
    BY <1>3, <2>2
<1>4. CASE s.pos # 0
  <2>1. PICK b : b = [s.buf EXCEPT ![s.pos - 1] = SPACE]
    OBVIOUS
  <2>2. PICK p : p = s.pos - 1
    OBVIOUS
  <2>3. PICK u : u = [buf |-> b, pos |-> p]
    OBVIOUS
  <2>4. t = Scroll(u)
    BY <1>2, <1>4, <2>1, <2>2, <2>3 DEF Erased
  <2>5. p \in 0 .. CRT_SIZE + CRT_COLS - 1 /\ p < CRT_SIZE
    BY <1>1, <1>4, <2>2, Constants
  <2>6. b \in [Cells -> 0 .. 255]
    <3>1. SPACE \in 0 .. 255
      BY Constants
    <3> QED
      BY <1>1, <2>1, <3>1
  <2>7. PICK up \in {0, CRT_COLS} :
          /\ up = IF p < CRT_SIZE THEN 0 ELSE CRT_COLS
          /\ t \in Screen /\ t.pos = p - up
          /\ \A x \in up .. CRT_SIZE - 1 : t.buf[x - up] = b[x]
    BY <2>3, <2>4, <2>5, <2>6, ScrollMoves
  <2>8. up = 0 /\ t.pos = s.pos - 1
    BY <2>2, <2>5, <2>7
  <2>9. ASSUME NEW x \in 0 .. s.pos - 2
        PROVE  t.buf[x] = s.buf[x]
    <3>1. x \in up .. CRT_SIZE - 1 /\ x - up = x /\ x # s.pos - 1 /\ x \in Cells
      BY <1>1, <2>8, Constants DEF Cells
    <3> QED
      BY <1>1, <2>1, <2>7, <3>1
  <2> QED
    BY <2>7, <2>8, <2>9
<1> QED
  BY <1>3, <1>4

(* Whatever character is put, a tab too, the screen stays a screen.        *)
LEMMA ShownTypes ==
  ASSUME NEW s \in Screen, NEW c \in 0 .. 255
  PROVE  Shown(s, c) \in Screen
<1>1. ASSUME NEW r \in Screen
      PROVE  Scroll(Put(r, SPACE)) \in Screen
  <2>1. SPACE \in 0 .. 255 /\ SPACE # BS /\ SPACE # NL /\ SPACE # CR
    BY Constants
  <2> QED
    BY <2>1, CharacterShown
<1>2. CASE c = TAB
  <2> DEFINE blank(t) == Scroll(Put(t, SPACE))
  <2>1. Shown(s, c) = blank(blank(blank(blank(blank(s)))))
    BY <1>2 DEF Shown
  <2>2. blank(s) \in Screen
    BY <1>1
  <2>3. blank(blank(s)) \in Screen
    BY <1>1, <2>2
  <2>4. blank(blank(blank(s))) \in Screen
    BY <1>1, <2>3
  <2>5. blank(blank(blank(blank(s)))) \in Screen
    BY <1>1, <2>4
  <2> QED
    BY <1>1, <2>1, <2>5
<1>3. CASE c # TAB
  <2>1. Shown(s, c) = Scroll(Put(s, c))
    BY <1>3 DEF Shown
  <2> QED
    <3>1. CASE c = BS
      BY <2>1, <3>1, BackspaceShown
    <3>2. CASE c = NL
      BY <2>1, <3>2, NewlineShown
    <3>3. CASE c = CR
      BY <2>1, <3>3, ReturnShown
    <3>4. CASE c # BS /\ c # NL /\ c # CR
      BY <2>1, <3>4, CharacterShown
    <3> QED
      BY <3>1, <3>2, <3>3, <3>4
<1> QED
  BY <1>2, <1>3

-----------------------------------------------------------------------------
(* The same of the variables.                                              *)
LEMMA ScreenOf ==
  ASSUME TypeOK, NEW c \in 0 .. 255, cputchar(c)
  PROVE  \E s, t \in Screen :
           /\ s.buf = crt_buf /\ s.pos = crt_pos /\ t = Shown(s, c)
           /\ crt_buf' = t.buf /\ crt_pos' = t.pos
<1>1. PICK s : s = [buf |-> crt_buf, pos |-> crt_pos]
  OBVIOUS
<1>2. s \in Screen /\ s.buf = crt_buf /\ s.pos = crt_pos
  BY <1>1 DEF TypeOK, Screen
<1>3. PICK t : t = Shown(s, c)
  OBVIOUS
<1>4. crt_buf' = t.buf /\ crt_pos' = t.pos
  BY <1>1, <1>3, Zenon DEF cputchar
<1>5. t \in Screen
  BY <1>2, <1>3, ShownTypes
<1> QED
  BY <1>2, <1>3, <1>4, <1>5

LEMMA ScreenTypes ==
  ASSUME TypeOK, NEW c \in 0 .. 255, cputchar(c)
  PROVE  crt_buf' \in [Cells -> 0 .. 255] /\ crt_pos' \in Cells
<1>1. PICK s, t \in Screen : crt_buf' = t.buf /\ crt_pos' = t.pos
  BY ScreenOf
<1>2. t.buf \in [Cells -> 0 .. 255] /\ t.pos \in Cells
  BY ScreenFields
<1> QED
  BY <1>1, <1>2

LEMMA EchoOfCharacter ==
  ASSUME TypeOK, NEW c \in SPACE .. 255, cputchar(c)
  PROVE  \E up \in {0, CRT_COLS} :
           /\ up = IF crt_pos + 1 < CRT_SIZE THEN 0 ELSE CRT_COLS
           /\ crt_pos' = crt_pos + 1 - up /\ crt_buf'[crt_pos' - 1] = c
           /\ \A x \in up .. crt_pos - 1 : crt_buf'[x - up] = crt_buf[x]
<1>1. c \in 0 .. 255 /\ c # BS /\ c # TAB /\ c # NL /\ c # CR
  BY Constants
<1>2. PICK s, t \in Screen :
        /\ s.buf = crt_buf /\ s.pos = crt_pos /\ t = Shown(s, c)
        /\ crt_buf' = t.buf /\ crt_pos' = t.pos
  BY <1>1, ScreenOf
<1>3. t = Scroll(Put(s, c))
  BY <1>1, <1>2 DEF Shown
<1>4. PICK up : up = Moved(crt_pos)
  OBVIOUS
<1>5. /\ t.pos = s.pos + 1 - up /\ t.buf[t.pos - 1] = c
      /\ \A x \in up .. s.pos - 1 : t.buf[x - up] = s.buf[x]
  <2>1. c \in 0 .. 255
    BY <1>1
  <2>2. c # BS /\ c # NL /\ c # CR
    BY <1>1
  <2>3. Echoed(s, c, t)
    BY <2>1, <2>2, <1>3, CharacterShown
  <2>4. up = Moved(s.pos)
    BY <1>2, <1>4
  <2> QED
    BY <2>3, <2>4 DEF Echoed
<1>6. up \in {0, CRT_COLS} /\ up = IF crt_pos + 1 < CRT_SIZE THEN 0 ELSE CRT_COLS
  BY <1>4 DEF Moved
<1> QED
  BY <1>2, <1>5, <1>6

LEMMA EchoOfNewline ==
  ASSUME TypeOK, cputchar(NL)
  PROVE  \E up \in {0, CRT_COLS} :
           \A x \in up .. crt_pos - 1 : crt_buf'[x - up] = crt_buf[x]
<1>1. NL \in 0 .. 255 /\ NL # TAB
  BY Constants
<1>2. PICK s, t \in Screen :
        /\ s.buf = crt_buf /\ s.pos = crt_pos /\ t = Shown(s, NL)
        /\ crt_buf' = t.buf /\ crt_pos' = t.pos
  BY <1>1, ScreenOf
<1>3. t = Scroll(Put(s, NL))
  BY <1>1, <1>2 DEF Shown
<1> QED
  BY <1>2, <1>3, NewlineShown

LEMMA EchoOfBackspace ==
  ASSUME TypeOK, cputchar(BS), crt_pos > 0
  PROVE  /\ crt_pos' = crt_pos - 1
         /\ \A x \in 0 .. crt_pos - 2 : crt_buf'[x] = crt_buf[x]
<1>1. BS \in 0 .. 255 /\ BS # TAB
  BY Constants
<1>2. PICK s, t \in Screen :
        /\ s.buf = crt_buf /\ s.pos = crt_pos /\ t = Shown(s, BS)
        /\ crt_buf' = t.buf /\ crt_pos' = t.pos
  BY <1>1, ScreenOf
<1>3. t = Scroll(Put(s, BS))
  BY <1>1, <1>2 DEF Shown
<1> QED
  BY <1>2, <1>3, BackspaceShown

-----------------------------------------------------------------------------
LEMMA InitIInv == Init => IInv
  BY Constants DEF Init, IInv, TypeOK, TextShown

LEMMA OutputIInv ==
  ASSUME IInv, NEW c \in Output, MonitorOutput(c)
  PROVE  IInv'
<1>1. TypeOK /\ c \in 0 .. 255
  BY Constants DEF IInv
<1>2. crt_buf' \in [Cells -> 0 .. 255] /\ crt_pos' \in Cells
  BY <1>1, ScreenTypes DEF MonitorOutput
<1> QED
  BY <1>1, <1>2 DEF MonitorOutput, IInv, TypeOK, TextShown

LEMMA ReadlineIInv ==
  ASSUME IInv, readline
  PROVE  IInv'
<1>1. TypeOK'
  BY Constants DEF readline, screen, IInv, TypeOK
<1>2. TextShown'
  BY DEF readline, screen, IInv, TypeOK, TextShown, Cells
<1> QED
  BY <1>1, <1>2 DEF IInv

LEMMA PrintPromptIInv ==
  ASSUME IInv, PrintPrompt
  PROVE  IInv'
<1>1. /\ TypeOK /\ i = 0 /\ crt_pos >= prompted /\ pc = "prompt"
      /\ \A k \in 1 .. prompted : crt_buf[crt_pos - prompted + k - 1] = Prompt[k]
      /\ crt_pos \in 0 .. CRT_SIZE - 1 /\ prompted \in 0 .. Len(Prompt)
  <2>1. TypeOK /\ pc = "prompt" /\ i = 0 /\ crt_pos >= prompted + i
        /\ \A k \in 1 .. prompted : crt_buf[crt_pos - i - prompted + k - 1] = Prompt[k]
    BY DEF IInv, PrintPrompt, TextShown
  <2>2. crt_pos \in 0 .. CRT_SIZE - 1 /\ prompted \in 0 .. Len(Prompt)
    BY <2>1 DEF TypeOK, Cells
  <2>3. crt_pos - i = crt_pos /\ prompted + i = prompted
    BY <2>1, <2>2, Constants
  <2> QED
    BY <2>1, <2>2, <2>3
<1>2. CASE prompted < Len(Prompt)
  <2>1. PICK c : c = Prompt[prompted + 1]
    OBVIOUS
  <2>2. c \in SPACE .. 255 /\ c \in 0 .. 255
    <3>1. prompted + 1 \in 1 .. Len(Prompt)
      BY <1>1, <1>2, Constants
    <3>2. c \in SPACE .. 255
      BY <2>1, <3>1, Constants
    <3> QED
      BY <3>2, Constants
  <2>3. cputchar(c) /\ prompted' = prompted + 1 /\ UNCHANGED <<buf, i, pc>>
    BY <1>2, <2>1 DEF PrintPrompt
  <2>4. PICK up \in {0, CRT_COLS} :
          /\ up = IF crt_pos + 1 < CRT_SIZE THEN 0 ELSE CRT_COLS
          /\ crt_pos' = crt_pos + 1 - up /\ crt_buf'[crt_pos' - 1] = c
          /\ \A x \in up .. crt_pos - 1 : crt_buf'[x - up] = crt_buf[x]
    BY <1>1, <2>2, <2>3, EchoOfCharacter
  <2>5. TypeOK'
    <3>1. crt_buf' \in [Cells -> 0 .. 255] /\ crt_pos' \in Cells
      BY <1>1, <2>2, <2>3, ScreenTypes
    <3>2. prompted' \in 0 .. Len(Prompt)
      BY <1>1, <1>2, <2>3, Constants
    <3> QED
      BY <1>1, <2>3, <3>1, <3>2 DEF TypeOK
  <2>6. /\ crt_pos - prompted - up >= 0 /\ up \in Nat
        /\ crt_pos \in Nat /\ prompted \in Nat /\ prompted' = prompted + 1
    BY <1>1, <1>2, <2>3, <2>4, Constants
  <2>7. ASSUME NEW k \in 1 .. prompted'
        PROVE  crt_buf'[crt_pos' - prompted' + k - 1] = Prompt[k]
    <3>1. CASE k = prompted + 1
      <4>1. crt_pos' \in Int /\ k \in Int /\ prompted' = k
        BY <2>4, <2>6, <3>1
      <4>2. crt_pos' - prompted' + k - 1 = crt_pos' - 1
        BY <4>1
      <4> QED
        BY <2>1, <2>4, <3>1, <4>2
    <3>2. CASE k # prompted + 1
      <4>1. PICK x : x = crt_pos - prompted + k - 1
        OBVIOUS
      <4>2. k \in 1 .. prompted
        BY <2>6, <3>2
      <4>3. x \in up .. crt_pos - 1
        BY <2>6, <4>1, <4>2
      <4>4. crt_pos' - prompted' + k - 1 = x - up
        BY <2>4, <2>6, <4>1, <4>2
      <4> QED
        BY <1>1, <2>4, <4>1, <4>2, <4>3, <4>4
    <3> QED
      BY <3>1, <3>2
  <2>8. crt_pos' >= prompted'
    <3>1. crt_pos + 1 - up >= prompted + 1
      BY <2>6
    <3> QED
      BY <2>4, <2>6, <3>1
  <2>9. i' = 0 /\ pc' = "prompt" /\ crt_pos' \in Nat /\ prompted' \in Nat
    BY <1>1, <2>3, <2>5 DEF TypeOK, Cells
  <2> QED
    BY <2>5, <2>7, <2>8, <2>9 DEF IInv, TextShown
<1>3. CASE ~(prompted < Len(Prompt))
  <2>1. pc' = "read" /\ UNCHANGED <<crt_buf, crt_pos, buf, i, prompted>>
    BY <1>3 DEF PrintPrompt, screen
  <2>2. prompted = Len(Prompt)
    BY <1>1, <1>3, Constants
  <2>3. TypeOK'
    BY <1>1, <2>1 DEF TypeOK
  <2>4. TextShown'
    BY <1>1, <2>1, <2>2 DEF IInv, TextShown
  <2> QED
    BY <2>3, <2>4 DEF IInv
<1> QED
  BY <1>2, <1>3

LEMMA EraseIInv ==
  ASSUME IInv, NEW c \in Input, Erase(c)
  PROVE  /\ IInv'
         /\ pc' = "read" /\ LineStart' = LineStart
         /\ \A p \in 0 .. LineStart - 1 : crt_buf'[p] = crt_buf[p]
<1>1. /\ pc = "read" /\ i > 0 /\ cputchar(BS) /\ i' = i - 1
      /\ UNCHANGED <<buf, pc, prompted, printed, lines>>
  BY DEF Erase
<1>2. /\ TypeOK /\ prompted = Len(Prompt) /\ crt_pos >= prompted + i
      /\ \A k \in 1 .. prompted : crt_buf[crt_pos - i - prompted + k - 1] = Prompt[k]
      /\ \A k \in 0 .. i - 1 : crt_buf[crt_pos - i + k] = buf[k]
  BY <1>1 DEF IInv, TextShown
<1>3. /\ crt_pos \in Nat /\ i \in Nat /\ prompted \in Nat /\ i \in 0 .. BUFLEN - 1
      /\ crt_pos > 0
  BY <1>1, <1>2, Constants DEF TypeOK, Cells
<1>4. /\ crt_pos' = crt_pos - 1
      /\ \A x \in 0 .. crt_pos - 2 : crt_buf'[x] = crt_buf[x]
  BY <1>1, <1>2, <1>3, EchoOfBackspace
<1>5. crt_pos' - i' = crt_pos - i
  BY <1>1, <1>3, <1>4
<1>6. \A p \in 0 .. crt_pos - i - 1 : p \in 0 .. crt_pos - 2
  BY <1>1, <1>3
<1>7. TypeOK'
  <2>1. BS \in 0 .. 255
    BY Constants
  <2>2. crt_buf' \in [Cells -> 0 .. 255] /\ crt_pos' \in Cells
    BY <1>1, <1>2, <2>1, ScreenTypes
  <2>3. i' \in 0 .. BUFLEN - 1
    BY <1>1, <1>3, Constants
  <2> QED
    BY <1>1, <1>2, <2>2, <2>3 DEF TypeOK
<1>8. ASSUME NEW k \in 1 .. prompted
      PROVE  crt_buf'[crt_pos' - i' - prompted + k - 1] = Prompt[k]
  <2>1. crt_pos - i - prompted + k - 1 \in 0 .. crt_pos - 2
    BY <1>1, <1>2, <1>3
  <2> QED
    BY <1>2, <1>4, <1>5, <2>1
<1>9. ASSUME NEW k \in 0 .. i' - 1
      PROVE  crt_buf'[crt_pos' - i' + k] = buf[k]
  <2>1. crt_pos - i + k \in 0 .. crt_pos - 2 /\ k \in 0 .. i - 1
    BY <1>1, <1>2, <1>3
  <2> QED
    BY <1>2, <1>4, <1>5, <2>1
<1>10. crt_pos' >= prompted + i'
  BY <1>1, <1>2, <1>3, <1>4
<1>11. TextShown'
  BY <1>1, <1>2, <1>8, <1>9, <1>10 DEF TextShown
<1> QED
  BY <1>1, <1>4, <1>5, <1>6, <1>7, <1>11 DEF IInv, LineStart

LEMMA TypeIInv ==
  ASSUME IInv, NEW c \in Input, Type(c)
  PROVE  /\ IInv'
         /\ pc' = "read"
         /\ \E up \in {0, CRT_COLS} :
              /\ \A p \in up .. LineStart - 1 : crt_buf'[p - up] = crt_buf[p]
              /\ LineStart' = LineStart - up
<1>1. /\ pc = "read" /\ i < BUFLEN - 1 /\ cputchar(c) /\ i' = i + 1
      /\ buf' = [buf EXCEPT ![i] = c] /\ c >= SPACE
      /\ UNCHANGED <<pc, prompted, printed, lines>>
  BY DEF Type
<1>2. /\ TypeOK /\ prompted = Len(Prompt) /\ crt_pos >= prompted + i
      /\ \A k \in 1 .. prompted : crt_buf[crt_pos - i - prompted + k - 1] = Prompt[k]
      /\ \A k \in 0 .. i - 1 : crt_buf[crt_pos - i + k] = buf[k]
  BY <1>1 DEF IInv, TextShown
<1>3. /\ crt_pos \in 0 .. CRT_SIZE - 1 /\ prompted \in Nat /\ i \in 0 .. BUFLEN - 1
      /\ crt_pos \in Nat /\ i \in Nat
  BY <1>1, <1>2, Constants DEF TypeOK, Cells
<1>4. c \in SPACE .. 255 /\ c \in 0 .. 255
  <2>1. c \in 0 .. 255
    BY Constants
  <2> QED
    BY <1>1, <2>1, Constants
<1>5. PICK up \in {0, CRT_COLS} :
        /\ up = IF crt_pos + 1 < CRT_SIZE THEN 0 ELSE CRT_COLS
        /\ crt_pos' = crt_pos + 1 - up /\ crt_buf'[crt_pos' - 1] = c
        /\ \A x \in up .. crt_pos - 1 : crt_buf'[x - up] = crt_buf[x]
  BY <1>1, <1>2, <1>4, EchoOfCharacter
<1>6. up \in Nat /\ crt_pos - i - prompted - up >= 0
  BY <1>1, <1>2, <1>3, <1>5, Constants
<1>7. crt_pos' - i' = crt_pos - i - up /\ crt_pos' \in Int
  BY <1>1, <1>3, <1>5, <1>6
<1>8. TypeOK'
  <2>1. crt_buf' \in [Cells -> 0 .. 255] /\ crt_pos' \in Cells
    BY <1>1, <1>2, <1>4, ScreenTypes
  <2>2. i' \in 0 .. BUFLEN - 1
    BY <1>1, <1>3, Constants
  <2>3. buf' \in [0 .. BUFLEN - 1 -> 0 .. 255]
    BY <1>1, <1>2, <1>4 DEF TypeOK
  <2> QED
    BY <1>1, <1>2, <2>1, <2>2, <2>3 DEF TypeOK
<1>9. ASSUME NEW k \in 1 .. prompted
      PROVE  crt_buf'[crt_pos' - i' - prompted + k - 1] = Prompt[k]
  <2>1. PICK x : x = crt_pos - i - prompted + k - 1
    OBVIOUS
  <2>2. x \in up .. crt_pos - 1
    BY <1>3, <1>6, <2>1
  <2>3. crt_pos' - i' - prompted + k - 1 = x - up
    BY <1>3, <1>6, <1>7, <2>1
  <2> QED
    BY <1>2, <1>5, <2>1, <2>2, <2>3
<1>10. ASSUME NEW k \in 0 .. i' - 1
       PROVE  crt_buf'[crt_pos' - i' + k] = buf'[k]
  <2>1. CASE k = i
    <3>1. crt_pos' - i' + k = crt_pos' - 1
      BY <1>1, <1>3, <1>7, <2>1
    <3>2. buf'[k] = c
      BY <1>1, <1>2, <1>3, <2>1 DEF TypeOK
    <3> QED
      BY <1>5, <3>1, <3>2
  <2>2. CASE k # i
    <3>1. PICK x : x = crt_pos - i + k
      OBVIOUS
    <3>2. k \in 0 .. i - 1
      BY <1>1, <1>3, <2>2
    <3>3. x \in up .. crt_pos - 1
      BY <1>3, <1>6, <3>1, <3>2
    <3>4. crt_pos' - i' + k = x - up
      BY <1>3, <1>6, <1>7, <3>1
    <3>5. buf'[k] = buf[k]
      <4>1. k \in 0 .. BUFLEN - 1
        BY <1>3, <3>2, Constants
      <4> QED
        BY <1>1, <1>2, <2>2, <4>1 DEF TypeOK
    <3> QED
      BY <1>2, <1>5, <3>1, <3>2, <3>3, <3>4, <3>5
  <2> QED
    BY <2>1, <2>2
<1>11. crt_pos' >= prompted + i'
  <2>1. crt_pos + 1 - up >= prompted + (i + 1)
    BY <1>3, <1>6
  <2> QED
    BY <1>1, <1>5, <2>1
<1>12. TextShown'
  BY <1>1, <1>2, <1>9, <1>10, <1>11 DEF TextShown
<1>13. \A p \in up .. crt_pos - i - 1 : crt_buf'[p - up] = crt_buf[p]
  <2>1. \A p \in up .. crt_pos - i - 1 : p \in up .. crt_pos - 1
    BY <1>3, <1>6
  <2> QED
    BY <1>5, <2>1
<1>14. LineStart' = LineStart - up
  BY <1>7 DEF LineStart
<1> QED
  BY <1>1, <1>8, <1>12, <1>13, <1>14, Zenon DEF IInv, LineStart

LEMMA EnterIInv ==
  ASSUME IInv, NEW c \in Input, Enter(c)
  PROVE  /\ IInv'
         /\ pc' = "output"
         /\ \E up \in {0, CRT_COLS} :
              \A p \in up .. LineStart - 1 : crt_buf'[p - up] = crt_buf[p]
<1>1. /\ pc = "read" /\ cputchar(NL) /\ buf' = [buf EXCEPT ![i] = 0] /\ pc' = "output"
      /\ UNCHANGED <<i, prompted>>
  BY DEF Enter
<1>2. TypeOK /\ crt_pos \in Nat /\ i \in Nat /\ NL \in 0 .. 255
  <2>1. TypeOK /\ crt_pos \in 0 .. CRT_SIZE - 1 /\ i \in 0 .. BUFLEN - 1
    BY DEF IInv, TypeOK, Cells
  <2>2. NL \in 0 .. 255
    BY Constants
  <2> QED
    BY <2>1, <2>2, Constants
<1>3. TypeOK'
  <2>1. crt_buf' \in [Cells -> 0 .. 255] /\ crt_pos' \in Cells
    BY <1>1, <1>2, ScreenTypes
  <2>2. buf' \in [0 .. BUFLEN - 1 -> 0 .. 255]
    BY <1>1, <1>2 DEF TypeOK
  <2> QED
    BY <1>1, <1>2, <2>1, <2>2 DEF TypeOK
<1>4. IInv'
  BY <1>1, <1>3 DEF IInv, TextShown
<1>5. PICK up \in {0, CRT_COLS} :
        \A x \in up .. crt_pos - 1 : crt_buf'[x - up] = crt_buf[x]
  BY <1>1, <1>2, EchoOfNewline
<1>6. \A p \in up .. LineStart - 1 : p \in up .. crt_pos - 1
  BY <1>2, <1>5, Constants DEF LineStart
<1> QED
  BY <1>1, <1>4, <1>5, <1>6

LEMMA NextIInv ==
  ASSUME IInv, [Next]_vars
  PROVE  /\ IInv'
         /\ pc = "read" =>
              \E up \in {0, CRT_COLS} :
                /\ \A p \in up .. LineStart - 1 : crt_buf'[p - up] = crt_buf[p]
                /\ pc' = "read" => LineStart' = LineStart - up
<1>1. CASE \E c \in Output : MonitorOutput(c)
  BY <1>1, OutputIInv DEF MonitorOutput
<1>2. CASE readline
  BY <1>2, ReadlineIInv DEF readline
<1>3. CASE PrintPrompt
  BY <1>3, PrintPromptIInv DEF PrintPrompt
<1>4. ASSUME UNCHANGED vars
      PROVE  /\ IInv'
             /\ \A p \in 0 .. LineStart - 1 : crt_buf'[p] = crt_buf[p]
             /\ LineStart' = LineStart
  BY <1>4 DEF vars, screen, IInv, TypeOK, TextShown, LineStart
<1>5. ASSUME IInv', LineStart' = LineStart,
             \A p \in 0 .. LineStart - 1 : crt_buf'[p] = crt_buf[p]
      PROVE  \E up \in {0, CRT_COLS} :
               /\ \A p \in up .. LineStart - 1 : crt_buf'[p - up] = crt_buf[p]
               /\ pc' = "read" => LineStart' = LineStart - up
  <2>1. LineStart \in Int
    BY DEF IInv, TypeOK, LineStart, Cells
  <2>2. LineStart' = LineStart - 0 /\ \A p \in 0 .. LineStart - 1 : p - 0 = p
    BY <1>5, <2>1
  <2> QED
    BY <1>5, <2>2
<1>6. CASE \E c \in Input : Erase(c)
  BY <1>5, <1>6, EraseIInv
<1>7. CASE \E c \in Input : Type(c)
  BY <1>7, TypeIInv
<1>8. CASE \E c \in Input : Enter(c)
  BY <1>8, EnterIInv
<1>9. CASE (\E c \in Input : Ignore(c)) \/ UNCHANGED vars
  BY <1>4, <1>5, <1>9 DEF Ignore
<1> QED
  BY <1>1, <1>2, <1>3, <1>6, <1>7, <1>8, <1>9 DEF Next

LEMMA InvariantHolds == Spec => []IInv
<1>1. IInv /\ [Next]_vars => IInv'
  BY NextIInv
<1> QED
  BY <1>1, InitIInv, PTL DEF Spec

(* For a screen and a buffer of any size, the cursor stays on the screen   *)
(* and readline's index within its buffer (console.c:163-202,              *)
(* readline.c:16-36).                                                      *)
THEOREM TerminalTypeCorrect == Spec => []TypeOK
<1>1. IInv => TypeOK
  BY DEF IInv
<1> QED
  BY <1>1, InvariantHolds, PTL

(* However a line was edited, wrapped and scrolled, the screen shows before*)
(* the cursor the prompt and the characters that readline will return.     *)
THEOREM LineShown == Spec => []ScreenShowsLine
<1>1. IInv => ScreenShowsLine
  <2> SUFFICES ASSUME IInv, pc = "read"
               PROVE  LET start == crt_pos - i - Len(Prompt)
                      IN  /\ start \in Cells
                          /\ \A k \in 1 .. Len(Prompt) : crt_buf[start + k - 1] = Prompt[k]
                          /\ \A k \in 0 .. i - 1 : crt_buf[crt_pos - i + k] = buf[k]
    BY DEF ScreenShowsLine
  <2>1. /\ prompted = Len(Prompt) /\ crt_pos >= prompted + i
        /\ \A k \in 1 .. prompted : crt_buf[crt_pos - i - prompted + k - 1] = Prompt[k]
        /\ \A k \in 0 .. i - 1 : crt_buf[crt_pos - i + k] = buf[k]
    BY DEF IInv, TextShown
  <2>2. crt_pos - i - Len(Prompt) \in Cells
    BY <2>1, Constants DEF IInv, TypeOK, Cells
  <2> QED
    BY <2>1, <2>2
<1> QED
  BY <1>1, InvariantHolds, PTL

(* No key that readline handles changes a cell before the line; what stands*)
(* there moves up by a row at most.                                        *)
THEOREM NothingElseChanges == Spec => OnlyTheLineChanges
<1>1. IInv /\ [Next]_vars =>
        [pc = "read" =>
           \E up \in {0, CRT_COLS} :
             /\ \A p \in up .. LineStart - 1 : crt_buf'[p - up] = crt_buf[p]
             /\ pc' = "read" => LineStart' = LineStart - up]_vars
  BY NextIInv
<1> QED
  BY <1>1, InvariantHolds, PTL DEF Spec, OnlyTheLineChanges
=============================================================================
