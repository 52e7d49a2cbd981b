--------------------------- MODULE ConsoleProofs ----------------------------
(***************************************************************************)
(* Console input is right for any keys, any size of the buffer and any     *)
(* number of bytes: the ring buffer is the queue of module InputQueue, and *)
(* a byte means, when the kernel reads it, what its key meant when the     *)
(* user pressed it.                                                        *)
(***************************************************************************)
EXTENDS Console, SequenceTheorems, TLAPS

Meaning == [c : 0 .. 255, reboot : BOOLEAN]
Byte == [data : 0 .. 255, mouse : BOOLEAN, means : Meaning]

(* A byte that kbd_proc_data reads in state a, and means what it should,   *)
(* leaves it in state b; one of the mouse is for somebody else.            *)
Decodes(a, e, b) ==
  IF e.mouse THEN b = a
  ELSE LET r == kbd_proc_data(a, e.data)
       IN  r.shift = b /\ r.c = e.means.c /\ r.reboot = e.means.reboot

(* All bytes of q in turn mean what they should and lead from a to b.      *)
DecodesAll(a, q, b) ==
  \E h \in [0 .. Len(q) -> SUBSET ShiftBits] :
    /\ h[0] = a /\ h[Len(q)] = b
    /\ \A j \in 1 .. Len(q) : Decodes(h[j - 1], q[j], h[j])

(* Reading all that the controller has would leave the kernel with the     *)
(* modifiers that are pressed now.                                         *)
KeyboardFollowed == DecodesAll(shift, i8042, keyboard)

IInv ==
  /\ TypeOK /\ i8042 \in Seq(Byte) /\ KeyboardFollowed

-----------------------------------------------------------------------------
LEMMA DecodesNothing ==
  ASSUME NEW a \in SUBSET ShiftBits
  PROVE  DecodesAll(a, <<>>, a)
<1> DEFINE h == [j \in 0 .. 0 |-> a]
<1>1. h \in [0 .. 0 -> SUBSET ShiftBits] /\ h[0] = a /\ Len(<<>>) = 0 /\ 1 .. 0 = {}
  OBVIOUS
<1> HIDE DEF h
<1> QED
  BY <1>1 DEF DecodesAll

LEMMA DecodesAppend ==
  ASSUME NEW q \in Seq(Byte), NEW e \in Byte,
         NEW a, NEW b, NEW d \in SUBSET ShiftBits,
         DecodesAll(a, q, b), Decodes(b, e, d)
  PROVE  DecodesAll(a, Append(q, e), d) /\ Append(q, e) \in Seq(Byte)
<1> DEFINE n == Len(q)
           r == Append(q, e)
<1>1. n \in Nat /\ r \in Seq(Byte) /\ Len(r) = n + 1 /\ r[n + 1] = e
      /\ \A j \in 1 .. n : r[j] = q[j]
  OBVIOUS
<1>2. PICK h \in [0 .. n -> SUBSET ShiftBits] :
        /\ h[0] = a /\ h[n] = b
        /\ \A j \in 1 .. n : Decodes(h[j - 1], q[j], h[j])
  BY DEF DecodesAll
<1> DEFINE g == [j \in 0 .. n + 1 |-> IF j = n + 1 THEN d ELSE h[j]]
<1>3. /\ g \in [0 .. n + 1 -> SUBSET ShiftBits]
      /\ g[0] = a /\ g[n + 1] = d /\ g[n] = b /\ \A j \in 0 .. n : g[j] = h[j]
  BY <1>1, <1>2
<1>4. \A j \in 1 .. n + 1 : Decodes(g[j - 1], r[j], g[j])
  <2> SUFFICES ASSUME NEW j \in 1 .. n + 1
               PROVE  Decodes(g[j - 1], r[j], g[j])
    OBVIOUS
  <2> HIDE DEF g, r, n
  <2>1. CASE j = n + 1
    BY <2>1, <1>1, <1>3
  <2>2. CASE j # n + 1
    BY <2>2, <1>1, <1>2, <1>3
  <2> QED
    BY <2>1, <2>2
<1> HIDE DEF g, r, n
<1> QED
  BY <1>1, <1>3, <1>4 DEF DecodesAll, r

LEMMA DecodesHead ==
  ASSUME NEW q \in Seq(Byte), q # <<>>, NEW a, NEW b, DecodesAll(a, q, b)
  PROVE  \E d \in SUBSET ShiftBits :
           Decodes(a, Head(q), d) /\ DecodesAll(d, Tail(q), b)
<1> DEFINE n == Len(q)
           r == Tail(q)
<1>1. /\ n \in Nat \ {0} /\ r \in Seq(Byte) /\ Len(r) = n - 1 /\ Head(q) = q[1]
      /\ \A j \in 1 .. n - 1 : r[j] = q[j + 1]
  BY EmptySeq, HeadTailProperties
<1>2. PICK h \in [0 .. n -> SUBSET ShiftBits] :
        /\ h[0] = a /\ h[n] = b
        /\ \A j \in 1 .. n : Decodes(h[j - 1], q[j], h[j])
  BY DEF DecodesAll
<1> DEFINE g == [j \in 0 .. n - 1 |-> h[j + 1]]
<1>3. /\ g \in [0 .. n - 1 -> SUBSET ShiftBits]
      /\ g[0] = h[1] /\ g[n - 1] = b /\ \A j \in 0 .. n - 1 : g[j] = h[j + 1]
  BY <1>1, <1>2
<1>4. Decodes(a, Head(q), h[1]) /\ h[1] \in SUBSET ShiftBits
  <2>1. 1 \in 1 .. n /\ 1 - 1 = 0 /\ 1 \in 0 .. n
    BY <1>1
  <2> QED
    BY <2>1, <1>1, <1>2
<1>5. \A j \in 1 .. n - 1 : Decodes(g[j - 1], r[j], g[j])
  <2> SUFFICES ASSUME NEW j \in 1 .. n - 1
               PROVE  Decodes(g[j - 1], r[j], g[j])
    OBVIOUS
  <2>1. g[j - 1] = h[j] /\ g[j] = h[j + 1] /\ r[j] = q[j + 1]
    BY <1>1, <1>3
  <2>2. j + 1 \in 1 .. n /\ (j + 1) - 1 = j
    BY <1>1
  <2> HIDE DEF g, r, n
  <2> QED
    BY <2>1, <2>2, <1>2
<1>6. DecodesAll(h[1], r, b)
  <2> HIDE DEF g, r, n
  <2> QED
    BY <1>1, <1>3, <1>5 DEF DecodesAll
<1> QED
  BY <1>4, <1>6

-----------------------------------------------------------------------------
(* The tables have characters of a byte, and only modifiers and toggles.   *)
LEMMA Tables ==
  ASSUME NEW data \in 0 .. 255, NEW bits \in SUBSET ShiftBits
  PROVE  /\ shiftcode(data) \in SUBSET Modifiers
         /\ togglecode(data) \in SUBSET Toggles
         /\ Character(bits, data) \in 0 .. 255
         /\ Character(bits, data) = Character(bits \ {"E0ESC"}, data)
<1>1. shiftcode(data) \in SUBSET Modifiers
  BY DEF shiftcode, Modifiers
<1>2. togglecode(data) \in SUBSET Toggles
  BY DEF togglecode, Toggles
<1>3. charcode(bits, data) \in 0 .. 255
  BY DEF charcode, ctlmap, shiftmap, normalmap, NO, KEY_DEL
<1>4. Character(bits, data) \in 0 .. 255
  BY <1>3 DEF Character, Capitals
<1> QED
  BY <1>1, <1>2, <1>4 DEF Character, charcode

(* The three kinds of byte: the escape, a release and a press.             *)
KeyOf(bits, byte) ==
  IF byte >= Release
  THEN IF "E0ESC" \in bits THEN byte ELSE byte - Release
  ELSE IF "E0ESC" \in bits THEN byte + Release ELSE byte

Pressed(bits, key) == Flip((bits \ {"E0ESC"}) \cup shiftcode(key), togglecode(key))

LEMMA Decoding ==
  ASSUME NEW bits, NEW byte
  PROVE  LET key == KeyOf(bits, byte)
             after == Pressed(bits, key)
             c == Character(after, key)
         IN  /\ byte = E0 => kbd_proc_data(bits, byte) =
                  [shift |-> bits \cup {"E0ESC"}, c |-> 0, reboot |-> FALSE]
             /\ byte # E0 /\ byte >= Release => kbd_proc_data(bits, byte) =
                  [shift |-> bits \ (shiftcode(key) \cup {"E0ESC"}), c |-> 0, reboot |-> FALSE]
             /\ byte # E0 /\ ~(byte >= Release) => kbd_proc_data(bits, byte) =
                  [shift |-> after, c |-> c, reboot |-> Reboots(after, c)]
  BY ZenonT(30) DEF kbd_proc_data, KeyOf, Pressed

LEMMA DecodingTypes ==
  ASSUME NEW byte \in 0 .. 255, NEW bits \in SUBSET ShiftBits
  PROVE  /\ kbd_proc_data(bits, byte).shift \in SUBSET ShiftBits
         /\ kbd_proc_data(bits, byte).c \in 0 .. 255
         /\ kbd_proc_data(bits, byte).reboot \in BOOLEAN
<1> DEFINE key == KeyOf(bits, byte)
           after == Pressed(bits, key)
           c == Character(after, key)
<1>1. key \in 0 .. 255
  BY DEF Release, KeyOf
<1>2. after \in SUBSET ShiftBits
  BY <1>1, Tables DEF Flip, ShiftBits, Pressed
<1>3. c \in 0 .. 255
  BY <1>1, <1>2, Tables
<1>4. Reboots(after, c) \in BOOLEAN
  BY DEF Reboots
<1>5. /\ byte = E0 => kbd_proc_data(bits, byte) =
           [shift |-> bits \cup {"E0ESC"}, c |-> 0, reboot |-> FALSE]
      /\ byte # E0 /\ byte >= Release => kbd_proc_data(bits, byte) =
           [shift |-> bits \ (shiftcode(key) \cup {"E0ESC"}), c |-> 0, reboot |-> FALSE]
      /\ byte # E0 /\ ~(byte >= Release) => kbd_proc_data(bits, byte) =
           [shift |-> after, c |-> c, reboot |-> Reboots(after, c)]
  BY Decoding
<1> HIDE DEF key, after, c
<1>6. CASE byte = E0 \/ byte >= Release
  <2> DEFINE r == kbd_proc_data(bits, byte)
  <2>1. "E0ESC" \in ShiftBits
    BY DEF ShiftBits
  <2>2. CASE byte = E0
    <3>1. r = [shift |-> bits \cup {"E0ESC"}, c |-> 0, reboot |-> FALSE]
      BY <1>5, <2>2
    <3>2. r.shift = bits \cup {"E0ESC"} /\ r.c = 0
      BY <3>1
    <3>3. r.reboot = FALSE
      BY <3>1
    <3> HIDE DEF r
    <3>4. r.shift \in SUBSET ShiftBits
      BY <2>1, <3>2
    <3>5. r.reboot \in BOOLEAN
      BY <3>3, Zenon
    <3> QED
      BY <3>2, <3>4, <3>5 DEF r
  <2>3. CASE byte # E0
    <3>1. r = [shift |-> bits \ (shiftcode(key) \cup {"E0ESC"}), c |-> 0, reboot |-> FALSE]
      BY <1>5, <1>6, <2>3
    <3>2. r.shift = bits \ (shiftcode(key) \cup {"E0ESC"}) /\ r.c = 0
      BY <3>1
    <3>3. r.reboot = FALSE
      BY <3>1
    <3> HIDE DEF r
    <3>4. r.shift \in SUBSET ShiftBits
      BY <3>2
    <3>5. r.reboot \in BOOLEAN
      BY <3>3, Zenon
    <3> QED
      BY <3>2, <3>4, <3>5 DEF r
  <2> QED
    BY <2>2, <2>3
<1>8. CASE byte # E0 /\ ~(byte >= Release)
  BY <1>5, <1>8, <1>2, <1>3, <1>4
<1> QED
  BY <1>6, <1>8

(* The bytes of a key, after the escape if it has one.                     *)
LEMMA EscapeDecodes ==
  ASSUME NEW bits \in SUBSET ShiftBits
  PROVE  Decodes(bits, [data |-> E0, mouse |-> FALSE, means |-> Nothing],
                 bits \cup {"E0ESC"})
<1> DEFINE e == [data |-> E0, mouse |-> FALSE, means |-> Nothing]
           r == kbd_proc_data(bits, E0)
<1>1. r = [shift |-> bits \cup {"E0ESC"}, c |-> 0, reboot |-> FALSE]
  BY Decoding
<1>2. e.mouse = FALSE /\ e.data = E0 /\ e.means.c = 0 /\ e.means.reboot = FALSE
  BY DEF Nothing
<1>3. r.shift = bits \cup {"E0ESC"} /\ r.c = 0
  BY <1>1
<1>4. r.reboot = FALSE
  BY <1>1
<1> HIDE DEF e, r
<1>5. r.reboot = e.means.reboot /\ ~e.mouse
  BY <1>2, <1>4
<1> QED
  BY <1>2, <1>3, <1>5 DEF Decodes, e, r

LEMMA LastByteDecodes ==
  ASSUME NEW k \in Keys, NEW bits \in SUBSET (ShiftBits \ {"E0ESC"}),
         NEW from, from = IF k.ext THEN bits \cup {"E0ESC"} ELSE bits
  PROVE  LET to == Flip(bits \cup shiftcode(Index(k)), togglecode(Index(k)))
             c == Character(to, Index(k))
         IN  /\ Decodes(from,
                  [data |-> k.code, mouse |-> FALSE,
                   means |-> [c |-> c, reboot |-> Reboots(to, c)]],
                  to)
             /\ Decodes(from,
                  [data |-> k.code + Release, mouse |-> FALSE, means |-> Nothing],
                  bits \ shiftcode(Index(k)))
<1> DEFINE to == Flip(bits \cup shiftcode(Index(k)), togglecode(Index(k)))
           c == Character(to, Index(k))
<1>1. /\ k.code \in 1 .. 127 /\ k.code # E0 /\ k.code + Release # E0
      /\ k.ext \in BOOLEAN /\ ~(k.code >= Release) /\ k.code + Release >= Release
  BY ConsoleAssumption DEF Release, E0
<1>2. "E0ESC" \in from <=> k.ext
  OBVIOUS
<1>3. KeyOf(from, k.code) = Index(k) /\ KeyOf(from, k.code + Release) = Index(k)
  BY <1>1, <1>2 DEF KeyOf, Index, Release
<1>4. from \ {"E0ESC"} = bits
  OBVIOUS
<1>5. Pressed(from, Index(k)) = to
  BY <1>4 DEF Pressed
<1> HIDE DEF to, c
<1>6. kbd_proc_data(from, k.code) = [shift |-> to, c |-> c, reboot |-> Reboots(to, c)]
  BY <1>1, <1>3, <1>5, Decoding DEF c
<1>7. kbd_proc_data(from, k.code + Release) =
        [shift |-> from \ (shiftcode(Index(k)) \cup {"E0ESC"}), c |-> 0, reboot |-> FALSE]
  <2>1. PICK byte : byte = k.code + Release
    OBVIOUS
  <2>2. byte # E0 /\ byte >= Release /\ KeyOf(from, byte) = Index(k)
    BY <2>1, <1>1, <1>3
  <2>3. kbd_proc_data(from, byte) =
          [shift |-> from \ (shiftcode(KeyOf(from, byte)) \cup {"E0ESC"}), c |-> 0,
           reboot |-> FALSE]
    BY <2>2, Decoding
  <2> QED
    BY <2>1, <2>2, <2>3
<1>8. from \ (shiftcode(Index(k)) \cup {"E0ESC"}) = bits \ shiftcode(Index(k))
  BY <1>4
<1>9. ASSUME NEW d, NEW t, NEW m
      PROVE  (LET r == kbd_proc_data(from, d)
              IN  r.shift = t /\ r.c = m.c /\ r.reboot = m.reboot)
               => Decodes(from, [data |-> d, mouse |-> FALSE, means |-> m], t)
  BY DEF Decodes
<1>10. Decodes(from,
         [data |-> k.code, mouse |-> FALSE,
          means |-> [c |-> c, reboot |-> Reboots(to, c)]], to)
  BY <1>6, <1>9
<1>11. Decodes(from,
         [data |-> k.code + Release, mouse |-> FALSE, means |-> Nothing],
         bits \ shiftcode(Index(k)))
  <2> DEFINE r == kbd_proc_data(from, k.code + Release)
  <2>1. r.shift = bits \ shiftcode(Index(k)) /\ r.c = Nothing.c
    BY <1>7, <1>8 DEF Nothing
  <2>2. r.reboot = FALSE
    BY <1>7
  <2>3. Nothing.reboot = FALSE
    BY DEF Nothing
  <2> HIDE DEF r
  <2>4. r.reboot = Nothing.reboot
    BY <2>2, <2>3
  <2> QED
    BY <2>1, <2>4, <1>9 DEF r
<1> QED
  BY <1>10, <1>11 DEF to, c

-----------------------------------------------------------------------------
LEMMA Constants ==
  /\ CONSBUFSIZE \in Nat /\ CONSBUFSIZE > 1 /\ MaxPolls \in Nat
  /\ \A b \in SerialBytes : b \in 0 .. 255
  /\ \A k \in Keys : k.code \in 0 .. 127 /\ k.ext \in BOOLEAN /\ Index(k) \in 0 .. 255
  /\ "E0ESC" \notin Modifiers \cup Toggles
  /\ ShiftBits \ {"E0ESC"} = Modifiers \cup Toggles
<1>1. \A k \in Keys : k.code \in 0 .. 127 /\ k.ext \in BOOLEAN /\ Index(k) \in 0 .. 255
  BY ConsoleAssumption DEF Release, Index
<1>2. CONSBUFSIZE \in Nat /\ CONSBUFSIZE > 1 /\ MaxPolls \in Nat
      /\ \A b \in SerialBytes : b \in 0 .. 255
  BY ConsoleAssumption
<1> QED
  BY <1>1, <1>2 DEF ShiftBits, Modifiers, Toggles

LEMMA TwoAppended ==
  ASSUME NEW q \in Seq(Byte), NEW x \in Byte, NEW y \in Byte
  PROVE  q \o (<<x>> \o <<y>>) = Append(Append(q, x), y)
  OBVIOUS

LEMMA BytesAppended ==
  ASSUME NEW q \in Seq(Byte), NEW k \in Keys, NEW last \in 0 .. 255, NEW m \in Meaning,
         NEW a, NEW bits \in SUBSET ShiftBits, NEW to \in SUBSET ShiftBits,
         DecodesAll(a, q, bits),
         NEW from, from = IF k.ext THEN bits \cup {"E0ESC"} ELSE bits,
         NEW e, e = [data |-> last, mouse |-> FALSE, means |-> m],
         Decodes(from, e, to),
         NEW r, r = q \o Bytes(k, last, m)
  PROVE  DecodesAll(a, r, to) /\ r \in Seq(Byte)
<1> DEFINE esc == [data |-> E0, mouse |-> FALSE, means |-> Nothing]
<1>1. esc \in Byte /\ e \in Byte
  BY DEF Byte, Meaning, Nothing, E0
<1>2. Bytes(k, last, m) = (IF k.ext THEN <<esc>> ELSE <<>>) \o <<e>>
  BY DEF Bytes
<1>3. CASE k.ext
  <2>1. DecodesAll(a, Append(q, esc), from) /\ Append(q, esc) \in Seq(Byte)
    <3>1. from \in SUBSET ShiftBits /\ from = bits \cup {"E0ESC"}
      BY <1>3 DEF ShiftBits
    <3> QED
      BY <3>1, <1>1, EscapeDecodes, DecodesAppend
  <2> HIDE DEF esc
  <2>2. /\ DecodesAll(a, Append(Append(q, esc), e), to)
        /\ Append(Append(q, esc), e) \in Seq(Byte)
    BY <2>1, <1>1, DecodesAppend
  <2>3. q \o (<<esc>> \o <<e>>) = Append(Append(q, esc), e)
    BY <1>1, TwoAppended
  <2> QED
    BY <2>2, <2>3, <1>2, <1>3
<1>4. CASE ~k.ext
  <2>1. DecodesAll(a, Append(q, e), to) /\ Append(q, e) \in Seq(Byte)
    BY <1>1, <1>4, DecodesAppend
  <2>2. q \o (<<>> \o <<e>>) = Append(q, e)
    BY <1>1
  <2> QED
    BY <2>1, <2>2, <1>2, <1>4
<1> QED
  BY <1>3, <1>4

(* A key adds its bytes to the controller's queue, and what the kernel will *)
(* read there leads to the modifiers that are then pressed.                *)
LEMMA KeyIInv ==
  ASSUME IInv, NEW k \in Keys, NEW last \in 0 .. 255, NEW m \in Meaning,
         NEW to \in SUBSET (ShiftBits \ {"E0ESC"}),
         NEW from, from = IF k.ext THEN keyboard \cup {"E0ESC"} ELSE keyboard,
         Decodes(from, [data |-> last, mouse |-> FALSE, means |-> m], to),
         keyboard' = to, i8042' = i8042 \o Bytes(k, last, m), UNCHANGED <<kernel, uart>>
  PROVE  IInv'
<1>1. keyboard \in SUBSET ShiftBits /\ to \in SUBSET ShiftBits
      /\ i8042 \in Seq(Byte) /\ DecodesAll(shift, i8042, keyboard)
  BY DEF IInv, TypeOK, KeyboardFollowed
<1>2. PICK e : e = [data |-> last, mouse |-> FALSE, means |-> m]
  OBVIOUS
<1>3. Decodes(from, e, to)
  BY <1>2
<1>4. DecodesAll(shift, i8042', to) /\ i8042' \in Seq(Byte)
  BY <1>1, <1>2, <1>3, BytesAppended
<1>5. TypeOK'
  BY DEF IInv, TypeOK, kernel
<1> QED
  BY <1>4, <1>5 DEF IInv, KeyboardFollowed, kernel

LEMMA KeyDownIInv ==
  ASSUME IInv, NEW k \in Keys, KeyDown(k)
  PROVE  IInv'
<1> DEFINE to == Flip(keyboard \cup shiftcode(Index(k)), togglecode(Index(k)))
           c == Character(to, Index(k))
           m == [c |-> c, reboot |-> Reboots(to, c)]
           from == IF k.ext THEN keyboard \cup {"E0ESC"} ELSE keyboard
<1>1. keyboard' = to /\ i8042' = i8042 \o Bytes(k, k.code, m) /\ UNCHANGED <<kernel, uart>>
  BY DEF KeyDown
<1>2. keyboard \in SUBSET (ShiftBits \ {"E0ESC"})
  BY DEF IInv, TypeOK
<1>3. to \in SUBSET (ShiftBits \ {"E0ESC"})
  BY <1>2, Constants, Tables DEF Flip
<1>4. m \in Meaning
  <2>1. c \in 0 .. 255
    BY <1>3, Constants, Tables
  <2>2. Reboots(to, c) \in BOOLEAN
    BY DEF Reboots
  <2> QED
    BY <2>1, <2>2 DEF Meaning
<1>5. Decodes(from, [data |-> k.code, mouse |-> FALSE, means |-> m], to)
  BY <1>2, LastByteDecodes
<1>6. k.code \in 0 .. 255
  BY Constants
<1> HIDE DEF to, m, from
<1> QED
  BY <1>1, <1>3, <1>4, <1>5, <1>6, KeyIInv DEF from

LEMMA KeyUpIInv ==
  ASSUME IInv, NEW k \in Keys, KeyUp(k)
  PROVE  IInv'
<1> DEFINE to == keyboard \ shiftcode(Index(k))
           last == k.code + Release
           from == IF k.ext THEN keyboard \cup {"E0ESC"} ELSE keyboard
<1>1. keyboard' = to /\ i8042' = i8042 \o Bytes(k, last, Nothing) /\ UNCHANGED <<kernel, uart>>
  BY DEF KeyUp
<1>2. keyboard \in SUBSET (ShiftBits \ {"E0ESC"})
  BY DEF IInv, TypeOK
<1>3. to \in SUBSET (ShiftBits \ {"E0ESC"})
  BY <1>2
<1>4. Nothing \in Meaning /\ last \in 0 .. 255
  BY Constants DEF Meaning, Nothing, Release
<1>5. Decodes(from, [data |-> last, mouse |-> FALSE, means |-> Nothing], to)
  BY <1>2, LastByteDecodes
<1> HIDE DEF to, last, from
<1> QED
  BY <1>1, <1>3, <1>4, <1>5, KeyIInv DEF from

(* A Shift, Control or Alt key is no lock and stands for no character.     *)
LEMMA ModifiersMeanNothing ==
  ASSUME NEW x \in 0 .. 255, shiftcode(x) # {}, NEW bits
  PROVE  togglecode(x) = {} /\ Character(bits, x) = 0
<1>1. x \in {29, 157, 42, 54, 56, 184}
  BY DEF shiftcode
<1>2. togglecode(x) = {} /\ normalmap(x) = 0 /\ shiftmap(x) = 0 /\ ctlmap(x) = 0
  BY <1>1 DEF togglecode, normalmap, shiftmap, ctlmap, NO
<1>3. charcode(bits, x) = 0
  BY <1>2 DEF charcode
<1> QED
  BY <1>2, <1>3 DEF Character, Capitals

LEMMA KeyRepeatsIInv ==
  ASSUME IInv, NEW k \in Keys, KeyRepeats(k)
  PROVE  IInv'
<1> DEFINE to == Flip(keyboard \cup shiftcode(Index(k)), togglecode(Index(k)))
           c == Character(to, Index(k))
           m == [c |-> c, reboot |-> Reboots(to, c)]
           from == IF k.ext THEN keyboard \cup {"E0ESC"} ELSE keyboard
<1>1. i8042' = i8042 \o Bytes(k, k.code, Nothing) /\ UNCHANGED <<kernel, uart, keyboard>>
  <2>1. i8042 = <<>> /\ i8042' = Bytes(k, k.code, Nothing)
    BY DEF KeyRepeats
  <2>2. Bytes(k, k.code, Nothing) \in Seq(Byte)
    <3> DEFINE esc == [data |-> E0, mouse |-> FALSE, means |-> Nothing]
               e == [data |-> k.code, mouse |-> FALSE, means |-> Nothing]
    <3>1. esc \in Byte /\ e \in Byte
      BY Constants DEF Byte, Meaning, Nothing, E0
    <3>2. Bytes(k, k.code, Nothing) = (IF k.ext THEN <<esc>> ELSE <<>>) \o <<e>>
      BY DEF Bytes
    <3> HIDE DEF esc, e
    <3>3. (IF k.ext THEN <<esc>> ELSE <<>>) \o <<e>> \in Seq(Byte)
      BY <3>1
    <3> QED
      BY <3>2, <3>3
  <2>3. UNCHANGED <<kernel, uart, keyboard>>
    BY DEF KeyRepeats
  <2> QED
    BY <2>1, <2>2, <2>3
<1>2. keyboard \in SUBSET (ShiftBits \ {"E0ESC"})
  BY DEF IInv, TypeOK
<1>3. Index(k) \in 0 .. 255 /\ shiftcode(Index(k)) # {}
      /\ shiftcode(Index(k)) \subseteq keyboard
  BY Constants DEF KeyRepeats
<1>4. to = keyboard
  <2>1. togglecode(Index(k)) = {}
    BY <1>3, ModifiersMeanNothing
  <2> QED
    BY <1>3, <2>1 DEF Flip
<1>5. m = Nothing
  <2>1. c = 0
    BY <1>3, ModifiersMeanNothing
  <2>2. Reboots(to, 0) = FALSE
    BY DEF Reboots, KEY_DEL
  <2> HIDE DEF to, c
  <2> QED
    BY <2>1, <2>2 DEF Nothing
<1>6. Decodes(from, [data |-> k.code, mouse |-> FALSE, means |-> m], to)
  BY <1>2, LastByteDecodes
<1>7. k.code \in 0 .. 255 /\ Nothing \in Meaning
  BY Constants DEF Meaning, Nothing
<1> HIDE DEF to, m, from
<1> QED
  BY <1>1, <1>2, <1>4, <1>5, <1>6, <1>7, KeyIInv DEF from

LEMMA MouseByteIInv ==
  ASSUME IInv, MouseByte
  PROVE  IInv'
<1> DEFINE e == [data |-> 8, mouse |-> TRUE, means |-> Nothing]
<1>1. i8042' = Append(i8042, e) /\ UNCHANGED <<kernel, uart, keyboard>>
  BY DEF MouseByte
<1>2. e \in Byte /\ Decodes(keyboard, e, keyboard) /\ keyboard \in SUBSET ShiftBits
  BY DEF Byte, Meaning, Nothing, Decodes, IInv, TypeOK
<1>3. DecodesAll(shift, i8042', keyboard) /\ i8042' \in Seq(Byte)
  <2> HIDE DEF e
  <2> QED
    BY <1>1, <1>2, DecodesAppend DEF IInv, KeyboardFollowed
<1>4. TypeOK'
  BY <1>1 DEF IInv, TypeOK, kernel
<1> QED
  BY <1>1, <1>3, <1>4 DEF IInv, KeyboardFollowed, kernel

-----------------------------------------------------------------------------
(* Positions in the buffer, one turn ahead at most.                        *)
LEMMA Wraps ==
  ASSUME NEW x \in 0 .. 2 * CONSBUFSIZE - 1
  PROVE  x % CONSBUFSIZE = IF x < CONSBUFSIZE THEN x ELSE x - CONSBUFSIZE
  BY Constants

LEMMA StoreTypes ==
  ASSUME TypeOK, NEW c \in 0 .. 255, Store(c)
  PROVE  cons' \in [buf : [0 .. CONSBUFSIZE - 1 -> 0 .. 255],
                    rpos : 0 .. CONSBUFSIZE - 1, wpos : 0 .. CONSBUFSIZE - 1]
<1>1. /\ cons \in [buf : [0 .. CONSBUFSIZE - 1 -> 0 .. 255],
                   rpos : 0 .. CONSBUFSIZE - 1, wpos : 0 .. CONSBUFSIZE - 1]
      /\ cons' = cons \/ cons' = [buf |-> [cons.buf EXCEPT ![cons.wpos] = c],
                                  rpos |-> cons.rpos, wpos |-> Advance(cons.wpos)]
  BY DEF TypeOK, Store
<1>2. Advance(cons.wpos) \in 0 .. CONSBUFSIZE - 1
  BY <1>1, Constants DEF Advance
<1>3. cons.wpos \in 0 .. CONSBUFSIZE - 1 /\ cons.rpos \in 0 .. CONSBUFSIZE - 1
      /\ [cons.buf EXCEPT ![cons.wpos] = c] \in [0 .. CONSBUFSIZE - 1 -> 0 .. 255]
  BY <1>1
<1>4. CASE cons' = cons
  BY <1>1, <1>4
<1>5. CASE cons' = [buf |-> [cons.buf EXCEPT ![cons.wpos] = c],
                    rpos |-> cons.rpos, wpos |-> Advance(cons.wpos)]
  BY <1>2, <1>3, <1>5
<1> QED
  BY <1>1, <1>4, <1>5

LEMMA KeyReadIInv ==
  ASSUME IInv, KeyRead
  PROVE  /\ IInv'
         /\ cons' = cons <=> Head(i8042).means.c = 0
         /\ cons' # cons => cons'.buf[cons.wpos] = Head(i8042).means.c
         /\ rebooted' = Head(i8042).means.reboot
         /\ \E c \in 0 .. 255 : Store(c)
<1> DEFINE e == Head(i8042)
           r == kbd_proc_data(shift, e.data)
<1>1. /\ i8042 # <<>> /\ ~e.mouse /\ shift' = r.shift /\ Store(r.c) /\ rebooted' = r.reboot
      /\ i8042' = Tail(i8042)
      /\ UNCHANGED <<serial_exists, pc, got, polls, uart, keyboard, left>>
  BY DEF KeyRead, KeyReady
<1>2. i8042 \in Seq(Byte) /\ DecodesAll(shift, i8042, keyboard) /\ shift \in SUBSET ShiftBits
  BY DEF IInv, TypeOK, KeyboardFollowed
<1>3. PICK d \in SUBSET ShiftBits : Decodes(shift, e, d) /\ DecodesAll(d, i8042', keyboard)
  BY <1>1, <1>2, DecodesHead
<1>4. shift' = d /\ r.c = e.means.c /\ r.reboot = e.means.reboot
  BY <1>1, <1>3 DEF Decodes
<1>5. e \in Byte /\ i8042' \in Seq(Byte)
  BY <1>1, <1>2, HeadTailProperties
<1>6. e.means.c \in 0 .. 255
  BY <1>5 DEF Byte, Meaning
<1> HIDE DEF e, r
<1>7. Store(e.means.c)
  BY <1>1, <1>4
<1>8. TypeOK'
  <2>1. cons' \in [buf : [0 .. CONSBUFSIZE - 1 -> 0 .. 255],
                   rpos : 0 .. CONSBUFSIZE - 1, wpos : 0 .. CONSBUFSIZE - 1]
    BY <1>6, <1>7, StoreTypes DEF IInv
  <2> QED
    BY <2>1, <1>1, <1>4 DEF IInv, TypeOK
<1>9. IInv'
  BY <1>1, <1>3, <1>4, <1>5, <1>8 DEF IInv, KeyboardFollowed
<1>10. /\ cons' = cons <=> e.means.c = 0
       /\ cons' # cons => cons'.buf[cons.wpos] = e.means.c
  <2>1. cons \in [buf : [0 .. CONSBUFSIZE - 1 -> 0 .. 255],
                  rpos : 0 .. CONSBUFSIZE - 1, wpos : 0 .. CONSBUFSIZE - 1]
    BY DEF IInv, TypeOK
  <2>2. CASE e.means.c = 0
    BY <2>2, <1>7 DEF Store
  <2>3. CASE e.means.c # 0
    <3>1. cons' = [buf |-> [cons.buf EXCEPT ![cons.wpos] = e.means.c],
                   rpos |-> cons.rpos, wpos |-> Advance(cons.wpos)]
      BY <2>1, <2>3, <1>7 DEF Store
    <3>2. Advance(cons.wpos) # cons.wpos
      BY <2>1, Constants DEF Advance
    <3>3. cons'.wpos # cons.wpos /\ cons'.buf[cons.wpos] = e.means.c
      BY <2>1, <3>1, <3>2
    <3> QED
      BY <3>3, <2>3
  <2> QED
    BY <2>2, <2>3
<1> QED
  BY <1>1, <1>4, <1>6, <1>7, <1>9, <1>10 DEF e

-----------------------------------------------------------------------------
LEMMA InitIInv == Init => IInv
<1> SUFFICES ASSUME Init
             PROVE  IInv
  OBVIOUS
<1>1. TypeOK
  BY Constants DEF Init, TypeOK
<1>2. DecodesAll({}, <<>>, {})
  BY DecodesNothing
<1> QED
  BY <1>1, <1>2 DEF Init, IInv, KeyboardFollowed

(* The steps that leave the keyboard and what is remembered of it alone.   *)
LEMMA OtherStepsIInv ==
  ASSUME IInv, TypeOK', UNCHANGED <<shift, i8042, keyboard>>
  PROVE  IInv'
  BY DEF IInv, KeyboardFollowed

LEMMA TakeTypes ==
  ASSUME TypeOK, Take
  PROVE  TypeOK' /\ UNCHANGED <<shift, i8042, keyboard, uart>>
<1>1. cons \in [buf : [0 .. CONSBUFSIZE - 1 -> 0 .. 255],
                rpos : 0 .. CONSBUFSIZE - 1, wpos : 0 .. CONSBUFSIZE - 1]
  BY DEF TypeOK
<1>2. Advance(cons.rpos) \in 0 .. CONSBUFSIZE - 1
  BY <1>1, Constants DEF Advance
<1>3. got' \in 0 .. 255
  <2>1. cons.buf[cons.rpos] \in 0 .. 255
    BY <1>1
  <2>2. got' = cons.buf[cons.rpos] \/ got' = 0
    BY Zenon DEF Take
  <2> QED
    BY <2>1, <2>2
<1>4. \/ cons' = cons
      \/ cons' = [buf |-> cons.buf, rpos |-> Advance(cons.rpos), wpos |-> cons.wpos]
  BY <1>1 DEF Take
<1>5. cons' \in [buf : [0 .. CONSBUFSIZE - 1 -> 0 .. 255],
                 rpos : 0 .. CONSBUFSIZE - 1, wpos : 0 .. CONSBUFSIZE - 1]
  <2>1. CASE cons' = cons
    BY <1>1, <2>1
  <2>2. CASE cons' = [buf |-> cons.buf, rpos |-> Advance(cons.rpos), wpos |-> cons.wpos]
    <3>1. cons.buf \in [0 .. CONSBUFSIZE - 1 -> 0 .. 255] /\ cons.wpos \in 0 .. CONSBUFSIZE - 1
      BY <1>1
    <3> QED
      BY <1>2, <2>2, <3>1
  <2> QED
    BY <1>4, <2>1, <2>2
<1>6. pc' \in {"serial", "keyboard", "serial_putc"}
  BY DEF Take, Return, First
<1>7. UNCHANGED <<shift, polls, uart, i8042, keyboard>>
  BY DEF Take, devices
<1> QED
  BY <1>3, <1>5, <1>6, <1>7 DEF TypeOK

LEMMA NextIInv ==
  ASSUME IInv, [Next]_vars
  PROVE  IInv'
<1> USE DEF devices, kernel
<1>1. TypeOK
  BY DEF IInv
<1>2. CASE \E k \in Keys : KeyDown(k) \/ KeyUp(k) \/ KeyRepeats(k)
  BY <1>2, KeyDownIInv, KeyUpIInv, KeyRepeatsIInv
<1>3. CASE MouseByte
  BY <1>3, MouseByteIInv
<1>4. CASE KeyRead
  BY <1>4, KeyReadIInv
<1>5. CASE (\E b \in SerialBytes : SerialByte(b)) \/ SerialStream
  <2>1. PICK b \in 0 .. 255 : SerialByte(b) \/ (b = 0 /\ SerialStream)
    BY <1>5, Constants
  <2>2. uart' = b /\ UNCHANGED <<kernel, i8042, keyboard>>
    BY <2>1 DEF SerialByte, SerialStream
  <2>3. TypeOK'
    BY <1>1, <2>2 DEF TypeOK
  <2> QED
    BY <2>2, <2>3, OtherStepsIInv
<1>6. CASE cons_init
  <2>1. pc' \in {"serial", "serial_putc"} /\ uart' = NULL
    BY <1>6 DEF cons_init
  <2>2. TypeOK'
    BY <1>1, <1>6, <2>1 DEF cons_init, TypeOK
  <2> QED
    BY <1>6, <2>2, OtherStepsIInv DEF cons_init
<1>7. CASE SerialRead
  <2>1. uart \in 0 .. 255 /\ Store(uart)
    BY <1>1, <1>7 DEF SerialRead, TypeOK
  <2>2. cons' \in [buf : [0 .. CONSBUFSIZE - 1 -> 0 .. 255],
                   rpos : 0 .. CONSBUFSIZE - 1, wpos : 0 .. CONSBUFSIZE - 1]
    BY <1>1, <2>1, StoreTypes
  <2>3. TypeOK'
    BY <1>1, <1>7, <2>2 DEF SerialRead, TypeOK
  <2> QED
    BY <1>7, <2>3, OtherStepsIInv DEF SerialRead
<1>8. CASE Take
  BY <1>1, <1>8, TakeTypes, OtherStepsIInv
<1>9. CASE SerialDone \/ KeyDone
  BY <1>1, <1>9, OtherStepsIInv DEF SerialDone, KeyDone, TypeOK
<1>10. CASE cons_putc
  <2>1. pc' \in {pc, "lpt_putc", "serial", "keyboard"} /\ polls' \in 0 .. MaxPolls
    BY <1>1, <1>10, Constants
       DEF cons_putc, SerialNotReady, SerialSends, ParallelNotReady, ParallelSends,
           NotReady, Sent, First, TypeOK
  <2>2. UNCHANGED <<cons, shift, got, devices>>
    BY <1>10
       DEF cons_putc, SerialNotReady, SerialSends, ParallelNotReady, ParallelSends,
           NotReady, Sent
  <2>3. TypeOK'
    BY <1>1, <2>1, <2>2 DEF TypeOK
  <2> QED
    BY <2>2, <2>3, OtherStepsIInv
<1>11. CASE UNCHANGED vars
  BY <1>1, <1>11, OtherStepsIInv DEF vars, TypeOK
<1> QED
  BY <1>2, <1>3, <1>4, <1>5, <1>6, <1>7, <1>8, <1>9, <1>10, <1>11 DEF Next, Kernel, World

LEMMA InvariantHolds == Spec => []IInv
  BY InitIInv, NextIInv, PTL DEF Spec

(* The buffer's positions stay within it, what it holds and what cons_getc *)
(* returns are characters of a byte, and the polling counts to its limit.  *)
THEOREM ConsoleTypeCorrect == Spec => []TypeOK
<1>1. IInv => TypeOK
  BY DEF IInv
<1> QED
  BY <1>1, InvariantHolds, PTL

(* A byte of the keyboard gives the character that its key meant when it   *)
(* was pressed, whatever has been pressed since (console.c:316-365).       *)
THEOREM KeysDecoded == Spec => KeysMeanWhatWasPressed
<1>1. IInv /\ [Next]_vars =>
        [KeyRead =>
           /\ cons' = cons <=> Head(i8042).means.c = 0
           /\ cons' # cons => cons'.buf[cons.wpos] = Head(i8042).means.c
           /\ rebooted' = Head(i8042).means.reboot]_vars
  BY KeyReadIInv
<1> QED
  BY <1>1, InvariantHolds, PTL DEF Spec, KeysMeanWhatWasPressed

-----------------------------------------------------------------------------
(* The ring buffer is a queue.  Unread, of any ring buffer.                *)
Ring == [buf : [0 .. CONSBUFSIZE - 1 -> 0 .. 255],
         rpos : 0 .. CONSBUFSIZE - 1, wpos : 0 .. CONSBUFSIZE - 1]

Contents(r) ==
  LET n == (r.wpos + CONSBUFSIZE - r.rpos) % CONSBUFSIZE
  IN  [i \in 1 .. n |-> r.buf[(r.rpos + i - 1) % CONSBUFSIZE]]

(* How many characters there are, and where each of them is.               *)
Distance(from, to) == IF from <= to THEN to - from ELSE to + CONSBUFSIZE - from

Place(from, i) == IF from + i - 1 < CONSBUFSIZE THEN from + i - 1
                  ELSE from + i - 1 - CONSBUFSIZE

LEMMA NextPlace ==
  ASSUME NEW a \in 0 .. CONSBUFSIZE - 1, NEW i \in 1 .. CONSBUFSIZE - 1
  PROVE  Place(Advance(a), i) = Place(a, i + 1)
  BY Constants DEF Advance, Place

LEMMA Positions ==
  ASSUME NEW a \in 0 .. CONSBUFSIZE - 1, NEW b \in 0 .. CONSBUFSIZE - 1
  PROVE  /\ Advance(a) \in 0 .. CONSBUFSIZE - 1
         /\ Distance(a, b) \in 0 .. CONSBUFSIZE - 1
         /\ Distance(a, b) = CONSBUFSIZE - 1 => Distance(a, Advance(b)) = 0
         /\ Distance(a, b) # CONSBUFSIZE - 1 =>
              Distance(a, Advance(b)) = Distance(a, b) + 1
         /\ a # b => Distance(a, b) > 0 /\ Distance(Advance(a), b) = Distance(a, b) - 1
         /\ \A i \in 1 .. CONSBUFSIZE - 1 : Place(a, i) \in 0 .. CONSBUFSIZE - 1
         /\ \A i \in 1 .. Distance(a, b) : Place(a, i) # b
         /\ Place(a, Distance(a, b) + 1) = b /\ Place(a, 1) = a
         /\ (b + CONSBUFSIZE - a) % CONSBUFSIZE = Distance(a, b)
         /\ \A i \in 1 .. CONSBUFSIZE - 1 : (a + i - 1) % CONSBUFSIZE = Place(a, i)
<1> USE Constants DEF Advance, Distance, Place
<1>1. Advance(a) \in 0 .. CONSBUFSIZE - 1 /\ Distance(a, b) \in 0 .. CONSBUFSIZE - 1
  OBVIOUS
<1>2. /\ Distance(a, b) = CONSBUFSIZE - 1 => Distance(a, Advance(b)) = 0
      /\ Distance(a, b) # CONSBUFSIZE - 1 =>
           Distance(a, Advance(b)) = Distance(a, b) + 1
  OBVIOUS
<1>3. a # b => Distance(a, b) > 0 /\ Distance(Advance(a), b) = Distance(a, b) - 1
  OBVIOUS
<1>4. ASSUME NEW i \in 1 .. CONSBUFSIZE - 1
      PROVE  Place(a, i) \in 0 .. CONSBUFSIZE - 1
  OBVIOUS
<1>5. \A i \in 1 .. Distance(a, b) : Place(a, i) # b
  OBVIOUS
<1>6. Place(a, Distance(a, b) + 1) = b /\ Place(a, 1) = a
  OBVIOUS
<1>7. (b + CONSBUFSIZE - a) % CONSBUFSIZE = Distance(a, b)
  <2>1. b + CONSBUFSIZE - a \in 0 .. 2 * CONSBUFSIZE - 1
    OBVIOUS
  <2> QED
    BY <2>1, Wraps
<1>8. ASSUME NEW i \in 1 .. CONSBUFSIZE - 1
      PROVE  (a + i - 1) % CONSBUFSIZE = Place(a, i)
  <2>1. a + i - 1 \in 0 .. 2 * CONSBUFSIZE - 1
    OBVIOUS
  <2> QED
    BY <2>1, Wraps
<1> QED
  BY <1>1, <1>2, <1>3, <1>4, <1>5, <1>6, <1>7, <1>8

LEMMA ContentsAt ==
  ASSUME NEW r \in Ring
  PROVE  /\ Distance(r.rpos, r.wpos) \in 0 .. CONSBUFSIZE - 1
         /\ Contents(r) \in Seq(0 .. 255) /\ Len(Contents(r)) = Distance(r.rpos, r.wpos)
         /\ \A i \in 1 .. Distance(r.rpos, r.wpos) :
              /\ Place(r.rpos, i) \in 0 .. CONSBUFSIZE - 1
              /\ Contents(r)[i] = r.buf[Place(r.rpos, i)]
<1> DEFINE n == Distance(r.rpos, r.wpos)
<1>1. /\ r.rpos \in 0 .. CONSBUFSIZE - 1 /\ r.wpos \in 0 .. CONSBUFSIZE - 1
      /\ r.buf \in [0 .. CONSBUFSIZE - 1 -> 0 .. 255]
  BY DEF Ring
<1>2. n \in 0 .. CONSBUFSIZE - 1
  BY <1>1, Positions, Zenon
<1>3. (r.wpos + CONSBUFSIZE - r.rpos) % CONSBUFSIZE = n
  BY <1>1, Positions, Zenon
<1>4. \A i \in 1 .. n :
        /\ (r.rpos + i - 1) % CONSBUFSIZE = Place(r.rpos, i)
        /\ Place(r.rpos, i) \in 0 .. CONSBUFSIZE - 1
  <2>1. \A i \in 1 .. CONSBUFSIZE - 1 :
          /\ (r.rpos + i - 1) % CONSBUFSIZE = Place(r.rpos, i)
          /\ Place(r.rpos, i) \in 0 .. CONSBUFSIZE - 1
    BY <1>1, Positions, Zenon
  <2> HIDE DEF n
  <2>2. \A i \in 1 .. n : i \in 1 .. CONSBUFSIZE - 1
    BY <1>2, Constants
  <2> QED
    BY <2>1, <2>2
<1> HIDE DEF n
<1>5. Contents(r) = [i \in 1 .. n |-> r.buf[Place(r.rpos, i)]]
  BY <1>3, <1>4 DEF Contents
<1> QED
  <2>1. Contents(r) \in Seq(0 .. 255) /\ Len(Contents(r)) = n
        /\ \A i \in 1 .. n : Contents(r)[i] = r.buf[Place(r.rpos, i)]
    <3>1. \A i \in 1 .. n : r.buf[Place(r.rpos, i)] \in 0 .. 255
      BY <1>1, <1>4
    <3>2. PICK f : f = [i \in 1 .. n |-> r.buf[Place(r.rpos, i)]]
      OBVIOUS
    <3>3. n \in Nat /\ f \in [1 .. n -> 0 .. 255]
          /\ \A i \in 1 .. n : f[i] = r.buf[Place(r.rpos, i)]
      <4>1. n \in Nat
        BY <1>2, Constants
      <4>2. f \in [1 .. n -> 0 .. 255]
            /\ \A i \in 1 .. n : f[i] = r.buf[Place(r.rpos, i)]
        BY <3>1, <3>2
      <4> QED
        BY <4>1, <4>2
    <3>4. f \in Seq(0 .. 255) /\ Len(f) = n
      <4>1. f \in Seq(0 .. 255)
        BY <3>3, SeqDef
      <4>2. Len(f) \in Nat /\ DOMAIN f = 1 .. Len(f) /\ DOMAIN f = 1 .. n
        BY <3>3, <4>1, LenProperties
      <4> QED
        BY <3>3, <4>1, <4>2
    <3> QED
      BY <1>5, <3>2, <3>3, <3>4
  <2> QED
    BY <1>2, <1>4, <2>1 DEF n

(* cons_intr's store appends, unless it catches up with the reader.        *)
LEMMA StoreContents ==
  ASSUME NEW r \in Ring, NEW c \in 0 .. 255,
         NEW s, s = [buf |-> [r.buf EXCEPT ![r.wpos] = c],
                     rpos |-> r.rpos, wpos |-> Advance(r.wpos)]
  PROVE  Contents(s) = IF Len(Contents(r)) = CONSBUFSIZE - 1 THEN <<>>
                       ELSE Append(Contents(r), c)
<1> DEFINE n == Distance(r.rpos, r.wpos)
<1>1. /\ r.rpos \in 0 .. CONSBUFSIZE - 1 /\ r.wpos \in 0 .. CONSBUFSIZE - 1
      /\ r.buf \in [0 .. CONSBUFSIZE - 1 -> 0 .. 255]
  BY DEF Ring
<1>2. /\ s.rpos = r.rpos /\ s.wpos = Advance(r.wpos)
      /\ s.buf = [r.buf EXCEPT ![r.wpos] = c]
      /\ s.wpos \in 0 .. CONSBUFSIZE - 1
      /\ s.buf \in [0 .. CONSBUFSIZE - 1 -> 0 .. 255]
  BY <1>1, Positions, Zenon
<1>3. s \in Ring
  BY <1>1, <1>2 DEF Ring
<1>4. CASE n = CONSBUFSIZE - 1
  <2>1. Distance(s.rpos, s.wpos) = 0
    <3>1. Distance(r.rpos, Advance(r.wpos)) = 0
      BY <1>1, <1>4, Positions, Zenon
    <3> QED
      BY <1>2, <3>1
  <2> QED
    BY <1>3, <1>4, <2>1, ContentsAt, EmptySeq
<1>5. CASE n # CONSBUFSIZE - 1
  <2>1. Distance(s.rpos, s.wpos) = n + 1
    <3>1. Distance(r.rpos, Advance(r.wpos)) = n + 1
      BY <1>1, <1>5, Positions, Zenon
    <3> QED
      BY <1>2, <3>1, Zenon
  <2>2. \A i \in 1 .. n : Place(s.rpos, i) = Place(r.rpos, i) /\ Place(r.rpos, i) # r.wpos
    <3>1. \A i \in 1 .. n : Place(r.rpos, i) # r.wpos
      BY <1>1, Positions, Zenon
    <3> QED
      BY <1>2, <3>1
  <2>3. Place(s.rpos, n + 1) = r.wpos
    BY <1>1, <1>2, Positions, Zenon
  <2>4. n \in 0 .. CONSBUFSIZE - 1 /\ Contents(r) \in Seq(0 .. 255) /\ Len(Contents(r)) = n
        /\ \A i \in 1 .. n : Place(r.rpos, i) \in 0 .. CONSBUFSIZE - 1
                             /\ Contents(r)[i] = r.buf[Place(r.rpos, i)]
    BY ContentsAt
  <2>5. Contents(s) \in Seq(0 .. 255) /\ Len(Contents(s)) = n + 1
        /\ \A i \in 1 .. n + 1 : Contents(s)[i] = s.buf[Place(s.rpos, i)]
    BY <1>3, <2>1, ContentsAt
  <2> HIDE DEF n
  <2>6. ASSUME NEW i \in 1 .. n
        PROVE  Contents(s)[i] = Contents(r)[i]
    <3>1. i \in 1 .. n + 1
      BY <2>4
    <3>2. Contents(s)[i] = s.buf[Place(r.rpos, i)]
      BY <2>2, <2>5, <3>1
    <3>3. Contents(r)[i] = r.buf[Place(r.rpos, i)] /\ Place(r.rpos, i) \in 0 .. CONSBUFSIZE - 1
      BY <2>4
    <3> QED
      BY <1>1, <1>2, <2>2, <3>2, <3>3
  <2>7. Contents(s)[n + 1] = c
    <3>1. n + 1 \in 1 .. n + 1
      BY <2>4
    <3>2. Contents(s)[n + 1] = s.buf[r.wpos]
      BY <2>3, <2>5, <3>1
    <3> QED
      BY <1>1, <1>2, <3>2
  <2>8. PICK q, t : q = Contents(r) /\ t = Contents(s)
    OBVIOUS
  <2>9. /\ Append(q, c) \in Seq(0 .. 255) /\ Len(Append(q, c)) = n + 1
        /\ Append(q, c)[n + 1] = c /\ \A i \in 1 .. n : Append(q, c)[i] = q[i]
    BY <2>4, <2>8
  <2>10. t = Append(q, c)
    <3> DEFINE u == Append(q, c)
    <3>1. u \in Seq(0 .. 255) /\ t \in Seq(0 .. 255) /\ Len(t) = n + 1 /\ Len(u) = n + 1
      BY <2>5, <2>8, <2>9
    <3>2. u[n + 1] = c /\ t[n + 1] = c /\ \A i \in 1 .. n : u[i] = t[i]
      BY <2>6, <2>7, <2>8, <2>9
    <3> HIDE DEF u
    <3>3. \A i \in 1 .. Len(t) : t[i] = u[i]
      BY <2>4, <3>1, <3>2
    <3>4. t = u
      BY <3>1, <3>3, SeqEqual
    <3> QED
      BY <3>4 DEF u
  <2> QED
    BY <1>5, <2>4, <2>8, <2>10
<1> QED
  BY <1>4, <1>5

(* cons_getc takes the oldest character.                                   *)
LEMMA TakeContents ==
  ASSUME NEW r \in Ring, r.rpos # r.wpos,
         NEW s, s = [buf |-> r.buf, rpos |-> Advance(r.rpos), wpos |-> r.wpos]
  PROVE  /\ Contents(r) # <<>> /\ Head(Contents(r)) = r.buf[r.rpos]
         /\ Contents(s) = Tail(Contents(r))
<1> DEFINE n == Distance(r.rpos, r.wpos)
<1>1. /\ r.rpos \in 0 .. CONSBUFSIZE - 1 /\ r.wpos \in 0 .. CONSBUFSIZE - 1
      /\ r.buf \in [0 .. CONSBUFSIZE - 1 -> 0 .. 255]
  BY DEF Ring
<1>2. /\ s.rpos = Advance(r.rpos) /\ s.wpos = r.wpos /\ s.buf = r.buf
      /\ s.rpos \in 0 .. CONSBUFSIZE - 1
  BY <1>1, Positions, Zenon
<1>3. s \in Ring
  BY <1>1, <1>2 DEF Ring
<1>4. /\ n \in 1 .. CONSBUFSIZE - 1 /\ Distance(s.rpos, s.wpos) = n - 1
      /\ Place(r.rpos, 1) = r.rpos
  <2>1. n \in 0 .. CONSBUFSIZE - 1 /\ n > 0 /\ Distance(Advance(r.rpos), r.wpos) = n - 1
        /\ Place(r.rpos, 1) = r.rpos
    BY <1>1, Positions, Zenon
  <2> HIDE DEF n
  <2> QED
    BY <1>2, <2>1
<1>5. \A i \in 1 .. n - 1 : Place(s.rpos, i) = Place(r.rpos, i + 1)
  <2>1. \A i \in 1 .. CONSBUFSIZE - 1 : Place(Advance(r.rpos), i) = Place(r.rpos, i + 1)
    BY <1>1, NextPlace
  <2>2. \A i \in 1 .. n - 1 : i \in 1 .. CONSBUFSIZE - 1
    <3> HIDE DEF n
    <3> QED
      BY <1>4, Constants
  <2> HIDE DEF n
  <2> QED
    BY <1>2, <2>1, <2>2
<1>6. Contents(r) \in Seq(0 .. 255) /\ Len(Contents(r)) = n
      /\ \A i \in 1 .. n : Contents(r)[i] = r.buf[Place(r.rpos, i)]
  BY ContentsAt
<1>7. Contents(s) \in Seq(0 .. 255) /\ Len(Contents(s)) = n - 1
      /\ \A i \in 1 .. n - 1 : Contents(s)[i] = r.buf[Place(s.rpos, i)]
  BY <1>2, <1>3, <1>4, ContentsAt
<1> HIDE DEF n
<1>8. PICK q, t : q = Contents(r) /\ t = Contents(s)
  OBVIOUS
<1>9. /\ q # <<>> /\ Head(q) = q[1] /\ Tail(q) \in Seq(0 .. 255) /\ Len(Tail(q)) = n - 1
      /\ \A i \in 1 .. n - 1 : Tail(q)[i] = q[i + 1]
  BY <1>4, <1>6, <1>8, EmptySeq, HeadTailProperties
<1>10. t = Tail(q)
  <2>1. ASSUME NEW i \in 1 .. n - 1
        PROVE  t[i] = Tail(q)[i]
    <3>1. i + 1 \in 1 .. n
      BY <1>4
    <3>2. /\ t[i] = r.buf[Place(s.rpos, i)] /\ q[i + 1] = r.buf[Place(r.rpos, i + 1)]
          /\ Tail(q)[i] = q[i + 1]
      BY <3>1, <1>6, <1>7, <1>8, <1>9
    <3> QED
      BY <1>5, <3>2
  <2> QED
    BY <1>7, <1>8, <1>9, <2>1, SeqEqual
<1> QED
  BY <1>4, <1>6, <1>8, <1>9, <1>10

LEMMA UnreadContents ==
  /\ Unread = Contents(cons) /\ Unread' = Contents(cons')
  /\ TypeOK => cons \in Ring
  BY DEF Unread, Contents, TypeOK, Ring

LEMMA StoreEnqueues ==
  ASSUME TypeOK, NEW c \in 0 .. 255, Store(c)
  PROVE  Input!Enqueue(c)
<1>1. cons \in Ring /\ Unread = Contents(cons) /\ Unread' = Contents(cons')
  BY UnreadContents
<1>2. CASE c = 0
  <2>1. cons' = cons
    BY <1>2 DEF Store
  <2> QED
    BY <1>1, <1>2, <2>1 DEF Input!Enqueue
<1>3. CASE c # 0
  <2>1. PICK r : r = cons
    OBVIOUS
  <2>2. PICK s : s = [buf |-> [r.buf EXCEPT ![r.wpos] = c],
                      rpos |-> r.rpos, wpos |-> Advance(r.wpos)]
    OBVIOUS
  <2>3. cons' = s
    <3>1. cons' = [buf |-> [cons.buf EXCEPT ![cons.wpos] = c],
                   rpos |-> cons.rpos, wpos |-> Advance(cons.wpos)]
      BY <1>3 DEF Store, TypeOK
    <3> QED
      BY <2>1, <2>2, <3>1
  <2>4. Contents(s) = IF Len(Contents(r)) = CONSBUFSIZE - 1 THEN <<>>
                      ELSE Append(Contents(r), c)
    BY <1>1, <2>1, <2>2, StoreContents
  <2> QED
    BY <1>1, <1>3, <2>1, <2>3, <2>4, Zenon DEF Input!Enqueue
<1> QED
  BY <1>2, <1>3

LEMMA TakeGets ==
  ASSUME TypeOK, Take
  PROVE  Input!Get \/ Input!GetNothing
<1>1. cons \in Ring /\ Unread = Contents(cons) /\ Unread' = Contents(cons')
  BY UnreadContents
<1>2. uart' = uart /\ pc = "take" /\ pc' # "init"
  BY DEF Take, devices, Return, First
<1>3. CASE cons.rpos = cons.wpos
  <2>1. got' = 0 /\ cons' = cons
    BY <1>3 DEF Take
  <2>2. Unread = <<>>
    <3>1. Distance(cons.rpos, cons.wpos) = 0
      BY <1>1, <1>3 DEF Distance, Ring
    <3> QED
      BY <1>1, <3>1, ContentsAt, EmptySeq
  <2> QED
    BY <1>1, <1>2, <2>1, <2>2 DEF Input!GetNothing
<1>4. CASE cons.rpos # cons.wpos
  <2>1. PICK r, s : r = cons /\ s = [buf |-> r.buf, rpos |-> Advance(r.rpos), wpos |-> r.wpos]
    OBVIOUS
  <2>2. got' = r.buf[r.rpos] /\ cons' = s
    BY <1>1, <1>4, <2>1 DEF Take, Ring
  <2>3. /\ Contents(r) # <<>> /\ Head(Contents(r)) = r.buf[r.rpos]
        /\ Contents(s) = Tail(Contents(r))
    BY <1>1, <1>4, <2>1, TakeContents
  <2> QED
    BY <1>1, <1>2, <2>1, <2>2, <2>3, Zenon DEF Input!Get
<1> QED
  BY <1>3, <1>4

(* Every step of the console is one of the queue, or leaves it alone.      *)
LEMMA StepRefines ==
  ASSUME IInv, [Next]_vars
  PROVE  [Input!Next]_(Input!vars)
<1> DEFINE port == IF pc = "init" THEN NULL ELSE uart
<1> USE DEF devices, kernel
<1>1. TypeOK
  BY DEF IInv
<1>2. ASSUME UNCHANGED <<cons, got, port>>
      PROVE  UNCHANGED Input!vars
  <2>1. Unread' = Unread
    BY <1>2, UnreadContents
  <2> QED
    BY <1>2, <2>1, Zenon DEF Input!vars
<1>3. ASSUME UNCHANGED <<cons, got, pc, uart>>
      PROVE  UNCHANGED Input!vars
  BY <1>2, <1>3
<1>4. CASE \E k \in Keys : KeyDown(k) \/ KeyUp(k) \/ KeyRepeats(k)
  BY <1>3, <1>4 DEF KeyDown, KeyUp, KeyRepeats
<1>5. CASE MouseByte
  BY <1>3, <1>5 DEF MouseByte
<1>6. CASE (\E b \in SerialBytes : SerialByte(b)) \/ SerialStream
  <2>1. PICK b \in 0 .. 255 : SerialByte(b) \/ (b = 0 /\ SerialStream)
    BY <1>6, Constants
  <2>2. uart' = b /\ UNCHANGED <<cons, got, pc>> /\ b \in 0 .. 255
    BY <2>1 DEF SerialByte, SerialStream
  <2>3. CASE pc = "init"
    BY <1>2, <2>2, <2>3
  <2>4. CASE pc # "init"
    <3>1. Unread' = Unread
      BY <2>2, UnreadContents
    <3>2. Input!Arrive(b)
      BY <2>2, <2>4, <3>1 DEF Input!Arrive
    <3> QED
      BY <2>2, <3>2 DEF Input!Next
  <2> QED
    BY <2>3, <2>4
<1>7. CASE cons_init
  BY <1>2, <1>7 DEF cons_init
<1>8. CASE SerialRead
  <2>1. /\ uart # NULL /\ uart' = NULL /\ pc = "serial" /\ UNCHANGED <<pc, got>>
        /\ Store(uart)
    BY <1>8 DEF SerialRead
  <2>2. uart \in 0 .. 255
    BY <1>1, <2>1 DEF TypeOK
  <2>3. PICK c \in 0 .. 255 : c = uart
    BY <2>2
  <2>4. Input!Enqueue(c)
    BY <1>1, <2>1, <2>3, StoreEnqueues
  <2>5. Input!Enqueue(port)
    BY <2>1, <2>3, <2>4 DEF Input!Enqueue
  <2>6. Input!ReceiveSerial
    BY <2>1, <2>5 DEF Input!ReceiveSerial
  <2> QED
    BY <2>6 DEF Input!Next
<1>9. CASE KeyRead
  <2>1. PICK c \in 0 .. 255 : Store(c)
    BY <1>9, KeyReadIInv
  <2>2. Input!Enqueue(c)
    BY <1>1, <2>1, StoreEnqueues
  <2>3. UNCHANGED <<port, got>>
    BY <1>9 DEF KeyRead
  <2>4. Input!ReceiveKey(c)
    BY <2>2, <2>3 DEF Input!ReceiveKey
  <2> QED
    BY <2>4 DEF Input!Next
<1>10. CASE Take
  BY <1>1, <1>10, TakeGets DEF Input!Next
<1>11. CASE SerialDone \/ KeyDone
  BY <1>2, <1>11 DEF SerialDone, KeyDone
<1>12. CASE cons_putc
  BY <1>2, <1>12
     DEF cons_putc, SerialNotReady, SerialSends, ParallelNotReady, ParallelSends,
         NotReady, Sent, First
<1>13. CASE UNCHANGED vars
  BY <1>3, <1>13 DEF vars
<1> HIDE DEF port
<1> QED
  BY <1>4, <1>5, <1>6, <1>7, <1>8, <1>9, <1>10, <1>11, <1>12, <1>13
     DEF Next, Kernel, World

(* What cons_intr stores, cons_getc returns, once and in order, for any    *)
(* size of the buffer: the ring buffer of console.c:387-429 is a queue that*)
(* a character too many empties.                                           *)
THEOREM InputQueueImplemented == Spec => ImplementsQueue
<1>1. Init => Input!Init
  <2> SUFFICES ASSUME Init
               PROVE  Input!Init
    OBVIOUS
  <2>1. TypeOK /\ pc = "init" /\ got = 0 /\ cons.rpos = 0 /\ cons.wpos = 0
    BY InitIInv DEF Init, IInv
  <2>2. Unread = <<>>
    <3>1. Distance(cons.rpos, cons.wpos) = 0
      BY <2>1 DEF Distance
    <3> QED
      BY <2>1, <3>1, UnreadContents, ContentsAt, EmptySeq
  <2> QED
    BY <2>1, <2>2 DEF Input!Init
<1>2. IInv /\ [Next]_vars => [Input!Next]_(Input!vars)
  BY StepRefines
<1> QED
  BY <1>1, <1>2, InvariantHolds, PTL DEF Spec, ImplementsQueue, Input!Spec
=============================================================================
