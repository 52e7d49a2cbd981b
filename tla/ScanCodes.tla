----------------------------- MODULE ScanCodes -----------------------------
(***************************************************************************)
(* How kern/console.c turns the scan codes of the keyboard into            *)
(* characters: the tables shiftcode, togglecode, normalmap, shiftmap and   *)
(* ctlmap, and kbd_proc_data, as an operator from the bits it remembers    *)
(* and a byte to the bits and the character.  The tables have the keys     *)
(* that differ in how they are treated, each with its codes: a letter, a   *)
(* digit, Enter, the extended Delete, and all modifiers.                   *)
(***************************************************************************)
EXTENDS Naturals

NO == 0
KEY_DEL == 233
Release == 128    \* the bit of a byte that tells a release from a press
E0 == 224

Modifiers == {"SHIFT", "CTL", "ALT"}
Toggles == {"CAPSLOCK", "NUMLOCK", "SCROLLLOCK"}
ShiftBits == Modifiers \cup Toggles \cup {"E0ESC"}

(* An extended key has the code of the other key of that kind plus 0x80.   *)
shiftcode(data) ==
  CASE data \in {29, 157} -> {"CTL"}
    [] data \in {42, 54} -> {"SHIFT"}
    [] data \in {56, 184} -> {"ALT"}
    [] OTHER -> {}

togglecode(data) ==
  CASE data = 58 -> {"CAPSLOCK"} [] data = 69 -> {"NUMLOCK"}
    [] data = 70 -> {"SCROLLLOCK"} [] OTHER -> {}

normalmap(data) ==
  CASE data = 30 -> 97 [] data = 2 -> 49 [] data \in {28, 156} -> 10
    [] data = 211 -> KEY_DEL [] OTHER -> NO

shiftmap(data) ==
  CASE data = 30 -> 65 [] data = 2 -> 33 [] data \in {28, 156} -> 10
    [] data = 211 -> KEY_DEL [] OTHER -> NO

ctlmap(data) ==
  CASE data = 30 -> 1 [] data = 28 -> 13 [] data = 211 -> KEY_DEL [] OTHER -> NO

charcode(bits, data) ==
  IF "CTL" \in bits THEN ctlmap(data)
  ELSE IF "SHIFT" \in bits THEN shiftmap(data) ELSE normalmap(data)

Capitals(c) ==
  CASE c \in 97 .. 122 -> c - 32 [] c \in 65 .. 90 -> c + 32 [] OTHER -> c

Character(bits, data) ==
  IF "CAPSLOCK" \in bits THEN Capitals(charcode(bits, data)) ELSE charcode(bits, data)

Reboots(bits, c) == {"CTL", "ALT"} \subseteq bits /\ c = KEY_DEL

Flip(bits, b) == (bits \ b) \cup (b \ bits)

(* Mutant of kbd_proc_data: a release keeps the escape.                    *)
kbd_proc_data_KeepsEscape(shift, byte) ==
  LET escaped == "E0ESC" \in shift
      data == IF byte >= Release
              THEN IF escaped THEN byte ELSE byte - Release
              ELSE IF escaped THEN byte + Release ELSE byte
      bits == Flip((shift \ {"E0ESC"}) \cup shiftcode(data), togglecode(data))
      c == Character(bits, data)
  IN  CASE byte = E0 -> [shift |-> shift \cup {"E0ESC"}, c |-> 0, reboot |-> FALSE]
        [] byte # E0 /\ byte >= Release ->
             [shift |-> shift \ shiftcode(data), c |-> 0, reboot |-> FALSE]
        [] OTHER -> [shift |-> bits, c |-> c, reboot |-> Reboots(bits, c)]

(* What becomes of a byte; c = 0 when no character is finished.            *)
kbd_proc_data(shift, byte) ==
  LET escaped == "E0ESC" \in shift
      data == IF byte >= Release
              THEN IF escaped THEN byte ELSE byte - Release
              ELSE IF escaped THEN byte + Release ELSE byte
      bits == Flip((shift \ {"E0ESC"}) \cup shiftcode(data), togglecode(data))
      c == Character(bits, data)
  IN  CASE byte = E0 -> [shift |-> shift \cup {"E0ESC"}, c |-> 0, reboot |-> FALSE]
        [] byte # E0 /\ byte >= Release ->
             [shift |-> shift \ (shiftcode(data) \cup {"E0ESC"}), c |-> 0,
              reboot |-> FALSE]
        [] OTHER -> [shift |-> bits, c |-> c, reboot |-> Reboots(bits, c)]
=============================================================================
