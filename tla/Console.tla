------------------------------ MODULE Console -------------------------------
(***************************************************************************)
(* Console input of kern/console.c: two devices, the ring buffer cons that *)
(* cons_intr fills, cons_getc, which polls both devices before it takes a  *)
(* character, and the echo of that character, which waits for the serial   *)
(* and the parallel port, but not for ever.  Interrupts are off, so nothing*)
(* else calls cons_intr, but the devices deliver bytes at any moment, also *)
(* in the middle of the loops that read them.                              *)
(*                                                                         *)
(* The serial port holds one byte (serial_init turns its FIFO off); a byte *)
(* that comes before that one is read replaces it.  The keyboard           *)
(* controller queues bytes, its own and those of the mouse.  A port that   *)
(* is asked whether it can send answers as it likes.                       *)
(***************************************************************************)
EXTENDS ScanCodes, Sequences

CONSTANTS
  CONSBUFSIZE,   \* 512
  MaxPolls,      \* 12800, how often a port is asked whether it can send
  Keys,          \* keys typed: [code, ext], ext if sent with a leading E0
  SerialBytes,   \* bytes the serial port may receive
  MaxEvents,     \* bound on key presses and releases, and bytes of other devices
  NULL

ASSUME ConsoleAssumption ==
  /\ CONSBUFSIZE \in Nat /\ CONSBUFSIZE > 1 /\ MaxPolls \in Nat
  /\ SerialBytes \subseteq 0 .. 255 /\ NULL \notin 0 .. 255
  /\ \A k \in Keys :
       k.code \in 1 .. Release - 1 /\ k.code + Release # E0 /\ k.ext \in BOOLEAN

VARIABLES
  cons,           \* [buf, rpos, wpos]
  shift,          \* what kbd_proc_data remembers
  serial_exists,
  uart,           \* the byte the serial port holds, or NULL
  i8042,          \* the bytes of the keyboard controller, oldest first
  keyboard,       \* the modifiers pressed, and the locks, as the user knows them
  left,           \* events still to come
  pc, got,        \* where the kernel is, and what cons_getc returned last
  polls,          \* how often the port has said no
  rebooted

kernel == <<cons, shift, serial_exists, pc, got, polls, rebooted>>
devices == <<uart, i8042, keyboard, left>>
vars == <<kernel, devices>>

-----------------------------------------------------------------------------
(* The user and the devices.  A byte remembers what its key meant when it  *)
(* was pressed: the character, and whether the machine is to reboot.       *)
Nothing == [c |-> 0, reboot |-> FALSE]

Index(k) == IF k.ext THEN k.code + Release ELSE k.code

Bytes(k, last, means) ==
  (IF k.ext THEN <<[data |-> E0, mouse |-> FALSE, means |-> Nothing]>> ELSE <<>>)
    \o <<[data |-> last, mouse |-> FALSE, means |-> means]>>

(* A press, or the repetition of a key that stays pressed.                 *)
KeyDown(k) ==
  /\ left > 0
  /\ left' = left - 1
  /\ keyboard' = Flip(keyboard \cup shiftcode(Index(k)), togglecode(Index(k)))
  /\ LET c == Character(keyboard', Index(k))
     IN  i8042' = i8042 \o Bytes(k, k.code, [c |-> c, reboot |-> Reboots(keyboard', c)])
  /\ UNCHANGED <<kernel, uart>>

KeyUp(k) ==
  /\ left > 0
  /\ left' = left - 1
  /\ keyboard' = keyboard \ shiftcode(Index(k))
  /\ i8042' = i8042 \o Bytes(k, k.code + Release, Nothing)
  /\ UNCHANGED <<kernel, uart>>

MouseByte ==
  /\ left > 0
  /\ left' = left - 1
  /\ i8042' = Append(i8042, [data |-> 8, mouse |-> TRUE, means |-> Nothing])
  /\ UNCHANGED <<kernel, uart, keyboard>>

SerialByte(b) ==
  /\ serial_exists \/ pc = "init"
  /\ left > 0
  /\ left' = left - 1
  /\ uart' = b
  /\ UNCHANGED <<kernel, i8042, keyboard>>

(* After these events both devices may deliver without end: null           *)
(* characters, of which cons_intr keeps none, and the code of a Shift,     *)
(* Control or Alt key that stays pressed, again as soon as it was read.    *)
SerialStream ==
  /\ left = 0
  /\ serial_exists \/ pc = "init"
  /\ uart' = 0
  /\ UNCHANGED <<kernel, i8042, keyboard, left>>

KeyRepeats(k) ==
  /\ left = 0
  /\ shiftcode(Index(k)) # {} /\ shiftcode(Index(k)) \subseteq keyboard
  /\ i8042 = <<>>
  /\ i8042' = Bytes(k, k.code, Nothing)
  /\ UNCHANGED <<kernel, uart, keyboard, left>>

-----------------------------------------------------------------------------
Advance(pos) == IF pos + 1 = CONSBUFSIZE THEN 0 ELSE pos + 1

(* Mutant of cons_intr's store: a full buffer drops the new character.     *)
Store_DropsWhenFull(c) ==
  cons' = IF c = 0 \/ Advance(cons.wpos) = cons.rpos
          THEN cons
          ELSE [cons EXCEPT !.buf[cons.wpos] = c, !.wpos = Advance(@)]

(* The body of cons_intr's loop: nothing is kept of a 0, and rpos is not   *)
(* looked at.                                                              *)
Store(c) ==
  cons' = IF c = 0
          THEN cons
          ELSE [cons EXCEPT !.buf[cons.wpos] = c, !.wpos = Advance(@)]

(* cons_getc, called by getchar over and over, starts with serial_intr.    *)
First == IF serial_exists THEN "serial" ELSE "keyboard"

Init ==
  /\ cons = [buf |-> [i \in 0 .. CONSBUFSIZE - 1 |-> 0], rpos |-> 0, wpos |-> 0]
  /\ shift = {} /\ serial_exists = FALSE
  /\ uart = NULL /\ i8042 = <<>> /\ keyboard = {}
  /\ left = MaxEvents
  /\ pc = "init" /\ got = 0 /\ polls = 0 /\ rebooted = FALSE

(* serial_init looks whether there is a port and throws away what it holds.*)
(* That there is none is said on the console.                              *)
cons_init ==
  /\ pc = "init"
  /\ serial_exists' \in {uart # NULL, TRUE}
  /\ uart' = NULL
  /\ pc' = IF serial_exists' THEN "serial" ELSE "serial_putc"
  /\ UNCHANGED <<cons, shift, got, polls, rebooted, i8042, keyboard, left>>

SerialRead ==
  /\ pc = "serial" /\ uart # NULL
  /\ Store(uart)
  /\ uart' = NULL
  /\ UNCHANGED <<shift, serial_exists, pc, got, polls, rebooted, i8042, keyboard, left>>

(* Mutant of SerialDone: the keyboard is not polled.                       *)
SerialDone_SkipsKeyboard ==
  /\ pc = "serial" /\ uart = NULL
  /\ pc' = "take"
  /\ UNCHANGED <<cons, shift, serial_exists, got, polls, rebooted, devices>>

SerialDone ==
  /\ pc = "serial" /\ uart = NULL
  /\ pc' = "keyboard"
  /\ UNCHANGED <<cons, shift, serial_exists, got, polls, rebooted, devices>>

(* Whether kbd_proc_data reads a byte: one of the mouse stays where it is. *)
KeyReady == i8042 # <<>> /\ ~Head(i8042).mouse

KeyRead ==
  /\ pc = "keyboard" /\ KeyReady
  /\ LET r == kbd_proc_data(shift, Head(i8042).data)
     IN  shift' = r.shift /\ Store(r.c) /\ rebooted' = r.reboot
  /\ i8042' = Tail(i8042)
  /\ UNCHANGED <<serial_exists, pc, got, polls, uart, keyboard, left>>

KeyDone ==
  /\ pc = "keyboard" /\ ~KeyReady
  /\ pc' = "take"
  /\ UNCHANGED <<cons, shift, serial_exists, got, polls, rebooted, devices>>

(* The reader may echo what it is given.                                   *)
Return == pc' \in IF got' = 0 THEN {First} ELSE {First, "serial_putc"}

(* Mutant of Take: rpos is not wrapped.                                    *)
Take_NoWrap ==
  /\ pc = "take"
  /\ IF cons.rpos # cons.wpos
     THEN /\ got' = cons.buf[cons.rpos % CONSBUFSIZE]
          /\ cons' = [cons EXCEPT !.rpos = @ + 1]
     ELSE got' = 0 /\ UNCHANGED cons
  /\ Return
  /\ UNCHANGED <<shift, serial_exists, polls, rebooted, devices>>

Take ==
  /\ pc = "take"
  /\ IF cons.rpos # cons.wpos
     THEN /\ got' = cons.buf[cons.rpos]
          /\ cons' = [cons EXCEPT !.rpos = Advance(@)]
     ELSE got' = 0 /\ UNCHANGED cons
  /\ Return
  /\ UNCHANGED <<shift, serial_exists, polls, rebooted, devices>>

(* cons_putc asks the serial port, then the parallel port.  A port that is *)
(* not there reads as ready; one that never gets ready is sent the         *)
(* character all the same in the end.                                      *)
NotReady ==
  /\ polls < MaxPolls
  /\ polls' = polls + 1
  /\ UNCHANGED <<cons, shift, serial_exists, pc, got, rebooted, devices>>

SerialNotReady == pc = "serial_putc" /\ serial_exists /\ NotReady

(* Mutant of ParallelNotReady: the loop does not count.                    *)
ParallelNotReady_Uncounted ==
  /\ pc = "lpt_putc"
  /\ polls' = (polls + 1) % (MaxPolls + 1)
  /\ UNCHANGED <<cons, shift, serial_exists, pc, got, rebooted, devices>>

ParallelNotReady == pc = "lpt_putc" /\ NotReady

Sent(next) ==
  /\ pc' = next /\ polls' = 0
  /\ UNCHANGED <<cons, shift, serial_exists, got, rebooted, devices>>

SerialSends == pc = "serial_putc" /\ Sent("lpt_putc")

ParallelSends == pc = "lpt_putc" /\ Sent(First)

cons_putc ==
  SerialNotReady \/ SerialSends \/ ParallelNotReady \/ ParallelSends

Kernel ==
  cons_init \/ SerialRead \/ SerialDone \/ KeyRead \/ KeyDone \/ Take \/ cons_putc

World ==
  \/ \E k \in Keys : KeyDown(k) \/ KeyUp(k) \/ KeyRepeats(k)
  \/ \E b \in SerialBytes : SerialByte(b)
  \/ SerialStream \/ MouseByte

(* Writing to port 0x92 resets the machine.                                *)
Next == ~rebooted /\ (Kernel \/ World)

(* getchar spins, so the kernel always takes its next step.                *)
Spec == Init /\ [][Next]_vars /\ WF_vars(~rebooted /\ Kernel)

-----------------------------------------------------------------------------
TypeOK ==
  /\ cons \in [buf : [0 .. CONSBUFSIZE - 1 -> 0 .. 255],
               rpos : 0 .. CONSBUFSIZE - 1, wpos : 0 .. CONSBUFSIZE - 1]
  /\ shift \subseteq ShiftBits /\ keyboard \subseteq ShiftBits \ {"E0ESC"}
  /\ uart \in 0 .. 255 \cup {NULL} /\ got \in 0 .. 255
  /\ pc \in {"init", "serial", "keyboard", "take", "serial_putc", "lpt_putc"}
  /\ polls \in 0 .. MaxPolls

(* A byte of the keyboard is read long after its key was pressed, when     *)
(* other keys are pressed or released already, and yet gives the character *)
(* that the key meant then, and reboots the machine only if Control-Alt-   *)
(* Delete was pressed then (console.c:316-365).                            *)
KeysMeanWhatWasPressed ==
  [][KeyRead =>
       /\ cons' = cons <=> Head(i8042).means.c = 0
       /\ cons' # cons => cons'.buf[cons.wpos] = Head(i8042).means.c
       /\ rebooted' = Head(i8042).means.reboot]_vars

(* The characters from rpos to wpos, around the end of the buffer.         *)
Unread ==
  LET n == (cons.wpos + CONSBUFSIZE - cons.rpos) % CONSBUFSIZE
  IN  [i \in 1 .. n |-> cons.buf[(cons.rpos + i - 1) % CONSBUFSIZE]]

Input == INSTANCE InputQueue WITH
  port <- IF pc = "init" THEN NULL ELSE uart, queue <- Unread, NoByte <- NULL,
  Characters <- 0 .. 255, Capacity <- CONSBUFSIZE - 1

(* The ring buffer is the queue of InputQueue (console.c:387-429).         *)
ImplementsQueue == Input!Spec

(* Both devices may deliver without end, and cons_intr reads one until it  *)
(* finds it empty (console.c:395-409), so the loop for one of them may     *)
(* never end: that is all that can keep a byte of the other waiting.       *)
(* Otherwise, also when ports that never get ready are written to, a byte  *)
(* of the serial port is read, a byte of the keyboard is if no byte of the *)
(* mouse precedes it, and cons_getc gets to taking a character from the    *)
(* buffer again and again (console.c:65-76, 111-118, 415-429).             *)
InputTaken ==
  /\ []<>(uart = NULL) \/ <>[](pc = "keyboard") \/ <>[]rebooted
  /\ []<>~KeyReady \/ <>[](pc = "serial") \/ <>[]rebooted
  /\ \/ []<>(pc = "take")
     \/ <>[](pc = "keyboard") \/ <>[](pc = "serial") \/ <>[]rebooted
=============================================================================
