----------------------------- MODULE InputQueue -----------------------------
(***************************************************************************)
(* What the console's input promises its reader: every character that is   *)
(* read from a device comes out once, in the order of the reading, and 0   *)
(* stands for no character.  The queue has room for Capacity characters;   *)
(* the one that does not fit takes all others with it.  The serial port is *)
(* part of the picture, so that a byte cannot leave it without entering    *)
(* the queue.                                                              *)
(***************************************************************************)
EXTENDS Naturals, Sequences

CONSTANTS Characters, Capacity, NoByte

VARIABLES port, queue, got    \* got: what the reader was given last

vars == <<port, queue, got>>

Init == port = NoByte /\ queue = <<>> /\ got = 0

(* A byte arrives; one that was not read is overwritten.                   *)
Arrive(b) == port' = b /\ UNCHANGED <<queue, got>>

Enqueue(c) ==
  queue' = IF c = 0 THEN queue
           ELSE IF Len(queue) = Capacity THEN <<>> ELSE Append(queue, c)

ReceiveSerial ==
  /\ port # NoByte /\ port' = NoByte
  /\ Enqueue(port)
  /\ UNCHANGED got

ReceiveKey(c) == Enqueue(c) /\ UNCHANGED <<port, got>>

Get ==
  /\ queue # <<>>
  /\ got' = Head(queue)
  /\ queue' = Tail(queue)
  /\ UNCHANGED port

GetNothing ==
  /\ queue = <<>> /\ got' = 0
  /\ UNCHANGED <<port, queue>>

Next ==
  \/ ReceiveSerial \/ Get \/ GetNothing
  \/ \E c \in Characters : Arrive(c) \/ ReceiveKey(c)

Spec == Init /\ [][Next]_vars
=============================================================================
