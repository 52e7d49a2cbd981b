-------------------------- MODULE BootLoaderProofs --------------------------
(***************************************************************************)
(* For every kernel, any size of sectors and any layout of memory, the     *)
(* loader survives until it has loaded the kernel, and i386_init runs on   *)
(* the whole of it.  Every byte of the file has one address, where all     *)
(* reads that include it put it: so a sector read whole may well overlap   *)
(* another segment, and only addresses below 1 MB or the wrong side of     *)
(* line 20 could do harm.                                                  *)
(***************************************************************************)
EXTENDS BootLoader, TLAPS

S == SECTSIZE
P == PGSIZE
Segments == 1 .. 4

(* What the disk holds where the file's byte k should be.                  *)
FileByte(k) == IF k < image.size THEN k ELSE JUNK

(* Where the file's byte 0 would be, for the segment in work.              *)
Base == IF seg = 0 THEN ELFHDR ELSE MEG - P

SegmentEnd(k) == image.ph[k].pa + image.ph[k].memsz

Types ==
  /\ \E kernel \in Kernels : image = Image(kernel)
  /\ mem \in [Addresses -> {LOADER, ZERO, JUNK} \cup 0 .. image.size - 1]
  /\ a20 \in BOOLEAN /\ seg \in 0 .. 4
  /\ pa \in 0 .. MemSize /\ end_pa \in 0 .. MemSize /\ offset \in Nat
  /\ kbc \in [ibf : {"none", "other", "d1", "df"}, port : BOOLEAN]
  /\ ide \in [state : {"idle", "busy", "data"}, lba : Nat \cup {NULL}]
  /\ pc \in {"seta20.1", "seta20.2", "readseg", "data", "bad", "i386_init", "running"}

(* Line 20 is on, or the byte that turns it on is with the controller.     *)
LineOn ==
  /\ pc = "seta20.1" => kbc.ibf \in {"none", "other"}
  /\ pc = "seta20.2" => kbc.ibf = "d1" \/ (kbc.ibf = "none" /\ kbc.port)
  /\ pc \notin {"seta20.1", "seta20.2"} => a20 \/ (kbc.ibf = "df" /\ kbc.port)

(* The drive has the sector that the loader waits for, and no other; when  *)
(* it is ready line 20 is on.                                              *)
DriveFollows ==
  IF pc = "data"
  THEN /\ ide.lba = offset /\ ide.state \in {"busy", "data"}
       /\ ide.state = "data" => a20
  ELSE ide.lba = NULL /\ ide.state # "data"

(* readseg is at the start of a sector, the one that goes there.           *)
Positioned ==
  /\ pc \in {"seta20.1", "seta20.2"} => seg = 0 /\ pa = 0 /\ end_pa = 0
  /\ pc \in {"readseg", "data"} =>
       /\ seg < 4 => /\ offset >= 1 /\ pa = Base + S * (offset - 1)
                     /\ pa >= (IF seg = 0 THEN ELFHDR ELSE MEG)
                     /\ \E q \in Nat : pa = S * q
       /\ end_pa = IF seg = 0 THEN ELFHDR + P ELSE SegmentEnd(seg)
       /\ seg = 4 => pa = 0
  /\ pc = "data" => pa < end_pa
  /\ pc \in {"i386_init", "running"} => seg = 4

LoaderIntact == \A a \in LoaderAt : mem[a] = LOADER

HeadersRead ==
  \A k \in 0 .. P - 1 : seg > 0 \/ ELFHDR + k < pa => mem[ELFHDR + k] = FileByte(k)

(* What has been read of the segments is in its place.                     *)
SegmentsRead ==
  pc # "running" =>
    \A k \in 1 .. 3 : \A a \in image.ph[k].pa .. SegmentEnd(k) - 1 :
      k < seg \/ (k = seg /\ a < pa) => mem[a] = FileByte(a - (MEG - P))

IInv ==
  /\ Types /\ LineOn /\ DriveFollows /\ Positioned
  /\ LoaderIntact /\ HeadersRead /\ SegmentsRead /\ KernelComplete

-----------------------------------------------------------------------------
LEMMA Constants ==
  /\ S \in Nat /\ S > 0 /\ HDRSECTS \in Nat /\ HDRSECTS > 0 /\ P \in Nat /\ P > 4
  /\ P = S * HDRSECTS /\ P >= S
  /\ BOOT \in Nat /\ BOOT > 0 /\ ELFHDR \in Nat /\ MEG \in Nat
  /\ BOOT + S <= ELFHDR /\ ELFHDR + P <= MEG
  /\ ELFHDR % P = 0 /\ MEG % P = 0 /\ NULL \notin Nat /\ MemSize = 2 * MEG
  /\ LOADER = -1 /\ ZERO = -2 /\ JUNK = -3
<1>1. S \in Nat \ {0} /\ HDRSECTS \in Nat \ {0}
  BY BootAssumption, Zenon DEF S
<1>2. P = S * HDRSECTS
  BY DEF P, S, PGSIZE
<1>3. P \in Nat /\ P >= S
  <2>1. PICK h \in Nat : HDRSECTS = h + 1
    <3>1. HDRSECTS - 1 \in Nat /\ HDRSECTS = (HDRSECTS - 1) + 1
      BY <1>1
    <3> QED
      BY <3>1
  <2>2. S * (h + 1) = S * h + S /\ S * h \in Nat
    BY <1>1
  <2> QED
    BY <1>1, <1>2, <2>1, <2>2
<1>4. /\ P > 4 /\ BOOT \in Nat \ {0} /\ ELFHDR \in Nat /\ MEG \in Nat
      /\ BOOT + S <= ELFHDR /\ ELFHDR + P <= MEG
      /\ ELFHDR % P = 0 /\ MEG % P = 0 /\ NULL \notin Nat
  BY BootAssumption, Zenon DEF S, P
<1> QED
  BY <1>1, <1>2, <1>3, <1>4 DEF MemSize, LOADER, ZERO, JUNK

(* Whole sectors.                                                          *)
LEMMA Quotient ==
  ASSUME NEW q \in Nat, NEW r \in 0 .. S - 1
  PROVE  (S * q + r) % S = r /\ (S * q + r) \div S = q
<1>1. S \in Nat /\ S > 0
  BY Constants
<1>2. PICK n \in Nat : n = S * q + r
  BY <1>1
<1>3. PICK d \in Nat, m \in 0 .. S - 1 : n = S * d + m /\ n % S = m /\ n \div S = d
  BY <1>1, <1>2
<1>4. d = q
  <2>1. ASSUME d > q PROVE FALSE
    <3>1. PICK e \in Nat : d = q + 1 + e
      <4>1. d - q - 1 \in Nat /\ d = q + 1 + (d - q - 1)
        BY <2>1
      <4> QED
        BY <4>1
    <3>2. S * d = S * q + S + S * e /\ S * e >= 0 /\ S * q \in Nat
      BY <1>1, <3>1
    <3> QED
      BY <1>1, <1>2, <1>3, <3>2
  <2>2. ASSUME q > d PROVE FALSE
    <3>1. PICK e \in Nat : q = d + 1 + e
      <4>1. q - d - 1 \in Nat /\ q = d + 1 + (q - d - 1)
        BY <2>2
      <4> QED
        BY <4>1
    <3>2. S * q = S * d + S + S * e /\ S * e >= 0 /\ S * d \in Nat
      BY <1>1, <3>1
    <3> QED
      BY <1>1, <1>2, <1>3, <3>2
  <2> QED
    BY <2>1, <2>2
<1>5. m = r
  <2>1. S * q \in Nat
    BY <1>1
  <2> QED
    BY <1>2, <1>3, <1>4, <2>1
<1> QED
  BY <1>2, <1>3, <1>4, <1>5

LEMMA Division ==
  ASSUME NEW n \in Nat
  PROVE  \E q \in Nat, r \in 0 .. S - 1 : n = S * q + r /\ n \div S = q /\ n % S = r
  BY Constants

LEMMA SectorAligned ==
  /\ \E q \in Nat : ELFHDR = S * q
  /\ \E q \in Nat : MEG = S * q
  /\ \E q \in Nat : MEG - P = S * q
<1>1. ASSUME NEW n \in Nat, n % P = 0
      PROVE  \E q \in Nat : n = S * q
  <2>1. PICK d \in Nat : n = P * d
    <3>1. n \div P \in Nat /\ n = P * (n \div P)
      BY <1>1, Constants
    <3> QED
      BY <3>1
  <2>2. P * d = S * (HDRSECTS * d) /\ HDRSECTS * d \in Nat
    BY Constants
  <2> QED
    BY <2>1, <2>2
<1>2. PICK q \in Nat : MEG = S * q
  BY <1>1, Constants
<1>3. q >= HDRSECTS
  <2>1. ASSUME q < HDRSECTS PROVE FALSE
    <3>1. PICK e \in Nat : HDRSECTS = q + 1 + e
      <4>1. HDRSECTS - q - 1 \in Nat /\ HDRSECTS = q + 1 + (HDRSECTS - q - 1)
        BY <2>1, Constants
      <4> QED
        BY <4>1
    <3>2. S * HDRSECTS = S * q + S + S * e /\ S * e >= 0 /\ S * q \in Nat
      BY <3>1, Constants
    <3> QED
      BY <1>2, <3>2, Constants
  <2> QED
    BY <2>1, Constants
<1>4. q - HDRSECTS \in Nat /\ MEG - P = S * (q - HDRSECTS)
  BY <1>2, <1>3, Constants
<1> QED
  BY <1>1, <1>2, <1>4, Constants

(* Where readseg begins.                                                   *)
LEMMA RoundedDown ==
  ASSUME NEW base \in Nat, \E b \in Nat : base = S * b, NEW off \in Nat,
         NEW start, start = base + off
  PROVE  /\ start - (start % S) = base + S * (off \div S)
         /\ off \div S \in Nat
         /\ \E q \in Nat : start - (start % S) = S * q
         /\ start - (start % S) <= start /\ start - (start % S) >= base
         /\ off >= P => start - (start % S) >= base + P
<1>1. PICK b \in Nat : base = S * b
  OBVIOUS
<1>2. PICK q \in Nat, r \in 0 .. S - 1 : off = S * q + r /\ off \div S = q
  BY Division
<1>3. S * (b + q) = S * b + S * q /\ S * b \in Nat /\ S * q \in Nat
  BY Constants
<1>4. start = S * (b + q) + r /\ b + q \in Nat
  BY <1>1, <1>2, <1>3, Constants
<1>5. start % S = r
  BY <1>4, Quotient
<1>6. start - (start % S) = S * (b + q)
  BY <1>3, <1>4, <1>5, Constants
<1>7. off >= P => S * q >= P
  <2> SUFFICES ASSUME off >= P
               PROVE  S * q >= P
    OBVIOUS
  <2>1. ASSUME q < HDRSECTS PROVE FALSE
    <3>1. PICK e \in Nat : HDRSECTS = q + 1 + e
      <4>1. HDRSECTS - q - 1 \in Nat /\ HDRSECTS = q + 1 + (HDRSECTS - q - 1)
        BY <2>1, Constants
      <4> QED
        BY <4>1
    <3>2. S * HDRSECTS = S * q + S + S * e /\ S * e >= 0
      BY <3>1, Constants
    <3> QED
      BY <1>2, <1>3, <3>2, Constants
  <2>2. PICK e \in Nat : q = HDRSECTS + e
    <3>1. q - HDRSECTS \in Nat /\ q = HDRSECTS + (q - HDRSECTS)
      BY <2>1, Constants
    <3> QED
      BY <3>1
  <2>3. S * q = S * HDRSECTS + S * e /\ S * e >= 0
    BY <2>2, Constants
  <2> QED
    BY <2>3, Constants
<1>8. S * (b + q) = base + S * (off \div S) /\ off \div S \in Nat
  BY <1>1, <1>2, <1>3
<1>9. S * (b + q) <= start /\ S * (b + q) >= base
  BY <1>1, <1>3, <1>4, Constants
<1>10. off >= P => S * (b + q) >= base + P
  BY <1>1, <1>3, <1>7, Constants
<1>11. b + q \in Nat
  OBVIOUS
<1> QED
  BY <1>6, <1>8, <1>9, <1>10, <1>11, Zenon

(* The next sector fits if the segment goes on there.                      *)
LEMMA NextSector ==
  ASSUME NEW q \in Nat, NEW p, p = S * q, p < MemSize
  PROVE  p + S <= MemSize /\ \E n \in Nat : p + S = S * n
<1>1. PICK g \in Nat : MEG = S * g
  BY SectorAligned
<1>2. S * (q + 1) = S * q + S /\ S * (2 * g) = 2 * (S * g) /\ S * q \in Nat /\ S * g \in Nat
  BY Constants
<1>3. q + 1 <= 2 * g
  <2>1. ASSUME q + 1 > 2 * g PROVE FALSE
    <3>1. PICK e \in Nat : q = 2 * g + e
      <4>1. q - 2 * g \in Nat /\ q = 2 * g + (q - 2 * g)
        BY <2>1
      <4> QED
        BY <4>1
    <3>2. S * q = S * (2 * g) + S * e /\ S * e >= 0
      BY <3>1, Constants
    <3> QED
      BY <1>1, <1>2, <3>2, Constants
  <2> QED
    BY <2>1
<1>4. PICK e \in Nat : 2 * g = q + 1 + e
  <2>1. 2 * g - (q + 1) \in Nat /\ 2 * g = q + 1 + (2 * g - (q + 1))
    BY <1>3
  <2> QED
    BY <2>1
<1>5. S * (2 * g) = S * (q + 1) + S * e /\ S * e >= 0
  BY <1>4, Constants
<1>6. q + 1 \in Nat
  OBVIOUS
<1>7. p + S = S * (q + 1) /\ p + S <= MemSize
  BY <1>1, <1>2, <1>5, Constants
<1> QED
  BY <1>6, <1>7

-----------------------------------------------------------------------------
(* The kernel file: where its segments are, and how far they go.           *)
LEMMA Pages ==
  ASSUME NEW n \in Nat
  PROVE  PageUp(n) \in Nat /\ PageUp(n) >= n
<1>1. PICK d \in Nat, r \in 0 .. P - 1 : n + P - 1 = P * d + r /\ (n + P - 1) \div P = d
  <2>1. n + P - 1 \in Nat /\ P > 0 /\ P \in Nat
    BY Constants
  <2> QED
    BY <2>1
<1>2. PageUp(n) = d * P
  BY <1>1 DEF PageUp, P
<1>3. d * P = P * d /\ P * d \in Nat
  BY Constants
<1> QED
  BY <1>1, <1>2, <1>3, Constants

LEMMA ImageLayout ==
  ASSUME NEW kernel \in Kernels, NEW im, im = Image(kernel)
  PROVE  /\ Len(im.ph) = 4 /\ im.magic \in BOOLEAN
         /\ \A k \in 1 .. 3 :
              /\ im.ph[k].offset \in Nat /\ im.ph[k].offset >= P
              /\ im.ph[k].pa = MEG - P + im.ph[k].offset
              /\ im.ph[k].filesz \in Nat /\ im.ph[k].memsz \in Nat
              /\ im.ph[k].filesz <= im.ph[k].memsz
              /\ im.ph[k].pa + im.ph[k].memsz <= MemSize
              /\ im.ph[k].offset + im.ph[k].filesz <= im.size
         /\ im.ph[4].pa = 0 /\ im.ph[4].offset = 0
         /\ im.ph[4].filesz = 0 /\ im.ph[4].memsz = 0
         /\ im.size \in Nat /\ im.size > P
         /\ im.edata \in Nat /\ im.end \in Nat /\ im.edata >= MEG /\ im.end <= MemSize
<1> DEFINE text == kernel.text
           data == kernel.data
           bss == kernel.bss
           up == PageUp(text)
           pad == IF kernel.nobits THEN 0 ELSE bss + 1
           more == IF kernel.nobits THEN bss ELSE bss + 1
<1>1. /\ text \in Nat /\ text > 0 /\ data \in Nat /\ data > 0 /\ bss \in Nat
      /\ kernel.nobits \in BOOLEAN /\ kernel.magic \in BOOLEAN
      /\ up + data + bss + 1 <= MEG
  BY KernelAssumption
<1>2. up \in Nat /\ up >= text
  BY <1>1, Pages
<1>3. pad \in Nat /\ more \in Nat /\ pad <= more /\ more <= bss + 1
  BY <1>1
<1>4. im = [magic |-> kernel.magic,
            ph |-> <<Proghdr(P, text, text), Proghdr(P + up, data + pad, data + more),
                     Proghdr(P + text - 1, 1, 1),
                     [pa |-> 0, offset |-> 0, filesz |-> 0, memsz |-> 0]>>,
            edata |-> MEG + (P + up) - P + data,
            end |-> MEG + (P + up) - P + data + bss,
            size |-> (P + up) + data + pad]
  BY Zenon DEF Image, P
<1> HIDE DEF text, data, bss, up, pad, more
<1>5. /\ im.magic = kernel.magic
      /\ im.ph = <<Proghdr(P, text, text), Proghdr(P + up, data + pad, data + more),
                   Proghdr(P + text - 1, 1, 1),
                   [pa |-> 0, offset |-> 0, filesz |-> 0, memsz |-> 0]>>
      /\ im.edata = MEG + (P + up) - P + data
      /\ im.end = MEG + (P + up) - P + data + bss
      /\ im.size = (P + up) + data + pad
  BY <1>4
<1>6. ASSUME NEW at, NEW filesz, NEW memsz, NEW h, h = Proghdr(at, filesz, memsz)
      PROVE  h.pa = MEG + at - P /\ h.offset = at /\ h.filesz = filesz /\ h.memsz = memsz
  BY <1>6 DEF Proghdr, P
<1>7. Len(im.ph) = 4 /\ im.ph[1] = Proghdr(P, text, text)
      /\ im.ph[2] = Proghdr(P + up, data + pad, data + more)
      /\ im.ph[3] = Proghdr(P + text - 1, 1, 1)
      /\ im.ph[4] = [pa |-> 0, offset |-> 0, filesz |-> 0, memsz |-> 0]
  BY <1>5
<1>8. /\ im.ph[1].pa = MEG + P - P /\ im.ph[1].offset = P
      /\ im.ph[1].filesz = text /\ im.ph[1].memsz = text
  BY <1>6, <1>7
<1>9. /\ im.ph[2].pa = MEG + (P + up) - P /\ im.ph[2].offset = P + up
      /\ im.ph[2].filesz = data + pad /\ im.ph[2].memsz = data + more
  BY <1>6, <1>7
<1>10. /\ im.ph[3].pa = MEG + (P + text - 1) - P /\ im.ph[3].offset = P + text - 1
       /\ im.ph[3].filesz = 1 /\ im.ph[3].memsz = 1
  BY <1>6, <1>7
<1>11. im.ph[4].pa = 0 /\ im.ph[4].offset = 0 /\ im.ph[4].filesz = 0 /\ im.ph[4].memsz = 0
  BY <1>7
<1>12. /\ im.size \in Nat /\ im.size > P
       /\ im.edata \in Nat /\ im.end \in Nat /\ im.edata >= MEG /\ im.end <= MemSize
  BY <1>1, <1>2, <1>3, <1>5, Constants
<1>13. ASSUME NEW k \in 1 .. 3
       PROVE  /\ im.ph[k].offset \in Nat /\ im.ph[k].offset >= P
              /\ im.ph[k].pa = MEG - P + im.ph[k].offset
              /\ im.ph[k].filesz \in Nat /\ im.ph[k].memsz \in Nat
              /\ im.ph[k].filesz <= im.ph[k].memsz
              /\ im.ph[k].pa + im.ph[k].memsz <= MemSize
              /\ im.ph[k].offset + im.ph[k].filesz <= im.size
  <2>1. CASE k = 1
    BY <1>1, <1>2, <1>3, <1>5, <1>8, <2>1, Constants
  <2>2. CASE k = 2
    BY <1>1, <1>2, <1>3, <1>5, <1>9, <2>2, Constants
  <2>3. CASE k = 3
    BY <1>1, <1>2, <1>3, <1>5, <1>10, <2>3, Constants
  <2> QED
    BY <2>1, <2>2, <2>3
<1> QED
  BY <1>1, <1>5, <1>7, <1>11, <1>12, <1>13

LEMMA TheImage ==
  ASSUME Types
  PROVE  /\ Len(image.ph) = 4 /\ image.magic \in BOOLEAN
         /\ \A k \in 1 .. 3 :
              /\ image.ph[k].offset \in Nat /\ image.ph[k].offset >= P
              /\ image.ph[k].pa = MEG - P + image.ph[k].offset
              /\ image.ph[k].filesz \in Nat /\ image.ph[k].memsz \in Nat
              /\ image.ph[k].filesz <= image.ph[k].memsz
              /\ image.ph[k].pa + image.ph[k].memsz <= MemSize
              /\ image.ph[k].offset + image.ph[k].filesz <= image.size
         /\ image.ph[4].pa = 0 /\ image.ph[4].offset = 0
         /\ image.ph[4].filesz = 0 /\ image.ph[4].memsz = 0
         /\ image.size \in Nat /\ image.size > P
         /\ image.edata \in Nat /\ image.end \in Nat
         /\ image.edata >= MEG /\ image.end <= MemSize
<1>1. PICK kernel \in Kernels : image = Image(kernel)
  BY DEF Types
<1> QED
  BY <1>1, ImageLayout, Zenon

LEMMA LoaderBelow ==
  /\ \A a \in LoaderAt : a \in Addresses /\ a < ELFHDR
  /\ \A k \in 0 .. P - 1 : ELFHDR + k \in Addresses /\ ELFHDR + k < MEG
  BY Constants DEF LoaderAt, Addresses, S

-----------------------------------------------------------------------------
(* The invariant holds at the start ...                                    *)
LEMMA InitIInv == Init => IInv
<1> SUFFICES ASSUME Init
             PROVE  IInv
  OBVIOUS
<1>1. PICK kernel \in Kernels : image = Image(kernel)
  BY DEF Init
<1>2. seg = 0 /\ pa = 0 /\ end_pa = 0 /\ offset = 0 /\ pc = "seta20.1"
  BY DEF Init
<1>3. /\ kbc \in [ibf : {"none", "other"}, port : {FALSE}]
      /\ ide \in [state : {"idle", "busy"}, lba : {NULL}]
      /\ a20 \in BOOLEAN
  BY DEF Init
<1>4. kbc.ibf \in {"none", "other"} /\ kbc \in [ibf : {"none", "other", "d1", "df"}, port : BOOLEAN]
  BY <1>3
<1>5. /\ ide.lba = NULL /\ ide.state # "data"
      /\ ide \in [state : {"idle", "busy", "data"}, lba : Nat \cup {NULL}]
  BY <1>3
<1>6. mem = [a \in Addresses |-> IF a \in LoaderAt THEN LOADER ELSE JUNK]
  BY DEF Init
<1>7. mem \in [Addresses -> {LOADER, ZERO, JUNK} \cup 0 .. image.size - 1]
  BY <1>6
<1>8. Types
  BY <1>1, <1>2, <1>3, <1>4, <1>5, <1>7, Constants DEF Types
<1>9. LineOn /\ DriveFollows
  BY <1>2, <1>4, <1>5 DEF LineOn, DriveFollows
<1>10. Positioned
  BY <1>2 DEF Positioned
<1>11. LoaderIntact
  BY <1>6, LoaderBelow DEF LoaderIntact
<1>12. HeadersRead
  BY <1>2, Constants DEF HeadersRead
<1>13. SegmentsRead /\ KernelComplete
  BY <1>2 DEF SegmentsRead, KernelComplete
<1> QED
  BY <1>8, <1>9, <1>10, <1>11, <1>12, <1>13 DEF IInv

(* ... and a step that leaves memory and readseg alone keeps what has been *)
(* read.                                                                   *)
LEMMA MemoryKept ==
  ASSUME IInv, UNCHANGED <<image, mem, locals>>,
         pc' = "running" <=> pc = "running"
  PROVE  LoaderIntact' /\ HeadersRead' /\ SegmentsRead' /\ KernelComplete'
<1>1. image' = image /\ mem' = mem /\ seg' = seg /\ pa' = pa
  BY DEF locals
<1>2. LoaderIntact' /\ HeadersRead'
  BY <1>1, Zenon DEF IInv, LoaderIntact, HeadersRead, FileByte
<1>3. SegmentsRead'
  BY <1>1, Zenon DEF IInv, SegmentsRead, SegmentEnd, FileByte
<1>4. KernelComplete'
  BY <1>1, Zenon DEF IInv, KernelComplete
<1> QED
  BY <1>2, <1>3, <1>4

LEMMA StutterIInv ==
  ASSUME IInv, UNCHANGED vars
  PROVE  IInv'
<1>1. /\ image' = image /\ mem' = mem /\ a20' = a20 /\ kbc' = kbc /\ ide' = ide /\ pc' = pc
      /\ UNCHANGED locals
  BY DEF vars
<1>2. seg' = seg /\ pa' = pa /\ end_pa' = end_pa /\ offset' = offset
  BY <1>1 DEF locals
<1>3. Types'
  BY <1>1, <1>2, Zenon DEF IInv, Types
<1>4. LineOn' /\ DriveFollows'
  BY <1>1, <1>2 DEF IInv, LineOn, DriveFollows
<1>5. Positioned'
  BY <1>1, <1>2, Zenon DEF IInv, Positioned, SegmentEnd, Base
<1> QED
  BY <1>1, <1>3, <1>4, <1>5, MemoryKept DEF IInv

LEMMA KbcTakesIInv ==
  ASSUME IInv, KbcTakes
  PROVE  IInv'
<1>1. /\ image' = image /\ mem' = mem /\ ide' = ide /\ pc' = pc /\ UNCHANGED locals
      /\ kbc.ibf # "none"
      /\ a20' = (a20 \/ (kbc.ibf = "df" /\ kbc.port))
      /\ kbc' = [ibf |-> "none", port |-> kbc.ibf = "d1"]
  BY DEF KbcTakes
<1>2. seg' = seg /\ pa' = pa /\ end_pa' = end_pa /\ offset' = offset
  BY <1>1 DEF locals
<1>3. kbc'.ibf = "none" /\ (kbc'.port <=> kbc.ibf = "d1")
  BY <1>1
<1>4. Types'
  <2>1. a20' \in BOOLEAN
    BY <1>1
  <2>2. kbc' \in [ibf : {"none", "other", "d1", "df"}, port : BOOLEAN]
    BY <1>1
  <2> QED
    BY <1>1, <1>2, <2>1, <2>2, Zenon DEF IInv, Types
<1>5. LineOn'
  BY <1>1, <1>3 DEF IInv, LineOn
<1>6. DriveFollows'
  BY <1>1, <1>2 DEF IInv, DriveFollows
<1>7. Positioned'
  BY <1>1, <1>2, Zenon DEF IInv, Positioned, SegmentEnd, Base
<1> QED
  BY <1>1, <1>4, <1>5, <1>6, <1>7, MemoryKept DEF IInv

LEMMA DriveReadyIInv ==
  ASSUME IInv, DriveReady
  PROVE  IInv'
<1>1. /\ image' = image /\ mem' = mem /\ a20' = a20 /\ kbc' = kbc /\ pc' = pc
      /\ UNCHANGED locals
      /\ ide.state = "busy" /\ kbc.ibf = "none"
      /\ ide' = [ide EXCEPT !.state = IF ide.lba = NULL THEN "idle" ELSE "data"]
  BY DEF DriveReady
<1>2. seg' = seg /\ pa' = pa /\ end_pa' = end_pa /\ offset' = offset
  BY <1>1 DEF locals
<1>3. ide \in [state : {"idle", "busy", "data"}, lba : Nat \cup {NULL}]
  BY DEF IInv, Types
<1>4. /\ ide' \in [state : {"idle", "busy", "data"}, lba : Nat \cup {NULL}]
      /\ ide'.lba = ide.lba /\ ide'.state = IF ide.lba = NULL THEN "idle" ELSE "data"
  BY <1>1, <1>3
<1>5. Types'
  BY <1>1, <1>2, <1>4, Zenon DEF IInv, Types
<1>6. LineOn'
  BY <1>1 DEF IInv, LineOn
<1>7. DriveFollows'
  <2>1. pc = "data" => offset \in Nat /\ offset # NULL
    BY Constants DEF IInv, Types
  <2>2. pc = "data" => a20
    BY <1>1 DEF IInv, LineOn
  <2> QED
    BY <1>1, <1>2, <1>4, <2>1, <2>2 DEF IInv, DriveFollows
<1>8. Positioned'
  BY <1>1, <1>2, Zenon DEF IInv, Positioned, SegmentEnd, Base
<1> QED
  BY <1>1, <1>5, <1>6, <1>7, <1>8, MemoryKept DEF IInv

(* A20: the loader waits for the controller before each byte.              *)
LEMMA SendCommandIInv ==
  ASSUME IInv, SendCommand
  PROVE  IInv'
<1>1. /\ image' = image /\ mem' = mem /\ a20' = a20 /\ ide' = ide /\ UNCHANGED locals
      /\ pc = "seta20.1" /\ pc' = "seta20.2" /\ kbc.ibf = "none"
      /\ kbc' = [kbc EXCEPT !.ibf = "d1"]
  BY DEF SendCommand, Send
<1>2. seg' = seg /\ pa' = pa /\ end_pa' = end_pa /\ offset' = offset
  BY <1>1 DEF locals
<1>3. kbc \in [ibf : {"none", "other", "d1", "df"}, port : BOOLEAN]
  BY DEF IInv, Types
<1>4. kbc' \in [ibf : {"none", "other", "d1", "df"}, port : BOOLEAN] /\ kbc'.ibf = "d1"
  BY <1>1, <1>3
<1>5. pc' \in {"seta20.1", "seta20.2", "readseg", "data", "bad", "i386_init", "running"}
  BY <1>1
<1>6. Types'
  BY <1>1, <1>2, <1>4, <1>5, Zenon DEF IInv, Types
<1>7. LineOn' /\ DriveFollows'
  BY <1>1, <1>2, <1>4 DEF IInv, LineOn, DriveFollows
<1>8. Positioned'
  BY <1>1, <1>2 DEF IInv, Positioned
<1> QED
  BY <1>1, <1>6, <1>7, <1>8, MemoryKept DEF IInv

LEMMA SendOutputPortIInv ==
  ASSUME IInv, SendOutputPort
  PROVE  IInv'
<1>1. /\ image' = image /\ mem' = mem /\ a20' = a20 /\ ide' = ide /\ seg' = seg
      /\ pc = "seta20.2" /\ pc' = "readseg" /\ kbc.ibf = "none"
      /\ kbc' = [kbc EXCEPT !.ibf = "df"]
      /\ end_pa' = ELFHDR + P /\ pa' = ELFHDR - (ELFHDR % S) /\ offset' = 0 \div S + 1
  BY DEF SendOutputPort, Send, readseg, S, P
<1>2. 0 \in Nat /\ ELFHDR \in Nat /\ S * 0 = 0 /\ 0 \in 0 .. S - 1 /\ S * 0 + 0 = 0
  BY Constants
<1>3. 0 \div S = 0
  BY <1>2, Quotient
<1>4. PICK q \in Nat : ELFHDR = S * q
  BY SectorAligned
<1>5. ELFHDR % S = 0
  <2>1. S * q + 0 = ELFHDR
    BY <1>4, Constants
  <2> QED
    BY <2>1, <1>2, Quotient
<1>6. pa' = ELFHDR /\ offset' = 1
  BY <1>1, <1>2, <1>3, <1>5
<1>7. seg = 0 /\ seg' = 0
  BY <1>1 DEF IInv, Positioned
<1>8. kbc \in [ibf : {"none", "other", "d1", "df"}, port : BOOLEAN]
  BY DEF IInv, Types
<1>9. /\ kbc' \in [ibf : {"none", "other", "d1", "df"}, port : BOOLEAN]
      /\ kbc'.ibf = "df" /\ kbc'.port = kbc.port
  BY <1>1, <1>8
<1>10. pa' \in 0 .. MemSize /\ end_pa' \in 0 .. MemSize /\ offset' \in Nat
  <2>1. ELFHDR \in 0 .. MemSize /\ ELFHDR + P \in 0 .. MemSize
    BY Constants
  <2>2. end_pa' = ELFHDR + P
    BY <1>1
  <2> QED
    BY <1>6, <2>1, <2>2
<1>11. pc' \in {"seta20.1", "seta20.2", "readseg", "data", "bad", "i386_init", "running"}
  BY <1>1
<1>12. Types'
  BY <1>1, <1>9, <1>10, <1>11, Zenon DEF IInv, Types
<1>13. LineOn' /\ DriveFollows'
  BY <1>1, <1>9 DEF IInv, LineOn, DriveFollows
<1>14. Positioned'
  <2>1. Base' = ELFHDR
    BY <1>7 DEF Base
  <2>2. S * (offset' - 1) = 0
    BY <1>6, <1>2
  <2>3. \E n \in Nat : pa' = S * n
    BY <1>4, <1>6
  <2>4. offset' >= 1 /\ pa' = Base' + S * (offset' - 1) /\ pa' >= ELFHDR
    BY <1>6, <2>1, <2>2, <1>2
  <2> QED
    BY <1>1, <1>7, <2>3, <2>4 DEF Positioned
<1>15. LoaderIntact'
  BY <1>1 DEF IInv, LoaderIntact
<1>16. HeadersRead'
  BY <1>6, <1>7, <1>2, Constants DEF HeadersRead
<1>17. SegmentsRead'
  BY <1>7 DEF SegmentsRead
<1>18. KernelComplete'
  BY <1>1 DEF KernelComplete
<1> QED
  BY <1>12, <1>13, <1>14, <1>15, <1>16, <1>17, <1>18 DEF IInv

(* readsect: the command goes to a drive that is ready ...                 *)
LEMMA ReadCommandIInv ==
  ASSUME IInv, ReadCommand
  PROVE  IInv'
<1>1. /\ image' = image /\ mem' = mem /\ a20' = a20 /\ kbc' = kbc /\ UNCHANGED locals
      /\ pc = "readseg" /\ pc' = "data" /\ pa < end_pa /\ ide.state # "busy"
      /\ ide' = [state |-> "busy", lba |-> offset]
  BY DEF ReadCommand, Command
<1>2. seg' = seg /\ pa' = pa /\ end_pa' = end_pa /\ offset' = offset
  BY <1>1 DEF locals
<1>3. offset \in Nat
  BY DEF IInv, Types
<1>4. /\ ide' \in [state : {"idle", "busy", "data"}, lba : Nat \cup {NULL}]
      /\ ide'.state = "busy" /\ ide'.lba = offset
  BY <1>1, <1>3
<1>5. pc' \in {"seta20.1", "seta20.2", "readseg", "data", "bad", "i386_init", "running"}
  BY <1>1
<1>6. Types'
  BY <1>1, <1>2, <1>4, <1>5, Zenon DEF IInv, Types
<1>7. LineOn' /\ DriveFollows'
  BY <1>1, <1>2, <1>4 DEF IInv, LineOn, DriveFollows
<1>8. Positioned'
  <2>1. Base' = Base /\ SegmentEnd(seg)' = SegmentEnd(seg)
    BY <1>1, <1>2, Zenon DEF Base, SegmentEnd
  <2> QED
    BY <1>1, <1>2, <2>1 DEF IInv, Positioned
<1> QED
  BY <1>1, <1>6, <1>7, <1>8, MemoryKept DEF IInv

(* ... whose sector comes to the right place, in memory that the kernel    *)
(* file has for it.                                                        *)
LEMMA ReadsTheSector ==
  ASSUME IInv, ReadData
  PROVE  /\ seg < 4 /\ offset >= 1 /\ Base \in Nat /\ Base <= pa
         /\ pa = Base + S * (offset - 1)
         /\ pa + S <= MemSize /\ \E n \in Nat : pa + S = S * n
         /\ \A a \in Addresses :
              mem'[a] = IF a \in pa .. pa + S - 1 THEN FileByte(a - Base) ELSE mem[a]
<1>1. pc = "data" /\ ide.state # "busy"
  BY DEF ReadData
<1>2. ide.lba = offset /\ ide.state = "data" /\ a20
  BY <1>1 DEF IInv, DriveFollows
<1>3. pa \in Nat /\ end_pa \in Nat /\ end_pa <= MemSize /\ offset \in Nat /\ seg \in 0 .. 4 /\ Types
  BY Constants DEF IInv, Types
<1>4. /\ pa < end_pa
      /\ seg < 4 => /\ offset >= 1 /\ pa = Base + S * (offset - 1)
                    /\ pa >= (IF seg = 0 THEN ELFHDR ELSE MEG)
                    /\ \E q \in Nat : pa = S * q
      /\ end_pa = IF seg = 0 THEN ELFHDR + P ELSE SegmentEnd(seg)
  BY <1>1 DEF IInv, Positioned
<1>5. seg < 4
  <2>1. SegmentEnd(4) = 0
    BY <1>3, TheImage DEF SegmentEnd
  <2> QED
    BY <1>3, <1>4, <2>1
<1>6. Base \in Nat /\ Base <= pa
  BY <1>3, <1>4, <1>5, Constants DEF Base
<1>7. PICK q \in Nat : pa = S * q
  BY <1>4, <1>5
<1>8. pa < MemSize
  BY <1>3, <1>4, Constants
<1>9. pa + S <= MemSize /\ \E n \in Nat : pa + S = S * n
  BY <1>7, <1>8, NextSector
<1>10. \A a : Bus(a) = a
  BY <1>2 DEF Bus
<1>11. \A a \in Addresses :
          mem'[a] = IF a \in {pa + i : i \in 0 .. S - 1}
                    THEN Sector(offset)[(a - pa) % S] ELSE mem[a]
  BY <1>2, <1>10, Zenon DEF ReadData, Delivered, S
<1>12. ASSUME NEW a \in Addresses
       PROVE  mem'[a] = IF a \in pa .. pa + S - 1 THEN FileByte(a - Base) ELSE mem[a]
  <2>1. a \in {pa + i : i \in 0 .. S - 1} <=> a \in pa .. pa + S - 1
    <3>1. a \in Int
      BY DEF Addresses
    <3>2. ASSUME a \in pa .. pa + S - 1
          PROVE  a \in {pa + i : i \in 0 .. S - 1}
      <4>1. a - pa \in 0 .. S - 1 /\ a = pa + (a - pa)
        BY <1>3, <3>1, <3>2, Constants
      <4> QED
        BY <4>1
    <3> QED
      BY <1>3, <3>2, Constants
  <2>2. CASE a \in pa .. pa + S - 1
    <3> DEFINE r == a - pa
    <3>1. r \in 0 .. S - 1 /\ r \in Nat /\ S * 0 + r = r /\ 0 \in Nat
      BY <1>3, <2>2, Constants
    <3>2. r % S = r
      BY <3>1, Quotient
    <3>3. Sector(offset)[r] = LET k == (offset - 1) * S + r IN IF k < image.size THEN k ELSE JUNK
      BY <1>3, <1>4, <1>5, <3>1 DEF Sector, S
    <3>4. (offset - 1) * S + r = a - Base
      <4>1. (offset - 1) * S = S * (offset - 1) /\ S * (offset - 1) \in Nat
        BY <1>3, <1>4, <1>5, Constants
      <4> QED
        BY <1>3, <1>4, <1>5, <1>6, <4>1, <2>2
    <3>5. Sector(offset)[r] = FileByte(a - Base)
      BY <3>3, <3>4, Zenon DEF FileByte
    <3> QED
      BY <1>11, <2>1, <2>2, <3>2, <3>5
  <2>3. CASE a \notin pa .. pa + S - 1
    BY <1>11, <2>1, <2>3
  <2> QED
    BY <2>2, <2>3
<1> QED
  BY <1>4, <1>5, <1>6, <1>9, <1>12

LEMMA ReadDataIInv ==
  ASSUME IInv, ReadData
  PROVE  IInv'
<1>1. /\ image' = image /\ a20' = a20 /\ kbc' = kbc /\ seg' = seg /\ end_pa' = end_pa
      /\ pc = "data" /\ pc' = "readseg"
      /\ ide' = [state |-> "idle", lba |-> NULL]
      /\ pa' = pa + S /\ offset' = offset + 1
  BY DEF ReadData, S
<1>2. DOMAIN mem' = Addresses /\ mem' = [a \in Addresses |-> mem'[a]]
  BY DEF ReadData
<1>3. /\ seg < 4 /\ offset >= 1 /\ Base \in Nat /\ Base <= pa
      /\ pa = Base + S * (offset - 1)
      /\ pa + S <= MemSize /\ \E n \in Nat : pa + S = S * n
      /\ \A a \in Addresses :
           mem'[a] = IF a \in pa .. pa + S - 1 THEN FileByte(a - Base) ELSE mem[a]
  BY ReadsTheSector
<1>4. pa \in Nat /\ end_pa \in 0 .. MemSize /\ offset \in Nat /\ seg \in 0 .. 4 /\ Types
  BY Constants DEF IInv, Types
<1>5. pa >= (IF seg = 0 THEN ELFHDR ELSE MEG)
  BY <1>1, <1>3 DEF IInv, Positioned
<1>6. image.size \in Nat
  BY <1>4, TheImage
<1>7. mem' \in [Addresses -> {LOADER, ZERO, JUNK} \cup 0 .. image.size - 1]
  <2>1. ASSUME NEW a \in Addresses
        PROVE  mem'[a] \in {LOADER, ZERO, JUNK} \cup 0 .. image.size - 1
    <3>1. CASE a \in pa .. pa + S - 1
      <4>1. a - Base \in Nat
        BY <1>3, <1>4, <3>1, Constants
      <4>2. FileByte(a - Base) \in {JUNK} \cup 0 .. image.size - 1
        BY <1>6, <4>1 DEF FileByte
      <4> QED
        BY <1>3, <3>1, <4>2
    <3>2. CASE a \notin pa .. pa + S - 1
      <4>1. mem[a] \in {LOADER, ZERO, JUNK} \cup 0 .. image.size - 1
        BY <1>4 DEF Types
      <4> QED
        BY <1>3, <3>2, <4>1
    <3> QED
      BY <3>1, <3>2
  <2> QED
    BY <1>2, <2>1
<1>8. /\ ide' \in [state : {"idle", "busy", "data"}, lba : Nat \cup {NULL}]
      /\ ide'.state = "idle" /\ ide'.lba = NULL
  BY <1>1
<1>9. pa' \in 0 .. MemSize /\ offset' \in Nat
  BY <1>1, <1>3, <1>4, Constants
<1>10. pc' \in {"seta20.1", "seta20.2", "readseg", "data", "bad", "i386_init", "running"}
  BY <1>1
<1>11. Types'
  BY <1>1, <1>7, <1>8, <1>9, <1>10, Zenon DEF IInv, Types
<1>12. LineOn' /\ DriveFollows'
  BY <1>1, <1>8 DEF IInv, LineOn, DriveFollows
<1>13. Positioned'
  <2>1. Base' = Base /\ SegmentEnd(seg)' = SegmentEnd(seg)
    BY <1>1, Zenon DEF Base, SegmentEnd
  <2>2. pa' = Base' + S * (offset' - 1)
    <3>1. S * offset = S * (offset - 1) + S
      BY <1>3, <1>4, Constants
    <3>2. offset' - 1 = offset
      BY <1>1, <1>4
    <3>3. S * (offset - 1) \in Int
      BY <1>4, Constants
    <3> QED
      BY <1>1, <1>3, <2>1, <3>1, <3>2, <3>3, Constants
  <2>3. offset' >= 1 /\ pa' >= (IF seg' = 0 THEN ELFHDR ELSE MEG)
    BY <1>1, <1>3, <1>4, <1>5, Constants
  <2>4. \E n \in Nat : pa' = S * n
    BY <1>1, <1>3
  <2>5. end_pa' = IF seg' = 0 THEN ELFHDR + P ELSE SegmentEnd(seg)'
    BY <1>1, <2>1 DEF IInv, Positioned
  <2> QED
    BY <1>1, <1>3, <1>4, <2>2, <2>3, <2>4, <2>5 DEF Positioned
<1>14. LoaderIntact'
  <2>1. ASSUME NEW a \in LoaderAt
        PROVE  mem'[a] = LOADER
    <3>1. a \in Addresses /\ a \in Int /\ a < ELFHDR
      BY LoaderBelow DEF Addresses
    <3>2. a \notin pa .. pa + S - 1
      BY <1>4, <1>5, <3>1, Constants
    <3>3. mem[a] = LOADER
      BY DEF IInv, LoaderIntact
    <3> QED
      BY <1>3, <3>1, <3>2, <3>3
  <2> QED
    BY <2>1 DEF LoaderIntact
<1>15. HeadersRead'
  <2>1. ASSUME NEW k \in 0 .. P - 1, seg > 0 \/ ELFHDR + k < pa + S
        PROVE  mem'[ELFHDR + k] = FileByte(k)
    <3>1. ELFHDR + k \in Addresses /\ ELFHDR + k < MEG /\ ELFHDR + k \in Int
      BY LoaderBelow, Constants
    <3>2. CASE ELFHDR + k \in pa .. pa + S - 1
      <4>1. seg = 0
        BY <1>4, <1>5, <3>1, <3>2, Constants
      <4>2. (ELFHDR + k) - Base = k
        BY <4>1, Constants DEF Base
      <4> QED
        BY <1>3, <3>1, <3>2, <4>2
    <3>3. CASE ELFHDR + k \notin pa .. pa + S - 1
      <4>1. seg > 0 \/ ELFHDR + k < pa
        BY <1>4, <2>1, <3>1, <3>3, Constants
      <4>2. mem[ELFHDR + k] = FileByte(k)
        BY <4>1 DEF IInv, HeadersRead
      <4> QED
        BY <1>3, <3>1, <3>3, <4>2
    <3> QED
      BY <3>2, <3>3
  <2>2. \A k : FileByte(k)' = FileByte(k)
    BY <1>1 DEF FileByte
  <2> QED
    BY <1>1, <2>1, <2>2 DEF HeadersRead
<1>16. SegmentsRead'
  <2>1. ASSUME NEW k \in 1 .. 3, NEW a \in image.ph[k].pa .. SegmentEnd(k) - 1,
               k < seg \/ (k = seg /\ a < pa + S)
        PROVE  mem'[a] = FileByte(a - (MEG - P))
    <3>1. /\ image.ph[k].offset \in Nat /\ image.ph[k].offset >= P
          /\ image.ph[k].pa = MEG - P + image.ph[k].offset /\ image.ph[k].memsz \in Nat
          /\ image.ph[k].pa + image.ph[k].memsz <= MemSize
      BY <1>4, TheImage
    <3>2. a \in Int /\ a >= MEG /\ a \in Addresses
      BY <3>1, Constants DEF SegmentEnd, Addresses
    <3>3. seg # 0 /\ Base = MEG - P
      BY <1>4, <2>1 DEF Base
    <3>4. CASE a \in pa .. pa + S - 1
      BY <1>3, <3>2, <3>3, <3>4
    <3>5. CASE a \notin pa .. pa + S - 1
      <4>1. k < seg \/ (k = seg /\ a < pa)
        BY <1>4, <2>1, <3>2, <3>5, Constants
      <4>2. mem[a] = FileByte(a - (MEG - P))
        BY <1>1, <4>1 DEF IInv, SegmentsRead
      <4> QED
        BY <1>3, <3>2, <3>5, <4>2
    <3> QED
      BY <3>4, <3>5
  <2>2. \A k : FileByte(k)' = FileByte(k) /\ SegmentEnd(k)' = SegmentEnd(k)
    BY <1>1 DEF FileByte, SegmentEnd
  <2> QED
    BY <1>1, <2>1, <2>2 DEF SegmentsRead
<1>17. KernelComplete'
  BY <1>1 DEF KernelComplete
<1> QED
  BY <1>11, <1>12, <1>13, <1>14, <1>15, <1>16, <1>17 DEF IInv

(* The end of a segment: a file with another magic, the next one, or none. *)
LEMMA BadIInv ==
  ASSUME IInv, Bad
  PROVE  IInv'
<1>1. /\ image' = image /\ mem' = mem /\ a20' = a20 /\ kbc' = kbc /\ ide' = ide /\ UNCHANGED locals
      /\ pc = "readseg" /\ pc' = "bad"
  BY DEF Bad, Done
<1>2. seg' = seg /\ pa' = pa /\ end_pa' = end_pa /\ offset' = offset
  BY <1>1 DEF locals
<1>3. pc' \in {"seta20.1", "seta20.2", "readseg", "data", "bad", "i386_init", "running"}
  BY <1>1
<1>4. Types'
  BY <1>1, <1>2, <1>3, Zenon DEF IInv, Types
<1>5. LineOn' /\ DriveFollows' /\ Positioned'
  BY <1>1 DEF IInv, LineOn, DriveFollows, Positioned
<1> QED
  BY <1>1, <1>4, <1>5, MemoryKept DEF IInv

LEMMA EnterIInv ==
  ASSUME IInv, Enter
  PROVE  IInv'
<1>1. /\ image' = image /\ mem' = mem /\ a20' = a20 /\ kbc' = kbc /\ ide' = ide /\ UNCHANGED locals
      /\ pc = "readseg" /\ pc' = "i386_init" /\ seg = Len(image.ph)
  BY DEF Enter, Done
<1>2. seg' = seg /\ pa' = pa /\ end_pa' = end_pa /\ offset' = offset
  BY <1>1 DEF locals
<1>3. pc' \in {"seta20.1", "seta20.2", "readseg", "data", "bad", "i386_init", "running"}
  BY <1>1
<1>4. Types'
  BY <1>1, <1>2, <1>3, Zenon DEF IInv, Types
<1>5. seg' = 4
  BY <1>1, <1>2, TheImage DEF IInv
<1>6. LineOn' /\ DriveFollows' /\ Positioned'
  BY <1>1, <1>5 DEF IInv, LineOn, DriveFollows, Positioned
<1> QED
  BY <1>1, <1>4, <1>6, MemoryKept DEF IInv

LEMMA NextSegmentIInv ==
  ASSUME IInv, NextSegment
  PROVE  IInv'
<1>1. /\ image' = image /\ mem' = mem /\ a20' = a20 /\ kbc' = kbc /\ ide' = ide
      /\ pc = "readseg" /\ pa >= end_pa /\ seg < Len(image.ph) /\ seg' = seg + 1
  BY DEF NextSegment, Done
<1>2. /\ pa \in Nat /\ end_pa \in Nat /\ offset \in Nat /\ seg \in 0 .. 4 /\ Types
      /\ Len(image.ph) = 4
  BY TheImage, Constants DEF IInv, Types
<1>3. seg \in 0 .. 3 /\ seg' \in 1 .. 4
  BY <1>1, <1>2
<1>4. end_pa = IF seg = 0 THEN ELFHDR + P ELSE SegmentEnd(seg)
  BY <1>1 DEF IInv, Positioned
<1>5. \A k \in 0 .. P - 1 : mem[ELFHDR + k] = FileByte(k)
  <2>1. ASSUME NEW k \in 0 .. P - 1
        PROVE  seg > 0 \/ ELFHDR + k < pa
    BY <1>1, <1>2, <1>4, Constants
  <2> QED
    BY <2>1 DEF IInv, HeadersRead
<1>6. Intact(seg + 1)
  <2>1. seg + 1 \in 0 .. P - 1 /\ image.size \in Nat /\ image.size > P
    BY <1>2, <1>3, TheImage, Constants
  <2>2. FileByte(seg + 1) = seg + 1
    BY <1>3, <2>1, Constants DEF FileByte
  <2> QED
    BY <1>5, <2>1, <2>2 DEF Intact
<1> DEFINE start == image.ph[seg + 1].pa
           off == image.ph[seg + 1].offset
<1>7. /\ end_pa' = start + image.ph[seg + 1].memsz
      /\ pa' = start - (start % S) /\ offset' = off \div S + 1 /\ pc' = "readseg"
  BY <1>6 DEF NextSegment, readseg, S
<1> HIDE DEF start, off
<1>8. /\ seg' < 4 => /\ offset' >= 1 /\ pa' = (MEG - P) + S * (offset' - 1)
                     /\ pa' >= MEG /\ pa' <= start
                     /\ \E q \in Nat : pa' = S * q
      /\ seg' = 4 => pa' = 0
      /\ offset' \in Nat /\ pa' \in 0 .. MemSize /\ end_pa' \in 0 .. MemSize
  <2>1. CASE seg + 1 \in 1 .. 3
    <3>1. /\ off \in Nat /\ off >= P /\ start = (MEG - P) + off
          /\ image.ph[seg + 1].memsz \in Nat /\ start + image.ph[seg + 1].memsz <= MemSize
      BY <1>2, <2>1, TheImage DEF start, off
    <3>2. MEG - P \in Nat /\ \E b \in Nat : MEG - P = S * b
      <4>1. MEG - P \in Nat
        BY Constants
      <4> QED
        BY <4>1, SectorAligned
    <3>3. /\ pa' = (MEG - P) + S * (off \div S) /\ off \div S \in Nat
          /\ \E q \in Nat : pa' = S * q
          /\ pa' <= start /\ pa' >= (MEG - P) + P
      BY <1>7, <3>1, <3>2, RoundedDown
    <3>4. offset' - 1 = off \div S /\ offset' >= 1 /\ offset' \in Nat
      BY <1>7, <3>3
    <3>5. pa' \in Nat /\ pa' >= MEG
      <4>1. PICK q \in Nat : pa' = S * q
        BY <3>3
      <4> QED
        BY <4>1, <3>3, Constants
    <3>6. pa' \in 0 .. MemSize /\ end_pa' \in 0 .. MemSize
      BY <1>7, <3>1, <3>3, <3>5, Constants
    <3>7. seg' # 4
      BY <1>1, <1>2, <2>1
    <3> QED
      BY <3>3, <3>4, <3>5, <3>6, <3>7
  <2>2. CASE seg + 1 = 4
    <3>1. start = 0 /\ off = 0 /\ image.ph[seg + 1].memsz = 0
      BY <1>2, <2>2, TheImage DEF start, off
    <3>2. 0 % S = 0 /\ 0 \div S = 0
      <4>1. 0 \in Nat /\ 0 \in 0 .. S - 1 /\ S * 0 + 0 = 0
        BY Constants
      <4> QED
        BY <4>1, Quotient
    <3>3. pa' = 0 /\ end_pa' = 0 /\ offset' = 1
      BY <1>7, <3>1, <3>2
    <3>4. 0 \in 0 .. MemSize /\ seg' = 4
      BY <1>1, <2>2, Constants
    <3> QED
      BY <3>3, <3>4
  <2> QED
    BY <1>2, <1>3, <2>1, <2>2
<1>9. Types'
  <2>1. seg' \in 0 .. 4
    BY <1>3
  <2>2. pc' \in {"seta20.1", "seta20.2", "readseg", "data", "bad", "i386_init", "running"}
    BY <1>7
  <2> QED
    BY <1>1, <1>8, <2>1, <2>2, Zenon DEF IInv, Types
<1>10. LineOn' /\ DriveFollows'
  BY <1>1, <1>7 DEF IInv, LineOn, DriveFollows
<1>11. Positioned'
  <2>1. seg' # 0 /\ Base' = MEG - P
    BY <1>3 DEF Base
  <2>2. end_pa' = SegmentEnd(seg)'
    BY <1>1, <1>7 DEF SegmentEnd, start
  <2> QED
    BY <1>7, <1>8, <2>1, <2>2 DEF Positioned
<1>12. LoaderIntact' /\ HeadersRead'
  BY <1>1, <1>5 DEF IInv, LoaderIntact, HeadersRead, FileByte
<1>13. SegmentsRead'
  <2>1. ASSUME NEW k \in 1 .. 3, NEW a \in image.ph[k].pa .. SegmentEnd(k) - 1,
               k < seg + 1 \/ (k = seg + 1 /\ a < pa')
        PROVE  mem[a] = FileByte(a - (MEG - P))
    <3>1. /\ image.ph[k].offset \in Nat /\ image.ph[k].memsz \in Nat
          /\ image.ph[k].pa = MEG - P + image.ph[k].offset
      BY <1>2, TheImage
    <3>2. a \in Int /\ a >= image.ph[k].pa /\ a < SegmentEnd(k)
      BY <3>1, Constants DEF SegmentEnd
    <3>3. ~(k = seg + 1)
      <4>1. ASSUME k = seg + 1
            PROVE  FALSE
        <5>1. start = image.ph[k].pa /\ start \in Int
          BY <3>1, <4>1, Constants DEF start
        <5>2. seg' < 4
          BY <1>1, <1>2, <4>1
        <5>3. pa' <= start /\ pa' \in Int
          BY <1>8, <5>2
        <5>4. a < pa'
          BY <1>2, <2>1, <4>1
        <5> QED
          BY <3>2, <5>1, <5>3, <5>4
      <4> QED
        BY <4>1
    <3>4. k < seg \/ (k = seg /\ a < pa)
      <4>1. k <= seg
        BY <1>2, <2>1, <3>3
      <4>2. k = seg => a < pa
        BY <1>1, <1>2, <1>4, <3>2
      <4> QED
        BY <1>2, <4>1, <4>2
    <3> QED
      BY <1>1, <3>4 DEF IInv, SegmentsRead
  <2>2. \A k : FileByte(k)' = FileByte(k) /\ SegmentEnd(k)' = SegmentEnd(k)
    BY <1>1 DEF FileByte, SegmentEnd
  <2> QED
    BY <1>1, <2>1, <2>2 DEF SegmentsRead
<1>14. KernelComplete'
  BY <1>7 DEF KernelComplete
<1> QED
  BY <1>9, <1>10, <1>11, <1>12, <1>13, <1>14 DEF IInv

(* i386_init zeroes .bss, and nothing that came from the file outside it.  *)
LEMMA ClearBssIInv ==
  ASSUME IInv, ClearBss
  PROVE  IInv'
<1>1. /\ image' = image /\ a20' = a20 /\ kbc' = kbc /\ ide' = ide /\ UNCHANGED locals
      /\ pc = "i386_init" /\ pc' = "running"
      /\ mem' = [a \in Addresses |->
                   IF a \in image.edata .. image.end - 1 THEN ZERO ELSE mem[a]]
  BY DEF ClearBss
<1>2. seg' = seg /\ pa' = pa /\ end_pa' = end_pa /\ offset' = offset
  BY <1>1 DEF locals
<1>3. Types /\ seg = 4
  BY <1>1 DEF IInv, Positioned
<1>4. /\ image.edata \in Nat /\ image.end \in Nat
      /\ image.edata >= MEG /\ image.end <= MemSize /\ Len(image.ph) = 4
      /\ image.ph[4].filesz = 0
  BY <1>3, TheImage
<1>5. pc' \in {"seta20.1", "seta20.2", "readseg", "data", "bad", "i386_init", "running"}
  BY <1>1
<1>6. mem' \in [Addresses -> {LOADER, ZERO, JUNK} \cup 0 .. image.size - 1]
  BY <1>1, <1>3 DEF Types
<1>7. Types'
  BY <1>1, <1>2, <1>5, <1>6, Zenon DEF IInv, Types
<1>8. LineOn' /\ DriveFollows' /\ Positioned'
  BY <1>1, <1>2, <1>3 DEF IInv, LineOn, DriveFollows, Positioned
<1>9. \A a \in Addresses : a < MEG => mem'[a] = mem[a]
  <2>1. ASSUME NEW a \in Addresses, a < MEG
        PROVE  mem'[a] = mem[a]
    <3>1. a \notin image.edata .. image.end - 1
      BY <1>4, <2>1, Constants DEF Addresses
    <3> QED
      BY <1>1, <3>1
  <2> QED
    BY <2>1
<1>10. LoaderIntact'
  <2>1. ASSUME NEW a \in LoaderAt
        PROVE  mem'[a] = LOADER
    <3>1. a \in Addresses /\ a < MEG
      BY LoaderBelow, Constants DEF Addresses
    <3> QED
      BY <1>9, <3>1 DEF IInv, LoaderIntact
  <2> QED
    BY <2>1 DEF LoaderIntact
<1>11. HeadersRead'
  <2>1. ASSUME NEW k \in 0 .. P - 1
        PROVE  mem'[ELFHDR + k] = FileByte(k)
    <3>1. mem[ELFHDR + k] = FileByte(k)
      BY <1>3 DEF IInv, HeadersRead
    <3> QED
      BY <1>9, <3>1, LoaderBelow
  <2>2. \A k : FileByte(k)' = FileByte(k)
    BY <1>1 DEF FileByte
  <2> QED
    BY <2>1, <2>2 DEF HeadersRead
<1>12. SegmentsRead'
  BY <1>1 DEF SegmentsRead
<1>13. KernelComplete'
  <2> DEFINE Bss == image.edata .. image.end - 1
  <2>1. \A a \in Bss : mem'[a] = ZERO
    <3>1. \A a \in Bss : a \in Addresses
      BY <1>4, Constants DEF Addresses
    <3> QED
      BY <1>1, <3>1
  <2>2. ASSUME NEW k \in 1 .. 4, NEW i \in 0 .. image.ph[k].filesz - 1,
               image.ph[k].pa + i \notin Bss
        PROVE  mem'[image.ph[k].pa + i] = image.ph[k].offset + i
    <3>1. k \in 1 .. 3
      BY <1>4
    <3>2. /\ image.ph[k].offset \in Nat /\ image.ph[k].memsz \in Nat
          /\ image.ph[k].pa = MEG - P + image.ph[k].offset
          /\ image.ph[k].filesz \in Nat /\ image.ph[k].filesz <= image.ph[k].memsz
          /\ image.ph[k].pa + image.ph[k].memsz <= MemSize
          /\ image.ph[k].offset + image.ph[k].filesz <= image.size
          /\ image.size \in Nat
      BY <1>3, <3>1, TheImage
    <3> DEFINE a == image.ph[k].pa + i
    <3>3. /\ a \in image.ph[k].pa .. SegmentEnd(k) - 1 /\ a \in Addresses
          /\ a - (MEG - P) = image.ph[k].offset + i
          /\ image.ph[k].offset + i < image.size
      BY <3>2, Constants DEF SegmentEnd, Addresses
    <3>4. mem[a] = FileByte(a - (MEG - P))
      BY <1>1, <1>3, <3>1, <3>3 DEF IInv, SegmentsRead
    <3>5. FileByte(a - (MEG - P)) = image.ph[k].offset + i
      BY <3>3 DEF FileByte
    <3>6. mem'[a] = mem[a]
      BY <1>1, <2>2, <3>3
    <3> QED
      BY <3>4, <3>5, <3>6
  <2> QED
    BY <1>1, <1>4, <2>1, <2>2 DEF KernelComplete
<1> QED
  BY <1>7, <1>8, <1>10, <1>11, <1>12, <1>13 DEF IInv

-----------------------------------------------------------------------------
LEMMA NextIInv ==
  ASSUME IInv, [Next]_vars
  PROVE  IInv'
<1>1. CASE SendCommand
  BY <1>1, SendCommandIInv
<1>2. CASE SendOutputPort
  BY <1>2, SendOutputPortIInv
<1>3. CASE ReadCommand
  BY <1>3, ReadCommandIInv
<1>4. CASE ReadData
  BY <1>4, ReadDataIInv
<1>5. CASE Bad
  BY <1>5, BadIInv
<1>6. CASE NextSegment
  BY <1>6, NextSegmentIInv
<1>7. CASE Enter
  BY <1>7, EnterIInv
<1>8. CASE ClearBss
  BY <1>8, ClearBssIInv
<1>9. CASE KbcTakes
  BY <1>9, KbcTakesIInv
<1>10. CASE DriveReady
  BY <1>10, DriveReadyIInv
<1>11. CASE UNCHANGED vars
  BY <1>11, StutterIInv
<1> QED
  BY <1>1, <1>2, <1>3, <1>4, <1>5, <1>6, <1>7, <1>8, <1>9, <1>10, <1>11 DEF Next, Code

LEMMA InvariantHolds == Spec => []IInv
<1>1. Init => IInv
  BY InitIInv
<1>2. IInv /\ [Next]_vars => IInv'
  BY NextIInv
<1> QED
  BY <1>1, <1>2, PTL DEF Spec

(* Every variable keeps its type: no read leaves memory.                   *)
THEOREM BootTypeCorrect == Spec => []TypeOK
<1>1. IInv => TypeOK
  <2> SUFFICES ASSUME IInv
               PROVE  TypeOK
    OBVIOUS
  <2>1. Types /\ Len(image.ph) = 4
    BY TheImage DEF IInv
  <2>2. kbc.ibf \in {"none", "other", "d1", "df"} /\ ide.state \in {"idle", "busy", "data"}
    BY <2>1 DEF Types
  <2> QED
    BY <2>1, <2>2 DEF Types, TypeOK
<1> QED
  BY <1>1, InvariantHolds, PTL

(* The loader and its stack are never overwritten, and the headers that it *)
(* reads are those of the file, whatever the BIOS left the devices doing   *)
(* (boot.S:24-42, main.c:41-66).                                           *)
THEOREM LoaderAndHeadersSurvive == Spec => []LoaderSurvives
<1>1. IInv => LoaderSurvives
  <2> SUFFICES ASSUME IInv
               PROVE  LoaderSurvives
    OBVIOUS
  <2>1. Types /\ Len(image.ph) = 4 /\ image.size \in Nat /\ image.size > P
    BY TheImage DEF IInv
  <2>2. pc # "wild"
    BY <2>1 DEF Types
  <2>3. \A a \in LoaderAt : mem[a] = LOADER
    BY DEF IInv, LoaderIntact
  <2>4. ASSUME seg > 0, NEW k \in 0 .. 4
        PROVE  Intact(k)
    <3>1. k \in 0 .. P - 1 /\ FileByte(k) = k
      BY <2>1, Constants DEF FileByte
    <3> QED
      BY <2>4, <3>1 DEF IInv, HeadersRead, Intact
  <2> QED
    BY <2>1, <2>2, <2>3, <2>4 DEF LoaderSurvives
<1> QED
  BY <1>1, InvariantHolds, PTL

(* The kernel that runs has every byte of its file in place, outside of a  *)
(* .bss that is all zeros, for any kernel that kernel.ld can lay out       *)
(* (main.c:72-96, init.c:18-21).                                           *)
THEOREM KernelLoaded == Spec => []KernelComplete
<1>1. IInv => KernelComplete
  BY DEF IInv
<1> QED
  BY <1>1, InvariantHolds, PTL
=============================================================================
