----------------------------- MODULE BootLoader -----------------------------
(***************************************************************************)
(* From the boot sector to the kernel's first C function: boot/boot.S      *)
(* (A20), boot/main.c (bootmain, readseg, readsect, waitdisk), and the     *)
(* memset of kern/init.c that completes the loading.  The keyboard         *)
(* controller, which drives A20, and the drive work at their own pace;     *)
(* the loader polls them.                                                  *)
(*                                                                         *)
(* A byte of memory is the offset in the kernel file that it was read      *)
(* from, or one of LOADER, ZERO and JUNK.  The ELF header is byte 0 of the *)
(* file and the program header k is byte k.                                *)
(***************************************************************************)
EXTENDS Integers, Sequences

CONSTANTS
  SECTSIZE,    \* 512
  HDRSECTS,    \* 8: sectors of the file's first page
  BOOT,        \* 0x7c00: the boot sector, with its stack below
  ELFHDR,      \* 0x10000
  MEG,         \* 1 MB: where address line 20 begins and the kernel is loaded
  Kernels,     \* kernel files: [text, data, bss, nobits, magic]
  NULL

LOADER == -1
ZERO == -2
JUNK == -3

PGSIZE == SECTSIZE * HDRSECTS
MemSize == 2 * MEG

ASSUME BootAssumption ==
  /\ SECTSIZE \in Nat \ {0} /\ HDRSECTS \in Nat \ {0} /\ PGSIZE > 4
  /\ BOOT \in Nat \ {0} /\ ELFHDR \in Nat /\ MEG \in Nat
  /\ BOOT + SECTSIZE <= ELFHDR /\ ELFHDR + PGSIZE <= MEG
  /\ ELFHDR % PGSIZE = 0 /\ MEG % PGSIZE = 0
  /\ NULL \notin Nat

VARIABLES
  image,                \* the kernel file on the disk
  mem, a20,             \* memory, and whether address line 20 works
  kbc,                  \* [ibf, port]: byte not yet taken; 0xd1 was taken last
  ide,                  \* [state, lba]
  pc,
  seg,                  \* the program header in work, 0 for the first page
  pa, end_pa, offset    \* readseg's locals

locals == <<seg, pa, end_pa, offset>>
vars == <<image, mem, a20, kbc, ide, pc, locals>>

Addresses == 0 .. MemSize - 1

(* With line 20 tied low the second megabyte is the first.                 *)
Bus(a) == IF a20 THEN a ELSE a % MEG

-----------------------------------------------------------------------------
(* A kernel as kernel.ld links it: text (with a note at its end) at 1 MB,  *)
(* data on the next page, .bss behind it, which BYTE(0) puts into the file *)
(* unless nobits.  The note has a program header of its own, after that of *)
(* the data, and the stack one of no size.                                 *)
PageUp(n) == ((n + PGSIZE - 1) \div PGSIZE) * PGSIZE

(* Its sections are not empty, and memory has room for it.                 *)
ASSUME KernelAssumption ==
  /\ Kernels \subseteq [text : Nat \ {0}, data : Nat \ {0}, bss : Nat,
                        nobits : BOOLEAN, magic : BOOLEAN]
  /\ \A kernel \in Kernels : PageUp(kernel.text) + kernel.data + kernel.bss + 1 <= MEG

(* A program header: of what follows the first page of the file.           *)
Proghdr(at, filesz, memsz) ==
  [pa |-> MEG + at - PGSIZE, offset |-> at, filesz |-> filesz, memsz |-> memsz]

Image(kernel) ==
  LET text == kernel.text
      data == kernel.data
      start == PGSIZE + PageUp(text)
      pad == IF kernel.nobits THEN 0 ELSE kernel.bss + 1
      size == IF kernel.nobits THEN kernel.bss ELSE kernel.bss + 1
  IN  [magic |-> kernel.magic,
       ph |-> <<Proghdr(PGSIZE, text, text),
                Proghdr(start, data + pad, data + size),
                Proghdr(PGSIZE + text - 1, 1, 1),
                [pa |-> 0, offset |-> 0, filesz |-> 0, memsz |-> 0]>>,
       edata |-> MEG + start - PGSIZE + data,
       end |-> MEG + start - PGSIZE + data + kernel.bss,
       size |-> start + data + pad]

(* The disk: the boot sector, then the file.                               *)
Sector(n) ==
  [i \in 0 .. SECTSIZE - 1 |->
     IF n = 0 THEN LOADER
     ELSE LET k == (n - 1) * SECTSIZE + i IN IF k < image.size THEN k ELSE JUNK]

-----------------------------------------------------------------------------
(* The BIOS has loaded the boot sector and may have left either device at  *)
(* work, and line 20 on.                                                   *)
LoaderAt == BOOT - 1 .. BOOT + SECTSIZE - 1

Init ==
  /\ image \in {Image(kernel) : kernel \in Kernels}
  /\ mem = [a \in Addresses |-> IF a \in LoaderAt THEN LOADER ELSE JUNK]
  /\ a20 \in BOOLEAN
  /\ kbc \in [ibf : {"none", "other"}, port : {FALSE}]
  /\ ide \in [state : {"idle", "busy"}, lba : {NULL}]
  /\ pc = "seta20.1"
  /\ seg = 0 /\ pa = 0 /\ end_pa = 0 /\ offset = 0

(* The controller takes a byte; only after 0xd1 does 0xdf go to its output *)
(* port, which turns line 20 on.                                           *)
KbcTakes ==
  /\ kbc.ibf # "none"
  /\ a20' = (a20 \/ (kbc.ibf = "df" /\ kbc.port))
  /\ kbc' = [ibf |-> "none", port |-> kbc.ibf = "d1"]
  /\ UNCHANGED <<image, mem, ide, pc, locals>>

(* The drive finishes, later than the controller.                          *)
DriveReady ==
  /\ ide.state = "busy" /\ kbc.ibf = "none"
  /\ ide' = [ide EXCEPT !.state = IF ide.lba = NULL THEN "idle" ELSE "data"]
  /\ UNCHANGED <<image, mem, a20, kbc, pc, locals>>

(* A byte that is sent too early replaces the one not yet taken.           *)
Send(b) == kbc' = [kbc EXCEPT !.ibf = b]

SendCommand ==
  /\ pc = "seta20.1" /\ kbc.ibf = "none"
  /\ Send("d1")
  /\ pc' = "seta20.2"
  /\ UNCHANGED <<image, mem, a20, ide, locals>>

(* Mutant of readseg: the address is not rounded down.                     *)
readseg_Unrounded(start, count, off) ==
  /\ end_pa' = start + count
  /\ pa' = start
  /\ offset' = off \div SECTSIZE + 1
  /\ pc' = "readseg"

readseg(start, count, off) ==
  /\ end_pa' = start + count
  /\ pa' = start - (start % SECTSIZE)
  /\ offset' = off \div SECTSIZE + 1
  /\ pc' = "readseg"

(* Mutant of SendOutputPort: seta20.2 does not wait.                       *)
SendOutputPort_NoWait ==
  /\ pc = "seta20.2"
  /\ Send("df")
  /\ readseg(ELFHDR, PGSIZE, 0) /\ UNCHANGED seg
  /\ UNCHANGED <<image, mem, a20, ide>>

(* ... and the switch to protected mode, and bootmain's first call.        *)
SendOutputPort ==
  /\ pc = "seta20.2" /\ kbc.ibf = "none"
  /\ Send("df")
  /\ readseg(ELFHDR, PGSIZE, 0) /\ UNCHANGED seg
  /\ UNCHANGED <<image, mem, a20, ide>>

-----------------------------------------------------------------------------
(* readsect.  A busy drive ignores a command.                              *)
Command(lba) ==
  ide' = IF ide.state = "busy" THEN ide ELSE [state |-> "busy", lba |-> lba]

(* Mutant of ReadCommand: no waitdisk before the command.                  *)
ReadCommand_NoWait ==
  /\ pc = "readseg" /\ pa < end_pa
  /\ Command(offset)
  /\ pc' = "data"
  /\ UNCHANGED <<image, mem, a20, kbc, locals>>

(* Mutant of ReadCommand: a sector too many.                               *)
ReadCommand_PastEnd ==
  /\ pc = "readseg" /\ pa <= end_pa /\ ide.state # "busy"
  /\ Command(offset)
  /\ pc' = "data"
  /\ UNCHANGED <<image, mem, a20, kbc, locals>>

ReadCommand ==
  /\ pc = "readseg" /\ pa < end_pa /\ ide.state # "busy"
  /\ Command(offset)
  /\ pc' = "data"
  /\ UNCHANGED <<image, mem, a20, kbc, locals>>

(* insl: what a drive without data delivers is not defined.                *)
Delivered == IF ide.state = "data" THEN Sector(ide.lba)
             ELSE [i \in 0 .. SECTSIZE - 1 |-> JUNK]

ReadData ==
  /\ pc = "data" /\ ide.state # "busy"
  /\ LET into == {Bus(pa + i) : i \in 0 .. SECTSIZE - 1}
     IN  mem' = [a \in Addresses |->
                   IF a \in into THEN Delivered[(a - Bus(pa)) % SECTSIZE] ELSE mem[a]]
  /\ ide' = [state |-> "idle", lba |-> NULL]
  /\ pa' = pa + SECTSIZE /\ offset' = offset + 1
  /\ pc' = "readseg"
  /\ UNCHANGED <<image, a20, kbc, seg, end_pa>>

Done == pc = "readseg" /\ pa >= end_pa

-----------------------------------------------------------------------------
(* bootmain.  A header that is not there is not known; the loader would do *)
(* anything.                                                               *)
Intact(k) == mem[ELFHDR + k] = k

Bad ==
  /\ Done /\ seg = 0
  /\ ~(Intact(0) /\ image.magic)
  /\ pc' = "bad"
  /\ UNCHANGED <<image, mem, a20, kbc, ide, locals>>

NextSegment ==
  /\ Done /\ seg < Len(image.ph)
  /\ seg = 0 => Intact(0) /\ image.magic
  /\ seg' = seg + 1
  /\ IF Intact(seg + 1)
     THEN readseg(image.ph[seg + 1].pa, image.ph[seg + 1].memsz, image.ph[seg + 1].offset)
     ELSE pc' = "wild" /\ UNCHANGED <<pa, end_pa, offset>>
  /\ UNCHANGED <<image, mem, a20, kbc, ide>>

Enter ==
  /\ Done /\ seg = Len(image.ph)
  /\ pc' = "i386_init"
  /\ UNCHANGED <<image, mem, a20, kbc, ide, locals>>

ClearBss ==
  /\ pc = "i386_init"
  /\ mem' = [a \in Addresses |-> IF a \in image.edata .. image.end - 1 THEN ZERO ELSE mem[a]]
  /\ pc' = "running"
  /\ UNCHANGED <<image, a20, kbc, ide, locals>>

Code ==
  \/ SendCommand \/ SendOutputPort \/ ReadCommand \/ ReadData
  \/ Bad \/ NextSegment \/ Enter \/ ClearBss

Next == Code \/ KbcTakes \/ DriveReady

(* The processor goes on, and both devices finish what they do.            *)
Spec == Init /\ [][Next]_vars /\ WF_vars(Code) /\ WF_vars(KbcTakes) /\ WF_vars(DriveReady)

-----------------------------------------------------------------------------
TypeOK ==
  /\ mem \in [Addresses -> {LOADER, ZERO, JUNK} \cup 0 .. image.size - 1]
  /\ seg \in 0 .. Len(image.ph)
  /\ pa \in 0 .. MemSize /\ end_pa \in 0 .. MemSize
  /\ kbc.ibf \in {"none", "other", "d1", "df"} /\ ide.state \in {"idle", "busy", "data"}

(* Until it enters the kernel the loader overwrites neither itself, nor    *)
(* the headers it still reads: line 20 is on by the first write above 1 MB *)
(* and no sector that is read whole reaches below its segment too far      *)
(* (boot.S:24-42, main.c:41-56).                                           *)
LoaderSurvives ==
  pc \notin {"bad", "i386_init", "running"} =>
    /\ pc # "wild"
    /\ \A a \in LoaderAt : mem[a] = LOADER
    /\ seg > 0 => \A k \in 0 .. Len(image.ph) : Intact(k)

(* i386_init runs on the whole kernel, byte for byte, and on a zeroed .bss,*)
(* although segments are read in whole sectors, the note after the data,   *)
(* and memsz bytes of which the file may have fewer (main.c:72-96,         *)
(* init.c:18-21).                                                          *)
KernelComplete ==
  pc = "running" =>
    LET Bss == image.edata .. image.end - 1
    IN  /\ \A a \in Bss : mem[a] = ZERO
        /\ \A k \in 1 .. Len(image.ph) : \A i \in 0 .. image.ph[k].filesz - 1 :
             LET a == image.ph[k].pa + i
             IN  a \notin Bss => mem[a] = image.ph[k].offset + i

(* Whatever the BIOS left the devices doing, a kernel with the right magic *)
(* is started, and any other file is refused (main.c:46-66).               *)
Boots == <>(pc = IF image.magic THEN "running" ELSE "bad")
=============================================================================
