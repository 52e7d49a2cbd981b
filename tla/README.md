# A TLA+ development of the JOS kernel of labs 1 and 2

The repository holds two states of a teaching kernel for the PC, JOS:
`jos-2019-spring-lab1` (boot, console, formatted output, monitor, backtraces)
and `jos-2019-spring-lab2`, the same kernel with physical and virtual memory
management (`kern/pmap.c`). The development refers to lab 2, which contains lab 1.
Where the two differ in what they do (`kern/printf.c`, whose copy in lab 1 counts
what it prints, and `kern/init.c`, which tests the backtrace there) both are
modelled. Line numbers below are those of `src/jos-2019-spring-lab2`.

The kernel has one thread, runs with interrupts disabled and never leaves the
monitor. What makes it hard is not threads of its own but what happens between
its instructions: the MMU walks the page tables and fills the TLB at any
moment, devices deliver bytes while the kernel prints, the same 16-bit counters
and two-word structures serve the allocator, the page tables and the self-tests
that manipulate them by hand, and until `lcr3` most of the memory that the
allocator manages cannot be touched.

## Inventory

| Component | State | Operations | Interacts with |
|---|---|---|---|
| Physical page allocator (`kern/pmap.c` 247-353) | `pages[]` (`pp_ref`, `pp_link`), `page_free_list` | `page_init`, `page_alloc`, `page_free`, `page_decref`, `pp_ref++` by callers | everything below |
| Page tables and TLB (`kern/pmap.c` 355-554) | `kern_pgdir`, the words of the table pages, the processor's TLB | `pgdir_walk`, `page_insert`, `page_lookup`, `page_remove`, `tlb_invalidate` | allocator (tables are pages), MMU |
| Memory initialisation (`kern/pmap.c` 23-239, 398-440, 556-979; `kern/kclock.c`) | `npages`, `npages_basemem`, `boot_alloc`'s `nextfree`, the current directory | `i386_detect_memory`, `boot_alloc`, `mem_init`, `boot_map_region(_large)`, seven `check_*` functions | CMOS, allocator, page tables, `entry_pgdir` |
| Console input (`kern/console.c` 48-63, 212-429) | ring buffer `cons`, `shift`, `serial_exists` | `serial_intr`, `kbd_intr`, `cons_intr`, `cons_getc`, `getchar` | UART, keyboard controller, readline |
| Console output (`kern/console.c` 65-118, 126-209), line editor (`lib/readline.c`) | `crt_pos`, `crt_buf`, `buf`; how often a port was polled | `serial_putc`, `lpt_putc`, `cga_putc`, `cons_putc`, `readline` | console input, formatted output |
| Formatted output (`lib/printfmt.c`, `kern/printf.c`) | the conversion in progress, `*cnt`, `sprintbuf` | `vprintfmt`, `printnum`, `vsnprintf`, `cprintf` | console output |
| Debug information (`kern/kdebug.c`) | the stabs table (read only) | `stab_binsearch`, `debuginfo_eip` | monitor |
| Boot loader (`boot/main.c`, `boot/boot.S`) | memory below the kernel, the IDE registers | `readseg`, `readsect`, `waitdisk`, `bootmain` | disk, kernel image |
| Kernel entry and panic (`kern/init.c`, `kern/entry.S`) | `.bss`, `panicstr` | `i386_init`, `_panic`, `_warn` | all |
| Monitor (`kern/monitor.c`) | the line that `runcmd` cuts up, argument vector, chain of frames | `runcmd`, `mon_help`, `mon_kerninfo`, `mon_backtrace`, `mon_time`, `start_overflow` | readline, debug information, `%n` of `vprintfmt` |
| String library (`lib/string.c`) | memory | `memmove`, `strlcpy`, `strtol`, ... | all |
| Linked lists (`inc/queue.h`) | `lh_first`, `le_next`, `le_prev` | `LIST_INIT`, three insertions, `LIST_REMOVE` | nothing yet |

What is hard, and what must hold:

* *Allocator.* Any order of calls must keep the list exact: no page lost, none
  offered twice, no reserved page offered, no cycle. `page_free` recognises an
  allocated page only by its count and its link.
* *Page tables.* `pp_ref` must be the number of entries that point to a page at
  every moment, also while a page replaces itself or an insertion fails; the TLB
  must never outlive an entry; a table page must not be freed or reused while
  the directory points to it.
* *Initialisation.* Before `lcr3` only 4 MB are mapped, while the list that
  `page_init` builds starts with the highest page of the machine. The checks
  must leave the allocator as they found it, or the kernel runs on a broken one.
* *Console.* Two devices feed one ring buffer that does not know that it is
  full; keyboard state is kept between scan codes.
* *Monitor.* `runcmd` cuts readline's one buffer into strings in place, in which
  an earlier, longer line remains behind the new one. `time` calls other
  commands, itself too, with a part of the same argument vector. `backtrace`
  comes to its walk only if `%n` has stored two words byte by byte; the walk
  rests on the chain of frames and, for each, on three binary searches.
* *Display, formatting, strings, debug information, boot loader.* Sequential code
  with boundaries: cursor arithmetic, padding, overlapping and unaligned moves,
  bytes that are negative as `char`, binary search over a mixed table, sector
  rounding.

`PROJECT.json` lists each hazard with its line and the properties that cover it.

## Modules

    PhysPages            pages[] and the free list as pure operators
      PageAllocator      the allocator and its callers        implements PagePool
        PageAllocatorProofs (with PhysPagesProofs)
      PageMaps           page-table functions as pure operators
        PageTables       page tables, callers, MMU and TLB    implements AddressSpace
          PageTablesProofs (with PhysPagesProofs)
        MemInit          mem_init on a machine (with BootChecks)
          MCMemInit
    BootLoader           boot.S, bootmain and the memset of i386_init
      MCBootLoader, BootLoaderProofs
    ScanCodes            scan codes to characters, as an operator
      Console            devices, ring buffer, cons_getc    implements InputQueue
        MCConsole, ConsoleProofs
    Terminal             cga_putc and readline
      MCTerminal, TerminalProofs
    PrintFmt             vprintfmt for the console and for a buffer
      MCPrintFmt
    Kdebug               stab_binsearch and debuginfo_eip
      Monitor            i386_init, _panic, runcmd, the commands, both labs
        MCMonitor, MonitorProofs
    Strings              lib/string.c as operators on memory, and their calls
      MCStrings
    LinkedList           the macros of inc/queue.h
      LinkedListProofs

`PhysPages` holds the tracker as one record `pm = [pp_ref, pp_link,
page_free_list]`. Each C function is an operator on the record, together with
the condition under which it panics, so a handler composes the calls it makes.
A `struct PageInfo *` is the number of its page. `pp_ref` wraps at `RefMod`.

`PageAllocator` adds the callers: `held` is what they have been given and not
given back. A caller frees, references and dereferences only what it holds,
unless `DoubleFrees` is TRUE. `PagePool` is the abstract allocator: a stack of
free pages and a reference count per page.

`PageMaps` extends the record by the directory and the contents of pages. An
address is a pair of directory and table index. A page that nobody cleared is
full of `JUNK`, a word that looks present (the 0x97 that the kernel fills free
pages with has the P bit set) and that is no page.

`PageTables` takes the calls apart at every store that the MMU can see. `op` is
the call in progress with its locals, in particular the pointer to the entry
that `page_insert` keeps while `page_remove` runs. `TlbFill` and `TlbEvict` may
happen between any two stores. `DropTable` is the forced removal of a table of
`check_page`. `AddressSpace` is the abstract specification: a map that changes
in one go, and pages that are held, mapped or free. The refinement shows the
old mapping until the last store of a `page_insert`.

`MemInit` runs `mem_init` line by line on the machine that the CMOS describes.
A step records the pages it touches; one that the current directory does not
map ends in `"faulted"`, a failed assertion or `panic` in `"panicked"`. The
check functions are scripts in `BootChecks`, one entry per call or assertion,
executed on the same state; stealing the free list, clearing directory entries
and setting counts by hand are entries too.

`BootLoader` starts where the BIOS ends. A byte of memory is the offset in the
kernel file it came from, so that what was loaded where can be read off. The
keyboard controller (which drives address line 20) and the drive take their
steps between those of the loader; a byte sent to a controller that has not
taken the last one replaces it, a command to a busy drive is lost, and reading
from a drive without data gives `JUNK`. While line 20 is low, what is stored in
the second megabyte ends in the first. `Image` lays a kernel out as
`kern/kernel.ld` does, with the note that follows the data in the program
headers (`obj/kern/kernel` has it; "we load in increasing order", main.c:86, is
therefore not quite so, and harmless since the note is read from the same
place in the file).

`ScanCodes` has `kbd_proc_data` and its tables, with the rows that differ in how
they are treated. `Console` adds the devices: keys are pressed and released,
bytes arrive from the mouse and the serial port, at any step of the loops that
poll them and of the echo, for which the kernel waits on ports that answer as
they like, up to `MaxPolls` times. A byte in the controller's queue carries what
its key meant when it was pressed, which the kernel never reads; the properties
compare it with what `kbd_proc_data` makes of the byte later. Once the events of
the bound are used up, either device may deliver without end: null characters from the
serial port (`SerialStream`), the code of a Shift, Control or Alt key that stays pressed
(`KeyRepeats`). `InputQueue` is the abstract input: a
queue that empties itself when one character too many arrives.

`Terminal` composes the screen with the line editor. Each character sent to
the screen is one step, since nothing runs between the stores of `cga_putc`.
Between two lines the monitor's output leaves the cursor anywhere.

`Monitor` starts in `i386_init` of either lab. `stack` is the chain that `ebp`
links, innermost first; a frame has the first argument and the return address,
which is given by the pair of caller and callee (`site`). `buf` is readline's
buffer, one cell per word or blank, with what earlier lines have left behind the
end; `argv` holds places in it. `_panic`, which `mem_init` may call before or after
it has loaded `cr3`, adds two frames and a monitor of its own. `start_overflow`
stores two words through `%n`, byte by byte, with the counting of the lab
(`stored`); when the words come out wrong its return goes to address 0, which
the kernel's page directory does not map (`"reset"`, since there is no interrupt
table) and the entry's does (`"astray"`: the machine runs whatever lies there).

`Kdebug` is called by `Monitor` for each frame. It takes one step per turn of the
loop in `stab_binsearch` and one per section of `debuginfo_eip` between the three
searches. `File`, `Function`,
`Line` and `Entries` say what the result should be, by the table and without a
search. The tables are built as the linker builds those of `obj/kern/kernel`.

`PrintFmt` takes one step per character of a format, with the locals of the
directive in work (`padc`, `width`, `precision`, `lflag`, ...). A call is
described by its directives, which give both the format and the arguments, so
that what each is to print (`Shown`) does not depend on the parsing. `Put` is
the `putch` of the caller: the one of lab 2's kern/printf.c, which moves its
pointer instead of counting, the one of lab 1's, which counts, or `sprintputch`,
which counts and stores while there is room. `%n` stores the count as a `char`
(`CharMod`), and -1 with a warning when it does not fit.

`Strings` has each function as an operator on a memory, a function from
addresses to bytes, with loops as recursion and `rep stos`/`rep movs` word by
word in their direction; `memset` and `memmove` are also there as they are without ASM,
byte by byte (string.c:173-205), and a call may be one of either. One action makes any call that C allows: strings that
end, objects with room, no overlap but for `memmove`. `old` is the memory before
the call, of which the properties speak.

`LinkedList` has the pointer fields of a list (`next`, `prev`, where `next` of the
head is `lh_first` and `prev` of an element names the structure whose field points
at it) beside `list`, the list as the users of the macros have made it.

## Runs

| Run | Shows |
|---|---|
| `page_allocator` | 8 pages, 2 + 3 usable, counts up to 3. Types; the list threads exactly the free pages; no panic; refinement of `PagePool`. Five free pages give every order of the list. |
| `double_free` | As above with `DoubleFrees`; the comment at pmap.c:302-303 is contradicted: the last page of the list can be freed again. |
| `page_tables` | 5 pages of which 3 are usable, 2 tables of 2 entries, two permissions. 3 pages suffice for both tables plus a mapping, and for a failing `page_insert`. Counts, ownership, TLB, no panic, refinement of `AddressSpace`. |
| `mem_init` | 300 CMOS readings. Layout scaled down (16 pages for 4 MB, 32 for 256 MB); sizes around each boundary. Types, conservation of free pages, kernel memory untouched, and success on exactly the machines `Adequate` describes; above 256 MB it is `check_page_free_list` that panics, since `page2kva` wraps there (pmap.c:608). |
| `boot_loader` | Sectors of 2 bytes, pages of 4 sectors, 65 kernels: text of part of a page and of a whole one, data and `.bss` ending anywhere in the next page, in the file or not, a file that is no kernel; either device at work when the loader starts, line 20 on or off. The loader and the headers stay intact until they are no longer needed, the kernel is complete and its `.bss` zero when `i386_init` goes on, and the right kernels are started. |
| `console` | A buffer of 3, four presses, releases or bytes, among Shift, the extended Control, Alt, Caps Lock, a letter, the extended Delete, a mouse and a serial byte; each output port may be asked once in vain. Four events fill the buffer, overflow it and wrap both positions. Keys mean what they meant when pressed; the buffer implements `InputQueue`; a byte waits for ever, or `getchar`'s caller for its turn, only while a device delivers without end, also when characters are echoed to ports that are never ready. |
| `terminal` | A screen of 3 rows of 4, lines of at most 4 characters, one character of output and any start of the cursor, so that lines wrap, scroll and fill up. Cursor on the screen; the screen shows the prompt and the line that `readline` returns; nothing before the line changes but by scrolling. |
| `strings` | All strings of up to five bytes over three values, one negative as a `char`, and a memory of three words with a different byte at every address, so that each move, by bytes or words, forwards or backwards, with every overlap and alignment, leaves a trace of its own; numbers at the limits of a `long` of 8 bits in bases 8, 10, 16, 36 and by prefix; texts without a digit: empty, a sign, or `0x` alone. Results, written memory and numbers are right. |
| `monitor` | Lab 1 boots and backtraces on 48 tables of an assembly file, a file without code and one or two C files, with bodies that have parameters on the stack or in registers, an included file and entries nobody reads, with and without a gap between the files, its return addresses spread over 30 addresses in, before and behind the code; both labs, and lab 2 after a panic before or after `lcr3`, have sessions of any two of 15 lines: blanks, unknown commands, too many words, backtraces, nested times with and without a command. Three nested times, `MAXARGS` of 4 and a buffer of 9 cells are enough for a full `argv` and for rests of an earlier line. Each prompt finds the output that the lines ask for and no other, every search ends and is right, and the prompt comes back. |
| `backtrace_lab2` | The kernel of lab 2: "Display a list of function call frames" (monitor.c:28) is not what its `backtrace` does, since `%n` stores 0 (printf.c:13). |
| `print_fmt` | A directive followed by another one, by text or by the end of the format: the numeric conversions with flags, widths of one and two digits or from an argument (negative too), `int` of 4 bits and `long long` of 8 at the ends of their ranges; strings with flags (`-` and `0` in either order), widths and precisions, a precision of 0 by digit and by argument; `%c`, `%n` after up to more characters than its byte counts, `%e` of every kind of code, `%%` and unknown directives. To the console of either lab and to buffers of 0, 1 and 4 bytes. What is printed is what the directives say; lab 1's count is exact; a buffer holds the beginning of the output and a null character; every call returns. |
| `right_padding` | Same instance; the padding that grade-lab1:23 expects of `%-8d` fails for a number of more than one digit: printnum (printfmt.c:53) takes the digits for none. |

Every property of a passing run is broken by a mutant listed in `PROJECT.json`:
a copy of a definition with a plausible slip, kept beside the definition.

`mem_init` is checked with weak fairness of `Next`: it is straight-line code,
and a processor that can execute the next instruction does. `PrintFmt` is fair
for the same reason, and `Monitor` to all its steps but `ReadLine`, since nobody
need type a line. `Console` is fair to the kernel, because `getchar` spins and
calls `cons_getc` again at once, and never to the user, the devices or the output
ports: whether a port is ready is a choice between two steps of the kernel, and
the one that polls again is bounded by `MaxPolls`.
`BootLoader` is fair to the code and to both devices: the loader has no
timeout, so it depends on a controller and a drive that finish. The remaining
runs need no fairness. Deadlock checking is off where the system stops: after a
panic, a fault or the return of `mem_init`, when nobody types a further line, when the
call of `vprintfmt` or of a string function has ended, when the loader has started
the kernel or given up, and after a reboot from the keyboard.

What `InfoCorrect` leaves out: two lines one byte apart, of which `obj/kern/kernel` has
none, since after an exact match the search goes on one address higher
(kdebug.c:80) and would take the second; and, of the result, lines for
addresses before the first line of a file, such as the multiboot header, which
the code invents although the comment announces -1 (kdebug.c:84-93, 175), and
the parameters of functions that take one in a register (kdebug.c:204-208).

What `InputTaken` says: the serial port is empty again and again, unless from some
moment on `cons_intr` stays in its loop for the keyboard (or the machine reboots); the same
of the keyboard, unless it stays in its loop for the serial port; and `cons_getc` comes to
the buffer again and again, unless it stays in either loop. The exceptions are real:
`while ((c = (*proc)()) != -1)` (console.c:400) ends only when the device has nothing, so one
that always has something starves the other and the reader, and the streams of the model
are behaviours of the run. They deliver what is not kept, so that the buffer needs no
further values. The bytes behind one of the mouse, which is given back as no data and stays in
the queue (console.c:326), are no part of the property: nothing reads them any more.

`OutputAsSpecified` states the field width of a number as the code and its tests
have it: a sign and the prefixes of `%o` and `%p` stand before the field. Two more
places are stated as the code has them. The comment at printfmt.c:12-13 promises fields for
numbers only, but strings are padded too (214-228), with zeros if the flag says so. A
precision written as the digit 0 is read as the flag `0` (printfmt.c:153), so
`%.0s` prints the whole string and pads with zeros if a width was given; the precision of
an argument (`%.*s`) may be 0.
In lab 2 the count that `%n` stores is always 0 for the console (printf.c:13 moves
the pointer); `backtrace_lab2` shows what follows from it, and `CountsExact` is about
lab 1. Codes of errors outside the table are printed as numbers but for the smallest
`int`, which stays negative and indexes before the table (`"astray"`).

What `monitor` shows besides: `TOO MANY ARGUMENTS (max 16)` comes with the sixteenth
word, so 15 are the most; `time` without a command compares through the null
pointer that ends `argv`, which resets the machine once the kernel's page directory
is loaded and fails quietly before (`SessionAnswered` says that the kernel is lost
only there and in lab 2's `backtrace`); a `time` that fails makes `monitor` return,
and its caller starts it again.

What `mem_init` shows besides success: on a machine where `boot_alloc` ends
exactly at the end of memory `KADDR` panics though the memory was there; on one
above 256 MB `check_page_free_list` stops the kernel: KERNBASE plus the address of such a
page wraps and is below the first free page (pmap.c:608); a machine whose 4 MB leave
fewer than three free pages cannot boot even if it has memory above.

## Proofs

Each theorem holds for every value of the constants that satisfies the assumptions
of its module; the run of the same module shows it on a small instance first.

| Module | Theorem | States of the specification that |
|---|---|---|
| `PageAllocatorProofs` | `TypeCorrect`, `FreeListCorrect`, `NoPanic` | types, `FreeListSound` and `NeverPanics` are invariants |
| | `PoolImplemented` | it implements `PagePool` |
| `PageTablesProofs` | `TypeCorrect`, `RefCountsCorrect`, `NoLeakNoEarlyFree`, `TlbCorrect`, `NoPanicInTables` | types, `RefCountsExact`, `PagesPartitioned`, `TlbCoherent`, `NeverPanics` are invariants |
| | `AddressSpaceImplemented` | it implements `AddressSpace` |
| `BootLoaderProofs` | `BootTypeCorrect`, `LoaderAndHeadersSurvive`, `KernelLoaded` | types, `LoaderSurvives`, `KernelComplete` are invariants |
| `ConsoleProofs` | `ConsoleTypeCorrect`, `KeysDecoded` | types are invariant; a key gives the character it meant when pressed |
| | `InputQueueImplemented` | it implements `InputQueue` |
| `TerminalProofs` | `TerminalTypeCorrect`, `LineShown`, `NothingElseChanges` | types, `ScreenShowsLine` are invariants; `OnlyTheLineChanges` |
| `MonitorProofs` | `MonitorTypeCorrect`, `SearchesCorrect`, `LookupsCorrect` | types, `SearchesBracket`, `InfoCorrect` are invariants |
| `LinkedListProofs` | `ListCorrect` | `LinksList` is an invariant |

**The allocator.** `PhysPagesProofs` proves about the operators, for every number of
pages and every layout: `PopKeepsList`, `PushKeepsList` and `RefKeepsList` say what
`page_alloc`, `page_free` and the reference operations do to a list that threads
a set of pages; `InitList` says that `page_init` threads exactly the usable
pages. The list is an injective enumeration of the set (`Threads`), so that no
induction along the list is needed: pushing and popping shift the enumeration.
`PageAllocatorProofs` assumes `~DoubleFrees` and takes as inductive invariant `IInv`
the conjunction of the three parts. None is inductive alone: `page_free` does not
panic because a page off the list is unlinked, and a page off the list stays unlinked
because the list threads exactly the pages that nobody holds. The assumption is
needed: `double_free` is the counterexample without it. For the refinement, the links
determine the enumeration (a set of pages is threaded in one way only, `ThreadsOnce`), so the
stack that `FreeStack` chooses is the one that the steps shift.

**Page tables.** The inductive invariant of `PageTablesProofs` is the conjunction of the
properties with what the kernel keeps to itself: a table is a usable page and in
one directory entry (`TablesOK`), its words are null or entries (`WordsOK`), no page
is used in two ways (`Apart`), the list threads the rest (`ListOK`), and the locals of
the call in progress still say the truth (`OpOK`; the pointer that `page_insert` keeps
while `page_remove` runs is still the entry of its address). `TlbCoherent` needs
`OpOK`, `NeverPanics` needs the counts, and the counts need all of them.
The six theorems have the premise `[]CountsFit`: no page is mapped at as many
addresses as `pp_ref` can count. The code does not see to that
(pmap.c:475; 65536 mappings of one page wrap the counter), so it cannot be left out.
`SmallSpaceFits` proves that `CountsFit` holds by itself when there are fewer
addresses than the counter counts, as in the run.

**Boot loader.** Every byte of the file has one address (`ImageLayout`, from what
kernel.ld does), so that what a later sector brings never damages what an earlier
one brought, though `readseg` rounds down and reads on to the end of a sector. `LineOn` and `DriveFollows` say that line 20 is on before
the drive has its first sector, and `Positioned` where in which segment the loop is.

**Console.** `KeyboardFollowed` is the invariant behind `KeysDecoded`: if `kbd_proc_data`
went on through the bytes that wait in the controller, it would decode each of them to
what its key meant when pressed, and end with the modifiers that are pressed now. A
press appends one such byte, the kernel takes the first. The refinement of
`InputQueue` is arithmetic modulo the size of the ring.

**Terminal.** `TextShown` adds to `ScreenShowsLine` the prompt and the partly printed
prompt; that a whole line fits on the screen, so that scrolling never takes its
first character, is `TerminalAssumption` (1024 characters, 2000 cells).

**Monitor and debug information.** `Bracketing` is the loop invariant of
`stab_binsearch`, whose middle is not always an entry of the type it looks for and which
after a match searches on for the next address. Between the three searches, `FileIs`,
`FunctionIs` and `LineIs` say what each has found, in terms of the table only
(`File`, `Function`, `Line` of `Kdebug`). That `backtrace` looks up kernel addresses
only, where `debuginfo_eip` does not panic, follows from the chain of frames (`Chain`:
each frame was called from a place in `Callers`), and that `runcmd` stays in its buffer
from the null character that ends the line somewhere at or behind `pos` (`LineOK`).

**Linked lists.** `ListCorrect` holds for any number of elements, from the assumption
that the head and the null pointer are no elements (`Distinct`). The inductive
invariant is `TypeOK /\ LinksList`: an insertion or a removal reads two links of the
list it finds and must know that they are those of its neighbours, and that no
element is in the list twice. `InsertionLinks` is the step of all three insertions, at
a place k with predecessor `Pred(k)` and successor `Succ(k)`; each macro is then shown
to be an insertion at its place. What an element outside the list still holds is
arbitrary. The module is in no run: with three elements its state space is small
(about 5000 states) and shows nothing that the theorem does not.

### What the constants are assumed to be

* `PhysAssumption`: page 0 is below the end of base memory, which is not above the first
  free page, which the machine has (pmap.c:252-287); a counter counts at least to 1.
* `TableAssumption` of `PageMaps`: finitely many directory and table entries; a
  cleared word is no entry.
* `BootAssumption`, `KernelAssumption`: the boot sector, the page of headers at
  `ELFHDR` (0x10000) and the kernel at 1 MB stand in this order and apart; pages are whole
  sectors; the kernel has code and data and ends within its megabyte, so that line 20 is
  all that decides where a byte goes.
* `ConsoleAssumption`: the ring has at least two places; key codes are the ones a keyboard
  sends when a key is pressed, and none is the escape code when it is released.
* `TerminalAssumption`: the screen is whole rows; prompt and line leave a row free.
* `MonitorAssumption`: a typed line fits the buffer of `readline` with its null character;
  the call sites in `Callers` are in the kernel, which is linked above `ULIM`.
* `TableAssumption` of `Monitor`: the stabs table is `Linked`. These conditions are those
  of the tables that the linker makes of the compiler's: a first entry that is
  none, addresses in order per type within a file or a function and no two neighbours
  one byte apart, lines that belong to functions, parameters right after their function.
  They hold of the table in `obj/kern/kernel` of lab 1 (1570 entries) and of lab 2 (2573).
  TLC checks them on the tables of the run `monitor`.

### Only model-checked

* Liveness: `InputTaken`, `Boots`, `BootsExactly`, `Returns`, `PromptReturns`.
* `MemInit`: scripts of calls on one machine, with a different prediction for each; the
  operators it is made of are those of `PageMaps`, which `PageTablesProofs` is about.
* The properties of `PrintFmt` and `SessionAnswered`: the output they compare with is
  folded over data of any length (the digits of a number, the words of a session), which
  would take induction over that data.
* `Strings`: its functions are recursive operators, which the prover does not take.

## Assumptions and limits

* One processor, interrupts off: kernel calls do not interleave with each other.
* Callers free or map only pages they hold or that are mapped. The repository's
  own callers, the check functions, are in `BootChecks`.
* The MMU caches translations of pages, not directory entries.
* Kernel code and data outside the allocator's reach are not modelled; a page's
  bytes are table entries or `JUNK`.
* The controller that drives line 20 is faster than the drive: boot.S does not
  wait until its last byte has been taken, only the reading of the first page
  lies in between. A drive reports no errors.
* Keyboard bytes behind a byte of the mouse do starve (console.c:326), and so does whatever
  waits while a device delivers without end (console.c:400); `InputTaken` is about the rest.
* The two Shift keys of a keyboard set one bit (console.c:216-234), so releasing one ends both;
  `KeysMeanWhatWasPressed` takes that bit for what "Shift is pressed" means.
* `strtol` of `0x` without digits takes the `0` for a prefix: the number is 0 and `endptr` is
  behind the `x` (string.c:256-257), where ISO C would leave it before. `NumeralRead` states it
  as the code has it.
* `debuginfo_eip`'s checks of the string table (kdebug.c:130-132, 155, 198) are taken to
  succeed: the linker ends the table with a null character and no entry points outside it.
* The tables have no two entries of one type one byte apart (see above), so what the search does
  there is not checked. When every match lies above the address, the region that a search
  leaves is not the empty one that kdebug.c:33-34 promises; `SearchesBracket` says nothing of that
  case, `InfoCorrect` what the caller makes of it.
* Of the assertions of the check functions `BootChecks` leaves out those that compare what
  the line before has computed: pmap.c:846-847, 854, 914 and 964-965.
* `%n` into a buffer is left out: `vprintfmt` takes the word that `putdat` points to
  for the count, which in `vsnprintf` is a pointer, and no caller does it. A
  number is less than 256.
* Nothing at the bottom of physical memory is the name of a command, which is what
  `time` without a command compares with while the entry's directory is in use.
* A reference count that wraps (65536 mappings of one page, pmap.c:475) is outside
  the bounds: the instances and the callers of `PageAllocator` keep below `RefMod`, and
  the theorems about `PageTables` assume `CountsFit`.
* The scaled constants keep the order of the layout: page 0, base memory, I/O
  hole, kernel, directory, pages array, free memory.

## Not modelled

* `_warn`, which only prints; the registers of the 6845 and the attribute byte, which
  show what `crt_pos` and `crt_buf` hold; the two port accesses of the NVRAM
  (`kern/kclock.c`), whose readings are an input of `MemInit`.
* The sources of lab 1 that are also in lab 2: console, formatted output, strings,
  debug information, boot loader, readline. They are the same code and are modelled
  once; what differs is in `Monitor` and `PrintFmt`.
* `inc/x86.h`, one instruction per function, which the models have at its use.
* The text of the boot sector's signature, build files, grading scripts.

## Plan

1. Proofs: the types, `FreePagesConserved` and `KernelUntouched` of `MemInit`, from the
   lemmas of `PhysPagesProofs`, which have to be stated for a machine whose size is
   read from the CMOS, as a variable.
2. The composition of `Terminal` with `Console`: readline waits for the characters that
   `cons_getc` returns and echoes each of them.
