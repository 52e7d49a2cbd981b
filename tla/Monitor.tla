------------------------------ MODULE Monitor ------------------------------
(***************************************************************************)
(* The kernel monitor of both labs (kern/monitor.c) and what brings the    *)
(* kernel to it: i386_init with test_backtrace in lab 1 and with mem_init  *)
(* in lab 2, and _panic.  runcmd cuts the line into arguments in place;    *)
(* time calls other commands, itself too; backtrace follows the chain of   *)
(* frames and looks each return address up (Kdebug).                       *)
(*                                                                         *)
(* A line is a sequence of words and blanks, a word being one cell of the  *)
(* buffer.  'stack' has the frames of the functions in work, the innermost *)
(* first, as the chain of ebp links them; runcmd is inlined in monitor.    *)
(***************************************************************************)
EXTENDS Integers, FiniteSetsExt, Sequences, SequencesExt

CONSTANTS
  Starts,      \* [lab, fails, site, stabs, session]: a kernel and the lines typed
  Depth,       \* the argument of lab 1's call of test_backtrace
  MAXARGS,
  BufLen,      \* cells of readline's buffer
  ByteMod,     \* 2^8
  ULIM,
  NULL

VARIABLES
  kernel,                            \* [lab, fails, site, session] of Starts
  cr3,                               \* the page directory: "entry" or "kern"
  panicstr,                          \* whether _panic has been called
  pc, stack, res,                    \* control, frames, and what a command returned
  typed,                             \* lines typed so far
  buf, pos, argv,                    \* the line, the place in it, the arguments' places
  walk,                              \* the frame that backtrace is at
  output,                            \* what has been printed
  stabs, eip, search, loc, info, kpc \* Kdebug

K == INSTANCE Kdebug WITH pc <- kpc

NUL == "\\0"

(* Who calls whom in a chain of frames: the call sites in init.c, pmap.c   *)
(* and monitor.c that a return address can belong to.                      *)
Callers ==
  { <<"entry", "i386_init">>, <<"i386_init", "test_backtrace">>,
    <<"test_backtrace", "test_backtrace">>, <<"test_backtrace", "mon_backtrace">>,
    <<"i386_init", "monitor">>, <<"i386_init", "mem_init">>, <<"mem_init", "_panic">>,
    <<"_panic", "monitor">>, <<"monitor", "mon_time">>, <<"mon_time", "mon_time">>,
    <<"monitor", "mon_backtrace">>, <<"mon_time", "mon_backtrace">> }

(* A line fits readline's buffer with the null character that ends it, the *)
(* code is in the kernel's part of the address space, and the table is one *)
(* that the linker makes of the compiler's.                                *)
ASSUME MonitorAssumption ==
  /\ Depth \in Nat /\ MAXARGS \in Nat \ {0} /\ ByteMod \in Nat \ {0}
  /\ BufLen \in Nat \ {0} /\ ULIM \in Nat
  /\ \A s \in Starts :
       /\ s.lab \in {1, 2}
       /\ s.session \in Seq(Seq(STRING \ {NUL}))
       /\ \A i \in DOMAIN s.session : Len(s.session[i]) < BufLen
       /\ \A c \in Callers : s.site[c] \in Nat /\ s.site[c] >= ULIM

ASSUME TableAssumption == \A t \in {s.stabs : s \in Starts} : K!Linked(t)

kvars == <<stabs, eip, search, loc, info, kpc>>
line == <<buf, pos, argv>>
vars == <<kernel, cr3, panicstr, pc, stack, res, typed, line, walk, output, kvars>>

-----------------------------------------------------------------------------
Blank == " "                         \* WHITESPACE
commands == {"help", "kerninfo", "backtrace", "time"}

Frame(caller, fn, arg) == [fn |-> fn, arg |-> arg, ret |-> kernel.site[<<caller, fn>>]]

Top == Head(stack)

Call(fn, arg) == stack' = <<Frame(Top.fn, fn, arg)>> \o stack /\ pc' = fn

Say(event) == output' = Append(output, event)

Init ==
  /\ \E s \in Starts :
       /\ kernel = [lab |-> s.lab, fails |-> s.fails, site |-> s.site, session |-> s.session]
       /\ stabs = s.stabs
  /\ cr3 = "entry" /\ panicstr = FALSE
  /\ pc = "i386_init" /\ stack = <<Frame("entry", "i386_init", NULL)>> /\ res = 0
  /\ typed = 0 /\ buf = [i \in 1 .. BufLen |-> NUL] /\ pos = 1 /\ argv = <<>>
  /\ walk = 0 /\ output = <<>>
  /\ K!Init

(* Lab 1 tests the backtrace.                                              *)
TestsBacktrace ==
  /\ pc = "i386_init" /\ kernel.lab = 1
  /\ Call("test_backtrace", Depth)
  /\ UNCHANGED <<kernel, cr3, panicstr, res, typed, line, walk, output, kvars>>

test_backtrace ==
  /\ pc = "test_backtrace"
  /\ Say(<<"entering", Top.arg>>)
  /\ IF Top.arg > 0 THEN Call("test_backtrace", Top.arg - 1) ELSE Call("mon_backtrace", 0)
  /\ UNCHANGED <<kernel, cr3, panicstr, res, typed, line, walk, kvars>>

(* Lab 2 sets up memory, which may panic before or after it loads cr3.     *)
MemInit ==
  /\ pc = "i386_init" /\ kernel.lab = 2 /\ kernel.fails = NULL
  /\ cr3' = "kern"
  /\ Call("monitor", 0)
  /\ UNCHANGED <<kernel, panicstr, res, typed, line, walk, output, kvars>>

MemInitPanics ==
  /\ pc = "i386_init" /\ kernel.lab = 2 /\ kernel.fails # NULL
  /\ cr3' = IF kernel.fails = "after" THEN "kern" ELSE cr3
  /\ stack' = <<Frame("mem_init", "_panic", NULL), Frame(Top.fn, "mem_init", NULL)>> \o stack
  /\ pc' = "_panic"
  /\ UNCHANGED <<kernel, panicstr, res, typed, line, walk, output, kvars>>

_panic ==
  /\ pc = "_panic"
  /\ IF panicstr THEN UNCHANGED output ELSE Say(<<"kernel panic">>)
  /\ panicstr' = TRUE
  /\ Call("monitor", 0)
  /\ UNCHANGED <<kernel, cr3, res, typed, line, walk, kvars>>

-----------------------------------------------------------------------------
monitor ==
  /\ pc = "monitor"
  /\ Say(<<"welcome">>) /\ pc' = "readline"
  /\ UNCHANGED <<kernel, cr3, panicstr, stack, res, typed, line, walk, kvars>>

(* The buffer is the same for every line: what was behind it stays.        *)
ReadLine ==
  /\ pc = "readline" /\ typed < Len(kernel.session)
  /\ typed' = typed + 1
  /\ LET s == Append(kernel.session[typed'], NUL)
     IN  buf' = s \o SubSeq(buf, Len(s) + 1, BufLen)
  /\ pos' = 1 /\ argv' = <<>> /\ pc' = "runcmd"
  /\ UNCHANGED <<kernel, cr3, panicstr, stack, res, walk, output, kvars>>

(* Mutant of Gobble: the blank stays in the line.                          *)
Gobble_Keeps ==
  /\ pc = "runcmd" /\ buf[pos] = Blank
  /\ pos' = pos + 1
  /\ UNCHANGED <<kernel, cr3, panicstr, pc, stack, res, typed, buf, argv, walk, output, kvars>>

Gobble ==
  /\ pc = "runcmd" /\ buf[pos] = Blank
  /\ buf' = [buf EXCEPT ![pos] = NUL] /\ pos' = pos + 1
  /\ UNCHANGED <<kernel, cr3, panicstr, pc, stack, res, typed, argv, walk, output, kvars>>

SaveArg ==
  /\ pc = "runcmd" /\ buf[pos] \notin {Blank, NUL} /\ Len(argv) < MAXARGS - 1
  /\ argv' = Append(argv, pos) /\ pos' = pos + 1
  /\ UNCHANGED <<kernel, cr3, panicstr, pc, stack, res, typed, buf, walk, output, kvars>>

TooManyArgs ==
  /\ pc = "runcmd" /\ buf[pos] \notin {Blank, NUL} /\ Len(argv) = MAXARGS - 1
  /\ Say(<<"too many">>) /\ pc' = "return" /\ res' = 0
  /\ UNCHANGED <<kernel, cr3, panicstr, stack, typed, line, walk, kvars>>

(* The string at a place of the buffer, as the cells up to its end.        *)
StringAt(i) == SubSeq(buf, i, SelectInSubSeq(buf, i, BufLen, LAMBDA c : c = NUL) - 1)

(* The commands that only print.                                           *)
Reports == {"help", "kerninfo"}

(* A command and its remaining arguments: only those of backtrace and time *)
(* need a frame.                                                           *)
Invoke(name, argc) ==
  /\ name \in commands
  /\ IF name \in Reports
     THEN Say(<<name>>) /\ res' = 0 /\ pc' = "return" /\ UNCHANGED stack
     ELSE /\ Call(IF name = "time" THEN "mon_time" ELSE "mon_backtrace", argc)
          /\ UNCHANGED <<res, output>>
  /\ UNCHANGED <<kernel, cr3, panicstr, typed, line, walk, kvars>>

Parsed == pc = "runcmd" /\ buf[pos] = NUL

NoCommand ==
  /\ Parsed /\ argv = <<>>
  /\ pc' = "return" /\ res' = 0
  /\ UNCHANGED <<kernel, cr3, panicstr, stack, typed, line, walk, output, kvars>>

Command ==
  /\ Parsed /\ argv # <<>>
  /\ \E name \in commands : StringAt(argv[1]) = <<name>> /\ Invoke(name, Len(argv))

UnknownCommand ==
  /\ Parsed /\ argv # <<>> /\ \A name \in commands : StringAt(argv[1]) # <<name>>
  /\ Say(<<"unknown", StringAt(argv[1])>>) /\ res' = 0 /\ pc' = "return"
  /\ UNCHANGED <<kernel, cr3, panicstr, stack, typed, line, walk, kvars>>

-----------------------------------------------------------------------------
(* mon_time with argc arguments has the last argc of the line.             *)
Target(argc) ==
  IF argc = 1 THEN NULL ELSE StringAt(argv[Len(argv) - argc + 2])

TimeCommand ==
  /\ pc = "mon_time"
  /\ \E name \in commands : Target(Top.arg) = <<name>> /\ Invoke(name, Top.arg - 1)

(* strcmp of the null pointer that ends argv: with the entry's directory   *)
(* it reads the bottom of memory, with the kernel's it faults, and without *)
(* an interrupt table the machine resets.                                  *)
TimeNothing ==
  /\ pc = "mon_time" /\ Target(Top.arg) = NULL
  /\ pc' = (IF cr3 = "kern" THEN "reset" ELSE "return") /\ res' = -1
  /\ UNCHANGED <<kernel, cr3, panicstr, stack, typed, line, walk, output, kvars>>

TimeUnknown ==
  /\ pc = "mon_time" /\ Target(Top.arg) # NULL
  /\ \A name \in commands : Target(Top.arg) # <<name>>
  /\ pc' = "return" /\ res' = -1
  /\ UNCHANGED <<kernel, cr3, panicstr, stack, typed, line, walk, output, kvars>>

(* A command has returned to the one that called it.                       *)
ReturnToTime ==
  /\ pc = "return" /\ Top.fn = "mon_time"
  /\ Say(<<IF res < 0 THEN "unknown" ELSE "cycles", Target(Top.arg)>>)
  /\ stack' = Tail(stack)
  /\ UNCHANGED <<kernel, cr3, panicstr, pc, res, typed, line, walk, kvars>>

ReturnToTest ==
  /\ pc = "return" /\ Top.fn = "test_backtrace"
  /\ Say(<<"leaving", Top.arg>>)
  /\ stack' = Tail(stack)
  /\ UNCHANGED <<kernel, cr3, panicstr, pc, res, typed, line, walk, kvars>>

(* monitor prompts again, or it returns and is called again.               *)
ReturnToMonitor ==
  /\ pc = "return" /\ Top.fn = "monitor"
  /\ pc' = IF res < 0 THEN "monitor" ELSE "readline"
  /\ UNCHANGED <<kernel, cr3, panicstr, stack, res, typed, line, walk, output, kvars>>

(* The tests are over.                                                     *)
ReturnToInit ==
  /\ pc = "return" /\ Top.fn = "i386_init"
  /\ Call("monitor", 0)
  /\ UNCHANGED <<kernel, cr3, panicstr, res, typed, line, walk, output, kvars>>

-----------------------------------------------------------------------------
(* mon_backtrace.  start_overflow prints as many spaces as each byte says  *)
(* and has %n store the count there: its return address goes one word up,  *)
(* the address of do_overflow takes its place, and do_overflow returns to  *)
(* where start_overflow was called.  A count of 255 is stored as -1.       *)
stored(byte) ==
  CASE kernel.lab = 2 -> 0
    [] kernel.lab = 1 /\ byte >= ByteMod - 1 -> (-1) % ByteMod
    [] OTHER -> byte

storedWord(a) == stored(a % ByteMod) + ByteMod * stored(a \div ByteMod)

return_address == kernel.site[<<"overflow_me", "start_overflow">>]
do_overflow == kernel.site[<<"do_overflow">>]

Detour == storedWord(do_overflow) = do_overflow /\ storedWord(return_address) = return_address

OverflowMe ==
  /\ pc = "mon_backtrace" /\ Detour
  /\ output' = output \o <<<<"overflow success">>, <<"backtrace">>>>
  /\ walk' = 1 /\ pc' = "walk"
  /\ UNCHANGED <<kernel, cr3, panicstr, stack, res, typed, line, kvars>>

(* A return to address 0: with the kernel's page directory it faults and   *)
(* the machine resets, with the entry's it runs whatever lies there.       *)
ReturnsToZero ==
  /\ pc = "mon_backtrace" /\ ~Detour
  /\ pc' = IF cr3 = "kern" THEN "reset" ELSE "astray"
  /\ UNCHANGED <<kernel, cr3, panicstr, stack, res, typed, line, walk, output, kvars>>

(* One frame of the chain: its return address is looked up, and printed    *)
(* with its arguments and with what info then says, found or not.          *)
NextFrame ==
  /\ pc = "walk" /\ walk <= Len(stack)
  /\ K!debuginfo_eip(stack[walk].ret)
  /\ UNCHANGED <<kernel, cr3, panicstr, pc, stack, res, typed, line, walk, output, stabs>>

debuginfo_eip ==
  /\ pc = "walk" /\ K!Next
  /\ UNCHANGED <<kernel, cr3, panicstr, pc, stack, res, typed, line, walk, output, stabs>>

PrintFrame ==
  /\ pc = "walk" /\ kpc \in {"done", "failed"}
  /\ Say(<<"frame", stack[walk].ret, stack[walk].arg>>)
  /\ walk' = walk + 1 /\ kpc' = "idle"
  /\ UNCHANGED <<kernel, cr3, panicstr, pc, stack, res, typed, line,
                 stabs, eip, search, loc, info>>

(* The frame of i386_init holds the ebp that entry.S has set to 0.         *)
LastFrame ==
  /\ pc = "walk" /\ kpc = "idle" /\ walk > Len(stack)
  /\ Say(<<"backtrace success">>)
  /\ stack' = Tail(stack) /\ res' = 0 /\ pc' = "return" /\ walk' = 0
  /\ UNCHANGED <<kernel, cr3, panicstr, typed, line, kvars>>

Runs ==
  \/ TestsBacktrace \/ test_backtrace \/ MemInit \/ MemInitPanics \/ _panic
  \/ monitor \/ Gobble \/ SaveArg \/ TooManyArgs
  \/ NoCommand \/ Command \/ UnknownCommand
  \/ TimeCommand \/ TimeNothing \/ TimeUnknown
  \/ ReturnToTime \/ ReturnToTest \/ ReturnToMonitor \/ ReturnToInit
  \/ OverflowMe \/ ReturnsToZero \/ NextFrame \/ debuginfo_eip \/ PrintFrame \/ LastFrame

Next == ReadLine \/ Runs

(* Sequential code with no interrupts: its next step is always taken.      *)
(* Nobody need type a line.                                                *)
Spec == Init /\ [][Next]_vars /\ WF_vars(Runs)

-----------------------------------------------------------------------------
TypeOK ==
  /\ cr3 \in {"entry", "kern"} /\ panicstr \in BOOLEAN
  /\ pc \in {"i386_init", "test_backtrace", "_panic", "monitor", "readline", "runcmd",
             "mon_time", "mon_backtrace", "walk", "return", "reset", "astray"}
  /\ pos \in 1 .. BufLen /\ argv \in Seq(1 .. BufLen) /\ Len(argv) < MAXARGS
  /\ walk \in 0 .. Len(stack) + 1 /\ Top.fn # "entry"
  /\ K!TypeOK

SearchesBracket == K!SearchesBracket
InfoCorrect == K!InfoCorrect

(* The monitor comes to its prompt, and back to it after every line: the   *)
(* parser, the commands that call commands, the chain of frames and every  *)
(* search end, whatever entries are in between (monitor.c:176-230,         *)
(* kdebug.c:56-82).  Only a machine that has reset or strayed stays away.  *)
PromptReturns == []<>(pc \in {"readline", "reset", "astray"})

(* What a session is to print.  A chain is the functions that have called  *)
(* each other with their first arguments, the innermost first.             *)
MonitorChain ==
  <<<<"monitor", 0>>>>
    \o (IF kernel.fails = NULL THEN <<>> ELSE <<<<"_panic", NULL>>, <<"mem_init", NULL>>>>)
    \o <<<<"i386_init", NULL>>>>

Backtrace(chain) ==
  LET caller(i) == IF i = Len(chain) THEN "entry" ELSE chain[i + 1][1]
      frames == [i \in DOMAIN chain |->
                   <<"frame", kernel.site[<<caller(i), chain[i][1]>>], chain[i][2]>>]
  IN  <<<<"overflow success">>, <<"backtrace">>>> \o frames \o <<<<"backtrace success">>>>

BootOutput ==
  IF kernel.lab = 1
  THEN LET tests == [i \in 1 .. Depth + 1 |-> <<"test_backtrace", i - 1>>]
       IN  [i \in 1 .. Depth + 1 |-> <<"entering", Depth + 1 - i>>]
             \o Backtrace(<<<<"mon_backtrace", 0>>>> \o tests \o <<<<"i386_init", NULL>>>>)
             \o [i \in 1 .. Depth + 1 |-> <<"leaving", i - 1>>] \o <<<<"welcome">>>>
  ELSE IF kernel.fails = NULL THEN <<<<"welcome">>>> ELSE <<<<"kernel panic">>, <<"welcome">>>>

(* A line of times that ends in nothing, or in no command, fails.          *)
Fails(words) ==
  /\ words # <<>> /\ words[1] = "time"
  /\ \/ \A i \in DOMAIN words : words[i] = "time"
     \/ \E n \in DOMAIN words : /\ words[n] \notin commands
                                /\ \A i \in 1 .. n - 1 : words[i] = "time"

(* The k-th word is a command with the words from there on, called by the  *)
(* times before it.                                                        *)
Answer(words, chain) ==
  LET argc(k) == Len(words) + 1 - k
      times(k) == [i \in 1 .. k - 1 |-> <<"mon_time", argc(k - i)>>]
      name(k) == IF argc(k) = 1 THEN NULL ELSE <<words[k + 1]>>
      answer[k \in DOMAIN words] ==
        CASE words[k] \in Reports -> <<<<words[k]>>>>
          [] words[k] = "backtrace" ->
               Backtrace(<<<<"mon_backtrace", argc(k)>>>> \o times(k) \o chain)
          [] words[k] = "time" ->
               Append(IF argc(k) = 1 \/ words[k + 1] \notin commands THEN <<>> ELSE answer[k + 1],
                      IF Fails(SubSeq(words, k, Len(words)))
                      THEN <<"unknown", name(k)>> ELSE <<"cycles", name(k)>>)
          [] OTHER -> <<<<"unknown", <<words[k]>>>>>>
  IN  answer[1]

Words(l) == SelectSeq(l, LAMBDA w : w # Blank)

LineOutput(l) ==
  CASE Words(l) = <<>> -> <<>>
    [] Len(Words(l)) >= MAXARGS -> <<<<"too many">>>>
    [] OTHER -> Answer(Words(l), MonitorChain)
                  \o IF Fails(Words(l)) THEN <<<<"welcome">>>> ELSE <<>>

Printed(n) == FlattenSeq([i \in 1 .. n |-> LineOutput(kernel.session[i])])

Timed(l) ==
  LET w == Words(l)
      others == {i \in DOMAIN w : w[i] # "time"}
  IN  IF others = {} THEN NULL ELSE w[Min(others)]

(* At every prompt the kernel has printed what it is to print when it      *)
(* boots and then what each line asks for, in order and nothing else:      *)
(* commands are told by their words whatever blanks are between them and   *)
(* whatever an earlier, longer line has left in the buffer; time names     *)
(* what it has timed and fails with what it times; a backtrace has every   *)
(* frame of its chain, with its own return address and argument.  The      *)
(* kernel is lost only where a backtrace is asked for in lab 2, or time    *)
(* without a command once the kernel's page directory is loaded            *)
(* (monitor.c:108-230, init.c of lab 1:11-53, init.c of lab 2:13-70).      *)
SessionAnswered ==
  /\ pc = "readline" => output = BootOutput \o Printed(typed)
  /\ pc \in {"reset", "astray"} =>
       /\ typed > 0 /\ Len(Words(kernel.session[typed])) < MAXARGS
       /\ \/ kernel.lab = 2 /\ Timed(kernel.session[typed]) = "backtrace"
          \/ cr3 = "kern" /\ Timed(kernel.session[typed]) = NULL

(* "backtrace" is to "Display a list of function call frames" (monitor.c:  *)
(* 28) and then to print "Backtrace success" (137, grade-lab1 of lab 1).   *)
BacktraceDisplayed ==
  [][pc = "mon_backtrace" => pc' = "walk"]_vars
=============================================================================
