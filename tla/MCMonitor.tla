----------------------------- MODULE MCMonitor -----------------------------
(***************************************************************************)
(* Two groups of kernels.  Lab 1 boots, and backtraces, on stabs tables as *)
(* the compiler and the linker make them (obj/kern/kernel has such a one)  *)
(* with its return addresses all over the code; both labs have sessions of *)
(* two lines on one table.                                                 *)
(*                                                                         *)
(* A table has a header, the assembly file with lines at addresses, a file *)
(* without code, then C files.  Each of these ends with an SO entry        *)
(* without a name, and the next may start some bytes later.  A function    *)
(* has its parameters, on the stack or in registers, lines at offsets,     *)
(* lines of included files, and entries that the kernel does not read.     *)
(* The assembly file and every function take 8 bytes.                      *)
(***************************************************************************)
EXTENDS Monitor

E(type, value, desc, name) == [type |-> type, value |-> value, desc |-> desc, name |-> name]
PSYM == E("PSYM", 8, 0, "arg")
RSYM == E("RSYM", 0, 0, "arg")
LSYM == E("LSYM", 0, 0, "int")
LBRAC == E("LBRAC", 0, 0, "")
SOL(name) == E("SOL", 100, 0, name)
SLINE(offset, n) == E("SLINE", offset, n, "")

Bodies ==
  { <<SLINE(0, 1), SLINE(3, 2), LBRAC>>,
    <<PSYM, SLINE(0, 1), SOL("x.h"), SLINE(0, 52), SOL("c.c"), SLINE(5, 3)>>,
    <<PSYM, PSYM, SLINE(0, 1), SLINE(2, 2), SOL("x.h"), SLINE(4, 40), LBRAC, LBRAC>>,
    <<RSYM, RSYM, PSYM, SLINE(0, 1), SLINE(2, 2), SLINE(6, 3)>> }

Ends(end) == <<E("SO", end, 0, "")>>

File_S(start) ==
  <<E("SO", start, 0, "{standard input}"), E("SOL", start + 2, 0, "s.S"),
    SLINE(start + 2, 10), SLINE(start + 4, 11), SLINE(start + 7, 12)>>

NoCode(start) == <<E("SO", start, 0, "d.c"), LSYM>> \o Ends(start)

C(start, body) == <<E("SO", start, 0, "c.c"), LSYM, E("FUN", start, 0, "f")>> \o body

Second(start, body) == <<E("FUN", start, 0, "g")>> \o body

Header == <<E("UNDF", 0, 0, "")>> \o File_S(100) \o NoCode(108)

Tables ==
  {Header \o C(108, b) \o Ends(116) \o C(116 + gap, c) \o Ends(124 + gap) :
     b, c \in Bodies, gap \in {0, 3}}
  \cup {Header \o C(108, b) \o Second(116, c) \o Ends(124) : b, c \in Bodies}

(* The calls, in the order in which their return addresses are spread from *)
(* an address on, over 99 .. 128; one of their bytes is the largest.       *)
Calls ==
  << <<"entry", "i386_init">>, <<"i386_init", "test_backtrace">>,
     <<"test_backtrace", "test_backtrace">>, <<"test_backtrace", "mon_backtrace">>,
     <<"i386_init", "monitor">>, <<"i386_init", "mem_init">>, <<"mem_init", "_panic">>,
     <<"_panic", "monitor">>, <<"monitor", "mon_time">>, <<"mon_time", "mon_time">>,
     <<"monitor", "mon_backtrace">>, <<"mon_time", "mon_backtrace">>,
     <<"overflow_me", "start_overflow">>, <<"do_overflow">> >>

Site(a) ==
  [c \in ToSet(Calls) |-> 99 + ((a + 7 * CHOOSE i \in DOMAIN Calls : Calls[i] = c) % 30)]

Lines ==
  { <<>>, <<" ">>, <<"help">>, <<" ", "help", " ", "x">>, <<"kerninfo", " ">>, <<"backtrace">>,
    <<"time">>, <<"time", " ", "help">>, <<"time", " ", " ", "backtrace">>,
    <<"time", " ", "time">>, <<"time", " ", "time", " ", "kerninfo">>,
    <<"time", " ", "nope">>, <<"nope", " ", "time">>,
    <<"time", " ", "time", " ", "time", " ">>,
    <<"help", " ", "help", " ", "help", " ", "help">> }

Boot(lab, fails, a, table, session) ==
  [lab |-> lab, fails |-> fails, site |-> Site(a), stabs |-> table, session |-> session]

Table == Header \o C(108, <<PSYM, SLINE(0, 1), SLINE(3, 2)>>) \o Ends(116)

MCStarts ==
  {Boot(1, NULL, a, t, <<>>) : a \in 0 .. 29, t \in Tables}
  \cup {Boot(k[1], k[2], 0, Table, <<l, n>>) :
          k \in {<<1, NULL>>, <<2, NULL>>, <<2, "before">>, <<2, "after">>}, l, n \in Lines}

(* The kernel of lab 2 as it boots, and its backtrace.                     *)
Lab2Starts == {Boot(2, NULL, 0, Table, <<l, <<"backtrace">>>>) : l \in Lines}
=============================================================================
