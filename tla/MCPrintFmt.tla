----------------------------- MODULE MCPrintFmt -----------------------------
(***************************************************************************)
(* Directives with every conversion, none to two flags, widths and         *)
(* precisions given as digits (one and two, precision 0 too) or as         *)
(* arguments, 0 and negative too, and the ends of the ranges of int and    *)
(* long long.                                                              *)
(***************************************************************************)
EXTENDS PrintFmt

D(flags, width, prec, longs, conv, arg) ==
  [flags |-> flags, width |-> width, prec |-> prec, longs |-> longs,
   conv |-> conv, arg |-> arg]

N(n) == [n |-> n, star |-> FALSE]
S(n) == [n |-> n, star |-> TRUE]

MCNumbers ==
  {D(flags, width, N(-1), longs, conv, arg) :
     flags \in {<<>>, <<"-">>, <<"0">>, <<"+">>, <<"+", "0">>, <<"0", "-">>},
     width \in {N(-1), N(2), N(10), S(4), S(-2)},
     longs \in {0, 2},
     conv \in {<<"d">>, <<"u">>, <<"o">>, <<"x">>, <<"p">>},
     arg \in {0, 7, 8, 15, 128, 255}}
  \cup
  {D(flags, width, prec, 0, conv, arg) :
     flags \in {<<>>, <<"-">>}, width \in {N(-1), N(4), S(-2)}, prec \in {N(0), N(3), S(0)},
     conv \in {<<"d">>, <<"x">>}, arg \in {7, 128}}

(* Strings, characters, the pointers of %n, given by what they point to,    *)
(* and fields of up to more characters than a byte counts.                  *)
MCPointers ==
  {D(flags, width, prec, 0, <<"s">>, arg) :
     flags \in {<<>>, <<"-">>, <<"0">>, <<"#">>, <<"#", "-">>, <<"-", "0">>},
     width \in {N(-1), N(4), S(1), S(-2)},
     prec \in {N(-1), N(0), N(1), S(0), S(5), S(-1)},
     arg \in {<<>>, <<"a", "\t", "b">>, NULL}}
  \cup {D(<<>>, N(-1), N(-1), 0, <<"c">>, c) : c \in {<<"a">>, <<"%">>}}
  \cup {D(<<>>, N(-1), N(-1), 0, <<"n">>, p) : p \in {NULL, <<"chnum1">>}}
  \cup {D(<<>>, S(w), N(-1), 0, <<"s">>, <<>>) : w \in 0 .. 17}

(* Errors in and out of range, unknown directives that take an argument, %% *)
MCOthers ==
  {D(<<>>, N(-1), N(-1), 0, <<"e">>, n) : n \in {-8, -7, -2, 0, 1, 3}}
  \cup {D(flags, width, N(-1), longs, conv, 0) :
          flags \in {<<>>, <<"-">>}, width \in {N(-1), N(2), S(3)}, longs \in {0, 1},
          conv \in {<<"q">>, <<"%">>}}

(* A directive that shows what is left of the one before, plain text, one   *)
(* that stores the count, and a format that ends in a directive.            *)
MCProbes ==
  { D(<<>>, N(-1), N(-1), 0, <<"s">>, <<"z">>),
    D(<<>>, N(-1), N(-1), 0, <<"text">>, <<".">>),
    D(<<>>, N(-1), N(-1), 0, <<"n">>, <<"chnum2">>),
    D(<<"-">>, N(3), N(-1), 0, <<>>, <<>>) }
=============================================================================
