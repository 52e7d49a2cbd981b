------------------------------ MODULE PrintFmt ------------------------------
(***************************************************************************)
(* Formatted output: vprintfmt and printnum of lib/printfmt.c, called by   *)
(* vcprintf (kern/printf.c) for the console and by vsnprintf for a buffer. *)
(* One step per character of the format; 'spec' has the locals of the      *)
(* directive in work.  Nothing reads the output in between, so what a      *)
(* directive prints is put at once.                                        *)
(*                                                                         *)
(* The call is described by its directives: the format is their text, the  *)
(* arguments are theirs, and Shown says what each is to print.             *)
(***************************************************************************)
EXTENDS Integers, Sequences, SequencesExt

CONSTANTS
  Numbers, Pointers, Others,  \* directives: with a number, with a pointer, others
  Probes,                     \* directives that follow one of these
  Sizes,                      \* buffer sizes passed to vsnprintf
  IntMod, LongMod,            \* 2^32 and 2^64
  CharMod,                    \* 2^8
  MAXERROR,
  NULL

ASSUME PrintAssumption ==
  IntMod \in Nat /\ LongMod \in Nat /\ CharMod \in Nat /\ Sizes \subseteq Nat

VARIABLES
  call,         \* [directives, n, lab]: n is vsnprintf's size, NULL for vcprintf
  fmt, ap,      \* the format, and the arguments not yet taken
  pos, pc, spec,
  out, cnt,     \* the screen's or buffer's characters, and *putdat's count
  stored        \* what %n has stored last

vars == <<call, fmt, ap, pos, pc, spec, out, cnt, stored>>

-----------------------------------------------------------------------------
(* A directive [flags, width, prec, longs, conv, arg]; width and prec are  *)
(* [n, star], n = -1 for none and star if it is an argument.  A character  *)
(* of plain text is a directive "text".                                    *)
Power(b, n) == FoldLeft(LAMBDA p, x : p * x, 1, [k \in 1 .. n |-> b])

DigitsNeeded(n, base) == CHOOSE l \in 1 .. 8 :
  Power(base, l) > n /\ (l = 1 \/ Power(base, l - 1) <= n)

Digit(k) == <<"0", "1", "2", "3", "4", "5", "6", "7",
              "8", "9", "a", "b", "c", "d", "e", "f">>[k + 1]

Numeral(n, base) ==
  LET l == DigitsNeeded(n, base)
  IN  [i \in 1 .. l |-> Digit((n \div Power(base, l - i)) % base)]

Repeat(c, n) == [i \in 1 .. n |-> c]

Field(f) ==
  CASE f.star -> <<"*">> [] ~f.star /\ f.n >= 0 -> Numeral(f.n, 10) [] OTHER -> <<>>

Text(d) ==
  IF d.conv = <<"text">> THEN d.arg
  ELSE <<"%">> \o d.flags \o Field(d.width)
         \o (IF d.prec.star \/ d.prec.n >= 0 THEN <<".">> \o Field(d.prec) ELSE <<>>)
         \o Repeat("l", d.longs) \o d.conv

TakesArg(d) ==
  d.conv \in {<<"d">>, <<"u">>, <<"o">>, <<"p">>, <<"x">>, <<"c">>, <<"e">>, <<"s">>, <<"n">>}

Args(d) ==
  (IF d.width.star THEN <<d.width.n>> ELSE <<>>)
    \o (IF d.prec.star THEN <<d.prec.n>> ELSE <<>>)
    \o (IF TakesArg(d) THEN <<d.arg>> ELSE <<>>)

ErrorText(err) ==
  IF err \in 1 .. MAXERROR - 1 THEN <<"some", " error">> ELSE <<"error ">> \o Numeral(err, 10)

Magnitude(n) == IF n < 0 THEN -n ELSE n

-----------------------------------------------------------------------------
Least(a, b) == IF a < b THEN a ELSE b

NoSpec == [padc |-> " ", width |-> -1, precision |-> -1, lflag |-> 0,
           altflag |-> FALSE, ifsign |-> FALSE]

Init ==
  /\ \E e \in Probes, n \in {NULL} \cup Sizes, lab \in {1, 2} :
       \/ \E d \in Numbers : call = [directives |-> <<d, e>>, n |-> n, lab |-> lab]
       \/ \E d \in Pointers : call = [directives |-> <<d, e>>, n |-> n, lab |-> lab]
       \/ \E d \in Others : call = [directives |-> <<d, e>>, n |-> n, lab |-> lab]
  /\ call.n # NULL => call.lab = 2
  /\ fmt = FlattenSeq([i \in 1 .. 2 |-> Text(call.directives[i])])
  /\ ap = FlattenSeq([i \in 1 .. 2 |-> Args(call.directives[i])])
  /\ pos = 1 /\ pc = "text" /\ spec = NoSpec
  /\ out = <<>> /\ cnt = 0 /\ stored = NULL

(* The character at pos; the format ends with a null character.            *)
ch == IF pos <= Len(fmt) THEN fmt[pos] ELSE "\\0"

(* putch of kern/printf.c increments its pointer to the count in lab 2 ... *)
putchLab2(s) == out' = out \o s /\ UNCHANGED cnt

(* ... and the count in lab 1.                                             *)
putchLab1(s) == out' = out \o s /\ cnt' = cnt + Len(s)

(* Mutant of sprintputch: it uses the byte of the null character.          *)
sprintputch_ToTheEnd(s) ==
  /\ out' = SubSeq(out \o s, 1, Least(Len(out) + Len(s), call.n))
  /\ cnt' = cnt + Len(s)

(* sprintputch counts, and stores while there is room.                     *)
sprintputch(s) ==
  /\ out' = SubSeq(out \o s, 1, Least(Len(out) + Len(s), call.n - 1))
  /\ cnt' = cnt + Len(s)

Put(s) ==
  CASE call.n # NULL -> sprintputch(s)
    [] call.n = NULL /\ call.lab = 1 -> putchLab1(s)
    [] OTHER -> putchLab2(s)

Refuse ==
  /\ pc = "text" /\ pos = 1 /\ call.n # NULL /\ call.n < 1
  /\ pc' = "refused"
  /\ UNCHANGED <<call, fmt, ap, pos, spec, out, cnt, stored>>

AtText == pc = "text" /\ (call.n # NULL => call.n >= 1)

PlainCharacter ==
  /\ AtText /\ ch \notin {"%", "\\0"}
  /\ Put(<<ch>>) /\ pos' = pos + 1
  /\ UNCHANGED <<call, fmt, ap, pc, spec, stored>>

(* vsnprintf stores a null character behind the last one.                  *)
Return ==
  /\ AtText /\ ch = "\\0"
  /\ pc' = "done"
  /\ out' = IF call.n = NULL THEN out ELSE Append(out, "\\0")
  /\ UNCHANGED <<call, fmt, ap, pos, spec, cnt, stored>>

(* Mutant of Percent: the last directive's flags and field stay.           *)
Percent_KeepsSpec ==
  /\ AtText /\ ch = "%"
  /\ pc' = "switch" /\ pos' = pos + 1
  /\ UNCHANGED <<call, fmt, ap, spec, out, cnt, stored>>

Percent ==
  /\ AtText /\ ch = "%"
  /\ pc' = "switch" /\ pos' = pos + 1 /\ spec' = NoSpec
  /\ UNCHANGED <<call, fmt, ap, out, cnt, stored>>

-----------------------------------------------------------------------------
(* The cases that read on (goto reswitch).                                 *)
Flag ==
  /\ pc = "switch" /\ ch \in {"-", "+", "0", "#", "l", "."}
  /\ spec' = CASE ch \in {"-", "0"} -> [spec EXCEPT !.padc = ch]
               [] ch = "+" -> [spec EXCEPT !.ifsign = TRUE]
               [] ch = "#" -> [spec EXCEPT !.altflag = TRUE]
               [] ch = "l" -> [spec EXCEPT !.lflag = @ + 1]
               [] ch = "." -> [spec EXCEPT !.width = IF @ < 0 THEN 0 ELSE @]
  /\ pos' = pos + 1
  /\ UNCHANGED <<call, fmt, ap, pc, out, cnt, stored>>

process_precision(n) ==
  spec' = IF spec.width < 0 THEN [spec EXCEPT !.width = n, !.precision = -1]
          ELSE [spec EXCEPT !.precision = n]

DigitValue == [c \in {Digit(k) : k \in 0 .. 9} |-> CHOOSE k \in 0 .. 9 : Digit(k) = c]

LastDigit == CHOOSE e \in pos .. Len(fmt) :
  /\ \A k \in pos .. e : fmt[k] \in DOMAIN DigitValue
  /\ e < Len(fmt) => fmt[e + 1] \notin DOMAIN DigitValue

ReadNumber == FoldLeft(LAMBDA n, c : 10 * n + DigitValue[c], 0, SubSeq(fmt, pos, LastDigit))

(* Mutant of WidthField: it goes on at the last digit.                     *)
WidthField_RereadsDigit ==
  /\ pc = "switch" /\ ch \in DOMAIN DigitValue \ {"0"}
  /\ process_precision(ReadNumber)
  /\ pos' = LastDigit
  /\ UNCHANGED <<call, fmt, ap, pc, out, cnt, stored>>

(* All digits that follow, as one number.                                  *)
WidthField ==
  /\ pc = "switch" /\ ch \in DOMAIN DigitValue \ {"0"}
  /\ process_precision(ReadNumber)
  /\ pos' = LastDigit + 1
  /\ UNCHANGED <<call, fmt, ap, pc, out, cnt, stored>>

Star ==
  /\ pc = "switch" /\ ch = "*"
  /\ process_precision(Head(ap)) /\ ap' = Tail(ap)
  /\ pos' = pos + 1
  /\ UNCHANGED <<call, fmt, pc, out, cnt, stored>>

-----------------------------------------------------------------------------
(* The cases that print.  Each goes back to the text.                      *)
Prints(c, s, rest) ==
  /\ pc = "switch" /\ ch = c
  /\ Put(s) /\ ap' = rest
  /\ pc' = "text" /\ pos' = pos + 1
  /\ UNCHANGED <<call, fmt, spec>>

(* Padding to the right happens after the loop that brings numlen to zero. *)
printnum(num, base) ==
  LET digits == Numeral(num, base)
  IN  IF spec.padc = "-" THEN digits \o Repeat(" ", spec.width - 1)
      ELSE Repeat(spec.padc, spec.width - Len(digits)) \o digits

(* The words of an argument: getint extends the sign to 64 bits.           *)
getuint(a) == a % IF spec.lflag >= 2 THEN LongMod ELSE IntMod

getint(a) ==
  LET u == getuint(a)
  IN  IF spec.lflag < 2 /\ u >= IntMod \div 2 THEN u + LongMod - IntMod ELSE u

SignedDecimal ==
  LET num == getint(Head(ap))
      s == IF num >= LongMod \div 2 THEN <<"-">> \o printnum(LongMod - num, 10)
           ELSE (IF spec.ifsign THEN <<"+">> ELSE <<>>) \o printnum(num, 10)
  IN  Prints("d", s, Tail(ap)) /\ UNCHANGED stored

UnsignedNumber ==
  /\ \/ Prints("u", printnum(getuint(Head(ap)), 10), Tail(ap))
     \/ Prints("o", <<"0">> \o printnum(getuint(Head(ap)), 8), Tail(ap))
     \/ Prints("x", printnum(getuint(Head(ap)), 16), Tail(ap))
     \/ Prints("p", <<"0", "x">> \o printnum(Head(ap) % IntMod, 16), Tail(ap))
  /\ UNCHANGED stored

Character == Prints("c", Head(ap), Tail(ap)) /\ UNCHANGED stored

PrintableString(p) ==
  [i \in 1 .. Len(p) |-> IF spec.altflag /\ p[i] = "\t" THEN "?" ELSE p[i]]

StringField ==
  LET p == IF Head(ap) = NULL THEN <<"(", "n", "u", "l", "l", ")">> ELSE Head(ap)
      printed == IF spec.precision < 0 THEN p
                 ELSE SubSeq(p, 1, Least(Len(p), spec.precision))
      pad == spec.width - Len(printed)
  IN  /\ Prints("s", (IF spec.padc = "-" THEN <<>> ELSE Repeat(spec.padc, pad))
                       \o PrintableString(printed)
                       \o (IF spec.padc = "-" THEN Repeat(" ", pad) ELSE <<>>),
                Tail(ap))
      /\ UNCHANGED stored

(* The most negative int has no magnitude: the table of errors is read     *)
(* before its beginning, and what happens then is not defined.             *)
Negated(err) == ((IntMod \div 2 - err) % IntMod) - IntMod \div 2

Code(err) == IF err < 0 THEN Negated(err) ELSE err

ErrorMessage ==
  /\ pc = "switch" /\ ch = "e" /\ Code(Head(ap)) >= 0
  /\ Prints("e", ErrorText(Code(Head(ap))), Tail(ap)) /\ UNCHANGED stored

NoSuchError ==
  /\ pc = "switch" /\ ch = "e" /\ Code(Head(ap)) < 0
  /\ pc' = "astray"
  /\ UNCHANGED <<call, fmt, ap, pos, spec, out, cnt, stored>>

(* %n: a null pointer and a count from 255 on print a message.  The count  *)
(* is read where putdat points to, which for a buffer is its next byte's   *)
(* address, a negative int.                                                *)
StoreCount ==
  LET full == call.n = NULL /\ cnt >= CharMod - 1
  IN  /\ Prints("n", CASE Head(ap) = NULL -> <<"null error">>
                       [] Head(ap) # NULL /\ full -> <<"overflow">>
                       [] OTHER -> <<>>, Tail(ap))
      /\ stored' = CASE Head(ap) = NULL -> stored
                     [] Head(ap) # NULL /\ call.n # NULL -> "address"
                     [] Head(ap) # NULL /\ full -> -1
                     [] OTHER -> cnt

PercentSign == Prints("%", <<"%">>, ap) /\ UNCHANGED stored

Known == {"-", "+", "0", "#", "l", ".", "*", "d", "u", "o", "x", "p", "c", "s", "e", "n", "%"}
           \cup DOMAIN DigitValue

(* Mutant of Unrecognized: the rest of the directive is skipped.           *)
Unrecognized_Skips ==
  /\ pc = "switch" /\ ch \notin Known
  /\ Put(<<"%">>)
  /\ pos' = pos + 1
  /\ pc' = "text"
  /\ UNCHANGED <<call, fmt, ap, spec, stored>>

(* Anything else, the end of the format too: '%' is printed, and what      *)
(* follows it is text.                                                     *)
Unrecognized ==
  /\ pc = "switch" /\ ch \notin Known
  /\ Put(<<"%">>)
  /\ pos' = 1 + SelectLastInSubSeq(fmt, 1, pos - 1, LAMBDA c : c = "%")
  /\ pc' = "text"
  /\ UNCHANGED <<call, fmt, ap, spec, stored>>

Next ==
  \/ Refuse \/ PlainCharacter \/ Return \/ Percent
  \/ Flag \/ WidthField \/ Star
  \/ SignedDecimal \/ UnsignedNumber \/ Character \/ StringField
  \/ ErrorMessage \/ NoSuchError \/ StoreCount \/ PercentSign \/ Unrecognized

(* Sequential code: the next step is always taken.                         *)
Spec == Init /\ [][Next]_vars /\ WF_vars(Next)

-----------------------------------------------------------------------------
TypeOK ==
  /\ pos \in 1 .. Len(fmt) + 1
  /\ pc \in {"text", "switch", "done", "refused", "astray"}
  /\ spec.padc \in {" ", "0", "-"} /\ spec.lflag \in 0 .. 2
  /\ spec.width \in Int /\ spec.precision \in Int
  /\ cnt \in Nat

(* What a directive is to print: a number or a string right-aligned in its *)
(* field or, with '-', left-aligned, of a string at most the precision, an *)
(* unknown directive as it stands.  Strings are padded like numbers,       *)
(* although a comment promises fields for numbers only (printfmt.c:12-13). *)
Flagged(d, f) == Contains(d.flags, f)

(* A precision that is written as 0 is none: it is read as the flag 0.  Of  *)
(* the flags '-' and 0, the last one counts (printfmt.c:129-155).          *)
ZeroPrecision(d) == d.prec.n = 0 /\ ~d.prec.star

Padc(d) ==
  LET flags == SelectSeq(d.flags \o IF ZeroPrecision(d) THEN <<"0">> ELSE <<>>,
                         LAMBDA f : f \in {"-", "0"})
  IN  IF flags = <<>> THEN " " ELSE Last(flags)

InField(d, s) ==
  LET n == d.width.n - Len(s)
  IN  IF Padc(d) = "-" THEN s \o Repeat(" ", n) ELSE Repeat(Padc(d), n) \o s

Signed(d) ==
  LET m == IF d.longs >= 2 THEN LongMod ELSE IntMod
  IN  IF d.arg % m >= m \div 2 THEN (d.arg % m) - m ELSE d.arg % m

Unsigned(d) == d.arg % IF d.longs >= 2 /\ d.conv # <<"p">> THEN LongMod ELSE IntMod

ShownString(d) ==
  LET p == IF d.arg = NULL THEN <<"(", "n", "u", "l", "l", ")">> ELSE d.arg
      cut == SubSeq(p, 1, IF d.prec.n < 0 \/ ZeroPrecision(d) THEN Len(p)
                          ELSE Least(Len(p), d.prec.n))
  IN  InField(d, ReplaceAll(cut, "\t", IF Flagged(d, "#") THEN "?" ELSE "\t"))

Shown(d) ==
  CASE d.conv = <<"d">> ->
         (IF Signed(d) < 0 THEN <<"-">> ELSE IF Flagged(d, "+") THEN <<"+">> ELSE <<>>)
           \o InField(d, Numeral(Magnitude(Signed(d)), 10))
    [] d.conv = <<"u">> -> InField(d, Numeral(Unsigned(d), 10))
    [] d.conv = <<"o">> -> <<"0">> \o InField(d, Numeral(Unsigned(d), 8))
    [] d.conv = <<"x">> -> InField(d, Numeral(Unsigned(d), 16))
    [] d.conv = <<"p">> -> <<"0", "x">> \o InField(d, Numeral(Unsigned(d), 16))
    [] d.conv = <<"s">> -> ShownString(d)
    [] d.conv = <<"c">> -> d.arg
    [] d.conv = <<"e">> -> ErrorText(Magnitude(d.arg))
    [] d.conv = <<"n">> -> IF d.arg = NULL THEN <<"null error">> ELSE <<>>
    [] d.conv = <<"%">> -> <<"%">>
    [] OTHER -> Text(d)

(* The count of what the first directive shows does not fit in a char.     *)
TooLong == Len(Shown(call.directives[1])) >= CharMod - 1

ShownCall ==
  LET e == call.directives[2]
  IN  Shown(call.directives[1])
        \o IF /\ e.conv = <<"n">> /\ e.arg # NULL
              /\ call.n = NULL /\ call.lab = 1 /\ TooLong
           THEN <<"overflow">> ELSE Shown(e)

LeftAlignedNumber(d) ==
  d.conv \in {<<"d">>, <<"u">>, <<"o">>, <<"x">>, <<"p">>} /\ Padc(d) = "-" /\ d.width.n > 0

(* vcprintf prints what its directives say, each with its own arguments,   *)
(* whatever flags, widths, precisions and unknown directives came before.  *)
(* Left-aligned numbers are not covered.  An error code may be any int but *)
(* the most negative one (printfmt.c:15-18, 103-287).                      *)
OutputAsSpecified ==
  /\ pc = "done" /\ call.n = NULL =>
       /\ ap = <<>>
       /\ ~LeftAlignedNumber(call.directives[1]) => out = ShownCall
  /\ pc = "astray" =>
       \E i \in 1 .. 2 : /\ call.directives[i].conv = <<"e">>
                         /\ call.directives[i].arg = -(IntMod \div 2)

(* In lab 1 cprintf returns the number of characters it has printed, and   *)
(* %n stores the number printed before it, each that a byte can hold but   *)
(* the largest, and -1 and a warning from there on: what grade-lab1:25-31  *)
(* expects, and what start_overflow (monitor.c:97-103) needs to store any  *)
(* byte (printf.c:9-36 of lab 1, printfmt.c:136-151).                      *)
CountsExact ==
  pc = "done" /\ call.n = NULL /\ call.lab = 1 =>
    /\ cnt = Len(out)
    /\ call.directives[2].conv = <<"n">> /\ call.directives[2].arg # NULL
         /\ ~LeftAlignedNumber(call.directives[1]) =>
           stored = IF TooLong THEN -1 ELSE Len(Shown(call.directives[1]))

(* vsnprintf leaves a string of at most n bytes with the null character,   *)
(* the beginning of what would be printed, and returns the length of that; *)
(* without a buffer it stores nothing (printfmt.c:305-328).                *)
BufferRespected ==
  call.n # NULL =>
    /\ Len(out) <= call.n
    /\ pc = "done" /\ ~LeftAlignedNumber(call.directives[1]) =>
         /\ cnt = Len(ShownCall)
         /\ out = Append(SubSeq(ShownCall, 1, Least(cnt, call.n - 1)), "\\0")

(* Every call ends, also one whose format is given back to the text by an  *)
(* unknown directive (printfmt.c:280-284).                                 *)
Returns == <>(pc \in {"done", "refused", "astray"})

(* grade-lab1:23 of lab 1 expects "22      ." of "%-8d." and 22: a number  *)
(* padded to the right takes as many places as its field has.              *)
RightPadding ==
  pc = "done" /\ call.n = NULL /\ LeftAlignedNumber(call.directives[1]) => out = ShownCall
=============================================================================
