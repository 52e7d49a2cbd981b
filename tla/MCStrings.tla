----------------------------- MODULE MCStrings ------------------------------
(***************************************************************************)
(* All strings of up to five cells over three bytes, one of them negative  *)
(* as a char; a memory of three words whose bytes all differ for the moves; *)
(* and numbers of every base, written with what may stand around them, and  *)
(* what has no digits, "0x" in bases 0 and 16 among it.                    *)
(***************************************************************************)
EXTENDS Strings

MCMemories ==
  {m \in [0 .. 5 -> {0, 97, 200}] : m[5] = 0} \cup {[a \in 0 .. 11 |-> a + 1]}

Power(b, n) == FoldLeft(LAMBDA p, x : p * x, 1, [k \in 1 .. n |-> b])

Code(d, letters) == IF d < 10 THEN 48 + d ELSE letters + d - 10

Written(n, b, letters) ==
  LET l == CHOOSE k \in 1 .. 8 : Power(b, k) > n /\ (k = 1 \/ Power(b, k - 1) <= n)
  IN  [i \in 1 .. l |-> Code((n \div Power(b, l - i)) % b, letters)]

T(blanks, sign, prefix, radix, letters, n, rest, base) ==
  [blanks |-> blanks, sign |-> sign, prefix |-> prefix,
   digits |-> Written(n, radix, letters), value |-> n, rest |-> rest, base |-> base]

(* No digit at all, or none behind the prefix; an 8 and 0X in base 0.       *)
NoDigits(blanks, sign, prefix, rest, base) ==
  [blanks |-> blanks, sign |-> sign, prefix |-> prefix, digits |-> <<>>, value |-> 0,
   rest |-> rest, base |-> base]

Values == {0, 1, 7, 8, 35, 127, 128, 255, 256, 300}

(* What may follow: the end, a blank, a sign, and a letter that is no digit. *)
MCChars == {-1, 0, 97, 200, 353}

MCNumerals ==
  UNION {
    {T(blanks, sign, <<>>, b, letters, n, rest, b) :
       blanks \in {<<>>, <<32, 9>>}, sign \in {<<>>, <<43>>, <<45>>}, b \in {8, 10, 16, 36},
       letters \in {65, 97}, n \in Values, rest \in {<<>>, <<32>>, <<45, 49>>}},
    {T(<<>>, sign, form[1], form[2], 97, n, <<103>>, form[3]) :
       sign \in {<<>>, <<45>>}, n \in Values,
       form \in {<<(<<>>), 10, 10>>, <<(<<48, 120>>), 16, 16>>, <<(<<48, 120>>), 16, 0>>,
                 <<(<<48>>), 8, 0>>, <<(<<48>>), 10, 10>>, <<(<<48>>), 8, 8>>}},
    {T(<<32>>, <<45>>, <<>>, 10, 97, n, <<120>>, 0) : n \in Values \ {0}},
    {NoDigits(blanks, sign, form[1], rest, form[2]) :
       blanks \in {<<>>, <<32>>}, sign \in {<<>>, <<43>>, <<45>>},
       form \in {<<(<<>>), 0>>, <<(<<>>), 8>>, <<(<<>>), 16>>, <<(<<48>>), 0>>,
                 <<(<<48, 120>>), 0>>, <<(<<48, 120>>), 16>>},
       rest \in {<<>>, <<103>>, <<46, 49>>}},
    {NoDigits(<<>>, <<>>, <<48>>, rest, 0) : rest \in {<<56>>, <<88, 49>>}},
    {T(<<>>, <<>>, <<>>, 16, 97, 0, <<88, 49>>, 16)}
  }
=============================================================================
