------------------------------ MODULE Strings ------------------------------
(***************************************************************************)
(* The string library, lib/string.c, with ASM, as it is built, and without.*)
(* Memory is a function from addresses to bytes, each call runs to its end:*)
(* nothing in the kernel can look at memory in between.  A caller passes   *)
(* strings that end, objects that have room, and no overlap where the      *)
(* function has no provision for it.                                       *)
(***************************************************************************)
EXTENDS Integers, FiniteSetsExt, Sequences, SequencesExt

CONSTANTS
  Memories,      \* the memories calls start from
  Chars,         \* bytes that are looked for and filled in, as ints
  Word,          \* bytes moved by one stosl or movsl
  ByteMod,       \* 2^8
  LongMod,       \* 2^32, the values of a long
  Numerals,      \* texts for strtol: [blanks, sign, prefix, digits, value, rest, base]
  NULL

ASSUME StringsAssumption == Word \in Nat \ {0} /\ ByteMod \in Nat /\ LongMod \in Nat

VARIABLES
  mem,           \* memory
  old,           \* memory before the call
  text,          \* the text that memory holds from 0 on for strtol, else NULL
  call,          \* [fn, args], or NULL before the call
  result         \* what it returned

vars == <<mem, old, text, call, result>>

-----------------------------------------------------------------------------
RECURSIVE strlen(_, _), strnlen(_, _, _), strcpy(_, _, _), strncpy(_, _, _, _)
RECURSIVE strcmp(_, _, _), strncmp(_, _, _, _), strchr(_, _, _), strfind(_, _, _)
RECURSIVE Movs(_, _, _, _, _, _), memset_C(_, _, _, _)
RECURSIVE memcmp(_, _, _, _), memfind(_, _, _, _)

strlen(m, s) == IF m[s] = 0 THEN 0 ELSE 1 + strlen(m, s + 1)

strnlen(m, s, size) ==
  IF size = 0 \/ m[s] = 0 THEN 0 ELSE 1 + strnlen(m, s + 1, size - 1)

strcpy(m, dst, src) ==
  LET copied == [m EXCEPT ![dst] = m[src]]
  IN  IF m[src] = 0 THEN copied ELSE strcpy(copied, dst + 1, src + 1)

strcat(m, dst, src) == strcpy(m, dst + strlen(m, dst), src)

strncpy(m, dst, src, size) ==
  IF size = 0 THEN m
  ELSE strncpy([m EXCEPT ![dst] = m[src]], dst + 1,
               IF m[src] = 0 THEN src ELSE src + 1, size - 1)

(* Mutant of strcmp: the bytes are compared as char, which is signed.      *)
strcmp_Signed(m, p, q) ==
  LET char(b) == IF b >= ByteMod \div 2 THEN b - ByteMod ELSE b
      k == CHOOSE i \in 0 .. strlen(m, p) :
             /\ \A j \in 0 .. i - 1 : m[p + j] = m[q + j]
             /\ m[p + i] # m[q + i] \/ m[p + i] = 0
  IN  char(m[p + k]) - char(m[q + k])

strcmp(m, p, q) ==
  IF m[p] # 0 /\ m[p] = m[q] THEN strcmp(m, p + 1, q + 1) ELSE m[p] - m[q]

strncmp(m, p, q, n) ==
  IF n > 0 /\ m[p] # 0 /\ m[p] = m[q] THEN strncmp(m, p + 1, q + 1, n - 1)
  ELSE IF n = 0 THEN 0 ELSE m[p] - m[q]

strchr(m, s, c) ==
  CASE m[s] = 0 -> NULL [] m[s] # 0 /\ m[s] = c -> s [] OTHER -> strchr(m, s + 1, c)

strfind(m, s, c) == IF m[s] = 0 \/ m[s] = c THEN s ELSE strfind(m, s + 1, c)

(* rep stos: count copies of the register's bytes.                         *)
Stos(m, v, bytes, count) ==
  [a \in DOMAIN m |-> IF a \in v .. v + count * Len(bytes) - 1
                      THEN bytes[((a - v) % Len(bytes)) + 1] ELSE m[a]]

memset(m, v, c, n) ==
  LET byte == c % ByteMod
  IN  IF n = 0 THEN m
      ELSE IF v % Word = 0 /\ n % Word = 0
           THEN Stos(m, v, [k \in 1 .. Word |-> byte], n \div Word)
           ELSE Stos(m, v, <<byte>>, n)

(* rep movs: count units of bytes, one after the other in the direction    *)
(* that the flag DF gives.                                                 *)
Movs(m, d, s, count, unit, dir) ==
  IF count = 0 THEN m
  ELSE Movs([a \in DOMAIN m |-> IF a \in d .. d + unit - 1 THEN m[s + a - d] ELSE m[a]],
            d + dir * unit, s + dir * unit, count - 1, unit, dir)

(* Mutant of memmove: it always moves forwards.                            *)
memmove_Forwards(m, dst, src, n) ==
  LET unit == IF {src % Word, dst % Word, n % Word} = {0} THEN Word ELSE 1
  IN  Movs(m, dst, src, n \div unit, unit, 1)

memmove(m, dst, src, n) ==
  LET backwards == src < dst /\ src + n > dst
      s == IF backwards THEN src + n ELSE src
      d == IF backwards THEN dst + n ELSE dst
      unit == IF {s % Word, d % Word, n % Word} = {0} THEN Word ELSE 1
  IN  IF backwards THEN Movs(m, d - unit, s - unit, n \div unit, unit, -1)
      ELSE Movs(m, d, s, n \div unit, unit, 1)

(* The same without ASM, byte by byte.                                     *)
memset_C(m, p, c, n) ==
  IF n = 0 THEN m ELSE memset_C([m EXCEPT ![p] = c % ByteMod], p + 1, c, n - 1)

memmove_C(m, dst, src, n) ==
  IF src < dst /\ src + n > dst THEN Movs(m, dst + n - 1, src + n - 1, n, 1, -1)
  ELSE Movs(m, dst, src, n, 1, 1)

(* dst - dst_in is returned with the memory.                               *)
strlcpy(m, dst, src, size) ==
  IF size = 0 THEN [mem |-> m, copied |-> 0]
  ELSE LET n == strnlen(m, src, size - 1)
       IN  [mem |-> [Movs(m, dst, src, n, 1, 1) EXCEPT ![dst + n] = 0], copied |-> n]

memcmp(m, v1, v2, n) ==
  CASE n = 0 -> 0
    [] n > 0 /\ m[v1] # m[v2] -> m[v1] - m[v2]
    [] OTHER -> memcmp(m, v1 + 1, v2 + 1, n - 1)

memfind(m, s, c, ends) ==
  IF s >= ends \/ m[s] = c % ByteMod THEN s ELSE memfind(m, s + 1, c, ends)

-----------------------------------------------------------------------------
(* strtol, on ASCII codes.                                                 *)
Digit(c) ==
  CASE c \in 48 .. 57 -> c - 48
    [] c \in 97 .. 122 -> c - 97 + 10
    [] c \in 65 .. 90 -> c - 65 + 10
    [] OTHER -> 36

RECURSIVE Gobble(_, _), Digits(_, _, _, _)

Gobble(m, s) == IF m[s] \in {32, 9} THEN Gobble(m, s + 1) ELSE s

(* Where the digits end, and their value in a long.                        *)
Digits(m, s, base, val) ==
  IF Digit(m[s]) < base THEN Digits(m, s + 1, base, (val * base + Digit(m[s])) % LongMod)
  ELSE [endptr |-> s, val |-> val]

ToLong(v) == LET u == v % LongMod IN IF u >= LongMod \div 2 THEN u - LongMod ELSE u

(* Mutant of strtol: a leading 0 is taken for an octal prefix in any base. *)
strtol_AlwaysOctal(m, s, base) ==
  LET i == Gobble(m, s)
      j == IF m[i] \in {43, 45} THEN i + 1 ELSE i
      hex == base \in {0, 16} /\ m[j] = 48 /\ m[j + 1] = 120
      octal == ~hex /\ m[j] = 48
      read == Digits(m, CASE hex -> j + 2 [] octal -> j + 1 [] OTHER -> j,
                     CASE hex -> 16 [] octal -> 8 [] OTHER -> IF base = 0 THEN 10 ELSE base, 0)
  IN  [read EXCEPT !.val = ToLong(IF m[i] = 45 THEN 0 - @ ELSE @)]

strtol(m, s, base) ==
  LET i == Gobble(m, s)
      j == IF m[i] \in {43, 45} THEN i + 1 ELSE i
      hex == base \in {0, 16} /\ m[j] = 48 /\ m[j + 1] = 120
      octal == ~hex /\ base = 0 /\ m[j] = 48
      read == Digits(m, CASE hex -> j + 2 [] octal -> j + 1 [] OTHER -> j,
                     CASE hex -> 16 [] octal -> 8 [] OTHER -> IF base = 0 THEN 10 ELSE base, 0)
  IN  [read EXCEPT !.val = ToLong(IF m[i] = 45 THEN 0 - @ ELSE @)]

-----------------------------------------------------------------------------
(* The calls, and what their callers see to.                               *)
Addr == DOMAIN mem

All == Cardinality(Addr)

Ends(s) == \E e \in Addr : e >= s /\ mem[e] = 0

Fits(s, n) == s + n - 1 \in Addr \/ n = 0

Apart(s, n, t, k) == s + n <= t \/ t + k <= s

Returns(fn, args, m, r) ==
  /\ call' = [fn |-> fn, args |-> args]
  /\ mem' = m /\ result' = r
  /\ UNCHANGED <<old, text>>

TextOf(t) == t.blanks \o t.sign \o t.prefix \o t.digits \o t.rest \o <<0>>

Init ==
  /\ \/ mem \in Memories /\ text = NULL
     \/ \E t \in Numerals : /\ text = t
                            /\ mem = [a \in 0 .. Len(TextOf(t)) - 1 |-> TextOf(t)[a + 1]]
  /\ old = mem /\ call = NULL /\ result = NULL

Ready == call = NULL /\ text = NULL

(* The character that is looked for is converted to a byte.                *)
ReadsString ==
  /\ Ready
  /\ \E s \in Addr :
       \/ Ends(s) /\ Returns("strlen", <<s>>, mem, strlen(mem, s))
       \/ \E c \in Chars : Ends(s) /\ Returns("strchr", <<s, c>>, mem, strchr(mem, s, c % ByteMod))
       \/ \E c \in Chars : Ends(s) /\ Returns("strfind", <<s, c>>, mem, strfind(mem, s, c % ByteMod))
       \/ \E n \in 0 .. All :
            (Ends(s) \/ Fits(s, n)) /\ Returns("strnlen", <<s, n>>, mem, strnlen(mem, s, n))
       \/ \E c \in Chars, n \in 0 .. All :
            Fits(s, n) /\ Returns("memfind", <<s, c, n>>, mem, memfind(mem, s, c, s + n))

Compares ==
  /\ Ready
  /\ \E p, q \in Addr, n \in 0 .. All :
       \/ /\ n = 0 /\ Ends(p) /\ Ends(q)
          /\ Returns("strcmp", <<p, q>>, mem, strcmp(mem, p, q))
       \/ /\ (Ends(p) /\ Ends(q)) \/ (Fits(p, n) /\ Fits(q, n))
          /\ Returns("strncmp", <<p, q, n>>, mem, strncmp(mem, p, q, n))
       \/ /\ Fits(p, n) /\ Fits(q, n)
          /\ Returns("memcmp", <<p, q, n>>, mem, memcmp(mem, p, q, n))

CopiesString ==
  /\ Ready
  /\ \E dst, src \in Addr :
       /\ Ends(src)
       /\ LET size == strlen(mem, src) + 1
          IN  \/ /\ Fits(dst, size) /\ Apart(dst, size, src, size)
                 /\ Returns("strcpy", <<dst, src>>, strcpy(mem, dst, src), dst)
              \/ /\ Ends(dst) /\ Fits(dst, strlen(mem, dst) + size)
                 /\ Apart(dst, strlen(mem, dst) + size, src, size)
                 /\ Returns("strcat", <<dst, src>>, strcat(mem, dst, src), dst)
              \/ \E n \in 0 .. All :
                   /\ Fits(dst, n) /\ Apart(dst, n, src, size)
                   /\ \/ Returns("strncpy", <<dst, src, n>>, strncpy(mem, dst, src, n), dst)
                      \/ LET r == strlcpy(mem, dst, src, n)
                         IN  Returns("strlcpy", <<dst, src, n>>, r.mem, r.copied)

(* memcpy is memmove.  The kernel is built with or without ASM.            *)
Moves ==
  /\ Ready
  /\ \E dst \in Addr, n \in 0 .. All :
       /\ Fits(dst, n)
       /\ \/ \E c \in Chars : \E m \in {memset(mem, dst, c, n), memset_C(mem, dst, c, n)} :
               Returns("memset", <<dst, c, n>>, m, dst)
          \/ \E src \in Addr :
               /\ Fits(src, n)
               /\ \E m \in {memmove(mem, dst, src, n), memmove_C(mem, dst, src, n)} :
                    Returns("memmove", <<dst, src, n>>, m, dst)

ReadsNumeral ==
  /\ call = NULL /\ text # NULL
  /\ Returns("strtol", <<0, text.base>>, mem, strtol(mem, 0, text.base))

Next == ReadsString \/ Compares \/ CopiesString \/ Moves \/ ReadsNumeral

Spec == Init /\ [][Next]_vars

-----------------------------------------------------------------------------
(* What the calls are to do, said of the memory before them: the bytes of  *)
(* a string, at most n of them, and where bytes occur and differ first.    *)
StringAt(s, n) ==
  LET e == CHOOSE k \in 0 .. n : /\ k = n \/ old[s + k] = 0
                                 /\ \A j \in 0 .. k - 1 : old[s + j] # 0
  IN  [i \in 1 .. e |-> old[s + i - 1]]

BytesAt(m, s, n) == [i \in 1 .. n |-> m[s + i - 1]]

First(P, none) == IF P = {} THEN none ELSE Min(P)

Sign(n) == CASE n < 0 -> -1 [] n = 0 -> 0 [] OTHER -> 1

(* As bytes without sign; a string comes before those that continue it.    *)
Order(s, t) ==
  LET i == First({k \in 1 .. Min({Len(s), Len(t)}) : s[k] # t[k]}, 0)
  IN  Sign(IF i = 0 THEN Len(s) - Len(t) ELSE s[i] - t[i])

Called(fn) == call # NULL /\ call.fn = fn

(* Lengths, searches and comparisons give what the bytes say, to the       *)
(* string's end or the limit, whichever comes first, bytes above 127       *)
(* being the larger ones; and they leave memory alone (string.c:13-31,     *)
(* 82-122, 221-246).                                                       *)
ReadsRight ==
  LET x == call.args
  IN  /\ Called("strlen") => result = Len(StringAt(x[1], All))
      /\ Called("strnlen") => result = Len(StringAt(x[1], x[2]))
      /\ Called("strchr") =>
           LET s == StringAt(x[1], All)
               i == First({k \in DOMAIN s : s[k] = x[2] % ByteMod}, 0)
           IN  result = IF i = 0 THEN NULL ELSE x[1] + i - 1
      /\ Called("strfind") =>
           LET s == StringAt(x[1], All)
           IN  result = x[1] + First({k \in DOMAIN s : s[k] = x[2] % ByteMod}, Len(s) + 1) - 1
      /\ Called("memfind") =>
           result = First({a \in x[1] .. x[1] + x[3] - 1 : old[a] = x[2] % ByteMod}, x[1] + x[3])
      /\ Called("strcmp") =>
           Sign(result) = Order(StringAt(x[1], All), StringAt(x[2], All))
      /\ Called("strncmp") =>
           Sign(result) = Order(StringAt(x[1], x[3]), StringAt(x[2], x[3]))
      /\ Called("memcmp") =>
           Sign(result) = Order(BytesAt(old, x[1], x[3]), BytesAt(old, x[2], x[3]))
      /\ call # NULL /\ call.fn \in {"strlen", "strnlen", "strchr", "strfind", "memfind",
                                     "strcmp", "strncmp", "memcmp", "strtol"} => mem = old

(* A copy or a fill puts exactly its bytes at its destination and changes  *)
(* no other byte, whether bytes or words are moved, also where source and  *)
(* destination overlap; a string copied with a limit is cut and ended, or  *)
(* padded, as its function says (string.c:33-80, 126-219).                 *)
Wrote(dst, bytes) ==
  mem = [a \in Addr |-> IF a \in dst .. dst + Len(bytes) - 1 THEN bytes[a - dst + 1] ELSE old[a]]

WritesRight ==
  LET x == call.args
  IN  /\ Called("strcpy") => Wrote(x[1], Append(StringAt(x[2], All), 0))
      /\ Called("strcat") =>
           Wrote(x[1], StringAt(x[1], All) \o StringAt(x[2], All) \o <<0>>)
      /\ Called("strncpy") =>
           LET s == StringAt(x[2], x[3])
           IN  Wrote(x[1], s \o [i \in 1 .. x[3] - Len(s) |-> 0])
      /\ Called("strlcpy") =>
           LET s == StringAt(x[2], x[3] - 1)
           IN  IF x[3] = 0 THEN result = 0 /\ mem = old
               ELSE result = Len(s) /\ Wrote(x[1], Append(s, 0))
      /\ Called("memset") => Wrote(x[1], [i \in 1 .. x[3] |-> x[2] % ByteMod])
      /\ Called("memmove") => Wrote(x[1], BytesAt(old, x[2], x[3]))

(* strtol reads back a number written in its base or with the prefix that  *)
(* tells it, the most negative one too, takes a number that does not fit   *)
(* modulo the range of a long, and stops behind the last digit of its base.*)
(* Where there is no digit the number is 0, and what led up to it is       *)
(* passed over: the blanks and the sign, and the prefix too, so that endptr*)
(* is behind the x of a mere "0x" (string.c:245-283).                      *)
NumeralRead ==
  Called("strtol") =>
    /\ result.val = ToLong(IF text.sign = <<45>> THEN -text.value ELSE text.value)
    /\ result.endptr = Len(TextOf(text)) - 1 - Len(text.rest)
=============================================================================
