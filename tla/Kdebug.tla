------------------------------- MODULE Kdebug -------------------------------
(***************************************************************************)
(* kern/kdebug.c: debuginfo_eip finds the file, the function and the line  *)
(* of an instruction by three binary searches (stab_binsearch) of the      *)
(* stabs table, each within what the one before has found.  The table is   *)
(* sorted by address for each type of entry by itself, not as a whole, and *)
(* the line entries of a function hold offsets, so a search must step over *)
(* entries of other types and stay within its region.                      *)
(*                                                                         *)
(* One step per turn of the search loop; 'search' has its locals and       *)
(* parameters, 'loc' those of debuginfo_eip, 'info' the result.  Monitor   *)
(* makes the calls: from "idle", to "done" or "failed" (a result below 0). *)
(***************************************************************************)
EXTENDS Integers, Sequences, FiniteSets

CONSTANT ULIM   \* the lowest kernel address

VARIABLES
  stabs,      \* the table, which nothing changes
  eip, search, loc, info, pc

(* The table and its indices, which start at 0 in the code.                *)
At(i) == stabs[i + 1]
Size == Len(stabs)
Unknown == "<unknown>"

Highest(S) == CHOOSE i \in S : \A j \in S : j <= i

Search(left, right, type, addr) ==
  [left |-> left, right |-> right, type |-> type, addr |-> addr,
   l |-> left, r |-> right, any_matches |-> FALSE]

(* The first search is for the source file, in the whole table.            *)
Start(a, search0) ==
  /\ eip' = a /\ search' = search0
  /\ loc' = [lfile |-> 0, rfile |-> 0, lfun |-> 0, rfun |-> 0, addr |-> a]
  /\ info' = [file |-> Unknown, line |-> 0, fn |-> Unknown, addr |-> a, narg |-> 0]

(* Before the first call.                                                  *)
Init ==
  /\ eip = ULIM /\ pc = "idle"
  /\ search = Search(0, -1, "SO", eip)
  /\ loc = [lfile |-> 0, rfile |-> 0, lfun |-> 0, rfun |-> 0, addr |-> eip]
  /\ info = [file |-> Unknown, line |-> 0, fn |-> Unknown, addr |-> eip, narg |-> 0]

(* Mutant of debuginfo_eip: the search starts one entry past the table.    *)
debuginfo_eip_OnePastEnd(a) ==
  /\ pc = "idle"
  /\ Start(a, Search(0, Size, "SO", a))
  /\ pc' = IF a >= ULIM THEN "SO" ELSE "panicked"

(* A call for the address a; a user address panics.                        *)
debuginfo_eip(a) ==
  /\ pc = "idle"
  /\ Start(a, Search(0, Size - 1, "SO", a))
  /\ pc' = IF a >= ULIM THEN "SO" ELSE "panicked"

-----------------------------------------------------------------------------
(* The loop of stab_binsearch.                                             *)
Searching == pc \in {"SO", "FUN", "SLINE"} /\ search.l <= search.r

true_m == (search.l + search.r) \div 2

Matches == {i \in search.l .. true_m : At(i).type = search.type}

m == Highest(Matches)

Turn(s) == search' = s /\ UNCHANGED <<eip, loc, info, pc>>

NoMatch ==
  /\ Searching /\ Matches = {}
  /\ Turn([search EXCEPT !.l = true_m + 1])

Below ==
  /\ Searching /\ Matches # {} /\ At(m).value < search.addr
  /\ Turn([search EXCEPT !.any_matches = TRUE, !.left = m, !.l = true_m + 1])

(* Mutant of Above: the entry that is too high stays in the region.        *)
Above_KeepsEntry ==
  /\ Searching /\ Matches # {} /\ At(m).value > search.addr
  /\ Turn([search EXCEPT !.any_matches = TRUE, !.right = m, !.r = m - 1])

Above ==
  /\ Searching /\ Matches # {} /\ At(m).value > search.addr
  /\ Turn([search EXCEPT !.any_matches = TRUE, !.right = m - 1, !.r = m - 1])

(* Mutant of Exact: the address is not raised, so the loop does not end.   *)
Exact_SameAddress ==
  /\ Searching /\ Matches # {} /\ At(m).value = search.addr
  /\ Turn([search EXCEPT !.any_matches = TRUE, !.left = m, !.l = m])

Exact ==
  /\ Searching /\ Matches # {} /\ At(m).value = search.addr
  /\ Turn([search EXCEPT !.any_matches = TRUE, !.left = m, !.l = m, !.addr = @ + 1])

(* What stab_binsearch returns: without a match an empty region, otherwise *)
(* the rightmost matching entry up to right.                               *)
Found ==
  LET candidates == {i \in search.left + 1 .. search.right : At(i).type = search.type}
  IN  IF ~search.any_matches
      THEN [left |-> search.left, right |-> search.left - 1]
      ELSE [left |-> IF candidates = {}
                     THEN IF search.right > search.left THEN search.left ELSE search.right
                     ELSE Highest(candidates),
            right |-> search.right]

Ended(type) == pc = type /\ search.l > search.r

-----------------------------------------------------------------------------
(* debuginfo_eip between its searches.  File 0 is the header of the table. *)
FileFound ==
  /\ Ended("SO")
  /\ loc' = [loc EXCEPT !.lfile = Found.left, !.rfile = Found.right]
  /\ IF Found.left = 0
     THEN pc' = "failed" /\ UNCHANGED search
     ELSE /\ pc' = "FUN"
          /\ search' = Search(Found.left, Found.right, "FUN", loc.addr)
  /\ UNCHANGED <<eip, info>>

(* Mutant of FunctionFound: the lines are searched for an absolute address. *)
FunctionFound_Absolute ==
  /\ Ended("FUN") /\ Found.left <= Found.right
  /\ info' = [info EXCEPT !.fn = At(Found.left).name, !.addr = At(Found.left).value]
  /\ loc' = [loc EXCEPT !.lfun = Found.left, !.rfun = Found.right]
  /\ search' = Search(Found.left, Found.right, "SLINE", loc'.addr)
  /\ pc' = "SLINE"
  /\ UNCHANGED eip

(* A function: its lines have offsets from its start ...                   *)
FunctionFound ==
  /\ Ended("FUN") /\ Found.left <= Found.right
  /\ info' = [info EXCEPT !.fn = At(Found.left).name, !.addr = At(Found.left).value]
  /\ loc' = [loc EXCEPT !.lfun = Found.left, !.rfun = Found.right,
                        !.addr = @ - At(Found.left).value]
  /\ search' = Search(Found.left, Found.right, "SLINE", loc'.addr)
  /\ pc' = "SLINE"
  /\ UNCHANGED eip

(* ... and an assembly file has lines with addresses and no function.      *)
NoFunction ==
  /\ Ended("FUN") /\ Found.left > Found.right
  /\ loc' = [loc EXCEPT !.lfun = Found.left, !.rfun = Found.right]
  /\ search' = Search(loc.lfile, loc.rfile, "SLINE", loc.addr)
  /\ pc' = "SLINE"
  /\ UNCHANGED <<eip, info>>

(* The last file entry of the compilation unit before the line, which is   *)
(* an included one (SOL) if the line came from there.                      *)
Names(i) == At(i).type = "SOL" \/ (At(i).type = "SO" /\ At(i).value # 0)

Files(lline) == {i \in loc.lfile .. lline : Names(i)}

(* The parameters that follow the function entry, up to but not including  *)
(* the last entry of its region.                                           *)
Params ==
  {i \in loc.lfun + 1 .. loc.rfun - 1 :
     \A j \in loc.lfun + 1 .. i : At(j).type = "PSYM"}

LineFound ==
  /\ Ended("SLINE") /\ Found.left <= Found.right
  /\ info' = [info EXCEPT
       !.line = At(Found.left).desc,
       !.file = IF Files(Found.left) = {} THEN @ ELSE At(Highest(Files(Found.left))).name,
       !.narg = Cardinality(Params)]
  /\ pc' = "done"
  /\ UNCHANGED <<eip, loc, search>>

NoLine ==
  /\ Ended("SLINE") /\ Found.left > Found.right
  /\ pc' = "failed"
  /\ UNCHANGED <<eip, loc, info, search>>

(* The steps of a call.                                                   *)
Next ==
  \/ NoMatch \/ Below \/ Above \/ Exact
  \/ FileFound \/ FunctionFound \/ NoFunction \/ LineFound \/ NoLine

-----------------------------------------------------------------------------
(* A table that the linker makes of the compiler's, by the comment of      *)
(* stab_binsearch (kdebug.c:14-22) and the layout of obj/kern/kernel.      *)
(* Index 0 of the code is 1 here.                                          *)
(***************************************************************************)
(* No entry of a type strictly between two.                                *)
Free(t, i, j, types) == \A k \in i + 1 .. j - 1 : t[k].type \notin types

(* Files and, within a file, functions are in increasing order; lines are  *)
(* within a function or within a file without one.  No two entries that a  *)
(* search sees are one byte apart.                                         *)
InOrder(t, type, bounds) ==
  \A i, j \in DOMAIN t :
    i < j /\ t[i].type = type /\ t[j].type = type /\ Free(t, i, j, bounds) =>
      t[i].value <= t[j].value /\ t[j].value # t[i].value + 1

(* A file with functions has no line before the first.                     *)
LinesInFunctions(t) ==
  \A i, j, k \in DOMAIN t :
    i < j /\ j < k /\ t[i].type = "SO" /\ t[j].type = "SLINE" /\ t[k].type = "FUN"
      /\ Free(t, i, k, {"SO"}) => ~Free(t, i, j, {"FUN"})

(* The parameters follow their function.                                   *)
ParametersFirst(t) ==
  \A i, j \in DOMAIN t :
    i < j /\ t[i].type = "FUN" /\ t[j].type = "PSYM" /\ Free(t, i, j, {"SO", "FUN"}) =>
      \A k \in i + 1 .. j : t[k].type \in {"PSYM", "RSYM"}

Linked(t) ==
  /\ t \in Seq([type : STRING, value : Nat, desc : Nat, name : STRING])
  /\ t # <<>> /\ t[1].type = "UNDF"
  /\ \A i \in DOMAIN t : t[i].type = "SO" => t[i].value > 0
  /\ InOrder(t, "SO", {}) /\ InOrder(t, "FUN", {"SO"}) /\ InOrder(t, "SLINE", {"SO", "FUN"})
  /\ LinesInFunctions(t) /\ ParametersFirst(t)

TypeOK ==
  /\ search.left \in 0 .. Size - 1 /\ search.right \in -1 .. Size - 1
  /\ search.l \in 0 .. Size /\ search.r \in -1 .. Size - 1
  /\ info.narg \in 0 .. Size
  /\ pc \in {"idle", "SO", "FUN", "SLINE", "done", "failed"}

(* What a search in the entries lo .. hi for addr is to bracket, by the    *)
(* comment of stab_binsearch (kdebug.c:14-49): the matching entry that     *)
(* contains addr, and the entry just before the next one.                  *)
Containing(lo, hi, type, addr) ==
  {i \in lo .. hi : At(i).type = type /\ At(i).value <= addr}

Brackets(region, lo, hi, type, addr) ==
  LET inside == Containing(lo, hi, type, addr)
      beyond == {i \in lo .. hi : At(i).type = type /\ At(i).value > addr}
  IN  inside # {} =>
        /\ region.left = Highest(inside)
        /\ region.right = IF beyond = {} THEN hi ELSE -Highest({-i : i \in beyond}) - 1

(* Each of the three searches brackets its address.                        *)
SearchesBracket ==
  /\ Ended("SO") => Brackets(Found, 0, Size - 1, "SO", loc.addr)
  /\ Ended("FUN") => Brackets(Found, loc.lfile, loc.rfile, "FUN", loc.addr)
  /\ Ended("SLINE") =>
       IF loc.lfun <= loc.rfun
       THEN Brackets(Found, loc.lfun, loc.rfun, "SLINE", loc.addr)
       ELSE Brackets(Found, loc.lfile, loc.rfile, "SLINE", loc.addr)

(* What a reader of a backtrace expects of an address, without searches:   *)
(* the last function that starts at or before it in the last file that     *)
(* does, the last line entry of that function at or before the offset, the *)
(* file named last before that line, the parameters of the function.       *)
LastAt(lo, hi, type, addr) ==
  LET S == Containing(lo, hi, type, addr) IN IF S = {} THEN -1 ELSE Highest(S)

EndOf(i, types) ==
  LET after == {j \in i + 1 .. Size - 1 : At(j).type \in types /\ At(j).value > At(i).value}
  IN  IF after = {} THEN Size - 1 ELSE -Highest({-j : j \in after}) - 1

File == LastAt(0, Size - 1, "SO", eip)
Function == LastAt(File, EndOf(File, {"SO"}), "FUN", eip)
First == IF Function = -1 THEN File ELSE Function
Line == LastAt(First, EndOf(First, {"SO", "FUN"}), "SLINE",
               IF Function = -1 THEN eip ELSE eip - At(Function).value)
Entries(type) ==
  {i \in 0 .. Size - 1 :
     /\ Function # -1 /\ i > Function /\ i <= EndOf(Function, {"SO", "FUN"})
     /\ At(i).type = type}

(* debuginfo_eip reports just that for every address of the kernel's code, *)
(* and fails only for one that has no file or no line.  An address before  *)
(* the first line of its file is no code, and is given a line all the same:*)
(* the region is not empty when all matches are above (kdebug.c:84-93).    *)
(* Parameters in registers (RSYM) end the count of the parameters          *)
(* (kdebug.c:104-211).                                                     *)
InfoCorrect ==
  /\ pc = "done" /\ Line # -1 =>
       /\ info.file = At(Highest({i \in 0 .. Line : At(i).type \in {"SO", "SOL"}})).name
       /\ info.line = At(Line).desc
       /\ info.fn = IF Function = -1 THEN Unknown ELSE At(Function).name
       /\ info.addr = IF Function = -1 THEN eip ELSE At(Function).value
       /\ Entries("RSYM") = {} => info.narg = Cardinality(Entries("PSYM"))
  /\ pc = "failed" => File = -1 \/ Line = -1
=============================================================================
