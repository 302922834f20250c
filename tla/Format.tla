------------------------------- MODULE Format -------------------------------
(***************************************************************************)
(* Formatted output (lib/xprintf.c, and its copy in userland/lib.c, which  *)
(* knows no L).  A format is a sequence of items: a character (also that   *)
(* of a %c, or the letter of a conversion there is none of), or a          *)
(* conversion with its modifiers and its argument, and whether an L or l   *)
(* follows it.  Characters are strings of one letter.                      *)
(***************************************************************************)
EXTENDS Integers, SequencesExt, FiniteSetsExt

CONSTANTS
  RevSize,         \* the buffer of print_uint; 22 in the kernel, 11 in userland
  UINT_MAX,        \* the largest unsigned int
  FormatItems,     \* [type, mods, arg, long]
  MaxItems,        \* bound: items of a format
  BufferSizes      \* sizes given to snprintf

NUL == "NUL"
Decimals == <<"0", "1", "2", "3", "4", "5", "6", "7", "8", "9">>
digits == Decimals \o <<"A", "B", "C", "D", "E", "F">>
          \o Decimals \o <<"a", "b", "c", "d", "e", "f">>
DigitValue(c) == CHOOSE d \in 0 .. 9 : Decimals[d + 1] = c

-----------------------------------------------------------------------------
(* scan_int takes the digits 1 to 8 for digits. *)
ScannedDigits == ToSet(SubSeq(Decimals, 2, 9))
ScanLength(s) ==
  Max({n \in 0 .. Len(s) : \A i \in 1 .. n : s[i] \in ScannedDigits})
scan_int(s) ==
  FoldLeft(LAMBDA value, c : 10 * value + DigitValue(c), 0,
           SubSeq(s, 1, ScanLength(s)))
Behind(s) == SubSeq(s, ScanLength(s) + 1, Len(s))

(* The modifiers of a conversion.  The scan of a width that begins with 9  *)
(* takes nothing and is repeated for ever.                                 *)
RECURSIVE ReadModifiers(_, _)
ReadModifiers(mods, f) ==
  IF mods = <<>> THEN f
  ELSE LET c == Head(mods) rest == Tail(mods)
       IN  CASE c = "." ->
                  ReadModifiers(Behind(rest), [f EXCEPT !.prec = scan_int(rest)])
             [] c \in ScannedDigits ->
                  ReadModifiers(Behind(mods), [f EXCEPT !.width = scan_int(mods)])
             [] c = "9" -> [f EXCEPT !.hangs = TRUE]
             [] OTHER -> ReadModifiers(rest, [f EXCEPT !.flags = @ \cup {c}])

Modifiers(item) ==
  ReadModifiers(item.mods,
                [flags |-> {}, width |-> -1, prec |-> -1, hangs |-> FALSE])

(* The code looks for the L behind the first character after the %, so it  *)
(* sees it only if there are no modifiers.                                 *)
SeesLong(item) ==
  item.long /\ item.mods = <<>> /\ item.type \in {"u", "p", "x", "X"}
UnsignedArg(item) == IF SeesLong(item) THEN item.arg ELSE item.arg % (UINT_MAX + 1)

-----------------------------------------------------------------------------
(* What has been put out, and how often printc was called. *)
printc(s, c) == [s EXCEPT !.out = Append(@, c), !.written = @ + 1]
Least(a, b) == IF a < b THEN a ELSE b

(* The number in reverse, padded with zeros and blanks, and put out from   *)
(* its end as far as there is room.                                        *)
RECURSIVE Reversed(_, _, _)
Reversed(n, base, small) ==
  <<digits[(IF small THEN 16 ELSE 0) + (n % base) + 1]>> \o
    (IF n \div base = 0 THEN <<>> ELSE Reversed(n \div base, base, small))
PadTo(s, len, c) == s \o [i \in 1 .. Max({0, len - Len(s)}) |-> c]

print_uint(s, size, n, base, f) ==
  LET rev == PadTo(PadTo(Reversed(n, base, "smalls" \in f.flags),
                         Least(f.prec, RevSize), "0"),
                   Least(f.width, RevSize), " ")
      room == size - s.written
  IN  IF room <= 0 THEN s
      ELSE FoldLeft(printc, s, SubSeq(Reverse(rev), 1, Least(room, Len(rev))))

PrintSigned(s, size, n, f) ==
  LET minus == IF n < 0 THEN printc(s, "-") ELSE s
      sign == IF "+" \in f.flags THEN printc(minus, "+")
              ELSE IF " " \in f.flags THEN printc(minus, " ")
              ELSE minus
  IN  print_uint(sign, size, IF n < 0 THEN -n ELSE n, 10,
                 [f EXCEPT !.prec = 0, !.width = 0])

PrintUnsigned(s, size, item, base, f) ==
  print_uint(s, size, UnsignedArg(item), base,
             [f EXCEPT !.prec = IF @ < f.width /\ "0" \in f.flags THEN f.width ELSE @])

(* The alternative form begins with 0x and counts it to the width.  %x has *)
(* small digits, and %p is an alternative %x.                              *)
PrintHex(s, size, item, f) ==
  LET zero == printc(s, "0")
      alt == IF zero.written < size THEN printc(zero, "x") ELSE zero
  IN  IF "#" \in f.flags
      THEN PrintUnsigned(alt, size, item, 16, [f EXCEPT !.width = @ - 2])
      ELSE PrintUnsigned(s, size, item, 16, f)


StringEnd(s, size, f) ==
  IF f.prec # -1 /\ s.written + f.prec < size THEN s.written + f.prec ELSE size
PrintString(s, size, arg, f) ==
  LET n == Max({0, StringEnd(s, size, f) - s.written})
  IN  FoldLeft(printc, s, SubSeq(arg, 1, Least(n, Len(arg))))

Convert(s, size, item) ==
  LET f == Modifiers(item)
  IN  CASE f.hangs -> [s EXCEPT !.hangs = TRUE]
        [] item.type = "char" -> printc(s, item.arg)
        [] item.type = "d" -> PrintSigned(s, size, item.arg, f)
        [] item.type = "o" -> PrintUnsigned(s, size, item, 8, f)
        [] item.type = "u" -> PrintUnsigned(s, size, item, 10, f)
        [] item.type = "p" ->
             PrintHex(s, size, item, [f EXCEPT !.flags = @ \cup {"#", "smalls"}])
        [] item.type = "x" ->
             PrintHex(s, size, item, [f EXCEPT !.flags = @ \cup {"smalls"}])
        [] item.type = "X" -> PrintHex(s, size, item, f)
        [] item.type = "s" -> PrintString(s, size, item.arg, f)

(* An L that the code did not see is the next character it puts out. *)
PrintItem(s, size, item) ==
  LET t == Convert(s, size, item)
  IN  IF s.written >= size \/ s.hangs THEN s
      ELSE IF item.long /\ ~ SeesLong(item) /\ ~ t.hangs /\ t.written < size
           THEN printc(t, "L")
           ELSE t

(* The buffer afterwards and the result. *)
vxnprintf(size, fmt) ==
  LET s == FoldLeft(LAMBDA t, item : PrintItem(t, size, item),
                    [out |-> <<>>, written |-> 0, hangs |-> FALSE], fmt)
  IN  IF size <= 0 THEN [out |-> <<>>, ret |-> 0, hangs |-> FALSE]
      ELSE IF s.hangs THEN [out |-> s.out, ret |-> -1, hangs |-> TRUE]
      ELSE IF s.written = size
      THEN [out |-> Append(Front(s.out), NUL), ret |-> -1, hangs |-> FALSE]
      ELSE [out |-> Append(s.out, NUL), ret |-> s.written, hangs |-> FALSE]

-----------------------------------------------------------------------------
VARIABLES fmt, bufsize, printed      \* a call of snprintf, and its outcome

formatvars == <<fmt, bufsize, printed>>

FormatInit == fmt = <<>> /\ bufsize = 0 /\ printed = <<>>

SnPrintf ==
  /\ printed = <<>>
  /\ bufsize' \in BufferSizes
  /\ fmt' \in UNION {[1 .. n -> FormatItems] : n \in 0 .. MaxItems}
  /\ printed' = <<vxnprintf(bufsize', fmt')>>

(* The caller has its result and may print again. *)
SnReturn ==
  /\ printed # <<>>
  /\ fmt' = <<>> /\ bufsize' = 0 /\ printed' = <<>>

FormatNext == SnPrintf \/ SnReturn
FormatSpec == FormatInit /\ [][FormatNext]_formatvars

-----------------------------------------------------------------------------
(* What each conversion stands for. *)
Numeral(n, base, first) ==
  LET len == Min({k \in 1 .. RevSize : n < base ^ k})
  IN  [i \in 1 .. len |-> digits[first + ((n \div base ^ (len - i)) % base)]]
Padded(s, len, c) == [i \in 1 .. Max({0, Least(len, RevSize) - Len(s)}) |-> c] \o s

(* A long argument is put out as it is behind a conversion without         *)
(* modifiers; else its lower part is, and the letter.                      *)
Meaning(item) ==
  LET f == Modifiers(item)
      plain == item.mods = <<>>
      n == IF item.type \in {"o", "u", "p", "x", "X"} /\ ~ (item.long /\ plain)
           THEN item.arg % (UINT_MAX + 1) ELSE item.arg
      alt == item.type = "p" \/ (item.type \in {"x", "X"} /\ "#" \in f.flags)
      width == IF alt THEN f.width - 2 ELSE f.width
      zeros == IF "0" \in f.flags THEN Max({f.prec, width}) ELSE f.prec
      first == IF item.type \in {"p", "x"} THEN 17 ELSE 1
      number(base) ==
        Padded(Padded(Numeral(n, base, first), zeros, "0"), width, " ")
  IN  (CASE item.type = "char" -> <<n>>
         [] item.type = "d" ->
              (IF n < 0 THEN <<"-">> ELSE <<>>)
              \o (IF "+" \in f.flags THEN <<"+">>
                  ELSE IF " " \in f.flags THEN <<" ">> ELSE <<>>)
              \o Numeral(IF n < 0 THEN -n ELSE n, 10, first)
         [] item.type = "o" -> number(8)
         [] item.type = "u" -> number(10)
         [] item.type \in {"p", "x", "X"} ->
              (IF alt THEN <<"0", "x">> ELSE <<>>) \o number(16)
         [] item.type = "s" ->
              IF f.prec = -1 THEN n ELSE SubSeq(n, 1, Least(f.prec, Len(n))))
      \o (IF item.long /\ ~ (plain /\ item.type \in {"u", "p", "x", "X"})
          THEN <<"L">> ELSE <<>>)

Hangs(item) == "9" \in ToSet(item.mods)
TwoSigns(item) ==
  item.type = "d" /\ item.arg < 0 /\ {"+", " "} \cap ToSet(item.mods) # {}


(* The comment of vxnprintf: "At most 'size' characters are written        *)
(* (including the trailing '\0')."                                         *)
FormatBounded == printed # <<>> => Len(printed[1].out) <= bufsize
=============================================================================
