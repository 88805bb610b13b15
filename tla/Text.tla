-------------------------------- MODULE Text --------------------------------
(***************************************************************************)
(* Numbers and strings into text and back: lib.exec/vsprintf.c, which      *)
(* DPrintF and VPrintF use, lib.exec/rawdoformat.c, and lib_hexstrings.  A *)
(* text is a sequence of character codes.  A conversion of a format string *)
(* is the record that its flags, width, precision, qualifier and letter    *)
(* make.  A number is within the 31 bits of TLC, so that the division      *)
(* put_dec makes is the one of 32 bits.                                    *)
(***************************************************************************)
EXTENDS Numerals

Space == 32
Plus == 43
Minus == 45
LowerX == 120
NewLine == 10
NoWidth == -1
Null == <<-1>>     \* the NULL pointer: no text

Times(n, c) == [i \in 1..n |-> c]
Max0(n) == IF n > 0 THEN n ELSE 0
Bigger(a, b) == IF a > b THEN a ELSE b
----------------------------------------------------------------------------
\* number: sign and prefix are taken off the width, then the digits or the precision;
\* what is left is blanks in front, or zeros behind the prefix, or blanks at the end.
Number(num, base, width, prec, flags) ==
  LET signed == "SIGN" \in flags
      small  == "SMALL" \in flags
      left   == "LEFT" \in flags
      zero   == "ZEROPAD" \in flags /\ ~left
      abs    == IF signed /\ num < 0 THEN -num ELSE num
      sign   == IF ~signed THEN <<>> ELSE IF num < 0 THEN <<Minus>>
                ELSE IF "PLUS" \in flags THEN <<Plus>>
                ELSE IF "SPACE" \in flags THEN <<Space>> ELSE <<>>
      prefix == IF "SPECIAL" \notin flags \/ base = 10 THEN <<>>
                ELSE IF base = 16 THEN <<Zero, IF small THEN LowerX ELSE LowerX - 32>>
                ELSE <<Zero>>
      digits == IF abs = 0 THEN <<0>> ELSE IF base = 10 THEN PutDec(abs) ELSE DigitsOf(abs, base)
      digs   == Bigger(Len(digits), prec)
      pad    == Max0(width - Len(sign) - Len(prefix) - digs)
  IN  Times(IF left \/ zero THEN 0 ELSE pad, Space) \o sign \o prefix
      \o Times(IF zero THEN pad ELSE 0, Zero)
      \o Times(digs - Len(digits), Zero)
      \o Reversed(digits, small)
      \o Times(IF left THEN pad ELSE 0, Space)

\* string: the precision cuts it, the width pads it.
String(s, width, prec, flags) ==
  LET text == IF s = Null THEN <<60, 78, 85, 76, 76, 62>> ELSE s
      cut  == IF prec < 0 \/ prec > Len(text) THEN text ELSE SubSeq(text, 1, prec)
      pad  == Times(Max0(width - Len(cut)), Space)
  IN  IF "LEFT" \in flags THEN cut \o pad ELSE pad \o cut

\* pointer: eight lower-case digits unless a width is given.
Pointer(p, width, prec, flags) ==
  IF p = 0 THEN String(<<40, 110, 117, 108, 108, 41>>, width, prec, flags)
  ELSE IF width = NoWidth THEN Number(p, 16, 8, prec, flags \cup {"SMALL", "ZEROPAD"})
  ELSE Number(p, 16, width, prec, flags \cup {"SMALL"})

\* What va_arg and the casts make of the argument: %h takes 16 bits of it.
Fetched(arg, qual, signed) ==
  IF qual # "h" THEN arg
  ELSE IF signed /\ arg % 65536 >= 32768 THEN (arg % 65536) - 65536 ELSE arg % 65536

\* One conversion of vsnprintf_internal.  A width that is an argument and negative is
\* LEFT; a precision that is one, zero.
Convert(c, arg) ==
  LET width == IF c.width < NoWidth THEN -c.width ELSE c.width
      prec  == IF c.prec < NoWidth THEN 0 ELSE c.prec
      given == IF c.width < NoWidth THEN c.flags \cup {"LEFT"} ELSE c.flags
      flags == IF c.conv \in {"d", "i"} THEN given \cup {"SIGN"}
               ELSE IF c.conv = "x" THEN given \cup {"SMALL"} ELSE given
      base  == IF c.conv = "o" THEN 8 ELSE IF c.conv \in {"x", "X"} THEN 16 ELSE 10
  IN  IF c.conv = "c" THEN String(<<arg>>, width, NoWidth, flags)
      ELSE IF c.conv = "s" THEN String(arg, width, prec, flags)
      ELSE IF c.conv = "p" THEN Pointer(arg, width, prec, flags)
      ELSE Number(Fetched(arg, c.qual, "SIGN" \in flags), base, width, prec, flags)

\* lib_int_RawDoFmtNumber, %d of RawDoFmt, simple_itoa and lib_hexstrings.
RawNumber(num, base) == Reversed(DigitsOf(num, base), TRUE)
RawSigned(num) == IF num < 0 THEN <<Minus>> \o RawNumber(-num, 10) ELSE RawNumber(num, 10)
SimpleItoa(num) == Reversed(DigitsOf(num, 10), TRUE)
HexStrings(num) ==
  LET d == DigitsOf(num, 16)
  IN  Reversed(d \o Times(8 - Len(d), 0), FALSE) \o <<Space, 13, NewLine>>

\* %b of RawDoFmt: the number, then the names of the bits that are set, counted from 1.
RECURSIVE BitNames(_, _, _)
BitNames(num, names, set) ==
  IF names = <<>> THEN IF set THEN <<62>> ELSE <<>>
  ELSE LET on == (num \div 2^(Head(names).bit - 1)) % 2 = 1
       IN  (IF on THEN <<IF set THEN 44 ELSE 60>> \o Head(names).name ELSE <<>>)
           \o BitNames(num, Tail(names), set \/ on)

RawBits(num, base, names) ==
  RawNumber(num, base) \o IF num = 0 THEN <<>> ELSE BitNames(num, names, FALSE)

\* One conversion of RawDoFmt.
RawConvert(conv, arg) ==
  IF conv = "c" THEN <<arg % 128>>
  ELSE IF conv = "s" THEN arg
  ELSE IF conv = "d" THEN RawSigned(arg)
  ELSE IF conv = "o" THEN RawNumber(arg, 8)
  ELSE IF conv = "u" THEN RawNumber(arg, 10)
  ELSE IF conv = "p" THEN <<Zero, LowerX>> \o RawNumber(arg, 16)
  ELSE RawNumber(arg, 16)
----------------------------------------------------------------------------
\* A leading 0 decides on base 8, and 0x on base 16, even where another base is given.
Prefixed(s, base) ==
  IF At(s, 1) # Zero THEN [base |-> IF base = 0 THEN 10 ELSE base, from |-> 1]
  ELSE IF At(s, 2) = LowerX /\ DigitValue(At(s, 3)) >= 0 THEN [base |-> 16, from |-> 3]
  ELSE [base |-> IF base = 0 THEN 8 ELSE base, from |-> 2]

\* simple_strtoul and simple_strtoull: the value, and where the number ends.
SimpleStrtoul(s, base) == LET p == Prefixed(s, base) IN Gather(s, p.from, p.base)

SimpleStrtol(s, base) ==
  IF At(s, 1) = Minus
  THEN LET r == SimpleStrtoul(Tail(s), base) IN [value |-> -r.value, end |-> r.end + 1]
  ELSE SimpleStrtoul(s, base)

\* skip_atoi.
SkipAtoi(s) == Gather(s, 1, 10)

\* strict_strtoul: the whole string, but for one newline.
StrictStrtoul(s, base) ==
  LET r == SimpleStrtoul(s, base)
  IN  IF s # <<>> /\ r.end > 1 /\ (r.end > Len(s) \/ (r.end = Len(s) /\ s[r.end] = NewLine))
      THEN [ok |-> TRUE, value |-> r.value] ELSE [ok |-> FALSE, value |-> 0]

\* ustrtoul: the unit scales the value, and is stepped over only with an i behind it.
Ustrtoul(s, base) ==
  LET r    == SimpleStrtoul(s, base)
      unit == At(s, r.end)
      by   == IF unit = 71 THEN 2^30 ELSE IF unit = 77 THEN 2^20
              ELSE IF unit \in {75, 107} THEN 1024 ELSE 1
      skip == IF by = 1 \/ At(s, r.end + 1) # 105 THEN 0
              ELSE IF At(s, r.end + 2) = 66 THEN 3 ELSE 2
  IN  [value |-> r.value * by, end |-> r.end + skip]
=============================================================================
