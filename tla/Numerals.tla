------------------------------ MODULE Numerals ------------------------------
(***************************************************************************)
(* Numbers into digits and back: put_dec, the loops of number,             *)
(* lib_int_RawDoFmtNumber and simple_itoa, and the loop of simple_strtoul, *)
(* simple_strtoull and skip_atoi.  Digits are a sequence of small numbers, *)
(* lowest first; a text is a sequence of character codes.                  *)
(***************************************************************************)
EXTENDS Integers, Sequences, Loops

Zero == 48

\* More rounds than a number of 64 bits has digits.
MaxDigits == 64

DigitChar(d, small) == IF d < 10 THEN Zero + d ELSE IF small THEN 87 + d ELSE 55 + d
Reversed(digits, small) == [i \in 1..Len(digits) |-> DigitChar(digits[Len(digits) + 1 - i], small)]
----------------------------------------------------------------------------
\* The five digits of q < FivePlaces, lowest first, without a division: hexadecimal digits
\* weigh 6, 5 and 4 more than multiples of ten, and q / 10 is (q * 205) >> 11.
FivePlaces == 100000
Tenth(x) == (x * 205) \div 2048
Hex1(q) == (q \div 16) % 16
Hex2(q) == (q \div 256) % 16
Hex3(q) == q \div 4096
Ones(q) == 6 * (Hex3(q) + Hex2(q) + Hex1(q)) + (q % 16)
Tens(q) == Tenth(Ones(q)) + 9 * Hex3(q) + 5 * Hex2(q) + Hex1(q)
Hundreds(q) == Tenth(Tens(q)) + 2 * Hex2(q)
ThirdTenth(q) == (Hundreds(q) * 13) \div 128
Thousands(q) == ThirdTenth(q) + 4 * Hex3(q)

PutDecFull(q) ==
  <<Ones(q) - 10 * Tenth(Ones(q)), Tens(q) - 10 * Tenth(Tens(q)), Hundreds(q) - 10 * ThirdTenth(q),
    Thousands(q) - 10 * Tenth(Thousands(q)), Tenth(Thousands(q))>>

\* put_dec_trunc stops at the first place with nothing left above it.
Above(q) == <<Tens(q), IF Hex3(q) # 0 THEN 1 ELSE Hundreds(q), Thousands(q), Tenth(Thousands(q))>>
PutDecTrunc(q) ==
  LET last == CHOOSE k \in 1..5 : /\ k = 5 \/ Above(q)[k] = 0
                                  /\ \A j \in 1..k - 1 : Above(q)[j] # 0
  IN  SubSeq(PutDecFull(q), 1, last)

\* do_div for a dividend of one word.
DoDiv(n, base) == [quot |-> n \div base, rem |-> n % base]

\* What is left to write of a number, and the digits written.
Writing == [num : Nat, digits : Seq(Nat)]
Unwritten(num) == [num |-> num, digits |-> <<>>]
Written(x, base, digits) ==
  [num |-> DoDiv(x.num, base).quot, digits |-> x.digits \o digits]

\* All but the topmost one to five digits of a number, five at a time, and what is left.
FullFives(num) ==
  Rounds([x \in Writing |-> IF x.num < FivePlaces THEN x
                            ELSE Written(x, FivePlaces, PutDecFull(DoDiv(x.num, FivePlaces).rem))],
         Unwritten(num), MaxDigits)

\* Seeded fault: the lower five digits lose their leading zeros.
Bug_PutDec(num) ==
  LET x == Rounds([x \in Writing |-> IF x.num < FivePlaces THEN x
                                     ELSE Written(x, FivePlaces, PutDecTrunc(DoDiv(x.num, FivePlaces).rem))],
                  Unwritten(num), MaxDigits)
  IN  x.digits \o PutDecTrunc(x.num)

\* The digits of a number, lowest first.
PutDec(num) == FullFives(num).digits \o PutDecTrunc(FullFives(num).num)

\* Digits by masks and shifts, or by division: number's else branch,
\* lib_int_RawDoFmtNumber and simple_itoa.
PutDigit(x, base) == Written(x, base, <<DoDiv(x.num, base).rem>>)
DigitsOf(num, base) ==
  Rounds([x \in Writing |-> IF x.num = 0 THEN x ELSE PutDigit(x, base)],
         PutDigit(Unwritten(num), base), MaxDigits).digits
----------------------------------------------------------------------------
\* What the character class table says of a digit, and its value; -1 for any other.
DigitValue(c) ==
  IF c \in Zero..Zero + 9 THEN c - Zero
  ELSE IF c \in 65..70 THEN c - 55 ELSE IF c \in 97..102 THEN c - 87 ELSE -1

At(s, i) == IF i <= Len(s) THEN s[i] ELSE 0

\* The value of the digits from a place on, and where they end.
Reading == [value : Nat, end : Nat]
Gather(s, from, base) ==
  Rounds([x \in Reading |->
            IF DigitValue(At(s, x.end)) \in 0..base - 1
            THEN [value |-> x.value * base + DigitValue(At(s, x.end)), end |-> x.end + 1]
            ELSE x],
         [value |-> 0, end |-> from], Len(s))
=============================================================================
