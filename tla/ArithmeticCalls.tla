-------------------------- MODULE ArithmeticCalls --------------------------
(***************************************************************************)
(* The arithmetic routines, called one at a time, and what their results   *)
(* have to be: division of any two words, and division of pairs of words,  *)
(* shifts, times, and numbers written and read, with chosen arguments.     *)
(***************************************************************************)
EXTENDS Arithmetic, Numerals, Calls

CONSTANTS
  TimeVals, Longs, Shifts,   \* times; pairs of words; places to shift by
  Printed                    \* numbers to write

\* What is left of a number without its lowest k digits.
Left(n, base, k) == Rounds([x \in Nat |-> x \div base], n, k)

\* C has no shifts by the width of a pair or more.  The numbers written have 64 bits.
ASSUME CallsAssumption ==
  /\ TimeVals \subseteq [secs : Word, micro : Word]
  /\ Longs \subseteq 0..Base * Base - 1
  /\ Shifts \subseteq 0..W + W - 1
  /\ Printed \subseteq Nat
  /\ \A n \in Printed : Left(n, 2, 64) = 0

Divide(a, b) ==
  call' = [op |-> "divide", a |-> a, b |-> b, udiv |-> UDiv(a, b), umod |-> UMod(a, b),
           rem |-> UDivMod(a, b).rem, sdiv |-> SDiv(a, b), smod |-> SMod(a, b),
           srem |-> SDivMod(a, b).rem]

DivideLong(n, b) ==
  call' = [op |-> "long", n |-> n, b |-> b, div |-> Div64(n, b),
           wrong |-> IF n >= Base THEN ULDivMod(n) ELSE 0]

Shift(n, k) ==
  call' = [op |-> "shift", n |-> n, k |-> k, left |-> ShiftLeft(n, k), right |-> ShiftRight(n, k),
           signed |-> ShiftRightSigned(n, k)]

Time(s, d) ==
  call' = [op |-> "time", s |-> s, d |-> d, cmp |-> CmpTime(s, d), add |-> AddTime(s, d),
           sub |-> SubTime(s, d)]

\* A number by put_dec, by the loops that divide, and read back from their digits.
WriteNumber(n, base, small) ==
  LET digits == DigitsOf(n, base)
  IN  call' = [op |-> "number", n |-> n, base |-> base, digits |-> digits, dec |-> PutDec(n),
               read |-> Gather(Reversed(digits, small), 1, base)]

ArithmeticCall ==
  \/ \E a \in Word, b \in Word \ {0} : Divide(a, b)
  \/ \E n \in Longs, b \in Word \ {0} : DivideLong(n, b)
  \/ \E n \in Longs, k \in Shifts : Shift(n, k)
  \/ \E s, d \in TimeVals : Time(s, d)
  \/ \E n \in Printed, base \in {8, 10, 16}, small \in BOOLEAN : WriteNumber(n, base, small)

ArithmeticSpec == SupInit /\ [][(call = Idle /\ ArithmeticCall) \/ Return]_call
----------------------------------------------------------------------------
Sign(i) == IF i < 0 THEN -1 ELSE IF i > 0 THEN 1 ELSE 0
Quotient(x, y) == LET q == Abs(x) \div Abs(y) IN IF (x < 0) = (y < 0) THEN q ELSE -q
Remainder(x, y) == x - Quotient(x, y) * y

\* What the two halves of the body leave of a divisor: as the first half has shifted it.
ShiftedUp(x, y) == y * 2^(Clz(y) - Clz(x))

\* Unsigned division is right, its remainder where the quotient keeps the three top bits
\* free; signed division only by a power of two, or a divisor not below the dividend:
\* otherwise it divides by the divisor shifted up to the dividend (_divsi3.s:2-65,
\* _modsi3.s:2-70).
DivisionExact ==
  call.op = "divide" =>
    LET a == call.a
        b == call.b
        x == Signed(a)
        y == Signed(b)
        up == ShiftedUp(Abs(x), Abs(y))
    IN  /\ call.udiv = a \div b /\ call.rem = a % b
        /\ a \div b < 2^(W - 3) => call.umod = a % b
        /\ IF IsPower(Abs(y)) \/ Abs(x) <= Abs(y)
           THEN /\ call.sdiv = Unsigned(Quotient(x, y))
                /\ call.smod = Unsigned(Remainder(x, y))
           ELSE /\ call.sdiv = Unsigned(Sign(x) * Sign(y) * (Abs(x) \div up))
                /\ call.smod = Unsigned(Sign(x) * (Abs(x) % up))

LongsExact ==
  /\ call.op = "long" => call.div = [quot |-> call.n \div call.b, rem |-> call.n % call.b]
  /\ call.op = "shift" =>
       /\ call.left = (call.n * 2^call.k) % (Base * Base)
       /\ call.right = call.n \div 2^call.k
       /\ LET signed == IF call.n >= Half * Base THEN call.n - Base * Base ELSE call.n
          IN  call.signed = (signed \div 2^call.k) % (Base * Base)

Micros(t) == t.secs * Million + t.micro

\* CmpTime orders times less than half the range of seconds apart; sums and differences
\* are exact, and their microseconds below a million, as are those of the time that
\* SubTime has subtracted, which is still the same.
TimesExact ==
  call.op = "time" =>
    LET s == call.s
        d == call.d
    IN  /\ (Abs(s.secs - d.secs) < Half /\ s.micro < Million /\ d.micro < Million)
             => call.cmp = Sign(Micros(s) - Micros(d))
        /\ s.micro + d.micro < Base =>
             /\ call.add.micro < Million
             /\ (Micros(call.add) - Micros(s) - Micros(d)) % (Base * Million) = 0
        /\ call.sub.dst.micro \in 0..Million - 1
        /\ (Micros(call.sub.dst) - Micros(d) + Micros(s)) % (Base * Million) = 0
        /\ call.sub.src.micro < Million
        /\ (Micros(call.sub.src) - Micros(s)) % (Base * Million) = 0

\* The digits of a number, lowest first, all of them and no leading zero.
IsNumeral(digits, n, base) ==
  /\ digits # <<>>
  /\ \A i \in 1..Len(digits) : digits[i] = Left(n, base, i - 1) % base
  /\ Left(n, base, Len(digits)) = 0
  /\ Len(digits) > 1 => digits[Len(digits)] # 0

\* The multiplications of put_dec and the divisions make the same numeral, which is read
\* back as the number, to its last character and in both cases of letters.
NumeralsExact ==
  call.op = "number" =>
    /\ IsNumeral(call.digits, call.n, call.base)
    /\ IsNumeral(call.dec, call.n, 10)
    /\ call.read = [value |-> call.n, end |-> Len(call.digits) + 1]

\* The compiler's run-time routines and the arithmetic on times, for every pair of
\* words: right where DivisionExact says so, and everywhere else (_udivsi3.s, _umodsi3.s,
\* _divsi3.s, _modsi3.s, div64.c, _ashldi3.s, _ashrdi3.s, _lshrdi3.s, timerfuncs.c); and
\* numbers into digits and back (vsprintf.c:200-222, 258-447, rawdoformat.c, uart.c).
ArithmeticExact == DivisionExact /\ LongsExact /\ TimesExact /\ NumeralsExact

\* The remainder of a signed division is what is left of the dividend
\* (_modsi3.s:35-63, "Perform all needed substractions to keep only the reminder").
SignedRemainder ==
  call.op = "divide" => call.smod = Unsigned(Remainder(Signed(call.a), Signed(call.b)))
=============================================================================
