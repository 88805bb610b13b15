----------------------------- MODULE Arithmetic -----------------------------
(***************************************************************************)
(* The arithmetic the compiler calls (lib.exec/_divsi3.s, _modsi3.s,       *)
(* _udivsi3.s, _umodsi3.s, div64.c, uldivmod.c, _ashldi3.s, _ashrdi3.s,    *)
(* _lshrdi3.s) and timer.device's arithmetic on times (timerfuncs.c), on   *)
(* words of W bits: the code's 32, and its masks 0xe0000000, 0x80000000    *)
(* and 0x10000000, scale with W, and with a small W every input can be     *)
(* tried.  The assembler is given the sources without the C preprocessor,  *)
(* and a # in the first column begins a comment: of #if, #else, #endif     *)
(* both halves are assembled, one after the other.                         *)
(***************************************************************************)
EXTENDS Integers, FiniteSets, Loops

CONSTANTS
  W,          \* bits in a word
  Million     \* microseconds in a second

\* The loops that shift by four want a word of four bits.  The timer's microseconds
\* compare as signed words.
ASSUME ArithmeticAssumption ==
  /\ W \in Nat /\ W >= 4
  /\ Million \in 1..2^(W - 1)

Base == 2^W
Word == 0..Base - 1
Half == 2^(W - 1)

\* Words and pairs of words as signed numbers, and back.
Signed(x) == IF x >= Half THEN x - Base ELSE x
Unsigned(i) == i % Base
Neg(x) == (Base - x) % Base
Abs(i) == IF i < 0 THEN -i ELSE i

Lsl(x, n) == IF n >= W THEN 0 ELSE (x * 2^n) % Base
Lsr(x, n) == IF n >= W THEN 0 ELSE x \div 2^n
Asr(x, n) == IF n >= W THEN Unsigned(IF x >= Half THEN -1 ELSE 0)
             ELSE Unsigned(Signed(x) \div 2^n)
Clz(x) == Cardinality({n \in 0..W - 1 : Lsr(x, n) = 0})
IsPower(x) == x \in {2^n : n \in 0..W - 1}
----------------------------------------------------------------------------
\* The registers of a division.  order stands in for curbit where the remainder is
\* wanted: what the loops shift by, they add to it.
Registers == [dividend : Nat, divisor : Nat, curbit : Nat, result : Nat, order : Int]
Regs(a, b) == [dividend |-> a, divisor |-> b, curbit |-> 1, result |-> 0, order |-> 0]

\* Shift the divisor up while it is below the dividend and a limit.
ShiftedBy(r, n) ==
  [r EXCEPT !.divisor = Lsl(@, n), !.curbit = Lsl(@, n), !.order = @ + n]
ShiftUp(r, limit, n) ==
  Rounds([x \in Registers |-> IF x.divisor < limit /\ x.divisor < x.dividend
                              THEN ShiftedBy(x, n) ELSE x], r, W)

\* First four bits at a time, then one.
Align(r) == ShiftUp(ShiftUp(r, 2^(W - 4), 4), Half, 1)

Orr(x, bit) == IF bit = 0 \/ (x \div bit) % 2 = 1 THEN x ELSE x + bit

\* One trial subtraction, of the divisor shifted down by n.
Subtract(r, n) ==
  IF r.dividend >= Lsr(r.divisor, n)
  THEN [r EXCEPT !.dividend = @ - Lsr(r.divisor, n), !.result = Orr(@, Lsr(r.curbit, n))]
  ELSE r

Batch(r) == Subtract(Subtract(Subtract(Subtract(r, 0), 1), 2), 3)

\* The loops end after the batch that leaves no dividend or no bit; LastPass is where that
\* batch begins.
Over(s) == s.dividend = 0 \/ Lsr(s.curbit, 4) = 0
LastPass(r) ==
  Rounds([x \in Registers |-> IF Over(Batch(x)) THEN x
                              ELSE [Batch(x) EXCEPT !.curbit = Lsr(@, 4), !.divisor = Lsr(@, 4)]],
         r, W)

DivLoop(r) == Batch(LastPass(r))

\* __udivsi3, for a divisor that is not zero.
UDiv(a, b) == IF a < b THEN 0 ELSE DivLoop(Align(Regs(a, b))).result

\* __umodsi3.  The last pass may subtract too much; overdone keeps the places of the
\* bits of curbit ror 1 to curbit ror 3 for the subtractions made in it.
Ror(bit, n) == (bit - n) % W
Overdone(r) ==
  LET place == CHOOSE n \in 0..W - 1 : 2^n = r.curbit
      s(n)  == IF n = 0 THEN Subtract(r, 0) ELSE
               IF n = 1 THEN Subtract(Subtract(r, 0), 1)
               ELSE Subtract(Subtract(Subtract(r, 0), 1), 2)
  IN  {n \in 1..3 : s(n - 1).dividend >= Lsr(r.divisor, n) /\ Ror(place, n) >= W - 3}

PutBack(r, n) == IF n \in Overdone(r) THEN Lsr(r.divisor, n) ELSE 0
ModLoop(r) ==
  LET x == LastPass(r) IN Batch(x).dividend + PutBack(x, 1) + PutBack(x, 2) + PutBack(x, 3)

\* Seeded fault: what the last pass subtracts too much is left.
Bug_UModNoFixup(a, b) == IF a < b THEN a ELSE DivLoop(Align(Regs(a, b))).dividend

UMod(a, b) == IF a < b THEN a ELSE ModLoop(Align(Regs(a, b)))

\* __aeabi_uidivmod: the remainder from the quotient.
UDivMod(a, b) == [quot |-> UDiv(a, b), rem |-> Unsigned(a - UDiv(a, b) * b)]
----------------------------------------------------------------------------
\* Both halves of ARM_DIV_BODY: the divisor is shifted up to the dividend, then three
\* bits more if it has the room; curbit only knows of what the second half shifts.
DivBody(a, b) ==
  LET up == Lsl(b, Clz(b) - Clz(a))
      r  == IF up < 2^(W - 3) THEN [Regs(a, Lsl(up, 3)) EXCEPT !.curbit = 8] ELSE Regs(a, up)
  IN  DivLoop(Align(r)).result

\* __divsi3 for words of signed numbers.  Both halves of ARM_DIV2_ORDER find the same
\* order.  The result is negated when the signs differ.
SDiv(x, y) ==
  LET a == Abs(Signed(x))
      b == Abs(Signed(y))
      WithSign(q) == IF (Signed(x) < 0) = (Signed(y) < 0) THEN q ELSE Neg(q)
  IN  IF b = 1 THEN WithSign(a % Base)
      ELSE IF a < b THEN 0
      ELSE IF a = b THEN WithSign(1)
      ELSE IF IsPower(b) THEN WithSign(Lsr(a, W - 1 - Clz(b)))
      ELSE WithSign(DivBody(a, b))

\* The loop of ARM_MOD_BODY, then the one to three subtractions that are left.
OrderPass(r) ==
  LET s == [Batch(r) EXCEPT !.divisor = Lsr(@, 4)]
  IN  IF s.dividend >= 1 THEN [s EXCEPT !.order = @ - 4] ELSE s
OrderLoop(r) ==
  OrderPass(Rounds([x \in Registers |-> IF OrderPass(x).dividend >= 1 /\ OrderPass(x).order >= 0
                                        THEN OrderPass(x) ELSE x], r, W))

Half1(r) == [r EXCEPT !.divisor = Lsr(@, 1)]
Rest(r) ==
  LET three == IF r.order > -2 THEN Half1(Subtract(r, 0)) ELSE r
      two   == IF r.order >= -2 THEN Half1(Subtract(three, 0)) ELSE three
  IN  Subtract(two, 0).dividend

\* Both halves of ARM_MOD_BODY: the second begins with order zero again.
ModBody(a, b) ==
  LET r == Align(Regs(a, Lsl(b, Clz(b) - Clz(a))))
      s == [r EXCEPT !.order = @ - 3]
      t == OrderLoop(s)
  IN  IF s.order < 0 THEN Rest(s)
      ELSE IF t.order % 4 = 0 \/ t.dividend = 0 THEN t.dividend
      ELSE Rest(t)

\* __modsi3: the remainder has the sign of the dividend.
SMod(x, y) ==
  LET a == Abs(Signed(x))
      b == Abs(Signed(y))
      r == IF b = 1 \/ a = b THEN 0
           ELSE IF a < b THEN a
           ELSE IF IsPower(b) THEN a % b
           ELSE ModBody(a, b)
  IN  IF Signed(x) < 0 THEN Neg(r) ELSE r

\* __aeabi_idivmod.
SDivMod(x, y) == [quot |-> SDiv(x, y), rem |-> Unsigned(x - SDiv(x, y) * y)]
----------------------------------------------------------------------------
Long(lo, hi) == hi * Base + lo
Lo(n) == n % Base
Hi(n) == n \div Base

\* __div64_32: a pair of words by a word.  The divisor is doubled while it is positive
\* and below what remains, then subtracted and halved.
Pairs == [rem : Nat, res : Nat, b : Nat, d : Nat]
Doubled(p) ==
  Rounds([x \in Pairs |-> IF x.b > 0 /\ x.b < Half * Base /\ x.b < x.rem
                          THEN [x EXCEPT !.b = (@ + @) % (Base * Base), !.d = (@ + @) % (Base * Base)]
                          ELSE x], p, W + W)

Taken(x) == IF x.rem >= x.b THEN [x EXCEPT !.rem = @ - x.b, !.res = @ + x.d] ELSE x
Halved(p) ==
  Taken(Rounds([x \in Pairs |-> IF x.d \div 2 = 0 THEN x
                                ELSE [Taken(x) EXCEPT !.b = @ \div 2, !.d = @ \div 2]], p, W + W))

Div64(n, b) ==
  LET high == IF Hi(n) >= b THEN UDiv(Hi(n), b) ELSE 0
      p    == Halved(Doubled([rem |-> n - high * b * Base, res |-> high * Base, b |-> b, d |-> 1]))
  IN  [quot |-> p.res, rem |-> p.rem]

\* __aeabi_uldivmod takes two words where the caller passes two pairs: it divides the
\* lower word of the numerator by the upper one.  LShiftU64 shifts a word by 32 before
\* it is widened, so that nothing is left of the remainder.
ULDivMod(n) == UDiv(Lo(n), Hi(n))

\* __ashldi3, __lshrdi3 and __ashrdi3, with the shifts by a register that ARM makes
\* zero, or the sign, from W places on.
ShiftLeft(n, k) ==
  Long(Lsl(Lo(n), k),
       IF k < W THEN (Lsl(Hi(n), k) + Lsr(Lo(n), W - k)) % Base ELSE Lsl(Lo(n), k - W))

ShiftRight(n, k) ==
  Long(IF k < W THEN (Lsr(Lo(n), k) + Lsl(Hi(n), W - k)) % Base ELSE Lsr(Hi(n), k - W),
       Lsr(Hi(n), k))

ShiftRightSigned(n, k) ==
  Long(IF k < W THEN (Lsr(Lo(n), k) + Lsl(Hi(n), W - k)) % Base ELSE Asr(Hi(n), k - W),
       Asr(Hi(n), k))
----------------------------------------------------------------------------
\* Times.  CmpTime takes the difference of two words for a signed number.
CmpTime(src, dst) ==
  LET diff == Signed(Unsigned(IF dst.secs = src.secs THEN src.micro - dst.micro
                              ELSE src.secs - dst.secs))
  IN  IF diff < 0 THEN -1 ELSE IF diff > 0 THEN 1 ELSE 0

\* while(micro > 999999) { secs++; micro -= 1000000; }
Carry(t) == [secs |-> Unsigned(t.secs + t.micro \div Million), micro |-> t.micro % Million]

AddTime(src, dst) ==
  Carry([secs |-> Unsigned(dst.secs + src.secs), micro |-> Unsigned(dst.micro + src.micro)])

\* SubTime carries in both, so the subtrahend is written as well.
SubTime(src, dst) ==
  LET s == Carry(src)
      d == Carry(dst)
      borrow == IF d.micro < s.micro THEN 1 ELSE 0
  IN  [src |-> s,
       dst |-> [secs |-> Unsigned(d.secs - borrow - s.secs), micro |-> d.micro + borrow * Million - s.micro]]
=============================================================================
