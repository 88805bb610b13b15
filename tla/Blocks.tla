------------------------------- MODULE Blocks -------------------------------
(***************************************************************************)
(* Copies and fills of blocks of bytes (lib.exec/_memory.s, util.c).  A    *)
(* memory is a function from addresses to bytes.                           *)
(***************************************************************************)
EXTENDS Integers, Loops

\* The registers of one of the routines, and the memory: destination, source, bytes to
\* go; of the misaligned copies also the last word loaded, and how many of its bytes are
\* still to be stored.
Runs(mem) == [mem : [DOMAIN mem -> Int], d : Int, s : Int, n : Int, w : [1..4 -> Int], left : 0..4]
Run(mem, d, s, n) == [mem |-> mem, d |-> d, s |-> s, n |-> n, w |-> [i \in 1..4 |-> 0], left |-> 0]

\* Load k bytes, then store them; post-increment both pointers.
Move(r, k) ==
  [r EXCEPT !.mem = [a \in DOMAIN @ |-> IF a \in r.d..r.d + k - 1 THEN @[r.s + (a - r.d)] ELSE @[a]],
            !.d = @ + k, !.s = @ + k, !.n = @ - k]

MoveTimes(r, k, times) ==
  IF times <= 0 THEN r ELSE Rounds([x \in Runs(r.mem) |-> Move(x, k)], r, times)

\* From the last byte to the first: byte_at_a_time_no_pld.
MoveLast(x) == [x EXCEPT !.n = @ - 1, !.mem[x.d + x.n - 1] = x.mem[x.s + x.n - 1]]
MoveDown(r) == Rounds([x \in Runs(r.mem) |-> IF x.n = 0 THEN x ELSE MoveLast(x)], r, r.n)

\* misaligned_1, _2 and _3: the source is read by whole words.  Eight words at a time,
\* behind what is left of the last one; then byte by byte.
Byte(mem, a) == IF a \in DOMAIN mem THEN mem[a] ELSE 0
Word4(mem, a) == [i \in 1..4 |-> Byte(mem, a + i - 1)]

Eight(x) ==
  [i \in 0..31 |-> IF i < x.left THEN x.w[5 - x.left + i] ELSE Byte(x.mem, x.s + i - x.left)]
StoreEight(x) ==
  [x EXCEPT !.mem = [a \in DOMAIN @ |-> IF a \in x.d..x.d + 31 THEN Eight(x)[a - x.d] ELSE @[a]],
            !.d = @ + 32, !.s = @ + 32, !.n = @ - 32, !.w = Word4(x.mem, x.s + 28)]
MisLoop(r) == Rounds([x \in Runs(r.mem) |-> IF x.n < 32 THEN x ELSE StoreEight(x)], r, r.n)

Refilled(x) ==
  IF x.left = 0 THEN [x EXCEPT !.w = Word4(x.mem, x.s), !.s = @ + 4, !.left = 4] ELSE x
StoreByte(x) ==
  [x EXCEPT !.mem[x.d] = x.w[5 - x.left], !.d = @ + 1, !.n = @ - 1, !.left = @ - 1]
MisTail(r) == Rounds([x \in Runs(r.mem) |-> IF x.n = 0 THEN x ELSE StoreByte(Refilled(x))], r, r.n)

\* The source is aligned down, and the first word loaded.
AlignDown(r) ==
  [r EXCEPT !.s = @ - (@ % 4) + 4, !.w = Word4(r.mem, r.s - (r.s % 4)), !.left = 4 - (r.s % 4)]

\* Seeded fault: the bytes of the last word that have been stored are stored again.
Bug_MisalignedAgain(r) == MisTail([MisLoop(AlignDown(r)) EXCEPT !.left = 4])

Misaligned(r) == MisTail(MisLoop(AlignDown(r)))

\* align_up: words up to a destination that 32 divides.
AlignUp(r) == MoveTimes(r, 4, ((32 - (r.d % 32)) % 32) \div 4)

\* asm_memcpy: four and eight bytes at once, below 32 byte by byte; else bytes up to a
\* word, words up to 32 bytes, blocks of 32, words and bytes.
Aligned(r) ==
  LET up    == AlignUp(r)
      bulk  == MoveTimes(up, 32, up.n \div 32)
      words == MoveTimes(bulk, 4, bulk.n \div 4)
  IN  MoveTimes(words, 1, words.n)

MemCpy(mem, d, s, n) ==
  LET r    == Run(mem, d, s, n)
      head == MoveTimes(r, 1, (4 - (d % 4)) % 4)
  IN  IF n = 0 THEN mem
      ELSE IF n \in {4, 8} THEN MoveTimes(r, 4, n \div 4).mem
      ELSE IF n < 32 THEN MoveDown(r).mem
      ELSE IF head.s % 4 # 0 THEN Misaligned(head).mem
      ELSE Aligned(head).mem

\* CopyMem, with the arguments the other way round, and CopyMemQuick, which counts words.
CopyMem(mem, s, d, n) == MemCpy(mem, d, s, n)
CopyMemQuick(mem, s, d, n) == MoveTimes(Run(mem, d, s, 4 * n), 4, n).mem

\* asm_memset: the same phases, but that fewer than four bytes may be left while words
\* are aligned.
Fill(r, k, c) ==
  [r EXCEPT !.mem = [a \in DOMAIN @ |-> IF a \in r.d..r.d + k - 1 THEN c ELSE @[a]], !.d = @ + k, !.n = @ - k]

FillBytes(r, c) ==
  Rounds([x \in Runs(r.mem) |-> IF x.n = 0 \/ x.d % 4 = 0 THEN x ELSE Fill(x, 1, c)], r, r.n)

FillWords(r, c) ==
  Rounds([x \in Runs(r.mem) |-> IF x.n < 4 \/ x.d % 32 = 0 THEN x ELSE Fill(x, 4, c)], r, r.n)

MemSet(mem, d, byte, n) ==
  LET c     == byte % 256
      r     == FillWords(FillBytes(Run(mem, d, d, n), c), c)
      bulk  == Fill(r, 32 * (r.n \div 32), c)
      words == Fill(bulk, 4 * (bulk.n \div 4), c)
  IN  Fill(words, words.n, c).mem
=============================================================================
