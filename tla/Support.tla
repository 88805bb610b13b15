------------------------------ MODULE Support ------------------------------
(***************************************************************************)
(* The routines that keep no state, called one at a time with chosen       *)
(* arguments, and what their results have to be: ArithmeticCalls,          *)
(* BlockCalls, and text, tag lists and strings.  Each action is one call.  *)
(***************************************************************************)
EXTENDS ArithmeticCalls, BlockCalls, Text, Data

LOCAL INSTANCE SequencesExt
LOCAL INSTANCE FiniteSetsExt

CONSTANTS
  Numbers, Widths, Precs, FlagSets,    \* of conversions
  Texts,                               \* texts to be read
  Tags, TagArrays, MoreArrays,         \* kinds of tag items; arrays as sequences of kinds
  Strings

Format(n, c) == call' = [op |-> "print", n |-> n, c |-> c, out |-> Convert(c, n)]

\* Some names for %b, one letter each.
BitLetters == <<[bit |-> 1, name |-> <<65>>], [bit |-> 3, name |-> <<66>>], [bit |-> 4, name |-> <<67>>]>>

PrintRaw(n) ==
  call' = [op |-> "raw", n |-> n, d |-> RawConvert("d", n),
           u |-> IF n < 0 THEN <<>> ELSE RawConvert("u", n),
           x |-> IF n < 0 THEN <<>> ELSE RawConvert("p", n),
           h |-> IF n < 0 THEN <<>> ELSE HexStrings(n),
           i |-> IF n < 0 THEN <<>> ELSE SimpleItoa(n)]

PrintBits(n) == call' = [op |-> "bits", n |-> n, out |-> RawBits(n, 16, BitLetters)]

FormatText(s, c) == call' = [op |-> "text", s |-> s, c |-> c, out |-> Convert(c, s)]

Read(s, b) == call' = [op |-> "read", s |-> s, b |-> b, strict |-> StrictStrtoul(s, b)]

ReadUnit(n, u, rest) ==
  call' = [op |-> "unit", n |-> n, u |-> u, rest |-> rest, end |-> SkipAtoi(SimpleItoa(n) \o u \o rest).end,
           got |-> Ustrtoul(SimpleItoa(n) \o u \o rest, 10)]

\* Arrays 1 and 2 hold the list, 3 its clone, 4 the map of PackBoolTags.
Lists(a, b) ==
  << [i \in 1..Len(a) |-> Tags[a[i]]], [i \in 1..Len(b) |-> Tags[b[i]]], <<>>,
     << [tag |-> 16, data |-> {1, 2}], [tag |-> 17, data |-> {2, 3}], [tag |-> End, data |-> 0] >> >>
First(k) == <<k, 1>>

WalkTags(a, b, allocated) ==
  LET l == Lists(a, b)
      c == CloneTagItems(l, 3, First(1), allocated)
  IN  call' = [op |-> "tags", lists |-> l, allocated |-> allocated, walk |-> Walk(l, First(1)),
               find |-> FindTagItem(l, 17, First(1)), data |-> GetTagData(l, 17, 99, First(1)),
               clone |-> [c |-> c.lists, walk |-> Walk(c.lists, c.list)],
               and |-> FilterTagItems(l, First(1), <<16>>, "and"),
               not |-> FilterTagItems(l, First(1), <<16>>, "not"),
               pack |-> PackBoolTags(l, {3, 4}, First(1), First(4))]

Match(s, t, n) ==
  call' = [op |-> "strings", s |-> s, t |-> t, n |-> n, cmp |-> Stricmp(s, t), back |-> Stricmp(t, s),
           ncmp |-> Strnicmp(s, t, n), chr |-> Strchr(s, 97), rchr |-> Strrchr(s, 97),
           cat |-> Strcat(s \o <<0>> \o [i \in 1..Len(t) |-> 1], t)]

Conversions == [conv : {"d", "u", "o", "x", "X", "p"}, width : Widths, prec : Precs, flags : FlagSets,
                qual : {"none", "h"}]

Units == {<<>>, <<107>>, <<75>>, <<77>>, <<71>>}

Call ==
  \/ \E a \in TagArrays, b \in MoreArrays : WalkTags(a, b, TRUE)
  \/ \E a \in TagArrays : WalkTags(a, <<1>>, FALSE)
  \/ \E s, t \in Strings, n \in 0..3 : Match(s, t, n)
  \/ ArithmeticCall
  \/ BlockCall
  \/ \E n \in Numbers, c \in Conversions : (n >= 0 \/ c.conv = "d") /\ Format(n, c)
  \/ \E n \in Numbers : PrintRaw(n)
  \/ \E n \in 0..15 : PrintBits(n)
  \/ \E s \in Strings \cup {Null}, w \in Widths, p \in Precs, f \in SUBSET {"LEFT"} :
       FormatText(s, [conv |-> "s", width |-> w, prec |-> p, flags |-> f, qual |-> "none"])
  \/ \E s \in Texts, b \in {0, 8, 10, 16} : Read(s, b)
  \/ \E n \in {0, 1}, u \in Units, rest \in {<<>>, <<105>>, <<105, 66>>, <<98>>} : ReadUnit(n, u, rest)

SupNext == (call = Idle /\ Call) \/ Return
----------------------------------------------------------------------------
Blank(c) == c = Space
\* What is between the blanks, without a plus.
Trimmed(s) ==
  LET a == SelectInSeq(s, LAMBDA c : c \notin {Space, Plus})
      z == SelectLastInSeq(s, LAMBDA c : c # Space)
  IN  SubSeq(s, a, z)

BaseOf(c) == IF c.conv = "o" THEN 8 ELSE IF c.conv \in {"x", "X", "p"} THEN 16 ELSE 10
WidthOf(c) == IF c.width < -1 THEN -c.width ELSE IF c.conv = "p" /\ c.width = -1 THEN 8 ELSE c.width

\* Whatever the flags, width and precision, a printed number is read back as itself,
\* to its last character (but for an upper-case 0X, which the reader does not know); the
\* text is as wide as asked for, or has no blank too many; and all the printers agree.
PrintedIsRead ==
  /\ (call.op = "print" /\ (call.n # 0 \/ call.c.conv # "p")) =>
       LET c == call.c
           t == Trimmed(call.out)
           v == IF c.qual # "h" \/ c.conv = "p" THEN call.n
                ELSE IF c.conv = "d" /\ call.n % 65536 >= 32768 THEN (call.n % 65536) - 65536
                ELSE call.n % 65536
           r == SimpleStrtol(t, BaseOf(c))
       IN  /\ (c.conv = "X" /\ "SPECIAL" \in c.flags)
                \/ r = [value |-> v, end |-> Len(t) + 1]
           /\ Len(call.out) >= WidthOf(c)
           /\ Len(call.out) > WidthOf(c) =>
                Cardinality({i \in 1..Len(call.out) : call.out[i] = Space})
                  = IF "SPACE" \in c.flags /\ "PLUS" \notin c.flags /\ c.conv = "d" /\ v >= 0
                    THEN 1 ELSE 0
  /\ call.op = "raw" =>
       LET plain(conv) == [conv |-> conv, width |-> -1, prec |-> -1, flags |-> {}, qual |-> "none"]
           wide == [plain("X") EXCEPT !.width = 8, !.flags = {"ZEROPAD"}]
       IN  /\ call.d = Convert(plain("d"), call.n)
           /\ call.n >= 0 =>
                /\ call.u = Convert(plain("u"), call.n) /\ call.i = call.u
                /\ call.x = Convert([plain("x") EXCEPT !.flags = {"SPECIAL"}], call.n)
                /\ call.h = Convert(wide, call.n) \o <<Space, 13, NewLine>>
  /\ call.op = "text" =>
       LET c    == call.c
           text == IF call.s = Null THEN <<60, 78, 85, 76, 76, 62>> ELSE call.s
           cut  == IF c.prec = -1 THEN Len(text) ELSE IF c.prec < 0 THEN 0 ELSE Min({c.prec, Len(text)})
           long == Bigger(WidthOf(c), cut)
           at   == IF c.width < -1 \/ "LEFT" \in c.flags THEN 0 ELSE long - cut
       IN  /\ Len(call.out) = long
           /\ \A i \in 1..long : call.out[i] = IF i - at \in 1..cut THEN text[i - at] ELSE Space
  /\ call.op = "bits" =>
       LET named == {k \in 1..3 : (call.n \div 2^(BitLetters[k].bit - 1)) % 2 = 1}
           tail  == SubSeq(call.out, 2, Len(call.out))
       IN  /\ {k \in 1..3 : \E i \in 2..Len(call.out) : call.out[i] = BitLetters[k].name[1]} = named
           /\ Len(tail) = IF call.n = 0 THEN 0 ELSE IF named = {} THEN 0 ELSE 2 * Cardinality(named) + 1

Numeral(s, b) == s # <<>> /\ \A i \in 1..Len(s) : DigitValue(s[i]) \in 0..b - 1
ValueOf(s, b) == FoldSet(LAMBDA i, v : v + DigitValue(s[i]) * b^(Len(s) - i), 0, 1..Len(s))

\* strict_strtoul takes numerals, with 0x or without and with a newline or without, and
\* nothing else; a numeral 0x is hexadecimal in every base.
ReadIsNumeral ==
  call.op = "read" =>
    LET s == IF call.s # <<>> /\ call.s[Len(call.s)] = NewLine
             THEN SubSeq(call.s, 1, Len(call.s) - 1) ELSE call.s
        hex == Len(s) > 2 /\ s[1] = Zero /\ s[2] = LowerX
        b == IF call.b # 0 THEN call.b ELSE IF s # <<>> /\ s[1] = Zero THEN 8 ELSE 10
        ref == IF hex /\ Numeral(SubSeq(s, 3, Len(s)), 16)
               THEN [ok |-> TRUE, value |-> ValueOf(SubSeq(s, 3, Len(s)), 16)]
               ELSE IF ~hex /\ Numeral(s, b) THEN [ok |-> TRUE, value |-> ValueOf(s, b)]
               ELSE [ok |-> FALSE, value |-> 0]
    IN  call.strict = ref

\* A unit scales the number before it, and is stepped over only with an i behind it;
\* whatever comes behind that is left.
UnitsScale ==
  call.op = "unit" =>
    LET power == CASE call.u = <<>> -> 0 [] call.u \in {<<75>>, <<107>>} -> 1 [] call.u = <<77>> -> 2
                   [] OTHER -> 3
        over  == power > 0 /\ call.rest # <<>> /\ call.rest[1] = 105
    IN  /\ call.got.value = call.n * 1024^power
        /\ call.end = 2
        /\ call.got.end = IF over THEN 3 + Len(call.rest) ELSE 2

\* Numbers survive being printed and read, by every printer and reader of the kernel
\* (vsprintf.c:200-256, 331-535, 674-861, 964-976, rawdoformat.c:5-127, uart.c:50-68).
TextExact == PrintedIsRead /\ ReadIsNumeral /\ UnitsScale
----------------------------------------------------------------------------
\* Which items of an array a walk may come to, and where the walk of it ends.
Skipped(arr, i) ==
  LET sk[k \in 1..Len(arr)] == \E j \in 1..k - 1 : /\ arr[j].tag = Skip /\ ~sk[j]
                                                   /\ k <= j + arr[j].data
  IN  sk[i]
EndOf(arr) == CHOOSE i \in 1..Len(arr) :
                /\ arr[i].tag \in {End, More} /\ ~Skipped(arr, i)
                /\ \A j \in 1..i - 1 : arr[j].tag \in {End, More} => Skipped(arr, j)
Seen(lists, k) ==
  LET is == SelectSeq([i \in 1..EndOf(lists[k]) - 1 |-> i],
                      LAMBDA i : lists[k][i].tag >= 16 /\ ~Skipped(lists[k], i))
  IN  [j \in 1..Len(is) |-> <<k, is[j]>>]
SeenAll(lists) ==
  LET e == lists[1][EndOf(lists[1])]
  IN  Seen(lists, 1) \o (IF e.tag = More /\ e.data # NullPtr THEN Seen(lists, 2) ELSE <<>>)

Contents(lists, ps) == [i \in 1..Len(ps) |-> Item(lists, ps[i])]

\* A walk meets the items between ignored, skipped and chained ones; searches, clones,
\* filters and packed flags follow it.  Without memory there is no clone and
\* nothing changes.
TagsExact ==
  call.op = "tags" =>
    LET l    == call.lists
        seen == SeenAll(l)
        T(tag) == SelectSeq(seen, LAMBDA p : Item(l, p).tag = tag)
        Bit(b) == SelectSeq(seen, LAMBDA p : \E m \in 1..2 : l[4][m].tag = Item(l, p).tag /\ b \in l[4][m].data)
    IN  /\ call.walk = seen
        /\ call.find = IF T(17) = <<>> THEN NullPtr ELSE T(17)[1]
        /\ call.data = IF T(17) = <<>> THEN 99 ELSE Item(l, T(17)[1]).data
        /\ IF call.allocated THEN Contents(call.clone.c, call.clone.walk) = Contents(l, seen)
           ELSE call.clone = [c |-> l, walk |-> <<>>]
        /\ call.and.valid = Len(T(16)) /\ Walk(call.and.lists, First(1)) = T(16)
        /\ call.not.valid = Len(seen) - Len(T(16))
        /\ Walk(call.not.lists, First(1)) = SelectSeq(seen, LAMBDA p : Item(l, p).tag # 16)
        /\ call.pack = {b \in 1..4 : IF Bit(b) = <<>> THEN b \in {3, 4}
                                     ELSE Item(l, Bit(b)[Len(Bit(b))]).data # 0}

InLower(s) == [i \in 1..Len(s) |-> ToLower(s[i])]
Cut(s, n) == SubSeq(s, 1, Strnlen(s, n))
Places(s, c) == {i \in 1..Len(s) : s[i] = c}
Differ(s, t) == {i \in 1..Len(s) + Len(t) + 1 : Char(InLower(s), i) # Char(InLower(t), i)}

\* Comparing tells equal strings from others, whatever their case, and up to n characters
\* what comparing the beginnings tells; but the results are words without a sign: the
\* string that comes first compares as a number of the upper half, and the other way round
\* as its negation.  The searches find the first and the last place.  Only 0xdf and 0xff
\* change under a turn to upper and back to lower case.
StringsExact ==
  /\ call.op = "strings" =>
       LET s == call.s
           t == call.t
           d == Char(InLower(s), Min(Differ(s, t))) - Char(InLower(t), Min(Differ(s, t)))
       IN  /\ (call.cmp = 0) = (InLower(s) = InLower(t))
           /\ call.cmp + call.back \in {0, CmpWord}
           /\ call.cmp # 0 => call.cmp = IF d > 0 THEN d ELSE CmpWord + d
           /\ call.ncmp = Stricmp(Cut(s, call.n), Cut(t, call.n))
           /\ call.chr = IF Places(s, 97) = {} THEN 0 ELSE Min(Places(s, 97))
           /\ call.rchr = IF Places(s, 97) = {} THEN 0 ELSE Max(Places(s, 97))
           /\ call.cat = s \o t \o <<0>>
  /\ \A c \in 0..255 : ToLower(ToUpper(c)) = ToLower(c) <=> c \notin {223, 255}

\* Tag walks and string routines do what they say for every list and string of the
\* instance (tags.c:7-147, cstr.c:62-182).
DataExact == TagsExact /\ StringsExact
=============================================================================
