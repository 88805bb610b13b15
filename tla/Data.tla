-------------------------------- MODULE Data --------------------------------
(***************************************************************************)
(* Tag lists (lib.util/tags.c) and strings (lib.util/cstr.c).  A set of    *)
(* tag lists is a function from pointers to arrays of items; a string a    *)
(* sequence of characters, without the zero behind it.                     *)
(***************************************************************************)
EXTENDS Integers, Sequences, FiniteSets

LOCAL INSTANCE SequencesExt
LOCAL INSTANCE Functions

\* Tags: End, Ignore, More and Skip control the walk.  A pointer is <<array, index>>.
End == 0
Ignore == 1
More == 2
Skip == 3
NullPtr == <<0, 0>>
Item(lists, p) == lists[p[1]][p[2]]
Step(p, n) == <<p[1], p[2] + n>>

\* NextTagItem: the item, and where the caller's pointer is left.
RECURSIVE NextTagItem(_, _)
NextTagItem(lists, p) ==
  IF p = NullPtr THEN [item |-> NullPtr, next |-> NullPtr]
  ELSE LET t == Item(lists, p)
       IN  IF t.tag = More THEN NextTagItem(lists, t.data)
           ELSE IF t.tag = Ignore THEN NextTagItem(lists, Step(p, 1))
           ELSE IF t.tag = End THEN [item |-> NullPtr, next |-> NullPtr]
           ELSE IF t.tag = Skip THEN NextTagItem(lists, Step(p, t.data + 1))
           ELSE [item |-> p, next |-> Step(p, 1)]

\* The items a walk meets.
RECURSIVE Walk(_, _)
Walk(lists, p) ==
  LET r == NextTagItem(lists, p)
  IN  IF r.item = NullPtr THEN <<>> ELSE <<r.item>> \o Walk(lists, r.next)

RECURSIVE FindTagItem(_, _, _)
FindTagItem(lists, tag, p) ==
  LET r == NextTagItem(lists, p)
  IN  IF r.item = NullPtr \/ Item(lists, r.item).tag = tag THEN r.item
      ELSE FindTagItem(lists, tag, r.next)

GetTagData(lists, tag, default, p) ==
  LET i == FindTagItem(lists, tag, p) IN IF i = NullPtr THEN default ELSE Item(lists, i).data

\* Flags are sets of bits; map gives each tag its bits.
PackBoolTags(lists, flags, p, map) ==
  FoldLeft(LAMBDA f, i : LET found == FindTagItem(lists, Item(lists, i).tag, map)
                         IN  IF found = NullPtr THEN f
                             ELSE IF Item(lists, i).data = 0 THEN f \ Item(lists, found).data
                             ELSE f \cup Item(lists, found).data,
           flags, Walk(lists, p))

\* RefreshTagItemClones writes the items and no TAG_DONE behind them.
RefreshTagItemClones(lists, clone, p) ==
  LET w == Walk(lists, p)
      c == lists[clone]
  IN  IF p = NullPtr THEN [lists EXCEPT ![clone][1].tag = End]
      ELSE [lists EXCEPT ![clone] = [i \in 1..Len(c) |-> IF i <= Len(w) THEN Item(lists, w[i]) ELSE c[i]]]

\* CloneTagItems: AllocateTagItems clears the array it gets, which is one item longer; if
\* it gets none, the result is NULL and nothing is written.
CloneTagItems(lists, clone, p, allocated) ==
  LET n == 1 + (IF p = NullPtr THEN 0 ELSE Len(Walk(lists, p)))
      cleared == [i \in 1..n |-> [tag |-> End, data |-> 0]]
  IN  IF allocated
      THEN [lists |-> RefreshTagItemClones([lists EXCEPT ![clone] = cleared], clone, p),
            list |-> <<clone, 1>>]
      ELSE [lists |-> lists, list |-> NullPtr]

TagInArray(tag, array) == tag \in Range(array)

\* Seeded fault: an item that is dropped ends the list.
Bug_FilterEndsList(lists, p, array, logic) ==
  FoldLeft(LAMBDA r, i : IF TagInArray(Item(lists, i).tag, array) = (logic = "and")
                         THEN [r EXCEPT !.valid = @ + 1]
                         ELSE [r EXCEPT !.lists[i[1]][i[2]].tag = End],
           [valid |-> 0, lists |-> lists], Walk(lists, p))

\* FilterTagItems turns the items it drops into TAG_IGNORE and counts the others.
FilterTagItems(lists, p, array, logic) ==
  FoldLeft(LAMBDA r, i : IF TagInArray(Item(lists, i).tag, array) = (logic = "and")
                         THEN [r EXCEPT !.valid = @ + 1]
                         ELSE [r EXCEPT !.lists[i[1]][i[2]].tag = Ignore],
           [valid |-> 0, lists |-> lists], Walk(lists, p))
----------------------------------------------------------------------------
\* The class table: Latin-1, with its 0xDF a lower-case letter that has no upper one.
IsUpper(c) == c \in (65..90) \cup (192..214) \cup (216..222)
IsLower(c) == c \in (97..122) \cup (223..246) \cup (248..255)
ToUpper(c) == IF IsLower(c) THEN c - 32 ELSE c
ToLower(c) == IF IsUpper(c) THEN c + 32 ELSE c

Char(s, i) == IF i <= Len(s) THEN s[i] ELSE 0
Strnlen(s, n) == IF n < Len(s) THEN n ELSE Len(s)

\* Stricmp, Strnicmp and Strncasecmp compare from i on, at most n characters.  They return
\* the difference of two characters as a UINT32, so a difference below zero wraps; here the
\* word has 16 bits, which is as good, since characters have eight.
CmpWord == 2^16

RECURSIVE Compare(_, _, _, _)
Compare(s, t, i, n) ==
  LET d == ToLower(Char(s, i)) - ToLower(Char(t, i))
  IN  IF n = 0 THEN 0
      ELSE IF d # 0 \/ Char(t, i) = 0 \/ n = 1 THEN d % CmpWord
      ELSE Compare(s, t, i + 1, n - 1)

Stricmp(s, t) == Compare(s, t, 1, -1)
Strnicmp(s, t, n) == Compare(s, t, 1, n)

\* Places of a character, the zero at the end included; 0 where there is none.
RECURSIVE StrchrFrom(_, _, _)
StrchrFrom(s, c, i) ==
  IF Char(s, i) = c THEN i ELSE IF Char(s, i) = 0 THEN 0 ELSE StrchrFrom(s, c, i + 1)
Strchr(s, c) == StrchrFrom(s, c, 1)

RECURSIVE LastPlace(_, _, _)
LastPlace(s, c, last) ==
  LET k == StrchrFrom(s, c, last + 1) IN IF k = 0 THEN last ELSE LastPlace(s, c, k)
Strrchr(s, c) == IF c = 0 THEN Strchr(s, 0) ELSE LastPlace(s, c, 0)

\* Strcpy and Strcat write over the characters of a buffer, the zero included.
Strcpy(buf, at, s) == [i \in 1..Len(buf) |-> IF i \in at..at + Len(s) THEN Char(s, i - at + 1) ELSE buf[i]]
Strcat(buf, s) == Strcpy(buf, Strchr(buf, 0), s)
=============================================================================
