----------------------------- MODULE MCSupport -----------------------------
(***************************************************************************)
(* The support routines, with arguments that reach every branch of them,   *)
(* and the interrupt servers: an interrupt comes between no two steps of a *)
(* routine that anybody could tell, so each is explored by itself.  Words  *)
(* have 7 bits, so that every pair of words is divided.                    *)
(***************************************************************************)
EXTENDS Support, IntServer

CONSTANTS s1, s2, s3, tick

Pris == (s1 :> 0) @@ (s2 :> -10) @@ (s3 :> 5) @@ (tick :> -10)
        @@ [s \in {"_IRQServer", "exc_undef", "prefetch_abort", "data_abort", "swi_exception"} |-> -10]

SomeTimes == [secs : {0, 1, 2, 63, 64, 100, 127}, micro : {0, 1, 49, 50, 75}]
SomeLongs == {h * 128 + l : h \in {0, 1, 7, 63, 64, 127}, l \in {0, 1, 64, 127}}
SomeNumbers == {0, 8, 10, 99, 40000, 65536, 100000, 100203, 1234567890, 2147483647, -1, -40000,
                -100001, -2147483647}
SomePrinted == (0..17) \cup {n \in SomeNumbers : n >= 0} \cup {100 * n + 99 : n \in 0..40} \cup {99999, 65535, 1024}
SomeWidths == {-6, -1, 0, 12}
SomePrecs == {-2, -1, 1, 7}
SomeFlags == {{}, {"LEFT"}, {"SPECIAL", "ZEROPAD"}, {"SPACE", "ZEROPAD"}, {"PLUS", "SPACE"},
              {"LEFT", "ZEROPAD"}, {"SPECIAL", "LEFT"}}
SomeTexts == UNION {[1..n -> {48, 57, 97, 120, 10}] : n \in 0..4}
TagKinds == << [tag |-> End, data |-> 0], [tag |-> Ignore, data |-> 0], [tag |-> More, data |-> <<2, 1>>],
               [tag |-> More, data |-> NullPtr], [tag |-> Skip, data |-> 0], [tag |-> Skip, data |-> 1],
               [tag |-> 16, data |-> 0], [tag |-> 16, data |-> 5], [tag |-> 17, data |-> 7] >>
SomeArrays == {a \o <<1, 1>> : a \in [1..3 -> 1..9]}
SecondArrays == {<<1>>, <<7, 1>>, <<9, 2, 8, 1>>}
SomeArena == 0..159
SomeSizes == (0..9) \cup (29..37) \cup (60..70)
SomeStrings == UNION {[1..n -> {65, 97, 98, 223}] : n \in 0..2}

VARIABLE calls   \* "support" or "interrupts"

MCInit == SupInit /\ IntInit /\ calls \in {"support", "interrupts"}

MCNext ==
  /\ UNCHANGED calls
  /\ \/ calls = "support" /\ SupNext /\ UNCHANGED intVars
     \/ calls = "interrupts" /\ IntNext /\ UNCHANGED call

MCSpec == MCInit /\ [][MCNext]_<<call, intVars, calls>>
=============================================================================
