--------------------------- MODULE MCFlashLayout ---------------------------
(* An instance of FlashLayout for TLC: the traces of four accesses, in the *)
(* order of their steps, of two objects and of an event without one.       *)
EXTENDS FlashLayout

CONSTANTS o1, o2

\* The second object is the bigger one; its size changes at the last event.
Size(o, n) == IF o = o1 THEN 100 ELSE IF n = 4 THEN 300 ELSE 512

Ascending == {k \in [1 .. 4 -> 1 .. 4] : k[1] = 1 /\ \A n \in 1 .. 3 : k[n + 1] \in k[n] .. k[n] + 1}

Traces4 ==
    {[n \in 1 .. 4 |-> [object |-> o[n], layer |-> l[n], key |-> k[n], size |-> Size(o[n], n)]] :
     o \in [1 .. 4 -> Objects \cup {None}], l \in [1 .. 4 -> {0, 1}], k \in Ascending}

\* o1 and o2 are neighbouring blocks of a cache.
Blocks == [o \in Objects \cup {None} |-> IF o = o1 THEN 0 ELSE IF o = o2 THEN 1 ELSE NoBlock]

\* Lists of two bundles with offsets in any order, and the empty one.
Files2 ==
    {<<>>} \cup
    {<<[objects |-> {o1}, offset |-> a, size |-> 512], [objects |-> {o2}, offset |-> b, size |-> 100]>> :
     a, b \in {0, 512, 2048}}
============================================================================
