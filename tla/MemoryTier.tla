----------------------------- MODULE MemoryTier -----------------------------
(***************************************************************************)
(* TierState (simulator/tiers.py), the memory that SRAMTier and DRAMTier   *)
(* inherit, and runner.py's _make_room, its only admission control.  A     *)
(* tier is a value: the operators return the tier a call leaves behind.    *)
(*                                                                         *)
(*   resident   the keys of the dict _resident                             *)
(*   order      the deque _resident_order: add() always appends, so an id  *)
(*              can be in it twice, and an id whose object has left stays  *)
(*   bytes      _resident_bytes, charged by add() whether or not the       *)
(*              object was there, and credited once per eviction           *)
(***************************************************************************)
EXTENDS Integers, Sequences, SequencesExt

CONSTANTS
    Objects,
    Bytes       \* MemoryObject.size_bytes: the workloads give every access
                \* of an object the same size

ASSUME BytesAssumption == Bytes \in [Objects -> Nat \ {0}]

Tier == [resident : SUBSET Objects, order : Seq(Objects), bytes : Nat]

EmptyTier == [resident |-> {}, order |-> <<>>, bytes |-> 0]

\* The bytes of a set of objects.
Total(S) == SumFunctionOnSet(Bytes, S)

\* A bug the runs must catch: an id found in the order is taken for resident,
\* and not charged for.
AddUncharged(tier, o) ==
    [resident |-> tier.resident \union {o},
     order    |-> Append(tier.order, o),
     bytes    |-> tier.bytes + (IF o \in Range(tier.order) THEN 0 ELSE Bytes[o])]

Add(tier, o) ==
    [resident |-> tier.resident \union {o},
     order    |-> Append(tier.order, o),
     bytes    |-> tier.bytes + Bytes[o]]

\* Bugs the runs must catch: an order that loses the touched object, or that
\* does not move it.
TouchForgets(tier, o) == [tier EXCEPT !.order = RemoveFirst(@, o)]
TouchNothing(tier, o) == tier

\* Every resident object has an entry in the order.
Ordered(tier) == tier.resident \subseteq Range(tier.order)

\* deque.remove() takes the first entry away, and raises when there is none.
Touch(tier, o) == [tier EXCEPT !.order = Append(RemoveFirst(@, o), o)]

-----------------------------------------------------------------------------
(* Eviction.  evict_one() pops ids until one is resident.  What any number *)
(* of calls evicts is therefore the resident part of a prefix of order.    *)

Popped(tier, n) ==
    {o \in tier.resident : \E i \in 1 .. n : tier.order[i] = o}

\* A bug the runs must catch: evicted bytes stay charged.
Uncredited(tier, S) == tier.bytes
Credited(tier, S) == tier.bytes - Total(S)

AfterPops(tier, n) ==
    [resident |-> tier.resident \ Popped(tier, n),
     order    |-> SubSeq(tier.order, n + 1, Len(tier.order)),
     bytes    |-> Credited(tier, Popped(tier, n))]

-----------------------------------------------------------------------------
(* _make_room: it computes once how much is missing, then adds up the sizes *)
(* of the objects evict_one() returns until that is enough, and never looks *)
(* at the tier's bytes again.                                               *)

\* needed; the tier has room already when it is not positive.
Shortfall(tier, size, capacity) == size - (capacity - tier.bytes)

\* A bug the runs must catch: entries are counted whose object has left, or
\* has been counted already.
FreedByEntry(tier, n) ==
    FoldLeft(LAMBDA sum, o : sum + Bytes[o], 0, SubSeq(tier.order, 1, n))

\* freed, when n ids have been popped.
Freed(tier, n) == Total(Popped(tier, n))

\* The numbers of pops after which the loop would end with True.
Enough(tier, size, capacity) ==
    {n \in 0 .. Len(tier.order) :
        Freed(tier, n) >= Shortfall(tier, size, capacity)}

\* It evicts no more than it needs; when everything is not enough it has
\* emptied the tier before it finds out.
PopCount(tier, size, capacity) ==
    LET enough == Enough(tier, size, capacity)
    IN  IF enough = {} THEN Len(tier.order) ELSE Min(enough)

MakeRoom(tier, size, capacity) ==
    AfterPops(tier, PopCount(tier, size, capacity))

Evicted(tier, size, capacity) ==
    Popped(tier, PopCount(tier, size, capacity))

\* The value it returns.
MakesRoom(tier, size, capacity) == Enough(tier, size, capacity) # {}

-----------------------------------------------------------------------------
(* The same loop as it is written: an id at a time.                        *)

\* evict_one's turn: an id is popped, and what it names is evicted if it is
\* resident still.
PopFirst(tier) ==
    LET o == Head(tier.order)
        popped == [tier EXCEPT !.order = Tail(@)]
    IN  IF o \in tier.resident
        THEN [popped EXCEPT !.resident = @ \ {o}, !.bytes = @ - Bytes[o]]
        ELSE popped

\* A turn in the room loop, for each id of the order: it does nothing once
\* freed has reached what is needed, and adds the size of what was evicted.
RoomTurn(state, needed) ==
    IF state.freed >= needed
    THEN state
    ELSE [tier  |-> PopFirst(state.tier),
          freed |-> state.freed
                      + IF Head(state.tier.order) \in state.tier.resident
                        THEN Bytes[Head(state.tier.order)] ELSE 0]

RoomLoop(tier, size, capacity) ==
    FoldLeft(LAMBDA state, o : RoomTurn(state, Shortfall(tier, size, capacity)),
             [tier |-> tier, freed |-> 0], tier.order)
=============================================================================
