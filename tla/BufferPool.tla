----------------------------- MODULE BufferPool -----------------------------
(***************************************************************************)
(* DRAMBufferPool (runtime/buffer_pool.py) and the callers that hold the   *)
(* slots it returns.  The pool has no lock: it is used from one thread, so *)
(* a step is one whole call.  allocate() and find_by_object() hand out the *)
(* BufferSlot itself, and the mark_* methods are called on that handle, at *)
(* any later time; nothing takes a handle back when its slot is released,  *)
(* evicted or assigned to another object.  evict_one() even clears the     *)
(* object id of the slot it returns, so the caller cannot tell which of    *)
(* its handles has gone stale.                                             *)
(*                                                                         *)
(* "checked" says which callers a behaviour has.  FALSE: any sequence of   *)
(* calls.  TRUE: a caller that looks an object up before it allocates it   *)
(* (as TraceReplayer.replay does), looks it up again before it uses a      *)
(* handle, and calls the mark_* methods in the order of the life cycle.    *)
(***************************************************************************)
EXTENDS SlotTable

CONSTANT Callers     \* the values of "checked" to consider

ASSUME CallersAssumption == Callers \subseteq BOOLEAN

VARIABLES
    slots,    \* the pool's list of slots
    handle,   \* the slot a caller last got back for each object
    arrived,  \* ghost: the objects some caller has marked ready since it
              \* last allocated them
    done,     \* ghost: the objects some caller has since consumed or given
              \* up as evictable
    checked   \* ghost: whether the callers look before they act

vars == <<slots, handle, arrived, done, checked>>

Init ==
    /\ slots = [i \in Slots |-> NewSlot]
    /\ handle = [o \in Objects |-> None]
    /\ arrived = {}
    /\ done = {}
    /\ checked \in Callers

\* The handle kept for o is what find_by_object(o) would return now.
Current(o) == handle[o] # None /\ First(handle[o], Holding(slots, o))

\* o's handle may be used on a slot that is in one of the given states.
MayUse(o, states) ==
    /\ handle[o] # None
    /\ checked => Current(o) /\ slots[handle[o]].state \in states

Allocate(o, d) ==
    /\ checked => Holding(slots, o) = {}
    /\ \E i \in Slots :
          /\ First(i, FreeSlots(slots))
          /\ slots' = [slots EXCEPT ![i] = Assigned(@, o, d)]
          /\ handle' = [handle EXCEPT ![o] = i]
    /\ arrived' = arrived \ {o}
    /\ done' = done \ {o}

AllocateFails(o) ==
    /\ checked => Holding(slots, o) = {}
    /\ FreeSlots(slots) = {}
    /\ handle' = [handle EXCEPT ![o] = None]
    /\ UNCHANGED <<slots, arrived, done>>

FindByObject(o) ==
    /\ \/ \E i \in Slots : /\ First(i, Holding(slots, o))
                           /\ handle' = [handle EXCEPT ![o] = i]
       \/ /\ Holding(slots, o) = {}
          /\ handle' = [handle EXCEPT ![o] = None]
    /\ UNCHANGED <<slots, arrived, done>>

MarkReady(o, compressed) ==
    /\ MayUse(o, {"IN_FLIGHT"})
    /\ slots' = [slots EXCEPT ![handle[o]] = Ready(@, compressed)]
    /\ arrived' = arrived \cup {o}
    /\ UNCHANGED <<handle, done>>

MarkConsumed(o) ==
    /\ MayUse(o, {"READY_COMPRESSED", "READY_UNCOMPRESSED"})
    /\ slots' = [slots EXCEPT ![handle[o]] = Consumed(@)]
    /\ done' = done \cup {o}
    /\ UNCHANGED <<handle, arrived>>

MarkEvictable(o) ==
    /\ MayUse(o, {"READY_COMPRESSED", "READY_UNCOMPRESSED", "CONSUMED"})
    /\ slots' = [slots EXCEPT ![handle[o]] = Evictable(@)]
    /\ done' = done \cup {o}
    /\ UNCHANGED <<handle, arrived>>

EvictOne ==
    /\ \E i \in Slots : /\ First(i, Victims(slots))
                        /\ slots' = [slots EXCEPT ![i] = Reset(@)]
    /\ UNCHANGED <<handle, arrived, done>>

Release(o) ==
    /\ \E i \in Slots : /\ First(i, Holding(slots, o))
                        /\ slots' = [slots EXCEPT ![i] = Reset(@)]
    /\ UNCHANGED <<handle, arrived, done>>

Call ==
    \/ EvictOne
    \/ \E o \in Objects :
          \/ \E d \in Deadlines \cup {None} : Allocate(o, d)
          \/ AllocateFails(o)
          \/ FindByObject(o)
          \/ \E compressed \in BOOLEAN : MarkReady(o, compressed)
          \/ MarkConsumed(o)
          \/ MarkEvictable(o)
          \/ Release(o)

Next == Call /\ UNCHANGED checked

Spec == Init /\ [][Next]_vars

----------------------------------------------------------------------------
(* Type invariant: the slots, handles and the ghosts have their types.     *)
TypeOK ==
    /\ slots \in [Slots -> BufferSlot]
    /\ handle \in [Objects -> Slots \cup {None}]
    /\ arrived \in SUBSET Objects
    /\ done \in SUBSET Objects
    /\ checked \in BOOLEAN

(* A slot never passes from one object to another in one call: it is freed *)
(* first, by release or by eviction, whatever callers do.                  *)
ReuseGoesThroughFree ==
    [][\A i \in Occupied(slots) : slots'[i].object = slots[i].object
                                  \/ slots'[i].state = "FREE"]_vars

(* What evict_one may take from callers that look before they act, told by *)
(* what they reported and not by what it looks at.  It frees the data of   *)
(* an object that was consumed or given up since it was allocated; only    *)
(* when nothing in the pool is such, data that arrived uncompressed and is *)
(* still unread; never a slot whose read is in flight.                     *)
EvictionOrder ==
    [][checked /\ EvictOne =>
          \A i \in Occupied(slots) : slots'[i].state = "FREE" =>
             \/ slots[i].object \in done
             \/ /\ slots[i].object \in arrived
                /\ slots[i].state # "READY_COMPRESSED"
                /\ \A j \in Occupied(slots) : slots[j].object \notin done]_vars

(* Of a caller that looks before it allocates: no object has two slots, so *)
(* find_by_object and release, which stop at the first, see all there is.  *)
UniqueResidency ==
    checked => \A i, j \in Occupied(slots) : slots[i].object = slots[j].object => i = j

(* Of a checked caller: every occupied slot names an object, so some call  *)
(* of release can free it; the pool strands no slot.                       *)
NoStrandedSlot == checked => \A i \in Occupied(slots) : slots[i].object \in Objects

(* Of a checked caller: a slot past IN_FLIGHT belongs to an object whose   *)
(* data was reported ready since the slot was assigned; a handle that went *)
(* stale never makes another object look as if it had arrived.             *)
ReadyMeansMarked ==
    checked => \A i \in Occupied(slots) :
        slots[i].state # "IN_FLIGHT" => slots[i].object \in arrived

(* What tests/test_buffer_pool.py expects of used_bytes: a slot in use     *)
(* counts for slot_size_bytes.                                             *)
UsedBytesTracksOccupancy ==
    UsedBytes(slots) = SumFunctionOnSet([i \in Slots |-> SlotSize], Occupied(slots))
============================================================================
