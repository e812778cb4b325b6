----------------------------- MODULE SlotTable -----------------------------
(***************************************************************************)
(* The slots of runtime/buffer_pool.py: what one BufferSlot holds, what    *)
(* each of its methods does to it, and the scans DRAMBufferPool makes over *)
(* its list of slots.  A table is a function from Slots to slot records;   *)
(* the modules that keep one as a variable extend this module.             *)
(*                                                                         *)
(* The scans return the first matching slot of the list.  They are given   *)
(* here as the SET of matching slots and the relation First, so that a     *)
(* scan is "\E i : First(i, Matching(s)) /\ ..." when it finds a slot and  *)
(* "Matching(s) = {}" when it returns None.                                *)
(***************************************************************************)
EXTENDS Naturals, Functions

CONSTANTS
    NumSlots,    \* total_bytes // slot_size_bytes
    SlotSize,    \* slot_size_bytes
    Objects,     \* object ids
    Deadlines,   \* deadline steps a caller may pass
    None         \* Python's None

ASSUME NumSlotsAssumption == NumSlots \in Nat
ASSUME SlotSizeAssumption == SlotSize \in Nat \ {0}
ASSUME NoneAssumption == None \notin Objects /\ None \notin Deadlines

Slots == 0 .. NumSlots - 1

BufferState ==
    {"FREE", "IN_FLIGHT", "READY_COMPRESSED", "READY_UNCOMPRESSED",
     "CONSUMED", "EVICTABLE"}

BufferSlot ==
    [state    : BufferState,
     object   : Objects \cup {None},
     size     : {0, SlotSize},
     deadline : Deadlines \cup {None}]

NewSlot == [state |-> "FREE", object |-> None, size |-> SlotSize, deadline |-> None]

----------------------------------------------------------------------------
(* The methods of BufferSlot.  None of them looks at the state it leaves.  *)

\* Bugs the runs must catch: assign() with its arguments swapped, and one
\* that skips IN_FLIGHT.
AssignedSwapped(slot, o, d) ==
    [slot EXCEPT !.object = d, !.deadline = o, !.state = "IN_FLIGHT"]
AssignedReady(slot, o, d) ==
    [slot EXCEPT !.object = o, !.deadline = d, !.state = "READY_UNCOMPRESSED"]

Assigned(slot, o, d) ==
    [slot EXCEPT !.object = o, !.deadline = d, !.state = "IN_FLIGHT"]

Ready(slot, compressed) ==
    [slot EXCEPT !.state = IF compressed THEN "READY_COMPRESSED"
                                         ELSE "READY_UNCOMPRESSED"]

Consumed(slot) == [slot EXCEPT !.state = "CONSUMED", !.deadline = None]

Evictable(slot) == [slot EXCEPT !.state = "EVICTABLE"]

\* reset() zeroes the size, and no later assign() gives it back.
Reset(slot) ==
    [slot EXCEPT !.state = "FREE", !.object = None, !.size = 0, !.deadline = None]

----------------------------------------------------------------------------
(* The scans of DRAMBufferPool.                                            *)

First(i, S) == i \in S /\ \A j \in S : i <= j

\* Bugs the runs must catch: an is_free() that counts consumed slots, and a
\* find that overlooks slots whose read is in flight.
FreeSlotsOrConsumed(s) == {i \in Slots : s[i].state \in {"FREE", "CONSUMED"}}
HoldingArrived(s, o) ==
    {i \in Slots : s[i].state \notin {"FREE", "IN_FLIGHT"} /\ s[i].object = o}

FreeSlots(s) == {i \in Slots : s[i].state = "FREE"}

Occupied(s) == {i \in Slots : s[i].state # "FREE"}

Holding(s, o) == {i \in Occupied(s) : s[i].object = o}

Spent(s) == {i \in Slots : s[i].state \in {"EVICTABLE", "CONSUMED"}}

Unread(s) == {i \in Slots : s[i].state = "READY_UNCOMPRESSED"}

\* A bug the runs must catch: evict_one with its two loops swapped.
VictimsUnreadFirst(s) == IF Unread(s) # {} THEN Unread(s) ELSE Spent(s)

\* Only when nothing is spent does evict_one turn to slots not yet read;
\* a slot IN_FLIGHT or READY_COMPRESSED is never a victim.
Victims(s) == IF Spent(s) # {} THEN Spent(s) ELSE Unread(s)

\* used_bytes
UsedBytes(s) == SumFunctionOnSet([i \in Slots |-> s[i].size], Occupied(s))
============================================================================
