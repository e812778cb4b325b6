-------------------------- MODULE BufferPoolProofs --------------------------
(* Proofs about BufferPool, for any number of slots, objects and deadlines. *)
EXTENDS BufferPool, TLAPS

USE DEF Slots

(* Each BufferSlot method returns a slot of the right type.                *)
LEMMA MarksTyped ==
    ASSUME NEW slot \in BufferSlot
    PROVE  /\ \A compressed \in BOOLEAN : Ready(slot, compressed) \in BufferSlot
           /\ Consumed(slot) \in BufferSlot
           /\ Evictable(slot) \in BufferSlot
           /\ Reset(slot) \in BufferSlot
  BY DEF BufferSlot, BufferState, Ready, Consumed, Evictable, Reset

(* assign() gives a slot of the right type.                                *)
LEMMA AssignedTyped ==
    ASSUME NEW slot \in BufferSlot, NEW o \in Objects, NEW d \in Deadlines \cup {None}
    PROVE  Assigned(slot, o, d) \in BufferSlot
  BY DEF BufferSlot, BufferState, Assigned

(* The type invariant is inductive: whatever calls are made, the pool's    *)
(* list of slots, the handles and the ghost keep their types.              *)
THEOREM TypeCorrect == Spec => []TypeOK
<1>1. Init => TypeOK
  BY CallersAssumption DEF Init, TypeOK, NewSlot, BufferSlot, BufferState
<1>2. TypeOK /\ [Next]_vars => TypeOK'
  <2> SUFFICES ASSUME TypeOK, [Next]_vars PROVE TypeOK'
    OBVIOUS
  <2>0. checked' \in BOOLEAN
    BY DEF Next, vars, TypeOK
  <2> USE <2>0
  <2>1. CASE EvictOne
    BY <2>1, MarksTyped DEF EvictOne, TypeOK
  <2>2. ASSUME NEW o \in Objects, NEW d \in Deadlines \cup {None}, Allocate(o, d)
        PROVE TypeOK'
    BY <2>2, AssignedTyped DEF Allocate, TypeOK
  <2>3. ASSUME NEW o \in Objects, AllocateFails(o) PROVE TypeOK'
    BY <2>3 DEF AllocateFails, TypeOK
  <2>4. ASSUME NEW o \in Objects, FindByObject(o) PROVE TypeOK'
    BY <2>4 DEF FindByObject, TypeOK
  <2>5. ASSUME NEW o \in Objects, NEW compressed \in BOOLEAN, MarkReady(o, compressed)
        PROVE TypeOK'
    BY <2>5, MarksTyped DEF MarkReady, MayUse, TypeOK
  <2>6. ASSUME NEW o \in Objects, MarkConsumed(o) PROVE TypeOK'
    BY <2>6, MarksTyped DEF MarkConsumed, MayUse, TypeOK
  <2>7. ASSUME NEW o \in Objects, MarkEvictable(o) PROVE TypeOK'
    BY <2>7, MarksTyped DEF MarkEvictable, MayUse, TypeOK
  <2>8. ASSUME NEW o \in Objects, Release(o) PROVE TypeOK'
    BY <2>8, MarksTyped DEF Release, TypeOK
  <2>9. CASE UNCHANGED vars
    BY <2>9 DEF vars, TypeOK
  <2> QED
    BY <2>1, <2>2, <2>3, <2>4, <2>5, <2>6, <2>7, <2>8, <2>9 DEF Next, Call
<1> QED
  BY <1>1, <1>2, PTL DEF Spec

(* Whatever callers do, no call hands an occupied slot to another object:  *)
(* only a FREE slot is assigned.                                           *)
THEOREM SlotReuse == Spec => ReuseGoesThroughFree
<1> DEFINE Kept == \A i \in Occupied(slots) :
                      slots'[i].object = slots[i].object \/ slots'[i].state = "FREE"
<1>1. TypeOK /\ [Next]_vars => [Kept]_vars
  <2> SUFFICES ASSUME TypeOK, Next, NEW i \in Occupied(slots)
               PROVE slots'[i].object = slots[i].object \/ slots'[i].state = "FREE"
    OBVIOUS
  <2> USE DEF TypeOK, Occupied, BufferSlot
  <2>1. CASE EvictOne
    BY <2>1 DEF EvictOne, Reset
  <2>2. ASSUME NEW o \in Objects, NEW d \in Deadlines \cup {None}, Allocate(o, d)
        PROVE slots'[i].object = slots[i].object
    BY <2>2 DEF Allocate, Assigned, FreeSlots, First
  <2>3. ASSUME NEW o \in Objects, NEW compressed \in BOOLEAN, MarkReady(o, compressed)
        PROVE slots'[i].object = slots[i].object
    BY <2>3 DEF MarkReady, Ready
  <2>4. ASSUME NEW o \in Objects, MarkConsumed(o)
        PROVE slots'[i].object = slots[i].object
    BY <2>4 DEF MarkConsumed, Consumed
  <2>7. ASSUME NEW o \in Objects, MarkEvictable(o)
        PROVE slots'[i].object = slots[i].object
    BY <2>7 DEF MarkEvictable, Evictable
  <2>5. ASSUME NEW o \in Objects, Release(o)
        PROVE slots'[i].object = slots[i].object \/ slots'[i].state = "FREE"
    BY <2>5 DEF Release, Reset
  <2>6. ASSUME NEW o \in Objects, AllocateFails(o) \/ FindByObject(o)
        PROVE slots'[i].object = slots[i].object
    BY <2>6 DEF AllocateFails, FindByObject
  <2> QED
    BY <2>1, <2>2, <2>3, <2>4, <2>5, <2>6, <2>7 DEF Next, Call
<1> QED
  BY <1>1, TypeCorrect, PTL DEF Spec, ReuseGoesThroughFree

(* With checked callers, every occupied slot names an object, no two name *)
(* the same one, and a slot past IN_FLIGHT belongs to an object that was   *)
(* reported ready since it was assigned.                                   *)
THEOREM CheckedCallersOwnTheirSlots ==
    Spec => [](NoStrandedSlot /\ UniqueResidency /\ ReadyMeansMarked)
<1> DEFINE Owned == NoStrandedSlot /\ UniqueResidency /\ ReadyMeansMarked
<1> USE DEF NoStrandedSlot, UniqueResidency, ReadyMeansMarked, Occupied
<1>1. Init => Owned
  BY DEF Init, NewSlot
<1>2. TypeOK /\ Owned /\ [Next]_vars => Owned'
  <2> SUFFICES ASSUME TypeOK, Owned, [Next]_vars PROVE Owned'
    OBVIOUS
  <2> USE DEF TypeOK, BufferSlot
  <2>0. checked' = checked
    BY DEF Next, vars
  <2> SUFFICES ASSUME checked PROVE Owned'
    BY <2>0
  <2>1. CASE EvictOne
    BY <2>1 DEF EvictOne, Reset
  <2>2. ASSUME NEW o \in Objects, NEW d \in Deadlines \cup {None}, Allocate(o, d)
        PROVE Owned'
    BY <2>2 DEF Allocate, Assigned, Holding, FreeSlots, First
  <2>3. ASSUME NEW o \in Objects, AllocateFails(o) PROVE Owned'
    BY <2>3 DEF AllocateFails
  <2>4. ASSUME NEW o \in Objects, FindByObject(o) PROVE Owned'
    BY <2>4 DEF FindByObject
  <2>5. ASSUME NEW o \in Objects, NEW compressed \in BOOLEAN, MarkReady(o, compressed)
        PROVE Owned'
    BY <2>5 DEF MarkReady, MayUse, Current, Holding, First, Ready
  <2>6. ASSUME NEW o \in Objects, MarkConsumed(o) PROVE Owned'
    BY <2>6 DEF MarkConsumed, MayUse, Current, Holding, First, Consumed
  <2>7. ASSUME NEW o \in Objects, MarkEvictable(o) PROVE Owned'
    BY <2>7 DEF MarkEvictable, MayUse, Current, Holding, First, Evictable
  <2>8. ASSUME NEW o \in Objects, Release(o) PROVE Owned'
    BY <2>8 DEF Release, Reset
  <2>9. CASE UNCHANGED vars
    BY <2>9 DEF vars
  <2> QED
    BY <2>1, <2>2, <2>3, <2>4, <2>5, <2>6, <2>7, <2>8, <2>9 DEF Next, Call
<1> QED
  BY <1>1, <1>2, TypeCorrect, PTL DEF Spec

(* By itself: whatever shows a checked caller READY has been marked ready. *)
COROLLARY ReadyWasMarked == Spec => []ReadyMeansMarked
<1>1. NoStrandedSlot /\ UniqueResidency /\ ReadyMeansMarked => ReadyMeansMarked
  OBVIOUS
<1> QED
  BY <1>1, CheckedCallersOwnTheirSlots, PTL

(* Of a checked caller: the slots evict_one's first loop looks for are     *)
(* those of the objects that are done.                                     *)
SpentIsDone ==
    checked => \A i \in Occupied(slots) :
        slots[i].state \in {"EVICTABLE", "CONSUMED"} <=> slots[i].object \in done

(* With checked callers a slot's state tells whether its object is done:   *)
(* the marks reach the slot of their object, and of no other.              *)
LEMMA StatesTellWhoIsDone == Spec => []SpentIsDone
<1> DEFINE Owned == NoStrandedSlot /\ UniqueResidency /\ ReadyMeansMarked
<1> USE DEF NoStrandedSlot, UniqueResidency, Occupied, SpentIsDone
<1>1. Init => SpentIsDone
  BY DEF Init, NewSlot
<1>2. TypeOK /\ Owned /\ SpentIsDone /\ [Next]_vars => SpentIsDone'
  <2> SUFFICES ASSUME TypeOK, Owned, SpentIsDone, [Next]_vars PROVE SpentIsDone'
    OBVIOUS
  <2> USE DEF TypeOK, BufferSlot
  <2>0. checked' = checked
    BY DEF Next, vars
  <2> SUFFICES ASSUME checked PROVE SpentIsDone'
    BY <2>0
  <2>1. CASE EvictOne
    BY <2>1 DEF EvictOne, Reset
  <2>2. ASSUME NEW o \in Objects, NEW d \in Deadlines \cup {None}, Allocate(o, d)
        PROVE SpentIsDone'
    BY <2>2 DEF Allocate, Assigned, Holding, FreeSlots, First
  <2>3. ASSUME NEW o \in Objects, AllocateFails(o) \/ FindByObject(o)
        PROVE SpentIsDone'
    BY <2>3 DEF AllocateFails, FindByObject
  <2>4. ASSUME NEW o \in Objects, NEW compressed \in BOOLEAN, MarkReady(o, compressed)
        PROVE SpentIsDone'
    BY <2>4 DEF MarkReady, MayUse, Current, Holding, First, Ready
  <2>5. ASSUME NEW o \in Objects, MarkConsumed(o) PROVE SpentIsDone'
    BY <2>5 DEF MarkConsumed, MayUse, Current, Holding, First, Consumed
  <2>6. ASSUME NEW o \in Objects, MarkEvictable(o) PROVE SpentIsDone'
    BY <2>6 DEF MarkEvictable, MayUse, Current, Holding, First, Evictable
  <2>7. ASSUME NEW o \in Objects, Release(o) PROVE SpentIsDone'
    BY <2>7 DEF Release, Reset
  <2>8. CASE UNCHANGED vars
    BY <2>8 DEF vars
  <2> QED
    BY <2>1, <2>2, <2>3, <2>4, <2>5, <2>6, <2>7, <2>8 DEF Next, Call
<1> QED
  BY <1>1, <1>2, TypeCorrect, CheckedCallersOwnTheirSlots, PTL DEF Spec

(* Of checked callers, evict_one takes what was consumed or given up, else *)
(* unread data that arrived, and never a slot whose read is in flight.     *)
THEOREM EvictionSparesReads == Spec => EvictionOrder
<1> DEFINE InOrder ==
             checked /\ EvictOne =>
                \A i \in Occupied(slots) : slots'[i].state = "FREE" =>
                   \/ slots[i].object \in done
                   \/ /\ slots[i].object \in arrived
                      /\ slots[i].state # "READY_COMPRESSED"
                      /\ \A j \in Occupied(slots) : slots[j].object \notin done
<1>1. TypeOK /\ ReadyMeansMarked /\ SpentIsDone => InOrder
  <2> SUFFICES ASSUME TypeOK, ReadyMeansMarked, SpentIsDone, checked, EvictOne,
                      NEW i \in Occupied(slots), slots'[i].state = "FREE",
                      slots[i].object \notin done
               PROVE /\ slots[i].object \in arrived
                     /\ slots[i].state # "READY_COMPRESSED"
                     /\ \A j \in Occupied(slots) : slots[j].object \notin done
    OBVIOUS
  <2> USE DEF TypeOK, BufferSlot, Occupied
  <2>1. i \in Victims(slots)
    BY DEF EvictOne, First, Victims, Spent, Unread
  <2>2. i \notin Spent(slots)
    BY DEF Spent, SpentIsDone
  <2>3. Spent(slots) = {} /\ i \in Unread(slots)
    BY <2>1, <2>2 DEF Victims
  <2>4. \A j \in Occupied(slots) : slots[j].object \notin done
    BY <2>3 DEF Spent, SpentIsDone
  <2>5. slots[i].object \in arrived /\ slots[i].state # "READY_COMPRESSED"
    BY <2>3 DEF Unread, ReadyMeansMarked
  <2> QED
    BY <2>4, <2>5
<1> QED
  BY <1>1, TypeCorrect, ReadyWasMarked, StatesTellWhoIsDone, PTL DEF EvictionOrder
============================================================================
