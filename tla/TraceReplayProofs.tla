------------------------- MODULE TraceReplayProofs -------------------------
(* Proofs about TraceReplay, for any traces, pool size, look-ahead and     *)
(* number of replays.                                                      *)
EXTENDS TraceReplay, DataLemmas, FiniteSetTheorems

\* The steps between a DRAM miss and the next event.
Missing == {"lookahead", "read_ahead", "demand", "read", "wait"}

Counts == [total : Nat, dram_hits : Nat, flash_reads : Nat, failures : Nat]

(* The types the proofs need.                                              *)
ReplayTypes ==
    /\ slots \in [Slots -> BufferSlot]
    /\ ordered \in Seq(Objects)
    /\ i \in Nat \ {0}
    /\ metrics \in Counts
    /\ pc \in {"idle", "event"} \cup Missing

(* A miss is handled inside the trace, and while it is, the object of the  *)
(* event has no slot.                                                      *)
StillMissing ==
    pc \in Missing =>
        /\ i <= Len(ordered)
        /\ ordered[i] \in Objects /\ Holding(slots, ordered[i]) = {}

ReplayInv == ReplayTypes /\ StillMissing /\ NoDuplicateResidency /\ EventsAccounted

(* What counting an event's end does to the metrics, for each of its ends. *)
LEMMA CountFailure ==
    ASSUME NEW m \in Counts
    PROVE  LET new == [m EXCEPT !.failures = m.failures + 1]
           IN  /\ new \in Counts
               /\ new.total = m.total
               /\ new.dram_hits = m.dram_hits
               /\ new.flash_reads = m.flash_reads
               /\ new.failures = m.failures + 1
  BY DEF Counts

(* A read counted is one more flash read and nothing else.                 *)
LEMMA CountRead ==
    ASSUME NEW m \in Counts
    PROVE  LET new == [m EXCEPT !.flash_reads = m.flash_reads + 1]
           IN  /\ new \in Counts
               /\ new.total = m.total
               /\ new.dram_hits = m.dram_hits
               /\ new.flash_reads = m.flash_reads + 1
               /\ new.failures = m.failures
  BY DEF Counts

(* An event counted as a miss is one more event and nothing else.          *)
LEMMA CountMiss ==
    ASSUME NEW m \in Counts
    PROVE  LET new == [m EXCEPT !.total = m.total + 1]
           IN  /\ new \in Counts
               /\ new.total = m.total + 1
               /\ new.dram_hits = m.dram_hits
               /\ new.flash_reads = m.flash_reads
               /\ new.failures = m.failures
  BY DEF Counts

(* An event counted as a hit is one more event and one more DRAM hit.      *)
LEMMA CountHit ==
    ASSUME NEW m \in Counts
    PROVE  LET new == [m EXCEPT !.total = m.total + 1, !.dram_hits = m.dram_hits + 1]
           IN  /\ new \in Counts
               /\ new.total = m.total + 1
               /\ new.dram_hits = m.dram_hits + 1
               /\ new.flash_reads = m.flash_reads
               /\ new.failures = m.failures
<1> DEFINE one == [m EXCEPT !.total = m.total + 1]
<1>1. /\ one \in Counts
      /\ one.total = m.total + 1
      /\ one.dram_hits = m.dram_hits
      /\ one.flash_reads = m.flash_reads
      /\ one.failures = m.failures
  BY CountMiss
<1>2. [m EXCEPT !.total = m.total + 1, !.dram_hits = m.dram_hits + 1]
        = [one EXCEPT !.dram_hits = one.dram_hits + 1]
  BY <1>1
<1> HIDE DEF one
<1>3. LET new == [one EXCEPT !.dram_hits = one.dram_hits + 1]
      IN  /\ new \in Counts
          /\ new.total = one.total
          /\ new.dram_hits = one.dram_hits + 1
          /\ new.flash_reads = one.flash_reads
          /\ new.failures = one.failures
  BY <1>1 DEF Counts
<1> QED
  BY <1>1, <1>2, <1>3

(* When the counters keep their types, the sum is one of integers.         *)
LEMMA CountsAreNat ==
    ASSUME ReplayTypes
    PROVE  /\ metrics \in Counts
           /\ metrics.total \in Nat /\ metrics.dram_hits \in Nat
           /\ metrics.flash_reads \in Nat /\ metrics.failures \in Nat
  BY DEF ReplayTypes, Counts

(* The inductive invariant holds in the initial states.                    *)
LEMMA InitReplay == Init => ReplayInv
  BY SlotSizeAssumption DEF Init, Counts, ReplayInv, ReplayTypes, StillMissing, Missing, NoMetrics,
     NoDuplicateResidency, EventsAccounted, Unfinished, Occupied, NewSlot, BufferSlot, BufferState

(* The steps of the loops and of the reader that touch neither the pool    *)
(* nor the metrics nor the position.                                       *)
LEMMA LoopSteps ==
    ASSUME ReplayInv,
           EndLookahead \/ SkipFuture \/ SubmitFuture \/ FutureRead
             \/ SubmitDemand \/ DemandRead \/ ReadRaises \/ UNCHANGED vars
    PROVE  ReplayInv'
<1>1. UNCHANGED <<slots, ordered, i, metrics>>
  BY DEF EndLookahead, SkipFuture, SubmitFuture, FutureRead, SubmitDemand, DemandRead,
     ReadRaises, vars, trace
<1>2. \/ pc \in Missing /\ pc' \in Missing \cup {"idle"}
      \/ pc' = pc
  BY DEF EndLookahead, SkipFuture, SubmitFuture, FutureRead, SubmitDemand, DemandRead,
     ReadRaises, vars, Missing
<1> QED
  BY <1>1, <1>2 DEF ReplayInv, ReplayTypes, StillMissing, Missing, NoDuplicateResidency,
     EventsAccounted, Unfinished, Holding, Occupied

(* Whatever is stored, the slot gets the object of the event, which had    *)
(* none, or the pool is full and nothing changes.                          *)
LEMMA StoreStep ==
    ASSUME ReplayTypes, NoDuplicateResidency,
           NEW completion, completion.object \in Objects,
           Holding(slots, completion.object) = {},
           Store(completion)
    PROVE  slots' \in [Slots -> BufferSlot] /\ NoDuplicateResidency'
<1> USE DEF ReplayTypes, NoDuplicateResidency
<1>1. CASE UNCHANGED slots
  BY <1>1 DEF Occupied
<1>2. ASSUME NEW s \in Slots, NEW d \in Deadlines,
             slots' = [slots EXCEPT ![s] = Assigned(@, completion.object, d)]
      PROVE  slots' \in [Slots -> BufferSlot] /\ NoDuplicateResidency'
  <2> DEFINE new == Assigned(slots[s], completion.object, d)
  <2>1. new \in BufferSlot /\ new.object = completion.object
    BY DEF Assigned, BufferSlot, BufferState
  <2>2. slots' = [slots EXCEPT ![s] = new]
    BY <1>2
  <2> HIDE DEF new
  <2>3. \A t \in Slots \ {s} : slots'[t] = slots[t]
    BY <2>2
  <2>4. slots'[s] = new /\ slots' \in [Slots -> BufferSlot]
    BY <2>1, <2>2
  <2>5. \A t \in Occupied(slots') \ {s} : slots'[t].object # completion.object
    BY <2>3 DEF Occupied, Holding
  <2> QED
    BY <2>1, <2>3, <2>4, <2>5 DEF Occupied
<1> QED
  BY <1>1, <1>2 DEF Store

(* Every step keeps the inductive invariant.                               *)
LEMMA ReplayInvStep == ReplayInv /\ [Next]_vars => ReplayInv'
<1> SUFFICES ASSUME ReplayInv, [Next]_vars PROVE ReplayInv'
  OBVIOUS
<1> USE DEF ReplayInv
<1>1. ASSUME NEW events \in Traces, NEW layout \in [Objects -> Entries],
             StartReplay(events, layout)
      PROVE  ReplayInv'
  BY <1>1, ReplayAssumption DEF StartReplay, Counts, ReplayTypes, StillMissing, Missing, NoMetrics,
     NoDuplicateResidency, EventsAccounted, Unfinished, Occupied
<1>2. CASE FinishReplay
  BY <1>2 DEF FinishReplay, trace, ReplayTypes, StillMissing, Missing,
     NoDuplicateResidency, EventsAccounted, Unfinished, Occupied
<1>3. CASE DramHit
  <2>1. PICK s \in Slots : slots' = [slots EXCEPT ![s] = Reset(@)]
    BY <1>3 DEF DramHit
  <2>2. slots' \in [Slots -> BufferSlot] /\ NoDuplicateResidency'
    <3>1. Reset(slots[s]) \in BufferSlot /\ Reset(slots[s]).state = "FREE"
      BY DEF ReplayTypes, Reset, BufferSlot, BufferState
    <3>2. /\ slots'[s] = Reset(slots[s])
          /\ \A t \in Slots \ {s} : slots'[t] = slots[t]
          /\ slots' \in [Slots -> BufferSlot]
      BY <2>1, <3>1 DEF ReplayTypes
    <3> QED
      BY <3>1, <3>2 DEF NoDuplicateResidency, Occupied
  <2>3. metrics' \in Counts /\ EventsAccounted'
    <3>1. /\ pc = "event" /\ pc' = "event" /\ i' = i + 1 /\ i \in Nat
          /\ metrics' = [metrics EXCEPT !.total = metrics.total + 1,
                                        !.dram_hits = metrics.dram_hits + 1]
      BY <1>3 DEF DramHit, ReplayTypes
    <3>2. /\ metrics.total = i - 1
          /\ metrics.dram_hits + metrics.flash_reads + metrics.failures = i - 1
      BY <3>1, CountsAreNat DEF EventsAccounted, Unfinished
    <3>3. /\ metrics' \in Counts
          /\ metrics'.total = metrics.total + 1
          /\ metrics'.dram_hits = metrics.dram_hits + 1
          /\ metrics'.flash_reads = metrics.flash_reads
          /\ metrics'.failures = metrics.failures
      BY <3>1, CountsAreNat, CountHit
    <3> QED
      BY <3>1, <3>2, <3>3, CountsAreNat DEF EventsAccounted, Unfinished
  <2> QED
    BY <1>3, <2>2, <2>3 DEF DramHit, trace, ReplayTypes, StillMissing, Missing
<1>4. CASE DramMiss
  <2>1. metrics' \in Counts /\ EventsAccounted' /\ pc' \in Missing
    <3>1. /\ pc = "event" /\ pc' \in {"lookahead", "demand"} /\ i \in Nat
          /\ Len(ordered) \in Nat /\ i <= Len(ordered) /\ UNCHANGED <<i, ordered>>
          /\ metrics' = [metrics EXCEPT !.total = metrics.total + 1]
      BY <1>4 DEF DramMiss, ReplayTypes, trace
    <3>2. /\ metrics.total = i - 1
          /\ metrics.dram_hits + metrics.flash_reads + metrics.failures = i - 1
      BY <3>1, CountsAreNat DEF EventsAccounted, Unfinished
    <3>3. /\ metrics' \in Counts
          /\ metrics'.total = metrics.total + 1
          /\ metrics'.dram_hits = metrics.dram_hits
          /\ metrics'.flash_reads = metrics.flash_reads
          /\ metrics'.failures = metrics.failures
      BY <3>1, CountsAreNat, CountMiss
    <3> QED
      BY <3>1, <3>2, <3>3, CountsAreNat DEF EventsAccounted, Unfinished, Missing
  <2>2. ordered[i] \in Objects
    BY <1>4 DEF DramMiss, FirstAhead, ReplayTypes
  <2> QED
    BY <1>4, <2>1, <2>2 DEF DramMiss, FirstAhead, trace, ReplayTypes, StillMissing,
       NoDuplicateResidency, Occupied, Holding
<1>5. CASE DemandRefused
  <2>1. metrics' \in Counts /\ EventsAccounted'
    <3>1. /\ pc = "demand" /\ pc' = "event" /\ i' = i + 1 /\ i \in Nat
          /\ metrics' = [metrics EXCEPT !.failures = metrics.failures + 1]
      BY <1>5 DEF DemandRefused, Failure, ReplayTypes
    <3>2. /\ metrics.total = i
          /\ metrics.dram_hits + metrics.flash_reads + metrics.failures = i - 1
      BY <3>1, CountsAreNat DEF EventsAccounted, Unfinished, StillMissing, Missing, ReplayTypes
    <3>3. /\ metrics' \in Counts
          /\ metrics'.total = metrics.total
          /\ metrics'.dram_hits = metrics.dram_hits
          /\ metrics'.flash_reads = metrics.flash_reads
          /\ metrics'.failures = metrics.failures + 1
      BY <3>1, CountsAreNat, CountFailure
    <3> QED
      BY <3>1, <3>2, <3>3, CountsAreNat DEF EventsAccounted, Unfinished
  <2> QED
    BY <1>5, <2>1 DEF DemandRefused, trace, ReplayTypes, StillMissing, Missing,
       NoDuplicateResidency, Occupied
<1>6. CASE Demanded
  <2>1. PICK n \in DOMAIN completions :
          /\ completions[n].object = ordered[i]
          /\ \/ /\ metrics' = [metrics EXCEPT !.flash_reads = @ + 1]
                /\ Store(completions[n])
             \/ /\ metrics' = [metrics EXCEPT !.failures = @ + 1]
                /\ UNCHANGED slots
    BY <1>6 DEF Demanded, Taken, Failure, Reader!TakeOldest, Reader!Oldest
  <2>2. ordered[i] \in Objects /\ Holding(slots, ordered[i]) = {}
    BY <1>6 DEF Demanded, StillMissing, Missing
  <2>3. slots' \in [Slots -> BufferSlot] /\ NoDuplicateResidency'
    <3>1. CASE Store(completions[n])
      BY <2>1, <2>2, <3>1, StoreStep
    <3>2. CASE UNCHANGED slots
      BY <3>2 DEF ReplayTypes, NoDuplicateResidency, Occupied
    <3> QED
      BY <2>1, <3>1, <3>2
  <2>4. metrics' \in Counts /\ EventsAccounted'
    <3>1. /\ pc = "wait" /\ pc' = "event" /\ i' = i + 1 /\ i \in Nat
          /\ \/ metrics' = [metrics EXCEPT !.flash_reads = metrics.flash_reads + 1]
             \/ metrics' = [metrics EXCEPT !.failures = metrics.failures + 1]
      BY <1>6, <2>1 DEF Demanded, ReplayTypes
    <3>2. /\ metrics.total = i
          /\ metrics.dram_hits + metrics.flash_reads + metrics.failures = i - 1
      BY <3>1, CountsAreNat DEF EventsAccounted, Unfinished, StillMissing, Missing, ReplayTypes
    <3>3. /\ metrics' \in Counts
          /\ metrics'.total = metrics.total
          /\ metrics'.dram_hits = metrics.dram_hits
          /\ metrics'.flash_reads + metrics'.failures
                = metrics.flash_reads + metrics.failures + 1
          /\ metrics'.flash_reads \in Nat /\ metrics'.failures \in Nat
      <4>1. CASE metrics' = [metrics EXCEPT !.flash_reads = metrics.flash_reads + 1]
        BY <4>1, CountsAreNat, CountRead
      <4>2. CASE metrics' = [metrics EXCEPT !.failures = metrics.failures + 1]
        BY <4>2, CountsAreNat, CountFailure
      <4> QED
        BY <3>1, <4>1, <4>2
    <3>4. /\ metrics'.dram_hits + metrics'.flash_reads + metrics'.failures = i' - 1
          /\ metrics'.total = i' - 1
      <4>1. /\ metrics.dram_hits \in Nat /\ metrics.flash_reads \in Nat
            /\ metrics.failures \in Nat
        BY CountsAreNat
      <4>2. i' = i + 1 /\ i \in Nat
        BY <3>1
      <4> QED
        BY <3>2, <3>3, <4>1, <4>2
    <3> QED
      BY <3>1, <3>3, <3>4 DEF EventsAccounted, Unfinished
  <2> QED
    BY <1>6, <2>3, <2>4 DEF Demanded, trace, ReplayTypes, StillMissing, Missing
<1>7. CASE EndLookahead \/ SkipFuture \/ SubmitFuture \/ FutureRead
            \/ SubmitDemand \/ DemandRead \/ ReadRaises \/ UNCHANGED vars
  BY <1>7, LoopSteps
<1> QED
  BY <1>1, <1>2, <1>3, <1>4, <1>5, <1>6, <1>7 DEF Next, ReplayStep

(* No sequence of replays gives one object two slots of the pool.          *)
THEOREM NoObjectTwice == Spec => []NoDuplicateResidency
<1>1. ReplayInv => NoDuplicateResidency
  BY DEF ReplayInv
<1> QED
  BY <1>1, InitReplay, ReplayInvStep, PTL DEF Spec

(* Every event is counted once: as a hit, a flash read or a failure; also  *)
(* in a replay that an exception cut short, but for the event it was at.   *)
THEOREM EveryEventOnce == Spec => []EventsAccounted
<1>1. ReplayInv => EventsAccounted
  BY DEF ReplayInv
<1> QED
  BY <1>1, InitReplay, ReplayInvStep, PTL DEF Spec

----------------------------------------------------------------------------
(* What makes TypeOK inductive: the objects of a trace are registered, a   *)
(* miss is handled inside the trace, a read ahead inside the look-ahead.   *)
InBounds ==
    /\ \A j \in DOMAIN ordered : layout_map[ordered[j]] \in Entries
    /\ pc \in Missing => i <= Len(ordered)
    /\ pc = "read_ahead" => MoreAhead

(* The step that starts a replay registers every object of its trace.      *)
LEMMA StartTypes ==
    ASSUME TypeOK, NEW events \in Traces, NEW layout \in [Objects -> Entries],
           StartReplay(events, layout)
    PROVE  TypeOK' /\ InBounds'
<1>1. /\ events \in Seq(Objects) /\ ordered' = events
      /\ replays' \in 0 .. MaxReplays
      /\ pc' = "event" /\ i' = 1 /\ Len(events) \in Nat
  BY ReplayAssumption DEF StartReplay, TypeOK
<1>2. layout_map' \in [Objects -> Entries \cup {None}]
  BY DEF StartReplay, TypeOK
<1>3. \A j \in DOMAIN events : events[j] \in Objects /\ layout_map'[events[j]] \in Entries
  BY <1>1 DEF StartReplay
<1>4. UNCHANGED <<service, slots, lookahead>> /\ prefetched' = {} /\ metrics' = NoMetrics
  BY DEF StartReplay
<1>5. carried' \in SUBSET Slots /\ aheadBefore' \in SUBSET Objects /\ dropped' \in Nat
  BY DEF StartReplay, Occupied, TypeOK
<1>6. TypeOK'
  BY <1>1, <1>2, <1>4, <1>5 DEF TypeOK, service, NoMetrics
<1> QED
  BY <1>1, <1>3, <1>6 DEF InBounds, Missing

(* The steps that only move the loops.                                     *)
LEMMA LoopTypes ==
    ASSUME TypeOK, InBounds,
           FinishReplay \/ EndLookahead \/ SkipFuture \/ DramMiss \/ DemandRefused
             \/ ReadRaises \/ DramHit,
           metrics' \in Counts, slots' \in [Slots -> BufferSlot]
    PROVE  TypeOK' /\ InBounds'
<1>0. /\ Len(ordered) \in Nat /\ Lookahead \in Nat
      /\ i \in 1 .. Len(ordered) + 1 /\ lookahead \in 1 .. Lookahead + 1
  BY ReplayAssumption DEF TypeOK
<1>1. UNCHANGED <<service, trace, prefetched, dropped>>
  BY DEF FinishReplay, EndLookahead, SkipFuture, DramMiss, DemandRefused, ReadRaises, DramHit
<1>2. /\ i' \in 1 .. Len(ordered) + 1
      /\ pc' \in {"idle", "event"} \cup (Missing \ {"read_ahead"})
      /\ pc' \in Missing => i' <= Len(ordered)
      /\ lookahead' \in 1 .. Lookahead + 1
  BY <1>0 DEF FinishReplay, EndLookahead, SkipFuture, MoreAhead, NextAhead, DramMiss, FirstAhead,
     DemandRefused, ReadRaises, DramHit, InBounds, Missing
<1> QED
  BY <1>1, <1>2 DEF TypeOK, InBounds, service, trace, Counts, Missing

(* A read in service of an object of the trace, with its entry.            *)
LEMMA AcceptTypes ==
    ASSUME TypeOK, NEW o \in Objects, layout_map[o] \in Entries,
           Reader!Accept(o, layout_map[o])
    PROVE  /\ inflight' \in SUBSET Reader!Read
           /\ completions' \in Seq(Reader!Completion)
  BY DEF TypeOK, Reader!Accept, Reader!Read

(* A completion of the reader keeps the types of what is shared with it.   *)
LEMMA CompleteTypes ==
    ASSUME TypeOK, NEW read \in inflight, Reader!Complete(read)
    PROVE  /\ inflight' \in SUBSET Reader!Read
           /\ completions' \in Seq(Reader!Completion)
<1>1. read \in Reader!Read
  BY DEF TypeOK
<1>2. [object |-> read.object, entry |-> read.entry,
       status |-> IF read.entry \in Truncated THEN "FAILED" ELSE "COMPLETED"]
         \in Reader!Completion
  BY <1>1 DEF Reader!Read, Reader!Completion
<1> QED
  BY <1>2 DEF TypeOK, Reader!Complete

(* Taking the oldest completion of an object takes one of the queue's.     *)
LEMMA TakeTypes ==
    ASSUME TypeOK, NEW o, NEW n \in DOMAIN completions, Reader!TakeOldest(o, n)
    PROVE  /\ UNCHANGED inflight
           /\ completions' \in Seq(Reader!Completion)
           /\ \A m \in DOMAIN completions' :
                 \E k \in DOMAIN completions : completions'[m] = completions[k]
<1>1. completions' = RemoveAt(completions, n) /\ UNCHANGED inflight
  BY DEF Reader!TakeOldest, Reader!RemoveAt, RemoveAt
<1>2. completions \in Seq(Reader!Completion) /\ n \in 1 .. Len(completions)
  BY DEF TypeOK
<1>3. /\ completions' \in Seq(Reader!Completion)
      /\ Len(completions') = Len(completions) - 1
      /\ \A j \in 1 .. Len(completions) - 1 :
            completions'[j] = IF j < n THEN completions[j] ELSE completions[j + 1]
  BY <1>1, <1>2, RemoveAtLemma
<1>4. ASSUME NEW m \in DOMAIN completions'
      PROVE  \E k \in DOMAIN completions : completions'[m] = completions[k]
  <2>1. m \in 1 .. Len(completions) - 1 /\ Len(completions) \in Nat
    BY <1>2, <1>3
  <2>2. m \in DOMAIN completions /\ m + 1 \in DOMAIN completions
    BY <1>2, <2>1
  <2> QED
    BY <1>3, <2>1, <2>2
<1> QED
  BY <1>1, <1>3, <1>4

(* Every step keeps the types of the replay and of its reader.             *)
LEMMA TypesStep == ReplayInv /\ TypeOK /\ InBounds /\ [Next]_vars => TypeOK' /\ InBounds'
<1> SUFFICES ASSUME ReplayInv, TypeOK, InBounds, [Next]_vars PROVE TypeOK' /\ InBounds'
  OBVIOUS
<1>0. /\ Len(ordered) \in Nat /\ Lookahead \in Nat
      /\ i \in 1 .. Len(ordered) + 1 /\ lookahead \in 1 .. Lookahead + 1
      /\ ordered \in Seq(Objects)
  BY ReplayAssumption DEF TypeOK
<1>n. metrics' \in Counts /\ slots' \in [Slots -> BufferSlot]
  BY ReplayInvStep DEF ReplayInv, ReplayTypes
<1>1. ASSUME NEW events \in Traces, NEW layout \in [Objects -> Entries],
             StartReplay(events, layout)
      PROVE  TypeOK' /\ InBounds'
  BY <1>1, StartTypes
<1>2. CASE FinishReplay \/ EndLookahead \/ SkipFuture \/ DramMiss \/ DemandRefused
             \/ ReadRaises \/ DramHit
  BY <1>2, <1>n, LoopTypes
<1>3. CASE SubmitFuture
  <2>1. /\ MoreAhead /\ Future \in Objects /\ layout_map[Future] \in Entries
        /\ Reader!Accept(Future, layout_map[Future])
    BY <1>0, <1>3 DEF SubmitFuture, EntryOf, MoreAhead, Future, InBounds
  <2>2. /\ inflight' \in SUBSET Reader!Read
        /\ completions' \in Seq(Reader!Completion)
    BY <2>1, AcceptTypes
  <2>3. UNCHANGED <<slots, trace, i, lookahead, prefetched, metrics, dropped>>
        /\ pc = "lookahead" /\ pc' = "read_ahead"
    BY <1>3 DEF SubmitFuture
  <2>4. InBounds'
    BY <2>1, <2>3 DEF InBounds, Missing, MoreAhead, trace
  <2> QED
    BY <2>2, <2>3, <2>4 DEF TypeOK, trace
<1>4. CASE FutureRead
  <2>1. /\ MoreAhead /\ Future \in Objects
        /\ \E read \in inflight : Reader!Complete(read)
    BY <1>0, <1>4 DEF FutureRead, MoreAhead, Future, InBounds
  <2>2. /\ inflight' \in SUBSET Reader!Read
        /\ completions' \in Seq(Reader!Completion)
    BY <2>1, CompleteTypes
  <2>3. /\ UNCHANGED <<slots, trace, i, metrics, dropped>>
        /\ pc = "read_ahead" /\ pc' = "lookahead"
        /\ lookahead' = lookahead + 1
        /\ prefetched' = prefetched \cup {Future}
    BY <1>4 DEF FutureRead, NextAhead, Recorded
  <2>4. lookahead' \in 1 .. Lookahead + 1 /\ prefetched' \in SUBSET Objects
    BY <1>0, <2>1, <2>3 DEF MoreAhead, TypeOK
  <2>5. InBounds'
    BY <2>3 DEF InBounds, Missing, trace
  <2> QED
    BY <2>2, <2>3, <2>4, <2>5 DEF TypeOK, trace
<1>5. CASE SubmitDemand
  <2>1. /\ ordered[i] \in Objects /\ layout_map[ordered[i]] \in Entries
        /\ Reader!Accept(ordered[i], layout_map[ordered[i]])
    BY <1>0, <1>5 DEF SubmitDemand, InBounds, Missing
  <2>2. /\ inflight' \in SUBSET Reader!Read
        /\ completions' \in Seq(Reader!Completion)
    BY <2>1, AcceptTypes
  <2>3. UNCHANGED <<slots, trace, i, lookahead, prefetched, metrics, dropped>>
        /\ pc = "demand" /\ pc' = "read"
    BY <1>5 DEF SubmitDemand
  <2>4. InBounds'
    BY <2>3 DEF InBounds, Missing, trace
  <2> QED
    BY <2>2, <2>3, <2>4 DEF TypeOK, trace
<1>6. CASE DemandRead
  <2>1. \E read \in inflight : Reader!Complete(read)
    BY <1>6 DEF DemandRead
  <2>2. /\ inflight' \in SUBSET Reader!Read
        /\ completions' \in Seq(Reader!Completion)
    BY <2>1, CompleteTypes
  <2>3. UNCHANGED <<slots, trace, i, lookahead, prefetched, metrics, dropped>>
        /\ pc = "read" /\ pc' = "wait"
    BY <1>6 DEF DemandRead
  <2>4. InBounds'
    BY <2>3 DEF InBounds, Missing, trace
  <2> QED
    BY <2>2, <2>3, <2>4 DEF TypeOK, trace
<1>7. CASE Demanded
  <2>1. PICK n \in DOMAIN completions : Reader!TakeOldest(ordered[i], n)
    BY <1>7 DEF Demanded, Taken
  <2>2. UNCHANGED inflight /\ completions' \in Seq(Reader!Completion)
    BY <2>1, TakeTypes
  <2>3. /\ UNCHANGED <<trace, lookahead, prefetched>>
        /\ pc = "wait" /\ pc' = "event" /\ i' = i + 1
        /\ dropped' \in Nat
    BY <1>7 DEF Demanded, TypeOK
  <2>4. i' \in 1 .. Len(ordered) + 1
    BY <1>0, <2>3 DEF InBounds, Missing
  <2>5. InBounds'
    BY <2>3 DEF InBounds, Missing, trace
  <2> QED
    BY <1>n, <2>2, <2>3, <2>4, <2>5 DEF TypeOK, trace, Counts
<1>8. CASE UNCHANGED vars
  BY <1>8 DEF vars, trace, service, TypeOK, InBounds, MoreAhead, Missing
<1> QED
  BY <1>1, <1>2, <1>3, <1>4, <1>5, <1>6, <1>7, <1>8 DEF Next, ReplayStep

(* The types hold at the start, and the replay is within its bounds.       *)
LEMMA InitTypes == Init => TypeOK /\ InBounds
<1> SUFFICES ASSUME Init PROVE TypeOK /\ InBounds
  OBVIOUS
<1>1. slots \in [Slots -> BufferSlot]
  BY InitReplay DEF ReplayInv, ReplayTypes
<1>2. TypeOK
  BY <1>1, ReplayAssumption DEF Init, TypeOK, Reader!ServiceInit, NoMetrics
<1> QED
  BY <1>2 DEF Init, InBounds, Missing

(* The pool, the reader, the loops and the counters keep their types: the  *)
(* replay only ever submits objects that are registered.                   *)
THEOREM ReplayTypesHold == Spec => []TypeOK
  BY InitReplay, ReplayInvStep, InitTypes, TypesStep, PTL DEF Spec

----------------------------------------------------------------------------
(* What makes OwnLayout inductive.  What is left in the queue is of objects *)
(* read ahead, in this replay or before, but for the demand read about to  *)
(* be taken, which is the last; what is not from before has the entry of   *)
(* the layout now registered, and so has the read under way.               *)
Left(n) ==
    \/ completions[n].object \in aheadBefore \cup prefetched
    \/ pc = "wait" /\ n = Len(completions) /\ completions[n].object = ordered[i]

QueueCurrent ==
    \A n \in DOMAIN completions :
        completions[n].object \notin aheadBefore =>
            completions[n].entry = layout_map[completions[n].object]

UnderWay(o) == \A read \in inflight : read.object = o => read.entry = layout_map[o]

LayoutInv ==
    /\ \A n \in DOMAIN completions : Left(n)
    /\ QueueCurrent
    /\ pc = "read" => UnderWay(ordered[i])
    /\ pc = "read_ahead" => UnderWay(Future)

(* A read accepted is the only one of its object, so it is the one under   *)
(* way.                                                                    *)
LEMMA AcceptedUnderWay ==
    ASSUME NEW o, Reader!Accept(o, layout_map[o]), layout_map' = layout_map
    PROVE  completions' = completions /\ UnderWay(o)'
  BY DEF Reader!Accept, Reader!InFlight, UnderWay

(* The read under way completes with the layout's entry, at the end of the *)
(* queue, which is otherwise the same.                                     *)
LEMMA CompletedCurrent ==
    ASSUME TypeOK, NEW o, UnderWay(o), QueueCurrent,
           NEW read \in inflight, read.object = o, Reader!Complete(read),
           UNCHANGED <<layout_map, aheadBefore>>
    PROVE  /\ QueueCurrent'
           /\ Len(completions') = Len(completions) + 1
           /\ \A n \in DOMAIN completions' :
                 \/ n \in DOMAIN completions /\ completions'[n] = completions[n]
                 \/ n = Len(completions') /\ completions'[n].object = o
<1> DEFINE status == IF read.entry \in Truncated THEN "FAILED" ELSE "COMPLETED"
           done == [object |-> read.object, entry |-> read.entry, status |-> status]
<1>1. completions' = Append(completions, done)
  BY DEF Reader!Complete
<1>2. done.object = o /\ done.entry = layout_map[o]
  BY DEF UnderWay
<1>3. done \in Reader!Completion /\ completions \in Seq(Reader!Completion)
  BY DEF TypeOK, Reader!Read, Reader!Completion
<1> HIDE DEF done
<1>4. /\ Len(completions') = Len(completions) + 1
      /\ \A n \in DOMAIN completions' :
            \/ n \in DOMAIN completions /\ completions'[n] = completions[n]
            \/ n = Len(completions') /\ completions'[n] = done
  BY <1>1, <1>3
<1> QED
  BY <1>2, <1>4 DEF QueueCurrent

(* Every step keeps it: a new replay turns what was read ahead into what   *)
(* was read ahead before; a demand read that is not behind such a read     *)
(* takes the last completion, its own.                                     *)
LEMMA LayoutStep == TypeOK /\ LayoutInv /\ [Next]_vars => LayoutInv'
<1> SUFFICES ASSUME TypeOK, LayoutInv, [Next]_vars PROVE LayoutInv'
  OBVIOUS
<1>0. completions \in Seq(Reader!Completion) /\ Len(completions) \in Nat
  BY DEF TypeOK
<1>1. ASSUME NEW events \in Traces, NEW layout \in [Objects -> Entries],
             StartReplay(events, layout)
      PROVE  LayoutInv'
  <2>1. /\ completions' = completions /\ pc = "idle" /\ pc' = "event"
        /\ aheadBefore' = aheadBefore \cup prefetched
    BY <1>1 DEF StartReplay, service
  <2>2. \A n \in DOMAIN completions : completions[n].object \in aheadBefore'
    BY <2>1 DEF LayoutInv, Left
  <2> QED
    BY <2>1, <2>2 DEF LayoutInv, Left, QueueCurrent
<1>2. CASE SubmitFuture
  <2>1. /\ Reader!Accept(Future, layout_map[Future])
        /\ pc = "lookahead" /\ pc' = "read_ahead"
        /\ UNCHANGED <<layout_map, ordered, i, lookahead, prefetched, aheadBefore>>
    BY <1>2 DEF SubmitFuture, EntryOf, trace
  <2>2. PICK o : o = Future
    OBVIOUS
  <2>3. completions' = completions /\ UnderWay(o)'
    BY <2>1, <2>2, AcceptedUnderWay
  <2>4. Future' = o
    BY <2>1, <2>2 DEF Future
  <2> QED
    BY <2>1, <2>3, <2>4 DEF LayoutInv, Left, QueueCurrent, UnderWay
<1>3. CASE SubmitDemand
  <2>1. /\ Reader!Accept(ordered[i], layout_map[ordered[i]])
        /\ pc = "demand" /\ pc' = "read"
        /\ UNCHANGED <<layout_map, ordered, i, prefetched, aheadBefore>>
    BY <1>3 DEF SubmitDemand, trace
  <2>2. PICK o : o = ordered[i]
    OBVIOUS
  <2>3. completions' = completions /\ UnderWay(o)'
    BY <2>1, <2>2, AcceptedUnderWay
  <2> QED
    BY <2>1, <2>2, <2>3 DEF LayoutInv, Left, QueueCurrent, UnderWay
<1>4. CASE FutureRead
  <2>1. /\ pc = "read_ahead" /\ pc' = "lookahead"
        /\ UNCHANGED <<layout_map, aheadBefore>>
        /\ prefetched' = prefetched \cup {Future}
    BY <1>4 DEF FutureRead, Recorded, trace
  <2>2. PICK read \in inflight : read.object = Future /\ Reader!Complete(read)
    BY <1>4 DEF FutureRead
  <2>3. /\ QueueCurrent'
        /\ \A n \in DOMAIN completions' :
              \/ n \in DOMAIN completions /\ completions'[n] = completions[n]
              \/ completions'[n].object = Future
    BY <2>1, <2>2, CompletedCurrent DEF LayoutInv
  <2> QED
    BY <2>1, <2>3 DEF LayoutInv, Left
<1>5. CASE DemandRead
  <2>1. /\ pc = "read" /\ pc' = "wait"
        /\ UNCHANGED <<layout_map, ordered, i, prefetched, aheadBefore>>
    BY <1>5 DEF DemandRead, trace
  <2>2. PICK read \in inflight : read.object = ordered[i] /\ Reader!Complete(read)
    BY <1>5 DEF DemandRead
  <2>3. /\ QueueCurrent'
        /\ \A n \in DOMAIN completions' :
              \/ n \in DOMAIN completions /\ completions'[n] = completions[n]
              \/ n = Len(completions') /\ completions'[n].object = ordered[i]
    BY <2>1, <2>2, CompletedCurrent DEF LayoutInv
  <2> QED
    BY <2>1, <2>3 DEF LayoutInv, Left
<1>6. CASE Demanded
  <2>1. /\ pc = "wait" /\ pc' = "event"
        /\ UNCHANGED <<layout_map, prefetched, aheadBefore>>
    BY <1>6 DEF Demanded, trace
  <2>2. PICK n \in DOMAIN completions : Reader!TakeOldest(ordered[i], n)
    BY <1>6 DEF Demanded, Taken
  <2>3. /\ completions[n].object = ordered[i] /\ n \in 1 .. Len(completions)
        /\ completions' = RemoveAt(completions, n)
    BY <1>0, <2>2 DEF Reader!TakeOldest, Reader!Oldest, Reader!RemoveAt, RemoveAt
  <2>4. /\ Len(completions') = Len(completions) - 1
        /\ \A j \in 1 .. Len(completions) - 1 :
              completions'[j] = IF j < n THEN completions[j] ELSE completions[j + 1]
        /\ completions' \in Seq(Reader!Completion)
    BY <1>0, <2>3, RemoveAtLemma
  <2>5. DOMAIN completions' = 1 .. Len(completions) - 1
    BY <2>4
  <2>6. ASSUME NEW j \in DOMAIN completions'
        PROVE  /\ Left(j)'
               /\ \E k \in DOMAIN completions : completions'[j] = completions[k]
    <3>1. PICK k \in DOMAIN completions :
            completions'[j] = completions[k] /\ k = IF j < n THEN j ELSE j + 1
      BY <1>0, <2>3, <2>4, <2>5
    <3>2. k = Len(completions) => n # Len(completions)
      BY <1>0, <2>3, <2>5, <3>1
    <3>3. completions[k].object \in aheadBefore \cup prefetched
      <4>1. CASE completions[k].object # ordered[i] \/ k # Len(completions)
        BY <4>1 DEF LayoutInv, Left
      <4>2. CASE completions[k].object = ordered[i] /\ k = Len(completions)
        <5>1. completions[n].object \in aheadBefore \cup prefetched
          BY <3>2, <4>2 DEF LayoutInv, Left
        <5> QED
          BY <2>3, <4>2, <5>1
      <4> QED
        BY <4>1, <4>2
    <3> QED
      BY <2>1, <3>1, <3>3 DEF Left
  <2> QED
    BY <2>1, <2>6 DEF LayoutInv, QueueCurrent
<1>7. CASE FinishReplay \/ EndLookahead \/ SkipFuture \/ DramMiss \/ DemandRefused
             \/ ReadRaises \/ DramHit \/ UNCHANGED vars
  <2>1. UNCHANGED <<completions, inflight, layout_map, prefetched, aheadBefore, ordered>>
    BY <1>7 DEF FinishReplay, EndLookahead, SkipFuture, DramMiss, DemandRefused, ReadRaises,
       DramHit, vars, service, trace
  <2>2. /\ pc' = "wait" <=> pc = "wait"
        /\ pc' \in {"read", "read_ahead"} => pc' = pc /\ UNCHANGED lookahead
        /\ pc' \in {"read", "read_ahead", "wait"} => i' = i
    BY <1>7 DEF FinishReplay, EndLookahead, SkipFuture, DramMiss, DemandRefused, ReadRaises,
       DramHit, vars
  <2> QED
    BY <2>1, <2>2 DEF LayoutInv, Left, QueueCurrent, UnderWay, Future
<1> QED
  BY <1>1, <1>2, <1>3, <1>4, <1>5, <1>6, <1>7 DEF Next, ReplayStep

(* Over any sequence of replays, of any traces and layouts: what a demand  *)
(* read takes was read under the layout of the replay under way, whoever   *)
(* asked for it, unless an earlier replay read that object ahead.          *)
THEOREM OwnLayoutServed == Spec => []OwnLayout
<1>1. Init => LayoutInv
  BY DEF Init, Reader!ServiceInit, LayoutInv, QueueCurrent
<1>2. LayoutInv => OwnLayout
  BY DEF LayoutInv, QueueCurrent, OwnLayout, Reader!Oldest
<1> QED
  BY <1>1, <1>2, InitReplay, ReplayInvStep, InitTypes, TypesStep, LayoutStep, PTL DEF Spec

----------------------------------------------------------------------------
(* The occupied slots are finitely many, and so are those carried over.    *)
LEMMA SlotsFinite ==
    ASSUME NEW S \in SUBSET Slots
    PROVE  IsFiniteSet(S) /\ Cardinality(S) \in Nat
<1>1. IsFiniteSet(Slots)
  BY FS_Interval, NumSlotsAssumption DEF Slots
<1>2. IsFiniteSet(S)
  BY <1>1, FS_Subset
<1> QED
  BY <1>2, FS_CardinalityType

(* A hit gives up an occupied slot; a read takes a free one, or is dropped *)
(* when there is none.                                                     *)
LEMMA HitsStep ==
    ReplayInv /\ TypeOK /\ HitsArePaidFor /\ [Next]_vars => HitsArePaidFor'
<1> SUFFICES ASSUME ReplayInv, TypeOK, HitsArePaidFor, [Next]_vars PROVE HitsArePaidFor'
  OBVIOUS
<1> DEFINE used == Cardinality(Occupied(slots))
           before == Cardinality(carried)
<1>0. /\ slots \in [Slots -> BufferSlot] /\ metrics \in Counts
      /\ Occupied(slots) \in SUBSET Slots /\ IsFiniteSet(Occupied(slots))
      /\ used \in Nat /\ before \in Nat
      /\ metrics.dram_hits + used + dropped = metrics.flash_reads + before
      /\ dropped \in Nat
  BY SlotsFinite DEF ReplayInv, ReplayTypes, TypeOK, Occupied, HitsArePaidFor
<1>c. metrics.dram_hits \in Nat /\ metrics.flash_reads \in Nat
  BY CountsAreNat DEF ReplayInv
<1>1. ASSUME NEW events \in Traces, NEW layout \in [Objects -> Entries],
             StartReplay(events, layout)
      PROVE  HitsArePaidFor'
  <2>1. /\ slots' = slots /\ carried' = Occupied(slots) /\ dropped' = 0
        /\ metrics'.dram_hits = 0 /\ metrics'.flash_reads = 0
    BY <1>1 DEF StartReplay, NoMetrics
  <2>2. Occupied(slots') = Occupied(slots)
    BY <2>1
  <2> QED
    BY <1>0, <2>1, <2>2 DEF HitsArePaidFor
<1>2. CASE DramHit
  <2>1. PICK s \in Holding(slots, ordered[i]) : slots' = [slots EXCEPT ![s] = Reset(@)]
    BY <1>2 DEF DramHit, First
  <2>2. s \in Occupied(slots) /\ Occupied(slots') = Occupied(slots) \ {s}
    BY <1>0, <2>1 DEF Holding, Occupied, Reset, BufferSlot
  <2>3. Cardinality(Occupied(slots')) = used - 1
    <3>1. Cardinality(Occupied(slots) \ {s}) = Cardinality(Occupied(slots)) - 1
      <4> DEFINE O == Occupied(slots)
      <4>1. IsFiniteSet(O) /\ s \in O
        BY <1>0, <2>2
      <4> HIDE DEF O
      <4>2. Cardinality(O \ {s}) = Cardinality(O) - 1
        BY <4>1, FS_RemoveElement
      <4> QED
        BY <4>2 DEF O
    <3> QED
      BY <2>2, <3>1
  <2>4. /\ metrics'.dram_hits = metrics.dram_hits + 1
        /\ metrics'.flash_reads = metrics.flash_reads
    <3>1. metrics' = [metrics EXCEPT !.total = metrics.total + 1,
                                     !.dram_hits = metrics.dram_hits + 1]
      BY <1>2 DEF DramHit
    <3>2. metrics \in Counts
      BY <1>0
    <3> QED
      BY <3>1, <3>2, CountHit
  <2>5. carried' = carried /\ dropped' = dropped
    BY <1>2 DEF DramHit, trace
  <2> QED
    BY <1>0, <1>c, <2>3, <2>4, <2>5 DEF HitsArePaidFor
<1>3. CASE Demanded
  <2>1. PICK completion :
          \/ /\ metrics' = [metrics EXCEPT !.flash_reads = @ + 1] /\ Store(completion)
             /\ dropped' = dropped + IF FreeSlots(slots) = {} THEN 1 ELSE 0
          \/ metrics' = [metrics EXCEPT !.failures = @ + 1] /\ UNCHANGED <<slots, dropped>>
    BY <1>3 DEF Demanded, Failure
  <2>2. carried' = carried
    BY <1>3 DEF Demanded, trace
\* The read came back short: a policy failure.
  <2>3. ASSUME metrics' = [metrics EXCEPT !.failures = @ + 1], UNCHANGED <<slots, dropped>>
        PROVE  HitsArePaidFor'
    <3>1. Occupied(slots') = Occupied(slots)
      BY <2>3
    <3>2. /\ metrics'.dram_hits = metrics.dram_hits
          /\ metrics'.flash_reads = metrics.flash_reads
      BY <1>0, <2>3, CountFailure
    <3> QED
      BY <1>0, <1>c, <2>2, <2>3, <3>1, <3>2 DEF HitsArePaidFor
\* The pool is full: dropped.
  <2>4. ASSUME metrics' = [metrics EXCEPT !.flash_reads = @ + 1],
               FreeSlots(slots) = {}, UNCHANGED slots, dropped' = dropped + 1
        PROVE  HitsArePaidFor'
    <3>1. Occupied(slots') = Occupied(slots)
      BY <2>4
    <3>2. /\ metrics'.dram_hits = metrics.dram_hits
          /\ metrics'.flash_reads = metrics.flash_reads + 1
      BY <1>0, <2>4, CountRead
    <3> QED
      BY <1>0, <1>c, <2>2, <2>4, <3>1, <3>2 DEF HitsArePaidFor
\* The data gets a free slot.
  <2>5. ASSUME NEW s \in FreeSlots(slots), NEW d \in Deadlines,
               slots' = [slots EXCEPT ![s] = Assigned(@, completion.object, d)],
               metrics' = [metrics EXCEPT !.flash_reads = @ + 1], dropped' = dropped
        PROVE  HitsArePaidFor'
    <3>1. s \notin Occupied(slots) /\ Occupied(slots') = Occupied(slots) \cup {s}
      BY <1>0, <2>5 DEF Occupied, FreeSlots, Assigned, BufferSlot
    <3>2. Cardinality(Occupied(slots')) = used + 1
      <4> DEFINE O == Occupied(slots)
      <4>1. IsFiniteSet(O) /\ s \notin O /\ Occupied(slots') = O \cup {s}
        BY <1>0, <3>1
      <4> HIDE DEF O
      <4>2. Cardinality(O \cup {s}) = Cardinality(O) + 1
        BY <4>1, FS_AddElement
      <4>3. used = Cardinality(O)
        BY DEF O
      <4> QED
        BY <4>1, <4>2, <4>3
    <3>3. /\ metrics'.dram_hits = metrics.dram_hits
          /\ metrics'.flash_reads = metrics.flash_reads + 1
      BY <1>0, <2>5, CountRead
    <3> QED
      BY <1>0, <1>c, <2>2, <2>5, <3>2, <3>3 DEF HitsArePaidFor
  <2>6. ASSUME metrics' = [metrics EXCEPT !.flash_reads = @ + 1], Store(completion),
               dropped' = dropped + IF FreeSlots(slots) = {} THEN 1 ELSE 0
        PROVE  HitsArePaidFor'
    <3>1. CASE FreeSlots(slots) = {} /\ UNCHANGED slots
      BY <2>4, <2>6, <3>1
    <3>2. ASSUME NEW s \in Slots, NEW d \in Deadlines, First(s, FreeSlots(slots)),
                 slots' = [slots EXCEPT ![s] = Assigned(@, completion.object, d)]
          PROVE  HitsArePaidFor'
      <4>1. s \in FreeSlots(slots) /\ dropped' = dropped
        BY <1>0, <2>6, <3>2 DEF First
      <4> QED
        BY <2>5, <2>6, <3>2, <4>1
    <3> QED
      BY <2>6, <3>1, <3>2 DEF Store
  <2> QED
    BY <2>1, <2>3, <2>6
<1>4. CASE DramMiss \/ DemandRefused
  <2>1. UNCHANGED <<slots, carried, dropped>>
    BY <1>4 DEF DramMiss, DemandRefused, trace
  <2>2. /\ metrics'.dram_hits = metrics.dram_hits
        /\ metrics'.flash_reads = metrics.flash_reads
    BY <1>0, <1>4, CountMiss, CountFailure DEF DramMiss, DemandRefused, Failure
  <2>3. Occupied(slots') = Occupied(slots)
    BY <2>1
  <2> QED
    BY <1>0, <2>1, <2>2, <2>3 DEF HitsArePaidFor
<1>5. CASE FinishReplay \/ EndLookahead \/ SkipFuture \/ SubmitFuture \/ FutureRead
             \/ SubmitDemand \/ DemandRead \/ ReadRaises \/ UNCHANGED vars
  <2>1. UNCHANGED <<slots, carried, metrics, dropped>>
    BY <1>5 DEF FinishReplay, EndLookahead, SkipFuture, SubmitFuture, FutureRead, SubmitDemand,
       DemandRead, ReadRaises, vars, trace
  <2>2. Occupied(slots') = Occupied(slots)
    BY <2>1
  <2> QED
    BY <2>1, <2>2 DEF HitsArePaidFor
<1> QED
  BY <1>1, <1>2, <1>3, <1>4, <1>5 DEF Next, ReplayStep

(* For any pool and any sequence of replays, what flash reads brought, with *)
(* what was in the pool before, was used up by hits, is in the pool, or    *)
(* was dropped when no slot was free: no hit for nothing, no silent loss.  *)
THEOREM NoHitForNothing == Spec => []HitsArePaidFor
<1>1. Init => HitsArePaidFor
  <2> SUFFICES ASSUME Init PROVE HitsArePaidFor
    OBVIOUS
  <2>1. Occupied(slots) = {} /\ carried = {} /\ dropped = 0
    BY DEF Init, Occupied, NewSlot
  <2>2. metrics.dram_hits = 0 /\ metrics.flash_reads = 0
    BY DEF Init, NoMetrics
  <2> QED
    BY <2>1, <2>2, FS_EmptySet DEF HitsArePaidFor
<1> QED
  BY <1>1, InitReplay, ReplayInvStep, InitTypes, TypesStep, HitsStep, PTL DEF Spec

----------------------------------------------------------------------------
(* The completions nobody takes *)

\* The completions of an object.
Of(o) == {c \in Reader!Completion : c.object = o}

(* The reads that leave a completion of o behind in this replay: one ahead,*)
(* at most, and the demand read under way until it is taken.               *)
Behind(o) ==
    (IF o \in prefetched THEN 1 ELSE 0) + (IF pc = "wait" /\ ordered[i] = o THEN 1 ELSE 0)

(* What makes ResidueBounded inductive: every replay but this one has left *)
(* one completion of an object at most.                                    *)
ResidueInv ==
    /\ replays = 0 => pc = "idle" /\ completions = <<>>
    /\ replays > 0 => \A o \in Objects : Residue(o) <= replays - 1 + Behind(o)
    /\ pc = "read_ahead" => Future \notin prefetched

(* The residue of an object is a number of places of the queue.            *)
LEMMA ResiduePlaces ==
    ASSUME completions \in Seq(Reader!Completion), NEW o
    PROVE  Residue(o) = Cardinality(Places(completions, Of(o))) /\ Residue(o) \in Nat
<1>1. {n \in DOMAIN completions : completions[n].object = o} = Places(completions, Of(o))
  BY DEF Places, Of
<1>2. Residue(o) = Cardinality(Places(completions, Of(o)))
  BY <1>1, Zenon DEF Residue
<1> QED
  BY <1>2, PlacesFinite

(* A read that completes adds one completion, of its own object.           *)
LEMMA CompleteResidue ==
    ASSUME TypeOK, NEW read \in inflight, Reader!Complete(read), NEW o
    PROVE  Residue(o)' = Residue(o) + (IF read.object = o THEN 1 ELSE 0)
<1> DEFINE done == [object |-> read.object, entry |-> read.entry,
                    status |-> IF read.entry \in Truncated THEN "FAILED" ELSE "COMPLETED"]
<1>1. completions \in Seq(Reader!Completion) /\ read \in Reader!Read
  BY DEF TypeOK
<1>2. completions' = Append(completions, done)
  BY DEF Reader!Complete
<1>3. done \in Reader!Completion /\ (done \in Of(o) <=> read.object = o)
  BY <1>1 DEF Reader!Read, Reader!Completion, Of
<1> HIDE DEF done
<1>4. completions' \in Seq(Reader!Completion)
  BY <1>1, <1>2, <1>3
<1>5. Cardinality(Places(Append(completions, done), Of(o))) =
         Cardinality(Places(completions, Of(o))) + (IF done \in Of(o) THEN 1 ELSE 0)
  BY <1>1, <1>3, CountAppend
<1>6. Residue(o)' = Cardinality(Places(completions', Of(o)))
  <2>1. {n \in DOMAIN completions' : completions'[n].object = o} = Places(completions', Of(o))
    BY <1>4 DEF Places, Of
  <2> QED
    BY <2>1, Zenon DEF Residue
<1> QED
  BY <1>1, <1>2, <1>3, <1>5, <1>6, ResiduePlaces

(* Taking one removes it, and no other.                                    *)
LEMMA TakeResidue ==
    ASSUME TypeOK, NEW p, NEW n \in DOMAIN completions, Reader!TakeOldest(p, n), NEW o
    PROVE  Residue(o)' = Residue(o) - (IF p = o THEN 1 ELSE 0)
<1>1. completions \in Seq(Reader!Completion) /\ n \in 1 .. Len(completions)
  BY DEF TypeOK
<1>2. completions' = RemoveAt(completions, n) /\ completions[n].object = p
  BY DEF Reader!TakeOldest, Reader!Oldest, Reader!RemoveAt, RemoveAt
<1>3. completions[n] \in Of(o) <=> p = o
  BY <1>1, <1>2 DEF Of
<1>4. completions' \in Seq(Reader!Completion)
  BY <1>1, <1>2, RemoveAtLemma
<1>5. Cardinality(Places(RemoveAt(completions, n), Of(o))) =
         Cardinality(Places(completions, Of(o))) - (IF completions[n] \in Of(o) THEN 1 ELSE 0)
  BY <1>1, CountRemoveAt
<1>6. Residue(o)' = Cardinality(Places(completions', Of(o)))
  <2>1. {m \in DOMAIN completions' : completions'[m].object = o} = Places(completions', Of(o))
    BY <1>4 DEF Places, Of
  <2> QED
    BY <2>1, Zenon DEF Residue
<1> QED
  BY <1>1, <1>2, <1>3, <1>5, <1>6, ResiduePlaces

(* A step leaves no more completions behind than the replays made so far   *)
(* allow.                                                                  *)
LEMMA ResidueStep ==
    TypeOK /\ InBounds /\ ResidueInv /\ [Next]_vars => ResidueInv'
<1> SUFFICES ASSUME TypeOK, InBounds, ResidueInv, [Next]_vars PROVE ResidueInv'
  OBVIOUS
<1>0. /\ replays \in Nat /\ prefetched \in SUBSET Objects
      /\ ordered \in Seq(Objects) /\ i \in 1 .. Len(ordered) + 1
      /\ lookahead \in Nat
      /\ \A o \in Objects : Residue(o) \in Nat
  BY ReplayAssumption, ResiduePlaces DEF TypeOK
<1>1. ASSUME NEW events \in Traces, NEW layout \in [Objects -> Entries],
             StartReplay(events, layout)
      PROVE  ResidueInv'
  <2>1. /\ replays' = replays + 1 /\ completions' = completions
        /\ pc = "idle" /\ pc' = "event" /\ prefetched' = {}
    BY <1>1 DEF StartReplay, service
  <2>2. ASSUME NEW o \in Objects PROVE Residue(o)' <= replays' - 1 + Behind(o)'
    <3>1. Residue(o)' = Residue(o)
      BY <2>1 DEF Residue
    <3>2. Behind(o)' = 0
      BY <2>1 DEF Behind
    <3>3. CASE replays = 0
      <4>1. {n \in DOMAIN completions : completions[n].object = o} = {}
        BY <3>3 DEF ResidueInv
      <4>2. Residue(o) = 0
        BY <4>1, FS_EmptySet, Zenon DEF Residue
      <4> QED
        BY <2>1, <3>1, <3>2, <3>3, <4>2
    <3>4. CASE replays > 0
      <4>1. Behind(o) \in 0 .. 1
        BY <2>1 DEF Behind
      <4> QED
        BY <1>0, <2>1, <3>1, <3>2, <3>4, <4>1 DEF ResidueInv
    <3> QED
      BY <1>0, <3>3, <3>4
  <2> QED
    BY <1>0, <2>1, <2>2 DEF ResidueInv
<1>2. CASE FutureRead
  <2>1. /\ pc = "read_ahead" /\ pc' = "lookahead" /\ UNCHANGED <<ordered, i, replays>>
        /\ prefetched' = prefetched \cup {Future}
    BY <1>2 DEF FutureRead, Recorded, trace
  <2>2. PICK read \in inflight : read.object = Future /\ Reader!Complete(read)
    BY <1>2 DEF FutureRead
  <2>3. replays > 0 /\ Future \notin prefetched
    BY <1>0, <2>1 DEF ResidueInv
  <2>4. ASSUME NEW o \in Objects PROVE Residue(o)' <= replays - 1 + Behind(o)'
    <3>1. Residue(o)' = Residue(o) + (IF Future = o THEN 1 ELSE 0)
      BY <2>2, CompleteResidue
    <3>2. Behind(o)' = Behind(o) + (IF Future = o THEN 1 ELSE 0)
      BY <2>1, <2>3 DEF Behind
    <3>3. Behind(o) \in 0 .. 2
      BY DEF Behind
    <3> QED
      BY <1>0, <2>3, <3>1, <3>2, <3>3 DEF ResidueInv
  <2> QED
    BY <2>1, <2>3, <2>4 DEF ResidueInv
<1>3. CASE DemandRead
  <2>1. /\ pc = "read" /\ pc' = "wait"
        /\ UNCHANGED <<ordered, i, replays, prefetched>>
    BY <1>3 DEF DemandRead, trace
  <2>2. PICK read \in inflight : read.object = ordered[i] /\ Reader!Complete(read)
    BY <1>3 DEF DemandRead
  <2>3. replays > 0
    BY <1>0, <2>1 DEF ResidueInv
  <2>4. ASSUME NEW o \in Objects PROVE Residue(o)' <= replays - 1 + Behind(o)'
    <3>1. Residue(o)' = Residue(o) + (IF ordered[i] = o THEN 1 ELSE 0)
      BY <2>2, CompleteResidue
    <3>2. Behind(o)' = Behind(o) + (IF ordered[i] = o THEN 1 ELSE 0)
      BY <2>1 DEF Behind
    <3>3. Behind(o) \in 0 .. 2
      BY DEF Behind
    <3> QED
      BY <1>0, <2>3, <3>1, <3>2, <3>3 DEF ResidueInv
  <2> QED
    BY <2>1, <2>3, <2>4 DEF ResidueInv
<1>4. CASE Demanded
  <2>1. /\ pc = "wait" /\ pc' = "event" /\ UNCHANGED <<ordered, replays, prefetched>>
    BY <1>4 DEF Demanded, trace
  <2>2. PICK n \in DOMAIN completions : Reader!TakeOldest(ordered[i], n)
    BY <1>4 DEF Demanded, Taken
  <2>3. replays > 0
    BY <1>0, <2>1 DEF ResidueInv
  <2>4. ASSUME NEW o \in Objects PROVE Residue(o)' <= replays - 1 + Behind(o)'
    <3>1. Residue(o)' = Residue(o) - (IF ordered[i] = o THEN 1 ELSE 0)
      BY <2>2, TakeResidue
    <3>2. Behind(o)' = Behind(o) - (IF ordered[i] = o THEN 1 ELSE 0)
      BY <2>1 DEF Behind
    <3>3. Behind(o) \in 0 .. 2
      BY DEF Behind
    <3> QED
      BY <1>0, <2>3, <3>1, <3>2, <3>3 DEF ResidueInv
  <2> QED
    BY <2>1, <2>3, <2>4 DEF ResidueInv
\* The other steps leave the queue and the records of the replay alone.
<1>5. CASE FinishReplay \/ DramHit \/ DramMiss \/ EndLookahead \/ SkipFuture
             \/ SubmitFuture \/ DemandRefused \/ SubmitDemand \/ ReadRaises
             \/ UNCHANGED vars
  <2>1. UNCHANGED <<completions, replays, prefetched, ordered>>
    BY <1>5 DEF FinishReplay, DramHit, DramMiss, EndLookahead, SkipFuture, SubmitFuture,
       DemandRefused, SubmitDemand, ReadRaises, vars, service, trace, Reader!Accept
  <2>2. /\ pc' = "wait" <=> pc = "wait"
        /\ pc = "wait" => i' = i
        /\ replays = 0 => pc' = "idle"
        /\ pc' = "read_ahead" => Future \notin prefetched /\ UNCHANGED <<i, lookahead>>
    BY <1>5 DEF FinishReplay, DramHit, DramMiss, EndLookahead, SkipFuture, SubmitFuture,
       DemandRefused, SubmitDemand, ReadRaises, vars, ResidueInv
  <2>3. \A o \in Objects : Residue(o)' = Residue(o) /\ Behind(o)' = Behind(o)
    BY <2>1, <2>2 DEF Residue, Behind
  <2>4. pc' = "read_ahead" => Future' = Future
    BY <2>1, <2>2 DEF Future
  <2> QED
    BY <2>1, <2>2, <2>3, <2>4 DEF ResidueInv
<1> QED
  BY <1>1, <1>2, <1>3, <1>4, <1>5 DEF Next, ReplayStep

(* For any traces, look-ahead and number of replays: what nobody takes     *)
(* from the queue of the reader is at most one completion of an object for *)
(* each replay.                                                            *)
THEOREM QueueGrowsByReplays == Spec => []ResidueBounded
<1>1. Init => ResidueInv
  BY DEF Init, ResidueInv, Reader!ServiceInit
<1>2. TypeOK /\ ResidueInv => ResidueBounded
  <2> SUFFICES ASSUME TypeOK, ResidueInv, NEW o \in Objects
               PROVE  Residue(o) <= replays + IF pc = "wait" /\ ordered[i] = o THEN 1 ELSE 0
    BY DEF ResidueBounded
  <2>1. replays \in Nat /\ Residue(o) \in Nat
    BY ReplayAssumption, ResiduePlaces DEF TypeOK
  <2>2. CASE replays = 0
    <3>1. {n \in DOMAIN completions : completions[n].object = o} = {}
      BY <2>2 DEF ResidueInv
    <3>2. Residue(o) = 0
      BY <3>1, FS_EmptySet, Zenon DEF Residue
    <3> QED
      BY <2>2, <3>2
  <2>3. CASE replays > 0
    BY <2>1, <2>3 DEF ResidueInv, Behind
  <2> QED
    BY <2>1, <2>2, <2>3
<1> QED
  BY <1>1, <1>2, InitReplay, ReplayInvStep, InitTypes, TypesStep, ResidueStep, PTL DEF Spec
============================================================================
